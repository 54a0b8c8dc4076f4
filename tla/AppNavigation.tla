---------------------------- MODULE AppNavigation ----------------------------
(****************************************************************************)
(* The screens of the app on their one navigation stack: who pushes whom,   *)
(* what is pushed late by an answer, and the trip switch of the main screen *)
(* with its alert.                                                          *)
(*                                                                          *)
(* A screen is pushed above whatever is on top, also when the screen that   *)
(* pushes it is not: the login screen at the end of a sign-in, the tag      *)
(* search at the end of a download.  A screen off the stack has no          *)
(* navigation controller and pushes nothing.                                *)
(****************************************************************************)
EXTENDS Naturals, Sequences, FiniteSets, SequencesExt

CONSTANTS
    NoAlert,
    MaxSignIns, \* bound: taps on Continue
    MaxTaps,    \* bound: taps on pictures found
    MaxScreens  \* bound: screens ever made

ASSUME NavigationAssumption ==
    /\ NoAlert \notin Nat
    /\ MaxSignIns \in Nat
    /\ MaxTaps \in Nat
    /\ MaxScreens \in Nat \ {0}

Kinds == {"Login", "Main", "Travel", "Detail", "Map", "Gallery", "Search", "Story"}

VARIABLES
    screens, \* every screen made: its kind, the screen that pushed it, and
             \* whether its switch is on (Main's only)
    stack,   \* the navigation controller's stack, as positions in screens
    signIns, \* sign-ins under way
    asked,   \* taps on Continue so far
    answers, \* downloads under way, each as the Search screen it was tapped on
             \* and its number
    tapped,  \* taps on pictures found so far
    alert,   \* the Main screen whose alert is shown, or NoAlert
    process  \* "running", or what killed the app

pending == <<signIns, asked, answers, tapped>>
vars == <<screens, stack, pending, alert, process>>

Kind(s) == screens[s].kind
Top == Last(stack)
Running == process = "running"

\* The user touches the screen on top, if no alert is in the way.
Touches(kind) == Running /\ alert = NoAlert /\ Kind(Top) = kind

\* pushViewController, by the screen s.
Push(s, kind) ==
    /\ Len(screens) < MaxScreens
    /\ screens' = Append(screens, [kind |-> kind, opener |-> s, on |-> FALSE])
    /\ stack' = Append(stack, Len(screens) + 1)

\* The storyboard's initial controller shows the login screen.
Init ==
    /\ screens = <<[kind |-> "Login", opener |-> 1, on |-> FALSE]>>
    /\ stack = <<1>>
    /\ signIns = 0
    /\ asked = 0
    /\ answers = {}
    /\ tapped = 0
    /\ alert = NoAlert
    /\ process = "running"

-----------------------------------------------------------------------------
\* The login screen's Continue; LoginFlow has the rest.
Continue ==
    /\ Touches("Login")
    /\ asked < MaxSignIns
    /\ asked' = asked + 1
    /\ signIns' = signIns + 1
    /\ UNCHANGED <<screens, stack, answers, tapped, alert, process>>

\* A sign-in ends, well or not; a main screen goes on top, of anything.
SignedIn ==
    /\ Running
    /\ signIns > 0
    /\ signIns' = signIns - 1
    /\ Push(1, "Main")
    /\ UNCHANGED <<asked, answers, tapped, alert, process>>

SignInFailed ==
    /\ Running
    /\ signIns > 0
    /\ signIns' = signIns - 1
    /\ UNCHANGED <<screens, stack, asked, answers, tapped, alert, process>>

\* A touch on a screen of kind from pushes one of kind to.
Opens(from, to) == Touches(from) /\ Push(Top, to) /\ UNCHANGED <<pending, alert, process>>

GoTravel == Opens("Main", "Travel")
GoGallery == Opens("Main", "Gallery")
SelectCountry == Opens("Main", "Detail") \/ Opens("Travel", "Detail")
SelectDay == Opens("Detail", "Map")

\* mapView(_:didSelect:), for every pin and also the user's location.
SelectPin == Opens("Map", "Gallery")

\* The gallery's button, or a touch on its search bar.
GoSearch == Opens("Gallery", "Search")

\* A picture of the gallery is tapped: its story gets the bundle's image of the
\* same name, and traps in viewDidLoad if there is none.
SelectPicture ==
    \/ Opens("Gallery", "Story")
    \/ /\ Touches("Gallery")
       /\ process' = "noImage"
       /\ UNCHANGED <<screens, stack, pending, alert>>

\* A picture found is tapped: its story is pushed when the download ends.
SelectFound ==
    /\ Touches("Search")
    /\ tapped < MaxTaps
    /\ tapped' = tapped + 1
    /\ answers' = answers \cup {<<Top, tapped'>>}
    /\ UNCHANGED <<screens, stack, signIns, asked, alert, process>>

\* Mutant: the closure holds the navigation controller, not the screen.
AnswerAnyway(d) ==
    /\ Running
    /\ d \in answers
    /\ answers' = answers \ {d}
    /\ Push(d[1], "Story")
    /\ UNCHANGED <<signIns, asked, tapped, alert, process>>

\* A download ends; a search screen off the stack pushes nothing.
Answer(d) ==
    /\ Running
    /\ d \in answers
    /\ answers' = answers \ {d}
    /\ IF d[1] \in ToSet(stack) THEN Push(d[1], "Story") ELSE UNCHANGED <<screens, stack>>
    /\ UNCHANGED <<signIns, asked, tapped, alert, process>>

\* The back button of the navigation bar, which Main hides and the root has not.
Back ==
    /\ Running
    /\ alert = NoAlert
    /\ Kind(Top) \notin {"Login", "Main"}
    /\ stack' = Front(stack)
    /\ UNCHANGED <<screens, pending, alert, process>>

-----------------------------------------------------------------------------
\* Mutant: the switch is not set back before the question is asked.
ToggleAtOnce ==
    /\ Touches("Main")
    /\ screens' = [screens EXCEPT ![Top].on = ~@]
    /\ alert' = Top
    /\ UNCHANGED <<stack, pending, process>>

\* switchValueChanged: the switch the user has just moved is set back, and an
\* alert asks whether the trip shall start, or end.
Toggle ==
    /\ Touches("Main")
    /\ alert' = Top
    /\ UNCHANGED <<screens, stack, pending, process>>

\* The alert's "OK" moves the switch of the screen that asked; "Cancel" does not.
AnswerOK ==
    /\ Running
    /\ alert # NoAlert
    /\ screens' = [screens EXCEPT ![alert].on = ~@]
    /\ alert' = NoAlert
    /\ UNCHANGED <<stack, pending, process>>

AnswerCancel ==
    /\ Running
    /\ alert # NoAlert
    /\ alert' = NoAlert
    /\ UNCHANGED <<screens, stack, pending, process>>

Next ==
    \/ Continue \/ SignedIn \/ SignInFailed
    \/ GoTravel \/ GoGallery \/ SelectCountry \/ SelectDay \/ SelectPin
    \/ GoSearch \/ SelectPicture \/ SelectFound
    \/ \E d \in answers : Answer(d)
    \/ Back
    \/ Toggle \/ AnswerOK \/ AnswerCancel

Spec == Init /\ [][Next]_vars

-----------------------------------------------------------------------------
TypeOK ==
    /\ screens \in Seq([kind : Kinds, opener : 1 .. Len(screens), on : BOOLEAN])
    /\ stack \in Seq(DOMAIN screens)
    /\ stack # <<>>
    /\ signIns \in 0 .. asked
    /\ asked \in 0 .. MaxSignIns
    /\ answers \subseteq (DOMAIN screens) \X (1 .. tapped)
    /\ tapped \in 0 .. MaxTaps
    /\ alert = NoAlert \/ (alert \in ToSet(stack) /\ Kind(alert) = "Main")
    /\ \A s \in DOMAIN screens : screens[s].on => Kind(s) = "Main"
    /\ process \in {"running", "noImage"}

\* A screen on the stack stands somewhere above the one that pushed it, so that
\* going back from anywhere retraces the way, and no screen is there twice.
OpenerBelow ==
    /\ \A n \in 2 .. Len(stack) : \E m \in 1 .. (n - 1) : stack[m] = screens[stack[n]].opener
    /\ IsInjective(stack)

\* A switch moves only by the OK to its own screen's question, even if another
\* main screen has come on top meanwhile.
SwitchAwaitsAnswer ==
    [][\A s \in DOMAIN screens : screens'[s].on # screens[s].on =>
          alert = s /\ alert' = NoAlert]_vars
=============================================================================
