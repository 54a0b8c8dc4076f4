----------------------------- MODULE ScreensProofs -----------------------------
(****************************************************************************)
(* The screens the user goes between and the pictures in their lists.       *)
(*                                                                          *)
(* Navigation: going back retraces the way, however late an answer pushes,  *)
(* and a trip's switch moves only by the answer to its own question, for    *)
(* any number of screens, sign-ins and downloads.                           *)
(*                                                                          *)
(* Pictures: no cell shows the picture of a row it never stood at, for any  *)
(* rows, cells, versions and any number of dequeues.                        *)
(*                                                                          *)
(* The list of countries: its rows are those of the array the callbacks     *)
(* read, and it is the list screen it promises to be, for any countries,    *)
(* documents and searches.                                                  *)
(****************************************************************************)
EXTENDS AppNavigation, PictureCells, TravelScreen, FiniteSetTheorems, SequenceTheorems, TLAPS

Records(n) == [kind : Kinds, opener : 1..n, on : BOOLEAN]

\* The login screen is never left: whoever pushes from below is still there.
RootIsLogin == stack[1] = 1 /\ Kind(1) = "Login"

IInv ==
    /\ TypeOK
    /\ RootIsLogin
    /\ OpenerBelow

CountersOK ==
    /\ signIns \in 0..asked
    /\ asked \in 0..MaxSignIns
    /\ tapped \in 0..MaxTaps
    /\ \A d \in answers : d \in (1..Len(screens)) \X (1..tapped)

-----------------------------------------------------------------------------
LEMMA RecordsGrow ==
    ASSUME NEW n \in Nat
    PROVE  Records(n) \subseteq Records(n + 1) /\ 1..n \subseteq 1..(n + 1)
<1>1. 1..n \subseteq 1..(n + 1)
  OBVIOUS
<1> QED BY <1>1 DEF Records

LEMMA Switched ==
    ASSUME NEW n, NEW s \in Records(n), NEW b \in BOOLEAN
    PROVE  LET r == [s EXCEPT !.on = b]
           IN  r \in Records(n) /\ r.kind = s.kind /\ r.opener = s.opener
BY DEF Records

LEMMA Facts ==
    ASSUME IInv
    PROVE  /\ screens \in Seq(Records(Len(screens)))
           /\ Len(screens) \in Nat /\ DOMAIN screens = 1..Len(screens)
           /\ \A s \in 1..Len(screens) : screens[s] \in Records(Len(screens))
           /\ stack \in Seq(DOMAIN screens)
           /\ Len(stack) \in Nat \ {0} /\ DOMAIN stack = 1..Len(stack)
           /\ \A n \in 1..Len(stack) : stack[n] \in 1..Len(screens)
           /\ Top \in ToSet(stack) /\ Top = stack[Len(stack)]
           /\ 1 \in ToSet(stack)
           /\ \A s \in ToSet(stack) : /\ s \in 1..Len(screens)
                                      /\ \E n \in 1..Len(stack) : s = stack[n]
           /\ CountersOK
<1>1. screens \in Seq(Records(Len(screens)))
  BY DEF IInv, TypeOK, Records
<1>2. /\ Len(screens) \in Nat /\ DOMAIN screens = 1..Len(screens)
      /\ \A s \in 1..Len(screens) : screens[s] \in Records(Len(screens))
  BY <1>1, LenProperties, ElementOfSeq
<1>3. stack \in Seq(DOMAIN screens) /\ Len(stack) \in Nat \ {0}
  BY EmptySeq DEF IInv, TypeOK
<1>4. DOMAIN stack = 1..Len(stack) /\ \A n \in 1..Len(stack) : stack[n] \in DOMAIN screens
  BY <1>3, LenProperties, ElementOfSeq
<1>5. Top = stack[Len(stack)] /\ Top \in ToSet(stack)
  BY <1>3, <1>4 DEF Top, Last, ToSet
<1>6. 1 \in ToSet(stack)
  <2>1. 1 \in DOMAIN stack
    BY <1>3, <1>4
  <2>2. stack[1] = 1
    BY DEF IInv, RootIsLogin
  <2> QED BY <2>1, <2>2 DEF ToSet
<1>7. \A s \in ToSet(stack) : s \in 1..Len(screens) /\ \E n \in 1..Len(stack) : s = stack[n]
  BY <1>2, <1>4 DEF ToSet
<1>8. CountersOK
  BY <1>2 DEF IInv, TypeOK, CountersOK
<1> QED BY <1>1, <1>2, <1>3, <1>4, <1>5, <1>6, <1>7, <1>8

\* No answer's screen goes out of range when one is pushed.
LEMMA PushCounters ==
    ASSUME IInv, NEW s, NEW kind \in Kinds, s \in ToSet(stack), Push(s, kind),
           signIns' \in 0..asked', asked' \in 0..MaxSignIns, tapped' = tapped,
           answers' \subseteq answers
    PROVE  CountersOK'
<1>1. Len(screens) \in Nat /\ CountersOK
  BY Facts
<1>2. Len(screens') = Len(screens) + 1
  <2> DEFINE new == [kind |-> kind, opener |-> s, on |-> FALSE]
  <2>1. screens' = Append(screens, new)
    BY DEF Push
  <2>2. new \in [kind : Kinds, opener : 1..Len(screens), on : BOOLEAN]
    BY Facts
  <2> HIDE DEF new
  <2>3. screens \in Seq([kind : Kinds, opener : 1..Len(screens), on : BOOLEAN])
    BY DEF IInv, TypeOK
  <2> QED BY <2>1, <2>2, <2>3, AppendProperties
<1> QED BY <1>1, <1>2 DEF CountersOK

\* A step on the screens as they are.
LEMMA StayStep ==
    ASSUME IInv, UNCHANGED <<screens, stack>>, CountersOK',
           process' \in {"running", "noImage"},
           \/ alert' = alert
           \/ alert' = NoAlert
           \/ alert' \in ToSet(stack) /\ Kind(alert') = "Main"
    PROVE  IInv'
<1>1. answers' \subseteq (DOMAIN screens) \X (1..tapped')
  BY Facts DEF CountersOK
<1>2. alert' = NoAlert \/ (alert' \in ToSet(stack)' /\ Kind(alert)' = "Main")
  BY DEF IInv, TypeOK, ToSet, Kind
<1>3. \A s \in DOMAIN screens' : screens'[s].on => Kind(s)' = "Main"
  BY DEF IInv, TypeOK, Kind
<1>4. screens' \in Seq([kind : Kinds, opener : 1..Len(screens'), on : BOOLEAN])
  BY DEF IInv, TypeOK
<1>5. TypeOK'
  BY <1>1, <1>2, <1>3, <1>4 DEF IInv, TypeOK, CountersOK
<1>6. RootIsLogin'
  BY DEF IInv, RootIsLogin, Kind
<1>7. OpenerBelow'
  BY DEF IInv, OpenerBelow, IsInjective
<1> QED BY <1>5, <1>6, <1>7 DEF IInv

\* A screen more on top, pushed by one that is on the stack.
LEMMA PushStep ==
    ASSUME IInv, NEW s \in ToSet(stack), NEW kind \in Kinds, Push(s, kind),
           UNCHANGED <<alert, process>>, CountersOK'
    PROVE  IInv'
<1> DEFINE n == Len(screens)
           new == [kind |-> kind, opener |-> s, on |-> FALSE]
<1>1. screens' = Append(screens, new) /\ stack' = Append(stack, n + 1)
  BY DEF Push
<1>2. /\ n \in Nat /\ Len(stack) \in Nat \ {0}
      /\ screens \in Seq(Records(n)) /\ stack \in Seq(1..n)
      /\ DOMAIN screens = 1..n /\ DOMAIN stack = 1..Len(stack)
      /\ \A m \in 1..Len(stack) : stack[m] \in 1..n
      /\ \A q \in 1..n : screens[q] \in Records(n)
  BY Facts
<1>3. s \in 1..n /\ \E m \in 1..Len(stack) : s = stack[m]
  BY Facts
<1>4. new \in Records(n + 1) /\ new.opener = s /\ new.on = FALSE
  BY <1>2, <1>3 DEF Records
<1>5. screens \in Seq(Records(n + 1)) /\ stack \in Seq(1..(n + 1))
  <2>1. Records(n) \subseteq Records(n + 1) /\ 1..n \subseteq 1..(n + 1)
    BY <1>2, RecordsGrow
  <2> QED BY <1>2, <2>1, SeqMonotonic
<1> HIDE DEF new
<1>6. /\ screens' \in Seq(Records(n + 1)) /\ Len(screens') = n + 1
      /\ \A q \in 1..n : screens'[q] = screens[q]
      /\ screens'[n + 1] = new
  BY <1>1, <1>4, <1>5, AppendProperties
<1>7. n + 1 \in 1..(n + 1)
  BY <1>2
<1>8. /\ stack' \in Seq(1..(n + 1)) /\ stack' # <<>> /\ Len(stack') = Len(stack) + 1
      /\ \A m \in 1..Len(stack) : stack'[m] = stack[m]
      /\ stack'[Len(stack) + 1] = n + 1
  BY <1>1, <1>5, <1>7, AppendProperties
<1>9. DOMAIN screens' = 1..(n + 1) /\ DOMAIN stack' = 1..(Len(stack) + 1)
  BY <1>6, <1>8, LenProperties
<1> HIDE DEF n
<1>10. \A q \in DOMAIN screens' : q \in 1..n \/ q = n + 1
  BY <1>2, <1>9
<1>11. \A m \in DOMAIN stack' : m \in 1..Len(stack) \/ m = Len(stack) + 1
  BY <1>2, <1>9
<1>12. TypeOK'
  <2>1. ToSet(stack) \subseteq ToSet(stack)'
    BY <1>2, <1>8, <1>9 DEF ToSet
  <2>2. alert' = NoAlert \/ (alert' \in ToSet(stack)' /\ Kind(alert)' = "Main")
    <3>1. CASE alert = NoAlert
      BY <3>1
    <3>2. CASE alert # NoAlert
      <4>1. alert \in ToSet(stack) /\ screens[alert].kind = "Main"
        BY <3>2 DEF IInv, TypeOK, Kind
      <4>2. alert \in 1..n
        BY <1>2, <4>1 DEF ToSet
      <4> QED BY <1>6, <2>1, <4>1, <4>2 DEF Kind
    <3> QED BY <3>1, <3>2
  <2>3. ASSUME NEW q \in DOMAIN screens', screens'[q].on
        PROVE  Kind(q)' = "Main"
    <3>1. CASE q \in 1..n
      BY <1>2, <1>6, <2>3, <3>1 DEF IInv, TypeOK, Kind
    <3>2. CASE q = n + 1
      BY <1>4, <1>6, <2>3, <3>2
    <3> QED BY <1>10, <3>1, <3>2
  <2>4. screens' \in Seq([kind : Kinds, opener : 1..Len(screens'), on : BOOLEAN])
    BY <1>6 DEF Records
  <2>5. stack' \in Seq(DOMAIN screens')
    BY <1>8, <1>9
  <2>6. answers' \subseteq (DOMAIN screens') \X (1..tapped')
    BY <1>6, <1>9 DEF CountersOK
  <2> QED BY <1>8, <2>2, <2>3, <2>4, <2>5, <2>6 DEF IInv, TypeOK, CountersOK
<1>13. RootIsLogin'
  BY <1>2, <1>6, <1>8 DEF IInv, RootIsLogin, Kind
<1>14. IsInjective(stack')
  <2>1. ASSUME NEW a \in DOMAIN stack', NEW b \in DOMAIN stack', stack'[a] = stack'[b]
        PROVE  a = b
    <3>1. \A m \in 1..Len(stack) : stack'[m] = stack[m] /\ stack'[m] # n + 1
      BY <1>2, <1>8
    <3>2. CASE a = Len(stack) + 1 /\ b = Len(stack) + 1
      BY <3>2
    <3>3. CASE a \in 1..Len(stack) /\ b \in 1..Len(stack)
      BY <1>2, <2>1, <3>1, <3>3 DEF IInv, OpenerBelow, IsInjective
    <3> QED BY <1>8, <1>11, <2>1, <3>1, <3>2, <3>3
  <2> QED BY <2>1 DEF IsInjective
<1>15. ASSUME NEW m \in 2..Len(stack')
       PROVE  \E l \in 1..(m - 1) : stack'[l] = screens'[stack'[m]].opener
  <2>1. CASE m \in 2..Len(stack)
    <3>1. PICK l \in 1..(m - 1) : stack[l] = screens[stack[m]].opener
      BY <2>1 DEF IInv, OpenerBelow
    <3>2. l \in 1..Len(stack) /\ m \in 1..Len(stack) /\ stack[m] \in 1..n
      BY <1>2, <2>1
    <3>3. stack'[l] = stack[l] /\ screens'[stack'[m]] = screens[stack[m]]
      BY <1>6, <1>8, <3>2
    <3> QED BY <3>1, <3>3
  <2>2. CASE m = Len(stack) + 1
    <3>1. PICK l \in 1..Len(stack) : s = stack[l]
      BY <1>3
    <3>2. l \in 1..(m - 1)
      BY <1>2, <2>2
    <3>3. stack'[l] = s /\ screens'[stack'[m]].opener = s
      BY <1>4, <1>6, <1>8, <2>2, <3>1
    <3> QED BY <3>2, <3>3
  <2> QED BY <1>2, <1>8, <2>1, <2>2
<1>16. OpenerBelow'
  BY <1>14, <1>15 DEF OpenerBelow
<1> QED BY <1>12, <1>13, <1>16 DEF IInv

\* A touch on the top screen opens another above it.
LEMMA OpensStep ==
    ASSUME IInv, NEW from \in Kinds, NEW to \in Kinds, Opens(from, to)
    PROVE  IInv'
<1>1. Push(Top, to) /\ UNCHANGED <<pending, alert, process>>
  BY DEF Opens
<1>2. Top \in ToSet(stack) /\ CountersOK /\ Len(screens) \in Nat
  BY Facts
<1>3. CountersOK'
  BY <1>1, <1>2, PushCounters DEF CountersOK, pending
<1> QED BY <1>1, <1>2, <1>3, PushStep

LEMMA SignedInStep ==
    ASSUME IInv, SignedIn
    PROVE  IInv'
<1>1. /\ Push(1, "Main") /\ signIns > 0 /\ signIns' = signIns - 1
      /\ UNCHANGED <<asked, answers, tapped, alert, process>>
  BY DEF SignedIn
<1>2. 1 \in ToSet(stack) /\ CountersOK /\ "Main" \in Kinds
  BY Facts DEF Kinds
<1>3. signIns' \in 0..asked' /\ asked' \in 0..MaxSignIns
  BY <1>1, <1>2, NavigationAssumption DEF CountersOK
<1>4. CountersOK'
  BY <1>1, <1>2, <1>3, PushCounters
<1> QED BY <1>1, <1>2, <1>4, PushStep

LEMMA AnswerStep ==
    ASSUME IInv, NEW d \in answers, Answer(d)
    PROVE  IInv'
<1>1. /\ answers' = answers \ {d} /\ UNCHANGED <<signIns, asked, tapped, alert, process>>
      /\ IF d[1] \in ToSet(stack) THEN Push(d[1], "Story") ELSE UNCHANGED <<screens, stack>>
  BY DEF Answer
<1>2. CountersOK /\ "Story" \in Kinds /\ process \in {"running", "noImage"}
  BY Facts DEF Kinds, IInv, TypeOK
<1>3. CASE d[1] \in ToSet(stack)
  <2>1. Push(d[1], "Story")
    BY <1>1, <1>3
  <2>2. CountersOK'
    BY <1>1, <1>2, <1>3, <2>1, PushCounters DEF CountersOK
  <2> QED BY <1>1, <1>2, <1>3, <2>1, <2>2, PushStep
<1>4. CASE d[1] \notin ToSet(stack)
  <2>1. UNCHANGED <<screens, stack>> /\ CountersOK'
    BY <1>1, <1>2, <1>4 DEF CountersOK
  <2> QED BY <1>1, <1>2, <2>1, StayStep
<1> QED BY <1>3, <1>4

\* What is left after going back is what was there before the screen was pushed.
LEMMA BackStep ==
    ASSUME IInv, Back
    PROVE  IInv'
<1>1. /\ alert = NoAlert /\ stack' = Front(stack) /\ UNCHANGED <<screens, pending, alert, process>>
      /\ Kind(Top) # "Login"
  BY DEF Back
<1>2. /\ Len(stack) \in Nat \ {0} /\ stack \in Seq(DOMAIN screens)
      /\ \A m \in 1..Len(stack) : stack[m] \in DOMAIN screens
      /\ Top = stack[Len(stack)] /\ DOMAIN stack = 1..Len(stack)
  BY Facts
<1>3. Len(stack) # 1
  BY <1>1, <1>2 DEF IInv, RootIsLogin
<1> DEFINE n == Len(stack) - 1
<1>4. n \in Nat \ {0} /\ n \in Int /\ 1..n \subseteq 1..Len(stack)
  BY <1>2, <1>3
<1> HIDE DEF n
<1>5. /\ stack' \in Seq(DOMAIN screens) /\ Len(stack') = n
      /\ \A m \in 1..n : stack'[m] = stack[m]
  <2>1. stack' = SubSeq(stack, 1, n)
    BY <1>1 DEF Front, n
  <2>2. \A m \in 1..n : stack[m] \in DOMAIN screens
    BY <1>2, <1>4
  <2>3. /\ SubSeq(stack, 1, n) \in Seq(DOMAIN screens)
        /\ Len(SubSeq(stack, 1, n)) = IF 1 <= n THEN n - 1 + 1 ELSE 0
        /\ \A m \in 1..(n - 1 + 1) : SubSeq(stack, 1, n)[m] = stack[1 + m - 1]
    BY <1>4, <2>2, SubSeqProperties
  <2>4. n - 1 + 1 = n /\ 1 <= n /\ \A m \in 1..n : 1 + m - 1 = m
    BY <1>4
  <2> QED BY <2>1, <2>3, <2>4
<1>6. DOMAIN stack' = 1..n
  BY <1>5, LenProperties
<1>7. stack' # <<>>
  BY <1>4, <1>5, EmptySeq
<1>8. TypeOK'
  BY <1>1, <1>5, <1>7 DEF IInv, TypeOK, Kind, pending
<1>9. RootIsLogin'
  BY <1>1, <1>4, <1>5 DEF IInv, RootIsLogin, Kind
<1>10. IsInjective(stack')
  BY <1>2, <1>4, <1>5, <1>6 DEF IInv, OpenerBelow, IsInjective
<1>11. ASSUME NEW m \in 2..n
       PROVE  \E l \in 1..(m - 1) : stack'[l] = screens'[stack'[m]].opener
  <2>1. m \in 2..Len(stack) /\ m \in 1..n
    BY <1>2, <1>4 DEF n
  <2>2. PICK l \in 1..(m - 1) : stack[l] = screens[stack[m]].opener
    BY <2>1 DEF IInv, OpenerBelow
  <2>3. l \in 1..n
    BY <1>4
  <2> QED BY <1>1, <1>5, <2>1, <2>2, <2>3
<1>12. OpenerBelow'
  BY <1>5, <1>10, <1>11 DEF OpenerBelow
<1> QED BY <1>8, <1>9, <1>12 DEF IInv

\* The alert's OK moves one switch and nothing else.
LEMMA AnswerOKStep ==
    ASSUME IInv, AnswerOK
    PROVE  /\ IInv'
           /\ \A s \in DOMAIN screens : s # alert => screens'[s] = screens[s]
<1> DEFINE n == Len(screens)
           r == [screens[alert] EXCEPT !.on = ~@]
<1>1. /\ alert # NoAlert /\ alert' = NoAlert /\ screens' = [screens EXCEPT ![alert] = r]
      /\ UNCHANGED <<stack, pending, process>>
  BY DEF AnswerOK
<1>2. /\ screens \in Seq(Records(n)) /\ DOMAIN screens = 1..n
      /\ \A s \in 1..n : screens[s] \in Records(n)
  BY Facts
<1>3. alert \in ToSet(stack) /\ screens[alert].kind = "Main"
  BY <1>1 DEF IInv, TypeOK, Kind
<1>4. alert \in 1..n
  BY <1>3, Facts
<1>5. r \in Records(n) /\ r.kind = "Main" /\ r.opener = screens[alert].opener
  <2>1. (~screens[alert].on) \in BOOLEAN
    OBVIOUS
  <2>2. screens[alert] \in Records(n)
    BY <1>2, <1>4
  <2> QED BY <1>3, <2>1, <2>2, Switched, ZenonT(60)
<1> HIDE DEF r
<1>6. /\ screens' \in Seq(Records(n)) /\ Len(screens') = n
      /\ \A s \in 1..n : screens'[s] = IF s = alert THEN r ELSE screens[s]
  BY <1>1, <1>2, <1>4, <1>5, ExceptSeq
<1>7. DOMAIN screens' = 1..n
  BY <1>6, LenProperties
<1>8. \A s \in 1..n : /\ screens'[s].kind = screens[s].kind
                       /\ screens'[s].opener = screens[s].opener
  BY <1>3, <1>5, <1>6
<1>9. \A s \in 1..n : s # alert => screens'[s] = screens[s]
  BY <1>6
<1>10. TypeOK'
  <2>1. ASSUME NEW s \in 1..n, screens'[s].on PROVE screens'[s].kind = "Main"
    <3>1. CASE s = alert
      BY <1>3, <1>4, <1>8, <3>1
    <3>2. CASE s # alert
      BY <1>2, <1>9, <2>1, <3>2 DEF IInv, TypeOK, Kind
    <3> QED BY <3>1, <3>2
  <2>2. screens' \in Seq([kind : Kinds, opener : 1..Len(screens'), on : BOOLEAN])
    BY <1>6 DEF Records
  <2>3. DOMAIN screens' = DOMAIN screens
    BY <1>2, <1>7
  <2> QED BY <1>1, <1>7, <2>1, <2>2, <2>3 DEF IInv, TypeOK, Kind, pending
<1>11. RootIsLogin'
  <2>1. 1 \in 1..n
    BY Facts
  <2> QED BY <1>1, <1>8, <2>1 DEF IInv, RootIsLogin, Kind
<1>12. OpenerBelow'
  <2>1. IsInjective(stack')
    BY <1>1 DEF IInv, OpenerBelow
  <2>2. \A m \in 2..Len(stack) : stack[m] \in 1..n
    BY Facts
  <2> QED BY <1>1, <1>8, <2>1, <2>2 DEF IInv, OpenerBelow
<1> QED BY <1>2, <1>9, <1>10, <1>11, <1>12 DEF IInv

LEMMA InitIInv == Init => IInv
<1> SUFFICES ASSUME Init PROVE IInv
  OBVIOUS
<1> DEFINE r == [kind |-> "Login", opener |-> 1, on |-> FALSE]
<1>1. /\ screens = <<r>> /\ stack = <<1>> /\ signIns = 0 /\ asked = 0 /\ answers = {}
      /\ tapped = 0 /\ alert = NoAlert /\ process = "running"
  BY DEF Init
<1>2. Len(screens) = 1 /\ DOMAIN screens = {1} /\ screens[1] = r
  BY <1>1
<1>3. r \in Records(1) /\ r.on = FALSE /\ r.kind = "Login"
  BY DEF Records, Kinds
<1> HIDE DEF r
<1>4. screens \in Seq(Records(1))
  BY <1>1, <1>3
<1>5. stack \in Seq(DOMAIN screens) /\ stack # <<>>
  BY <1>1, <1>2
<1>6. TypeOK
  BY <1>1, <1>2, <1>3, <1>4, <1>5, NavigationAssumption DEF TypeOK, Records, Kind
<1>7. RootIsLogin
  BY <1>1, <1>2, <1>3 DEF RootIsLogin, Kind
<1>8. OpenerBelow
  BY <1>1 DEF OpenerBelow, IsInjective
<1> QED BY <1>6, <1>7, <1>8 DEF IInv

\* The counters of the steps that push nothing.
LEMMA QuietStep ==
    ASSUME IInv, Continue \/ SignInFailed \/ SelectFound \/ Toggle \/ AnswerCancel
    PROVE  IInv'
<1>1. CountersOK /\ process \in {"running", "noImage"} /\ Len(screens) \in Nat
  BY Facts DEF IInv, TypeOK
<1>2. CASE Continue
  <2>1. CountersOK' /\ UNCHANGED <<screens, stack, alert, process>>
    BY <1>1, <1>2, NavigationAssumption DEF Continue, CountersOK
  <2> QED BY <1>1, <2>1, StayStep
<1>3. CASE SignInFailed
  <2>1. CountersOK' /\ UNCHANGED <<screens, stack, alert, process>>
    BY <1>1, <1>3, NavigationAssumption DEF SignInFailed, CountersOK
  <2> QED BY <1>1, <2>1, StayStep
<1>4. CASE SelectFound
  <2>1. /\ tapped < MaxTaps /\ tapped' = tapped + 1 /\ answers' = answers \cup {<<Top, tapped'>>}
        /\ UNCHANGED <<screens, stack, signIns, asked, alert, process>>
    BY <1>4 DEF SelectFound
  <2>2. Top \in 1..Len(screens)
    BY Facts
  <2>3. tapped' \in 0..MaxTaps /\ tapped' \in 1..tapped' /\ 1..tapped \subseteq 1..tapped'
    BY <1>1, <2>1, NavigationAssumption DEF CountersOK
  <2>4. \A d \in answers' : d \in (1..Len(screens)) \X (1..tapped')
    BY <1>1, <2>1, <2>2, <2>3 DEF CountersOK
  <2>5. CountersOK'
    BY <1>1, <2>1, <2>3, <2>4 DEF CountersOK
  <2> QED BY <1>1, <2>1, <2>5, StayStep
<1>5. CASE Toggle
  <2>1. CountersOK' /\ UNCHANGED <<screens, stack, process>>
    BY <1>1, <1>5 DEF Toggle, pending, CountersOK
  <2>2. alert' \in ToSet(stack) /\ Kind(alert') = "Main"
    BY <1>5, Facts DEF Toggle, Touches
  <2> QED BY <1>1, <2>1, <2>2, StayStep
<1>6. CASE AnswerCancel
  <2>1. CountersOK' /\ UNCHANGED <<screens, stack, process>> /\ alert' = NoAlert
    BY <1>1, <1>6 DEF AnswerCancel, pending, CountersOK
  <2> QED BY <1>1, <2>1, StayStep
<1> QED BY <1>2, <1>3, <1>4, <1>5, <1>6

\* The screens that open others by a touch.
LEMMA TouchStep ==
    ASSUME IInv, GoTravel \/ GoGallery \/ SelectCountry \/ SelectDay \/ SelectPin \/ GoSearch
                 \/ SelectPicture
    PROVE  IInv'
<1>1. \A from, to \in Kinds : Opens(from, to) => IInv'
  BY OpensStep
<1>2. ASSUME process' = "noImage", UNCHANGED <<screens, stack, pending, alert>>
      PROVE  IInv'
  <2>1. CountersOK'
    BY <1>2, Facts DEF CountersOK, pending
  <2> QED BY <1>2, <2>1, StayStep
<1> QED BY <1>1, <1>2 DEF GoTravel, GoGallery, SelectCountry, SelectDay, SelectPin, GoSearch,
       SelectPicture, Kinds

LEMMA StepIInv == IInv /\ [Next]_vars => IInv'
<1> SUFFICES ASSUME IInv, [Next]_vars PROVE IInv'
  OBVIOUS
<1>1. CASE UNCHANGED vars
  <2>1. CountersOK' /\ process' \in {"running", "noImage"}
    BY <1>1, Facts DEF vars, pending, CountersOK, IInv, TypeOK
  <2> QED BY <1>1, <2>1, StayStep DEF vars
<1>2. CASE Continue \/ SignInFailed \/ SelectFound \/ Toggle \/ AnswerCancel
  BY <1>2, QuietStep
<1>3. CASE GoTravel \/ GoGallery \/ SelectCountry \/ SelectDay \/ SelectPin \/ GoSearch
           \/ SelectPicture
  BY <1>3, TouchStep
<1>4. CASE SignedIn
  BY <1>4, SignedInStep
<1>5. ASSUME NEW d \in answers, Answer(d) PROVE IInv'
  BY <1>5, AnswerStep
<1>6. CASE Back
  BY <1>6, BackStep
<1>7. CASE AnswerOK
  BY <1>7, AnswerOKStep
<1> QED BY <1>1, <1>2, <1>3, <1>4, <1>5, <1>6, <1>7 DEF Next

\* A push leaves the switches alone.
LEMMA PushMovesNoSwitch ==
    ASSUME IInv, NEW s \in ToSet(stack), NEW kind \in Kinds, Push(s, kind)
    PROVE  \A q \in DOMAIN screens : screens'[q] = screens[q]
<1> DEFINE new == [kind |-> kind, opener |-> s, on |-> FALSE]
<1>1. screens' = Append(screens, new)
  BY DEF Push
<1>2. new \in Records(Len(screens)) /\ screens \in Seq(Records(Len(screens)))
      /\ DOMAIN screens = 1..Len(screens)
  BY Facts DEF Records
<1> HIDE DEF new
<1> QED BY <1>1, <1>2, AppendProperties

LEMMA OneSwitch ==
    ASSUME IInv, [Next]_vars
    PROVE  \/ \A s \in DOMAIN screens : screens'[s] = screens[s]
           \/ AnswerOK
<1> SUFFICES ASSUME ~AnswerOK
             PROVE  \A s \in DOMAIN screens : screens'[s] = screens[s]
  OBVIOUS
<1>1. ASSUME NEW from \in Kinds, NEW to \in Kinds, Opens(from, to)
      PROVE  \A s \in DOMAIN screens : screens'[s] = screens[s]
  BY <1>1, Facts, PushMovesNoSwitch DEF Opens
<1>2. CASE SignedIn
  BY <1>2, Facts, PushMovesNoSwitch DEF SignedIn, Kinds
<1>3. ASSUME NEW d \in answers, Answer(d)
      PROVE  \A s \in DOMAIN screens : screens'[s] = screens[s]
  <2>1. CASE d[1] \in ToSet(stack)
    <3>1. Push(d[1], "Story") /\ "Story" \in Kinds
      BY <1>3, <2>1 DEF Answer, Kinds
    <3> QED BY <2>1, <3>1, PushMovesNoSwitch
  <2>2. CASE d[1] \notin ToSet(stack)
    BY <1>3, <2>2 DEF Answer
  <2> QED BY <2>1, <2>2
<1>4. CASE screens' = screens
  BY <1>4
<1>5. CASE GoTravel \/ GoGallery \/ SelectCountry \/ SelectDay \/ SelectPin \/ GoSearch
           \/ SelectPicture
  BY <1>1, <1>4, <1>5 DEF GoTravel, GoGallery, SelectCountry, SelectDay, SelectPin, GoSearch,
     SelectPicture, Kinds
<1>6. CASE Continue \/ SignInFailed \/ SelectFound \/ Toggle \/ AnswerCancel \/ Back
           \/ UNCHANGED vars
  BY <1>4, <1>6 DEF Continue, SignInFailed, SelectFound, Toggle, AnswerCancel, Back, vars
<1> QED BY <1>2, <1>3, <1>5, <1>6 DEF Next

-----------------------------------------------------------------------------
\* The inductive invariant holds for ever.
THEOREM InvariantHolds == Spec => []IInv
BY InitIInv, StepIInv, PTL DEF Spec

\* Every variable keeps its type; an alert's screen is on the stack.
THEOREM TypeCorrect == Spec => []TypeOK
<1>1. IInv => TypeOK
  BY DEF IInv
<1> QED BY <1>1, InvariantHolds, PTL

\* Wherever late answers push, every screen stands above its opener, once.
THEOREM BackRetraces == Spec => []OpenerBelow
<1>1. IInv => OpenerBelow
  BY DEF IInv
<1> QED BY <1>1, InvariantHolds, PTL

\* A trip's switch moves by the OK to its own screen's question and by nothing else.
THEOREM SwitchIsAsked == Spec => SwitchAwaitsAnswer
<1> DEFINE A == \A s \in DOMAIN screens : screens'[s].on # screens[s].on =>
                    alert = s /\ alert' = NoAlert
<1>1. IInv /\ [Next]_vars => [A]_vars
  <2> SUFFICES ASSUME IInv, [Next]_vars PROVE A
    OBVIOUS
  <2>1. CASE \A s \in DOMAIN screens : screens'[s] = screens[s]
    BY <2>1
  <2>2. CASE AnswerOK
    BY <2>2, AnswerOKStep DEF AnswerOK
  <2> QED BY <2>1, <2>2, OneSwitch
<1> QED BY <1>1, InvariantHolds, PTL DEF Spec, SwitchAwaitsAnswer

-----------------------------------------------------------------------------
(* The pictures in the cells *)

ChainRecords == [cell : Cells, row : Rows, told : 0..MaxVersions,
                 live : BOOLEAN, lost : BOOLEAN]

\* A download was started for a version its chain was told of.
DownloadsWereTold == \A d \in downloads : chains[d[1]].told > 0

CellsIInv ==
    /\ CellsTypeOK
    /\ DownloadsWereTold
    /\ PictureFromOwnPast

\* No chain is another's, and none forgets that it was told.
ChainsKept ==
    /\ chains' \in Seq(ChainRecords)
    /\ Len(chains) <= Len(chains')
    /\ \A k \in 1..Len(chains) : /\ chains'[k].cell = chains[k].cell
                                 /\ chains'[k].row = chains[k].row
                                 /\ chains[k].told > 0 => chains'[k].told > 0

-----------------------------------------------------------------------------
LEMMA ChainsFacts ==
    ASSUME CellsTypeOK
    PROVE  /\ chains \in Seq(ChainRecords) /\ Len(chains) \in Nat
           /\ DOMAIN chains = 1..Len(chains)
           /\ \A k \in 1..Len(chains) :
                /\ chains[k] \in ChainRecords
                /\ chains[k].cell \in Cells /\ chains[k].row \in Rows
                /\ chains[k].told \in 0..MaxVersions
                /\ version[chains[k].row] \in 1..MaxVersions
           /\ \A d \in downloads : d[1] \in 1..Len(chains)
<1>1. chains \in Seq(ChainRecords)
  BY DEF CellsTypeOK, ChainRecords
<1>2. /\ Len(chains) \in Nat /\ DOMAIN chains = 1..Len(chains)
      /\ \A k \in 1..Len(chains) : chains[k] \in ChainRecords
  BY <1>1, LenProperties, ElementOfSeq
<1>3. \A k \in 1..Len(chains) : /\ chains[k].cell \in Cells /\ chains[k].row \in Rows
                                /\ chains[k].told \in 0..MaxVersions
  BY <1>2 DEF ChainRecords
<1> QED BY <1>1, <1>2, <1>3 DEF CellsTypeOK

\* A step after which the chains are kept, and that writes into no cell, keeps
\* the past of every picture.
LEMMA PastKept ==
    ASSUME CellsIInv, ChainsKept, picture' = picture
    PROVE  PictureFromOwnPast'
<1>1. /\ DOMAIN chains = 1..Len(chains) /\ Len(chains) \in Nat
      /\ DOMAIN chains' = 1..Len(chains') /\ Len(chains') \in Nat
  BY ChainsFacts, LenProperties DEF CellsIInv, ChainsKept
<1>2. ASSUME NEW c \in Cells, picture[c] # NoPicture
      PROVE  \E k \in ChainsOf(c)' : chains'[k].row = picture[c] /\ chains'[k].told > 0
  <2>1. PICK k \in ChainsOf(c) : chains[k].row = picture[c] /\ chains[k].told > 0
    BY <1>2 DEF CellsIInv, PictureFromOwnPast
  <2>2. k \in 1..Len(chains) /\ chains[k].cell = c
    BY <1>1, <2>1 DEF ChainsOf
  <2>3. k \in 1..Len(chains')
    BY <1>1, <2>2 DEF ChainsKept
  <2>4. /\ chains'[k].cell = c /\ chains'[k].row = picture[c]
        /\ chains'[k].told > 0
    BY <2>1, <2>2 DEF ChainsKept
  <2> QED BY <1>1, <2>3, <2>4 DEF ChainsOf
<1> QED BY <1>2 DEF PictureFromOwnPast

\* One chain changes and keeps its closure and its news; the others stay.
LEMMA ChangeFacts ==
    ASSUME CellsTypeOK, NEW k \in 1..Len(chains), NEW r \in ChainRecords,
           chains' = [chains EXCEPT ![k] = r],
           r.cell = chains[k].cell, r.row = chains[k].row,
           chains[k].told > 0 => r.told > 0
    PROVE  /\ ChainsKept /\ Len(chains') = Len(chains)
           /\ \A i \in 1..Len(chains) : chains'[i] = IF i = k THEN r ELSE chains[i]
<1>1. /\ chains' \in Seq(ChainRecords) /\ Len(chains') = Len(chains)
      /\ \A i \in 1..Len(chains) : chains'[i] = IF i = k THEN r ELSE chains[i]
  BY ChainsFacts, ExceptSeq
<1>2. Len(chains) <= Len(chains')
  BY <1>1, ChainsFacts
<1> QED BY <1>1, <1>2 DEF ChainsKept

-----------------------------------------------------------------------------
LEMMA CellForItemStep ==
    ASSUME CellsIInv, NEW r \in Rows, NEW c \in Cells, CellForItem(r, c)
    PROVE  CellsIInv'
<1> DEFINE told == IF watched THEN 0 ELSE version[r]
           new == [cell |-> c, row |-> r, live |-> watched, lost |-> FALSE, told |-> told]
<1>1. /\ shownAt' = [shownAt EXCEPT ![c] = r] /\ label' = [label EXCEPT ![c] = r]
      /\ blanked' = blanked \ {c}
      /\ chains' = Append(chains, new)
      /\ downloads' = IF watched THEN downloads
                                 ELSE downloads \cup {<<Len(chains) + 1, version[r]>>}
      /\ UNCHANGED <<watched, version, picture, app>>
  BY DEF CellForItem
<1>2. /\ chains \in Seq(ChainRecords) /\ Len(chains) \in Nat
      /\ \A d \in downloads : d[1] \in 1..Len(chains)
  BY ChainsFacts DEF CellsIInv
<1>3. version[r] \in 1..MaxVersions /\ told \in 0..MaxVersions
  BY CellsAssumption DEF CellsIInv, CellsTypeOK
<1>4. new \in ChainRecords /\ new.told = told
  BY <1>3 DEF ChainRecords, CellsIInv, CellsTypeOK
<1> HIDE DEF new
<1>5. /\ chains' \in Seq(ChainRecords) /\ Len(chains') = Len(chains) + 1
      /\ \A i \in 1..Len(chains) : chains'[i] = chains[i]
      /\ chains'[Len(chains) + 1] = new
  BY <1>1, <1>2, <1>4, AppendProperties
<1>6. DOMAIN chains' = 1..(Len(chains) + 1)
  BY <1>5, LenProperties
<1>7. ChainsKept
  BY <1>2, <1>5 DEF ChainsKept
<1>8. CellsTypeOK'
  <2>1. DOMAIN chains = 1..Len(chains) /\ DOMAIN chains \subseteq DOMAIN chains'
    BY <1>2, <1>6, LenProperties
  <2>2. downloads' \subseteq (DOMAIN chains') \X (1..MaxVersions)
    BY <1>1, <1>2, <1>3, <1>6, <2>1 DEF CellsIInv, CellsTypeOK
  <2> QED BY <1>1, <1>5, <2>2 DEF CellsIInv, CellsTypeOK, ChainRecords
<1>9. DownloadsWereTold'
  <2>1. ASSUME NEW d \in downloads PROVE chains'[d[1]].told > 0
    BY <1>2, <1>5, <2>1 DEF CellsIInv, DownloadsWereTold
  <2>2. ~watched => chains'[Len(chains) + 1].told > 0
    BY <1>3, <1>4, <1>5
  <2>3. ASSUME NEW d \in downloads', d \notin downloads
        PROVE  ~watched /\ d[1] = Len(chains) + 1
    BY <1>1, <2>3
  <2> QED BY <2>1, <2>2, <2>3 DEF DownloadsWereTold
<1>10. PictureFromOwnPast'
  BY <1>1, <1>7, PastKept
<1> QED BY <1>8, <1>9, <1>10 DEF CellsIInv

\* The steps that leave chains, downloads and pictures as they are.
LEMMA CellsQuietStep ==
    ASSUME CellsIInv, CellsTypeOK', UNCHANGED <<picture, chains, downloads>>
    PROVE  CellsIInv'
BY DEF CellsIInv, DownloadsWereTold, PictureFromOwnPast, ChainsOf

LEMMA RecycleStep ==
    ASSUME CellsIInv, NEW c \in Cells, Recycle(c)
    PROVE  CellsIInv'
<1>1. CellsTypeOK'
  BY DEF CellsIInv, CellsTypeOK, Recycle
<1> QED BY <1>1, CellsQuietStep DEF Recycle

LEMMA PublishStep ==
    ASSUME CellsIInv, NEW r \in Rows, Publish(r)
    PROVE  CellsIInv'
<1>1. version' \in [Rows -> 1..MaxVersions]
  BY CellsAssumption DEF CellsIInv, CellsTypeOK, Publish
<1>2. CellsTypeOK'
  BY <1>1 DEF CellsIInv, CellsTypeOK, Publish, cells
<1> QED BY <1>2, CellsQuietStep DEF Publish, cells

\* A killed app shows what it showed.
LEMMA KilledStep ==
    ASSUME CellsIInv, app' \in {"noField", "noURL"},
           UNCHANGED <<watched, version, cells, chains, downloads>>
    PROVE  CellsIInv'
<1>1. CellsTypeOK'
  BY DEF CellsIInv, CellsTypeOK, cells
<1> QED BY <1>1, CellsQuietStep DEF cells

\* A download is only started for a version the chain is told of then.
LEMMA NotifyStep ==
    ASSUME CellsIInv, NEW k \in 1..Len(chains), NEW v, Notify(k, v)
    PROVE  CellsIInv'
<1> DEFINE r == [chains[k] EXCEPT !.told = v, !.lost = FALSE]
<1>1. /\ chains' = [chains EXCEPT ![k] = r] /\ downloads' = downloads \cup {<<k, v>>}
      /\ UNCHANGED <<watched, version, shownAt, label, picture, blanked, app>>
      /\ v \in (chains[k].told + 1) .. version[chains[k].row]
  BY DEF Notify, cells
<1>2. /\ chains[k] \in ChainRecords /\ chains[k].told \in 0..MaxVersions
      /\ version[chains[k].row] \in 1..MaxVersions
      /\ DOMAIN chains = 1..Len(chains)
      /\ \A d \in downloads : d[1] \in 1..Len(chains)
  BY ChainsFacts DEF CellsIInv
<1>3. v \in 1..MaxVersions
  BY <1>1, <1>2, CellsAssumption
<1>4. /\ r \in ChainRecords /\ r.cell = chains[k].cell /\ r.row = chains[k].row
      /\ r.told = v /\ r.told > 0
  <2>1. v \in 0..MaxVersions /\ v > 0
    BY <1>3, CellsAssumption
  <2>2. r \in ChainRecords
    BY <1>2, <2>1 DEF ChainRecords
  <2>3. r.cell = chains[k].cell /\ r.row = chains[k].row /\ r.told = v
    BY <1>2 DEF ChainRecords
  <2> QED BY <2>1, <2>2, <2>3
<1> HIDE DEF r
<1>5. CellsTypeOK
  BY DEF CellsIInv
<1>6. /\ ChainsKept /\ Len(chains') = Len(chains)
      /\ \A i \in 1..Len(chains) : chains'[i] = IF i = k THEN r ELSE chains[i]
  BY <1>1, <1>4, <1>5, ChangeFacts
<1>7. chains' \in Seq(ChainRecords) /\ DOMAIN chains' = DOMAIN chains
  BY <1>2, <1>6, LenProperties DEF ChainsKept
<1>8. CellsTypeOK'
  <2>1. downloads' \subseteq (DOMAIN chains') \X (1..MaxVersions)
    BY <1>1, <1>2, <1>3, <1>5, <1>7 DEF CellsTypeOK
  <2> QED BY <1>1, <1>5, <1>7, <2>1 DEF CellsTypeOK, ChainRecords
<1>9. DownloadsWereTold'
  <2>1. ASSUME NEW d \in downloads PROVE chains'[d[1]].told > 0
    BY <1>2, <1>6, <2>1 DEF CellsIInv, DownloadsWereTold, ChainsKept
  <2>2. chains'[k].told > 0
    BY <1>4, <1>6
  <2> QED BY <1>1, <2>1, <2>2 DEF DownloadsWereTold
<1>10. PictureFromOwnPast'
  BY <1>1, <1>6, PastKept
<1> QED BY <1>8, <1>9, <1>10 DEF CellsIInv

\* A listener ends, or a download is gone: a chain's news and closure stay.
LEMMA SilentStep ==
    ASSUME CellsIInv, NEW k \in 1..Len(chains), NEW r \in ChainRecords,
           chains' = [chains EXCEPT ![k] = r],
           r.cell = chains[k].cell, r.row = chains[k].row, r.told = chains[k].told,
           downloads' \subseteq downloads, UNCHANGED <<watched, version, cells, app>>
    PROVE  CellsIInv'
<1>1. /\ DOMAIN chains = 1..Len(chains)
      /\ \A d \in downloads : d[1] \in 1..Len(chains)
  BY ChainsFacts DEF CellsIInv
<1>2. CellsTypeOK
  BY DEF CellsIInv
<1>3. /\ ChainsKept /\ Len(chains') = Len(chains)
      /\ \A i \in 1..Len(chains) : chains'[i] = IF i = k THEN r ELSE chains[i]
  BY <1>2, ChangeFacts
<1>4. chains' \in Seq(ChainRecords) /\ DOMAIN chains' = DOMAIN chains
  BY <1>1, <1>3, LenProperties DEF ChainsKept
<1>5. CellsTypeOK'
  BY <1>1, <1>2, <1>4 DEF CellsTypeOK, ChainRecords, cells
<1>6. DownloadsWereTold'
  BY <1>1, <1>3 DEF CellsIInv, DownloadsWereTold, ChainsKept
<1>7. PictureFromOwnPast'
  BY <1>3, PastKept DEF cells
<1> QED BY <1>5, <1>6, <1>7 DEF CellsIInv

\* A listener that ends leaves the chain what it knows.
LEMMA NotifyErrorStep ==
    ASSUME CellsIInv, NEW k \in 1..Len(chains), NotifyError(k)
    PROVE  CellsIInv'
<1> DEFINE r == [chains[k] EXCEPT !.live = FALSE]
<1>1. /\ chains' = [chains EXCEPT ![k] = r] /\ downloads' \subseteq downloads
      /\ UNCHANGED <<watched, version, cells, app>>
  BY DEF NotifyError
<1>2. chains[k] \in ChainRecords
  BY ChainsFacts DEF CellsIInv
<1>3. /\ r \in ChainRecords /\ r.cell = chains[k].cell /\ r.row = chains[k].row
      /\ r.told = chains[k].told
  BY <1>2 DEF ChainRecords
<1> HIDE DEF r
<1> QED BY <1>1, <1>3, SilentStep

\* A lost download leaves the chain what it knows, and its listener.
LEMMA LoseStep ==
    ASSUME CellsIInv, NEW d \in downloads, Lose(d)
    PROVE  CellsIInv'
<1> DEFINE k == d[1]
           gone == chains[k].lost \/ d[2] = chains[k].told
           r == [chains[k] EXCEPT !.lost = gone]
<1>1. k \in 1..Len(chains) /\ chains[k] \in ChainRecords
  BY ChainsFacts DEF CellsIInv
<1>2. /\ chains' = [chains EXCEPT ![k] = r] /\ downloads' \subseteq downloads
      /\ UNCHANGED <<watched, version, cells, app>>
  BY DEF Lose
<1>3. gone \in BOOLEAN
  BY <1>1 DEF ChainRecords
<1> HIDE DEF gone, k
<1>4. /\ r \in ChainRecords /\ r.cell = chains[k].cell /\ r.row = chains[k].row
      /\ r.told = chains[k].told
  BY <1>1, <1>3 DEF ChainRecords
<1> HIDE DEF r
<1> QED BY <1>1, <1>2, <1>4, SilentStep

\* What a download writes into the cell its chain captured is the chain's row's
\* picture, which so has a past there, or nil.
LEMMA WriteStep ==
    ASSUME CellsIInv, NEW d \in downloads,
           NEW p \in {chains[d[1]].row, NoPicture}, Write(d, chains[d[1]].cell, p)
    PROVE  CellsIInv'
<1> DEFINE k == d[1]
<1>1. /\ picture' = [picture EXCEPT ![chains[k].cell] = p]
      /\ blanked' \subseteq blanked \cup {chains[k].cell}
      /\ downloads' = downloads \ {d}
      /\ UNCHANGED <<watched, version, shownAt, label, chains, app>>
  BY DEF Write
<1>2. /\ k \in DOMAIN chains /\ chains[k].cell \in Cells /\ chains[k].row \in Rows
      /\ chains[k].told > 0
  BY ChainsFacts DEF CellsIInv, DownloadsWereTold
<1>3. p = chains[k].row \/ p = NoPicture
  OBVIOUS
<1> HIDE DEF k
<1>4. picture \in [Cells -> Rows \cup {NoPicture}] /\ blanked \subseteq Cells
  BY DEF CellsIInv, CellsTypeOK
<1>5. picture' \in [Cells -> Rows \cup {NoPicture}] /\ blanked' \subseteq Cells
  BY <1>1, <1>2, <1>3, <1>4
<1>6. CellsTypeOK'
  BY <1>1, <1>5 DEF CellsIInv, CellsTypeOK
<1>7. DownloadsWereTold'
  BY <1>1 DEF CellsIInv, DownloadsWereTold
<1>8. PictureFromOwnPast'
  <2>1. ASSUME NEW c \in Cells, picture'[c] # NoPicture
        PROVE  \E n \in ChainsOf(c) : chains[n].row = picture'[c] /\ chains[n].told > 0
    <3>1. CASE c = chains[k].cell
      BY <1>1, <1>2, <1>3, <1>4, <2>1, <3>1 DEF ChainsOf
    <3>2. CASE c # chains[k].cell
      BY <1>1, <1>4, <2>1, <3>2 DEF CellsIInv, PictureFromOwnPast
    <3> QED BY <3>1, <3>2
  <2>2. \A c \in Cells : ChainsOf(c)' = ChainsOf(c)
    BY <1>1 DEF ChainsOf
  <2> QED BY <1>1, <2>1, <2>2 DEF PictureFromOwnPast
<1> QED BY <1>6, <1>7, <1>8 DEF CellsIInv

-----------------------------------------------------------------------------
LEMMA InitCellsIInv == CellsInit => CellsIInv
<1> SUFFICES ASSUME CellsInit PROVE CellsIInv
  OBVIOUS
<1>1. chains = <<>> /\ chains \in Seq(ChainRecords)
  BY EmptySeq DEF CellsInit
<1>2. CellsTypeOK
  BY <1>1, CellsAssumption DEF CellsInit, CellsTypeOK, ChainRecords
<1> QED BY <1>2 DEF CellsInit, CellsIInv, DownloadsWereTold, PictureFromOwnPast

LEMMA StepCellsIInv == CellsIInv /\ [CellsNext]_cellsVars => CellsIInv'
<1> SUFFICES ASSUME CellsIInv, [CellsNext]_cellsVars PROVE CellsIInv'
  OBVIOUS
<1>1. CASE UNCHANGED cellsVars
  <2>1. CellsTypeOK'
    BY <1>1 DEF CellsIInv, CellsTypeOK, cellsVars, cells
  <2> QED BY <1>1, <2>1, CellsQuietStep DEF cellsVars, cells
<1>2. ASSUME NEW r \in Rows, NEW c \in Cells, CellForItem(r, c) PROVE CellsIInv'
  BY <1>2, CellForItemStep
<1>3. ASSUME NEW c \in Cells, Recycle(c) PROVE CellsIInv'
  BY <1>3, RecycleStep
<1>4. ASSUME NEW r \in Rows, Publish(r) PROVE CellsIInv'
  BY <1>4, PublishStep
<1>5. ASSUME NEW k \in DOMAIN chains, Chain(k) PROVE CellsIInv'
  <2>1. k \in 1..Len(chains)
    BY ChainsFacts DEF CellsIInv
  <2>2. ASSUME NEW v, Notify(k, v) PROVE CellsIInv'
    BY <2>1, <2>2, NotifyStep
  <2>3. CASE NotifyError(k)
    BY <2>1, <2>3, NotifyErrorStep
  <2>4. CASE NotifyMissing(k)
    BY <2>4, KilledStep DEF NotifyMissing
  <2> QED BY <1>5, <2>2, <2>3, <2>4 DEF Chain
<1>6. ASSUME NEW d \in downloads, Download(d) PROVE CellsIInv'
  <2>1. CASE Finish(d)
    BY <2>1, WriteStep DEF Finish
  <2>2. CASE FinishNoImage(d)
    BY <2>2, WriteStep DEF FinishNoImage
  <2>3. CASE Fail(d)
    BY <2>3, KilledStep DEF Fail
  <2>4. CASE Lose(d)
    BY <2>4, LoseStep
  <2> QED BY <1>6, <2>1, <2>2, <2>3, <2>4 DEF Download
<1> QED BY <1>1, <1>2, <1>3, <1>4, <1>5, <1>6 DEF CellsNext

\* The inductive invariant holds for ever.
THEOREM CellsInvariantHolds == CellsSpec => []CellsIInv
BY InitCellsIInv, StepCellsIInv, PTL DEF CellsSpec

\* Every variable keeps its type.
THEOREM CellsTypeCorrect == CellsSpec => []CellsTypeOK
<1>1. CellsIInv => CellsTypeOK
  BY DEF CellsIInv
<1> QED BY <1>1, CellsInvariantHolds, PTL

\* A cell shows only pictures of rows it was dequeued for: a late picture is
\* wrong at worst by the cell's own past, never by another cell's.
THEOREM PicturesStayHome == CellsSpec => []PictureFromOwnPast
<1>1. CellsIInv => PictureFromOwnPast
  BY DEF CellsIInv
<1> QED BY <1>1, CellsInvariantHolds, PTL

-----------------------------------------------------------------------------
(* The list of countries and its search bar *)

\* What is shown comes from the array the callbacks read, and only a search ends it.
TravelIInv ==
    /\ TravelTypeOK
    /\ SearchOnlyWhileEditing
    /\ RowsAgree
    /\ NoRowBeyond

-----------------------------------------------------------------------------
(* Facts about the operators.                                               *)

\* A filter of a list of countries is a list of countries of that list.
LEMMA FilteredType ==
  ASSUME NEW s \in Seq(Countries), NEW t \in Texts, NEW f \in Filtered(s, t)
  PROVE  f \in Seq(Countries)
<1> DEFINE H == Hits(s, t)
<1>1. PICK h \in [1..Cardinality(H) -> H] : f = [m \in DOMAIN h |-> s[h[m]]]
  BY DEF Filtered
<1>2. H \subseteq 1..Len(s) /\ Len(s) \in Nat
  BY DEF Hits
<1>3. Cardinality(H) \in Nat
  <2>1. IsFiniteSet(1..Len(s))
    BY <1>2, FS_Interval
  <2> QED
    BY <1>2, <2>1, FS_Subset, FS_CardinalityType
<1>4. \A m \in 1..Cardinality(H) : s[h[m]] \in Countries
  <2> TAKE m \in 1..Cardinality(H)
  <2>1. h[m] \in 1..Len(s)
    BY <1>1, <1>2
  <2> QED
    BY <2>1, ElementOfSeq
<1> HIDE DEF H
<1>5. f \in [1..Cardinality(H) -> Countries]
  BY <1>1, <1>4
<1> QED
  BY <1>3, <1>5

\* A list laid out anew has blank rows only, as many as the array read.
LEMMA ReloadedRows ==
  ASSUME Reload, Source' \in Seq(Countries)
  PROVE  /\ rows' \in [DOMAIN rows' -> Countries \cup {NoLabel}]
         /\ DOMAIN rows' \subseteq Nat
         /\ DOMAIN rows' = DOMAIN Source'
         /\ \A r \in DOMAIN rows' : rows'[r] = NoLabel
BY DEF Reload

\* The array the callbacks read is a list of countries.
LEMMA SourceType == TravelTypeOK => Source \in Seq(Countries)
BY DEF TravelTypeOK, Source

-----------------------------------------------------------------------------
(* The invariant holds at the start and is kept by every action.            *)

LEMMA TravelInitHolds == TravelInit => TravelIInv
<1> SUFFICES ASSUME TravelInit PROVE TravelIInv
  OBVIOUS
<1>1. TravelTypeOK
  <2>1. versions \in Seq(Lists)
    <3>1. PICK l \in Lists : versions = <<l>>
      BY DEF TravelInit
    <3>2. <<l>> \in Seq(Lists)
      OBVIOUS
    <3> QED
      BY <3>1, <3>2
  <2>2. delivered \in 0..Len(versions)
    BY <2>1 DEF TravelInit
  <2>3. /\ rows \in [DOMAIN rows -> Countries \cup {NoLabel}]
        /\ DOMAIN rows \subseteq Nat
    BY DEF TravelInit
  <2>4. images \in Seq(Countries) /\ filtered \in Seq(Countries)
    BY DEF TravelInit
  <2> QED
    BY <2>1, <2>2, <2>3, <2>4, TravelAssumption DEF TravelInit, TravelTypeOK
<1> QED
  BY <1>1 DEF TravelInit, TravelIInv, SearchOnlyWhileEditing, RowsAgree, NoRowBeyond, Source

\* The steps that end in a reload: what is left is that the rest has its type.
LEMMA ReloadKeepsTravel ==
  ASSUME TravelIInv, Reload, Alive, fate' = fate, page' = page,
         versions' = versions, delivered' \in 0..Len(versions),
         listening' = listening, opened' = opened,
         images' \in Seq(Countries), filtered' \in Seq(Countries),
         searchActive' \in BOOLEAN, editing' \in BOOLEAN,
         text' \in Texts, searched' \in Texts,
         searchActive' => editing'
  PROVE  TravelIInv'
<1>1. Source' \in Seq(Countries)
  BY DEF Source
<1>2. TravelTypeOK'
  BY <1>1, ReloadedRows DEF TravelIInv, TravelTypeOK
<1>3. RowsAgree'
  BY <1>1, ReloadedRows DEF RowsAgree
<1> QED
  BY <1>2, <1>3 DEF TravelIInv, SearchOnlyWhileEditing, NoRowBeyond, Alive

LEMMA PublishKeepsTravel ==
  ASSUME TravelIInv, NEW l \in Lists, PublishList(l)
  PROVE  TravelIInv'
<1>1. versions' \in Seq(Lists) /\ Len(versions') = Len(versions) + 1
  BY DEF PublishList, TravelIInv, TravelTypeOK
<1>2. TravelTypeOK'
  <2>1. Len(versions) \in Nat
    BY DEF TravelIInv, TravelTypeOK
  <2>2. delivered' \in 0..Len(versions')
    BY <1>1, <2>1 DEF PublishList, TravelIInv, TravelTypeOK
  <2> QED
    BY <1>1, <2>2 DEF PublishList, TravelIInv, TravelTypeOK, list, bar, screen
<1>3. Source' = Source
  BY DEF PublishList, list, Source
<1> QED
  BY <1>2, <1>3
  DEF PublishList, TravelIInv, SearchOnlyWhileEditing, RowsAgree, NoRowBeyond, list, bar, screen

LEMMA DeliverKeepsTravel ==
  ASSUME TravelIInv, NEW v \in DOMAIN versions, Deliver(v)
  PROVE  TravelIInv'
<1>1. versions[v] \in Seq(Countries)
  <2>1. versions[v] \in Lists
    BY ElementOfSeq DEF TravelIInv, TravelTypeOK
  <2> QED
    BY <2>1, TravelAssumption
<1>2. images' \in Seq(Countries)
  BY <1>1 DEF Deliver, TravelIInv, TravelTypeOK
<1>3. delivered' \in 0..Len(versions)
  BY DEF Deliver, TravelIInv, TravelTypeOK
<1>4. UNCHANGED <<versions, listening, text, editing, page, opened, fate>>
  BY DEF Deliver, bar
<1> QED
  BY <1>2, <1>3, <1>4, ReloadKeepsTravel
  DEF Deliver, TravelIInv, TravelTypeOK, SearchOnlyWhileEditing

LEMMA MissingKeepsTravel ==
  ASSUME TravelIInv, DeliverMissing
  PROVE  TravelIInv'
<1>1. UNCHANGED <<versions, delivered, listening, images, filtered, searched,
                  searchActive, text, editing, rows, page, opened>>
      /\ fate' = "noField"
  BY DEF DeliverMissing, doc, list, bar
<1> QED
  BY <1>1 DEF TravelIInv, TravelTypeOK, SearchOnlyWhileEditing, RowsAgree, NoRowBeyond, Source

LEMMA ErrorKeepsTravel ==
  ASSUME TravelIInv, DeliverError
  PROVE  TravelIInv'
<1>1. UNCHANGED <<versions, delivered, images, filtered, searched,
                  searchActive, text, editing, rows, page, opened, fate>>
      /\ listening' = FALSE
  BY DEF DeliverError, list, bar, screen
<1> QED
  BY <1>1 DEF TravelIInv, TravelTypeOK, SearchOnlyWhileEditing, RowsAgree, NoRowBeyond, Source

LEMMA BeginKeepsTravel ==
  ASSUME TravelIInv, BeginEditing
  PROVE  TravelIInv'
<1>1. UNCHANGED <<versions, delivered, listening, text, page, opened, fate>>
  BY DEF BeginEditing, doc
<1> QED
  BY <1>1, ReloadKeepsTravel DEF BeginEditing, OnTop, TravelIInv, TravelTypeOK

LEMMA TypeKeepsTravel ==
  ASSUME TravelIInv, NEW t \in Texts, Type(t)
  PROVE  TravelIInv'
<1>1. UNCHANGED <<versions, delivered, listening, images, filtered, searched,
                  searchActive, editing, rows, page, opened, fate>>
      /\ text' = t
  BY DEF Type, doc, list, screen
<1> QED
  BY <1>1 DEF TravelIInv, TravelTypeOK, SearchOnlyWhileEditing, RowsAgree, NoRowBeyond, Source

LEMMA EndKeepsTravel ==
  ASSUME TravelIInv, EndEditing
  PROVE  TravelIInv'
<1>1. UNCHANGED <<versions, delivered, listening, text, page, opened, fate>>
  BY DEF EndEditing, doc
<1> QED
  BY <1>1, ReloadKeepsTravel DEF EndEditing, TravelIInv, TravelTypeOK

LEMMA CancelKeepsTravel ==
  ASSUME TravelIInv, CancelButton
  PROVE  TravelIInv'
<1>1. UNCHANGED <<versions, delivered, listening, page, opened, fate>>
  BY DEF CancelButton, doc
<1>2. filtered' \in Seq(Countries) /\ text' \in Texts /\ searched' \in Texts
  BY TravelAssumption DEF CancelButton
<1> QED
  BY <1>1, <1>2, ReloadKeepsTravel DEF CancelButton, OnTop, TravelIInv, TravelTypeOK

LEMMA SearchKeepsTravel ==
  ASSUME TravelIInv, SearchButton
  PROVE  TravelIInv'
<1>1. UNCHANGED <<versions, delivered, listening, text, editing, page, opened, fate>>
  BY DEF SearchButton, doc, bar
<1>2. images \in Seq(Countries) /\ text \in Texts
  BY DEF TravelIInv, TravelTypeOK
<1>3. filtered' \in Seq(Countries)
  BY <1>2, FilteredType DEF SearchButton
<1> QED
  BY <1>1, <1>3, ReloadKeepsTravel DEF SearchButton, OnTop, TravelIInv, TravelTypeOK

LEMMA CellKeepsTravel ==
  ASSUME TravelIInv, NEW r \in DOMAIN rows, CellForItemAt(r)
  PROVE  TravelIInv'
<1>1. UNCHANGED <<versions, delivered, listening, images, filtered, searched,
                  searchActive, text, editing, page, opened>>
  BY DEF CellForItemAt, doc, list, bar
<1>2. Source' = Source /\ Source \in Seq(Countries)
  BY <1>1, SourceType DEF Source, TravelIInv
<1>3. CASE r \in DOMAIN Source
  <2>1. rows' = [rows EXCEPT ![r] = Source[r]] /\ fate' = fate
    BY <1>3 DEF CellForItemAt
  <2>2. Source[r] \in Countries
    BY <1>2, <1>3, ElementOfSeq
  <2>3. /\ rows' \in [DOMAIN rows -> Countries \cup {NoLabel}]
        /\ DOMAIN rows' = DOMAIN rows
        /\ \A q \in DOMAIN rows : rows'[q] = IF q = r THEN Source[r] ELSE rows[q]
    BY <2>1, <2>2 DEF TravelIInv, TravelTypeOK
  <2>4. TravelTypeOK'
    BY <1>1, <2>1, <2>3 DEF TravelIInv, TravelTypeOK
  <2>5. RowsAgree'
    BY <1>1, <1>2, <2>3 DEF TravelIInv, RowsAgree
  <2> QED
    BY <1>1, <2>1, <2>4, <2>5 DEF TravelIInv, SearchOnlyWhileEditing, NoRowBeyond
<1>4. CASE r \notin DOMAIN Source
  <2>1. rows' = rows /\ fate' = "badIndex"
    BY <1>4 DEF CellForItemAt
  <2>2. page = "detail" /\ searchActive
    BY <1>4 DEF TravelIInv, RowsAgree
  <2> QED
    BY <1>1, <1>2, <2>1, <2>2
    DEF TravelIInv, TravelTypeOK, SearchOnlyWhileEditing, RowsAgree, NoRowBeyond
<1> QED
  BY <1>3, <1>4

LEMMA ScrollKeepsTravel ==
  ASSUME TravelIInv, NEW r \in DOMAIN rows, ScrollAway(r)
  PROVE  TravelIInv'
<1>1. UNCHANGED <<versions, delivered, listening, images, filtered, searched,
                  searchActive, text, editing, page, opened, fate>>
  BY DEF ScrollAway, doc, list, bar
<1>2. Source' = Source
  BY <1>1 DEF Source
<1>3. /\ rows' \in [DOMAIN rows -> Countries \cup {NoLabel}]
      /\ DOMAIN rows' = DOMAIN rows
      /\ \A q \in DOMAIN rows : rows'[q] = IF q = r THEN NoLabel ELSE rows[q]
  BY DEF ScrollAway, TravelIInv, TravelTypeOK
<1>4. TravelTypeOK'
  BY <1>1, <1>3 DEF TravelIInv, TravelTypeOK
<1>5. RowsAgree'
  BY <1>1, <1>2, <1>3 DEF TravelIInv, RowsAgree
<1> QED
  BY <1>1, <1>4, <1>5 DEF TravelIInv, SearchOnlyWhileEditing, NoRowBeyond

\* A tap on a row that shows something finds that row in the array.
LEMMA TapInRange ==
  ASSUME TravelIInv, NEW r \in DOMAIN rows, DidSelect(r)
  PROVE  /\ r \in DOMAIN Source
         /\ rows[r] = Source[r]
         /\ Source[r] \in Countries
<1>1. page = "travel" /\ rows[r] # NoLabel
  BY DEF DidSelect, OnTop
<1>2. r \in DOMAIN Source /\ rows[r] = Source[r]
  BY <1>1 DEF TravelIInv, RowsAgree
<1>3. rows[r] \in Countries
  BY <1>1 DEF TravelIInv, TravelTypeOK
<1> QED
  BY <1>2, <1>3

LEMMA SelectKeepsTravel ==
  ASSUME TravelIInv, NEW r \in DOMAIN rows, DidSelect(r)
  PROVE  TravelIInv'
<1>1. r \in DOMAIN Source /\ Source[r] \in Countries
  BY TapInRange
<1>2. /\ UNCHANGED <<versions, delivered, listening, images, searchActive,
                     text, editing, rows, fate>>
      /\ opened' = Source[r]
      /\ page' = "detail"
      /\ IF searchActive
           THEN filtered' \in Filtered(images, text) /\ searched' = text
           ELSE UNCHANGED <<filtered, searched>>
  BY <1>1 DEF DidSelect, doc, bar
<1>3. images \in Seq(Countries) /\ text \in Texts
  BY DEF TravelIInv, TravelTypeOK
<1>4. filtered' \in Seq(Countries) /\ searched' \in Texts
  BY <1>2, <1>3, FilteredType DEF TravelIInv, TravelTypeOK
<1>5. TravelTypeOK'
  BY <1>1, <1>2, <1>4 DEF TravelIInv, TravelTypeOK
<1>6. RowsAgree'
  <2> SUFFICES ASSUME ~searchActive
               PROVE  DOMAIN rows = DOMAIN Source'
                      /\ \A q \in DOMAIN rows : rows[q] \in {NoLabel, Source'[q]}
    BY <1>2 DEF RowsAgree
  <2>1. Source' = Source
    BY <1>2 DEF Source
  <2> QED
    BY <2>1 DEF TravelIInv, RowsAgree
<1>7. NoRowBeyond'
  BY <1>2 DEF NoRowBeyond, DidSelect, OnTop, Alive
<1> QED
  BY <1>2, <1>5, <1>6, <1>7 DEF TravelIInv, SearchOnlyWhileEditing

LEMMA ReturnKeepsTravel ==
  ASSUME TravelIInv, Return
  PROVE  TravelIInv'
<1>1. UNCHANGED <<versions, delivered, listening, images, filtered, searched,
                  searchActive, text, editing, rows, opened, fate>>
      /\ page' = "travel"
  BY DEF Return, doc, list, bar
<1>2. ~searchActive
  BY DEF Return, TravelIInv, SearchOnlyWhileEditing
<1>3. Source' = Source
  BY <1>1 DEF Source
<1> QED
  BY <1>1, <1>2, <1>3
  DEF TravelIInv, TravelTypeOK, SearchOnlyWhileEditing, RowsAgree, NoRowBeyond

LEMMA LeaveKeepsTravel ==
  ASSUME TravelIInv, Leave
  PROVE  TravelIInv'
<1>1. UNCHANGED <<versions, delivered, listening, images, filtered, searched,
                  searchActive, text, editing, rows, opened, fate>>
      /\ page = "travel" /\ page' = "gone" /\ fate = "running"
  BY DEF Leave, OnTop, Alive, doc, list, bar
<1>2. Source' = Source
  BY <1>1 DEF Source
<1> QED
  BY <1>1, <1>2
  DEF TravelIInv, TravelTypeOK, SearchOnlyWhileEditing, RowsAgree, NoRowBeyond

LEMMA StutterKeepsTravel == TravelIInv /\ UNCHANGED travelVars => TravelIInv'
<1> SUFFICES ASSUME TravelIInv, UNCHANGED travelVars PROVE TravelIInv'
  OBVIOUS
<1>1. UNCHANGED <<versions, delivered, listening, images, filtered, searched,
                  searchActive, text, editing, rows, page, opened, fate>>
  BY DEF travelVars, doc, list, bar, screen
<1> QED
  BY <1>1 DEF TravelIInv, TravelTypeOK, SearchOnlyWhileEditing, RowsAgree, NoRowBeyond, Source

\* TravelIInv is an inductive invariant of the screen.
THEOREM TravelInvariantHolds == TravelSpec => []TravelIInv
<1>1. TravelIInv /\ [TravelNext]_travelVars => TravelIInv'
  <2> SUFFICES ASSUME TravelIInv, TravelNext PROVE TravelIInv'
    BY StutterKeepsTravel
  <2> QED
    BY PublishKeepsTravel, DeliverKeepsTravel, MissingKeepsTravel, ErrorKeepsTravel,
       BeginKeepsTravel, TypeKeepsTravel, EndKeepsTravel, CancelKeepsTravel,
       SearchKeepsTravel, CellKeepsTravel, ScrollKeepsTravel, SelectKeepsTravel,
       ReturnKeepsTravel, LeaveKeepsTravel DEF TravelNext
<1> QED
  BY TravelInitHolds, <1>1, PTL DEF TravelSpec

-----------------------------------------------------------------------------
(* What follows.                                                            *)

\* Every variable keeps its type; in particular a row never shows anything
\* but a country.
THEOREM TravelTypeCorrect == TravelSpec => []TravelTypeOK
<1>1. TravelIInv => TravelTypeOK
  BY DEF TravelIInv
<1> QED
  BY <1>1, TravelInvariantHolds, PTL

\* The rows laid out are the rows of the array the callbacks read, but for the
\* time between a tap in a search and the end of editing.
THEOREM RowsAlwaysAgree == TravelSpec => []RowsAgree
<1>1. TravelIInv => RowsAgree
  BY DEF TravelIInv
<1> QED
  BY <1>1, TravelInvariantHolds, PTL

\* An index beyond the array is used in that time only.
THEOREM NeverBeyondOnTop == TravelSpec => []NoRowBeyond
<1>1. TravelIInv => NoRowBeyond
  BY DEF TravelIInv
<1> QED
  BY <1>1, TravelInvariantHolds, PTL

\* The results of a search are shown only while the keyboard is up.
THEOREM SearchEnds == TravelSpec => []SearchOnlyWhileEditing
<1>1. TravelIInv => SearchOnlyWhileEditing
  BY DEF TravelIInv
<1> QED
  BY <1>1, TravelInvariantHolds, PTL

-----------------------------------------------------------------------------
(* What filtered holds.                                                     *)

\* A filter finds every hit: as many places as there are hits, all different,
\* leave none out.
LEMMA FilterIsFirst ==
  ASSUME NEW s \in Seq(Countries), NEW t \in Texts, NEW f \in Filtered(s, t)
  PROVE  FirstHits(f, s, t)
<1> DEFINE H == Hits(s, t)
<1>1. PICK h \in [1..Cardinality(H) -> H] :
         /\ \A m, n \in DOMAIN h : m < n => h[m] < h[n]
         /\ f = [m \in DOMAIN h |-> s[h[m]]]
  BY DEF Filtered
<1>2. H \subseteq 1..Len(s) /\ Len(s) \in Nat
  BY DEF Hits
<1>3. IsFiniteSet(H) /\ Cardinality(H) \in Nat
  <2>1. IsFiniteSet(1..Len(s))
    BY <1>2, FS_Interval
  <2> QED
    BY <1>2, <2>1, FS_Subset, FS_CardinalityType
<1>4. \A k \in H : k \in Nat
  BY DEF Hits
<1> DEFINE C == Cardinality(H)
<1>5. IsFiniteSet(1..C) /\ Cardinality(1..C) = C
  BY <1>3, FS_Interval
<1> HIDE DEF H
<1>6. h \in Injection(1..C, H)
  <2>1. ASSUME NEW m \in 1..C, NEW n \in 1..C, h[m] = h[n]
        PROVE  m = n
    <3>1. m \in Nat /\ n \in Nat
      BY <1>3
    <3>2. h[m] \in H
      BY <1>1
    <3>3. h[m] \in Nat
      BY <1>4, <3>2
    <3>4. ~(m < n) /\ ~(n < m)
      BY <1>1, <2>1, <3>1, <3>3
    <3> QED
      BY <3>1, <3>4
  <2> QED
    BY <2>1 DEF Injection, IsInjective
<1>7. h \in Surjection(1..C, H)
  BY <1>3, <1>5, <1>6, FS_Injection
<1>8. \A k \in H : \E n \in DOMAIN h : h[n] = k
  BY <1>7 DEF Surjection
<1>9. h \in [DOMAIN f -> H] /\ \A m \in DOMAIN h : f[m] = s[h[m]]
  BY <1>1
<1> QED
  BY <1>1, <1>8, <1>9 DEF FirstHits, H

\* What is added to the end of a list comes after all that was found in it.
LEMMA FirstInLonger ==
  ASSUME NEW s \in Seq(Countries), NEW x \in Seq(Countries), NEW t, NEW f,
         FirstHits(f, s, t)
  PROVE  FirstHits(f, s \o x, t)
<1>1. PICK h \in [DOMAIN f -> Hits(s, t)] :
         /\ \A m, n \in DOMAIN h : m < n => h[m] < h[n]
         /\ \A m \in DOMAIN h : f[m] = s[h[m]]
         /\ \A m \in DOMAIN h, k \in Hits(s, t) : k < h[m] => \E n \in DOMAIN h : h[n] = k
  BY DEF FirstHits
<1> DEFINE y == s \o x
<1>2. /\ Len(s) \in Nat /\ DOMAIN s = 1..Len(s)
      /\ 1..Len(s) \subseteq DOMAIN y /\ DOMAIN y \subseteq Nat
      /\ \A k \in 1..Len(s) : y[k] = s[k]
  OBVIOUS
<1> HIDE DEF y
<1>3. Hits(s, t) \subseteq Hits(y, t) /\ Hits(s, t) \subseteq 1..Len(s)
  BY <1>2 DEF Hits
<1>4. \A k \in Hits(y, t) : k \in 1..Len(s) => k \in Hits(s, t)
  BY <1>2 DEF Hits
<1>5. h \in [DOMAIN f -> Hits(y, t)]
  BY <1>3
<1>6. \A m \in DOMAIN h : f[m] = y[h[m]]
  BY <1>1, <1>2, <1>3
<1>7. ASSUME NEW m \in DOMAIN h, NEW k \in Hits(y, t), k < h[m]
      PROVE  \E n \in DOMAIN h : h[n] = k
  <2>1. h[m] \in 1..Len(s)
    BY <1>3
  <2>2. k \in Nat /\ k # 0
    <3>1. 0 \notin DOMAIN y
      BY DEF y
    <3> QED
      BY <1>2, <3>1 DEF Hits
  <2>3. k \in Hits(s, t)
    BY <1>2, <1>4, <1>7, <2>1, <2>2
  <2> QED
    BY <1>1, <1>7, <2>3
<1> QED
  BY <1>1, <1>5, <1>6, <1>7 DEF FirstHits, y

\* Nothing is a beginning of whatever a search finds.
LEMMA NothingIsFirst ==
  ASSUME NEW s, NEW t
  PROVE  FirstHits(<<>>, s, t)
<1> DEFINE h == [m \in {} |-> 0]
<1>1. h \in [DOMAIN <<>> -> Hits(s, t)] /\ DOMAIN h = {}
  OBVIOUS
<1> HIDE DEF h
<1> QED
  BY <1>1 DEF FirstHits

\* Every callback leaves in filtered a beginning of what is found now: a
\* search and a tap all of it, Cancel nothing, and a snapshot what there was.
LEMMA StepKeepsFirst ==
  TravelIInv /\ FilteredIsSearch /\ [TravelNext]_travelVars => FilteredIsSearch'
<1> SUFFICES ASSUME TravelIInv, FilteredIsSearch, [TravelNext]_travelVars
             PROVE  FilteredIsSearch'
  OBVIOUS
<1>1. images \in Seq(Countries) /\ text \in Texts
  BY DEF TravelIInv, TravelTypeOK
<1>2. ASSUME UNCHANGED <<images, filtered, searched>> PROVE FilteredIsSearch'
  BY <1>2 DEF FilteredIsSearch
<1>3. ASSUME NEW v \in DOMAIN versions, Deliver(v) PROVE FilteredIsSearch'
  <2>1. versions[v] \in Seq(Countries)
    <3>1. versions[v] \in Lists
      BY DEF TravelIInv, TravelTypeOK
    <3> QED
      BY <3>1, TravelAssumption
  <2>2. images' = images \o versions[v] /\ UNCHANGED <<filtered, searched>>
    BY <1>3 DEF Deliver
  <2> QED
    BY <1>1, <2>1, <2>2, FirstInLonger DEF FilteredIsSearch
<1>4. ASSUME CancelButton PROVE FilteredIsSearch'
  <2>1. filtered' = <<>>
    BY <1>4 DEF CancelButton
  <2> QED
    BY <2>1, NothingIsFirst DEF FilteredIsSearch
<1>5. ASSUME filtered' \in Filtered(images, text), searched' = text, images' = images
      PROVE  FilteredIsSearch'
  BY <1>1, <1>5, FilterIsFirst DEF FilteredIsSearch
<1>6. ASSUME SearchButton PROVE FilteredIsSearch'
  BY <1>5, <1>6 DEF SearchButton
<1>7. ASSUME NEW r \in DOMAIN rows, DidSelect(r) PROVE FilteredIsSearch'
  <2>1. /\ images' = images
        /\ \/ filtered' \in Filtered(images, text) /\ searched' = text
           \/ UNCHANGED <<filtered, searched>>
    BY <1>7 DEF DidSelect
  <2> QED
    BY <1>2, <1>5, <2>1
<1>8. ASSUME NEW l, PublishList(l) PROVE FilteredIsSearch'
  BY <1>2, <1>8 DEF PublishList, list
<1>9. ASSUME DeliverMissing \/ DeliverError \/ BeginEditing PROVE FilteredIsSearch'
  BY <1>2, <1>9 DEF DeliverMissing, DeliverError, BeginEditing, list
<1>10. ASSUME NEW t, Type(t) PROVE FilteredIsSearch'
  BY <1>2, <1>10 DEF Type, list
<1>11. ASSUME EndEditing \/ Return \/ Leave PROVE FilteredIsSearch'
  BY <1>2, <1>11 DEF EndEditing, Return, Leave, list
<1>12. ASSUME NEW r, CellForItemAt(r) \/ ScrollAway(r) PROVE FilteredIsSearch'
  BY <1>2, <1>12 DEF CellForItemAt, ScrollAway, list
<1>13. ASSUME UNCHANGED travelVars PROVE FilteredIsSearch'
  BY <1>2, <1>13 DEF travelVars, list
<1> QED
  BY <1>3, <1>4, <1>6, <1>7, <1>8, <1>9, <1>10, <1>11, <1>12, <1>13 DEF TravelNext

\* For any lists and searches, filtered is a beginning of what a search for its
\* text finds in the list now, with no hit passed over.
THEOREM SearchFindsAll == TravelSpec => []FilteredIsSearch
<1>1. TravelInit => FilteredIsSearch
  BY NothingIsFirst DEF TravelInit, FilteredIsSearch
<1> QED
  BY <1>1, StepKeepsFirst, TravelInvariantHolds, PTL DEF TravelSpec

-----------------------------------------------------------------------------
(* TravelScreen implements ListScreen.                                      *)

\* Every callback is a step the list screen may take, or none of its business.
LEMMA StepRefines == TravelIInv /\ [TravelNext]_travelVars => [List!Next]_(List!vars)
<1> SUFFICES ASSUME TravelIInv, [TravelNext]_travelVars PROVE [List!Next]_(List!vars)
  OBVIOUS
<1> USE DEF List!vars
<1>1. ASSUME Reload, opened' = opened PROVE [List!Next]_(List!vars)
  <2>1. rows' = [r \in DOMAIN rows' |-> NoLabel]
    BY <1>1 DEF Reload
  <2> QED
    BY <1>1, <2>1 DEF List!Next, List!Relist
<1>2. ASSUME NEW l \in Lists, PublishList(l) PROVE UNCHANGED List!vars
  BY <1>2 DEF PublishList, screen
<1>3. ASSUME NEW v \in DOMAIN versions, Deliver(v) PROVE [List!Next]_(List!vars)
  BY <1>1, <1>3 DEF Deliver
<1>4. ASSUME DeliverMissing PROVE UNCHANGED List!vars
  BY <1>4 DEF DeliverMissing
<1>5. ASSUME DeliverError PROVE UNCHANGED List!vars
  BY <1>5 DEF DeliverError, screen
<1>6. ASSUME BeginEditing PROVE [List!Next]_(List!vars)
  BY <1>1, <1>6 DEF BeginEditing
<1>7. ASSUME NEW t \in Texts, Type(t) PROVE UNCHANGED List!vars
  BY <1>7 DEF Type, screen
<1>8. ASSUME EndEditing PROVE [List!Next]_(List!vars)
  BY <1>1, <1>8 DEF EndEditing
<1>9. ASSUME CancelButton PROVE [List!Next]_(List!vars)
  BY <1>1, <1>9 DEF CancelButton
<1>10. ASSUME SearchButton PROVE [List!Next]_(List!vars)
  BY <1>1, <1>10 DEF SearchButton
<1>11. ASSUME NEW r \in DOMAIN rows, CellForItemAt(r) PROVE [List!Next]_(List!vars)
  <2>1. CASE r \in DOMAIN Source
    <3>1. Source[r] \in Countries
      BY <2>1, SourceType, ElementOfSeq DEF TravelIInv
    <3>2. List!Fill(r, Source[r])
      BY <1>11, <2>1 DEF CellForItemAt, List!Fill
    <3> QED
      BY <3>1, <3>2 DEF List!Next
  <2>2. CASE r \notin DOMAIN Source
    BY <1>11, <2>2 DEF CellForItemAt
  <2> QED
    BY <2>1, <2>2
<1>12. ASSUME NEW r \in DOMAIN rows, ScrollAway(r) PROVE [List!Next]_(List!vars)
  <2>1. List!Clear(r)
    BY <1>12 DEF ScrollAway, List!Clear
  <2> QED
    BY <2>1 DEF List!Next
<1>13. ASSUME NEW r \in DOMAIN rows, DidSelect(r) PROVE [List!Next]_(List!vars)
  <2>1. r \in DOMAIN Source /\ rows[r] = Source[r]
    BY <1>13, TapInRange
  <2>2. List!Open(r)
    BY <1>13, <2>1 DEF DidSelect, List!Open
  <2> QED
    BY <2>2 DEF List!Next
<1>14. ASSUME Return PROVE UNCHANGED List!vars
  BY <1>14 DEF Return
<1>15. ASSUME Leave PROVE UNCHANGED List!vars
  BY <1>15 DEF Leave
<1>16. ASSUME UNCHANGED travelVars PROVE UNCHANGED List!vars
  BY <1>16 DEF travelVars, screen
<1> QED
  BY <1>2, <1>3, <1>4, <1>5, <1>6, <1>7, <1>8, <1>9, <1>10, <1>11, <1>12, <1>13,
     <1>14, <1>15, <1>16 DEF TravelNext

\* Rows change only by a reload or from and to blank, and a tap opens what the
\* tapped row shows.
THEOREM TravelImplementsList == TravelSpec => ImplementsListScreen
<1>1. TravelInit => List!Init
  BY DEF TravelInit, List!Init
<1> QED
  BY <1>1, StepRefines, TravelInvariantHolds, PTL DEF TravelSpec, List!Spec, ImplementsListScreen
=============================================================================
