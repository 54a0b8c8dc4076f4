------------------------------ MODULE LoginFlow ------------------------------
(****************************************************************************)
(* ViewController: sign in, and create an account when that fails.          *)
(*                                                                          *)
(* The Continue button stays enabled while requests are under way, so       *)
(* several sign-ins and account creations may be open at once and answer    *)
(* in any order.  An alert is shown only where UIKit can present it: on a   *)
(* screen in the window that presents nothing else.                         *)
(****************************************************************************)
EXTENDS Naturals, Sequences, FiniteSets

CONSTANTS
    Emails,
    Passwords,
    Blank,       \* an empty field; the password of an email without an account
    Registered,  \* Registered[e]: the password of e's account at first, or Blank
    NoUser,      \* nobody is signed in
    NoAlert,     \* no alert is shown
    MaxRequests  \* bound: requests to Firebase

Credentials == Emails \X Passwords

ASSUME LoginAssumption ==
    /\ Blank \notin Emails \cup Passwords
    /\ Registered \in [Emails -> Passwords \cup {Blank}]
    /\ NoUser \notin Emails
    /\ NoAlert \notin Credentials
    /\ MaxRequests \in Nat

VARIABLES
    emailField, passField, \* what the two fields hold
    requests, \* the calls of signIn and createUser: what was asked with which
              \* credentials, what the server made of it, and how the call ended
    alert,    \* the credentials the alert shown would create an account for
    mains,    \* how many MainControllers were pushed
    user,     \* Firebase's current user
    accounts  \* the server's accounts: the password of each email, or Blank

fields == <<emailField, passField>>
vars == <<fields, requests, alert, mains, user, accounts>>

Init ==
    /\ emailField = Blank
    /\ passField = Blank
    /\ requests = <<>>
    /\ alert = NoAlert
    /\ mains = 0
    /\ user = NoUser
    /\ accounts = Registered

\* The login screen is in the window; its fields and button work unless an alert is shown.
InWindow == mains = 0

Request(kind, cred) ==
    /\ Len(requests) < MaxRequests
    /\ requests' = Append(requests,
           [kind |-> kind, cred |-> cred, server |-> "asked", end |-> "open"])

Ends(k, how) == requests' = [requests EXCEPT ![k].end = how]

-----------------------------------------------------------------------------
\* The user edits the fields.
Edit(e, p) ==
    /\ InWindow
    /\ alert = NoAlert
    /\ emailField' = e
    /\ passField' = p
    /\ UNCHANGED <<requests, alert, mains, user, accounts>>

\* didTapButton: with both fields filled, one sign-in more.
DidTapButton ==
    /\ InWindow
    /\ alert = NoAlert
    /\ emailField # Blank
    /\ passField # Blank
    /\ Request("signIn", <<emailField, passField>>)
    /\ UNCHANGED <<fields, alert, mains, user, accounts>>

\* The server decides a request, each at its time: a sign-in by the account as
\* it is, a creation by whether there is one.
Serve(k) ==
    LET r == requests[k]
        e == r.cred[1]
        p == r.cred[2]
        granted == IF r.kind = "signIn" THEN accounts[e] = p ELSE accounts[e] = Blank
    IN  /\ r.server = "asked"
        /\ requests' = [requests EXCEPT ![k].server = IF granted THEN "granted" ELSE "refused"]
        /\ accounts' = IF r.kind = "create" /\ granted THEN [accounts EXCEPT ![e] = p]
                                                       ELSE accounts
        /\ UNCHANGED <<fields, alert, mains, user>>

\* Mutant: the error is not looked at.
SucceedsUnchecked(k, kind, pushed) ==
    /\ requests[k].kind = kind
    /\ requests[k].end = "open"
    /\ Ends(k, "success")
    /\ mains' = mains + pushed
    /\ user' = IF requests[k].server = "granted" THEN requests[k].cred[1] ELSE user
    /\ UNCHANGED <<fields, alert, accounts>>

\* A sign-in or a creation succeeds: Firebase sets the current user and calls
\* back, and pushed main screens are added.
Succeeds(k, kind, pushed) ==
    /\ requests[k].kind = kind
    /\ requests[k].end = "open"
    /\ requests[k].server = "granted"
    /\ Ends(k, "success")
    /\ user' = requests[k].cred[1]
    /\ mains' = mains + pushed
    /\ UNCHANGED <<fields, alert, accounts>>

\* The completion of signIn: the main screen is pushed, also over another one,
\* and also under an alert.
SignedIn(k) == Succeeds(k, "signIn", 1)

\* The completion of createUser: nothing follows but highlights.
Created(k) == Succeeds(k, "create", 0)

\* The completion comes with an error: the server refused, or was not reached,
\* or its answer was lost.
Fails(k, kind) ==
    /\ requests[k].kind = kind
    /\ requests[k].end = "open"
    /\ Ends(k, "error")
    /\ UNCHANGED <<fields, mains, user, accounts>>

\* Mutant: the alert is shown only when the server refused.
SignInFailedQuietly(k) ==
    /\ Fails(k, "signIn")
    /\ alert' = IF InWindow /\ alert = NoAlert /\ requests[k].server = "refused"
                  THEN requests[k].cred ELSE alert

\* showCreateAccount, after any error: UIKit drops the alert if the screen is
\* covered or already presents one.
SignInFailed(k) ==
    /\ Fails(k, "signIn")
    /\ alert' = IF InWindow /\ alert = NoAlert THEN requests[k].cred ELSE alert

\* The creation failed: it prints and returns.
CreateFailed(k) == Fails(k, "create") /\ UNCHANGED alert

\* Mutant: the alert's handler reads the fields.
ContinueFromFields ==
    /\ alert # NoAlert
    /\ Request("create", <<emailField, passField>>)
    /\ alert' = NoAlert
    /\ UNCHANGED <<fields, mains, user, accounts>>

\* The alert's "Continue": an account for the credentials that failed.
AlertContinue ==
    /\ alert # NoAlert
    /\ Request("create", alert)
    /\ alert' = NoAlert
    /\ UNCHANGED <<fields, mains, user, accounts>>

\* The alert's "Cancel".
AlertCancel ==
    /\ alert # NoAlert
    /\ alert' = NoAlert
    /\ UNCHANGED <<fields, requests, mains, user, accounts>>

Completion(k) == SignedIn(k) \/ Created(k) \/ SignInFailed(k) \/ CreateFailed(k)

Next ==
    \/ \E e \in Emails \cup {Blank}, p \in Passwords \cup {Blank} : Edit(e, p)
    \/ DidTapButton
    \/ \E k \in DOMAIN requests : Serve(k) \/ Completion(k)
    \/ AlertContinue
    \/ AlertCancel

\* Firebase calls every completion, if only to report that it gave up.
Fairness == \A k \in 1 .. MaxRequests : WF_vars(k \in DOMAIN requests /\ Completion(k))

Spec == Init /\ [][Next]_vars /\ Fairness

-----------------------------------------------------------------------------
TypeOK ==
    /\ emailField \in Emails \cup {Blank}
    /\ passField \in Passwords \cup {Blank}
    /\ requests \in Seq([kind : {"signIn", "create"}, cred : Credentials,
                         server : {"asked", "granted", "refused"},
                         end : {"open", "success", "error"}])
    /\ alert \in Credentials \cup {NoAlert}
    /\ mains \in Nat
    /\ user \in Emails \cup {NoUser}
    /\ accounts \in [Emails -> Passwords \cup {Blank}]

Succeeded(kind) ==
    {k \in DOMAIN requests : requests[k].kind = kind /\ requests[k].end = "success"}

\* Whoever sees a main screen is signed in, and as someone whose password was
\* typed here: the current user is one whose account the last success matched.
UserHasProof ==
    /\ mains > 0 => user # NoUser
    /\ user # NoUser =>
          \E k \in Succeeded("signIn") \cup Succeeded("create") :
              /\ requests[k].cred[1] = user
              /\ requests[k].cred[2] = accounts[user]

\* No account is created, and no creation even asked for, with credentials that
\* no sign-in failed with, however the fields changed since.
AccountsWereOffered ==
    /\ \A k \in DOMAIN requests : requests[k].kind = "create" =>
          \E n \in 1 .. (k - 1) : /\ requests[n].kind = "signIn"
                                  /\ requests[n].end = "error"
                                  /\ requests[n].cred = requests[k].cred
    /\ \A e \in Emails : accounts[e] # Registered[e] =>
          /\ Registered[e] = Blank
          /\ \E k \in DOMAIN requests : /\ requests[k].kind = "create"
                                        /\ requests[k].cred = <<e, accounts[e]>>

\* A tap leads somewhere: to a main screen or to an alert, its own or that of
\* another tap that it lost the race to.
TapIsAnswered ==
    \A k \in 1 .. MaxRequests :
        (k \in DOMAIN requests /\ requests[k].kind = "signIn" /\ requests[k].end = "open")
            ~> (mains > 0 \/ alert # NoAlert)
=============================================================================
