--------------------------- MODULE LoginStoryProofs ---------------------------
(****************************************************************************)
(* Of the login screen: that nobody gets in without a password, and that no *)
(* account is made but with credentials that failed before, for any         *)
(* accounts and any number of requests that overlap.  Of the story screen:  *)
(* that its tags name what was detected, and that the picture shown is one  *)
(* that was handed over or chosen, for any pictures, documents and order of *)
(* the downloads.                                                           *)
(****************************************************************************)
EXTENDS LoginFlow, StoryAnalysis, FiniteSetTheorems, SequenceTheorems, TLAPS

Requests == [kind : {"signIn", "create"}, cred : Credentials,
             server : {"asked", "granted", "refused"}, end : {"open", "success", "error"}]

\* What the server granted is what its account says, whatever was granted since:
\* no account changes once it has a password.
GrantedMatches ==
    \A k \in 1..Len(requests) : requests[k].server = "granted" =>
        accounts[requests[k].cred[1]] = requests[k].cred[2]

\* A call succeeds only when the server granted it.
SuccessWasGranted ==
    \A k \in 1..Len(requests) : requests[k].end = "success" => requests[k].server = "granted"

\* The alert is about a sign-in that failed.
AlertIsOfFailure ==
    alert # NoAlert =>
        \E n \in 1..Len(requests) : /\ requests[n].kind = "signIn"
                                    /\ requests[n].end = "error"
                                    /\ requests[n].cred = alert

IInv ==
    /\ TypeOK
    /\ GrantedMatches
    /\ SuccessWasGranted
    /\ AlertIsOfFailure
    /\ UserHasProof
    /\ AccountsWereOffered

\* The requests are as before, but for what the server or the end of some is.
SameAsked ==
    /\ requests' \in Seq(Requests)
    /\ Len(requests') = Len(requests)
    /\ \A i \in 1..Len(requests) : /\ requests'[i].kind = requests[i].kind
                                   /\ requests'[i].cred = requests[i].cred

-----------------------------------------------------------------------------
LEMMA RequestsFacts ==
    ASSUME TypeOK
    PROVE  /\ requests \in Seq(Requests) /\ Len(requests) \in Nat
           /\ DOMAIN requests = 1..Len(requests)
           /\ \A i \in 1..Len(requests) :
                /\ requests[i] \in Requests
                /\ requests[i].cred \in Credentials
                /\ requests[i].cred[1] \in Emails /\ requests[i].cred[2] \in Passwords
                /\ requests[i].cred = <<requests[i].cred[1], requests[i].cred[2]>>
                /\ requests[i].cred[2] # Blank
<1>1. /\ requests \in Seq(Requests) /\ Len(requests) \in Nat
      /\ DOMAIN requests = 1..Len(requests)
      /\ \A i \in 1..Len(requests) : requests[i] \in Requests
  <2>1. requests \in Seq(Requests)
    BY DEF TypeOK, Requests
  <2> QED BY <2>1, LenProperties, ElementOfSeq
<1>2. \A r \in Requests : r.cred \in Credentials
  BY DEF Requests
<1>3. \A c \in Credentials : /\ c[1] \in Emails /\ c[2] \in Passwords
                             /\ c = <<c[1], c[2]>> /\ c[2] # Blank
  BY LoginAssumption DEF Credentials
<1> QED BY <1>1, <1>2, <1>3

\* How a call ends is noted in its request alone.
LEMMA EndsFacts ==
    ASSUME TypeOK, NEW k \in 1..Len(requests), NEW how \in {"success", "error"}, Ends(k, how)
    PROVE  /\ SameAsked
           /\ \A i \in 1..Len(requests) :
                /\ requests'[i].server = requests[i].server
                /\ requests'[i].end = IF i = k THEN how ELSE requests[i].end
<1> DEFINE r == [requests[k] EXCEPT !.end = how]
<1>1. requests' = [requests EXCEPT ![k] = r]
  BY DEF Ends
<1>2. /\ r \in Requests /\ r.kind = requests[k].kind /\ r.cred = requests[k].cred
      /\ r.server = requests[k].server /\ r.end = how
  BY RequestsFacts DEF Requests
<1> HIDE DEF r
<1>3. /\ requests' \in Seq(Requests) /\ Len(requests') = Len(requests)
      /\ \A i \in 1..Len(requests) : requests'[i] = IF i = k THEN r ELSE requests[i]
  BY <1>1, <1>2, RequestsFacts, ExceptSeq
<1> QED BY <1>2, <1>3 DEF SameAsked

\* A request is asked after all others.
LEMMA RequestFacts ==
    ASSUME TypeOK, NEW kind \in {"signIn", "create"}, NEW cred \in Credentials,
           Request(kind, cred)
    PROVE  /\ requests' \in Seq(Requests) /\ Len(requests') = Len(requests) + 1
           /\ \A i \in 1..Len(requests) : requests'[i] = requests[i]
           /\ requests'[Len(requests) + 1] = [kind |-> kind, cred |-> cred,
                                              server |-> "asked", end |-> "open"]
<1>1. [kind |-> kind, cred |-> cred, server |-> "asked", end |-> "open"] \in Requests
  BY DEF Requests
<1> QED BY <1>1, RequestsFacts, AppendProperties DEF Request

\* A step that changes neither requests nor accounts nor user keeps the invariant.
LEMMA QuietStep ==
    ASSUME IInv, TypeOK', UNCHANGED <<requests, mains, user, accounts>>,
           alert' = alert \/ alert' = NoAlert
    PROVE  IInv'
BY ZenonT(60) DEF IInv, GrantedMatches, SuccessWasGranted, AlertIsOfFailure, UserHasProof, Succeeded,
       AccountsWereOffered

\* Typing into the fields.
LEMMA EditStep ==
    ASSUME IInv, NEW e \in Emails \cup {Blank}, NEW p \in Passwords \cup {Blank}, Edit(e, p)
    PROVE  IInv'
<1>1. TypeOK'
  BY DEF IInv, TypeOK, Edit
<1> QED BY <1>1, QuietStep DEF Edit

\* Dismissing the alert.
LEMMA AlertCancelStep ==
    ASSUME IInv, AlertCancel
    PROVE  IInv'
<1>1. TypeOK'
  BY DEF IInv, TypeOK, AlertCancel, fields
<1> QED BY <1>1, QuietStep DEF AlertCancel

\* One request more, of a kind that may be asked.
LEMMA RequestStep ==
    ASSUME IInv, NEW kind \in {"signIn", "create"}, NEW cred \in Credentials,
           Request(kind, cred), UNCHANGED <<fields, mains, user, accounts>>,
           alert' = alert \/ alert' = NoAlert,
           kind = "create" => alert = cred /\ alert # NoAlert
    PROVE  IInv'
<1>1. /\ requests' \in Seq(Requests) /\ Len(requests') = Len(requests) + 1
      /\ \A i \in 1..Len(requests) : requests'[i] = requests[i]
      /\ requests'[Len(requests) + 1].kind = kind
      /\ requests'[Len(requests) + 1].cred = cred
      /\ requests'[Len(requests) + 1].server = "asked"
      /\ requests'[Len(requests) + 1].end = "open"
  <2>1. TypeOK
    BY DEF IInv
  <2> DEFINE r == [kind |-> kind, cred |-> cred, server |-> "asked", end |-> "open"]
  <2>2. r.kind = kind /\ r.cred = cred /\ r.server = "asked" /\ r.end = "open"
    OBVIOUS
  <2>3. /\ requests' \in Seq(Requests) /\ Len(requests') = Len(requests) + 1
        /\ \A i \in 1..Len(requests) : requests'[i] = requests[i]
        /\ requests'[Len(requests) + 1] = r
    BY <2>1, RequestFacts
  <2> HIDE DEF r
  <2> QED BY <2>2, <2>3
<1>2. /\ Len(requests) \in Nat /\ DOMAIN requests = 1..Len(requests)
      /\ DOMAIN requests' = 1..Len(requests')
  BY <1>1, RequestsFacts DEF IInv
<1>3. \A i \in 1..Len(requests') : i \in 1..Len(requests) \/ i = Len(requests) + 1
  BY <1>1, <1>2
<1>4. \A i \in 1..Len(requests) : i \in 1..Len(requests') /\ 1..(i - 1) \subseteq 1..Len(requests)
  BY <1>1, <1>2
<1>5. TypeOK'
  BY <1>1 DEF IInv, TypeOK, Requests, fields
<1>6. GrantedMatches' /\ SuccessWasGranted'
  BY <1>1, <1>3 DEF IInv, GrantedMatches, SuccessWasGranted
<1>7. AlertIsOfFailure'
  BY <1>1, <1>4 DEF IInv, AlertIsOfFailure
<1>8. UserHasProof'
  BY <1>1, <1>2, <1>4 DEF IInv, UserHasProof, Succeeded
<1>9. AccountsWereOffered'
  <2>1. ASSUME NEW k \in 1..Len(requests'), requests'[k].kind = "create"
        PROVE  \E n \in 1..(k - 1) : /\ requests'[n].kind = "signIn"
                                     /\ requests'[n].end = "error"
                                     /\ requests'[n].cred = requests'[k].cred
    <3>1. CASE k \in 1..Len(requests)
      <4>1. PICK n \in 1..(k - 1) : /\ requests[n].kind = "signIn"
                                    /\ requests[n].end = "error"
                                    /\ requests[n].cred = requests[k].cred
        BY <1>1, <1>2, <2>1, <3>1 DEF IInv, AccountsWereOffered
      <4>2. n \in 1..Len(requests)
        BY <1>4, <3>1
      <4> QED BY <1>1, <3>1, <4>1, <4>2
    <3>2. CASE k = Len(requests) + 1
      <4>1. kind = "create"
        BY <1>1, <2>1, <3>2
      <4>2. PICK n \in 1..Len(requests) : /\ requests[n].kind = "signIn"
                                          /\ requests[n].end = "error"
                                          /\ requests[n].cred = cred
        BY <4>1 DEF IInv, AlertIsOfFailure
      <4>3. n \in 1..(k - 1)
        BY <1>2, <3>2
      <4> QED BY <1>1, <3>2, <4>2, <4>3
    <3> QED BY <1>3, <3>1, <3>2
  <2>2. ASSUME NEW e \in Emails, accounts'[e] # Registered[e]
        PROVE  /\ Registered[e] = Blank
               /\ \E k \in 1..Len(requests') : /\ requests'[k].kind = "create"
                                               /\ requests'[k].cred = <<e, accounts'[e]>>
    <3>1. Registered[e] = Blank /\ accounts' = accounts
      BY <2>2 DEF IInv, AccountsWereOffered
    <3>2. PICK k \in 1..Len(requests) : /\ requests[k].kind = "create"
                                        /\ requests[k].cred = <<e, accounts[e]>>
      BY <1>2, <2>2, <3>1, ZenonT(60) DEF IInv, AccountsWereOffered
    <3> QED BY <1>1, <1>4, <3>1, <3>2
  <2> QED BY <1>2, <2>1, <2>2 DEF AccountsWereOffered
<1> QED BY <1>5, <1>6, <1>7, <1>8, <1>9 DEF IInv

\* The sign-in button.
LEMMA DidTapButtonStep ==
    ASSUME IInv, DidTapButton
    PROVE  IInv'
<1>1. <<emailField, passField>> \in Credentials
  BY DEF IInv, TypeOK, DidTapButton, Credentials
<1> QED BY <1>1, RequestStep DEF DidTapButton

\* The alert's continue, which asks for an account.
LEMMA AlertContinueStep ==
    ASSUME IInv, AlertContinue
    PROVE  IInv'
<1>1. alert \in Credentials
  BY DEF IInv, TypeOK, AlertContinue
<1> QED BY <1>1, RequestStep DEF AlertContinue

\* What was asked for stays asked for, and what failed stays failed.
LEMMA OfferedKept ==
    ASSUME IInv, SameAsked,
           \A i \in 1..Len(requests) : requests[i].end = "error" => requests'[i].end = "error",
           accounts' = accounts
    PROVE  AccountsWereOffered'
<1>1. /\ Len(requests) \in Nat /\ DOMAIN requests = 1..Len(requests)
      /\ Len(requests') = Len(requests) /\ DOMAIN requests' = 1..Len(requests)
      /\ \A i \in 1..Len(requests) : /\ requests'[i].kind = requests[i].kind
                                     /\ requests'[i].cred = requests[i].cred
  BY RequestsFacts DEF IInv, SameAsked
<1>2. ASSUME NEW k \in 1..Len(requests), requests[k].kind = "create"
      PROVE  \E n \in 1..(k - 1) : /\ requests'[n].kind = "signIn"
                                   /\ requests'[n].end = "error"
                                   /\ requests'[n].cred = requests'[k].cred
  <2>1. PICK n \in 1..(k - 1) : /\ requests[n].kind = "signIn"
                                /\ requests[n].end = "error"
                                /\ requests[n].cred = requests[k].cred
    BY <1>1, <1>2 DEF IInv, AccountsWereOffered
  <2>2. n \in 1..Len(requests)
    BY <1>1
  <2> QED BY <1>1, <2>1, <2>2
<1>3. \A e \in Emails : accounts[e] # Registered[e] =>
          /\ Registered[e] = Blank
          /\ \E k \in 1..Len(requests) : /\ requests[k].kind = "create"
                                         /\ requests[k].cred = <<e, accounts[e]>>
  BY <1>1 DEF IInv, AccountsWereOffered
<1>4. \A e \in Emails : accounts'[e] # Registered[e] =>
          /\ Registered[e] = Blank
          /\ \E k \in 1..Len(requests) : /\ requests'[k].kind = "create"
                                         /\ requests'[k].cred = <<e, accounts'[e]>>
  BY <1>1, <1>3
<1>5. \A k \in 1..Len(requests) : requests'[k].kind = requests[k].kind
  BY <1>1
<1> QED BY <1>1, <1>2, <1>4, <1>5, ZenonT(60) DEF AccountsWereOffered

\* A call that ends well.
LEMMA SucceedsStep ==
    ASSUME IInv, NEW k \in 1..Len(requests), NEW kind \in {"signIn", "create"},
           NEW pushed \in 0..1, Succeeds(k, kind, pushed)
    PROVE  IInv'
<1>1. /\ SameAsked
      /\ \A i \in 1..Len(requests) :
           /\ requests'[i].server = requests[i].server
           /\ requests'[i].end = IF i = k THEN "success" ELSE requests[i].end
  BY EndsFacts DEF IInv, Succeeds
<1>2. /\ Len(requests) \in Nat /\ DOMAIN requests = 1..Len(requests)
      /\ requests' \in Seq(Requests) /\ Len(requests') = Len(requests)
      /\ DOMAIN requests' = 1..Len(requests)
      /\ \A i \in 1..Len(requests) : /\ requests'[i].kind = requests[i].kind
                                     /\ requests'[i].cred = requests[i].cred
      /\ requests[k].cred[1] \in Emails
  BY <1>1, RequestsFacts DEF IInv, SameAsked
<1>3. /\ requests[k].kind = kind /\ requests[k].end = "open"
      /\ requests[k].server = "granted" /\ user' = requests[k].cred[1]
      /\ mains' = mains + pushed /\ UNCHANGED <<fields, alert, accounts>>
  BY DEF Succeeds
<1>4. TypeOK'
  BY <1>2, <1>3 DEF IInv, TypeOK, Requests, fields
<1>5. GrantedMatches' /\ SuccessWasGranted'
  BY <1>1, <1>2, <1>3 DEF IInv, GrantedMatches, SuccessWasGranted
<1>6. AlertIsOfFailure'
  BY <1>1, <1>2, <1>3 DEF IInv, AlertIsOfFailure
<1>7. UserHasProof'
  <2>1. user' # NoUser /\ accounts'[user'] = requests'[k].cred[2] /\ requests'[k].cred[1] = user'
    BY <1>2, <1>3, LoginAssumption DEF IInv, GrantedMatches
  <2>2. k \in (Succeeded("signIn") \cup Succeeded("create"))'
    BY <1>1, <1>2, <1>3 DEF Succeeded
  <2> QED BY <2>1, <2>2 DEF UserHasProof
<1>8. AccountsWereOffered'
  BY <1>1, <1>3, OfferedKept
<1> QED BY <1>4, <1>5, <1>6, <1>7, <1>8 DEF IInv

\* A call that ends badly.
LEMMA FailsStep ==
    ASSUME IInv, NEW k \in 1..Len(requests), NEW kind \in {"signIn", "create"}, Fails(k, kind),
           alert' = alert \/ (kind = "signIn" /\ alert' = requests[k].cred)
    PROVE  IInv'
<1>1. /\ SameAsked
      /\ \A i \in 1..Len(requests) :
           /\ requests'[i].server = requests[i].server
           /\ requests'[i].end = IF i = k THEN "error" ELSE requests[i].end
  BY EndsFacts DEF IInv, Fails
<1>2. /\ Len(requests) \in Nat /\ DOMAIN requests = 1..Len(requests)
      /\ requests' \in Seq(Requests) /\ Len(requests') = Len(requests)
      /\ DOMAIN requests' = 1..Len(requests)
      /\ \A i \in 1..Len(requests) : /\ requests'[i].kind = requests[i].kind
                                     /\ requests'[i].cred = requests[i].cred
      /\ requests[k].cred \in Credentials
  BY <1>1, RequestsFacts DEF IInv, SameAsked
<1>3. /\ requests[k].kind = kind /\ requests[k].end = "open"
      /\ UNCHANGED <<fields, mains, user, accounts>>
  BY DEF Fails
<1>4. TypeOK'
  BY <1>2, <1>3 DEF IInv, TypeOK, Requests, fields
<1>5. GrantedMatches' /\ SuccessWasGranted'
  BY <1>1, <1>2, <1>3 DEF IInv, GrantedMatches, SuccessWasGranted
<1>6. AlertIsOfFailure'
  BY <1>1, <1>2, <1>3 DEF IInv, AlertIsOfFailure
<1>7. UserHasProof'
  BY <1>1, <1>2, <1>3 DEF IInv, UserHasProof, Succeeded
<1>8. AccountsWereOffered'
  BY <1>1, <1>3, OfferedKept
<1> QED BY <1>4, <1>5, <1>6, <1>7, <1>8 DEF IInv

\* The server's decision: an account is made only where there was none, so what
\* it granted before still holds.
LEMMA ServeStep ==
    ASSUME IInv, NEW k \in 1..Len(requests), Serve(k)
    PROVE  IInv'
<1> DEFINE e == requests[k].cred[1]
           p == requests[k].cred[2]
           granted == IF requests[k].kind = "signIn" THEN accounts[e] = p ELSE accounts[e] = Blank
           verdict == IF granted THEN "granted" ELSE "refused"
           r == [requests[k] EXCEPT !.server = verdict]
<1>1. /\ requests[k].server = "asked" /\ requests' = [requests EXCEPT ![k] = r]
      /\ accounts' = IF requests[k].kind = "create" /\ granted
                       THEN [accounts EXCEPT ![e] = p] ELSE accounts
      /\ UNCHANGED <<fields, alert, mains, user>>
  BY DEF Serve
<1>2. /\ Len(requests) \in Nat /\ requests \in Seq(Requests)
      /\ DOMAIN requests = 1..Len(requests)
      /\ e \in Emails /\ p \in Passwords /\ p # Blank /\ requests[k].cred = <<e, p>>
      /\ requests[k] \in Requests
  BY RequestsFacts DEF IInv
<1>3. /\ r \in Requests /\ r.kind = requests[k].kind /\ r.cred = requests[k].cred
      /\ r.server = verdict /\ r.end = requests[k].end
  BY <1>2 DEF Requests
<1> HIDE DEF r
<1>4. /\ requests' \in Seq(Requests) /\ Len(requests') = Len(requests)
      /\ \A i \in 1..Len(requests) : requests'[i] = IF i = k THEN r ELSE requests[i]
  BY <1>1, <1>2, <1>3, ExceptSeq
<1>5. /\ SameAsked /\ DOMAIN requests' = 1..Len(requests)
      /\ \A i \in 1..Len(requests) :
           /\ requests'[i].kind = requests[i].kind /\ requests'[i].cred = requests[i].cred
           /\ requests'[i].end = requests[i].end
           /\ requests'[i].server = IF i = k THEN verdict ELSE requests[i].server
  BY <1>3, <1>4 DEF SameAsked
<1>6. /\ accounts \in [Emails -> Passwords \cup {Blank}]
      /\ accounts' \in [Emails -> Passwords \cup {Blank}]
      /\ \A a \in Emails : accounts'[a] # accounts[a] =>
           a = e /\ accounts[a] = Blank /\ accounts'[a] = p /\ requests[k].kind = "create"
      /\ requests[k].kind = "create" /\ granted => accounts'[e] = p
  BY <1>1, <1>2 DEF IInv, TypeOK
<1>7. TypeOK'
  BY <1>1, <1>4, <1>6 DEF IInv, TypeOK, Requests, fields
<1>8. GrantedMatches'
  <2>1. ASSUME NEW i \in 1..Len(requests), requests'[i].server = "granted"
        PROVE  accounts'[requests[i].cred[1]] = requests[i].cred[2]
    <3>1. CASE i = k
      <4>1. granted
        BY <1>5, <2>1, <3>1
      <4>2. requests[k].kind \in {"signIn", "create"}
        BY <1>2 DEF Requests
      <4> QED BY <1>6, <1>1, <3>1, <4>1, <4>2
    <3>2. CASE i # k
      <4>1. accounts[requests[i].cred[1]] = requests[i].cred[2]
        BY <1>5, <2>1, <3>2 DEF IInv, GrantedMatches
      <4>2. requests[i].cred[1] \in Emails /\ requests[i].cred[2] # Blank
        BY RequestsFacts DEF IInv
      <4> QED BY <1>6, <4>1, <4>2
    <3> QED BY <3>1, <3>2
  <2> QED BY <1>4, <1>5, <2>1 DEF GrantedMatches
<1>9. SuccessWasGranted'
  <2>1. ASSUME NEW i \in 1..Len(requests), requests'[i].end = "success"
        PROVE  requests'[i].server = "granted"
    <3>1. requests[i].server = "granted"
      BY <1>5, <2>1 DEF IInv, SuccessWasGranted
    <3>2. i # k
      BY <1>1, <3>1
    <3> QED BY <1>5, <3>1, <3>2
  <2> QED BY <1>4, <2>1 DEF SuccessWasGranted
<1>10. AlertIsOfFailure'
  BY <1>1, <1>4, <1>5 DEF IInv, AlertIsOfFailure
<1>11. UserHasProof'
  <2>1. ASSUME user # NoUser
        PROVE  \E n \in (Succeeded("signIn") \cup Succeeded("create"))' :
                   requests'[n].cred[1] = user /\ requests'[n].cred[2] = accounts'[user]
    <3>1. PICK n \in Succeeded("signIn") \cup Succeeded("create") :
              requests[n].cred[1] = user /\ requests[n].cred[2] = accounts[user]
      BY <2>1 DEF IInv, UserHasProof
    <3>2. n \in 1..Len(requests) /\ requests[n].cred[1] \in Emails /\ requests[n].cred[2] # Blank
      BY <1>2, RequestsFacts DEF Succeeded, IInv
    <3>3. accounts'[user] = accounts[user]
      BY <1>6, <3>1, <3>2
    <3>4. n \in (Succeeded("signIn") \cup Succeeded("create"))'
      BY <1>2, <1>5, <3>1, <3>2 DEF Succeeded
    <3> QED BY <1>5, <3>1, <3>2, <3>3, <3>4
  <2> QED BY <1>1, <2>1 DEF IInv, UserHasProof
<1>12. AccountsWereOffered'
  <2>1. ASSUME NEW i \in 1..Len(requests), requests[i].kind = "create"
        PROVE  \E n \in 1..(i - 1) : /\ requests'[n].kind = "signIn"
                                     /\ requests'[n].end = "error"
                                     /\ requests'[n].cred = requests'[i].cred
    <3>1. PICK n \in 1..(i - 1) : /\ requests[n].kind = "signIn"
                                  /\ requests[n].end = "error"
                                  /\ requests[n].cred = requests[i].cred
      BY <1>2, <2>1 DEF IInv, AccountsWereOffered
    <3>2. n \in 1..Len(requests)
      BY <1>2
    <3> QED BY <1>5, <3>1, <3>2
  <2>2. ASSUME NEW a \in Emails, accounts'[a] # Registered[a]
        PROVE  /\ Registered[a] = Blank
               /\ \E n \in 1..Len(requests) : /\ requests'[n].kind = "create"
                                              /\ requests'[n].cred = <<a, accounts'[a]>>
    <3>1. CASE accounts'[a] = accounts[a]
      <4>1. Registered[a] = Blank
        BY <2>2, <3>1 DEF IInv, AccountsWereOffered
      <4>2. PICK n \in 1..Len(requests) : /\ requests[n].kind = "create"
                                          /\ requests[n].cred = <<a, accounts[a]>>
        BY <1>2, <2>2, <3>1, ZenonT(60) DEF IInv, AccountsWereOffered
      <4> QED BY <1>5, <3>1, <4>1, <4>2
    <3>2. CASE accounts'[a] # accounts[a]
      <4>1. a = e /\ accounts[a] = Blank /\ accounts'[a] = p /\ requests[k].kind = "create"
        BY <1>6, <3>2
      <4>2. Registered[a] = Blank
        BY <4>1 DEF IInv, AccountsWereOffered
      <4>3. requests'[k].kind = "create" /\ requests'[k].cred = <<a, accounts'[a]>>
        BY <1>2, <1>5, <4>1
      <4> QED BY <4>2, <4>3
    <3> QED BY <3>1, <3>2
  <2> QED BY <1>5, <2>1, <2>2, ZenonT(60) DEF AccountsWereOffered
<1> QED BY <1>7, <1>8, <1>9, <1>10, <1>11, <1>12 DEF IInv

\* The login screen as it opens.
LEMMA InitIInv == Init => IInv
<1> SUFFICES ASSUME Init PROVE IInv
  OBVIOUS
<1>1. requests = <<>> /\ Len(requests) = 0 /\ requests \in Seq(Requests)
  BY EmptySeq DEF Init
<1>2. TypeOK
  BY <1>1, LoginAssumption DEF Init, TypeOK, Requests
<1> QED BY <1>1, <1>2 DEF Init, IInv, GrantedMatches, SuccessWasGranted, AlertIsOfFailure,
       UserHasProof, AccountsWereOffered

\* Every step keeps the invariant.
LEMMA StepIInv == IInv /\ [Next]_vars => IInv'
<1> SUFFICES ASSUME IInv, [Next]_vars PROVE IInv'
  OBVIOUS
<1>1. CASE UNCHANGED vars
  BY <1>1, ZenonT(60) DEF vars, fields, IInv, TypeOK, GrantedMatches, SuccessWasGranted, AlertIsOfFailure,
     UserHasProof, Succeeded, AccountsWereOffered
<1>2. ASSUME NEW e \in Emails \cup {Blank}, NEW p \in Passwords \cup {Blank}, Edit(e, p)
      PROVE  IInv'
  BY <1>2, EditStep
<1>3. ASSUME DidTapButton PROVE IInv'
  BY <1>3, DidTapButtonStep
<1>4. ASSUME NEW k \in DOMAIN requests, Serve(k) \/ Completion(k)
      PROVE  IInv'
  <2>1. k \in 1..Len(requests)
    BY RequestsFacts DEF IInv
  <2>2. CASE Serve(k)
    BY <2>1, <2>2, ServeStep
  <2>3. CASE SignedIn(k)
    BY <2>1, <2>3, SucceedsStep DEF SignedIn
  <2>4. CASE Created(k)
    BY <2>1, <2>4, SucceedsStep DEF Created
  <2>5. CASE SignInFailed(k)
    BY <2>1, <2>5, FailsStep DEF SignInFailed
  <2>6. CASE CreateFailed(k)
    BY <2>1, <2>6, FailsStep DEF CreateFailed
  <2> QED BY <1>4, <2>2, <2>3, <2>4, <2>5, <2>6 DEF Completion
<1>5. CASE AlertContinue
  BY <1>5, AlertContinueStep
<1>6. CASE AlertCancel
  BY <1>6, AlertCancelStep
<1> QED BY <1>1, <1>2, <1>3, <1>4, <1>5, <1>6 DEF Next

\* The inductive invariant holds for ever.
THEOREM InvariantHolds == Spec => []IInv
BY InitIInv, StepIInv, PTL DEF Spec

\* Every variable keeps its type.
THEOREM TypeCorrect == Spec => []TypeOK
<1>1. IInv => TypeOK
  BY DEF IInv
<1> QED BY <1>1, InvariantHolds, PTL

\* Whoever sees a main screen is signed in, with the password of the account.
THEOREM SignedInWithProof == Spec => []UserHasProof
<1>1. IInv => UserHasProof
  BY DEF IInv
<1> QED BY <1>1, InvariantHolds, PTL

\* Accounts are made with credentials a sign-in failed with, and no others.
THEOREM OnlyOfferedAccounts == Spec => []AccountsWereOffered
<1>1. IInv => AccountsWereOffered
  BY DEF IInv
<1> QED BY <1>1, InvariantHolds, PTL

-----------------------------------------------------------------------------
(* The story: its tags and its picture *)

\* How a choice may end.
ChoiceEnds == {"open", "shown", "noImage", "lost"}
\* A choice of another picture.
ChoiceRecords == [url : Pictures, end : ChoiceEnds]

\* Until the screen has loaded nothing is shown, told or chosen.
BeforeLoading == process = "new" => taps = <<>> /\ picture = NoPicture /\ told = 0

\* What holds of the story screen at every moment.
StoryIInv ==
    /\ StoryTypeOK
    /\ BeforeLoading
    /\ TagsAreObjects
    /\ PictureIsChosen

\* The choices whose downloads ended with something to show.
EndedAmong(ts) == {k \in DOMAIN ts : ts[k].end \in {"shown", "noImage"}}
\* What a choice that ended leaves on the screen.
Outcome(t) == IF t.end = "shown" THEN t.url ELSE NoPicture

\* The picture p is the one handed over, or a choice's.
ChosenAmong(ts, p) ==
    IF EndedAmong(ts) = {} THEN p = rcvimage ELSE \E k \in EndedAmong(ts) : p = Outcome(ts[k])

-----------------------------------------------------------------------------
\* PictureIsChosen in these words.
LEMMA PictureIsChosenIs ==
    PictureIsChosen <=> (process # "new" /\ process # "badPath" => ChosenAmong(taps, picture))
BY DEF PictureIsChosen, ChosenAmong, EndedAmong, Outcome

\* The same after a step.
LEMMA PictureIsChosenIsNext ==
    rcvimage' = rcvimage =>
        (PictureIsChosen' <=> (process' # "new" /\ process' # "badPath"
                                   => ChosenAmong(taps', picture')))
BY DEF PictureIsChosen, ChosenAmong, EndedAmong, Outcome

\* What the choices are, one by one.
LEMMA ChoicesFacts ==
    ASSUME StoryTypeOK
    PROVE  /\ taps \in Seq(ChoiceRecords) /\ Len(taps) \in Nat /\ DOMAIN taps = 1..Len(taps)
           /\ \A k \in DOMAIN taps : taps[k] \in ChoiceRecords
           /\ images \in Seq(Pictures)
           /\ \A r \in DOMAIN images : images[r] \in Pictures
<1>1. taps \in Seq(ChoiceRecords) /\ images \in Seq(Pictures)
  BY DEF StoryTypeOK, ChoiceRecords, ChoiceEnds
<1> QED BY <1>1, LenProperties, ElementOfSeq

\* A line of tags names each label of the predictions, once: they never are more
\* than there are boxes, and a set is laid out in as many places as it has members.
LEMMA TagLinesNameAll ==
    ASSUME NEW seen \in Predictions, NEW line \in TagLines(seen)
    PROVE  /\ line \in Seq(Range(labels))
           /\ IsInjective(line)
           /\ Range(line) = {labels[c] : c \in Range(seen)}
<1> DEFINE S == {labels[seen[b]] : b \in DOMAIN seen \cap Boxes}
           D == 1..Cardinality(S)
<1>1. PICK n \in 0..MaxBoundingBoxes : seen \in [1..n -> DOMAIN labels]
  BY DEF Predictions
<1>2. DOMAIN seen = 1..n /\ n \in Nat /\ DOMAIN seen \cap Boxes = 1..n
  BY <1>1, StoryAssumption DEF Boxes
<1>3. IsFiniteSet(1..n)
  BY <1>2, FS_Interval
<1>4. S = {labels[seen[b]] : b \in 1..n}
  BY <1>2
<1>5. IsFiniteSet(S)
  <2> DEFINE f == [b \in 1..n |-> labels[seen[b]]]
  <2>1. f \in Surjection(1..n, S)
    BY <1>4 DEF Surjection
  <2> HIDE DEF f, S
  <2> QED BY <1>3, <2>1, FS_Surjection
<1>6. Cardinality(S) \in Nat
  BY <1>5, FS_CardinalityType
<1>7. line \in [D -> S] /\ \A i, j \in D : i # j => line[i] # line[j]
  BY DEF TagLines, SetToSeqs
<1>8. IsInjective(line) /\ DOMAIN line = D
  BY <1>7 DEF IsInjective
<1>9. Cardinality(D) = Cardinality(S) /\ IsFiniteSet(D)
  BY <1>6, FS_Interval
<1>10. line \in Surjection(D, S)
  <2>1. line \in Injection(D, S)
    BY <1>7, <1>8 DEF Injection
  <2> HIDE DEF S, D
  <2> QED BY <1>5, <1>9, <2>1, FS_Injection
<1>11. Range(line) = S
  BY <1>7, <1>8, <1>10, ZenonT(60) DEF Surjection, Range
<1>12. S = {labels[c] : c \in Range(seen)}
  BY <1>2, <1>4 DEF Range
<1>13. S \subseteq Range(labels)
  BY <1>1, <1>4 DEF Range
<1>14. line \in Seq(Range(labels))
  <2>1. line \in [1..Cardinality(S) -> Range(labels)]
    BY <1>7, <1>13
  <2> QED BY <1>6, <2>1, SeqDef
<1> QED BY <1>8, <1>11, <1>12, <1>14

\* A download that ends with something to show is one of those that ended.
LEMMA ShowsChosen ==
    ASSUME NEW ts \in Seq(ChoiceRecords), NEW k \in DOMAIN ts, NEW how \in {"shown", "noImage"},
           NEW us, us = [ts EXCEPT ![k].end = how]
    PROVE  us \in Seq(ChoiceRecords) /\ ChosenAmong(us, Outcome(us[k]))
<1>1. ts[k] \in ChoiceRecords /\ Len(ts) \in Nat /\ DOMAIN ts = 1..Len(ts)
  BY ElementOfSeq, LenProperties
<1>2. [ts[k] EXCEPT !.end = how] \in ChoiceRecords
  BY <1>1 DEF ChoiceRecords, ChoiceEnds
<1>3. DOMAIN us = DOMAIN ts /\ us[k] = [ts[k] EXCEPT !.end = how]
  BY <1>1
<1>4. us \in Seq(ChoiceRecords)
  BY <1>1, <1>2, ExceptSeq
<1>5. us[k].end = how
  BY <1>1, <1>3 DEF ChoiceRecords
<1>6. k \in EndedAmong(us)
  BY <1>3, <1>5 DEF EndedAmong
<1> QED BY <1>4, <1>6 DEF ChosenAmong

\* A download that is open and is lost changes nothing that ended.
LEMMA LosesNothing ==
    ASSUME NEW ts \in Seq(ChoiceRecords), NEW k \in DOMAIN ts, ts[k].end = "open",
           NEW us, us = [ts EXCEPT ![k].end = "lost"], NEW p, ChosenAmong(ts, p)
    PROVE  us \in Seq(ChoiceRecords) /\ ChosenAmong(us, p)
<1>1. /\ Len(ts) \in Nat /\ DOMAIN ts = 1..Len(ts)
      /\ \A n \in DOMAIN ts : ts[n] \in ChoiceRecords
  BY ElementOfSeq, LenProperties
<1>2. [ts[k] EXCEPT !.end = "lost"] \in ChoiceRecords
  BY <1>1 DEF ChoiceRecords, ChoiceEnds
<1>3. us \in Seq(ChoiceRecords)
  BY <1>1, <1>2, ExceptSeq
<1>4. /\ DOMAIN us = DOMAIN ts
      /\ \A n \in DOMAIN ts : n # k => us[n] = ts[n]
      /\ us[k].end = "lost"
  BY <1>1 DEF ChoiceRecords
<1>5. EndedAmong(us) = EndedAmong(ts) /\ \A n \in EndedAmong(ts) : us[n] = ts[n]
  BY <1>4 DEF EndedAmong
<1> QED BY <1>3, <1>5 DEF ChosenAmong

\* A choice more, whose download is open.
LEMMA ChoosesMore ==
    ASSUME NEW ts \in Seq(ChoiceRecords), NEW t \in ChoiceRecords, t.end = "open",
           NEW us, us = Append(ts, t), NEW p, ChosenAmong(ts, p)
    PROVE  us \in Seq(ChoiceRecords) /\ ChosenAmong(us, p)
<1>1. /\ Len(ts) \in Nat /\ DOMAIN ts = 1..Len(ts)
      /\ us \in Seq(ChoiceRecords) /\ Len(us) = Len(ts) + 1 /\ DOMAIN us = 1..Len(us)
      /\ \A n \in 1..Len(ts) : us[n] = ts[n]
      /\ us[Len(ts) + 1] = t
  BY AppendProperties, LenProperties
<1>2. EndedAmong(us) = EndedAmong(ts) /\ \A n \in EndedAmong(ts) : us[n] = ts[n]
  BY <1>1 DEF EndedAmong
<1> QED BY <1>1, <1>2 DEF ChosenAmong

-----------------------------------------------------------------------------
\* The story screen as it opens.
LEMMA InitStoryIInv == StoryInit => StoryIInv
<1> SUFFICES ASSUME StoryInit PROVE StoryIInv
  OBVIOUS
<1>1. <<>> \in Predictions
  <2>1. <<>> \in [1..0 -> DOMAIN labels]
    OBVIOUS
  <2>2. 0 \in 0..MaxBoundingBoxes
    BY StoryAssumption
  <2> QED BY <2>1, <2>2 DEF Predictions
<1>2. StoryTypeOK
  BY <1>1, EmptySeq DEF StoryInit, StoryTypeOK
<1>3. BeforeLoading /\ PictureIsChosen
  BY DEF StoryInit, BeforeLoading, PictureIsChosen
<1>4. TagsAreObjects
  <2>1. tag = <<>> /\ objects = <<>>
    BY DEF StoryInit
  <2> QED BY <2>1 DEF TagsAreObjects, IsInjective, Range
<1> QED BY <1>2, <1>3, <1>4 DEF StoryIInv

\* A trap changes nothing but that.
LEMMA TrapStep ==
    ASSUME StoryIInv, NEW cause \in {"noImage", "badPath", "noField", "noURL"}, Trap(cause),
           cause # "badPath" => process # "new" \/ rcvimage = NoPicture,
           process # "badPath"
    PROVE  StoryIInv'
<1>1. StoryTypeOK'
  BY DEF StoryIInv, StoryTypeOK, Trap, listing, detection
<1>2. TagsAreObjects' /\ BeforeLoading'
  BY DEF StoryIInv, TagsAreObjects, BeforeLoading, Trap, listing, detection
<1>3. PictureIsChosen'
  <2>1. process # "new" => ChosenAmong(taps, picture)
    BY PictureIsChosenIs DEF StoryIInv
  <2>2. rcvimage' = rcvimage /\ taps' = taps /\ picture' = picture /\ process' = cause
    BY DEF Trap
  <2>3. process = "new" /\ cause # "badPath" => ChosenAmong(taps, picture)
    BY DEF StoryIInv, BeforeLoading, ChosenAmong, EndedAmong
  <2> QED BY <2>1, <2>2, <2>3, PictureIsChosenIsNext
<1> QED BY <1>1, <1>2, <1>3 DEF StoryIInv

\* Loading: the tags are written from what was detected.
LEMMA ViewDidLoadStep ==
    ASSUME StoryIInv, NEW c \in Classes \cup {NoClass}, NEW seen \in {{}} \cup {{s} : s \in Predictions},
           ViewDidLoad(c, seen)
    PROVE  StoryIInv'
<1>1. CASE rcvimage = NoPicture
  BY <1>1, TrapStep DEF ViewDidLoad
<1>2. CASE rcvimage # NoPicture /\ Ttag(c) = Empty
  BY <1>2, TrapStep DEF ViewDidLoad
<1>3. CASE rcvimage # NoPicture /\ Ttag(c) # Empty
  <2>1. /\ class' = Ttag(c) /\ live' = (class' # NoClass) /\ posted' = seen
        /\ picture' = rcvimage /\ process' = "running" /\ process = "new"
        /\ UNCHANGED <<rcvimage, told, images, objects, tag, taps>>
    BY <1>3 DEF ViewDidLoad
  <2>2. Ttag(c) \in Known \cup {NoClass}
    BY <1>3 DEF Ttag
  <2>3. told = 0 /\ taps = <<>>
    BY <2>1 DEF StoryIInv, BeforeLoading
  <2>4. class' # NoClass => told' <= Len(Contents[class'])
    <3>1. SUFFICES ASSUME class' # NoClass PROVE told' <= Len(Contents[class'])
      OBVIOUS
    <3>2. Contents[class'] \in Seq(Seq(Pictures))
      BY <2>1, <2>2, <3>1, StoryAssumption
    <3>3. Len(Contents[class']) \in Nat
      BY <3>2, LenProperties
    <3> QED BY <2>1, <2>3, <3>3
  <2>5. StoryTypeOK'
    BY <2>1, <2>2, <2>4 DEF StoryIInv, StoryTypeOK
  <2>6. TagsAreObjects' /\ BeforeLoading'
    BY <2>1 DEF StoryIInv, TagsAreObjects, BeforeLoading
  <2>7. ChosenAmong(taps', picture')
    BY <2>1, <2>3 DEF ChosenAmong, EndedAmong
  <2>8. PictureIsChosen'
    BY <2>1, <2>7, PictureIsChosenIsNext
  <2> QED BY <2>5, <2>6, <2>8 DEF StoryIInv
<1> QED BY <1>1, <1>2, <1>3

\* Showing the detections: the tags are written anew, the picture stays.
LEMMA ShowStep ==
    ASSUME StoryIInv, NEW seen \in posted, Show(seen)
    PROVE  StoryIInv'
<1>1. seen \in Predictions
  BY DEF StoryIInv, StoryTypeOK
<1>2. /\ posted' = {} /\ objects' = seen /\ tag' \in TagLines(seen)
      /\ UNCHANGED <<rcvimage, class, told, live, images, picture, taps, process>>
  BY DEF Show, listing
<1>3. /\ tag' \in Seq(Range(labels)) /\ IsInjective(tag')
      /\ Range(tag') = {labels[c] : c \in Range(objects')}
  BY <1>1, <1>2, TagLinesNameAll
<1>4. StoryTypeOK'
  BY <1>1, <1>2, <1>3 DEF StoryIInv, StoryTypeOK
<1>5. TagsAreObjects'
  BY <1>3 DEF TagsAreObjects
<1>6. BeforeLoading'
  BY <1>2 DEF StoryIInv, BeforeLoading
<1>7. PictureIsChosen'
  BY <1>2, PictureIsChosenIs, PictureIsChosenIsNext DEF StoryIInv
<1> QED BY <1>4, <1>5, <1>6, <1>7 DEF StoryIInv

\* A call of the listener changes the images and what it was told, no more.
LEMMA ListenerStep ==
    ASSUME StoryIInv, Running,
           images' \in Seq(Pictures), told' \in Nat, live' \in BOOLEAN,
           class # NoClass => told' <= Len(Contents[class]),
           UNCHANGED <<rcvimage, class, posted, objects, tag, picture, taps, process>>
    PROVE  StoryIInv'
<1>1. StoryTypeOK'
  BY DEF StoryIInv, StoryTypeOK
<1>2. TagsAreObjects' /\ BeforeLoading'
  BY DEF StoryIInv, TagsAreObjects, BeforeLoading, Running
<1>3. PictureIsChosen'
  BY PictureIsChosenIs, PictureIsChosenIsNext DEF StoryIInv
<1> QED BY <1>1, <1>2, <1>3 DEF StoryIInv

\* A snapshot arrives.
LEMMA DeliverStep ==
    ASSUME StoryIInv, class # NoClass, NEW v \in DOMAIN Contents[class], Deliver(v)
    PROVE  StoryIInv'
<1>1. class \in Known
  BY DEF StoryIInv, StoryTypeOK
<1>2. Contents[class] \in Seq(Seq(Pictures))
  BY <1>1, StoryAssumption
<1>3. /\ Contents[class][v] \in Seq(Pictures) /\ v \in Nat /\ v <= Len(Contents[class])
  BY <1>2, LenProperties, ElementOfSeq
<1>4. images \o Contents[class][v] \in Seq(Pictures)
  BY <1>3, ConcatProperties DEF StoryIInv, StoryTypeOK
<1> QED BY <1>3, <1>4, ListenerStep DEF Deliver, StoryIInv, StoryTypeOK, detection

\* A step of the choices, with the picture one of theirs.
LEMMA ChoiceStep ==
    ASSUME StoryIInv, Running, taps' \in Seq(ChoiceRecords), ChosenAmong(taps', picture'),
           picture' \in Pictures \cup {NoPicture},
           UNCHANGED <<rcvimage, class, told, live, images, posted, objects, tag, process>>
    PROVE  StoryIInv'
<1>1. StoryTypeOK'
  BY DEF StoryIInv, StoryTypeOK, ChoiceRecords, ChoiceEnds
<1>2. TagsAreObjects' /\ BeforeLoading'
  BY DEF StoryIInv, TagsAreObjects, BeforeLoading, Running
<1>3. PictureIsChosen'
  BY PictureIsChosenIsNext
<1> QED BY <1>1, <1>2, <1>3 DEF StoryIInv

\* A tap on another picture adds a choice.
LEMMA ChooseStep ==
    ASSUME StoryIInv, NEW r \in DOMAIN images, Choose(r)
    PROVE  StoryIInv'
<1> DEFINE t == [url |-> images[r], end |-> "open"]
<1>1. StoryTypeOK
  BY DEF StoryIInv
<1>2. t \in ChoiceRecords /\ t.end = "open"
  BY <1>1, ChoicesFacts DEF ChoiceRecords, ChoiceEnds
<1>3. taps' = Append(taps, t) /\ picture' = picture /\ Running /\ taps \in Seq(ChoiceRecords)
  BY <1>1, ChoicesFacts DEF Choose
<1>4. ChosenAmong(taps, picture)
  BY <1>3, PictureIsChosenIs DEF StoryIInv, Running
<1> HIDE DEF t
<1>5. taps' \in Seq(ChoiceRecords) /\ ChosenAmong(taps', picture)
  BY <1>2, <1>3, <1>4, ChoosesMore
<1> QED BY <1>1, <1>3, <1>5, ChoiceStep DEF Choose, listing, detection, StoryTypeOK

\* A download ends, in any order.
LEMMA DownloadStep ==
    ASSUME StoryIInv, NEW k \in DOMAIN taps, Download(k)
    PROVE  StoryIInv'
<1>1. /\ StoryTypeOK /\ taps \in Seq(ChoiceRecords) /\ taps[k] \in ChoiceRecords
      /\ taps[k].url \in Pictures /\ picture \in Pictures \cup {NoPicture}
  BY ChoicesFacts DEF StoryIInv, StoryTypeOK, ChoiceRecords
<1>2. ASSUME NEW how, NEW p, Answered(k, how, p)
      PROVE  /\ Running /\ taps[k].end = "open" /\ picture' = p
             /\ taps' = [taps EXCEPT ![k].end = how]
             /\ UNCHANGED <<rcvimage, class, told, live, images, posted, objects, tag, process>>
  BY <1>2 DEF Answered, listing, detection
<1>3. ASSUME NEW how, how \in {"shown", "noImage"}
      PROVE  Outcome([taps EXCEPT ![k].end = how][k])
               = IF how = "shown" THEN taps[k].url ELSE NoPicture
  BY <1>1, <1>3 DEF Outcome, ChoiceRecords
<1>4. CASE Answer(k)
  <2>1. Answered(k, "shown", taps[k].url)
    BY <1>4 DEF Answer
  <2>2. taps' \in Seq(ChoiceRecords) /\ ChosenAmong(taps', Outcome(taps'[k]))
    BY <1>1, <1>2, <2>1, ShowsChosen
  <2>3. Outcome(taps'[k]) = taps[k].url
    BY <1>2, <1>3, <2>1
  <2> QED BY <1>1, <1>2, <2>1, <2>2, <2>3, ChoiceStep
<1>5. CASE AnswerNoImage(k)
  <2>1. Answered(k, "noImage", NoPicture)
    BY <1>5 DEF AnswerNoImage
  <2>2. taps' \in Seq(ChoiceRecords) /\ ChosenAmong(taps', Outcome(taps'[k]))
    BY <1>1, <1>2, <2>1, ShowsChosen
  <2>3. Outcome(taps'[k]) = NoPicture
    BY <1>2, <1>3, <2>1
  <2> QED BY <1>1, <1>2, <2>1, <2>2, <2>3, ChoiceStep
<1>6. CASE AnswerLost(k)
  <2>1. Answered(k, "lost", picture)
    BY <1>6 DEF AnswerLost
  <2>2. ChosenAmong(taps, picture)
    BY <1>2, <2>1, PictureIsChosenIs DEF StoryIInv, Running
  <2>3. taps' \in Seq(ChoiceRecords) /\ ChosenAmong(taps', picture)
    BY <1>1, <1>2, <2>1, <2>2, LosesNothing
  <2> QED BY <1>1, <1>2, <2>1, <2>3, ChoiceStep
<1>7. CASE AnswerError(k)
  BY <1>7, TrapStep DEF AnswerError, Running
<1> QED BY <1>4, <1>5, <1>6, <1>7 DEF Download

\* No step breaks the invariant.
LEMMA StepStoryIInv == StoryIInv /\ [StoryNext]_storyVars => StoryIInv'
<1> SUFFICES ASSUME StoryIInv, [StoryNext]_storyVars PROVE StoryIInv'
  OBVIOUS
<1>1. CASE UNCHANGED storyVars
  <2>1. UNCHANGED <<rcvimage, class, told, live, images, posted, objects, tag, picture, taps, process>>
    BY <1>1 DEF storyVars, listing, detection
  <2>2. StoryTypeOK' /\ BeforeLoading' /\ TagsAreObjects'
    BY <2>1 DEF StoryIInv, StoryTypeOK, BeforeLoading, TagsAreObjects
  <2>3. PictureIsChosen'
    BY <2>1, PictureIsChosenIs, PictureIsChosenIsNext DEF StoryIInv
  <2> QED BY <2>2, <2>3 DEF StoryIInv
<1>2. ASSUME NEW c \in Classes \cup {NoClass}, NEW seen \in {{}} \cup {{s} : s \in Predictions},
             ViewDidLoad(c, seen)
      PROVE  StoryIInv'
  BY <1>2, ViewDidLoadStep
<1>3. ASSUME NEW seen \in posted, Show(seen) PROVE StoryIInv'
  BY <1>3, ShowStep
<1>4. ASSUME class # NoClass, NEW v \in DOMAIN Contents[class], Deliver(v) PROVE StoryIInv'
  BY <1>4, DeliverStep
<1>5. CASE DeliverMissing
  BY <1>5, TrapStep DEF DeliverMissing, Running
<1>6. CASE DeliverError
  BY <1>6, ListenerStep DEF DeliverError, StoryIInv, StoryTypeOK, detection
<1>7. ASSUME NEW r \in DOMAIN images, Choose(r) PROVE StoryIInv'
  BY <1>7, ChooseStep
<1>8. ASSUME NEW k \in DOMAIN taps, Download(k) PROVE StoryIInv'
  BY <1>8, DownloadStep
<1> QED BY <1>1, <1>2, <1>3, <1>4, <1>5, <1>6, <1>7, <1>8 DEF StoryNext

\* The inductive invariant of the story screen holds for ever.
THEOREM StoryInvariantHolds == StorySpec => []StoryIInv
BY InitStoryIInv, StepStoryIInv, PTL DEF StorySpec

\* Every variable of the story screen keeps its type.
THEOREM StoryTypeCorrect == StorySpec => []StoryTypeOK
<1>1. StoryIInv => StoryTypeOK
  BY DEF StoryIInv
<1> QED BY <1>1, StoryInvariantHolds, PTL

\* The line of tags names every object that was found, each kind once, for any
\* labels and any limit of boxes.
THEOREM TagsNameObjects == StorySpec => []TagsAreObjects
<1>1. StoryIInv => TagsAreObjects
  BY DEF StoryIInv
<1> QED BY <1>1, StoryInvariantHolds, PTL

\* The picture shown is one that was chosen and has arrived, or else the one
\* handed over, for any number of choices and any order of their downloads.
THEOREM PictureWasChosen == StorySpec => []PictureIsChosen
<1>1. StoryIInv => PictureIsChosen
  BY DEF StoryIInv
<1> QED BY <1>1, StoryInvariantHolds, PTL
=============================================================================
