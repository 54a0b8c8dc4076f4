------------------------ MODULE DocumentListenerProofs ------------------------
(****************************************************************************)
(* What the client knows of the document is the server's: what is on disk   *)
(* can be resumed from, a Synced view is what the server has, and the       *)
(* listeners keep the promise of DocumentListener.  All of it for any       *)
(* number of listeners, versions, messages and faults.                      *)
(*                                                                          *)
(* The invariant is DInv.  Its parts, each of the client, the messages on   *)
(* their way and the server's sessions:                                     *)
(*   Told      the line from a target's token over what is on its way to    *)
(*             what the server has sent it: at each version named on the    *)
(*             way, the last message before it says what the document was;  *)
(*   Faithful  what is on disk, in the view and shown agree, and are true;  *)
(*   Unbroken  until the server takes something back: what is held back is  *)
(*             what some target is told, the disk can be resumed from, and  *)
(*             nothing shown is newer than what is on disk.                 *)
(* Each message handler is shown to take them from before it to after it    *)
(* (the lemmas ...Takes), each action to keep DInv (the lemmas ...Holds).   *)
(****************************************************************************)
EXTENDS DocumentWatchProofs

-----------------------------------------------------------------------------
(* What a target is told *)

\* The document was there at the version v of the history h; none was at 0.
Had(h, v) == v # 0 /\ h[v]

\* What is claimed of the document: the version that is there, or 0.
Claim(h, v) == IF Had(h, v) THEN v ELSE 0
DocumentClaim(m) == IF m.exists THEN m.version ELSE 0
MessageClaim(m) == IF m.kind = "document" THEN DocumentClaim(m.document) ELSE 0

\* The message m tells the target t of the document.
Telling(m, t) == m.kind \in {"document", "filter", "reset"} /\ m.target = t

\* Nothing is told to t from the i-th message on, up to the j-th.
Quiet(q, t, i, j) == \A k \in DOMAIN q : i <= k /\ k < j => ~Telling(q[k], t)

\* The client wants t, and the server knows.
Wants(c, t) == t \in c.listens /\ c.open /\ ~Asks(c, "watch", t)

\* t is served when the client comes to the i-th message.
Reached(q, t, i) ==
    \A j \in DOMAIN q : /\ q[j].kind = "added" /\ q[j].target = t => j < i
                        /\ q[j].kind = "rejected" /\ q[j].target = t => i <= j

\* At the i-th message, or at the end of the queue, t is to be at the version v.
Mark(c, q, s, t, i, v) ==
    /\ Wants(c, t)
    /\ \/ i \in DOMAIN q /\ q[i].kind = "snapshot" /\ q[i].version = v /\ Reached(q, t, i)
       \/ i = Len(q) + 1 /\ s[t].phase # "none" /\ s[t].sent = v

\* A mark before which t is told nothing: one of the claims ks was right already.
FirstMarks(h, c, q, s, t, ks) ==
    \A i, v \in Nat : Mark(c, q, s, t, i, v) /\ Quiet(q, t, 1, i) => Claim(h, v) \in ks

\* A mark before which t is told something: the last of it was so at the mark's version.
LastTold(h, c, q, s, t) ==
    \A i, v \in Nat, j \in DOMAIN q :
        Mark(c, q, s, t, i, v) /\ j < i /\ Telling(q[j], t) /\ Quiet(q, t, j + 1, i) =>
            MessageClaim(q[j]) = Claim(h, v)

\* Between two marks t is told something, or the document is what it was.
NothingNew(h, c, q, s, t) ==
    \A i, j, v, w \in Nat :
        Mark(c, q, s, t, i, v) /\ Mark(c, q, s, t, j, w) /\ i < j /\ Quiet(q, t, i, j) =>
            Claim(h, v) = Claim(h, w)

\* What t is told, from one of the claims ks on, is what the server has.
Line(h, c, q, s, t, ks) ==
    /\ FirstMarks(h, c, q, s, t, ks)
    /\ LastTold(h, c, q, s, t)
    /\ NothingNew(h, c, q, s, t)

\* A target that is not wanted has no marks.
LEMMA LineNone ==
    ASSUME NEW h, NEW c, NEW q, NEW s, NEW t, ~Wants(c, t), NEW ks
    PROVE  Line(h, c, q, s, t, ks)
BY DEF Line, FirstMarks, LastTold, NothingNew, Mark

\* Another client, that wants no more.
LEMMA LineClient ==
    ASSUME NEW h, NEW c, NEW q, NEW s, NEW t, NEW ks, Line(h, c, q, s, t, ks),
           NEW d, Wants(d, t) => Wants(c, t), NEW ls, ks \subseteq ls
    PROVE  Line(h, d, q, s, t, ls)
<1>1. \A i, v \in Nat : Mark(d, q, s, t, i, v) => Mark(c, q, s, t, i, v)
  BY DEF Mark
<1>2. FirstMarks(h, d, q, s, t, ls)
  BY <1>1 DEF Line, FirstMarks
<1>3. LastTold(h, d, q, s, t)
  BY <1>1 DEF Line, LastTold
<1>4. NothingNew(h, d, q, s, t)
  BY <1>1 DEF Line, NothingNew
<1> QED BY <1>2, <1>3, <1>4 DEF Line

\* The history grows.
LEMMA LineGrows ==
    ASSUME NEW h, NEW c, NEW q, NEW s, NEW t, NEW ks, Line(h, c, q, s, t, ks),
           NEW g, \A i, v \in Nat : Mark(c, q, s, t, i, v) => Claim(g, v) = Claim(h, v)
    PROVE  Line(g, c, q, s, t, ks)
<1>1. FirstMarks(g, c, q, s, t, ks)
  BY DEF Line, FirstMarks
<1>2. LastTold(g, c, q, s, t)
  BY DEF Line, LastTold
<1>3. NothingNew(g, c, q, s, t)
  <2>1. ASSUME NEW i \in Nat, NEW j \in Nat, NEW v \in Nat, NEW w \in Nat, Mark(c, q, s, t, i, v),
               Mark(c, q, s, t, j, w), i < j, Quiet(q, t, i, j)
        PROVE  Claim(g, v) = Claim(g, w)
    <3>1. Claim(h, v) = Claim(h, w)
      BY <2>1 DEF Line, NothingNew
    <3> QED BY <2>1, <3>1
  <2> QED BY <2>1 DEF NothingNew
<1> QED BY <1>1, <1>2, <1>3 DEF Line

\* The server's place moves, and claims what it claimed.
LEMMA LineSilent ==
    ASSUME NEW h, NEW c, NEW q, NEW s, NEW t, NEW ks, Line(h, c, q, s, t, ks),
           NEW r, r[t].phase = "none" \/
                  (s[t].phase # "none" /\ s[t].sent \in Nat
                   /\ Claim(h, r[t].sent) = Claim(h, s[t].sent))
    PROVE  Line(h, c, q, r, t, ks)
<1>1. ASSUME NEW i \in Nat, NEW v \in Nat, Mark(c, q, r, t, i, v)
      PROVE  \E w \in Nat : Mark(c, q, s, t, i, w) /\ Claim(h, w) = Claim(h, v)
  <2>1. CASE Mark(c, q, s, t, i, v)
    BY <2>1
  <2>2. CASE ~Mark(c, q, s, t, i, v)
    <3>1. i = Len(q) + 1 /\ r[t].phase # "none" /\ r[t].sent = v /\ Wants(c, t)
      BY <1>1, <2>2 DEF Mark
    <3>2. Mark(c, q, s, t, i, s[t].sent)
      BY <3>1 DEF Mark
    <3> QED BY <3>1, <3>2
  <2> QED BY <2>1, <2>2
<1>2. FirstMarks(h, c, q, r, t, ks)
  <2>1. ASSUME NEW i \in Nat, NEW v \in Nat, Mark(c, q, r, t, i, v), Quiet(q, t, 1, i)
        PROVE  Claim(h, v) \in ks
    <3>1. PICK w \in Nat : Mark(c, q, s, t, i, w) /\ Claim(h, w) = Claim(h, v)
      BY <1>1, <2>1
    <3>2. Claim(h, w) \in ks
      BY <2>1, <3>1 DEF Line, FirstMarks
    <3> QED BY <3>1, <3>2
  <2> QED BY <2>1 DEF FirstMarks
<1>3. LastTold(h, c, q, r, t)
  <2>1. ASSUME NEW i \in Nat, NEW v \in Nat, NEW j \in DOMAIN q, Mark(c, q, r, t, i, v), j < i,
               Telling(q[j], t), Quiet(q, t, j + 1, i)
        PROVE  MessageClaim(q[j]) = Claim(h, v)
    <3>1. PICK w \in Nat : Mark(c, q, s, t, i, w) /\ Claim(h, w) = Claim(h, v)
      BY <1>1, <2>1
    <3>2. MessageClaim(q[j]) = Claim(h, w)
      BY <2>1, <3>1 DEF Line, LastTold
    <3> QED BY <3>1, <3>2
  <2> QED BY <2>1 DEF LastTold
<1>4. NothingNew(h, c, q, r, t)
  <2>1. ASSUME NEW i \in Nat, NEW j \in Nat, NEW v \in Nat, NEW w \in Nat, Mark(c, q, r, t, i, v),
               Mark(c, q, r, t, j, w), i < j, Quiet(q, t, i, j)
        PROVE  Claim(h, v) = Claim(h, w)
    <3>1. PICK x \in Nat : Mark(c, q, s, t, i, x) /\ Claim(h, x) = Claim(h, v)
      BY <1>1, <2>1
    <3>2. PICK y \in Nat : Mark(c, q, s, t, j, y) /\ Claim(h, y) = Claim(h, w)
      BY <1>1, <2>1
    <3>3. Claim(h, x) = Claim(h, y)
      BY <2>1, <3>1, <3>2 DEF Line, NothingNew
    <3> QED BY <3>1, <3>2, <3>3
  <2> QED BY <2>1 DEF NothingNew
<1> QED BY <1>2, <1>3, <1>4 DEF Line

\* What a queue is when a message is appended.
LEMMA AppendIs ==
    ASSUME NEW q \in Seq(Messages), NEW m \in Messages, NEW p, p = Append(q, m)
    PROVE  /\ Len(q) \in Nat /\ Len(p) = Len(q) + 1
           /\ DOMAIN q = 1..Len(q) /\ DOMAIN p = 1..(Len(q) + 1)
           /\ \A i \in DOMAIN q : p[i] = q[i]
           /\ p[Len(q) + 1] = m
<1>1. /\ p \in Seq(Messages) /\ Len(p) = Len(q) + 1 /\ Len(q) \in Nat
      /\ \A i \in 1..Len(q) : p[i] = q[i]
      /\ p[Len(q) + 1] = m
  BY AppendProperties, LenProperties
<1> QED BY <1>1, LenProperties

\* What a queue is when its first message is taken.
LEMMA TailIs ==
    ASSUME NEW q \in Seq(Messages), q # <<>>, NEW p, p = Tail(q), NEW m, m = Head(q)
    PROVE  /\ p \in Seq(Messages) /\ m \in Messages /\ m = q[1]
           /\ Len(p) \in Nat /\ Len(q) = Len(p) + 1
           /\ DOMAIN p = 1..Len(p) /\ DOMAIN q = 1..(Len(p) + 1)
           /\ \A i \in DOMAIN p : p[i] = q[i + 1]
<1>1. /\ p \in Seq(Messages) /\ m \in Messages /\ Len(q) \in Nat /\ Len(q) # 0
      /\ Len(p) = Len(q) - 1
      /\ \A i \in 1..Len(p) : p[i] = q[i + 1]
      /\ m = q[1]
  BY HeadTailProperties, LenProperties, EmptySeq
<1> QED BY <1>1, LenProperties

\* A message at the end that tells t nothing: its marks are where they were, or
\* at what was the end.
LEMMA LineAppend ==
    ASSUME NEW h, NEW c, NEW q \in Seq(Messages), NEW s, NEW t, NEW ks, Line(h, c, q, s, t, ks),
           NEW m \in Messages, ~Telling(m, t), NEW p, p = Append(q, m),
           NEW r, r[t] = s[t] \/ r[t].phase = "none", s[t].sent \in Nat,
           m.kind = "snapshot" /\ Wants(c, t) /\ ~Tells(q, "rejected", t) =>
               s[t].phase # "none" /\ s[t].sent = m.version
    PROVE  Line(h, c, p, r, t, ks)
<1> DEFINE n == Len(q) + 1
<1>1. /\ Len(q) \in Nat /\ Len(p) = n /\ DOMAIN q = 1..Len(q) /\ DOMAIN p = 1..n
      /\ \A i \in DOMAIN q : p[i] = q[i]
      /\ p[n] = m
  BY AppendIs
<1>2. n \in Nat /\ n \notin DOMAIN q /\ n \in DOMAIN p /\ \A i \in DOMAIN p : i \in DOMAIN q \/ i = n
  BY <1>1
<1>3. \A i : Reached(p, t, i) => Reached(q, t, i)
  BY <1>1, <1>2 DEF Reached
<1>4. ASSUME NEW i \in Nat, NEW v \in Nat, Mark(c, p, r, t, i, v)
      PROVE  \/ i \in DOMAIN q /\ Mark(c, q, s, t, i, v)
             \/ i >= n /\ Mark(c, q, s, t, n, v) /\ v = s[t].sent
  <2>1. Wants(c, t)
    BY <1>4 DEF Mark
  <2>2. CASE i \in DOMAIN q
    <3>1. q[i].kind = "snapshot" /\ q[i].version = v /\ Reached(p, t, i)
      BY <1>1, <1>4, <2>2 DEF Mark
    <3> QED BY <1>3, <2>1, <2>2, <3>1 DEF Mark
  <2>3. CASE i = n
    <3>1. m.kind = "snapshot" /\ m.version = v /\ Reached(p, t, n)
      BY <1>1, <1>2, <1>4, <2>3 DEF Mark
    <3>2. ~Tells(q, "rejected", t)
      <4>1. ASSUME NEW j \in DOMAIN q, q[j].kind = "rejected", q[j].target = t
            PROVE  FALSE
        <5>1. j \in DOMAIN p /\ p[j] = q[j] /\ j < n
          BY <1>1, <1>2, <4>1
        <5>2. n <= j
          BY <3>1, <4>1, <5>1 DEF Reached
        <5> QED BY <1>1, <1>2, <4>1, <5>1, <5>2
      <4> QED BY <4>1 DEF Tells
    <3> QED BY <1>1, <1>2, <2>1, <2>3, <3>1, <3>2 DEF Mark
  <2>4. CASE i \notin DOMAIN q /\ i # n
    <3>1. i = n + 1 /\ r[t].phase # "none" /\ r[t].sent = v
      BY <1>1, <1>2, <1>4, <2>4 DEF Mark
    <3> QED BY <1>1, <1>2, <2>1, <3>1 DEF Mark
  <2> QED BY <1>1, <2>2, <2>3, <2>4
<1> HIDE DEF n
<1>5. \A j \in DOMAIN p : Telling(p[j], t) => j \in DOMAIN q /\ Telling(q[j], t)
  BY <1>1, <1>2
<1>6. ASSUME NEW i, NEW j, Quiet(p, t, i, j) PROVE Quiet(q, t, i, j)
  BY <1>1, <1>2, <1>6 DEF Quiet
<1>7. ASSUME NEW i, NEW j \in Nat, Quiet(p, t, i, j), j >= n PROVE Quiet(q, t, i, n)
  <2>1. \A k \in DOMAIN q : k < j
    BY <1>1, <1>2, <1>7 DEF n
  <2> QED BY <1>1, <1>2, <1>7, <2>1 DEF Quiet
<1>8. FirstMarks(h, c, p, r, t, ks)
  <2>1. ASSUME NEW i \in Nat, NEW v \in Nat, Mark(c, p, r, t, i, v), Quiet(p, t, 1, i)
        PROVE  Claim(h, v) \in ks
    <3>1. CASE i \in DOMAIN q /\ Mark(c, q, s, t, i, v)
      BY <1>6, <2>1, <3>1 DEF Line, FirstMarks
    <3>2. CASE i >= n /\ Mark(c, q, s, t, n, v)
      BY <1>2, <1>7, <2>1, <3>2 DEF Line, FirstMarks
    <3> QED BY <1>4, <2>1, <3>1, <3>2
  <2> QED BY <2>1 DEF FirstMarks
<1>9. LastTold(h, c, p, r, t)
  <2>1. ASSUME NEW i \in Nat, NEW v \in Nat, NEW j \in DOMAIN p, Mark(c, p, r, t, i, v), j < i,
               Telling(p[j], t), Quiet(p, t, j + 1, i)
        PROVE  MessageClaim(p[j]) = Claim(h, v)
    <3>1. j \in DOMAIN q /\ Telling(q[j], t) /\ p[j] = q[j] /\ j < n
      BY <1>1, <1>5, <2>1 DEF n
    <3>2. CASE i \in DOMAIN q /\ Mark(c, q, s, t, i, v)
      <4>1. Quiet(q, t, j + 1, i)
        BY <1>6, <2>1
      <4> QED BY <2>1, <3>1, <3>2, <4>1 DEF Line, LastTold
    <3>3. CASE i >= n /\ Mark(c, q, s, t, n, v)
      <4>1. Quiet(q, t, j + 1, n)
        BY <1>7, <2>1, <3>3
      <4> QED BY <1>2, <2>1, <3>1, <3>3, <4>1 DEF Line, LastTold
    <3> QED BY <1>4, <2>1, <3>2, <3>3
  <2> QED BY <2>1 DEF LastTold
<1>10. NothingNew(h, c, p, r, t)
  <2>1. ASSUME NEW i \in Nat, NEW j \in Nat, NEW v \in Nat, NEW w \in Nat,
               Mark(c, p, r, t, i, v), Mark(c, p, r, t, j, w), i < j, Quiet(p, t, i, j)
        PROVE  Claim(h, v) = Claim(h, w)
    <3>1. CASE j \in DOMAIN q /\ Mark(c, q, s, t, j, w)
      <4>1. i \in DOMAIN q /\ Mark(c, q, s, t, i, v)
        BY <1>1, <1>4, <2>1, <3>1 DEF n
      <4>2. Quiet(q, t, i, j)
        BY <1>6, <2>1
      <4> QED BY <2>1, <3>1, <4>1, <4>2 DEF Line, NothingNew
    <3>2. CASE j >= n /\ Mark(c, q, s, t, n, w) /\ w = s[t].sent
      <4>1. CASE i \in DOMAIN q /\ Mark(c, q, s, t, i, v)
        <5>1. Quiet(q, t, i, n)
          BY <1>7, <2>1, <3>2
        <5>2. i < n
          BY <1>1, <4>1 DEF n
        <5> QED BY <1>2, <2>1, <3>2, <4>1, <5>1, <5>2 DEF Line, NothingNew
      <4>2. CASE v = s[t].sent
        BY <3>2, <4>2
      <4> QED BY <1>4, <2>1, <4>1, <4>2
    <3> QED BY <1>4, <2>1, <3>1, <3>2
  <2> QED BY <2>1 DEF NothingNew
<1> QED BY <1>8, <1>9, <1>10 DEF Line

\* A message at the end that tells t what is so at the server's new place.
LEMMA LineTold ==
    ASSUME NEW h, NEW c, NEW q \in Seq(Messages), NEW s, NEW t, NEW ks, Line(h, c, q, s, t, ks),
           NEW m \in Messages, Telling(m, t), NEW p, p = Append(q, m),
           NEW r, MessageClaim(m) = Claim(h, r[t].sent)
    PROVE  Line(h, c, p, r, t, ks)
<1> DEFINE n == Len(q) + 1
<1>1. /\ Len(q) \in Nat /\ Len(p) = n /\ DOMAIN q = 1..Len(q) /\ DOMAIN p = 1..n
      /\ \A i \in DOMAIN q : p[i] = q[i]
      /\ p[n] = m
  BY AppendIs
<1>2. n \in Nat /\ n \notin DOMAIN q /\ n \in DOMAIN p /\ \A i \in DOMAIN p : i \in DOMAIN q \/ i = n
  BY <1>1
<1>3. ASSUME NEW i \in Nat, NEW v \in Nat, Mark(c, p, r, t, i, v)
      PROVE  \/ i \in DOMAIN q /\ Mark(c, q, s, t, i, v)
             \/ i = n + 1 /\ v = r[t].sent
  <2>1. CASE i \in DOMAIN p /\ p[i].kind = "snapshot" /\ p[i].version = v /\ Reached(p, t, i)
    <3>1. i \in DOMAIN q
      BY <1>1, <1>2, <2>1 DEF Telling
    <3>2. q[i].kind = "snapshot" /\ q[i].version = v
      BY <1>1, <2>1, <3>1
    <3>3. Reached(q, t, i)
      BY <1>1, <1>2, <2>1 DEF Reached
    <3>4. Wants(c, t)
      BY <1>3 DEF Mark
    <3> QED BY <3>1, <3>2, <3>3, <3>4 DEF Mark
  <2>2. CASE i = Len(p) + 1 /\ r[t].sent = v
    BY <1>1, <2>2
  <2> QED BY <1>3, <2>1, <2>2 DEF Mark
<1> HIDE DEF n
<1>4. ASSUME NEW i, NEW j, Quiet(p, t, i, j) PROVE Quiet(q, t, i, j)
  BY <1>1, <1>2, <1>4 DEF Quiet
<1>5. ASSUME NEW i \in Nat, Quiet(p, t, i, n + 1) PROVE i > n
  <2>1. ~(i <= n)
    <3>1. n < n + 1
      BY <1>2
    <3> QED BY <1>1, <1>2, <1>5, <3>1 DEF Quiet
  <2> QED BY <1>2, <2>1
<1>6. FirstMarks(h, c, p, r, t, ks)
  <2>1. ASSUME NEW i \in Nat, NEW v \in Nat, Mark(c, p, r, t, i, v), Quiet(p, t, 1, i)
        PROVE  Claim(h, v) \in ks
    <3>1. CASE i \in DOMAIN q /\ Mark(c, q, s, t, i, v)
      BY <1>4, <2>1, <3>1 DEF Line, FirstMarks
    <3>2. CASE i = n + 1
      BY <1>1, <1>2, <1>5, <2>1, <3>2 DEF n
    <3> QED BY <1>3, <2>1, <3>1, <3>2
  <2> QED BY <2>1 DEF FirstMarks
<1>7. LastTold(h, c, p, r, t)
  <2>1. ASSUME NEW i \in Nat, NEW v \in Nat, NEW j \in DOMAIN p, Mark(c, p, r, t, i, v), j < i,
               Telling(p[j], t), Quiet(p, t, j + 1, i)
        PROVE  MessageClaim(p[j]) = Claim(h, v)
    <3>1. CASE i \in DOMAIN q /\ Mark(c, q, s, t, i, v)
      <4>1. j \in DOMAIN q /\ p[j] = q[j]
        BY <1>1, <1>2, <2>1, <3>1
      <4>2. Quiet(q, t, j + 1, i)
        BY <1>4, <2>1
      <4> QED BY <2>1, <3>1, <4>1, <4>2 DEF Line, LastTold
    <3>2. CASE i = n + 1 /\ v = r[t].sent
      <4>1. j \in Nat /\ j + 1 \in Nat /\ j <= n
        BY <1>1, <1>2
      <4>2. j + 1 > n
        BY <1>5, <2>1, <3>2, <4>1
      <4>3. j = n
        BY <1>2, <4>1, <4>2
      <4> QED BY <1>1, <3>2, <4>3
    <3> QED BY <1>3, <2>1, <3>1, <3>2
  <2> QED BY <2>1 DEF LastTold
<1>8. NothingNew(h, c, p, r, t)
  <2>1. ASSUME NEW i \in Nat, NEW j \in Nat, NEW v \in Nat, NEW w \in Nat,
               Mark(c, p, r, t, i, v), Mark(c, p, r, t, j, w), i < j, Quiet(p, t, i, j)
        PROVE  Claim(h, v) = Claim(h, w)
    <3>1. CASE j \in DOMAIN q /\ Mark(c, q, s, t, j, w)
      <4>1. i \in DOMAIN q /\ Mark(c, q, s, t, i, v)
        BY <1>1, <1>3, <2>1, <3>1 DEF n
      <4>2. Quiet(q, t, i, j)
        BY <1>4, <2>1
      <4> QED BY <2>1, <3>1, <4>1, <4>2 DEF Line, NothingNew
    <3>2. CASE j = n + 1
      <4>1. i > n
        BY <1>5, <2>1, <3>2
      <4>2. i = n + 1
        BY <1>1, <1>2, <1>3, <2>1, <4>1 DEF n
      <4> QED BY <2>1, <3>2, <4>2, <1>2
    <3> QED BY <1>3, <2>1, <3>1, <3>2
  <2> QED BY <2>1 DEF NothingNew
<1> QED BY <1>6, <1>7, <1>8 DEF Line

\* The first message is taken: what it tells t is right, and what it does not
\* change stays so.
LEMMA LineTail ==
    ASSUME NEW h, NEW c, NEW q \in Seq(Messages), q # <<>>, NEW s, NEW t, NEW ks,
           Line(h, c, q, s, t, ks), NEW p, p = Tail(q), NEW m, m = Head(q),
           NEW d, Wants(d, t) => Wants(c, t) /\ ~(m.kind = "rejected" /\ m.target = t),
           NEW ls, Telling(m, t) => MessageClaim(m) \in ls,
           ~Telling(m, t) =>
               \A k \in ks : (Mark(c, q, s, t, 1, m.version) => k = Claim(h, m.version))
                                 => k \in ls,
           m.kind = "snapshot" => m.version \in Nat
    PROVE  Line(h, d, p, s, t, ls)
<1>1. /\ p \in Seq(Messages) /\ m \in Messages /\ m = q[1] /\ Len(p) \in Nat
      /\ Len(q) = Len(p) + 1 /\ DOMAIN p = 1..Len(p) /\ DOMAIN q = 1..(Len(p) + 1)
      /\ \A i \in DOMAIN p : p[i] = q[i + 1]
  BY TailIs
<1>2. \A i \in DOMAIN p : i \in Nat /\ i # 0 /\ i + 1 \in DOMAIN q /\ p[i] = q[i + 1]
  BY <1>1
<1>3. \A i \in DOMAIN q : i \in Nat /\ (i = 1 \/ (i - 1 \in DOMAIN p /\ q[i] = p[i - 1]))
  BY <1>1
<1>4. 1 \in DOMAIN q
  BY <1>1
<1>5. ASSUME NEW i \in Nat, NEW v \in Nat, Mark(d, p, s, t, i, v)
      PROVE  i # 0 /\ Mark(c, q, s, t, i + 1, v)
  <2>1. Wants(c, t) /\ ~(m.kind = "rejected" /\ m.target = t)
    BY <1>5 DEF Mark
  <2>2. CASE i \in DOMAIN p /\ p[i].kind = "snapshot" /\ p[i].version = v /\ Reached(p, t, i)
    <3>1. ASSUME NEW j \in DOMAIN q
          PROVE  /\ q[j].kind = "added" /\ q[j].target = t => j < i + 1
                 /\ q[j].kind = "rejected" /\ q[j].target = t => i + 1 <= j
      <4>1. CASE j = 1
        BY <1>1, <1>2, <2>1, <2>2, <4>1
      <4>2. CASE j - 1 \in DOMAIN p /\ q[j] = p[j - 1]
        <5>1. /\ q[j].kind = "added" /\ q[j].target = t => j - 1 < i
              /\ q[j].kind = "rejected" /\ q[j].target = t => i <= j - 1
          BY <2>2, <4>2 DEF Reached
        <5> QED BY <1>2, <1>3, <2>2, <5>1
      <4> QED BY <1>3, <4>1, <4>2
    <3>2. Reached(q, t, i + 1)
      BY <3>1 DEF Reached
    <3> QED BY <1>2, <2>1, <2>2, <3>2 DEF Mark
  <2>3. CASE i = Len(p) + 1 /\ s[t].phase # "none" /\ s[t].sent = v
    BY <1>1, <2>1, <2>3 DEF Mark
  <2> QED BY <1>5, <2>2, <2>3 DEF Mark
<1>6. ASSUME NEW i \in Nat, NEW j \in Nat, Quiet(p, t, i, j), i # 0 PROVE Quiet(q, t, i + 1, j + 1)
  <2>1. ASSUME NEW k \in DOMAIN q, i + 1 <= k, k < j + 1 PROVE ~Telling(q[k], t)
    <3>1. k # 1
      BY <1>6, <2>1
    <3>2. k - 1 \in DOMAIN p /\ q[k] = p[k - 1]
      BY <1>3, <3>1
    <3>3. i <= k - 1 /\ k - 1 < j
      BY <1>3, <2>1
    <3> QED BY <1>6, <3>2, <3>3 DEF Quiet
  <2> QED BY <2>1 DEF Quiet
<1>7. ASSUME NEW i \in Nat, Quiet(q, t, 2, i), ~Telling(m, t) PROVE Quiet(q, t, 1, i)
  <2>1. \A k \in DOMAIN q : k = 1 \/ 2 <= k
    BY <1>3
  <2> QED BY <1>1, <1>7, <2>1 DEF Quiet
<1>8. FirstMarks(h, d, p, s, t, ls)
  <2>1. ASSUME NEW i \in Nat, NEW v \in Nat, Mark(d, p, s, t, i, v), Quiet(p, t, 1, i)
        PROVE  Claim(h, v) \in ls
    <3>1. i # 0 /\ i + 1 \in Nat /\ 1 < i + 1 /\ Mark(c, q, s, t, i + 1, v)
      BY <1>5, <2>1
    <3>2. Quiet(q, t, 2, i + 1)
      <4>1. Quiet(q, t, 1 + 1, i + 1)
        BY <1>6, <2>1
      <4> QED BY <4>1
    <3>3. CASE Telling(m, t)
      <4>1. Quiet(q, t, 1 + 1, i + 1)
        BY <3>2
      <4>2. MessageClaim(q[1]) = Claim(h, v)
        BY <1>1, <1>4, <3>1, <3>3, <4>1 DEF Line, LastTold
      <4> QED BY <1>1, <3>3, <4>2
    <3>4. CASE ~Telling(m, t)
      <4>1. Quiet(q, t, 1, i + 1)
        BY <1>7, <3>1, <3>2, <3>4
      <4>2. Claim(h, v) \in ks
        BY <3>1, <4>1 DEF Line, FirstMarks
      <4>3. Mark(c, q, s, t, 1, m.version) => Claim(h, v) = Claim(h, m.version)
        <5>1. SUFFICES ASSUME Mark(c, q, s, t, 1, m.version)
                       PROVE  Claim(h, v) = Claim(h, m.version)
          OBVIOUS
        <5>2. m.version \in Nat
          BY <1>1, <1>4, <5>1 DEF Mark
        <5> QED BY <3>1, <4>1, <5>1, <5>2 DEF Line, NothingNew
      <4> QED BY <3>4, <4>2, <4>3
    <3> QED BY <3>3, <3>4
  <2> QED BY <2>1 DEF FirstMarks
<1>9. LastTold(h, d, p, s, t)
  <2>1. ASSUME NEW i \in Nat, NEW v \in Nat, NEW j \in DOMAIN p, Mark(d, p, s, t, i, v), j < i,
               Telling(p[j], t), Quiet(p, t, j + 1, i)
        PROVE  MessageClaim(p[j]) = Claim(h, v)
    <3>1. j \in Nat /\ j # 0 /\ j + 1 \in DOMAIN q /\ p[j] = q[j + 1] /\ j + 1 \in Nat /\ j + 1 # 0
      BY <1>2
    <3>2. i + 1 \in Nat /\ j + 1 < i + 1 /\ Mark(c, q, s, t, i + 1, v)
      BY <1>5, <2>1, <3>1
    <3>3. Quiet(q, t, (j + 1) + 1, i + 1)
      BY <1>6, <2>1, <3>1
    <3>4. Telling(q[j + 1], t)
      BY <2>1, <3>1
    <3>5. MessageClaim(q[j + 1]) = Claim(h, v)
      BY <3>1, <3>2, <3>3, <3>4 DEF Line, LastTold
    <3> QED BY <3>1, <3>5
  <2> QED BY <2>1 DEF LastTold
<1>10. NothingNew(h, d, p, s, t)
  <2>1. ASSUME NEW i \in Nat, NEW j \in Nat, NEW v \in Nat, NEW w \in Nat,
               Mark(d, p, s, t, i, v), Mark(d, p, s, t, j, w), i < j, Quiet(p, t, i, j)
        PROVE  Claim(h, v) = Claim(h, w)
    <3>1. /\ i # 0 /\ i + 1 \in Nat /\ j + 1 \in Nat /\ i + 1 < j + 1
          /\ Mark(c, q, s, t, i + 1, v) /\ Mark(c, q, s, t, j + 1, w)
      BY <1>5, <2>1
    <3>2. Quiet(q, t, i + 1, j + 1)
      BY <1>6, <2>1, <3>1
    <3> QED BY <3>1, <3>2 DEF Line, NothingNew
  <2> QED BY <2>1 DEF NothingNew
<1> QED BY <1>8, <1>9, <1>10 DEF Line

\* A target that is served anew, from a queue that says nothing of it.
LEMMA LineServed ==
    ASSUME NEW h, NEW c, NEW q \in Seq(Messages), NEW r, NEW t, NEW ks, Silent(q, t),
           NEW m \in Messages, m.kind = "added", m.target = t, NEW p, p = Append(q, m),
           Claim(h, r[t].sent) \in ks
    PROVE  Line(h, c, p, r, t, ks)
<1> DEFINE n == Len(q) + 1
<1>1. /\ Len(q) \in Nat /\ Len(p) = n /\ DOMAIN q = 1..Len(q) /\ DOMAIN p = 1..n
      /\ \A i \in DOMAIN q : p[i] = q[i]
      /\ p[n] = m
  BY AppendIs
<1>2. n \in Nat /\ n \notin DOMAIN q /\ n \in DOMAIN p /\ \A i \in DOMAIN p : i \in DOMAIN q \/ i = n
  BY <1>1
<1>3. \A i \in DOMAIN p : ~Telling(p[i], t)
  BY <1>1, <1>2 DEF Telling, Silent, About
<1>4. ASSUME NEW i \in Nat, NEW v \in Nat, Mark(c, p, r, t, i, v)
      PROVE  i = n + 1 /\ v = r[t].sent
  <2>1. CASE i \in DOMAIN p /\ Reached(p, t, i)
    <3>1. n < i
      BY <1>1, <1>2, <2>1 DEF Reached
    <3> QED BY <1>1, <2>1, <3>1
  <2>2. CASE i = Len(p) + 1 /\ r[t].sent = v
    BY <1>1, <2>2
  <2> QED BY <1>4, <2>1, <2>2 DEF Mark
<1> HIDE DEF n
<1>5. FirstMarks(h, c, p, r, t, ks)
  BY <1>4 DEF FirstMarks
<1>6. LastTold(h, c, p, r, t)
  BY <1>3 DEF LastTold
<1>7. NothingNew(h, c, p, r, t)
  <2>1. ASSUME NEW i \in Nat, NEW j \in Nat, NEW v \in Nat, NEW w \in Nat,
               Mark(c, p, r, t, i, v), Mark(c, p, r, t, j, w)
        PROVE  Claim(h, v) = Claim(h, w)
    BY <1>4, <2>1
  <2> QED BY <2>1 DEF NothingNew
<1> QED BY <1>5, <1>6, <1>7 DEF Line

-----------------------------------------------------------------------------
(* What the targets hold, and what is kept *)

\* What the document may be claimed to be at the next mark of a target with a
\* pending change, that held what was claimed before.
Fits(change, held) ==
    {k \in Nat : /\ change = "none" => k = held
                 /\ change = "Removed" => k = 0
                 /\ change \in {"Added", "Modified"} => k # 0}

\* A target holds the document as it was at its token, with its watch request sent
\* from there; it is served, or will be, or is rejected.
TargetHolds(h, c, q, s, t) ==
    /\ TargetContainsDocument(c, t) <=> Had(h, c.tokens[t])
    /\ c.tokens[t] \in 0..Len(h)
    /\ \A r \in c.requests : r.kind = "watch" /\ r.target = t => r.token = c.tokens[t]
    /\ Wants(c, t) /\ s[t].phase = "none" => Tells(q, "rejected", t)
    /\ c.states[t].pending # 0 => c.states[t].change = "none"
    /\ c.states[t].change \in {"Added", "Modified"} => c.updates # {}

TargetTold(h, c, q, s, t) ==
    /\ Line(h, c, q, s, t, Fits(c.states[t].change, Claim(h, c.tokens[t])))
    /\ TargetHolds(h, c, q, s, t)

Told(h, c, q, s) == \A t \in c.listens : TargetTold(h, c, q, s, t)

\* The document is as it was on the server at its version.
TrueIn(h, m) == m.version \in 0..Len(h) /\ (m.exists <=> Had(h, m.version))

\* What is on its way is true, and known to the history.
Heard(h, q) ==
    \A i \in DOMAIN q : /\ q[i].kind = "document" => TrueIn(h, q[i].document)
                        /\ q[i].kind = "snapshot" => q[i].version \in DOMAIN h
SentKnown(h, s) == \A t \in Targets : s[t].phase # "none" => s[t].sent \in 0..Len(h)

\* So is what is on disk, and what is held back.
Truth(h, c) ==
    /\ TrueIn(h, c.disk.document)
    /\ \A m \in c.updates : TrueIn(h, m)
    /\ \A m1, m2 \in c.updates : m1 = m2

\* The disk and the view go with the target's token.
KeptOnDisk(h, c) ==
    /\ c.disk.keys <=> Had(h, c.disk.token)
    /\ c.disk.token <= c.disk.version /\ c.disk.version <= Len(h)
KeptInView(c) ==
    /\ c.view.synced <=> c.disk.keys
    /\ c.tokens[Main] = c.token
    /\ c.disk.token <= c.token /\ c.token <= c.disk.version
    /\ c.view.document = DocumentClaim(c.disk.document)
    /\ c.view.current => c.token # 0
    /\ c.view.current => (c.view.limbo <=> c.view.document # 0 /\ ~c.view.synced)
    /\ c.view.sync = IF c.view.current /\ ~c.view.limbo THEN "Synced" ELSE "Local"
Kept(h, c) ==
    /\ KeptOnDisk(h, c)
    /\ c.view.on => KeptInView(c)
    /\ ~c.view.on => c.view.sync = "None"

\* What is held back is what an active target is going to hold.
Backed(h, c, q, s, m) ==
    \E t \in c.listens : /\ c.states[t].pending = 0
                         /\ Line(h, c, q, s, t, {DocumentClaim(m)})
Backs(h, c, q, s) == \A m \in c.updates : Backed(h, c, q, s, m)

\* A reset or a rejection finds nothing on its way to the listeners.
Undisturbed(c, q) ==
    \A i \in DOMAIN q : q[i].kind \in {"reset", "rejected"} =>
        /\ c.updates = {}
        /\ q[i].kind = "rejected" => q[i].target = Main
        /\ \A j \in DOMAIN q : j < i => q[j].kind \notin {"document", "filter"}

\* The version from which the listen goes on.
Latest(c) == IF c.view.on THEN c.token ELSE c.disk.token

\* The document as it was at the version v.
IsAt(h, m, v) == IF m.exists THEN m.version = v ELSE ~h[v]
Resumable(h, c) ==
    c.disk.keys => \E v \in DOMAIN h : v >= Latest(c) /\ IsAt(h, c.disk.document, v)

\* The document is not older than what was shown.
Upward(h, c) ==
    /\ c.newest <= c.disk.version
    /\ c.disk.document.exists => /\ c.disk.document.version <= c.disk.version
                                 /\ c.newest <= c.disk.document.version
    /\ ~c.disk.document.exists /\ c.newest # 0 =>
          \E w \in DOMAIN h : w >= c.newest /\ ~h[w]

\* What a listener was called with last is the view, and whoever may be called was.
Shown(c) ==
    \A l \in Listeners :
        /\ c.shown[l].kind \in {"missing", "version"} => c.view.on /\ c.shown[l] = EventOf(c)
        /\ c.shown[l].kind = "nothing" =>
              c.view.on /\ ~ShouldRaiseInitialEvent(c, c.online)
        /\ c.shown[l].kind = "version" => c.shown[l].is <= c.newest

\* The parts for the client itself, and those that hold until something is taken back.
Faithful(h, c) == Truth(h, c) /\ Kept(h, c) /\ Shown(c)
Unbroken(h, c, q, s) ==
    Backs(h, c, q, s) /\ Undisturbed(c, q) /\ Resumable(h, c) /\ Upward(h, c)

DInv ==
    /\ IInv
    /\ Told(history, client, queue, server.sessions)
    /\ Heard(history, queue) /\ SentKnown(history, server.sessions)
    /\ Faithful(history, client)
    /\ client.open \/ client.updates = {}
    /\ ~retracted => Unbroken(history, client, queue, server.sessions)

\* The history grew: what was so stays so.
Grown(h, g) == Len(h) <= Len(g) /\ \A v \in 0..Len(h) : Had(g, v) <=> Had(h, v)

\* A history is one of itself.
LEMMA GrownSame == ASSUME NEW h, Len(h) \in Nat PROVE Grown(h, h)
BY DEF Grown

\* The lines of the client's targets go on; one that is not active may start anew.
Continues(h, c, q, s, g, d, p, r) ==
    \A t \in c.listens :
        \/ \A ks : Line(h, c, q, s, t, ks) => Line(g, d, p, r, t, ks)
        \/ /\ c.states[t].pending # 0
           /\ Line(g, d, p, r, t, {Claim(g, c.tokens[t])})

\* The client, up to its requests.
SameTargets(c, d) ==
    /\ d.listens = c.listens /\ d.states = c.states /\ d.tokens = c.tokens
    /\ d.updates = c.updates /\ d.requests \subseteq c.requests
    /\ d.open = c.open /\ d.limbo = c.limbo /\ d.received = c.received
    /\ d.view.on = c.view.on /\ d.view.synced = c.view.synced

\* What was claimed of a version is claimed of it still.
LEMMA FitsSame ==
    ASSUME NEW h, NEW g, Grown(h, g), Len(h) \in Nat, NEW v \in 0..Len(h)
    PROVE  Claim(g, v) = Claim(h, v)
BY DEF Grown, Claim

\* A target without a change is as it was.
LEMMA FitsNone ==
    ASSUME NEW k \in Nat PROVE Fits("none", k) = {k}
BY DEF Fits

\* A claim is a number, zero when the document was not there.
LEMMA ClaimNat ==
    ASSUME NEW h, NEW v \in Nat
    PROVE  Claim(h, v) \in Nat /\ (Claim(h, v) # 0 <=> Had(h, v))
           /\ Claim(h, v) \in {0, v}
BY DEF Claim, Had

\* What the targets were told stays told when their lines go on.
LEMMA ToldKept ==
    ASSUME NEW h, NEW g, NEW c, NEW d, NEW q, NEW p, NEW s, NEW r, Told(h, c, q, s),
           Len(h) \in Nat, Len(g) \in Nat, Grown(h, g), SameTargets(c, d),
           Continues(h, c, q, s, g, d, p, r),
           \A t \in c.listens : Wants(d, t) /\ r[t].phase = "none" => Tells(p, "rejected", t)
    PROVE  Told(g, d, p, r)
<1>1. SUFFICES ASSUME NEW t \in c.listens PROVE TargetTold(g, d, p, r, t)
  BY DEF Told, SameTargets
<1>2. Line(h, c, q, s, t, Fits(c.states[t].change, Claim(h, c.tokens[t])))
      /\ TargetHolds(h, c, q, s, t)
  BY DEF Told, TargetTold
<1>3. c.tokens[t] \in 0..Len(h) /\ c.tokens[t] \in Nat
  BY <1>2 DEF TargetHolds
<1>4. Claim(g, c.tokens[t]) = Claim(h, c.tokens[t])
  BY <1>3, FitsSame
<1>5. Line(g, d, p, r, t, Fits(d.states[t].change, Claim(g, d.tokens[t])))
  <2>1. CASE \A ks : Line(h, c, q, s, t, ks) => Line(g, d, p, r, t, ks)
    BY <1>2, <1>4, <2>1 DEF SameTargets
  <2>2. CASE c.states[t].pending # 0 /\ Line(g, d, p, r, t, {Claim(g, c.tokens[t])})
    <3>1. c.states[t].change = "none"
      BY <1>2, <2>2 DEF TargetHolds
    <3>2. Fits("none", Claim(g, c.tokens[t])) = {Claim(g, c.tokens[t])}
      BY <1>3, ClaimNat, FitsNone
    <3> QED BY <2>2, <3>1, <3>2 DEF SameTargets
  <2> QED BY <2>1, <2>2 DEF Continues
<1>6. TargetHolds(g, d, p, r, t)
  <2>1. TargetContainsDocument(d, t) <=> TargetContainsDocument(c, t)
    BY DEF TargetContainsDocument, SameTargets
  <2>2. Had(g, c.tokens[t]) <=> Had(h, c.tokens[t])
    BY <1>3 DEF Grown
  <2>3. c.tokens[t] \in 0..Len(g)
    BY <1>3 DEF Grown
  <2> QED BY <1>2, <2>1, <2>2, <2>3 DEF TargetHolds, SameTargets
<1> QED BY <1>5, <1>6 DEF TargetTold

\* So does what backs the documents held back.
LEMMA BacksKept ==
    ASSUME NEW h, NEW g, NEW c, NEW d, NEW q, NEW p, NEW s, NEW r, Backs(h, c, q, s),
           SameTargets(c, d), Continues(h, c, q, s, g, d, p, r)
    PROVE  Backs(g, d, p, r)
<1>1. SUFFICES ASSUME NEW m \in c.updates PROVE Backed(g, d, p, r, m)
  BY DEF Backs, SameTargets
<1>2. PICK t \in c.listens : c.states[t].pending = 0 /\ Line(h, c, q, s, t, {DocumentClaim(m)})
  BY DEF Backs, Backed
<1>3. Line(g, d, p, r, t, {DocumentClaim(m)})
  BY <1>2 DEF Continues
<1> QED BY <1>2, <1>3 DEF Backed, SameTargets

\* What is true stays true when the history grows.
LEMMA GrownTrue ==
    ASSUME NEW h, NEW g, Len(h) \in Nat, Len(g) \in Nat, Grown(h, g), NEW m, TrueIn(h, m)
    PROVE  TrueIn(g, m)
BY DEF TrueIn, Grown

\* A client faithful to a history is faithful to the longer one.
LEMMA GrownFaithful ==
    ASSUME NEW h, NEW g, Len(h) \in Nat, Len(g) \in Nat, Grown(h, g),
           NEW c \in WideClients, Faithful(h, c)
    PROVE  Faithful(g, c)
<1>1. Truth(g, c)
  BY GrownTrue DEF Faithful, Truth
<1>2. c.disk.token \in 0..Len(h)
  BY ClientFields, DiskFields DEF Faithful, Kept, KeptOnDisk
<1>3. c.disk.version \in Nat /\ Len(h) <= Len(g)
  BY ClientFields, DiskFields DEF Grown
<1>4. Kept(g, c)
  BY <1>2, <1>3 DEF Faithful, Kept, KeptOnDisk, Grown
<1> QED BY <1>1, <1>4 DEF Faithful

\* What the server sent stays known.
LEMMA GrownKnown ==
    ASSUME NEW h, NEW g, Len(h) \in Nat, Len(g) \in Nat, Grown(h, g), NEW s, SentKnown(h, s)
    PROVE  SentKnown(g, s)
BY DEF SentKnown, Grown

-----------------------------------------------------------------------------
(* The steps of the server *)

\* What goes with the disk, the view and the listeners only.
LEMMA FaithfulSame ==
    ASSUME NEW h, NEW c, NEW d, Faithful(h, c), SameApp(c, d), d.updates = c.updates,
           d.tokens = c.tokens
    PROVE  Faithful(h, d)
<1>1. Truth(h, d)
  BY DEF Faithful, Truth, SameApp, SameStore
<1>2. Kept(h, d)
  BY DEF Faithful, Kept, KeptOnDisk, KeptInView, SameApp, SameStore
<1>3. Shown(d)
  BY DEF Faithful, Shown, SameApp, SameShown, EventOf, ShouldRaiseInitialEvent
<1> QED BY <1>1, <1>2, <1>3 DEF Faithful

\* What can be resumed from, and that nothing goes backwards, survive a write.
LEMMA ResumableGrown ==
    ASSUME NEW h \in Seq(BOOLEAN), NEW g \in Seq(BOOLEAN), Grown(h, g),
           NEW c, NEW d, SameApp(c, d)
    PROVE  /\ Resumable(h, c) => Resumable(g, d)
           /\ Upward(h, c) => Upward(g, d)
<1>1. \A v \in DOMAIN h : v \in DOMAIN g /\ (g[v] <=> h[v])
  <2>1. Len(h) \in Nat /\ Len(g) \in Nat /\ DOMAIN h = 1..Len(h) /\ DOMAIN g = 1..Len(g)
    BY LenProperties
  <2>2. ASSUME NEW v \in DOMAIN h PROVE v \in DOMAIN g /\ (g[v] <=> h[v])
    <3>1. v \in 0..Len(h) /\ v # 0 /\ v \in DOMAIN g
      BY <2>1 DEF Grown
    <3> QED BY <3>1 DEF Grown, Had
  <2> QED BY <2>2
<1>2. \A m, v : v \in DOMAIN h /\ IsAt(h, m, v) => IsAt(g, m, v)
  BY <1>1 DEF IsAt
<1>3. Resumable(h, c) => Resumable(g, d)
  BY <1>1, <1>2 DEF Resumable, Latest, SameApp, SameStore
<1>4. Upward(h, c) => Upward(g, d)
  BY <1>1 DEF Upward, SameApp, SameStore, SameShown
<1> QED BY <1>3, <1>4

\* A step of the server, that leaves the client but for a request.
LEMMA ServerStep ==
    ASSUME DInv, IInv', Grown(history, history'), SameTargets(client, client'),
           SameApp(client, client'),
           Continues(history, client, queue, server.sessions,
                     history', client', queue', server'.sessions),
           \A t \in client.listens :
               Wants(client', t) /\ server'.sessions[t].phase = "none" => Tells(queue', "rejected", t),
           Heard(history', queue'), SentKnown(history', server'.sessions),
           ~retracted' => ~retracted /\ Undisturbed(client', queue')
    PROVE  DInv'
<1> DEFINE s == server.sessions
           r == server'.sessions
           h == history
           g == history'
           c == client
           d == client'
           q == queue
           p == queue'
<1>1. /\ h \in Seq(BOOLEAN) /\ g \in Seq(BOOLEAN) /\ Len(h) \in Nat /\ Len(g) \in Nat
      /\ c \in WideClients
  BY LenProperties DEF IInv, Network, DInv, Sound
<1>2. /\ Told(h, c, q, s) /\ Faithful(h, c)
      /\ ~retracted => Unbroken(h, c, q, s)
  BY DEF DInv
<1>3. /\ Grown(h, g) /\ SameTargets(c, d) /\ SameApp(c, d)
      /\ Continues(h, c, q, s, g, d, p, r)
      /\ \A t \in c.listens : Wants(d, t) /\ r[t].phase = "none" => Tells(p, "rejected", t)
      /\ Heard(g, p) /\ SentKnown(g, r)
      /\ ~retracted' => ~retracted /\ Undisturbed(d, p)
  OBVIOUS
<1> HIDE DEF s, r, h, g, c, d, q, p
<1>4. Told(g, d, p, r)
  BY <1>1, <1>2, <1>3, ToldKept
<1>5. Faithful(g, c)
  BY <1>1, <1>2, <1>3, GrownFaithful
<1>6. Faithful(g, d)
  BY <1>3, <1>5, FaithfulSame DEF SameTargets
<1>7. ~retracted' => Unbroken(g, d, p, r)
  <2>1. SUFFICES ASSUME ~retracted' PROVE Unbroken(g, d, p, r)
    OBVIOUS
  <2>2. Unbroken(h, c, q, s)
    BY <1>2, <1>3, <2>1
  <2>3. Backs(g, d, p, r)
    BY <1>3, <2>2, BacksKept DEF Unbroken
  <2>4. Resumable(g, d) /\ Upward(g, d)
    BY <1>1, <1>3, <2>2, ResumableGrown DEF Unbroken
  <2> QED BY <1>3, <2>1, <2>3, <2>4 DEF Unbroken
<1>8. Heard(history', queue') /\ SentKnown(history', server'.sessions)
  OBVIOUS
<1>9. client'.open \/ client'.updates = {}
  BY DEF DInv, SameTargets
<1> QED BY <1>4, <1>6, <1>7, <1>8, <1>9 DEF DInv, s, r, h, g, c, d, q, p

\* Of a client that did not change, nothing changed.
LEMMA SameClient == ASSUME NEW c PROVE SameTargets(c, c) /\ SameApp(c, c)
BY DEF SameTargets, SameApp, SameShown, SameStore

\* What is appended is heard.
LEMMA HeardAppend ==
    ASSUME NEW h, NEW q \in Seq(Messages), Heard(h, q), NEW m \in Messages, NEW p, p = Append(q, m),
           m.kind = "document" => TrueIn(h, m.document),
           m.kind = "snapshot" => m.version \in DOMAIN h
    PROVE  Heard(h, p)
<1>1. /\ Len(q) \in Nat /\ DOMAIN q = 1..Len(q) /\ DOMAIN p = 1..(Len(q) + 1)
      /\ \A i \in DOMAIN q : p[i] = q[i]
      /\ p[Len(q) + 1] = m
  BY AppendIs
<1>2. \A i \in DOMAIN p : i \in DOMAIN q \/ i = Len(q) + 1
  BY <1>1
<1> QED BY <1>1, <1>2 DEF Heard

\* A message that is neither a reset nor a rejection disturbs nothing.
LEMMA UndisturbedAppend ==
    ASSUME NEW c, NEW q \in Seq(Messages), Undisturbed(c, q), NEW m \in Messages,
           NEW p, p = Append(q, m),
           m.kind \in {"reset", "rejected"} =>
               /\ c.updates = {}
               /\ m.kind = "rejected" => m.target = Main
               /\ \A j \in DOMAIN q : q[j].kind \notin {"document", "filter"}
    PROVE  Undisturbed(c, p)
<1>1. /\ Len(q) \in Nat /\ DOMAIN q = 1..Len(q) /\ DOMAIN p = 1..(Len(q) + 1)
      /\ \A i \in DOMAIN q : p[i] = q[i]
      /\ p[Len(q) + 1] = m
  BY AppendIs
<1>2. \A i \in DOMAIN p : i \in DOMAIN q \/ i = Len(q) + 1
  BY <1>1
<1>3. \A i, j \in DOMAIN p : j < i => j \in DOMAIN q
  BY <1>1
<1>4. ASSUME NEW i \in DOMAIN p, p[i].kind \in {"reset", "rejected"}
      PROVE  /\ c.updates = {}
             /\ p[i].kind = "rejected" => p[i].target = Main
             /\ \A j \in DOMAIN p : j < i => p[j].kind \notin {"document", "filter"}
  <2>1. CASE i \in DOMAIN q
    BY <1>1, <1>3, <1>4, <2>1 DEF Undisturbed
  <2>2. CASE i = Len(q) + 1
    BY <1>1, <1>3, <1>4, <2>2
  <2> QED BY <1>2, <2>1, <2>2
<1> QED BY <1>4 DEF Undisturbed

\* Someone writes.
LEMMA WriteHolds ==
    ASSUME DInv, NEW b \in BOOLEAN, Write(b)
    PROVE  DInv'
<1> DEFINE h == history
           g == history'
           s == server.sessions
<1>1. /\ g = Append(h, b)
      /\ server' = server /\ queue' = queue /\ client' = client /\ retracted' = retracted
  BY DEF Write
<1>2. IInv /\ IInv'
  BY WriteKeeps DEF DInv
<1>3. /\ h \in Seq(BOOLEAN) /\ Len(h) \in Nat /\ Len(g) = Len(h) + 1
      /\ DOMAIN h = 1..Len(h) /\ \A v \in 1..Len(h) : g[v] = h[v]
  BY <1>1, <1>2, LenProperties, AppendProperties DEF IInv, Network
<1>4. Grown(h, g)
  BY <1>3 DEF Grown, Had
<1>5. Heard(h, queue) /\ SentKnown(h, s) /\ Told(h, client, queue, s)
  BY DEF DInv
<1>6. Heard(g, queue)
  <2>1. DOMAIN g = 1..Len(g)
    BY <1>1, <1>3, AppendProperties, LenProperties
  <2>2. \A v \in DOMAIN h : v \in DOMAIN g
    BY <1>3, <2>1
  <2>3. \A m : TrueIn(h, m) => TrueIn(g, m)
    BY <1>3, <1>4, GrownTrue
  <2> QED BY <1>5, <2>2, <2>3 DEF Heard
<1>7. SentKnown(g, s)
  BY <1>3, <1>4, <1>5, GrownKnown
<1> HIDE DEF g
<1>8. ASSUME NEW t \in client.listens, NEW ks, Line(h, client, queue, s, t, ks)
      PROVE  Line(g, client, queue, s, t, ks)
  <2>1. t \in Targets
    BY <1>2, ClientFields DEF IInv, Sound
  <2>2. ASSUME NEW i \in Nat, NEW v \in Nat, Mark(client, queue, s, t, i, v)
        PROVE  Claim(g, v) = Claim(h, v)
    <3>1. v \in 0..Len(h)
      BY <1>3, <1>5, <2>1, <2>2 DEF Mark, Heard, SentKnown
    <3> QED BY <1>3, <1>4, <3>1, FitsSame
  <2> QED BY <1>8, <2>2, LineGrows
<1>9. Continues(h, client, queue, s, g, client, queue, s)
  BY <1>8 DEF Continues
<1>10. ~retracted' => ~retracted /\ Undisturbed(client', queue')
  BY <1>1 DEF DInv, Unbroken
<1>11. \A t \in client.listens : Wants(client, t) /\ s[t].phase = "none" => Tells(queue, "rejected", t)
  BY <1>5 DEF Told, TargetTold, TargetHolds
<1> QED BY <1>1, <1>2, <1>4, <1>6, <1>7, <1>9, <1>10, <1>11, SameClient, ServerStep DEF g

\* The server's end catches up.
LEMMA AdvanceHolds ==
    ASSUME DInv, Advance
    PROVE  DInv'
<1>1. /\ history' = history /\ queue' = queue /\ client' = client /\ retracted' = retracted
      /\ server' = [server EXCEPT !.at = @ + 1]
  BY DEF Advance
<1>2. IInv /\ IInv'
  BY AdvanceKeeps DEF DInv
<1>3. server'.sessions = server.sessions
  BY <1>1, <1>2, ServerFields DEF IInv, Network, Servers
<1> QED BY <1>1, <1>2, <1>3 DEF DInv

\* A message of the target t at the end of the queue; t's own line goes on.
LEMMA SentContinues ==
    ASSUME NEW h, NEW c \in WideClients, NEW q \in Seq(Messages), NEW s \in [Targets -> Sessions],
           NEW t \in Targets, NEW r, \A u \in Targets \ {t} : r[u] = s[u],
           NEW m \in Messages, m.kind # "snapshot", m.target = t, NEW p, p = Append(q, m),
           \A ks : Line(h, c, q, s, t, ks) => Line(h, c, p, r, t, ks)
    PROVE  Continues(h, c, q, s, h, c, p, r)
<1>1. ASSUME NEW u \in c.listens, u # t, NEW ks, Line(h, c, q, s, u, ks)
      PROVE  Line(h, c, p, r, u, ks)
  <2>1. u \in Targets /\ r[u] = s[u] /\ s[u].sent \in Nat
    BY <1>1, ClientFields DEF Sessions
  <2>2. ~Telling(m, u)
    BY <1>1 DEF Telling
  <2> QED BY <1>1, <2>1, <2>2, LineAppend
<1> QED BY <1>1 DEF Continues

\* Whoever waits for a rejection goes on waiting.
LEMMA SentAnswers ==
    ASSUME NEW h, NEW c \in WideClients, NEW q \in Seq(Messages), NEW s, Told(h, c, q, s),
           NEW t \in Targets, NEW m \in Messages, m.target = t, NEW p, p = Append(q, m),
           NEW r, NEW u \in c.listens, Wants(c, u), r[u].phase = "none",
           u # t => r[u] = s[u], u = t => m.kind = "rejected"
    PROVE  Tells(p, "rejected", u)
<1>2. u \in Targets
  BY ClientFields
<1>3. Tells(p, "rejected", u) <=>
          Tells(q, "rejected", u) \/ (m.kind = "rejected" /\ m.target = u)
  BY <1>2, AppendTells DEF AddedTo
<1>4. CASE u = t
  BY <1>3, <1>4
<1>5. CASE u # t
  <2>1. s[u].phase = "none"
    BY <1>2, <1>5
  <2>2. Tells(q, "rejected", u)
    BY <2>1 DEF Told, TargetTold, TargetHolds
  <2> QED BY <1>3, <2>2
<1> QED BY <1>4, <1>5

\* The server goes on with the target t, with a message.
LEMMA SentHolds ==
    ASSUME DInv, IInv', NEW t \in Targets, server.sessions[t].phase # "none",
           NEW x \in Sessions, NEW b \in BOOLEAN, server' = ServerWith(server, t, x, b),
           client' = client, history' = history,
           NEW m \in Messages, m.kind \notin {"added", "removed", "snapshot"}, m.target = t,
           queue' = Append(queue, m),
           x.phase = "none" => m.kind = "rejected",
           x.phase # "none" => x.sent \in 0..Len(history),
           m.kind = "document" => TrueIn(history, m.document),
           \A ks : Line(history, client, queue, server.sessions, t, ks) =>
                       Line(history, client, queue', server'.sessions, t, ks),
           ~retracted' => /\ ~retracted
                          /\ m.kind = "rejected" => t = Main
                          /\ m.kind \in {"reset", "rejected"} =>
                                /\ client.updates = {}
                                /\ \A j \in DOMAIN queue : queue[j].kind \notin {"document", "filter"}
    PROVE  DInv'
<1> DEFINE s == server.sessions
           r == server'.sessions
           h == history
           c == client
           q == queue
           p == queue'
<1>1. /\ server \in Servers /\ s \in [Targets -> Sessions] /\ q \in Seq(Messages)
      /\ c \in WideClients /\ h \in Seq(BOOLEAN)
  BY ServerFields DEF DInv, IInv, Network, Sound
<1>2. r = Replaced(s, t, x)
  BY <1>1, ServerSet
<1>3. r[t] = x /\ \A u \in Targets \ {t} : r[u] = s[u]
  BY <1>1, <1>2, SessionFields, SMTT(40)
<1>4. /\ Told(h, c, q, s) /\ Heard(h, q) /\ SentKnown(h, s)
      /\ ~retracted => Undisturbed(c, q)
  BY DEF DInv, Unbroken
<1>5. /\ p = Append(q, m) /\ \A ks : Line(h, c, q, s, t, ks) => Line(h, c, p, r, t, ks)
      /\ x.phase = "none" => m.kind = "rejected"
      /\ x.phase # "none" => x.sent \in 0..Len(h)
      /\ m.kind = "document" => TrueIn(h, m.document)
      /\ ~retracted' => /\ ~retracted
                        /\ m.kind = "rejected" => t = Main
                        /\ m.kind \in {"reset", "rejected"} =>
                              /\ c.updates = {}
                              /\ \A j \in DOMAIN q : q[j].kind \notin {"document", "filter"}
  OBVIOUS
<1> HIDE DEF s, r, h, c, q, p
<1>6. Continues(h, c, q, s, h, c, p, r)
  BY <1>1, <1>3, <1>5, SentContinues
<1>7. \A u \in c.listens : Wants(c, u) /\ r[u].phase = "none" => Tells(p, "rejected", u)
  <2>1. ASSUME NEW u \in c.listens, Wants(c, u), r[u].phase = "none"
        PROVE  Tells(p, "rejected", u)
    <3>1. (u # t => r[u] = s[u]) /\ (u = t => m.kind = "rejected")
      BY <1>1, <1>3, <1>5, <2>1, ClientFields
    <3>2. p = Append(q, m) /\ m \in Messages /\ m.target = t
      BY <1>5
    <3> QED BY <1>1, <1>4, <2>1, <3>1, <3>2, SentAnswers, ZenonT(60)
  <2> QED BY <2>1
<1>8. Heard(h, p)
  BY <1>1, <1>4, <1>5, HeardAppend
<1>9. SentKnown(h, r)
  BY <1>3, <1>4, <1>5 DEF SentKnown
<1>10. ~retracted' => ~retracted /\ Undisturbed(c, p)
  BY <1>1, <1>4, <1>5, UndisturbedAppend
<1>11. Grown(h, h)
  BY <1>1, LenProperties, GrownSame
<1>12. SameTargets(c, c) /\ SameApp(c, c)
  BY SameClient
<1>13. /\ Grown(history, history') /\ SameTargets(client, client') /\ SameApp(client, client')
       /\ Continues(history, client, queue, server.sessions,
                    history', client', queue', server'.sessions)
       /\ \A u \in client.listens :
             Wants(client', u) /\ server'.sessions[u].phase = "none" => Tells(queue', "rejected", u)
       /\ Heard(history', queue') /\ SentKnown(history', server'.sessions)
       /\ ~retracted' => ~retracted /\ Undisturbed(client', queue')
  BY <1>6, <1>7, <1>8, <1>9, <1>10, <1>11, <1>12 DEF s, r, h, c, q, p
<1> QED BY <1>13, ServerStep

\* The server says nothing of a document a target never had.
LEMMA UnsaidHolds ==
    ASSUME DInv, IInv', NEW t \in Targets, server.sessions[t].phase # "none",
           NEW x \in Sessions, NEW b \in BOOLEAN, server' = ServerWith(server, t, x, b),
           client' = client, history' = history, queue' = queue, retracted' = retracted,
           x.phase # "none", x.sent \in 0..Len(history),
           Claim(history, x.sent) = Claim(history, server.sessions[t].sent)
    PROVE  DInv'
<1> DEFINE s == server.sessions
           r == server'.sessions
           h == history
           c == client
           q == queue
<1>1. /\ server \in Servers /\ s \in [Targets -> Sessions] /\ q \in Seq(Messages)
      /\ c \in WideClients /\ h \in Seq(BOOLEAN)
  BY ServerFields DEF DInv, IInv, Network, Sound
<1>2. r = Replaced(s, t, x)
  BY <1>1, ServerSet
<1>3. r[t] = x /\ \A u \in Targets \ {t} : r[u] = s[u]
  BY <1>1, <1>2, SessionFields, SMTT(40)
<1>4. /\ Told(h, c, q, s) /\ Heard(h, q) /\ SentKnown(h, s)
      /\ ~retracted => Undisturbed(c, q)
  BY DEF DInv, Unbroken
<1>5. /\ x.phase # "none" /\ x.sent \in 0..Len(h) /\ s[t].phase # "none"
      /\ Claim(h, x.sent) = Claim(h, s[t].sent)
  OBVIOUS
<1> HIDE DEF s, r, h, c, q
<1>6. ASSUME NEW u \in c.listens, NEW ks, Line(h, c, q, s, u, ks)
      PROVE  Line(h, c, q, r, u, ks)
  <2>1. u \in Targets /\ s[u].sent \in Nat
    BY <1>1, ClientFields DEF Sessions
  <2>2. r[u].phase = "none" \/
        (s[u].phase # "none" /\ s[u].sent \in Nat /\ Claim(h, r[u].sent) = Claim(h, s[u].sent))
    BY <1>3, <1>5, <2>1
  <2> QED BY <1>6, <2>2, LineSilent
<1>7. Continues(h, c, q, s, h, c, q, r)
  BY <1>6 DEF Continues
<1>8. \A u \in c.listens : Wants(c, u) /\ r[u].phase = "none" => Tells(q, "rejected", u)
  <2>1. \A u \in c.listens : r[u].phase = "none" => s[u].phase = "none"
    BY <1>1, <1>3, <1>5, ClientFields
  <2> QED BY <1>4, <2>1 DEF Told, TargetTold, TargetHolds
<1>9. SentKnown(h, r)
  BY <1>3, <1>4, <1>5 DEF SentKnown
<1>10. Grown(h, h)
  BY <1>1, LenProperties, GrownSame
<1>11. SameTargets(c, c) /\ SameApp(c, c)
  BY SameClient
<1>12. /\ Grown(history, history') /\ SameTargets(client, client') /\ SameApp(client, client')
       /\ Continues(history, client, queue, server.sessions,
                    history', client', queue', server'.sessions)
       /\ \A u \in client.listens :
             Wants(client', u) /\ server'.sessions[u].phase = "none" => Tells(queue', "rejected", u)
       /\ Heard(history', queue') /\ SentKnown(history', server'.sessions)
       /\ ~retracted' => ~retracted /\ Undisturbed(client', queue')
  BY <1>4, <1>7, <1>8, <1>9, <1>10, <1>11 DEF s, r, h, c, q
<1> QED BY <1>12, ServerStep

\* The server tells of the document, or has nothing to say.
LEMMA SendDocumentHolds ==
    ASSUME DInv, NEW t \in Targets, SendDocument(t)
    PROVE  DInv'
<1> DEFINE s == server.sessions[t]
           at == server.at
           document == MaybeDocument(history[at], at)
           m1 == [kind |-> "document", target |-> t, document |-> document]
           m2 == [kind |-> "filter", target |-> t]
           x == [s EXCEPT !.sent = at]
           b == TRUE
<1>1. /\ s.phase # "none" /\ server' = [server EXCEPT !.sessions[t].sent = at, !.news = TRUE]
      /\ history' = history /\ client' = client /\ retracted' = retracted
      /\ \/ Send(m1)
         \/ ~document.exists /\ Send(m2)
         \/ ~document.exists /\ s.sent = 0 /\ queue' = queue
  BY DEF SendDocument
<1>2. IInv /\ IInv'
  BY SendDocumentKeeps DEF DInv
<1>3. server \in Servers /\ s \in Sessions /\ server.sessions \in [Targets -> Sessions]
  BY <1>2, ServerFields DEF IInv, Network
<1>4. /\ at \in 1..MaxVersion /\ history[at] \in BOOLEAN /\ Len(history) \in Nat
      /\ at \in 1..Len(history)
  BY <1>2, HistoryFields DEF IInv
<1>5. x \in Sessions /\ x.phase = s.phase /\ x.sent = at
  BY <1>3, <1>4 DEF Sessions
<1>6. /\ document \in MaybeDocuments /\ document.version = at /\ document.exists = history[at]
  BY <1>4 DEF MaybeDocument, MaybeDocuments
<1> HIDE DEF document
<1>7. /\ m1 \in Messages /\ m1.kind = "document" /\ m1.target = t /\ m1.document = document
      /\ m2 \in Messages /\ m2.kind = "filter" /\ m2.target = t
  BY <1>6 DEF Messages
<1>8. server' = ServerWith(server, t, x, b) /\ b \in BOOLEAN
  BY <1>1, <1>3 DEF Servers, ServerWith
<1>9. TrueIn(history, document)
  BY <1>4, <1>6 DEF TrueIn, Had
<1>10. Claim(history, at) = DocumentClaim(document)
  BY <1>4, <1>6 DEF Claim, Had, DocumentClaim
<1> HIDE DEF m1, m2, x, b
<1>11. server'.sessions[t] = x
  <2>1. server'.sessions = Replaced(server.sessions, t, x)
    BY <1>3, <1>5, <1>8, ServerSet
  <2> QED BY <1>3, <1>5, <2>1, SessionFields
<1>12. queue \in Seq(Messages)
  BY <1>2 DEF IInv, Network
<1>13. CASE Send(m1)
  <2>1. queue' = Append(queue, m1)
    BY <1>13 DEF Send
  <2>2. Telling(m1, t) /\ MessageClaim(m1) = Claim(history, server'.sessions[t].sent)
    BY <1>5, <1>7, <1>10, <1>11 DEF Telling, MessageClaim
  <2>3. ASSUME NEW ks, Line(history, client, queue, server.sessions, t, ks)
        PROVE  Line(history, client, queue', server'.sessions, t, ks)
    BY <1>7, <1>12, <2>1, <2>2, <2>3, LineTold
  <2>4. m1.kind \notin {"added", "removed", "snapshot", "rejected", "reset"}
    BY <1>7
  <2> QED BY <1>1, <1>2, <1>4, <1>5, <1>7, <1>8, <1>9, <2>1, <2>3, <2>4, SentHolds, SMTT(40)
<1>14. CASE ~document.exists /\ Send(m2)
  <2>1. queue' = Append(queue, m2)
    BY <1>14 DEF Send
  <2>2. Telling(m2, t) /\ MessageClaim(m2) = Claim(history, server'.sessions[t].sent)
    BY <1>5, <1>7, <1>10, <1>11, <1>14 DEF Telling, MessageClaim, DocumentClaim
  <2>3. ASSUME NEW ks, Line(history, client, queue, server.sessions, t, ks)
        PROVE  Line(history, client, queue', server'.sessions, t, ks)
    BY <1>7, <1>12, <2>1, <2>2, <2>3, LineTold
  <2>4. m2.kind \notin {"added", "removed", "snapshot", "rejected", "reset", "document"}
    BY <1>7
  <2> QED BY <1>1, <1>2, <1>4, <1>5, <1>7, <1>8, <2>1, <2>3, <2>4, SentHolds, SMTT(40)
<1>15. CASE ~document.exists /\ s.sent = 0 /\ queue' = queue
  <2>1. Claim(history, x.sent) = Claim(history, s.sent)
    BY <1>5, <1>10, <1>15 DEF Claim, Had, DocumentClaim
  <2> QED BY <1>1, <1>2, <1>4, <1>5, <1>8, <1>15, <2>1, UnsaidHolds
<1> QED BY <1>1, <1>13, <1>14, <1>15

\* The server tells that a target is current.
LEMMA SendCurrentHolds ==
    ASSUME DInv, NEW t \in Targets, SendCurrent(t)
    PROVE  DInv'
<1> DEFINE s == server.sessions[t]
           m == [kind |-> "current", target |-> t, token |-> server.at]
           x == [s EXCEPT !.phase = "current"]
           b == TRUE
<1>1. /\ s = [phase |-> "added", sent |-> server.at] /\ Send(m)
      /\ server' = [server EXCEPT !.sessions[t].phase = "current", !.news = TRUE]
      /\ history' = history /\ client' = client /\ retracted' = retracted
  BY DEF SendCurrent
<1>2. IInv /\ IInv'
  BY SendCurrentKeeps DEF DInv
<1>3. server \in Servers /\ s \in Sessions /\ server.sessions \in [Targets -> Sessions]
  BY <1>2, ServerFields DEF IInv, Network
<1>4. server.at \in 1..MaxVersion /\ server.at \in 1..Len(history) /\ Len(history) \in Nat
  BY <1>2, HistoryFields DEF IInv
<1>5. x \in Sessions /\ x.phase = "current" /\ x.sent = s.sent /\ s.sent = server.at
  BY <1>1, <1>3 DEF Sessions
<1>6. m \in Messages /\ m.kind = "current" /\ m.target = t
  BY <1>4, WatchAssumption DEF Messages
<1>7. server' = ServerWith(server, t, x, b) /\ b \in BOOLEAN
  BY <1>1, <1>3 DEF Servers, ServerWith
<1>8. server'.sessions[t] = x
  <2> HIDE DEF m, x, b, s
  <2>1. server'.sessions = Replaced(server.sessions, t, x)
    BY <1>3, <1>5, <1>7, ServerSet
  <2> QED BY <1>3, <1>5, <2>1, SessionFields
<1>9. queue \in Seq(Messages) /\ queue' = Append(queue, m) /\ s.phase # "none"
  BY <1>1, <1>2 DEF IInv, Network, Send
<1> HIDE DEF m, x, b
<1>10. m.kind \notin {"added", "removed", "snapshot", "rejected", "reset", "document"}
  BY <1>6
<1>11. ASSUME NEW ks, Line(history, client, queue, server.sessions, t, ks)
       PROVE  Line(history, client, queue', server'.sessions, t, ks)
  <2>1. s.sent \in Nat /\ x.sent \in Nat
    BY <1>3, <1>5 DEF Sessions
  <2>2. Line(history, client, queue, server'.sessions, t, ks)
    BY <1>5, <1>8, <1>9, <1>11, <2>1, LineSilent
  <2>3. ~Telling(m, t)
    BY <1>6 DEF Telling
  <2> QED BY <1>6, <1>8, <1>9, <1>10, <2>1, <2>2, <2>3, LineAppend
<1> QED BY <1>1, <1>2, <1>4, <1>5, <1>6, <1>7, <1>9, <1>10, <1>11, SentHolds, SMTT(40)

\* The server starts a target over.
LEMMA SendResetHolds ==
    ASSUME DInv, NEW t \in Targets, SendReset(t)
    PROVE  DInv'
<1> DEFINE s == server.sessions[t]
           m == [kind |-> "reset", target |-> t]
           x == [phase |-> "added", sent |-> 0]
           b == TRUE
<1>1. /\ s.phase # "none" /\ Send(m)
      /\ server' = [server EXCEPT !.sessions[t] = x, !.news = TRUE]
      /\ history' = history /\ client' = client /\ retracted' = (retracted \/ UnderWay)
  BY DEF SendReset
<1>2. IInv /\ IInv'
  BY SendResetKeeps DEF DInv
<1>3. server \in Servers /\ server.sessions \in [Targets -> Sessions]
  BY <1>2, ServerFields DEF IInv, Network
<1>4. x \in Sessions /\ x.phase = "added" /\ x.sent = 0
  BY WatchAssumption DEF Sessions
<1>5. m \in Messages /\ m.kind = "reset" /\ m.target = t
  BY DEF Messages
<1>6. Len(history) \in Nat
  BY <1>2, HistoryFields DEF IInv
<1> HIDE DEF m, x
<1>7. server' = ServerWith(server, t, x, b) /\ b \in BOOLEAN
  BY <1>1 DEF ServerWith
<1> HIDE DEF b
<1>8. server'.sessions[t] = x
  <2>1. server'.sessions = Replaced(server.sessions, t, x)
    BY <1>3, <1>4, <1>7, ServerSet
  <2> QED BY <1>3, <1>4, <2>1, SessionFields
<1>9. queue \in Seq(Messages) /\ queue' = Append(queue, m)
  BY <1>1, <1>2 DEF IInv, Network, Send
<1>10. ASSUME NEW ks, Line(history, client, queue, server.sessions, t, ks)
       PROVE  Line(history, client, queue', server'.sessions, t, ks)
  <2>1. Telling(m, t) /\ MessageClaim(m) = 0
    BY <1>5 DEF Telling, MessageClaim
  <2>2. Claim(history, server'.sessions[t].sent) = 0
    BY <1>4, <1>8 DEF Claim, Had
  <2> QED BY <1>5, <1>9, <1>10, <2>1, <2>2, LineTold
<1>11. m.kind \notin {"added", "removed", "snapshot", "rejected", "document"}
  BY <1>5
<1>12. ~retracted' => /\ ~retracted /\ client.updates = {}
                      /\ \A j \in DOMAIN queue : queue[j].kind \notin {"document", "filter"}
  BY <1>1 DEF UnderWay
<1>13. x.phase # "none" /\ x.sent \in 0..Len(history)
  BY <1>4, <1>6
<1> QED BY <1>1, <1>2, <1>4, <1>5, <1>7, <1>9, <1>10, <1>11, <1>12, <1>13, SentHolds

\* The server rejects a target.
LEMMA SendRejectionHolds ==
    ASSUME DInv, NEW t \in Targets, SendRejection(t)
    PROVE  DInv'
<1> DEFINE s == server.sessions[t]
           m == [kind |-> "rejected", target |-> t]
           x == NoSession
           b == server.news
<1>1. /\ s.phase # "none" /\ Send(m)
      /\ server' = [server EXCEPT !.sessions[t] = x]
      /\ history' = history /\ client' = client
      /\ retracted' = (retracted \/ t # Main \/ UnderWay)
  BY DEF SendRejection
<1>2. IInv /\ IInv'
  BY SendRejectionKeeps DEF DInv
<1>3. server \in Servers /\ server.sessions \in [Targets -> Sessions] /\ b \in BOOLEAN
  BY <1>2, ServerFields DEF IInv, Network
<1>4. x \in Sessions /\ x.phase = "none"
  BY WatchAssumption DEF Sessions, NoSession
<1>5. m \in Messages /\ m.kind = "rejected" /\ m.target = t
  BY DEF Messages
<1> HIDE DEF m, x
<1>6. server' = ServerWith(server, t, x, b)
  BY <1>1, <1>3 DEF ServerWith, Servers
<1> HIDE DEF b
<1>7. server'.sessions[t] = x
  <2>1. server'.sessions = Replaced(server.sessions, t, x)
    BY <1>3, <1>4, <1>6, ServerSet
  <2> QED BY <1>3, <1>4, <2>1, SessionFields
<1>8. queue \in Seq(Messages) /\ queue' = Append(queue, m)
  BY <1>1, <1>2 DEF IInv, Network, Send
<1>9. ASSUME NEW ks, Line(history, client, queue, server.sessions, t, ks)
      PROVE  Line(history, client, queue', server'.sessions, t, ks)
  <2>1. ~Telling(m, t) /\ m.kind # "snapshot"
    BY <1>5 DEF Telling
  <2>2. server.sessions[t].sent \in Nat
    BY <1>3 DEF Sessions
  <2> QED BY <1>4, <1>5, <1>7, <1>8, <1>9, <2>1, <2>2, LineAppend
<1>10. m.kind \notin {"added", "removed", "snapshot", "reset", "document"}
  BY <1>5
<1>11. ~retracted' => /\ ~retracted /\ t = Main /\ client.updates = {}
                      /\ \A j \in DOMAIN queue : queue[j].kind \notin {"document", "filter"}
  BY <1>1 DEF UnderWay
<1> QED BY <1>1, <1>2, <1>3, <1>4, <1>5, <1>6, <1>8, <1>9, <1>10, <1>11, SentHolds

\* The server tells of a global snapshot.
LEMMA SendSnapshotHolds ==
    ASSUME DInv, SendSnapshot
    PROVE  DInv'
<1> DEFINE m == [kind |-> "snapshot", version |-> server.at]
           h == history
           c == client
           q == queue
           p == queue'
           s == server.sessions
<1>1. /\ server' = [server EXCEPT !.news = FALSE] /\ Send(m)
      /\ \A t \in Targets : s[t].phase # "none" => s[t].sent = server.at
      /\ history' = history /\ client' = client /\ retracted' = retracted
  BY DEF SendSnapshot
<1>2. IInv /\ IInv'
  BY SendSnapshotKeeps DEF DInv
<1>3. /\ server \in Servers /\ s \in [Targets -> Sessions] /\ c \in WideClients
      /\ h \in Seq(BOOLEAN) /\ q \in Seq(Messages) /\ p = Append(q, m)
  BY <1>1, <1>2, ServerFields DEF IInv, Network, Sound, Send
<1>4. server.at \in 1..MaxVersion /\ server.at \in DOMAIN h
  BY <1>2, HistoryFields DEF IInv
<1>5. m \in Messages /\ m.kind = "snapshot" /\ m.version = server.at
  BY <1>4 DEF Messages
<1>6. server'.sessions = s
  BY <1>1, <1>3 DEF Servers
<1>7. /\ Told(h, c, q, s) /\ Heard(h, q) /\ SentKnown(h, s)
      /\ ~retracted => Undisturbed(c, q)
  BY DEF DInv, Unbroken
<1> HIDE DEF m, h, c, q, p, s
<1>8. ~\E t : Telling(m, t)
  BY <1>5 DEF Telling
<1>9. ASSUME NEW t \in c.listens, NEW ks, Line(h, c, q, s, t, ks)
      PROVE  Line(h, c, p, s, t, ks)
  <2>1. t \in Targets /\ s[t].sent \in Nat
    BY <1>3, ClientFields DEF Sessions
  <2>2. Wants(c, t) /\ ~Tells(q, "rejected", t) => s[t].phase # "none" /\ s[t].sent = m.version
    BY <1>1, <1>5, <1>7, <2>1 DEF Told, TargetTold, TargetHolds, s
  <2> QED BY <1>3, <1>5, <1>8, <1>9, <2>1, <2>2, LineAppend
<1>10. Continues(h, c, q, s, h, c, p, s)
  BY <1>9 DEF Continues
<1>11. ASSUME NEW t \in c.listens, Wants(c, t), s[t].phase = "none"
       PROVE  Tells(p, "rejected", t)
  <2>1. Tells(q, "rejected", t)
    BY <1>7, <1>11 DEF Told, TargetTold, TargetHolds
  <2> QED BY <1>3, <1>5, <2>1, ClientFields, AppendTells DEF AddedTo
<1>12. Heard(h, p)
  BY <1>3, <1>4, <1>5, <1>7, HeardAppend
<1>13. ~retracted => Undisturbed(c, p)
  BY <1>3, <1>5, <1>7, UndisturbedAppend
<1>14. Grown(h, h) /\ SameTargets(c, c) /\ SameApp(c, c)
  BY <1>3, LenProperties, GrownSame, SameClient
<1>15. /\ Grown(history, history') /\ SameTargets(client, client') /\ SameApp(client, client')
       /\ Continues(history, client, queue, server.sessions,
                    history', client', queue', server'.sessions)
       /\ \A u \in client.listens :
             Wants(client', u) /\ server'.sessions[u].phase = "none" => Tells(queue', "rejected", u)
       /\ Heard(history', queue') /\ SentKnown(history', server'.sessions)
       /\ ~retracted' => ~retracted /\ Undisturbed(client', queue')
  BY <1>1, <1>6, <1>7, <1>10, <1>11, <1>12, <1>13, <1>14 DEF s, h, c, q, p
<1> QED BY <1>2, <1>15, ServerStep

\* A request of the target t is taken and answered: the other targets' lines go on.
LEMMA ServedLine ==
    ASSUME NEW h, NEW c, NEW q \in Seq(Messages), NEW s \in [Targets -> Sessions],
           Sound(c, q, s), NEW r \in c.requests, NEW d, d = Served(c, r),
           NEW z, \A u \in Targets \ {r.target} : z[u] = s[u],
           NEW m \in Messages, m.kind \in {"added", "removed"},
           NEW p, p = q \/ p = Append(q, m),
           NEW u \in c.listens, u # r.target, NEW ks, Line(h, c, q, s, u, ks)
    PROVE  Line(h, d, p, z, u, ks)
<1>1. c \in WideClients /\ u \in Targets /\ z[u] = s[u] /\ s[u].sent \in Nat
  BY ClientFields DEF Sound, Sessions
<1>2. Line(h, c, p, z, u, ks)
  <2>1. CASE p = q
    BY <1>1, <2>1, LineSilent
  <2>2. CASE p = Append(q, m)
    <3>1. ~Telling(m, u) /\ m.kind # "snapshot"
      BY DEF Telling
    <3> QED BY <1>1, <2>2, <3>1, LineAppend
  <2> QED BY <2>1, <2>2
<1>3. Wants(d, u) => Wants(c, u)
  BY <1>1, ServedAsks, ServedEffect DEF Wants
<1> QED BY <1>2, <1>3, LineClient

\* And they wait for what they waited for.
LEMMA ServedAnswers ==
    ASSUME NEW h, NEW c, NEW q \in Seq(Messages), NEW s \in [Targets -> Sessions],
           Sound(c, q, s), Told(h, c, q, s), NEW r \in c.requests, NEW d, d = Served(c, r),
           NEW m \in Messages, NEW p, p = q \/ p = Append(q, m),
           NEW u \in c.listens, u # r.target, Wants(d, u), s[u].phase = "none"
    PROVE  Tells(p, "rejected", u)
<1>1. c \in WideClients /\ u \in Targets
  BY ClientFields DEF Sound
<1>2. Wants(c, u)
  BY <1>1, ServedAsks, ServedEffect DEF Wants
<1>3. Tells(q, "rejected", u)
  BY <1>2 DEF Told, TargetTold, TargetHolds
<1>4. p = q \/ (Tells(q, "rejected", u) => Tells(p, "rejected", u))
  BY <1>1, AppendTells DEF AddedTo
<1> QED BY <1>3, <1>4

\* The client without a request.
LEMMA ServedSame ==
    ASSUME NEW c \in WideClients, NEW r \in c.requests, NEW d, d = Served(c, r)
    PROVE  SameTargets(c, d) /\ SameApp(c, d)
<1>1. /\ d.requests = c.requests \ {r} /\ SameApp(c, d) /\ SameLimbo(c, d)
      /\ d.listens = c.listens /\ d.tokens = c.tokens /\ d.states = c.states
      /\ d.updates = c.updates /\ d.open = c.open
  BY ServedEffect
<1> QED BY <1>1 DEF SameTargets, SameApp, SameLimbo

\* A watch request is served.
LEMMA ServeWatchHolds ==
    ASSUME DInv, NEW r \in client.requests, ServeWatch(r)
    PROVE  DInv'
<1> DEFINE t == r.target
           m == [kind |-> "added", target |-> t]
           x == [phase |-> "added", sent |-> r.token]
           h == history
           c == client
           d == Served(client, r)
           q == queue
           p == queue'
           s == server.sessions
           z == Replaced(s, t, x)
<1>1. /\ r.kind = "watch" /\ r.token <= server.at /\ server' = [server EXCEPT !.sessions[t] = x]
      /\ client' = d /\ Send(m) /\ history' = history /\ retracted' = retracted
  BY DEF ServeWatch, Served
<1>2. IInv /\ IInv'
  BY ServeWatchKeeps DEF DInv
<1>3. /\ server \in Servers /\ s \in [Targets -> Sessions] /\ c \in WideClients
      /\ h \in Seq(BOOLEAN) /\ q \in Seq(Messages) /\ p = Append(q, m) /\ Sound(c, q, s)
      /\ server.news \in BOOLEAN
  BY <1>1, <1>2, ServerFields DEF IInv, Network, Sound, Send
<1>4. r \in Requests /\ t \in Targets /\ r.token \in 0..MaxVersion
  BY <1>3, ClientFields DEF Requests
<1>5. r.token \in 0..Len(h)
  BY <1>1, <1>2, <1>4, HistoryFields DEF IInv
<1>6. m \in Messages /\ m.kind = "added" /\ m.target = t
  BY <1>4 DEF Messages
<1>7. x \in Sessions /\ x.phase = "added" /\ x.sent = r.token
  BY <1>4 DEF Sessions
<1>8. /\ Told(h, c, q, s) /\ Heard(h, q) /\ SentKnown(h, s)
      /\ ~retracted => Undisturbed(c, q)
  BY DEF DInv, Unbroken
<1> HIDE DEF m, x
<1>9. server'.sessions = z
  <2>1. server' = ServerWith(server, t, x, server.news)
    BY <1>1, <1>3 DEF Servers, ServerWith
  <2> QED BY <1>3, <1>4, <1>7, <2>1, ServerSet
<1>10. z[t] = x /\ \A u \in Targets \ {t} : z[u] = s[u]
  BY <1>3, <1>4, <1>7, SessionFields
<1>11. d = Served(c, r) /\ t = r.target
  OBVIOUS
<1> HIDE DEF h, c, d, q, p, s, z, t
<1>12. ASSUME NEW u \in c.listens
       PROVE  \/ \A ks : Line(h, c, q, s, u, ks) => Line(h, d, p, z, u, ks)
              \/ /\ c.states[u].pending # 0
                 /\ Line(h, d, p, z, u, {Claim(h, c.tokens[u])})
  <2>1. CASE u # t
    <3>1. ASSUME NEW ks, Line(h, c, q, s, u, ks) PROVE Line(h, d, p, z, u, ks)
      BY <1>3, <1>6, <1>10, <1>11, <1>12, <2>1, <3>1, ServedLine DEF c
    <3> QED BY <3>1
  <2>2. CASE u = t
    <3>1. r \in c.requests
      BY DEF c
    <3>2. Asks(c, "watch", t) /\ c.open
      BY <1>1, <1>3, <1>11, <3>1, ServedAsks
    <3>3. Silent(q, t) /\ c.states[t].pending = 1
      BY <1>3, <1>4, <1>12, <2>2, <3>2 DEF Sound, Protocol, TargetProtocol, One
    <3>4. r.token = c.tokens[t]
      BY <1>1, <1>8, <1>11, <1>12, <2>2, <3>1 DEF Told, TargetTold, TargetHolds
    <3>5. Claim(h, z[t].sent) \in {Claim(h, c.tokens[t])}
      BY <1>7, <1>10, <3>4
    <3>6. Line(h, d, p, z, t, {Claim(h, c.tokens[t])})
      BY <1>3, <1>6, <3>3, <3>5, LineServed
    <3> QED BY <2>2, <3>3, <3>6
  <2> QED BY <2>1, <2>2
<1>13. Continues(h, c, q, s, h, d, p, z)
  BY <1>12 DEF Continues
<1>14. ASSUME NEW u \in c.listens, Wants(d, u), z[u].phase = "none"
       PROVE  Tells(p, "rejected", u)
  <2>1. u # t /\ s[u].phase = "none"
    BY <1>3, <1>7, <1>10, <1>14, ClientFields
  <2> QED BY <1>3, <1>6, <1>8, <1>11, <1>14, <2>1, ServedAnswers, ZenonT(60) DEF c
<1>15. Heard(h, p)
  BY <1>3, <1>6, <1>8, HeardAppend
<1>16. SentKnown(h, z)
  BY <1>5, <1>7, <1>8, <1>10 DEF SentKnown
<1>17. SameTargets(c, d) /\ SameApp(c, d)
  BY <1>3, <1>11, ServedSame DEF c
<1>18. ~retracted => Undisturbed(d, p)
  <2>1. ~retracted => Undisturbed(c, p)
    BY <1>3, <1>6, <1>8, UndisturbedAppend
  <2> QED BY <1>17, <2>1 DEF Undisturbed, SameTargets
<1>19. Grown(h, h)
  BY <1>3, LenProperties, GrownSame
<1>20. /\ Grown(history, history') /\ SameTargets(client, client') /\ SameApp(client, client')
       /\ Continues(history, client, queue, server.sessions,
                    history', client', queue', server'.sessions)
       /\ \A u \in client.listens :
             Wants(client', u) /\ server'.sessions[u].phase = "none" => Tells(queue', "rejected", u)
       /\ Heard(history', queue') /\ SentKnown(history', server'.sessions)
       /\ ~retracted' => ~retracted /\ Undisturbed(client', queue')
  BY <1>1, <1>9, <1>13, <1>14, <1>15, <1>16, <1>17, <1>18, <1>19 DEF s, h, c, q, p
<1> QED BY <1>2, <1>20, ServerStep

\* An unwatch request is served.
LEMMA ServeUnwatchHolds ==
    ASSUME DInv, NEW r \in client.requests, ServeUnwatch(r)
    PROVE  DInv'
<1> DEFINE t == r.target
           m == [kind |-> "removed", target |-> t]
           x == NoSession
           h == history
           c == client
           d == Served(client, r)
           q == queue
           p == queue'
           s == server.sessions
           z == Replaced(s, t, x)
<1>1. /\ r.kind = "unwatch" /\ server' = [server EXCEPT !.sessions[t] = x]
      /\ client' = d /\ history' = history /\ retracted' = retracted
      /\ p = q \/ p = Append(q, m)
  BY DEF ServeUnwatch, Served, Send
<1>2. IInv /\ IInv'
  BY ServeUnwatchKeeps DEF DInv
<1>3. /\ server \in Servers /\ s \in [Targets -> Sessions] /\ c \in WideClients
      /\ h \in Seq(BOOLEAN) /\ q \in Seq(Messages) /\ Sound(c, q, s)
      /\ server.news \in BOOLEAN
  BY <1>2, ServerFields DEF IInv, Network, Sound
<1>4. t \in Targets
  BY <1>3, ClientFields DEF Requests
<1>5. m \in Messages /\ m.kind = "removed" /\ m.target = t
  BY <1>4 DEF Messages
<1>6. x \in Sessions /\ x.phase = "none"
  BY WatchAssumption DEF Sessions, NoSession
<1>7. /\ Told(h, c, q, s) /\ Heard(h, q) /\ SentKnown(h, s)
      /\ ~retracted => Undisturbed(c, q)
  BY DEF DInv, Unbroken
<1> HIDE DEF m, x
<1>8. server'.sessions = z
  <2>1. server' = ServerWith(server, t, x, server.news)
    BY <1>1, <1>3 DEF Servers, ServerWith
  <2> QED BY <1>3, <1>4, <1>6, <2>1, ServerSet
<1>9. z[t] = x /\ \A u \in Targets \ {t} : z[u] = s[u]
  BY <1>3, <1>4, <1>6, SessionFields
<1>10. d = Served(c, r) /\ t = r.target
  OBVIOUS
<1> HIDE DEF h, c, d, q, p, s, z, t
<1>11. t \notin c.listens
  <2>1. r \in c.requests
    BY DEF c
  <2>2. Asks(c, "unwatch", t)
    BY <1>1, <1>10, <2>1 DEF Asks
  <2> QED BY <1>3, <1>4, <2>2 DEF Sound, Protocol, TargetProtocol
<1>12. ASSUME NEW u \in c.listens, NEW ks, Line(h, c, q, s, u, ks)
       PROVE  Line(h, d, p, z, u, ks)
  <2>1. u # t
    BY <1>11, <1>12
  <2> QED BY <1>1, <1>3, <1>5, <1>9, <1>10, <1>12, <2>1, ServedLine DEF c
<1>13. Continues(h, c, q, s, h, d, p, z)
  BY <1>12 DEF Continues
<1>14. ASSUME NEW u \in c.listens, Wants(d, u), z[u].phase = "none"
       PROVE  Tells(p, "rejected", u)
  <2>1. u # t /\ s[u].phase = "none"
    BY <1>3, <1>9, <1>11, <1>14, ClientFields
  <2> QED BY <1>1, <1>3, <1>5, <1>7, <1>10, <1>14, <2>1, ServedAnswers DEF c
<1>15. Heard(h, p)
  BY <1>1, <1>3, <1>5, <1>7, HeardAppend
<1>16. SentKnown(h, z)
  BY <1>6, <1>7, <1>9 DEF SentKnown
<1>17. SameTargets(c, d) /\ SameApp(c, d)
  BY <1>3, <1>10, ServedSame DEF c
<1>18. ~retracted => Undisturbed(d, p)
  <2>1. ~retracted => Undisturbed(c, p)
    BY <1>1, <1>3, <1>5, <1>7, UndisturbedAppend
  <2> QED BY <1>17, <2>1 DEF Undisturbed, SameTargets
<1>19. Grown(h, h)
  BY <1>3, LenProperties, GrownSame
<1>20. /\ Grown(history, history') /\ SameTargets(client, client') /\ SameApp(client, client')
       /\ Continues(history, client, queue, server.sessions,
                    history', client', queue', server'.sessions)
       /\ \A u \in client.listens :
             Wants(client', u) /\ server'.sessions[u].phase = "none" => Tells(queue', "rejected", u)
       /\ Heard(history', queue') /\ SentKnown(history', server'.sessions)
       /\ ~retracted' => ~retracted /\ Undisturbed(client', queue')
  BY <1>1, <1>8, <1>13, <1>14, <1>15, <1>16, <1>17, <1>18, <1>19 DEF s, h, c, q, p
<1> QED BY <1>2, <1>20, ServerStep

-----------------------------------------------------------------------------
(* What the listeners are shown *)

\* What a listener is shown anew: the view, which is missing only because the
\* server said so, because the client is Offline and it was shown nothing, or
\* because the document was shown before.
ShownAnew(c, d, l) ==
    \/ d.shown[l].kind = "failed"
    \/ d.shown[l].kind = "nothing" /\ c.shown[l].kind = "idle"
    \/ /\ d.shown[l] = EventOf(d)
       /\ d.shown[l].kind = "missing" =>
             \/ c.shown[l].kind = "version"
             \/ d.view.sync = "Synced"
             \/ d.online = "Offline" /\ c.shown[l].kind \in {"idle", "nothing"}

Shows(c, d) ==
    /\ \A l \in Listeners : \/ d.shown[l] = c.shown[l]
                            \/ c.shown[l].kind # "failed" /\ ShownAnew(c, d, l)
    /\ d.newest = c.newest \/
       (d.newest > c.newest /\ \E l \in Listeners : d.shown[l] = [kind |-> "version", is |-> d.newest])

\* The listeners ls are called.
Calls(c, d, ls) ==
    /\ \A l \in Listeners : d.shown[l] = IF l \in ls THEN EventOf(d) ELSE c.shown[l]
    /\ d.newest = IF ls # {} /\ d.view.document > c.newest THEN d.view.document ELSE c.newest

\* Raise calls the listeners it is given.
LEMMA RaiseCalls ==
    ASSUME NEW c \in WideClients, NEW ls, NEW d, d = Raise(c, ls)
    PROVE  Calls(c, d, ls)
<1>1. /\ d.shown = [l \in Listeners |-> IF l \in ls THEN EventOf(c) ELSE c.shown[l]]
      /\ d.newest = IF ls # {} /\ c.view.document > c.newest THEN c.view.document ELSE c.newest
      /\ d.view = c.view
  BY RaiseShown
<1>2. EventOf(d) = EventOf(c)
  BY <1>1 DEF EventOf
<1> QED BY <1>1, <1>2 DEF Calls

\* Where nobody is called nothing is shown.
LEMMA NobodyCalled ==
    ASSUME NEW c \in WideClients, NEW d \in WideClients, NEW ls, Calls(c, d, ls),
           ls \cap Listeners = {}, ls \subseteq Listeners
    PROVE  SameShown(c, d)
<1>1. c.shown \in [Listeners -> Events] /\ d.shown \in [Listeners -> Events]
  BY ClientFields
<1>2. \A l \in Listeners : d.shown[l] = c.shown[l]
  BY DEF Calls
<1>3. d.shown = c.shown
  BY <1>1, <1>2
<1>4. ls = {}
  OBVIOUS
<1> QED BY <1>3, <1>4 DEF SameShown, Calls

\* The event of a view says its document.
LEMMA EventKinds ==
    ASSUME NEW c
    PROVE  /\ EventOf(c).kind \in {"missing", "version"}
           /\ EventOf(c).kind = "version" => EventOf(c).is = c.view.document
           /\ EventOf(c).kind = "missing" <=> c.view.document = 0
           /\ c.view.document # 0 => EventOf(c) = [kind |-> "version", is |-> c.view.document]
BY DEF EventOf

\* Who is called: the waiting, if the view may be shown, and the others, if it changed.
LEMMA CalledAre ==
    ASSUME NEW c, NEW ls, NEW changed, NEW l
    PROVE  l \in Called(c, ls, changed) <=>
              /\ l \in ls /\ l \in Listeners
              /\ \/ ShouldRaiseInitialEvent(c, c.online) /\ c.shown[l].kind = "nothing"
                 \/ changed /\ c.shown[l].kind \in {"missing", "version"}
BY DEF Called, Unraised, Raised

\* Whoever is called is called with the view.
LEMMA CallsShow ==
    ASSUME NEW c \in WideClients, NEW d \in WideClients, NEW ls, Calls(c, d, ls), ls \subseteq Listeners,
           \A l \in ls :
              \/ c.shown[l].kind = "nothing" /\ ShouldRaiseInitialEvent(d, d.online)
              \/ c.shown[l].kind \in {"missing", "version"}
    PROVE  Shows(c, d)
<1>1. \A l \in Listeners : d.shown[l] = IF l \in ls THEN EventOf(d) ELSE c.shown[l]
  BY DEF Calls
<1>2. ASSUME NEW l \in Listeners, d.shown[l] # c.shown[l]
      PROVE  c.shown[l].kind # "failed" /\ ShownAnew(c, d, l)
  <2>1. l \in ls /\ d.shown[l] = EventOf(d)
    BY <1>1, <1>2
  <2>2. CASE c.shown[l].kind = "nothing" /\ ShouldRaiseInitialEvent(d, d.online)
    BY <2>1, <2>2, EventKinds DEF ShownAnew, ShouldRaiseInitialEvent
  <2>3. CASE c.shown[l].kind = "version"
    BY <2>1, <2>3 DEF ShownAnew
  <2>4. CASE c.shown[l].kind = "missing"
    <3>1. c.shown[l] = [kind |-> "missing"]
      BY <2>4, ClientFields DEF Events
    <3>2. d.view.document # 0
      BY <1>2, <2>1, <3>1 DEF EventOf
    <3> QED BY <2>1, <2>4, <3>2, EventKinds DEF ShownAnew
  <2> QED BY <2>1, <2>2, <2>3, <2>4
<1>3. CASE d.newest = c.newest
  BY <1>2, <1>3 DEF Shows
<1>4. CASE d.newest # c.newest
  <2>1. ls # {} /\ d.view.document > c.newest /\ d.newest = d.view.document
    BY <1>4 DEF Calls
  <2>2. d.view.document # 0
    BY <2>1, ClientFields, ViewFields
  <2>3. PICK l \in ls : d.shown[l] = EventOf(d)
    BY <1>1, <2>1
  <2>4. d.shown[l] = [kind |-> "version", is |-> d.newest]
    BY <2>1, <2>2, <2>3, EventKinds
  <2> QED BY <1>2, <2>1, <2>4 DEF Shows
<1> QED BY <1>3, <1>4

\* A view that changed, or is Synced now, is shown rightly.
LEMMA ApplyChangesShown ==
    ASSUME NEW c \in WideClients, NEW changed \in BOOLEAN, NEW d, d = ApplyChanges(c, changed),
           c.view.on,
           \A l \in Listeners : c.shown[l].kind = "version" => c.shown[l].is <= c.newest,
           changed \/ Shown(c)
    PROVE  Shown(d) /\ Shows(c, d)
<1> DEFINE e == ViewSet(c, Settled(c.view))
           ls == Called(e, Listeners, changed)
<1>1. c.view \in Views /\ Settled(c.view) \in Views
  BY ClientFields, SettledFields
<1>2. /\ e \in WideClients /\ e.view = Settled(c.view) /\ e.online = c.online
      /\ e.shown = c.shown /\ e.newest = c.newest
  BY <1>1, ViewSetEffect DEF SameShown
<1>3. /\ d \in WideClients /\ d.view = Settled(c.view) /\ d.online = c.online
      /\ d = ChangesShown(e, c.view, changed)
  BY ApplyChangesEffect
<1>4. d.view.on /\ d.view.document = c.view.document
  BY <1>1, <1>3, SettledFields
<1> HIDE DEF e
<1>5. CASE changed \/ e.view.sync # c.view.sync
  <2>1. d = Raise(e, ls)
    BY <1>3, <1>5 DEF ChangesShown
  <2>2. \A l : l \in ls <=>
              /\ l \in Listeners
              /\ \/ ShouldRaiseInitialEvent(e, e.online) /\ c.shown[l].kind = "nothing"
                 \/ changed /\ c.shown[l].kind \in {"missing", "version"}
    BY <1>2, CalledAre
  <2>3. ShouldRaiseInitialEvent(d, d.online) <=> ShouldRaiseInitialEvent(e, e.online)
    BY <1>2, <1>3 DEF ShouldRaiseInitialEvent
  <2>4. ls \subseteq Listeners
    BY <2>2
  <2> HIDE DEF ls
  <2>5. Calls(e, d, ls)
    BY <1>2, <2>1, RaiseCalls
  <2>6. Calls(c, d, ls)
    BY <1>2, <2>5 DEF Calls
  <2>7. Shows(c, d)
    BY <1>3, <2>2, <2>3, <2>4, <2>6, CallsShow
  <2>8. ASSUME NEW l \in Listeners
        PROVE  /\ d.shown[l].kind \in {"missing", "version"} => d.shown[l] = EventOf(d)
               /\ d.shown[l].kind = "nothing" => ~ShouldRaiseInitialEvent(d, d.online)
               /\ d.shown[l].kind = "version" => d.shown[l].is <= d.newest
    <3>1. CASE l \in ls
      <4>1. d.shown[l] = EventOf(d)
        BY <2>6, <3>1 DEF Calls
      <4>2. d.view.document <= d.newest
        BY <1>3, <2>6, <3>1, ClientFields, ViewFields DEF Calls
      <4> QED BY <4>1, <4>2, EventKinds
    <3>2. CASE l \notin ls
      <4>1. d.shown[l] = c.shown[l]
        BY <2>6, <3>2 DEF Calls
      <4>2. c.newest <= d.newest
        BY <1>3, <2>6, ClientFields, ViewFields DEF Calls
      <4>3. d.shown[l].kind = "version" => d.shown[l].is <= d.newest
        <5>1. SUFFICES ASSUME d.shown[l].kind = "version" PROVE d.shown[l].is <= d.newest
          OBVIOUS
        <5>2. d.shown[l].is \in Nat /\ d.newest \in Nat /\ c.newest \in Nat
          BY <1>3, <5>1, ClientFields DEF Events
        <5> QED BY <4>1, <4>2, <5>1, <5>2
      <4>4. d.shown[l].kind \in {"missing", "version"} => d.shown[l] = EventOf(d)
        <5>1. SUFFICES ASSUME d.shown[l].kind \in {"missing", "version"} PROVE d.shown[l] = EventOf(d)
          OBVIOUS
        <5>2. ~changed
          BY <2>2, <3>2, <4>1, <5>1
        <5>3. c.shown[l] = EventOf(c)
          BY <4>1, <5>1, <5>2 DEF Shown
        <5> QED BY <1>4, <4>1, <5>3 DEF EventOf
      <4>5. d.shown[l].kind = "nothing" => ~ShouldRaiseInitialEvent(d, d.online)
        BY <2>2, <2>3, <3>2, <4>1
      <4> QED BY <4>3, <4>4, <4>5
    <3> QED BY <3>1, <3>2
  <2> QED BY <1>4, <2>7, <2>8 DEF Shown
<1>6. CASE ~(changed \/ e.view.sync # c.view.sync)
  <2>1. d = e
    BY <1>3, <1>6 DEF ChangesShown
  <2>2. EventOf(d) = EventOf(c)
    BY <1>4 DEF EventOf
  <2>3. ShouldRaiseInitialEvent(d, d.online) <=> ShouldRaiseInitialEvent(c, c.online)
    BY <1>3, <1>4, <1>6, <2>1 DEF ShouldRaiseInitialEvent
  <2>4. Shown(d)
    BY <1>2, <1>4, <1>6, <2>1, <2>2, <2>3 DEF Shown
  <2>5. Shows(c, d)
    BY <1>2, <2>1 DEF Shows
  <2> QED BY <2>4, <2>5
<1> QED BY <1>5, <1>6

\* The view is no longer current: nobody is called for that.
LEMMA OfflineFirstQuiet ==
    ASSUME NEW c \in WideClients, Shown(c), NEW online, NEW d, d = OfflineFirst(c, online)
    PROVE  Shown(d) /\ SameShown(c, d)
<1> DEFINE v == [c.view EXCEPT !.current = FALSE]
           e == ViewSet(c, v)
<1>1. v \in Views /\ v.on = c.view.on /\ v.document = c.view.document /\ v.sync = c.view.sync
      /\ v.current = FALSE
  BY ClientFields DEF Views
<1>2. CASE online = "Offline" /\ c.online # online /\ c.view.on /\ c.view.current
  <2>1. e = [c EXCEPT !.view.current = FALSE]
    BY DEF ViewSet, WideClients, Views
  <2>2. d = ApplyChanges(e, FALSE)
    BY <1>2, <2>1 DEF OfflineFirst
  <2> HIDE DEF v
  <2>3. /\ e \in WideClients /\ e.view = v /\ e.online = c.online
        /\ e.shown = c.shown /\ e.newest = c.newest
    BY <1>1, ViewSetEffect DEF SameShown
  <2> HIDE DEF e
  <2>4. EventOf(e) = EventOf(c)
        /\ (ShouldRaiseInitialEvent(e, e.online) <=> ShouldRaiseInitialEvent(c, c.online))
    BY <1>1, <2>3 DEF EventOf, ShouldRaiseInitialEvent
  <2>5. Shown(e) /\ e.view.on
    BY <1>1, <1>2, <2>3, <2>4 DEF Shown
  <2>6. Shown(d)
    BY <2>2, <2>3, <2>5, ApplyChangesShown DEF Shown
  <2> DEFINE f == ViewSet(e, Settled(e.view))
             ls == Called(f, Listeners, FALSE)
  <2>7. Settled(e.view) \in Views /\ Settled(e.view).document = v.document
        /\ Settled(e.view).sync = "Local"
    BY <1>1, <2>3, SettledFields
  <2>8. /\ f \in WideClients /\ f.view = Settled(e.view) /\ f.online = c.online
        /\ f.shown = c.shown /\ f.newest = c.newest
    BY <2>3, <2>7, ViewSetEffect DEF SameShown
  <2>9. d \in WideClients /\ d = ChangesShown(f, e.view, FALSE)
    BY <2>2, <2>3, ApplyChangesEffect
  <2> HIDE DEF f
  <2>10. \A l : l \notin ls
    <3>1. \A l : l \in ls => /\ l \in Listeners /\ ShouldRaiseInitialEvent(f, f.online)
                             /\ f.shown[l].kind = "nothing"
      BY CalledAre
    <3>2. ShouldRaiseInitialEvent(f, f.online) => ShouldRaiseInitialEvent(c, c.online)
      BY <1>1, <2>7, <2>8 DEF ShouldRaiseInitialEvent
    <3> QED BY <2>8, <3>1, <3>2 DEF Shown
  <2> HIDE DEF ls
  <2>11. d = f \/ d = Raise(f, ls)
    BY <2>9 DEF ChangesShown, ls
  <2>12. SameShown(f, d)
    <3>1. CASE d = f
      BY <3>1 DEF SameShown
    <3>2. CASE d = Raise(f, ls)
      <4>1. Calls(f, d, ls) /\ ls \subseteq Listeners /\ ls \cap Listeners = {}
        BY <2>8, <2>10, <3>2, RaiseCalls
      <4> QED BY <2>8, <2>9, <4>1, NobodyCalled
    <3> QED BY <2>11, <3>1, <3>2
  <2> QED BY <2>6, <2>8, <2>12 DEF SameShown
<1>3. CASE ~(online = "Offline" /\ c.online # online /\ c.view.on /\ c.view.current)
  BY <1>3 DEF OfflineFirst, SameShown
<1> QED BY <1>2, <1>3

\* A new state of the connection.
LEMMA UpdateStateShown ==
    ASSUME NEW c \in WideClients, Shown(c), NEW online \in {"Unknown", "Online", "Offline"},
           NEW d, d = UpdateState(c, online)
    PROVE  Shown(d) /\ Shows(c, d) /\ (online = "Online" => SameShown(c, d))
<1> DEFINE f == OfflineFirst(c, online)
           e == StateSet(c, online)
           ls == Unraised(e)
<1>1. f \in WideClients /\ f.online = c.online /\ Shown(f) /\ SameShown(c, f)
  BY OfflineFirstEffect, OfflineFirstQuiet
<1>2. e \in WideClients /\ SameShown(f, e) /\ e.online = online /\ e.view = f.view
  BY StateSetEffect
<1>3. /\ d \in WideClients /\ d.online = online /\ d.view = f.view
      /\ d = IF c.online # online /\ e.view.on /\ ShouldRaiseInitialEvent(e, online)
               THEN Raise(e, ls) ELSE e
  BY UpdateStateEffect DEF ls
<1>4. online = "Online" => f = c
  BY DEF OfflineFirst
<1>5. \A l : l \in ls <=> l \in Listeners /\ c.shown[l].kind = "nothing"
  BY <1>1, <1>2 DEF SameShown, Unraised
<1>6. ls \subseteq Listeners
  BY <1>5
<1> HIDE DEF f, e, ls
<1>7. EventOf(d) = EventOf(f)
      /\ (ShouldRaiseInitialEvent(d, d.online) <=> ShouldRaiseInitialEvent(e, online))
  BY <1>2, <1>3 DEF EventOf, ShouldRaiseInitialEvent
<1>8. \A l \in Listeners :
         /\ c.shown[l].kind \in {"missing", "version"} => d.view.on /\ c.shown[l] = EventOf(d)
         /\ c.shown[l].kind = "nothing" =>
               d.view.on /\ ~ShouldRaiseInitialEvent(f, f.online)
         /\ c.shown[l].kind = "version" => c.shown[l].is <= c.newest
  BY <1>1, <1>3, <1>7 DEF Shown, SameShown
<1>9. CASE c.online # online /\ e.view.on /\ ShouldRaiseInitialEvent(e, online)
  <2>1. d = Raise(e, ls)
    BY <1>3, <1>9
  <2>2. Calls(c, d, ls)
    <3>1. Calls(e, d, ls)
      BY <1>2, <2>1, RaiseCalls
    <3> QED BY <1>1, <1>2, <3>1 DEF Calls, SameShown
  <2>3. Shows(c, d)
    BY <1>3, <1>5, <1>6, <1>7, <1>9, <2>2, CallsShow
  <2>4. ASSUME NEW l \in Listeners
        PROVE  /\ d.shown[l].kind \in {"missing", "version"} => d.shown[l] = EventOf(d)
               /\ d.shown[l].kind # "nothing"
               /\ d.shown[l].kind = "version" => d.shown[l].is <= d.newest
    <3>1. CASE l \in ls
      <4>1. d.shown[l] = EventOf(d)
        BY <2>2, <3>1 DEF Calls
      <4>2. d.view.document <= d.newest
        BY <1>3, <2>2, <3>1, ClientFields, ViewFields DEF Calls
      <4> QED BY <4>1, <4>2, EventKinds
    <3>2. CASE l \notin ls
      <4>1. d.shown[l] = c.shown[l]
        BY <2>2, <3>2 DEF Calls
      <4>2. c.newest <= d.newest
        BY <1>3, <2>2, ClientFields, ViewFields DEF Calls
      <4>3. d.shown[l].kind = "version" => d.shown[l].is <= d.newest
        <5>1. SUFFICES ASSUME d.shown[l].kind = "version" PROVE d.shown[l].is <= d.newest
          OBVIOUS
        <5>2. d.shown[l].is \in Nat /\ d.newest \in Nat /\ c.newest \in Nat
          BY <1>3, <5>1, ClientFields DEF Events
        <5> QED BY <1>8, <4>1, <4>2, <5>1, <5>2
      <4> QED BY <1>5, <1>8, <3>2, <4>1, <4>3
    <3> QED BY <3>1, <3>2
  <2>5. Shown(d)
    BY <1>2, <1>3, <1>9, <2>4 DEF Shown
  <2>6. online = "Online" => SameShown(c, d)
    <3>1. SUFFICES ASSUME online = "Online" PROVE SameShown(c, d)
      OBVIOUS
    <3>2. f = c
      BY <1>4, <3>1
    <3>3. ShouldRaiseInitialEvent(c, c.online)
      BY <1>2, <1>9, <3>1, <3>2 DEF ShouldRaiseInitialEvent
    <3>4. \A l \in ls : FALSE
      BY <1>5, <3>3 DEF Shown
    <3>5. ls \cap Listeners = {}
      BY <3>4
    <3> QED BY <1>3, <1>6, <2>2, <3>5, NobodyCalled
  <2> QED BY <2>3, <2>5, <2>6
<1>10. CASE ~(c.online # online /\ e.view.on /\ ShouldRaiseInitialEvent(e, online))
  <2>1. d = e
    BY <1>3, <1>10
  <2>2. SameShown(c, d)
    BY <1>1, <1>2, <2>1 DEF SameShown
  <2>3. Shows(c, d)
    BY <2>2 DEF Shows, SameShown
  <2>4. ASSUME NEW l \in Listeners, c.shown[l].kind = "nothing"
        PROVE  ~ShouldRaiseInitialEvent(d, d.online)
    <3>1. CASE c.online = online
      BY <1>1, <1>2, <1>8, <2>1, <2>4, <3>1 DEF ShouldRaiseInitialEvent
    <3>2. CASE c.online # online
      BY <1>2, <1>7, <1>8, <1>10, <2>1, <2>4, <3>2
    <3> QED BY <3>1, <3>2
  <2>5. Shown(d)
    BY <1>8, <2>2, <2>4 DEF Shown, SameShown
  <2> QED BY <2>2, <2>3, <2>5
<1> QED BY <1>9, <1>10

-----------------------------------------------------------------------------
(* The stream and the app *)

\* A client that differs in what it shows only.
LEMMA TargetsOf ==
    ASSUME NEW c, NEW d, SameStream(c, d), SameLimbo(c, d), d.view.on = c.view.on,
           d.view.synced = c.view.synced
    PROVE  SameTargets(c, d) /\ d.requests = c.requests
BY DEF SameTargets, SameStream, SameLimbo

\* The targets of such a client are told what they were.
LEMMA ToldSame ==
    ASSUME NEW h, Len(h) \in Nat, NEW c, NEW d, NEW q, NEW s, SameTargets(c, d),
           d.requests = c.requests, Told(h, c, q, s)
    PROVE  Told(h, d, q, s) /\ (Backs(h, c, q, s) => Backs(h, d, q, s))
<1>1. \A t : Wants(d, t) <=> Wants(c, t)
  BY DEF Wants, Asks, SameTargets
<1>2. ASSUME NEW t, NEW ks, Line(h, c, q, s, t, ks) PROVE Line(h, d, q, s, t, ks)
  BY <1>1, <1>2, LineClient
<1>3. Continues(h, c, q, s, h, d, q, s)
  BY <1>2 DEF Continues
<1>4. \A t \in c.listens : Wants(d, t) /\ s[t].phase = "none" => Tells(q, "rejected", t)
  BY <1>1 DEF Told, TargetTold, TargetHolds
<1>5. Grown(h, h)
  BY GrownSame
<1>6. Told(h, d, q, s)
  BY <1>3, <1>4, <1>5, ToldKept
<1> QED BY <1>3, <1>6, BacksKept

\* A new state of the connection leaves what is kept, and the listeners see the view.
LEMMA UpdateStateFaithful ==
    ASSUME NEW h, NEW c \in WideClients, Faithful(h, c),
           NEW online \in {"Unknown", "Online", "Offline"}, NEW d, d = UpdateState(c, online)
    PROVE  /\ Faithful(h, d) /\ Shows(c, d) /\ d \in WideClients
           /\ SameStream(c, d) /\ SameStore(c, d) /\ SameLimbo(c, d)
           /\ d.view.on = c.view.on /\ d.view.synced = c.view.synced
           /\ online = "Online" => SameShown(c, d) /\ d.view = c.view
<1> DEFINE f == OfflineFirst(c, online)
           w == [c.view EXCEPT !.current = FALSE]
<1>1. /\ d \in WideClients /\ SameStream(c, d) /\ SameStore(c, d) /\ SameLimbo(c, d)
      /\ d.view = f.view
  BY UpdateStateEffect
<1>2. /\ f.view.on = c.view.on /\ f.view.synced = c.view.synced
      /\ f.view.document = c.view.document
      /\ f.view = IF online = "Offline" /\ c.online # online /\ c.view.on /\ c.view.current
                    THEN Settled(w) ELSE c.view
  BY OfflineFirstEffect
<1>3. w \in Views /\ w.current = FALSE /\ w.limbo = c.view.limbo
  BY ClientFields DEF Views
<1>4. Settled(w).current = FALSE /\ Settled(w).sync = "Local"
  BY <1>3, SettledFields
<1> HIDE DEF f, w
<1>5. Shown(d) /\ Shows(c, d) /\ (online = "Online" => SameShown(c, d))
  BY UpdateStateShown DEF Faithful
<1>6. Truth(h, d)
  BY <1>1 DEF Faithful, Truth, SameStream, SameStore
<1>7. Kept(h, d)
  <2>1. Kept(h, c)
    BY DEF Faithful
  <2>2. CASE d.view = c.view
    BY <1>1, <2>1, <2>2 DEF Kept, KeptOnDisk, KeptInView, SameStream, SameStore
  <2>3. CASE d.view = Settled(w) /\ c.view.on
    <3>1. /\ d.view.on = c.view.on /\ d.view.synced = c.view.synced
          /\ d.view.document = c.view.document
      BY <1>1, <1>2
    <3> QED BY <1>1, <1>4, <2>1, <2>3, <3>1
            DEF Kept, KeptOnDisk, KeptInView, SameStream, SameStore
  <2> QED BY <1>1, <1>2, <2>2, <2>3
<1> QED BY <1>1, <1>2, <1>5, <1>6, <1>7 DEF Faithful

\* A document that is shown is on disk.
LEMMA UpwardShown ==
    ASSUME NEW h, NEW c \in WideClients, NEW d \in WideClients, Upward(h, c), d.disk = c.disk,
           Kept(h, d), Shown(d), Shows(c, d)
    PROVE  Upward(h, d)
<1>1. CASE d.newest = c.newest
  BY <1>1 DEF Upward
<1>2. CASE d.newest # c.newest
  <2>1. PICK l \in Listeners : d.shown[l] = [kind |-> "version", is |-> d.newest]
    BY <1>2 DEF Shows
  <2>2. d.view.on /\ d.shown[l] = EventOf(d)
    BY <2>1 DEF Shown
  <2>3. d.view.document = d.newest /\ d.newest # 0
    BY <2>1, <2>2, EventKinds
  <2>4. d.disk.document.exists /\ d.disk.document.version = d.newest
    BY <2>2, <2>3 DEF Kept, KeptInView, DocumentClaim
  <2>5. d.newest <= d.disk.version
    BY <2>4 DEF Upward
  <2>6. d.newest <= d.newest
    BY ClientFields
  <2> QED BY <2>4, <2>5, <2>6 DEF Upward
<1> QED BY <1>1, <1>2

\* The tracker changes its mind.
LEMMA OnlineStateChangesHolds ==
    ASSUME DInv, NEW online \in {"Unknown", "Offline"}, OnlineStateChanges(online)
    PROVE  DInv' /\ Shows(client, client')
<1> DEFINE c == client
           d == client'
           h == history
           s == server.sessions
<1>1. /\ d = UpdateState(c, online) /\ history' = history /\ server' = server /\ queue' = queue
      /\ retracted' = retracted
  BY DEF OnlineStateChanges
<1>2. IInv /\ IInv'
  BY OnlineStateChangesKeeps DEF DInv
<1>3. /\ c \in WideClients /\ Len(h) \in Nat /\ online \in {"Unknown", "Online", "Offline"}
  BY <1>2, HistoryFields DEF IInv, Sound
<1>4. /\ Faithful(h, d) /\ Shows(c, d) /\ d \in WideClients
      /\ SameStream(c, d) /\ SameStore(c, d) /\ SameLimbo(c, d)
      /\ d.view.on = c.view.on /\ d.view.synced = c.view.synced
  BY <1>1, <1>3, UpdateStateFaithful DEF DInv
<1> HIDE DEF c, d, h, s
<1>5. SameTargets(c, d) /\ d.requests = c.requests
  BY <1>4, TargetsOf
<1>6. Told(h, c, queue, s) /\ (c.open \/ c.updates = {})
      /\ (~retracted => Unbroken(h, c, queue, s))
  BY DEF DInv, c, h, s
<1>7. Told(h, d, queue, s) /\ (Backs(h, c, queue, s) => Backs(h, d, queue, s))
  BY <1>3, <1>5, <1>6, ToldSame
<1>8. d.open \/ d.updates = {}
  BY <1>5, <1>6 DEF SameTargets
<1>9. ~retracted => Unbroken(h, d, queue, s)
  <2>1. SUFFICES ASSUME ~retracted PROVE Unbroken(h, d, queue, s)
    OBVIOUS
  <2>2. Unbroken(h, c, queue, s)
    BY <1>6, <2>1
  <2>3. Undisturbed(d, queue)
    BY <1>5, <2>2 DEF Unbroken, Undisturbed, SameTargets
  <2>4. Resumable(h, d)
    BY <1>4, <2>2 DEF Unbroken, Resumable, Latest, SameStore
  <2>5. Upward(h, d)
    BY <1>3, <1>4, <2>2, UpwardShown DEF Unbroken, Faithful, SameStore
  <2> QED BY <1>7, <2>2, <2>3, <2>4, <2>5 DEF Unbroken
<1>10. Heard(h, queue) /\ SentKnown(h, s)
  BY DEF DInv, h, s
<1> QED BY <1>1, <1>2, <1>4, <1>7, <1>8, <1>9, <1>10 DEF DInv, c, d, h, s

\* A target of which nothing changes.
LEMMA TargetStays ==
    ASSUME NEW h, NEW c, NEW d, NEW q, NEW s, NEW t, TargetTold(h, c, q, s, t),
           Wants(d, t) => Wants(c, t), d.tokens[t] = c.tokens[t], d.states[t] = c.states[t],
           TargetContainsDocument(d, t) <=> TargetContainsDocument(c, t),
           d.updates = c.updates,
           \A r \in d.requests : r.kind = "watch" /\ r.target = t => r \in c.requests
    PROVE  TargetTold(h, d, q, s, t)
<1>1. Line(h, d, q, s, t, Fits(d.states[t].change, Claim(h, d.tokens[t])))
  BY LineClient DEF TargetTold
<1>2. TargetHolds(h, d, q, s, t)
  BY DEF TargetTold, TargetHolds
<1> QED BY <1>1, <1>2 DEF TargetTold

\* A target the server was not asked for, or of which it has not heard.
LEMMA TargetUnwanted ==
    ASSUME NEW h, NEW d, NEW q, NEW s, NEW t, ~Wants(d, t), d.tokens[t] \in 0..Len(h),
           TargetContainsDocument(d, t) <=> Had(h, d.tokens[t]),
           \A r \in d.requests : r.kind = "watch" /\ r.target = t => r.token = d.tokens[t],
           d.states[t].change = "none"
    PROVE  TargetTold(h, d, q, s, t)
<1>1. Line(h, d, q, s, t, Fits(d.states[t].change, Claim(h, d.tokens[t])))
  BY LineNone
<1>2. TargetHolds(h, d, q, s, t)
  BY DEF TargetHolds
<1> QED BY <1>1, <1>2 DEF TargetTold

\* A new target is listened to, from the token it has the document at.
LEMMA ListenTold ==
    ASSUME NEW h, NEW c \in WideClients, NEW q, NEW s, Told(h, c, q, s),
           NEW t \in Targets \ c.listens, ~Asks(c, "watch", t), c.states[t].change = "none",
           NEW token \in 0..MaxVersion, token \in 0..Len(h),
           TargetContainsDocument(c, t) <=> Had(h, token), NEW d, d = Listen(c, t, token)
    PROVE  Told(h, d, q, s) /\ (Backs(h, c, q, s) => Backs(h, d, q, s))
<1> DEFINE r0 == Request("watch", t, token)
<1>1. /\ SameApp(c, d) /\ SameLimbo(c, d) /\ d.open = c.open /\ d.updates = c.updates
      /\ d.listens = c.listens \cup {t}
      /\ d.tokens = Replaced(c.tokens, t, token)
      /\ c.open => /\ d.requests = c.requests \cup {r0}
                   /\ d.states = Owing(c.states, t)
      /\ ~c.open => d.requests = c.requests /\ d.states = c.states
  BY ListenEffect
<1>2. r0.kind = "watch" /\ r0.target = t /\ r0.token = token
  BY DEF Request
<1>3. c.listens \in SUBSET Targets /\ c.states \in [Targets -> WideTargetStates]
      /\ c.tokens \in [Targets -> 0..MaxVersion]
  BY ClientFields
<1> HIDE DEF r0
<1>4. \A u \in Targets : TargetContainsDocument(d, u) <=> TargetContainsDocument(c, u)
  BY <1>1 DEF TargetContainsDocument, SameApp, SameLimbo
<1>5. ASSUME NEW u \in Targets
      PROVE  /\ u # t => d.tokens[u] = c.tokens[u] /\ d.states[u] = c.states[u]
             /\ d.tokens[t] = token
             /\ d.states[t].change = "none"
  <2>1. (u # t => d.tokens[u] = c.tokens[u]) /\ d.tokens[t] = token
    BY <1>1, <1>3 DEF Replaced
  <2>2. CASE c.open
    <3>1. (u # t => d.states[u] = c.states[u]) /\ d.states[t].change = c.states[t].change
      BY <1>1, <1>3, <2>2, SMTT(40) DEF Owing, WideTargetStates
    <3> QED BY <2>1, <3>1
  <2>3. CASE ~c.open
    BY <1>1, <2>1, <2>3
  <2> QED BY <2>2, <2>3
<1>6. \A r \in d.requests : r \in c.requests \/ r = r0
  BY <1>1
<1>7. \A u \in c.listens : Wants(d, u) => Wants(c, u)
  <2>1. \A r \in c.requests : r \in d.requests
    BY <1>1
  <2> QED BY <1>1, <2>1 DEF Wants, Asks
<1>8. ~Wants(d, t)
  <2>1. c.open => r0 \in d.requests
    BY <1>1
  <2> QED BY <1>1, <1>2, <2>1 DEF Wants, Asks
<1>9. TargetTold(h, d, q, s, t)
  <2>1. \A r \in d.requests : r.kind = "watch" /\ r.target = t => r.token = d.tokens[t]
    BY <1>2, <1>5, <1>6 DEF Asks
  <2> QED BY <1>4, <1>5, <1>8, <2>1, TargetUnwanted
<1>10. ASSUME NEW u \in c.listens PROVE TargetTold(h, d, q, s, u)
  <2>1. TargetTold(h, c, q, s, u) /\ u \in Targets /\ u # t
    BY <1>3 DEF Told
  <2>2. \A r \in d.requests : r.kind = "watch" /\ r.target = u => r \in c.requests
    BY <1>2, <1>6, <2>1
  <2> QED BY <1>1, <1>4, <1>5, <1>7, <2>1, <2>2, TargetStays
<1>11. Told(h, d, q, s)
  BY <1>1, <1>9, <1>10 DEF Told
<1>12. ASSUME Backs(h, c, q, s) PROVE Backs(h, d, q, s)
  <2>1. SUFFICES ASSUME NEW m \in c.updates PROVE Backed(h, d, q, s, m)
    BY <1>1 DEF Backs
  <2>2. PICK u \in c.listens : c.states[u].pending = 0 /\ Line(h, c, q, s, u, {DocumentClaim(m)})
    BY <1>12 DEF Backs, Backed
  <2>3. u \in Targets /\ u # t
    BY <1>3
  <2>4. d.states[u] = c.states[u]
    BY <1>5, <2>3
  <2>5. Line(h, d, q, s, u, {DocumentClaim(m)})
    BY <1>7, <2>2, LineClient
  <2> QED BY <1>1, <2>2, <2>4, <2>5 DEF Backed
<1> QED BY <1>11, <1>12

\* Nothing is on its way in an empty queue.
LEMMA NothingHeard ==
    ASSUME NEW h, NEW c
    PROVE  Heard(h, <<>>) /\ Undisturbed(c, <<>>) /\ SentKnown(h, NoSessions)
<1>1. \A i \in DOMAIN <<>> : FALSE
  OBVIOUS
<1>2. \A t \in Targets : NoSessions[t].phase = "none"
  BY DEF NoSessions, NoSession
<1> QED BY <1>1, <1>2 DEF Heard, Undisturbed, SentKnown

\* Where nothing is shown, nothing is shown anew.
LEMMA ShowsSame == ASSUME NEW c, NEW d, SameShown(c, d) PROVE Shows(c, d)
BY DEF Shows, SameShown

\* What was shown is shown still when the app sees the same,
LEMMA ShowsTo ==
    ASSUME NEW c, NEW d, NEW e, Shows(c, d), SameApp(d, e)
    PROVE  Shows(c, e)
BY DEF Shows, ShownAnew, SameApp, SameShown, EventOf

\* and when the app had been shown the same.
LEMMA ShowsFrom ==
    ASSUME NEW c, NEW d, NEW e, Shows(c, e), SameShown(c, d)
    PROVE  Shows(d, e)
BY DEF Shows, ShownAnew, SameShown

\* The stream opens.
LEMMA StreamOpensHolds ==
    ASSUME DInv, NEW at \in 1..Len(history), StreamOpens(at)
    PROVE  DInv' /\ Shows(client, client')
<1> DEFINE c == client
           d == Opened(client)
           h == history
           s == server.sessions
<1>1. /\ ~c.open /\ client' = d /\ server' = NoServer(at)
      /\ history' = history /\ queue' = queue /\ retracted' = retracted
  BY DEF StreamOpens, Opened, Watched, Request, OpenStates
<1>2. IInv /\ IInv'
  BY StreamOpensKeeps DEF DInv
<1>3. at \in 1..MaxVersion
  BY <1>2, WatchAssumption DEF IInv, Network
<1>4. server'.sessions = NoSessions
  BY <1>1, <1>3, NoServerFields
<1>5. Sound(c, queue, s)
  BY <1>2 DEF IInv
<1>6. queue = <<>> /\ c \in WideClients
  BY <1>1, <1>5 DEF Sound, Protocol, WhenClosed
<1>7. /\ d \in WideClients /\ SameApp(c, d) /\ SameLimbo(c, d)
      /\ d.listens = c.listens /\ d.tokens = c.tokens /\ d.updates = c.updates
      /\ d.open = TRUE /\ d.requests = Watched(c) /\ d.states = OpenStates(c)
  BY <1>6, OpenedEffect
<1>8. /\ Told(h, c, queue, s) /\ Faithful(h, c) /\ c.updates = {}
      /\ (~retracted => Unbroken(h, c, queue, s))
  BY <1>1 DEF DInv
<1> HIDE DEF c, d, h, s
<1>9. Told(h, d, queue, NoSessions)
  <2>1. SUFFICES ASSUME NEW t \in c.listens PROVE TargetTold(h, d, queue, NoSessions, t)
    BY <1>7 DEF Told
  <2>2. t \in Targets
    BY <1>6, ClientFields
  <2>3. \A r \in d.requests : \E u \in c.listens : r = Request("watch", u, c.tokens[u])
    BY <1>7 DEF Watched
  <2>4. \A r \in d.requests : r.kind = "watch" /\ r.target = t => r.token = d.tokens[t]
    BY <1>7, <2>3 DEF Request
  <2>5. ~Wants(d, t)
    <3>1. Request("watch", t, c.tokens[t]) \in d.requests
      BY <1>7 DEF Watched
    <3> QED BY <3>1 DEF Wants, Asks, Request
  <2>6. d.states[t].change = "none"
    BY <1>7, <2>2 DEF OpenStates, FreshTarget
  <2>7. d.tokens[t] \in 0..Len(h) /\ (TargetContainsDocument(c, t) <=> Had(h, d.tokens[t]))
    BY <1>7, <1>8 DEF Told, TargetTold, TargetHolds
  <2>8. TargetContainsDocument(d, t) <=> TargetContainsDocument(c, t)
    BY <1>7 DEF TargetContainsDocument, SameApp, SameLimbo
  <2> QED BY <2>4, <2>5, <2>6, <2>7, <2>8, TargetUnwanted
<1>10. Faithful(h, d)
  BY <1>7, <1>8, FaithfulSame
<1>11. ~retracted => Unbroken(h, d, queue, NoSessions)
  <2>1. SUFFICES ASSUME ~retracted PROVE Unbroken(h, d, queue, NoSessions)
    OBVIOUS
  <2>2. Unbroken(h, c, queue, s)
    BY <1>8, <2>1
  <2>3. Backs(h, d, queue, NoSessions)
    BY <1>7, <1>8 DEF Backs
  <2>4. Resumable(h, d) /\ Upward(h, d)
    BY <1>7, <2>2 DEF Unbroken, Resumable, Upward, Latest, SameApp, SameStore, SameShown
  <2> QED BY <1>6, <2>3, <2>4, NothingHeard DEF Unbroken
<1>12. Heard(h, queue) /\ SentKnown(h, NoSessions)
  BY <1>6, NothingHeard
<1>13. Shows(c, d)
  BY <1>7, ShowsSame DEF SameApp
<1> QED BY <1>1, <1>2, <1>4, <1>7, <1>9, <1>10, <1>11, <1>12, <1>13 DEF DInv, c, h

\* The stream is lost.
LEMMA StreamClosesHolds ==
    ASSUME DInv, NEW online \in {"Unknown", "Offline"}, StreamCloses(online)
    PROVE  DInv' /\ Shows(client, client')
<1> DEFINE c == client
           d == Closed(client)
           e == UpdateState(d, online)
           h == history
           s == server.sessions
<1>1. /\ client' = e /\ server' = NoServer(1) /\ queue' = <<>>
      /\ history' = history /\ retracted' = retracted
  BY DEF StreamCloses, Closed, FreshStates
<1>2. IInv /\ IInv'
  BY StreamClosesKeeps DEF DInv
<1>3. server'.sessions = NoSessions
  <2>1. 1 \in 1..MaxVersion
    BY WatchAssumption
  <2> QED BY <1>1, <2>1, NoServerFields
<1>4. c \in WideClients /\ Len(h) \in Nat /\ online \in {"Unknown", "Online", "Offline"}
  BY <1>2, HistoryFields DEF IInv, Sound
<1>5. /\ d \in WideClients /\ SameApp(c, d) /\ SameLimbo(c, d)
      /\ d.listens = c.listens /\ d.tokens = c.tokens /\ d.updates = {}
      /\ d.open = FALSE /\ d.requests = {} /\ d.states = FreshStates
  BY <1>4, ClosedEffect
<1>6. /\ Told(h, c, queue, s) /\ Faithful(h, c)
      /\ (~retracted => Unbroken(h, c, queue, s))
  BY DEF DInv
<1> HIDE DEF d
<1>7. e = UpdateState(d, online)
  OBVIOUS
<1> HIDE DEF c, h, s, e
<1>8. Told(h, d, <<>>, NoSessions)
  <2>1. SUFFICES ASSUME NEW t \in c.listens PROVE TargetTold(h, d, <<>>, NoSessions, t)
    BY <1>5 DEF Told
  <2>2. t \in Targets
    BY <1>4, ClientFields
  <2>3. ~Wants(d, t)
    BY <1>5 DEF Wants
  <2>4. d.states[t].change = "none"
    BY <1>5, <2>2 DEF FreshStates, FreshTarget
  <2>5. d.tokens[t] \in 0..Len(h) /\ (TargetContainsDocument(c, t) <=> Had(h, d.tokens[t]))
    BY <1>5, <1>6 DEF Told, TargetTold, TargetHolds
  <2>6. TargetContainsDocument(d, t) <=> TargetContainsDocument(c, t)
    BY <1>5 DEF TargetContainsDocument, SameApp, SameLimbo
  <2>7. \A r \in d.requests : r.token = d.tokens[t]
    BY <1>5
  <2> QED BY <2>3, <2>4, <2>5, <2>6, <2>7, TargetUnwanted
<1>9. Faithful(h, d)
  <2>1. Truth(h, d)
    BY <1>5, <1>6 DEF Faithful, Truth, SameApp, SameStore
  <2>2. Kept(h, d)
    BY <1>5, <1>6 DEF Faithful, Kept, KeptOnDisk, KeptInView, SameApp, SameStore
  <2>3. Shown(d)
    BY <1>5, <1>6 DEF Faithful, Shown, SameApp, SameShown, EventOf, ShouldRaiseInitialEvent
  <2> QED BY <2>1, <2>2, <2>3 DEF Faithful
<1>10. /\ Faithful(h, e) /\ Shows(d, e) /\ e \in WideClients
       /\ SameStream(d, e) /\ SameStore(d, e) /\ SameLimbo(d, e)
       /\ e.view.on = d.view.on /\ e.view.synced = d.view.synced
  <2>1. d \in WideClients
    BY <1>5
  <2>2. online \in {"Unknown", "Online", "Offline"}
    BY <1>4
  <2> QED BY <1>7, <1>9, <2>1, <2>2, UpdateStateFaithful
<1>11. SameTargets(d, e) /\ e.requests = d.requests
  BY <1>10, TargetsOf
<1>12. Told(h, e, <<>>, NoSessions)
  BY <1>4, <1>8, <1>11, ToldSame
<1>13. ~e.open /\ e.updates = {}
  BY <1>5, <1>11 DEF SameTargets
<1>14. ~retracted => Unbroken(h, e, <<>>, NoSessions)
  <2>1. SUFFICES ASSUME ~retracted PROVE Unbroken(h, e, <<>>, NoSessions)
    OBVIOUS
  <2>2. Resumable(h, c) /\ Upward(h, c)
    BY <1>6, <2>1 DEF Unbroken
  <2>3. Resumable(h, d) /\ Upward(h, d)
    BY <1>5, <2>2 DEF Resumable, Upward, Latest, SameApp, SameStore, SameShown
  <2>4. Resumable(h, e)
    BY <1>10, <2>3 DEF Resumable, Latest, SameStore
  <2>5. Upward(h, e)
    BY <1>5, <1>10, <2>3, UpwardShown DEF Faithful, SameStore
  <2>6. Backs(h, e, <<>>, NoSessions)
    BY <1>13 DEF Backs
  <2> QED BY <2>4, <2>5, <2>6, NothingHeard DEF Unbroken
<1>15. Heard(h, <<>>) /\ SentKnown(h, NoSessions)
  BY NothingHeard
<1>16. Shows(c, e)
  BY <1>5, <1>10 DEF SameApp, SameShown, Shows, ShownAnew
<1> QED BY <1>1, <1>2, <1>3, <1>10, <1>12, <1>13, <1>14, <1>15, <1>16 DEF DInv, c, h

\* What is on disk is as it was on the server, at the versions it tells.
DiskTrue(h, k) ==
    /\ TrueIn(h, k.document)
    /\ k.keys <=> Had(h, k.token)
    /\ k.token <= k.version /\ k.version <= Len(h)

\* The app starts, with what is on disk.
LEMMA StartedHolds ==
    ASSUME NEW h, NEW k \in Disks, NEW n \in 0..MaxVersion, DiskTrue(h, k),
           NEW d, d = Started(k, n)
    PROVE  /\ Told(h, d, <<>>, NoSessions) /\ Faithful(h, d) /\ ~d.open
           /\ Heard(h, <<>>) /\ SentKnown(h, NoSessions)
           /\ d.disk = k /\ d.newest = n /\ ~d.view.on /\ d.updates = {}
           /\ Backs(h, d, <<>>, NoSessions) /\ Undisturbed(d, <<>>)
<1>1. /\ d.open = FALSE /\ d.listens = {} /\ d.updates = {} /\ d.disk = k /\ d.newest = n
      /\ d.view = NoView
      /\ \A l \in Listeners : d.shown[l].kind = "idle"
  BY DEF Started, NoView
<1>2. NoView.on = FALSE /\ NoView.sync = "None"
  BY DEF NoView
<1>3. Told(h, d, <<>>, NoSessions)
  BY <1>1 DEF Told
<1>4. Truth(h, d)
  BY <1>1 DEF Truth, DiskTrue
<1>5. Kept(h, d)
  BY <1>1, <1>2 DEF Kept, KeptOnDisk, DiskTrue
<1>6. Shown(d)
  BY <1>1 DEF Shown
<1>7. Backs(h, d, <<>>, NoSessions)
  BY <1>1 DEF Backs
<1> QED BY <1>1, <1>2, <1>3, <1>4, <1>5, <1>6, <1>7, NothingHeard DEF Faithful

\* The app is started again.
LEMMA RestartHolds ==
    ASSUME DInv, Restart
    PROVE  DInv'
<1> DEFINE k == client.disk
           n == client.newest
           c == client
           h == history
           d == Started(k, n)
<1>1. /\ client' = d /\ server' = NoServer(1) /\ queue' = <<>>
      /\ history' = history /\ retracted' = retracted
  BY DEF Restart
<1>2. IInv /\ IInv'
  BY RestartKeeps DEF DInv
<1>3. server'.sessions = NoSessions
  <2>1. 1 \in 1..MaxVersion
    BY WatchAssumption
  <2> QED BY <1>1, <2>1, NoServerFields
<1>4. c \in WideClients /\ k \in Disks /\ n \in 0..MaxVersion
  BY <1>2, ClientFields DEF IInv, Sound
<1>5. Faithful(h, c) /\ (~retracted => Resumable(h, c) /\ Upward(h, c))
  BY DEF DInv, Unbroken
<1>6. DiskTrue(h, k) /\ (c.view.on => k.token <= c.token)
  BY <1>5 DEF Faithful, Truth, Kept, KeptOnDisk, KeptInView, DiskTrue
<1>7. d = Started(k, n) /\ k = c.disk /\ n = c.newest
  OBVIOUS
<1> HIDE DEF k, n, c, h, d
<1>8. /\ Told(h, d, <<>>, NoSessions) /\ Faithful(h, d) /\ ~d.open
      /\ Heard(h, <<>>) /\ SentKnown(h, NoSessions)
      /\ d.disk = k /\ d.newest = n /\ ~d.view.on /\ d.updates = {}
      /\ Backs(h, d, <<>>, NoSessions) /\ Undisturbed(d, <<>>)
  BY <1>4, <1>6, <1>7, StartedHolds
<1>9. ASSUME ~retracted PROVE Resumable(h, d) /\ Upward(h, d)
  <2>1. Resumable(h, c) /\ Upward(h, c)
    BY <1>5, <1>9
  <2>2. Upward(h, d)
    BY <1>7, <1>8, <2>1 DEF Upward
  <2>3. Resumable(h, d)
    <3>1. SUFFICES ASSUME k.keys PROVE \E v \in DOMAIN h : v >= k.token /\ IsAt(h, k.document, v)
      BY <1>8 DEF Resumable, Latest
    <3>2. PICK v \in DOMAIN h : v >= Latest(c) /\ IsAt(h, k.document, v)
      BY <1>7, <2>1, <3>1 DEF Resumable
    <3>3. v \in Nat
      <4>1. h \in Seq(BOOLEAN)
        BY <1>2 DEF IInv, Network, h
      <4> QED BY <4>1, LenProperties
    <3>4. Latest(c) \in Nat /\ k.token \in Nat /\ Latest(c) >= k.token
      BY <1>4, <1>6, <1>7, ClientFields, DiskFields DEF Latest
    <3> QED BY <3>2, <3>3, <3>4
  <2> QED BY <2>2, <2>3
<1> QED BY <1>1, <1>2, <1>3, <1>8, <1>9 DEF DInv, Unbroken, h

\* What the system starts with.
LEMMA InitTold == Init => DInv
<1> SUFFICES ASSUME Init PROVE DInv
  OBVIOUS
<1> DEFINE k == [document |-> NoneVersion, keys |-> FALSE, token |-> 0, version |-> 0]
           n == 0
           h == history
           d == Started(k, n)
<1>1. /\ client = d /\ server = NoServer(1) /\ queue = <<>> /\ retracted = FALSE
  BY DEF Init
<1>2. IInv
  BY InitHolds
<1>3. server.sessions = NoSessions
  <2>1. 1 \in 1..MaxVersion
    BY WatchAssumption
  <2> QED BY <1>1, <2>1, NoServerFields
<1>4. k \in Disks /\ n \in 0..MaxVersion
  BY WatchAssumption, NoneIsDocument DEF Disks
<1>5. k.document = NoneVersion /\ k.keys = FALSE /\ k.token = 0 /\ k.version = 0 /\ n = 0
  OBVIOUS
<1>6. NoneVersion.exists = FALSE /\ NoneVersion.version = 0
  BY DEF NoneVersion, MaybeDocument
<1>7. Len(h) \in Nat
  BY <1>2, HistoryFields DEF IInv
<1>8. TrueIn(h, k.document) /\ (k.keys <=> Had(h, k.token))
  BY <1>5, <1>6, <1>7 DEF TrueIn, Had
<1>9. d = Started(k, n)
  OBVIOUS
<1> HIDE DEF k, n, h, d
<1>10. DiskTrue(h, k)
  BY <1>5, <1>7, <1>8 DEF DiskTrue
<1>11. /\ Told(h, d, <<>>, NoSessions) /\ Faithful(h, d) /\ ~d.open
       /\ Heard(h, <<>>) /\ SentKnown(h, NoSessions)
       /\ d.disk = k /\ d.newest = n /\ ~d.view.on /\ d.updates = {}
       /\ Backs(h, d, <<>>, NoSessions) /\ Undisturbed(d, <<>>)
  BY <1>4, <1>8, <1>9, <1>10, StartedHolds
<1>12. Resumable(h, d) /\ Upward(h, d)
  BY <1>5, <1>6, <1>11 DEF Resumable, Upward
<1> QED BY <1>1, <1>2, <1>3, <1>11, <1>12 DEF DInv, Unbroken, h

\* A listener is added to a view there is.
Joined(c, l) == OnViewSnapshot(Added(c, l), {l}, FALSE)

\* A listener that joins a view is shown it rightly.
LEMMA JoinedShown ==
    ASSUME NEW c \in WideClients, Shown(c), c.view.on, NEW l \in Listeners,
           c.shown[l].kind = "idle", NEW d, d = Joined(c, l)
    PROVE  /\ d \in WideClients /\ SameStream(c, d) /\ SameStore(c, d) /\ SameLimbo(c, d)
           /\ d.view = c.view /\ Shown(d) /\ Shows(c, d)
<1> DEFINE e == Added(c, l)
           ls == IF ShouldRaiseInitialEvent(e, e.online) THEN {l} ELSE {}
<1>1. /\ e \in WideClients /\ SameStream(c, e) /\ SameStore(c, e) /\ SameLimbo(c, e)
      /\ e.view = c.view /\ e.online = c.online /\ e.newest = c.newest
      /\ e.shown = Replaced(c.shown, l, [kind |-> "nothing"])
  BY AddedEffect
<1>2. /\ e.shown[l] = [kind |-> "nothing"]
      /\ \A k \in Listeners \ {l} : e.shown[k] = c.shown[k]
  BY <1>1, ClientFields DEF Replaced
<1>3. d = OnViewSnapshot(e, {l}, FALSE)
  BY DEF Joined
<1> HIDE DEF e
<1>4. /\ d \in WideClients /\ SameStream(e, d) /\ SameStore(e, d) /\ SameLimbo(e, d)
      /\ d.view = e.view /\ d.online = e.online
      /\ d = Raise(e, ls)
  <2>1. e.shown[l].kind = "nothing"
    BY <1>2
  <2>2. Called(e, {l}, FALSE) = ls
    BY <2>1 DEF Called, Unraised
  <2> HIDE DEF ls
  <2> QED BY <1>1, <1>3, <2>2, OnViewSnapshotEffect, ZenonT(60)
<1>5. \A k : k \in ls <=> k = l /\ ShouldRaiseInitialEvent(e, e.online)
  OBVIOUS
<1>6. Calls(e, d, ls)
  BY <1>1, <1>4, RaiseCalls
<1> HIDE DEF ls
<1>7. SameStream(c, d) /\ SameStore(c, d) /\ SameLimbo(c, d)
  BY <1>1, <1>4 DEF SameStream, SameStore, SameLimbo
<1>8. /\ ShouldRaiseInitialEvent(e, e.online) <=> ShouldRaiseInitialEvent(d, d.online)
      /\ ShouldRaiseInitialEvent(c, c.online) <=> ShouldRaiseInitialEvent(d, d.online)
      /\ EventOf(d) = EventOf(c)
  BY <1>1, <1>4 DEF ShouldRaiseInitialEvent, EventOf
<1>9. d.newest \in Nat /\ c.newest \in Nat /\ c.newest <= d.newest
      /\ d.view.document \in Nat /\ (ls # {} => d.view.document <= d.newest)
  <2>1. d.newest = IF ls # {} /\ d.view.document > e.newest THEN d.view.document ELSE e.newest
    BY <1>6 DEF Calls
  <2>2. d.newest \in Nat /\ c.newest \in Nat /\ d.view.document \in Nat
    BY <1>4, ClientFields, ViewFields
  <2> QED BY <1>1, <2>1, <2>2
<1>10. ASSUME NEW k \in Listeners
       PROVE  /\ d.shown[k].kind \in {"missing", "version"} => d.shown[k] = EventOf(d)
              /\ d.shown[k].kind = "nothing" => ~ShouldRaiseInitialEvent(d, d.online)
              /\ d.shown[k].kind = "version" => d.shown[k].is <= d.newest
              /\ d.shown[k] = c.shown[k] \/ ShownAnew(c, d, k)
  <2>1. CASE k # l
    <3>1. d.shown[k] = c.shown[k]
      BY <1>2, <1>5, <1>6, <2>1 DEF Calls
    <3>2. d.shown[k].kind = "version" => d.shown[k].is <= d.newest
      <4>1. SUFFICES ASSUME d.shown[k].kind = "version" PROVE d.shown[k].is <= d.newest
        OBVIOUS
      <4>2. d.shown[k].is \in Nat
        BY <1>4, <4>1, ClientFields DEF Events
      <4>3. d.shown[k].is <= c.newest
        BY <3>1, <4>1 DEF Shown
      <4> QED BY <1>9, <4>2, <4>3
    <3>3. d.shown[k].kind \in {"missing", "version"} => d.shown[k] = EventOf(d)
      BY <1>8, <3>1 DEF Shown
    <3>4. d.shown[k].kind = "nothing" => ~ShouldRaiseInitialEvent(d, d.online)
      BY <1>8, <3>1 DEF Shown
    <3> QED BY <3>1, <3>2, <3>3, <3>4
  <2>2. CASE k = l /\ ShouldRaiseInitialEvent(d, d.online)
    <3>1. l \in ls /\ d.shown[l] = EventOf(d)
      BY <1>5, <1>6, <1>8, <2>2 DEF Calls
    <3>2. ShownAnew(c, d, l)
      BY <2>2, <3>1, EventKinds DEF ShownAnew, ShouldRaiseInitialEvent
    <3> QED BY <1>9, <2>2, <3>1, <3>2, EventKinds
  <2>3. CASE k = l /\ ~ShouldRaiseInitialEvent(d, d.online)
    <3>1. d.shown[l] = [kind |-> "nothing"]
      BY <1>2, <1>5, <1>6, <1>8, <2>3 DEF Calls
    <3>2. d.shown[k].kind = "nothing" /\ c.shown[k].kind = "idle"
      BY <2>3, <3>1
    <3>3. ShownAnew(c, d, k)
      BY <3>2 DEF ShownAnew
    <3> QED BY <2>3, <3>2, <3>3
  <2> QED BY <2>1, <2>2, <2>3
<1>11. Shown(d)
  BY <1>1, <1>4, <1>10 DEF Shown
<1>12. Shows(c, d)
  <2>1. \A k \in Listeners : d.shown[k] = c.shown[k] \/ (c.shown[k].kind # "failed" /\ ShownAnew(c, d, k))
    <3>1. ASSUME NEW k \in Listeners, d.shown[k] # c.shown[k] PROVE c.shown[k].kind # "failed"
      BY <1>2, <1>5, <1>6, <3>1 DEF Calls
    <3> QED BY <1>10, <3>1
  <2>2. CASE d.newest = c.newest
    BY <2>1, <2>2 DEF Shows
  <2>3. CASE d.newest # c.newest
    <3>1. ls # {} /\ d.newest = d.view.document /\ d.view.document > c.newest
      BY <1>1, <1>6, <2>3 DEF Calls
    <3>2. d.shown[l] = EventOf(d)
      BY <1>5, <1>6, <3>1 DEF Calls
    <3>3. d.view.document # 0
      BY <1>9, <3>1
    <3> QED BY <2>1, <3>1, <3>2, <3>3, EventKinds DEF Shows
  <2> QED BY <2>2, <2>3
<1> QED BY <1>1, <1>4, <1>7, <1>11, <1>12

\* The first listener makes the view, from the disk.
FirstView(c, l) == ApplyChanges(Viewed(Added(c, l)), TRUE)

\* A listener that makes the view is shown what is on disk rightly.
LEMMA ViewedShown ==
    ASSUME NEW h, NEW c \in WideClients, Faithful(h, c), ~c.view.on, NEW l \in Listeners,
           c.shown[l].kind = "idle", NEW b \in Views, b = DiskView(c.disk),
           NEW d, d = FirstView(c, l)
    PROVE  /\ d \in WideClients /\ SameStream(c, d) /\ SameLimbo(c, d)
           /\ d.disk = c.disk /\ d.token = c.disk.token /\ d.view = Settled(b)
           /\ Shown(d) /\ Shows(c, d)
<1> DEFINE a == Added(c, l)
           e == Viewed(Added(c, l))
<1>1. /\ a \in WideClients /\ SameStream(c, a) /\ SameStore(c, a) /\ SameLimbo(c, a)
      /\ a.newest = c.newest
      /\ a.shown = Replaced(c.shown, l, [kind |-> "nothing"])
  BY AddedEffect
<1>2. /\ a.shown[l].kind = "nothing"
      /\ \A k \in Listeners \ {l} : a.shown[k] = c.shown[k]
  BY <1>1, ClientFields DEF Replaced
<1>3. e = Viewed(a) /\ d = ApplyChanges(e, TRUE)
  BY DEF FirstView
<1> HIDE DEF a, e
<1>4. /\ e \in WideClients /\ SameStream(a, e) /\ SameLimbo(a, e) /\ SameShown(a, e)
      /\ e.disk = a.disk /\ e.token = a.disk.token /\ e.view = DiskView(a.disk)
  BY <1>1, <1>3, ViewedEffect
<1>5. /\ SameStream(c, e) /\ SameLimbo(c, e) /\ e.disk = c.disk /\ e.token = c.disk.token
      /\ e.view = b /\ e.newest = c.newest /\ e.shown = a.shown
  BY <1>1, <1>4 DEF SameStream, SameLimbo, SameStore, SameShown
<1>6. b.on
  BY DEF DiskView
<1>7. \A k \in Listeners : c.shown[k].kind \notin {"missing", "version", "nothing"}
  BY DEF Faithful, Shown
<1>8. \A k \in Listeners : e.shown[k].kind # "version"
  BY <1>2, <1>5, <1>7
<1>9. Shown(d) /\ Shows(e, d)
  BY <1>3, <1>4, <1>5, <1>6, <1>8, ApplyChangesShown
<1>10. /\ d \in WideClients /\ SameStream(e, d) /\ SameStore(e, d) /\ SameLimbo(e, d)
       /\ d.view = Settled(b)
  BY <1>3, <1>4, <1>5, ApplyChangesEffect, ZenonT(60)
<1>11. Shows(c, d)
  <2>1. ASSUME NEW k \in Listeners, d.shown[k] # c.shown[k]
        PROVE  c.shown[k].kind # "failed" /\ ShownAnew(c, d, k)
    <3>1. CASE k = l
      <4>1. c.shown[k].kind = "idle" /\ e.shown[k].kind = "nothing"
        BY <1>2, <1>5, <3>1
      <4>2. d.shown[k] = e.shown[k] \/ ShownAnew(e, d, k)
        BY <1>9 DEF Shows
      <4> QED BY <4>1, <4>2 DEF ShownAnew
    <3>2. CASE k # l
      <4>1. e.shown[k] = c.shown[k]
        BY <1>2, <1>5, <3>2
      <4> QED BY <1>9, <2>1, <4>1 DEF Shows, ShownAnew
    <3> QED BY <3>1, <3>2
  <2> QED BY <1>5, <1>9, <2>1 DEF Shows
<1> QED BY <1>5, <1>9, <1>10, <1>11 DEF SameStream, SameStore, SameLimbo

\* The first listener has the target listened to.
LEMMA FirstListens ==
    ASSUME NEW h, Len(h) \in Nat, NEW c, NEW q, NEW s, Sound(c, q, s), Faithful(h, c),
           Told(h, c, q, s), ~c.view.on, NEW l \in Listeners, c.shown[l].kind = "idle",
           NEW f, f = FirstView(c, l), NEW d, d = Listen(f, Main, f.token)
    PROVE  /\ d \in WideClients /\ Told(h, d, q, s) /\ Faithful(h, d) /\ Shows(c, d)
           /\ Backs(h, c, q, s) => Backs(h, d, q, s)
           /\ d.updates = c.updates /\ d.open = c.open /\ d.disk = c.disk
           /\ d.view.on /\ d.token = c.disk.token
<1> DEFINE b == DiskView(c.disk)
<1>1. c \in WideClients /\ c.disk \in Disks
  BY ClientFields DEF Sound
<1>2. b \in Views /\ b.on = TRUE /\ b.synced = c.disk.keys /\ b.current = FALSE
      /\ b.limbo = FALSE /\ b.document = DocumentClaim(c.disk.document)
  BY <1>1, DiskFields, DocumentFields, WatchAssumption DEF DiskView, Views, DocumentClaim
<1>3. b = DiskView(c.disk)
  OBVIOUS
<1> HIDE DEF b
<1>4. /\ f \in WideClients /\ SameStream(c, f) /\ SameLimbo(c, f)
      /\ f.disk = c.disk /\ f.token = c.disk.token /\ f.view = Settled(b)
      /\ Shown(f) /\ Shows(c, f)
  BY <1>1, <1>2, <1>3, ViewedShown
<1>5. /\ f.view.on = TRUE /\ f.view.synced = c.disk.keys /\ f.view.current = FALSE
      /\ f.view.document = DocumentClaim(c.disk.document) /\ f.view.sync = "Local"
  BY <1>2, <1>4, SettledFields
<1>6. Main \in Targets /\ Main \notin c.listens /\ ~Asks(c, "watch", Main)
      /\ c.states[Main] = FreshTarget
  BY TargetFacts DEF Sound, Coherent, Protocol, TargetProtocol, Unused, Idle
<1>7. Main \in Targets \ f.listens /\ ~Asks(f, "watch", Main) /\ f.states[Main].change = "none"
  BY <1>4, <1>6, FreshFields DEF SameStream, Asks
<1>8. f.token \in 0..MaxVersion
  BY <1>4, ClientFields
<1>9. /\ c.disk.keys <=> Had(h, c.disk.token)
      /\ c.disk.token \in 0..Len(h) /\ c.disk.token <= c.disk.version
  <2>1. c.disk.token \in Nat /\ c.disk.version \in Nat
    BY <1>1, DiskFields
  <2> QED BY <2>1 DEF Faithful, Kept, KeptOnDisk
<1>10. TargetContainsDocument(f, Main) <=> Had(h, f.token)
  BY <1>4, <1>5, <1>9 DEF TargetContainsDocument
<1>11. Told(h, f, q, s) /\ (Backs(h, c, q, s) => Backs(h, f, q, s))
  <2>1. \A t : Wants(f, t) <=> Wants(c, t)
    BY <1>4 DEF Wants, Asks, SameStream
  <2>2. ASSUME NEW t \in c.listens PROVE TargetTold(h, f, q, s, t)
    <3>1. t # Main
      BY <1>6
    <3>2. TargetContainsDocument(f, t) <=> TargetContainsDocument(c, t)
      BY <1>4, <3>1 DEF TargetContainsDocument, SameLimbo
    <3>3. TargetTold(h, c, q, s, t)
      BY DEF Told
    <3>4. f.tokens = c.tokens /\ f.states = c.states /\ f.updates = c.updates
          /\ f.requests = c.requests
      BY <1>4 DEF SameStream
    <3> QED BY <2>1, <3>2, <3>3, <3>4, TargetStays
  <2>3. Told(h, f, q, s)
    BY <1>4, <2>2 DEF Told, SameStream
  <2>4. \A t, ks : Line(h, c, q, s, t, ks) => Line(h, f, q, s, t, ks)
    <3>1. ASSUME NEW t, NEW ks, Line(h, c, q, s, t, ks) PROVE Line(h, f, q, s, t, ks)
      BY <2>1, <3>1, LineClient
    <3> QED BY <3>1
  <2>5. ASSUME NEW m, Backed(h, c, q, s, m) PROVE Backed(h, f, q, s, m)
    BY <1>4, <2>4, <2>5 DEF Backed, SameStream
  <2> QED BY <1>4, <2>3, <2>5 DEF Backs, SameStream
<1>12. f.token \in 0..Len(h)
  BY <1>4, <1>9
<1>13. Told(h, d, q, s) /\ (Backs(h, f, q, s) => Backs(h, d, q, s))
  BY <1>4, <1>7, <1>8, <1>10, <1>11, <1>12, ListenTold
<1>14. /\ d \in WideClients /\ SameApp(f, d) /\ d.open = f.open /\ d.updates = f.updates
       /\ d.tokens = Replaced(f.tokens, Main, f.token)
  BY <1>4, <1>7, <1>8, ListenEffect
<1>15. d.tokens[Main] = f.token
  BY <1>4, <1>6, <1>14, ClientFields DEF Replaced
<1>16. Truth(h, d)
  BY <1>4, <1>14 DEF Faithful, Truth, SameStream, SameApp, SameStore
<1>17. Kept(h, d)
  <2>1. d.view = f.view /\ d.disk = c.disk /\ d.token = c.disk.token
    BY <1>4, <1>14 DEF SameApp, SameStore
  <2>2. c.disk.token <= c.disk.token
    BY <1>9
  <2> QED BY <1>4, <1>5, <1>9, <1>15, <2>1, <2>2 DEF Faithful, Kept, KeptOnDisk, KeptInView
<1>18. Shown(d)
  BY <1>4, <1>14, SMTT(40) DEF Shown, SameApp, SameShown, EventOf, ShouldRaiseInitialEvent
<1>19. Shows(c, d)
  BY <1>4, <1>14 DEF Shows, ShownAnew, SameApp, SameShown, EventOf
<1> QED BY <1>4, <1>5, <1>11, <1>13, <1>14, <1>16, <1>17, <1>18, <1>19
        DEF Faithful, SameStream, SameApp, SameStore

\* The app listens.
LEMMA ListeningHolds ==
    ASSUME DInv, NEW l \in Listeners, Listening(l)
    PROVE  DInv' /\ Shows(client, client')
<1> DEFINE c == client
           d == client'
           h == history
           s == server.sessions
           q == queue
<1>1. /\ d = AddQueryListener(c, l) /\ c.shown[l].kind = "idle"
      /\ history' = history /\ server' = server /\ queue' = queue /\ retracted' = retracted
  BY DEF Listening
<1>2. IInv /\ IInv'
  BY ListeningKeeps DEF DInv
<1>3. Sound(c, q, s) /\ c \in WideClients /\ Len(h) \in Nat
  BY <1>2, HistoryFields DEF IInv, Sound
<1>4. /\ Told(h, c, q, s) /\ Faithful(h, c) /\ (c.open \/ c.updates = {})
      /\ (~retracted => Unbroken(h, c, q, s))
      /\ Heard(h, q) /\ SentKnown(h, s)
  BY DEF DInv
<1> HIDE DEF c, d, h, s, q
<1>5. /\ d \in WideClients /\ Told(h, d, q, s) /\ Faithful(h, d) /\ Shows(c, d)
      /\ Backs(h, c, q, s) => Backs(h, d, q, s)
      /\ d.updates = c.updates /\ d.open = c.open /\ d.disk = c.disk
      /\ Latest(d) = Latest(c)
  <2>1. CASE c.view.on
    <3>1. d = Joined(c, l)
      BY <1>1, <1>3, <2>1, AddQueryListenerIs DEF Joined
    <3>2. /\ d \in WideClients /\ SameStream(c, d) /\ SameStore(c, d) /\ SameLimbo(c, d)
          /\ d.view = c.view /\ Shown(d) /\ Shows(c, d)
      BY <1>1, <1>3, <1>4, <2>1, <3>1, JoinedShown DEF Faithful
    <3>3. SameTargets(c, d) /\ d.requests = c.requests
      BY <3>2, TargetsOf
    <3>4. Told(h, d, q, s) /\ (Backs(h, c, q, s) => Backs(h, d, q, s))
      BY <1>3, <1>4, <3>3, ToldSame
    <3>5. Truth(h, d)
      BY <1>4, <3>2 DEF Faithful, Truth, SameStream, SameStore
    <3>6. Kept(h, d)
      BY <1>4, <3>2 DEF Faithful, Kept, KeptOnDisk, KeptInView, SameStream, SameStore
    <3>7. Latest(d) = Latest(c)
      BY <3>2 DEF Latest, SameStore
    <3> QED BY <3>2, <3>4, <3>5, <3>6, <3>7 DEF Faithful, SameStream, SameStore
  <2>2. CASE ~c.view.on
    <3> DEFINE f == FirstView(c, l)
    <3>1. d = Listen(f, Main, f.token)
      BY <1>1, <1>3, <2>2, AddQueryListenerIs DEF FirstView
    <3>2. f = FirstView(c, l)
      OBVIOUS
    <3> HIDE DEF f
    <3>3. /\ d \in WideClients /\ Told(h, d, q, s) /\ Faithful(h, d) /\ Shows(c, d)
          /\ Backs(h, c, q, s) => Backs(h, d, q, s)
          /\ d.updates = c.updates /\ d.open = c.open /\ d.disk = c.disk
          /\ d.view.on /\ d.token = c.disk.token
      BY <1>1, <1>3, <1>4, <2>2, <3>1, <3>2, FirstListens
    <3> QED BY <2>2, <3>3 DEF Latest
  <2> QED BY <2>1, <2>2
<1>6. ~retracted => Unbroken(h, d, q, s)
  <2>1. SUFFICES ASSUME ~retracted PROVE Unbroken(h, d, q, s)
    OBVIOUS
  <2>2. Unbroken(h, c, q, s)
    BY <1>4, <2>1
  <2>3. Undisturbed(d, q)
    BY <1>5, <2>2 DEF Unbroken, Undisturbed
  <2>4. Resumable(h, d)
    BY <1>5, <2>2 DEF Unbroken, Resumable
  <2>5. Upward(h, d)
    BY <1>3, <1>5, <2>2, UpwardShown DEF Unbroken, Faithful
  <2> QED BY <1>5, <2>2, <2>3, <2>4, <2>5 DEF Unbroken
<1> QED BY <1>1, <1>2, <1>4, <1>5, <1>6 DEF DInv, c, d, h, s, q

-----------------------------------------------------------------------------
(* A message that changes the aggregator only *)

\* What is left on the way is still true.
LEMMA HeardTail ==
    ASSUME NEW h, NEW q \in Seq(Messages), q # <<>>, Heard(h, q), NEW p, p = Tail(q),
           NEW m, m = Head(q)
    PROVE  /\ Heard(h, p)
           /\ m.kind = "document" => TrueIn(h, m.document)
           /\ m.kind = "snapshot" => m.version \in DOMAIN h
<1>1. /\ m = q[1] /\ DOMAIN p = 1..Len(p) /\ DOMAIN q = 1..(Len(p) + 1) /\ Len(p) \in Nat
      /\ \A i \in DOMAIN p : p[i] = q[i + 1]
  BY TailIs
<1>2. \A i \in DOMAIN p : i + 1 \in DOMAIN q /\ p[i] = q[i + 1]
  BY <1>1
<1>3. 1 \in DOMAIN q
  BY <1>1
<1> QED BY <1>1, <1>2, <1>3 DEF Heard

\* After a document nothing is taken back.
LEMMA UndisturbedTail ==
    ASSUME NEW c, NEW q \in Seq(Messages), q # <<>>, Undisturbed(c, q), NEW p, p = Tail(q),
           NEW m, m = Head(q), NEW d,
           d.updates = c.updates \/ d.updates = {} \/ m.kind \in {"document", "filter"}
    PROVE  /\ Undisturbed(d, p)
           /\ m.kind \in {"reset", "rejected"} => c.updates = {}
           /\ m.kind = "rejected" => m.target = Main
<1>1. /\ m = q[1] /\ DOMAIN p = 1..Len(p) /\ DOMAIN q = 1..(Len(p) + 1) /\ Len(p) \in Nat
      /\ \A i \in DOMAIN p : p[i] = q[i + 1]
  BY TailIs
<1>2. \A i \in DOMAIN p : i \in Nat /\ i + 1 \in DOMAIN q /\ p[i] = q[i + 1] /\ 1 < i + 1
  BY <1>1
<1>3. 1 \in DOMAIN q
  BY <1>1
<1>4. ASSUME NEW i \in DOMAIN p, p[i].kind \in {"reset", "rejected"}
      PROVE  /\ d.updates = {}
             /\ p[i].kind = "rejected" => p[i].target = Main
             /\ \A j \in DOMAIN p : j < i => p[j].kind \notin {"document", "filter"}
  <2>1. /\ c.updates = {}
        /\ q[i + 1].kind = "rejected" => q[i + 1].target = Main
        /\ \A j \in DOMAIN q : j < i + 1 => q[j].kind \notin {"document", "filter"}
    BY <1>2, <1>4 DEF Undisturbed
  <2>2. m.kind \notin {"document", "filter"}
    BY <1>1, <1>2, <1>3, <2>1
  <2>3. ASSUME NEW j \in DOMAIN p, j < i PROVE p[j].kind \notin {"document", "filter"}
    <3>1. j + 1 \in DOMAIN q /\ p[j] = q[j + 1] /\ j + 1 < i + 1
      BY <1>2, <2>3
    <3> QED BY <2>1, <3>1
  <2> QED BY <1>2, <2>1, <2>2, <2>3
<1>5. Undisturbed(d, p)
  BY <1>4 DEF Undisturbed
<1> QED BY <1>1, <1>3, <1>5 DEF Undisturbed

\* A rejection that is waited for is still to come.
LEMMA AnswerTail ==
    ASSUME NEW h, NEW c \in WideClients, NEW q \in Seq(Messages), q # <<>>, NEW s,
           Told(h, c, q, s), NEW p, p = Tail(q), NEW m, m = Head(q), NEW t \in c.listens,
           Wants(c, t), s[t].phase = "none", ~(m.kind = "rejected" /\ m.target = t)
    PROVE  Tells(p, "rejected", t)
<1>1. t \in Targets
  BY ClientFields
<1>2. Tells(q, "rejected", t)
  BY DEF Told, TargetTold, TargetHolds
<1>3. TakenFrom(q, p, m, t)
  BY <1>1, TailTells
<1> QED BY <1>2, <1>3 DEF TakenFrom

\* What a message does to a target: it has the change it is told of, or that it had.
Goes(h, c, d, m, t) ==
    /\ ~Telling(m, t) => d.states[t].change = c.states[t].change
    /\ Telling(m, t) => MessageClaim(m) \in Fits(d.states[t].change, Claim(h, c.tokens[t]))
    /\ d.states[t].pending # 0 => d.states[t].change = "none"
    /\ d.states[t].change \in {"Added", "Modified"} => d.updates # {}

\* The aggregator changes neither what targets hold nor what is wanted.
LEMMA AggregateContains ==
    ASSUME NEW c, NEW d, Aggregates(c, d), NEW t
    PROVE  /\ TargetContainsDocument(d, t) <=> TargetContainsDocument(c, t)
           /\ Wants(d, t) <=> Wants(c, t)
BY DEF TargetContainsDocument, Wants, Asks, Aggregates, SameApp, SameLimbo

\* The aggregator takes a message: each target goes on.
LEMMA AggregateHolds ==
    ASSUME NEW h, NEW c \in WideClients, NEW q \in Seq(Messages), q # <<>>, NEW s,
           Told(h, c, q, s), Faithful(h, c), NEW p, p = Tail(q), NEW m, m = Head(q),
           m.kind = "rejected" => m.target \notin c.listens, NEW d, Aggregates(c, d),
           \A t \in c.listens : Goes(h, c, d, m, t), Truth(h, d)
    PROVE  Told(h, d, p, s) /\ Faithful(h, d)
<1>1. /\ SameApp(c, d) /\ SameLimbo(c, d) /\ d.open = c.open /\ d.requests = c.requests
      /\ d.listens = c.listens /\ d.tokens = c.tokens
  BY DEF Aggregates
<1>2. m \in Messages /\ (m.kind = "snapshot" => m.version \in Nat)
  <2>1. m \in Messages
    BY TailIs
  <2> QED BY <2>1, MessageFields
<1>3. ASSUME NEW t \in c.listens PROVE TargetTold(h, d, p, s, t)
  <2> DEFINE K == Claim(h, c.tokens[t])
  <2>1. TargetTold(h, c, q, s, t) /\ Goes(h, c, d, m, t)
    BY DEF Told
  <2>2. Line(h, c, q, s, t, Fits(c.states[t].change, K)) /\ TargetHolds(h, c, q, s, t)
    BY <2>1 DEF TargetTold
  <2> HIDE DEF K
  <2>3. Wants(d, t) => Wants(c, t) /\ ~(m.kind = "rejected" /\ m.target = t)
    BY AggregateContains
  <2>4. Telling(m, t) => MessageClaim(m) \in Fits(d.states[t].change, K)
    BY <2>1 DEF Goes, K
  <2>5. ~Telling(m, t) => Fits(d.states[t].change, K) = Fits(c.states[t].change, K)
    BY <2>1 DEF Goes
  <2>6. Line(h, d, p, s, t, Fits(d.states[t].change, K))
    <3> DEFINE ls == Fits(d.states[t].change, K)
               ks == Fits(c.states[t].change, K)
    <3>1. Line(h, c, q, s, t, ks)
      BY <2>2
    <3>2. Telling(m, t) => MessageClaim(m) \in ls
      BY <2>4
    <3>3. ~Telling(m, t) => ls = ks
      BY <2>5
    <3> HIDE DEF ls, ks
    <3>5. Line(h, d, p, s, t, ls)
      <4>1. CASE Telling(m, t)
        BY <1>2, <2>3, <3>1, <3>2, <4>1, LineTail
      <4>2. CASE ~Telling(m, t)
        <5>1. Line(h, d, p, s, t, ks)
          BY <1>2, <2>3, <3>1, <4>2, LineTail
        <5> QED BY <3>3, <4>2, <5>1
      <4> QED BY <4>1, <4>2
    <3> QED BY <3>5 DEF ls
  <2>7. Wants(d, t) /\ s[t].phase = "none" => Tells(p, "rejected", t)
    BY <2>3, AnswerTail
  <2>8. TargetHolds(h, d, p, s, t)
    BY <1>1, <2>1, <2>2, <2>7, AggregateContains DEF TargetHolds, Goes
  <2> QED BY <1>1, <2>6, <2>8 DEF TargetTold, K
<1>4. Told(h, d, p, s)
  BY <1>1, <1>3 DEF Told
<1>5. Kept(h, d)
  BY <1>1 DEF Faithful, Kept, KeptOnDisk, KeptInView, SameApp, SameStore
<1>6. Shown(d)
  BY <1>1 DEF Faithful, Shown, SameApp, SameShown, EventOf, ShouldRaiseInitialEvent
<1> QED BY <1>4, <1>5, <1>6 DEF Faithful

\* What is held back is what the message told, or what it was.
LEMMA AggregateUnbroken ==
    ASSUME NEW h \in Seq(BOOLEAN), NEW c \in WideClients, NEW q \in Seq(Messages), q # <<>>,
           NEW s, Unbroken(h, c, q, s), NEW p, p = Tail(q), NEW m, m = Head(q),
           m.kind = "rejected" => m.target \notin c.listens, NEW d, Aggregates(c, d),
           \/ /\ d.updates = c.updates
              /\ \A t \in c.listens : ~Telling(m, t)
              /\ \A t \in c.listens : c.states[t].pending = 0 => d.states[t].pending = 0
           \/ d.updates = {}
           \/ /\ m.kind \in {"document", "filter"}
              /\ \A x \in d.updates : DocumentClaim(x) = MessageClaim(m)
              /\ m.target \in c.listens /\ d.states[m.target].pending = 0
              /\ \E ks : Line(h, c, q, s, m.target, ks)
    PROVE  Unbroken(h, d, p, s)
<1>1. /\ SameApp(c, d) /\ SameLimbo(c, d) /\ d.open = c.open /\ d.requests = c.requests
      /\ d.listens = c.listens /\ d.tokens = c.tokens
  BY DEF Aggregates
<1>2. m \in Messages /\ (m.kind = "snapshot" => m.version \in Nat)
  <2>1. m \in Messages
    BY TailIs
  <2> QED BY <2>1, MessageFields
<1>3. \A t : Wants(d, t) => Wants(c, t)
  BY AggregateContains
<1>4. Undisturbed(d, p)
  BY UndisturbedTail DEF Unbroken
<1>5. Grown(h, h)
  BY LenProperties, GrownSame
<1>6. Resumable(h, d) /\ Upward(h, d)
  BY <1>1, <1>5, ResumableGrown DEF Unbroken
<1>7. ASSUME NEW x \in d.updates PROVE Backed(h, d, p, s, x)
  <2> DEFINE K == DocumentClaim(x)
  <2>1. CASE /\ d.updates = c.updates
             /\ \A t \in c.listens : ~Telling(m, t)
             /\ \A t \in c.listens : c.states[t].pending = 0 => d.states[t].pending = 0
    <3>1. PICK t \in c.listens : c.states[t].pending = 0 /\ Line(h, c, q, s, t, {K})
      BY <1>7, <2>1 DEF Unbroken, Backs, Backed
    <3> HIDE DEF K
    <3>2. Wants(d, t) => Wants(c, t) /\ ~(m.kind = "rejected" /\ m.target = t)
      BY <1>3
    <3>3. Line(h, d, p, s, t, {K})
      BY <1>2, <2>1, <3>1, <3>2, LineTail
    <3> QED BY <1>1, <2>1, <3>1, <3>3 DEF Backed, K
  <2>2. CASE /\ m.kind \in {"document", "filter"}
             /\ \A y \in d.updates : DocumentClaim(y) = MessageClaim(m)
             /\ m.target \in c.listens /\ d.states[m.target].pending = 0
             /\ \E ks : Line(h, c, q, s, m.target, ks)
    <3>1. PICK ks : Line(h, c, q, s, m.target, ks)
      BY <2>2
    <3>2. Telling(m, m.target) /\ MessageClaim(m) \in {K}
      BY <1>7, <2>2 DEF Telling
    <3> HIDE DEF K
    <3>3. Wants(d, m.target) => Wants(c, m.target) /\ ~(m.kind = "rejected" /\ m.target = m.target)
      BY <1>3, <2>2
    <3>4. Line(h, d, p, s, m.target, {K})
      BY <1>2, <3>1, <3>2, <3>3, LineTail
    <3> QED BY <1>1, <2>2, <3>4 DEF Backed, K
  <2> QED BY <1>7, <2>1, <2>2
<1> QED BY <1>4, <1>6, <1>7 DEF Unbroken, Backs

\* A target the next message is about, and that is wanted, is active, unless the
\* message says that it is served.
LEMMA ActiveWhenTold ==
    ASSUME NEW c, NEW q \in Seq(Messages), NEW s, Sound(c, q, s), q # <<>>, NEW m, m = Head(q),
           NEW t \in c.listens, About(m, t)
    PROVE  /\ t \in Targets /\ c.open
           /\ m.kind # "added" => c.states[t].pending = 0 /\ IsActiveTarget(c, t)
           /\ m.kind = "added" => c.states[t].pending = 1
<1> DEFINE p == Tail(q)
<1>1. t \in Targets /\ c \in WideClients
  BY ClientFields DEF Sound
<1>2. TakenFrom(q, p, m, t)
  BY <1>1, TailTells
<1>3. c.open
  BY DEF Sound, Protocol, WhenClosed
<1>4. ~Asks(c, "watch", t)
  <2>1. TargetProtocol(c, q, s, t)
    BY <1>1 DEF Sound, Protocol
  <2>2. ~Silent(q, t)
    BY <1>2 DEF TakenFrom
  <2> QED BY <2>1, <2>2 DEF TargetProtocol
<1>5. c.states[t].pending = One(Tells(q, "added", t))
  <2>1. c.states[t].pending = One(Asks(c, "watch", t) \/ Tells(q, "added", t))
    BY <1>1, <1>3 DEF Sound, Protocol, TargetProtocol
  <2> QED BY <1>4, <2>1 DEF One
<1>6. m.kind = "added" => Tells(q, "added", t)
  BY <1>2 DEF TakenFrom, About
<1>7. m.kind # "added" => ~Tells(q, "added", t)
  <2>1. SUFFICES ASSUME m.kind # "added", NEW j \in DOMAIN q, q[j].kind = "added", q[j].target = t
                 PROVE  FALSE
    BY DEF Tells
  <2>2. m = q[1] /\ DOMAIN q = 1..(Len(p) + 1) /\ Len(p) \in Nat
    BY TailIs
  <2>3. 1 \in DOMAIN q /\ j # 1 /\ 1 < j
    BY <2>1, <2>2
  <2>4. About(q[j], t) /\ About(q[1], t)
    BY <2>1, <2>2 DEF About
  <2> QED BY <1>1, <2>1, <2>3, <2>4 DEF Sound, Protocol, InOrder
<1> QED BY <1>1, <1>3, <1>5, <1>6, <1>7 DEF One, IsActiveTarget

\* A client before a message, and after it.
Ready(h, c, q, s) ==
    /\ h \in Seq(BOOLEAN) /\ Sound(c, q, s)
    /\ Told(h, c, q, s) /\ Faithful(h, c) /\ Heard(h, q)
Takes(h, c, d, q, p, s) ==
    /\ Told(h, d, p, s) /\ Faithful(h, d) /\ Shows(c, d)
    /\ Unbroken(h, c, q, s) => Unbroken(h, d, p, s)

\* A message that tells the targets nothing.
LEMMA QuietTakes ==
    ASSUME NEW h, NEW c, NEW q \in Seq(Messages), q # <<>>, NEW s, Ready(h, c, q, s),
           NEW p, p = Tail(q), NEW m, m = Head(q),
           m.kind = "rejected" => m.target \notin c.listens,
           NEW d, Aggregates(c, d), d.updates = c.updates,
           \A t \in c.listens : /\ ~Telling(m, t)
                                /\ d.states[t].change = c.states[t].change
                                /\ d.states[t].pending # 0 => c.states[t].pending # 0
    PROVE  Takes(h, c, d, q, p, s)
<1>1. c \in WideClients /\ h \in Seq(BOOLEAN) /\ Told(h, c, q, s) /\ Faithful(h, c)
  BY DEF Ready, Sound
<1>2. SameApp(c, d)
  BY DEF Aggregates
<1>3. ASSUME NEW t \in c.listens PROVE Goes(h, c, d, m, t)
  <2>1. TargetHolds(h, c, q, s, t)
    BY <1>1 DEF Told, TargetTold
  <2> QED BY <2>1 DEF Goes, TargetHolds
<1>4. Truth(h, d)
  BY <1>1, <1>2 DEF Faithful, Truth, SameApp, SameStore
<1>5. Told(h, d, p, s) /\ Faithful(h, d)
  BY <1>1, <1>3, <1>4, AggregateHolds
<1>6. Shows(c, d)
  BY <1>2, ShowsSame DEF SameApp
<1>7. Unbroken(h, c, q, s) => Unbroken(h, d, p, s)
  <2>1. /\ d.updates = c.updates
        /\ \A t \in c.listens : ~Telling(m, t)
        /\ \A t \in c.listens : c.states[t].pending = 0 => d.states[t].pending = 0
    OBVIOUS
  <2> QED BY <1>1, <2>1, AggregateUnbroken
<1> QED BY <1>5, <1>6, <1>7 DEF Takes

\* A message that tells an active target of the document.
LEMMA TellingTakes ==
    ASSUME NEW h, NEW c, NEW q \in Seq(Messages), q # <<>>, NEW s, Ready(h, c, q, s),
           NEW p, p = Tail(q), NEW m, m = Head(q), m.kind \in {"document", "filter", "reset"},
           NEW t \in c.listens, m.target = t,
           NEW d, Aggregates(c, d), NEW x \in WideTargetStates, d.states = Replaced(c.states, t, x),
           x.pending = 0, MessageClaim(m) \in Fits(x.change, Claim(h, c.tokens[t])),
           x.change \in {"Added", "Modified"} => d.updates # {},
           c.updates # {} => d.updates # {}, Truth(h, d),
           \/ m.kind = "reset" /\ d.updates = c.updates
           \/ m.kind # "reset" /\ \A y \in d.updates : DocumentClaim(y) = MessageClaim(m)
    PROVE  Takes(h, c, d, q, p, s)
<1>1. c \in WideClients /\ h \in Seq(BOOLEAN) /\ Told(h, c, q, s) /\ Faithful(h, c)
  BY DEF Ready, Sound
<1>2. SameApp(c, d)
  BY DEF Aggregates
<1>3. t \in Targets /\ d.states[t] = x /\ \A u \in Targets \ {t} : d.states[u] = c.states[u]
  <2>1. t \in Targets /\ c.states \in [Targets -> WideTargetStates]
    BY <1>1, ClientFields
  <2> QED BY <2>1, ReplacedFields
<1>4. ASSUME NEW u \in c.listens PROVE Goes(h, c, d, m, u)
  <2>1. TargetHolds(h, c, q, s, u) /\ u \in Targets
    BY <1>1, ClientFields DEF Told, TargetTold
  <2>2. CASE u = t
    <3>1. Telling(m, u)
      BY <2>2 DEF Telling
    <3> QED BY <1>3, <2>2, <3>1 DEF Goes
  <2>3. CASE u # t
    <3>1. ~Telling(m, u) /\ d.states[u] = c.states[u]
      BY <1>3, <2>1, <2>3 DEF Telling
    <3> QED BY <2>1, <3>1 DEF Goes, TargetHolds
  <2> QED BY <2>2, <2>3
<1>5. Told(h, d, p, s) /\ Faithful(h, d)
  <2>1. m.kind = "rejected" => m.target \notin c.listens
    OBVIOUS
  <2> QED BY <1>1, <1>4, <2>1, AggregateHolds
<1>6. Shows(c, d)
  BY <1>2, ShowsSame DEF SameApp
<1>7. ASSUME Unbroken(h, c, q, s) PROVE Unbroken(h, d, p, s)
  <2>1. m.kind = "rejected" => m.target \notin c.listens
    OBVIOUS
  <2>2. CASE m.kind = "reset"
    <3>1. Undisturbed(c, q) /\ c.updates = c.updates
      BY <1>7 DEF Unbroken
    <3>2. m.kind \in {"reset", "rejected"} => c.updates = {}
      BY <3>1, UndisturbedTail
    <3>3. d.updates = {}
      BY <2>2, <3>2
    <3> QED BY <1>1, <1>7, <2>1, <3>3, AggregateUnbroken
  <2>3. CASE m.kind # "reset"
    <3>1. Line(h, c, q, s, t, Fits(c.states[t].change, Claim(h, c.tokens[t])))
      BY <1>1 DEF Told, TargetTold
    <3>2. /\ m.kind \in {"document", "filter"}
          /\ \A y \in d.updates : DocumentClaim(y) = MessageClaim(m)
          /\ m.target \in c.listens /\ d.states[m.target].pending = 0
          /\ \E ks : Line(h, c, q, s, m.target, ks)
      BY <1>3, <2>3, <3>1
    <3> QED BY <1>1, <1>7, <2>1, <3>2, AggregateUnbroken
  <2> QED BY <2>2, <2>3
<1> QED BY <1>5, <1>6, <1>7 DEF Takes

\* The server answers a watch request.
LEMMA HandleAddedTakes ==
    ASSUME NEW h, NEW c, NEW q \in Seq(Messages), q # <<>>, NEW s, Ready(h, c, q, s),
           NEW p, p = Tail(q), NEW m, m = Head(q), m.kind = "added", NEW t, t = m.target,
           NEW d, d = HandleAdded(c, t)
    PROVE  Takes(h, c, d, q, p, s)
<1>1. c \in WideClients /\ Sound(c, q, s) /\ Told(h, c, q, s)
  BY DEF Ready, Sound
<1>2. t \in Targets
  <2>1. m \in Messages
    BY TailIs
  <2> QED BY <2>1, MessageFields
<1>3. Aggregates(c, d) /\ d.updates = c.updates
      /\ d.states = Replaced(c.states, t, AddedState(c.states[t]))
  BY <1>1, <1>2, HandleAddedEffect
<1> DEFINE x == AddedState(c.states[t])
<1>4. c.states[t] \in WideTargetStates /\ c.states \in [Targets -> WideTargetStates]
  BY <1>1, <1>2, ClientFields
<1>5. x \in WideTargetStates /\ x.pending = c.states[t].pending - 1
      /\ (x.pending = 0 => x.change = "none")
  BY <1>4, AnsweredFields
<1> HIDE DEF x
<1>6. d.states[t] = x /\ \A u \in Targets \ {t} : d.states[u] = c.states[u]
  <2>1. d.states = Replaced(c.states, t, x)
    BY <1>3 DEF x
  <2> QED BY <1>2, <1>4, <1>5, <2>1, ReplacedFields
<1>7. ASSUME NEW u \in c.listens
      PROVE  /\ ~Telling(m, u)
             /\ d.states[u].change = c.states[u].change
             /\ d.states[u].pending # 0 => c.states[u].pending # 0
  <2>1. u \in Targets /\ ~Telling(m, u) /\ TargetHolds(h, c, q, s, u)
    BY <1>1, ClientFields DEF Telling, Told, TargetTold
  <2>2. CASE u = t
    <3>1. About(m, u)
      BY <2>2 DEF About
    <3>2. c.states[u].pending = 1
      BY <1>1, <3>1, ActiveWhenTold
    <3>3. c.states[u].change = "none"
      BY <2>1, <3>2 DEF TargetHolds
    <3> QED BY <1>5, <1>6, <2>1, <2>2, <3>2, <3>3
  <2>3. CASE u # t
    BY <1>6, <2>1, <2>3
  <2> QED BY <2>2, <2>3
<1> QED BY <1>3, <1>7, QuietTakes

\* The server answers an unwatch request: nobody listens to the target.
LEMMA HandleRemovedTakes ==
    ASSUME NEW h, NEW c, NEW q \in Seq(Messages), q # <<>>, NEW s, Ready(h, c, q, s),
           NEW p, p = Tail(q), NEW m, m = Head(q), m.kind = "removed", NEW t, t = m.target,
           NEW d, d = HandleRemoved(c, t)
    PROVE  Takes(h, c, d, q, p, s)
<1>1. c \in WideClients /\ Sound(c, q, s)
  BY DEF Ready, Sound
<1>2. t \in Targets
  <2>1. m \in Messages
    BY TailIs
  <2> QED BY <2>1, MessageFields
<1>3. Aggregates(c, d) /\ d.updates = c.updates
      /\ d.states = Replaced(c.states, t, RemovedState(c.states[t]))
  BY <1>1, <1>2, HandleRemovedEffect
<1> DEFINE x == RemovedState(c.states[t])
<1>4. c.states[t] \in WideTargetStates /\ c.states \in [Targets -> WideTargetStates]
  BY <1>1, <1>2, ClientFields
<1>5. x \in WideTargetStates
  BY <1>4, AnsweredFields
<1> HIDE DEF x
<1>6. \A u \in Targets \ {t} : d.states[u] = c.states[u]
  <2>1. d.states = Replaced(c.states, t, x)
    BY <1>3 DEF x
  <2> QED BY <1>2, <1>4, <1>5, <2>1, ReplacedFields
<1>7. t \notin c.listens
  <2>1. TargetProtocol(c, q, s, t)
    BY <1>1, <1>2 DEF Sound, Protocol
  <2>2. TakenFrom(q, p, m, t)
    BY <1>2, TailTells
  <2>3. Tells(q, "removed", t)
    BY <2>2 DEF TakenFrom
  <2> QED BY <2>1, <2>3 DEF TargetProtocol
<1>8. ASSUME NEW u \in c.listens
      PROVE  /\ ~Telling(m, u)
             /\ d.states[u].change = c.states[u].change
             /\ d.states[u].pending # 0 => c.states[u].pending # 0
  <2>1. u \in Targets /\ u # t
    BY <1>1, <1>7, <1>8, ClientFields, SMTT(40)
  <2> QED BY <1>6, <2>1 DEF Telling
<1> QED BY <1>3, <1>8, QuietTakes

\* A target is current.
LEMMA HandleCurrentTakes ==
    ASSUME NEW h, NEW c, NEW q \in Seq(Messages), q # <<>>, NEW s, Ready(h, c, q, s),
           NEW p, p = Tail(q), NEW m, m = Head(q), m.kind = "current", NEW t, t = m.target,
           NEW d, d = HandleCurrent(c, t, m.token)
    PROVE  Takes(h, c, d, q, p, s)
<1>1. c \in WideClients /\ Sound(c, q, s)
  BY DEF Ready, Sound
<1>2. t \in Targets /\ m.token \in 0..MaxVersion
  <2>1. m \in Messages
    BY TailIs
  <2> QED BY <2>1, MessageFields
<1>3. /\ Aggregates(c, d) /\ d.updates = c.updates
      /\ ~IsActiveTarget(c, t) => d = c
      /\ IsActiveTarget(c, t) =>
            d.states = Replaced(c.states, t, CurrentState(c.states[t], m.token))
  BY <1>1, <1>2, HandleCurrentEffect
<1> DEFINE x == CurrentState(c.states[t], m.token)
<1>4. c.states[t] \in WideTargetStates /\ c.states \in [Targets -> WideTargetStates]
  BY <1>1, <1>2, ClientFields
<1>5. x \in WideTargetStates /\ x.pending = c.states[t].pending /\ x.change = c.states[t].change
  BY <1>2, <1>4, TokenFields, ZenonT(60)
<1>6. IsActiveTarget(c, t) => d.states = Replaced(c.states, t, x)
  BY <1>3
<1> HIDE DEF x
<1>7. IsActiveTarget(c, t) =>
          d.states[t] = x /\ \A u \in Targets \ {t} : d.states[u] = c.states[u]
  BY <1>2, <1>4, <1>5, <1>6, ReplacedFields
<1>8. ASSUME NEW u \in c.listens
      PROVE  /\ ~Telling(m, u)
             /\ d.states[u].change = c.states[u].change
             /\ d.states[u].pending # 0 => c.states[u].pending # 0
  <2>1. u \in Targets /\ ~Telling(m, u)
    BY <1>1, ClientFields DEF Telling
  <2>2. CASE ~IsActiveTarget(c, t)
    BY <1>3, <2>1, <2>2
  <2>3. CASE IsActiveTarget(c, t)
    BY <1>5, <1>7, <2>1, <2>3
  <2> QED BY <2>2, <2>3
<1> QED BY <1>3, <1>8, QuietTakes

\* A message about a target that is not listened to.
LEMMA UnheardTakes ==
    ASSUME NEW h, NEW c, NEW q \in Seq(Messages), q # <<>>, NEW s, Ready(h, c, q, s),
           NEW p, p = Tail(q), NEW m, m = Head(q), m.target \notin c.listens,
           NEW d, d = c
    PROVE  Takes(h, c, d, q, p, s)
<1>1. Aggregates(c, d)
  BY DEF Aggregates, Ready, Sound, SameApp, SameShown, SameStore, SameLimbo
<1>2. \A t \in c.listens : /\ ~Telling(m, t)
                           /\ d.states[t].change = c.states[t].change
                           /\ d.states[t].pending # 0 => c.states[t].pending # 0
  BY DEF Telling
<1> QED BY <1>1, <1>2, QuietTakes

\* A target gets the document.
LEMMA AddDocumentTakes ==
    ASSUME NEW h, NEW c, NEW q \in Seq(Messages), q # <<>>, NEW s, Ready(h, c, q, s),
           NEW p, p = Tail(q), NEW m, m = Head(q), m.kind = "document", m.document.exists,
           NEW t, t = m.target, NEW d, d = AddDocumentToTarget(c, t, m.document)
    PROVE  Takes(h, c, d, q, p, s)
<1>1. c \in WideClients /\ Sound(c, q, s) /\ Faithful(h, c) /\ Heard(h, q)
      /\ h \in Seq(BOOLEAN)
  BY DEF Ready, Sound
<1>2. t \in Targets /\ m.document \in MaybeDocuments
  <2>1. m \in Messages
    BY TailIs
  <2> QED BY <2>1, MessageFields
<1> DEFINE n == m.document
           change == IF TargetContainsDocument(c, t) THEN "Modified" ELSE "Added"
           x == Changed(c, t, change)
<1>3. /\ Aggregates(c, d)
      /\ ~IsActiveTarget(c, t) => d = c
      /\ IsActiveTarget(c, t) => d.updates = {n} /\ d.states = Replaced(c.states, t, x)
  BY <1>1, <1>2, AddDocumentEffect
<1>4. change \in {"Modified", "Added"}
  OBVIOUS
<1> HIDE DEF change
<1>5. x \in WideTargetStates /\ x.pending = c.states[t].pending /\ x.change = change
  <2>1. change \in {"none", "Added", "Modified", "Removed"}
    BY <1>4
  <2>2. c \in WideClients
    BY <1>1
  <2>3. Changed(c, t, change).change = change
    BY <1>2, <2>1, <2>2, ChangedFields, ZenonT(60)
  <2>4. Changed(c, t, change).pending = c.states[t].pending
    BY <1>2, <2>1, <2>2, ChangedFields, ZenonT(60)
  <2>5. Changed(c, t, change) \in WideTargetStates
    BY <1>2, <2>1, <2>2, ChangedFields, ZenonT(60)
  <2> QED BY <2>3, <2>4, <2>5
<1> HIDE DEF x
<1>6. TrueIn(h, n)
  BY <1>1, HeardTail
<1> HIDE DEF n
<1>7. CASE t \notin c.listens
  <2>1. d = c
    BY <1>3, <1>7 DEF IsActiveTarget
  <2> QED BY <1>7, <2>1, UnheardTakes
<1>8. CASE t \in c.listens
  <2>1. About(m, t)
    BY DEF About
  <2>2. IsActiveTarget(c, t) /\ c.states[t].pending = 0
    BY <1>1, <1>8, <2>1, ActiveWhenTold
  <2>3. MessageClaim(m) \in Nat /\ MessageClaim(m) # 0 /\ MessageClaim(m) = DocumentClaim(n)
    <3>1. n.exists /\ n.version \in Nat /\ MessageClaim(m) = DocumentClaim(n)
      BY <1>2, DocumentFields DEF n, MessageClaim
    <3> QED BY <1>6, <3>1 DEF DocumentClaim, TrueIn, Had
  <2>4. MessageClaim(m) \in Fits(x.change, Claim(h, c.tokens[t]))
    BY <1>4, <1>5, <2>3 DEF Fits
  <2>5. Truth(h, d)
    <3>1. d.disk = c.disk
      BY <1>3 DEF Aggregates, SameApp, SameStore
    <3> QED BY <1>1, <1>3, <1>6, <2>2, <3>1 DEF Truth, Faithful
  <2>6. d.updates # {} /\ \A y \in d.updates : DocumentClaim(y) = MessageClaim(m)
    BY <1>3, <2>2, <2>3
  <2> QED BY <1>3, <1>5, <1>8, <2>2, <2>4, <2>5, <2>6, TellingTakes, ZenonT(60)
<1> QED BY <1>7, <1>8

\* A target loses the document.
LEMMA RemoveDocumentTakes ==
    ASSUME NEW h, NEW c, NEW q \in Seq(Messages), q # <<>>, NEW s, Ready(h, c, q, s),
           NEW p, p = Tail(q), NEW m, m = Head(q), m.kind \in {"document", "filter"},
           MessageClaim(m) = 0, NEW n \in MaybeDocuments, ~n.exists, TrueIn(h, n),
           NEW t, t = m.target, NEW d, d = RemoveDocumentFromTarget(c, t, {n})
    PROVE  Takes(h, c, d, q, p, s)
<1>1. c \in WideClients /\ Sound(c, q, s) /\ Faithful(h, c) /\ Told(h, c, q, s)
      /\ h \in Seq(BOOLEAN)
  BY DEF Ready, Sound
<1>2. t \in Targets
  <2>1. m \in Messages
    BY TailIs
  <2> QED BY <2>1, MessageFields
<1> DEFINE change == IF TargetContainsDocument(c, t) THEN "Removed" ELSE "none"
           x == Changed(c, t, change)
           ms == {n}
<1>3. ms \in SUBSET MaybeDocuments /\ ms # {}
  OBVIOUS
<1>4. d = RemoveDocumentFromTarget(c, t, ms)
  OBVIOUS
<1> HIDE DEF ms
<1>5. /\ Aggregates(c, d)
      /\ ~IsActiveTarget(c, t) => d = c
      /\ IsActiveTarget(c, t) => d.updates = ms /\ d.states = Replaced(c.states, t, x)
  BY <1>1, <1>2, <1>3, <1>4, RemoveDocumentEffect
<1>6. /\ change \in {"Removed", "none"}
      /\ change = "none" => ~TargetContainsDocument(c, t)
  OBVIOUS
<1> HIDE DEF change
<1>7. x \in WideTargetStates /\ x.pending = c.states[t].pending /\ x.change = change
  <2>1. change \in {"none", "Added", "Modified", "Removed"}
    BY <1>6
  <2> QED BY <1>1, <1>2, <2>1, ChangedFields, ZenonT(60)
<1> HIDE DEF x
<1>8. CASE t \notin c.listens
  <2>1. d = c
    BY <1>5, <1>8 DEF IsActiveTarget
  <2> QED BY <1>8, <2>1, UnheardTakes
<1>9. CASE t \in c.listens
  <2>1. About(m, t)
    BY DEF About
  <2>2. IsActiveTarget(c, t) /\ c.states[t].pending = 0
    BY <1>1, <1>9, <2>1, ActiveWhenTold
  <2>3. TargetContainsDocument(c, t) <=> Had(h, c.tokens[t])
    BY <1>1, <1>9 DEF Told, TargetTold, TargetHolds
  <2>4. change = "none" => Claim(h, c.tokens[t]) = 0
    BY <1>6, <2>3 DEF Claim
  <2>5. MessageClaim(m) \in Fits(x.change, Claim(h, c.tokens[t]))
    BY <1>6, <1>7, <2>4 DEF Fits
  <2>6. Truth(h, d)
    <3>1. d.disk = c.disk
      BY <1>5 DEF Aggregates, SameApp, SameStore
    <3>2. \A y \in ms : y = n
      BY DEF ms
    <3>3. TrueIn(h, d.disk.document)
      BY <1>1, <3>1 DEF Truth, Faithful
    <3>4. d.updates = ms
      BY <1>5, <2>2
    <3>5. \A y \in d.updates : TrueIn(h, y)
      BY <3>2, <3>4
    <3>6. \A y1, y2 \in d.updates : y1 = y2
      BY <3>2, <3>4
    <3> QED BY <3>3, <3>5, <3>6 DEF Truth
  <2>7. d.updates # {} /\ \A y \in d.updates : DocumentClaim(y) = MessageClaim(m)
    BY <1>3, <1>5, <2>2 DEF ms, DocumentClaim
  <2> QED BY <1>5, <1>6, <1>7, <1>9, <2>2, <2>5, <2>6, <2>7, TellingTakes, ZenonT(60)
<1> QED BY <1>8, <1>9

\* What the message tells of the document.
LEMMA HandleDocumentChangeTakes ==
    ASSUME NEW h, NEW c, NEW q \in Seq(Messages), q # <<>>, NEW s, Ready(h, c, q, s),
           NEW p, p = Tail(q), NEW m, m = Head(q), m.kind = "document",
           NEW t, t = m.target, NEW d, d = HandleDocumentChange(c, t, m.document)
    PROVE  Takes(h, c, d, q, p, s)
<1>1. m.document \in MaybeDocuments
  <2>1. m \in Messages
    BY TailIs
  <2> QED BY <2>1, MessageFields
<1>2. TrueIn(h, m.document)
  BY HeardTail DEF Ready
<1>3. CASE m.document.exists
  <2>1. d = AddDocumentToTarget(c, t, m.document)
    BY <1>3 DEF HandleDocumentChange
  <2> QED BY <1>3, <2>1, AddDocumentTakes
<1>4. CASE ~m.document.exists
  <2> DEFINE n == m.document
  <2>1. d = RemoveDocumentFromTarget(c, t, {n})
    BY <1>4 DEF HandleDocumentChange
  <2>2. MessageClaim(m) = 0 /\ n \in MaybeDocuments /\ ~n.exists /\ TrueIn(h, n)
    BY <1>1, <1>2, <1>4 DEF MessageClaim, DocumentClaim
  <2> HIDE DEF n
  <2> QED BY <2>1, <2>2, RemoveDocumentTakes
<1> QED BY <1>3, <1>4

\* No document is true at any time.
LEMMA NoneTrue ==
    ASSUME NEW h, Len(h) \in Nat
    PROVE  TrueIn(h, NoneVersion) /\ ~NoneVersion.exists /\ DocumentClaim(NoneVersion) = 0
           /\ NoneVersion.version = 0
BY DEF TrueIn, NoneVersion, MaybeDocument, Had, DocumentClaim

\* The target holds no document any more.
LEMMA HandleExistenceFilterTakes ==
    ASSUME NEW h, NEW c, NEW q \in Seq(Messages), q # <<>>, NEW s, Ready(h, c, q, s),
           NEW p, p = Tail(q), NEW m, m = Head(q), m.kind = "filter",
           NEW t, t = m.target, NEW d, d = HandleExistenceFilter(c, t)
    PROVE  Takes(h, c, d, q, p, s)
<1> DEFINE n == NoneVersion
<1>1. Len(h) \in Nat
  BY LenProperties DEF Ready
<1>2. d = RemoveDocumentFromTarget(c, t, {n})
  BY DEF HandleExistenceFilter
<1>3. n \in MaybeDocuments /\ ~n.exists /\ TrueIn(h, n)
  BY <1>1, NoneTrue, NoneIsDocument
<1>4. MessageClaim(m) = 0
  BY DEF MessageClaim
<1> HIDE DEF n
<1> QED BY <1>2, <1>3, <1>4, RemoveDocumentTakes

\* The target starts over.
LEMMA HandleResetTakes ==
    ASSUME NEW h, NEW c, NEW q \in Seq(Messages), q # <<>>, NEW s, Ready(h, c, q, s),
           NEW p, p = Tail(q), NEW m, m = Head(q), m.kind = "reset",
           NEW t, t = m.target, NEW d, d = HandleReset(c, t)
    PROVE  Takes(h, c, d, q, p, s)
<1>1. c \in WideClients /\ Sound(c, q, s) /\ Faithful(h, c) /\ Told(h, c, q, s)
  BY DEF Ready, Sound
<1>2. t \in Targets
  <2>1. m \in Messages
    BY TailIs
  <2> QED BY <2>1, MessageFields
<1>3. /\ ~IsActiveTarget(c, t) => d = c
      /\ IsActiveTarget(c, t) =>
            /\ ~TargetContainsDocument(c, t) => d = TargetReset(c, t)
            /\ TargetContainsDocument(c, t) =>
                  d = RemoveDocumentFromTarget(TargetReset(c, t), t, {})
  BY <1>1, <1>2, HandleResetEffect
<1>4. CASE t \notin c.listens
  <2>1. d = c
    BY <1>3, <1>4 DEF IsActiveTarget
  <2> QED BY <1>4, <2>1, UnheardTakes
<1>5. CASE t \in c.listens
  <2> DEFINE e == TargetReset(c, t)
  <2>1. About(m, t)
    BY DEF About
  <2>2. IsActiveTarget(c, t) /\ c.states[t].pending = 0
    BY <1>1, <1>5, <2>1, ActiveWhenTold
  <2>3. TargetContainsDocument(c, t) <=> Had(h, c.tokens[t])
    BY <1>1, <1>5 DEF Told, TargetTold, TargetHolds
  <2>4. /\ Aggregates(c, e) /\ e.updates = c.updates
        /\ e.states = Replaced(c.states, t, FreshTarget)
    BY <1>1, <1>2, TargetResetEffect
  <2>5. MessageClaim(m) = 0
    BY DEF MessageClaim
  <2> HIDE DEF e
  <2>6. \E x \in WideTargetStates :
            /\ Aggregates(c, d) /\ d.updates = c.updates
            /\ d.states = Replaced(c.states, t, x) /\ x.pending = 0
            /\ x.change \in {"Removed", "none"}
            /\ x.change = "none" => ~TargetContainsDocument(c, t)
    <3>1. CASE ~TargetContainsDocument(c, t)
      <4>1. d = e
        BY <1>3, <2>2, <3>1 DEF e
      <4> QED BY <2>4, <3>1, <4>1, FreshFields
    <3>2. CASE TargetContainsDocument(c, t)
      <4> DEFINE ms == {}
                 x == Changed(e, t, "Removed")
      <4>1. d = RemoveDocumentFromTarget(e, t, ms) /\ ms = {}
        BY <1>3, <2>2, <3>2 DEF e
      <4>2. e \in WideClients /\ ms \in SUBSET MaybeDocuments
        BY <2>4 DEF Aggregates
      <4> HIDE DEF ms
      <4>3. e.states[t] = FreshTarget
        BY <1>1, <1>2, <2>4, ClientFields, FreshFields, ReplacedFields, SMTT(40)
      <4>4. IsActiveTarget(e, t) /\ TargetContainsDocument(e, t)
        BY <1>5, <2>4, <3>2, <4>3, FreshFields, AggregateContains
            DEF IsActiveTarget, Aggregates
      <4>5. /\ Aggregates(e, d) /\ d.updates = e.updates
            /\ d.states = Replaced(e.states, t, x)
        BY <1>2, <4>1, <4>2, <4>4, RemoveDocumentEffect
      <4>6. x \in WideTargetStates /\ x.pending = 0 /\ x.change = "Removed"
        BY <1>2, <4>2, <4>3, ChangedFields, FreshFields, ZenonT(60)
      <4> HIDE DEF x
      <4>7. Replaced(e.states, t, x) = Replaced(c.states, t, x)
        BY <1>1, <1>2, <2>4, ClientFields DEF Replaced
      <4>8. Aggregates(c, d)
        BY <2>4, <4>5 DEF Aggregates, SameApp, SameShown, SameStore, SameLimbo
      <4> QED BY <2>4, <4>5, <4>6, <4>7, <4>8
    <3> QED BY <3>1, <3>2
  <2>7. PICK x \in WideTargetStates :
            /\ Aggregates(c, d) /\ d.updates = c.updates
            /\ d.states = Replaced(c.states, t, x) /\ x.pending = 0
            /\ x.change \in {"Removed", "none"}
            /\ x.change = "none" => ~TargetContainsDocument(c, t)
    BY <2>6
  <2>8. x.change = "none" => Claim(h, c.tokens[t]) = 0
    BY <2>3, <2>7 DEF Claim
  <2>9. MessageClaim(m) \in Fits(x.change, Claim(h, c.tokens[t]))
    BY <2>5, <2>7, <2>8 DEF Fits
  <2>10. Truth(h, d)
    BY <1>1, <2>7 DEF Truth, Faithful, Aggregates, SameApp, SameStore
  <2> QED BY <1>5, <2>7, <2>9, <2>10, TellingTakes
<1> QED BY <1>4, <1>5

-----------------------------------------------------------------------------
(* A global snapshot *)

\* A document that is missing at the version v.
Absent(v) == MaybeDocument(FALSE, v)

\* The document that is absent as of the version v.
LEMMA AbsentFields ==
    ASSUME NEW v \in 0..MaxVersion
    PROVE  Absent(v) \in MaybeDocuments /\ ~Absent(v).exists /\ Absent(v).version = v
           /\ DocumentClaim(Absent(v)) = 0
BY DEF Absent, MaybeDocument, MaybeDocuments, DocumentClaim

\* The snapshot v is noted for the active targets.
Noted(c, d, v) ==
    /\ Aggregates(c, d)
    /\ \A t \in Targets :
          /\ d.states[t].change = c.states[t].change
          /\ d.states[t].pending = c.states[t].pending
          /\ IsActiveTarget(c, t) => d.states[t].dirty /\ d.states[t].token = v

\* What is deduced is that a document is missing that an active target does not hold.
Deduced(c, d, v) ==
    \/ d.updates = c.updates
    \/ /\ c.updates = {} /\ d.updates = {Absent(v)}
       /\ \E t \in c.listens : c.states[t].pending = 0 /\ ~TargetContainsDocument(c, t)

\* What a global snapshot deduces of a target that is current and holds nothing.
LEMMA DeducedIs ==
    ASSUME NEW c \in WideClients, NEW v \in 1..MaxVersion, NEW d, d = DeduceMissing(c, v)
    PROVE  Deduced(c, d, v)
<1> DEFINE found == \E t \in Targets : /\ IsActiveTarget(c, t)
                                       /\ c.states[t].current
                                       /\ ~TargetContainsDocument(c, t)
<1>1. CASE c.updates = {} /\ found
  <2>1. d = [c EXCEPT !.updates = {Absent(v)}]
    BY <1>1 DEF DeduceMissing, Absent
  <2>2. d.updates = {Absent(v)}
    BY <2>1 DEF WideClients
  <2>3. \E t \in c.listens : c.states[t].pending = 0 /\ ~TargetContainsDocument(c, t)
    BY <1>1 DEF IsActiveTarget
  <2> QED BY <1>1, <2>2, <2>3 DEF Deduced
<1>2. CASE ~(c.updates = {} /\ found)
  <2>1. d = c
    BY <1>2 DEF DeduceMissing
  <2> QED BY <2>1 DEF Deduced
<1> QED BY <1>1, <1>2

\* HandleNoChange and DeduceMissing in terms of what they leave.
LEMMA SnapshotNoted ==
    ASSUME NEW c \in WideClients, NEW v \in 1..MaxVersion, NEW a, a = HandleNoChange(c, v),
           NEW d, d = DeduceMissing(a, v)
    PROVE  Noted(c, d, v) /\ Deduced(c, d, v)
<1>1. v \in 0..MaxVersion /\ v # 0
  BY WatchAssumption
<1>2. Aggregates(c, a) /\ a.updates = c.updates /\ a.states = AllTold(c, v)
  BY <1>1, HandleNoChangeEffect
<1>3. a \in WideClients
  BY <1>2 DEF Aggregates
<1>4. Aggregates(a, d) /\ d.states = a.states
  BY <1>3, DeduceMissingEffect
<1>5. Deduced(a, d, v)
  BY <1>3, DeducedIs
<1>6. Aggregates(c, d)
  BY <1>2, <1>4 DEF Aggregates, SameApp, SameShown, SameStore, SameLimbo
<1>7. ASSUME NEW t \in Targets
      PROVE  /\ d.states[t].change = c.states[t].change
             /\ d.states[t].pending = c.states[t].pending
             /\ IsActiveTarget(c, t) => d.states[t].dirty /\ d.states[t].token = v
  <2> DEFINE x == TokenState(c.states[t], v)
  <2>1. d.states[t] = IF IsActiveTarget(c, t) THEN x ELSE c.states[t]
    BY <1>1, <1>2, <1>4, AllToldFields
  <2>2. c.states[t] \in WideTargetStates
    BY ClientFields
  <2>3. x.change = c.states[t].change /\ x.pending = c.states[t].pending
        /\ x.dirty = TRUE /\ x.token = v
    BY <1>1, <2>2, TokenFields
  <2> HIDE DEF x
  <2> QED BY <2>1, <2>3
<1>8. \A t \in c.listens : a.listens = c.listens /\ a.states[t].pending = c.states[t].pending
          /\ (TargetContainsDocument(a, t) <=> TargetContainsDocument(c, t))
  <2> TAKE t \in c.listens
  <2>1. t \in Targets
    BY ClientFields
  <2> QED BY <1>2, <1>4, <1>7, <2>1, AggregateContains DEF Aggregates
<1>9. Deduced(c, d, v)
  <2>1. CASE d.updates = a.updates
    BY <1>2, <2>1 DEF Deduced
  <2>2. CASE d.updates # a.updates
    BY <1>2, <1>5, <1>8, <2>2 DEF Deduced, Aggregates
  <2> QED BY <2>1, <2>2
<1> QED BY <1>6, <1>7, <1>9 DEF Noted

\* A snapshot finds the active targets where it was told it would.
LEMMA SnapshotMarks ==
    ASSUME NEW h, NEW c, NEW q \in Seq(Messages), q # <<>>, NEW s, Sound(c, q, s),
           NEW p, p = Tail(q), NEW m, m = Head(q), m.kind = "snapshot",
           NEW t \in c.listens, c.states[t].pending = 0,
           NEW ks, Line(h, c, q, s, t, ks), NEW d, Wants(d, t) => Wants(c, t)
    PROVE  /\ Claim(h, m.version) \in ks
           /\ Line(h, d, p, s, t, {Claim(h, m.version)})
           /\ ~Asks(c, "watch", t)
<1> DEFINE v == m.version
<1>1. t \in Targets
  BY ClientFields DEF Sound
<1>2. m \in Messages /\ m = q[1] /\ 1 \in DOMAIN q
  BY TailIs
<1>3. v \in Nat
  BY <1>2, MessageFields
<1>4. c.open
  BY HeardSound
<1>5. ~Asks(c, "watch", t) /\ ~Tells(q, "added", t)
  <2>1. c.states[t].pending = One(Asks(c, "watch", t) \/ Tells(q, "added", t))
    BY <1>1, <1>4 DEF Sound, Protocol, TargetProtocol
  <2> QED BY <2>1 DEF One
<1>6. Wants(c, t)
  BY <1>4, <1>5 DEF Wants
<1>7. Reached(q, t, 1)
  <2>1. \A j \in DOMAIN q : 1 <= j
    BY TailIs
  <2> QED BY <1>5, <2>1 DEF Reached, Tells
<1>8. Mark(c, q, s, t, 1, v)
  BY <1>2, <1>6, <1>7 DEF Mark
<1>9. Quiet(q, t, 1, 1)
  <2>1. \A j \in DOMAIN q : ~(1 <= j /\ j < 1)
    BY TailIs
  <2> QED BY <2>1 DEF Quiet
<1>10. Claim(h, v) \in ks
  BY <1>3, <1>8, <1>9 DEF Line, FirstMarks
<1>11. ASSUME NEW i \in Nat, NEW w \in Nat, Mark(c, q, s, t, i, w), Quiet(q, t, 1, i)
       PROVE  Claim(h, w) = Claim(h, v)
  <2>1. i >= 1
    BY <1>2, <1>11, TailIs DEF Mark
  <2>2. CASE i = 1
    <3>1. w = v
      BY <1>2, <1>11, <2>2, TailIs DEF Mark
    <3> QED BY <3>1
  <2>3. CASE i > 1
    BY <1>3, <1>8, <1>11, <2>3 DEF Line, NothingNew
  <2> QED BY <2>1, <2>2, <2>3
<1> DEFINE ls == {Claim(h, v)}
<1>12. Line(h, c, q, s, t, ls)
  <2>1. FirstMarks(h, c, q, s, t, ls)
    BY <1>11 DEF FirstMarks
  <2> QED BY <2>1 DEF Line
<1> HIDE DEF ls
<1>13. Line(h, d, p, s, t, ls)
  <2>1. ~Telling(m, t) /\ (m.kind = "snapshot" => m.version \in Nat)
    BY <1>3 DEF Telling
  <2>2. Wants(d, t) => Wants(c, t) /\ ~(m.kind = "rejected" /\ m.target = t)
    OBVIOUS
  <2> QED BY <1>12, <2>1, <2>2, LineTail
<1> QED BY <1>5, <1>10, <1>13 DEF ls

\* What a pending change makes of a target that held the document or did not.
Holding(change, held) == change = "Added" \/ (change # "Removed" /\ held)

\* A target holds the document after its change if and only if the server has it.
LEMMA HoldingHad ==
    ASSUME NEW h, NEW v \in Nat, NEW w \in Nat,
           NEW change \in {"none", "Added", "Modified", "Removed"},
           Claim(h, v) \in Fits(change, Claim(h, w)), NEW held, held <=> Had(h, w),
           change = "Modified" => held
    PROVE  Holding(change, held) <=> Had(h, v)
<1>1. Claim(h, v) # 0 <=> Had(h, v)
  BY ClaimNat
<1>2. Claim(h, w) # 0 <=> Had(h, w)
  BY ClaimNat
<1> QED BY <1>1, <1>2 DEF Holding, Fits

\* What a change of a target makes of what goes with it.
LEMMA OneChange ==
    ASSUME NEW x, NEW change, change = {x}, NEW b \in BOOLEAN
    PROVE  /\ SyncedOf(change, b) <=> Holding(x.change, b)
           /\ KeysOf(change, b) <=> Holding(x.change, b)
           /\ ReceivedOf(change, b) <=> Holding(x.change, b)
           /\ CurrentOf(change, b) <=> x.current
BY DEF SyncedOf, KeysOf, ReceivedOf, CurrentOf, Holding

\* A target without a change leaves the view, the keys and the token.
LEMMA NoChange ==
    ASSUME NEW change, change = {}, NEW b
    PROVE  /\ SyncedOf(change, b) = b /\ KeysOf(change, b) = b
           /\ ReceivedOf(change, b) = b /\ CurrentOf(change, b) = b
           /\ TokenOf(change, b) = b
BY DEF SyncedOf, KeysOf, ReceivedOf, CurrentOf, TokenOf

\* It leaves the token on disk.
LEMMA NoDiskToken ==
    ASSUME NEW change, change = {}, NEW token, NEW kept, NEW old
    PROVE  DiskTokenOf(change, token, kept, old) = kept
BY DEF DiskTokenOf

\* The token a change brings, in the view at once and on disk when it is saved.
LEMMA OneToken ==
    ASSUME NEW x, NEW change, change = {x}, x.token # 0, NEW token, NEW kept, NEW old \in BOOLEAN
    PROVE  /\ TokenOf(change, token) = x.token
           /\ token = 0 \/ x.change # "none" \/ old =>
                 DiskTokenOf(change, token, kept, old) = x.token
           /\ ~(token = 0 \/ x.change # "none" \/ old) =>
                 DiskTokenOf(change, token, kept, old) = kept
BY DEF TokenOf, DiskTokenOf

\* The client after a snapshot's event, before the limbo document is seen to.
After(d, g) ==
    /\ g.open = d.open /\ g.requests = d.requests /\ g.listens = d.listens
    /\ g.tokens = ClearedTokens(d) /\ g.states = ClearedStates(d) /\ g.updates = {}
    /\ g.limbo = d.limbo /\ g.received = EventReceived(d)
    /\ g.view.on = d.view.on /\ g.view.synced = SyncedOf(ChangeOf(d, Main), d.view.synced)

\* What was dirty is cleared and takes its new token; the rest stays.
LEMMA ClearedFields ==
    ASSUME NEW d, NEW t \in Targets
    PROVE  /\ Dirty(d, t) => ClearedStates(d)[t] = ClearedState(d.states[t])
           /\ ~Dirty(d, t) => ClearedStates(d)[t] = d.states[t]
           /\ Dirty(d, t) /\ d.states[t].token # 0 => ClearedTokens(d)[t] = d.states[t].token
           /\ ~Dirty(d, t) => ClearedTokens(d)[t] = d.tokens[t]
BY DEF ClearedStates, ClearedTokens

\* A cleared state has no change.
LEMMA ClearedStateFields ==
    ASSUME NEW x \in WideTargetStates
    PROVE  ClearedState(x).change = "none" /\ ClearedState(x).pending = x.pending
BY DEF ClearedState, WideTargetStates

\* Whether the target holds the document after the event.
LEMMA EventContains ==
    ASSUME NEW c \in WideClients, Coherent(c), NEW d, Aggregates(c, d), NEW g, After(d, g),
           NEW t \in c.listens
    PROVE  /\ Dirty(d, t) => (TargetContainsDocument(g, t) <=>
                                 Holding(d.states[t].change, TargetContainsDocument(c, t)))
           /\ ~Dirty(d, t) => (TargetContainsDocument(g, t) <=> TargetContainsDocument(c, t))
<1>1. /\ d \in WideClients /\ d.limbo = c.limbo /\ d.received = c.received /\ d.view = c.view
      /\ d.listens = c.listens
  BY DEF Aggregates, SameApp, SameLimbo
<1>2. t = Main \/ t = c.limbo
  BY DEF Coherent
<1>3. c.received \in BOOLEAN /\ c.view.synced \in BOOLEAN
  BY ClientFields, ViewFields
<1>4. t = Main => c.view.on
  BY DEF Coherent
<1> DEFINE change == ChangeOf(d, t)
<1>5. Dirty(d, t) => change = {d.states[t]}
  BY DEF ChangeOf
<1>6. ~Dirty(d, t) => change = {}
  BY DEF ChangeOf
<1> HIDE DEF change
<1>7. CASE t = Main
  <2>1. TargetContainsDocument(g, t) <=> g.view.on /\ g.view.synced
    BY <1>7 DEF TargetContainsDocument
  <2>2. TargetContainsDocument(c, t) <=> c.view.synced
    BY <1>4, <1>7 DEF TargetContainsDocument
  <2>3. g.view.on /\ g.view.synced = SyncedOf(change, c.view.synced)
    BY <1>1, <1>4, <1>7 DEF After, change
  <2>4. Dirty(d, t) => (SyncedOf(change, c.view.synced) <=>
                           Holding(d.states[t].change, c.view.synced))
    BY <1>3, <1>5, OneChange
  <2>5. ~Dirty(d, t) => SyncedOf(change, c.view.synced) = c.view.synced
    BY <1>6, NoChange
  <2> QED BY <2>1, <2>2, <2>3, <2>4, <2>5 DEF Holding
<1>8. CASE t # Main
  <2>1. t = c.limbo /\ d.limbo # 0
    BY <1>1, <1>2, <1>8 DEF Main
  <2>2. TargetContainsDocument(g, t) <=> g.received
    BY <1>1, <1>8, <2>1 DEF TargetContainsDocument, After
  <2>3. TargetContainsDocument(c, t) <=> c.received
    BY <1>8, <2>1 DEF TargetContainsDocument
  <2>4. g.received = ReceivedOf(change, c.received)
    BY <1>1, <2>1 DEF After, EventReceived, change
  <2>5. Dirty(d, t) => (ReceivedOf(change, c.received) <=>
                           Holding(d.states[t].change, c.received))
    BY <1>3, <1>5, OneChange
  <2>6. ~Dirty(d, t) => ReceivedOf(change, c.received) = c.received
    BY <1>6, NoChange
  <2> QED BY <2>2, <2>3, <2>4, <2>5, <2>6 DEF Holding
<1> QED BY <1>7, <1>8

\* An active target holds the document as it is at the snapshot.
LEMMA ActiveEvent ==
    ASSUME NEW c \in WideClients, Coherent(c), NEW v \in 1..MaxVersion, NEW d, Noted(c, d, v),
           NEW g, After(d, g), NEW t \in c.listens, c.states[t].pending = 0
    PROVE  /\ Dirty(d, t) /\ d.states[t].token = v /\ d.states[t].change = c.states[t].change
           /\ g.tokens[t] = v
           /\ g.states[t].change = "none" /\ g.states[t].pending = 0
           /\ TargetContainsDocument(g, t) <=>
                  Holding(c.states[t].change, TargetContainsDocument(c, t))
<1>1. t \in Targets /\ Aggregates(c, d) /\ d \in WideClients /\ d.listens = c.listens
  BY ClientFields DEF Noted, Aggregates
<1>2. IsActiveTarget(c, t)
  BY DEF IsActiveTarget
<1>3. /\ d.states[t].change = c.states[t].change
      /\ d.states[t].pending = 0
      /\ d.states[t].dirty /\ d.states[t].token = v
  BY <1>1, <1>2 DEF Noted
<1>4. Dirty(d, t) /\ v # 0
  BY <1>1, <1>3 DEF Dirty, IsActiveTarget
<1>5. g.tokens[t] = v /\ g.states[t] = ClearedState(d.states[t])
  BY <1>1, <1>3, <1>4, ClearedFields DEF After
<1>6. g.states[t].change = "none" /\ g.states[t].pending = 0
  BY <1>1, <1>3, <1>5, ClientFields, ClearedStateFields
<1>7. TargetContainsDocument(g, t) <=>
          Holding(c.states[t].change, TargetContainsDocument(c, t))
  BY <1>1, <1>3, <1>4, EventContains
<1> QED BY <1>3, <1>4, <1>5, <1>6, <1>7

\* A target that is not active is left as it is.
LEMMA PendingEvent ==
    ASSUME NEW c \in WideClients, Coherent(c), NEW v \in 1..MaxVersion, NEW d, Noted(c, d, v),
           NEW g, After(d, g), NEW t \in c.listens, c.states[t].pending # 0
    PROVE  /\ ~Dirty(d, t)
           /\ g.tokens[t] = c.tokens[t]
           /\ g.states[t].change = c.states[t].change
           /\ g.states[t].pending = c.states[t].pending
           /\ TargetContainsDocument(g, t) <=> TargetContainsDocument(c, t)
<1>1. t \in Targets /\ Aggregates(c, d) /\ d.tokens = c.tokens
  BY ClientFields DEF Noted, Aggregates
<1>2. /\ d.states[t].change = c.states[t].change
      /\ d.states[t].pending = c.states[t].pending
  BY <1>1 DEF Noted
<1>3. ~Dirty(d, t)
  BY <1>2 DEF Dirty, IsActiveTarget
<1>4. g.tokens[t] = c.tokens[t] /\ g.states[t] = d.states[t]
  BY <1>1, <1>3, ClearedFields DEF After
<1>5. TargetContainsDocument(g, t) <=> TargetContainsDocument(c, t)
  BY <1>1, <1>3, EventContains
<1> QED BY <1>2, <1>3, <1>4, <1>5

\* What an active target is going to hold is what is so at the snapshot.
LEMMA SnapshotClaims ==
    ASSUME NEW h, NEW c, NEW q \in Seq(Messages), q # <<>>, NEW s, Ready(h, c, q, s),
           NEW p, p = Tail(q), NEW m, m = Head(q), m.kind = "snapshot",
           NEW t \in c.listens, c.states[t].pending = 0
    PROVE  /\ Claim(h, m.version) \in Fits(c.states[t].change, Claim(h, c.tokens[t]))
           /\ Holding(c.states[t].change, TargetContainsDocument(c, t)) <=> Had(h, m.version)
           /\ c.states[t].change = "Modified" => TargetContainsDocument(c, t)
<1>1. Sound(c, q, s) /\ c \in WideClients /\ Coherent(c)
  BY DEF Ready, Sound
<1>2. TargetTold(h, c, q, s, t) /\ t \in Targets
  BY <1>1, ClientFields DEF Ready, Told
<1> DEFINE ks == Fits(c.states[t].change, Claim(h, c.tokens[t]))
<1>3. Line(h, c, q, s, t, ks)
  BY <1>2 DEF TargetTold
<1> HIDE DEF ks
<1>4. Claim(h, m.version) \in ks
  <2>1. Wants(c, t) => Wants(c, t)
    OBVIOUS
  <2> QED BY <1>1, <1>3, <2>1, SnapshotMarks
<1>5. (TargetContainsDocument(c, t) <=> Had(h, c.tokens[t])) /\ c.tokens[t] \in Nat
  BY <1>1, <1>2, ClientFields DEF TargetTold, TargetHolds
<1>6. /\ c.states[t].change \in {"none", "Added", "Modified", "Removed"}
      /\ c.states[t].change = "Modified" => TargetContainsDocument(c, t)
  <2>1. c.states[t] \in WideTargetStates
    BY <1>1, <1>2, ClientFields
  <2> QED BY <1>1, <1>2, <2>1, StateFields DEF Coherent, ChangeFits
<1>7. m.version \in Nat
  <2>1. m \in Messages
    BY TailIs
  <2> QED BY <2>1, MessageFields
<1> DEFINE held == TargetContainsDocument(c, t)
           change == c.states[t].change
<1>8. Claim(h, m.version) \in Fits(change, Claim(h, c.tokens[t]))
  BY <1>4 DEF ks
<1>9. (held <=> Had(h, c.tokens[t])) /\ (change = "Modified" => held)
      /\ change \in {"none", "Added", "Modified", "Removed"}
  BY <1>5, <1>6
<1> HIDE DEF held, change
<1>10. Holding(change, held) <=> Had(h, m.version)
  BY <1>5, <1>7, <1>8, <1>9, HoldingHad
<1> QED BY <1>6, <1>8, <1>10 DEF held, change

\* The targets after the event are told what is on its way.
LEMMA EventTold ==
    ASSUME NEW h, NEW c, NEW q \in Seq(Messages), q # <<>>, NEW s, Ready(h, c, q, s),
           NEW p, p = Tail(q), NEW m, m = Head(q), m.kind = "snapshot",
           NEW d, Noted(c, d, m.version), NEW g, After(d, g)
    PROVE  Told(h, g, p, s)
<1> DEFINE v == m.version
<1>1. Sound(c, q, s) /\ c \in WideClients /\ Coherent(c) /\ Told(h, c, q, s)
      /\ Heard(h, q) /\ h \in Seq(BOOLEAN)
  BY DEF Ready, Sound
<1>2. v \in 1..MaxVersion /\ v \in DOMAIN h
  <2>1. m \in Messages
    BY TailIs
  <2> QED BY <1>1, <2>1, MessageFields, HeardTail
<1>3. DOMAIN h = 1..Len(h) /\ Len(h) \in Nat
  BY <1>1, LenProperties
<1>4. /\ g.open = c.open /\ g.requests = c.requests /\ g.listens = c.listens
  BY DEF After, Noted, Aggregates
<1>5. \A t : Wants(g, t) => Wants(c, t)
  BY <1>4 DEF Wants, Asks
<1>6. Noted(c, d, v)
  OBVIOUS
<1>7. m.kind # "rejected" /\ \A t : ~Telling(m, t)
  BY DEF Telling
<1> HIDE DEF v
<1>8. ASSUME NEW t \in c.listens PROVE TargetTold(h, g, p, s, t)
  <2>1. Line(h, c, q, s, t, Fits(c.states[t].change, Claim(h, c.tokens[t])))
        /\ TargetHolds(h, c, q, s, t) /\ t \in Targets
    BY <1>1, <1>8, ClientFields DEF Told, TargetTold
  <2>2. Wants(g, t) /\ s[t].phase = "none" => Tells(p, "rejected", t)
    BY <1>1, <1>5, <1>7, AnswerTail
  <2>3. CASE c.states[t].pending = 0
    <3>1. /\ g.tokens[t] = v
          /\ g.states[t].change = "none"
          /\ TargetContainsDocument(g, t) <=>
                 Holding(c.states[t].change, TargetContainsDocument(c, t))
      BY <1>1, <1>2, <1>6, <2>3, ActiveEvent
    <3>2. Holding(c.states[t].change, TargetContainsDocument(c, t)) <=> Had(h, v)
      BY <2>3, SnapshotClaims DEF v
    <3> DEFINE ks == Fits(c.states[t].change, Claim(h, c.tokens[t]))
    <3>3. Line(h, c, q, s, t, ks)
      BY <2>1
    <3> HIDE DEF ks
    <3>4. Line(h, g, p, s, t, {Claim(h, v)}) /\ ~Asks(c, "watch", t)
      BY <1>1, <1>5, <2>3, <3>3, SnapshotMarks DEF v
    <3>5. Claim(h, v) \in Nat
      BY <1>2, ClaimNat
    <3>6. Line(h, g, p, s, t, Fits(g.states[t].change, Claim(h, g.tokens[t])))
      <4> DEFINE k == Claim(h, v)
      <4>1. Fits("none", k) = {k}
        BY <3>5, FitsNone
      <4> QED BY <3>1, <3>4, <4>1
    <3>7. TargetHolds(h, g, p, s, t)
      <4>1. \A r \in g.requests : ~(r.kind = "watch" /\ r.target = t)
        BY <1>4, <3>4 DEF Asks
      <4>2. v \in 0..Len(h)
        BY <1>2, <1>3
      <4> QED BY <2>2, <3>1, <3>2, <4>1, <4>2 DEF TargetHolds
    <3> QED BY <3>6, <3>7 DEF TargetTold
  <2>4. CASE c.states[t].pending # 0
    <3>1. /\ g.tokens[t] = c.tokens[t]
          /\ g.states[t].change = c.states[t].change
          /\ g.states[t].pending = c.states[t].pending
          /\ TargetContainsDocument(g, t) <=> TargetContainsDocument(c, t)
      BY <1>1, <1>2, <1>6, <2>4, PendingEvent
    <3> DEFINE ks == Fits(c.states[t].change, Claim(h, c.tokens[t]))
    <3>2. Line(h, c, q, s, t, ks)
      BY <2>1
    <3> HIDE DEF ks
    <3>3. Wants(g, t) => Wants(c, t) /\ ~(m.kind = "rejected" /\ m.target = t)
      BY <1>5, <1>7
    <3>4. ~Telling(m, t) /\ (m.kind = "snapshot" => m.version \in Nat)
      BY <1>2, <1>7 DEF v
    <3>5. Line(h, g, p, s, t, ks)
      BY <3>2, <3>3, <3>4, LineTail
    <3>6. Line(h, g, p, s, t, Fits(g.states[t].change, Claim(h, g.tokens[t])))
      BY <3>1, <3>5 DEF ks
    <3>7. TargetHolds(h, g, p, s, t)
      BY <1>4, <2>1, <2>2, <2>4, <3>1 DEF TargetHolds
    <3> QED BY <3>6, <3>7 DEF TargetTold
  <2> QED BY <2>3, <2>4
<1> QED BY <1>4, <1>8 DEF Told

\* What the event says of the document is so at the snapshot.
TrueUpdates(h, d) ==
    /\ \A y \in d.updates : TrueIn(h, y)
    /\ \A y1, y2 \in d.updates : y1 = y2
ClaimedAt(h, d, v) == \A y \in d.updates : DocumentClaim(y) = Claim(h, v)

\* What is held back is true at the snapshot, and claims what it claims if nothing was taken back.
LEMMA SnapshotUpdates ==
    ASSUME NEW h, NEW c, NEW q \in Seq(Messages), q # <<>>, NEW s, Ready(h, c, q, s),
           NEW p, p = Tail(q), NEW m, m = Head(q), m.kind = "snapshot",
           NEW d, Deduced(c, d, m.version)
    PROVE  /\ TrueUpdates(h, d)
           /\ Unbroken(h, c, q, s) => ClaimedAt(h, d, m.version)
           /\ d.updates = {} => c.updates = {}
<1> USE DEF TrueUpdates, ClaimedAt
<1> DEFINE v == m.version
<1>1. Sound(c, q, s) /\ c \in WideClients /\ Coherent(c) /\ Told(h, c, q, s)
      /\ Heard(h, q) /\ h \in Seq(BOOLEAN) /\ Truth(h, c)
  BY DEF Ready, Sound, Faithful
<1>2. v \in 1..MaxVersion /\ v \in DOMAIN h
  <2>1. m \in Messages
    BY TailIs
  <2> QED BY <1>1, <2>1, MessageFields, HeardTail
<1>3. DOMAIN h = 1..Len(h) /\ Len(h) \in Nat
  BY <1>1, LenProperties
<1>4. Deduced(c, d, v)
  OBVIOUS
<1>5. v \in 0..MaxVersion /\ v \in Nat /\ v \in 0..Len(h)
  BY <1>2, <1>3, WatchAssumption
<1>6. CASE d.updates = c.updates
  <2>1. ASSUME Unbroken(h, c, q, s), NEW y \in d.updates PROVE DocumentClaim(y) = Claim(h, v)
    <3>1. PICK t \in c.listens : /\ c.states[t].pending = 0
                                 /\ Line(h, c, q, s, t, {DocumentClaim(y)})
      BY <1>6, <2>1 DEF Unbroken, Backs, Backed
    <3> DEFINE ks == {DocumentClaim(y)}
    <3>2. Line(h, c, q, s, t, ks)
      BY <3>1
    <3> HIDE DEF ks
    <3>3. Claim(h, v) \in ks
      <4>1. Wants(c, t) => Wants(c, t)
        OBVIOUS
      <4> QED BY <1>1, <3>1, <3>2, <4>1, SnapshotMarks
    <3> QED BY <3>3 DEF ks
  <2> QED BY <1>1, <1>6, <2>1 DEF Truth
<1>7. CASE d.updates # c.updates
  <2>1. PICK t \in c.listens : c.states[t].pending = 0 /\ ~TargetContainsDocument(c, t)
    BY <1>4, <1>7 DEF Deduced
  <2>2. c.updates = {} /\ d.updates = {Absent(v)}
    BY <1>4, <1>7 DEF Deduced
  <2>3. TargetHolds(h, c, q, s, t)
    BY <1>1, <2>1 DEF Told, TargetTold
  <2>4. /\ Holding(c.states[t].change, TargetContainsDocument(c, t)) <=> Had(h, v)
        /\ c.states[t].change = "Modified" => TargetContainsDocument(c, t)
    BY <2>1, SnapshotClaims
  <2>5. ~Had(h, v)
    BY <2>1, <2>2, <2>3, <2>4 DEF Holding, TargetHolds
  <2> DEFINE a == Absent(v)
  <2>6. ~a.exists /\ a.version = v /\ DocumentClaim(a) = 0
    BY <1>5, AbsentFields
  <2> HIDE DEF a
  <2>7. TrueIn(h, a) /\ DocumentClaim(a) = Claim(h, v)
    BY <1>5, <2>5, <2>6 DEF TrueIn, Claim
  <2>8. \A y \in d.updates : y = a
    BY <2>2 DEF a
  <2>9. d.updates # {}
    BY <2>2
  <2> QED BY <2>7, <2>8, <2>9
<1> QED BY <1>6, <1>7

\* What the event records on disk.
Recorded(d, e, v, old) ==
    /\ e.disk.document = StoredOf(NewsOf(d.disk.document, d.updates), d.disk.document)
    /\ e.disk.keys = KeysOf(ChangeOf(d, Main), d.disk.keys)
    /\ e.token = TokenOf(ChangeOf(d, Main), d.token)
    /\ e.disk.token = DiskTokenOf(ChangeOf(d, Main), d.token, d.disk.token, old)
    /\ e.disk.version = v

\* The main target's part.
LEMMA RecordedMain ==
    ASSUME NEW c \in WideClients, NEW v \in 1..MaxVersion, NEW d, Noted(c, d, v),
           NEW old \in BOOLEAN, NEW e, Recorded(d, e, v, old)
    PROVE  /\ IsActiveTarget(c, Main) =>
                 /\ e.token = v
                 /\ e.disk.keys <=> Holding(c.states[Main].change, c.disk.keys)
                 /\ \/ e.disk.token = v
                    \/ e.disk.token = c.disk.token /\ c.states[Main].change = "none"
           /\ ~IsActiveTarget(c, Main) =>
                 /\ e.token = c.token /\ e.disk.keys = c.disk.keys
                 /\ e.disk.token = c.disk.token
<1>1. Main \in Targets /\ v # 0
  BY TargetFacts
<1>2. d.disk = c.disk /\ d.token = c.token /\ d.listens = c.listens
  BY DEF Noted, Aggregates, SameApp, SameStore
<1>3. c.disk.keys \in BOOLEAN
  BY ClientFields, DiskFields
<1> DEFINE x == d.states[Main]
           change == ChangeOf(d, Main)
<1>4. x.change = c.states[Main].change /\ x.pending = c.states[Main].pending
      /\ (IsActiveTarget(c, Main) => x.dirty /\ x.token = v)
  BY <1>1 DEF Noted
<1>5. IsActiveTarget(c, Main) => change = {x}
  BY <1>2, <1>4 DEF ChangeOf, Dirty, IsActiveTarget
<1>6. ~IsActiveTarget(c, Main) => change = {}
  BY <1>2, <1>4 DEF ChangeOf, Dirty, IsActiveTarget
<1>7. /\ e.disk.keys = KeysOf(change, c.disk.keys) /\ e.token = TokenOf(change, c.token)
      /\ e.disk.token = DiskTokenOf(change, c.token, c.disk.token, old)
  BY <1>2 DEF Recorded
<1> HIDE DEF x, change
<1>8. CASE IsActiveTarget(c, Main)
  <2>1. change = {x} /\ x.token = v
    BY <1>4, <1>5, <1>8
  <2>2. e.disk.keys <=> Holding(x.change, c.disk.keys)
    BY <1>3, <1>7, <2>1, OneChange
  <2>3. /\ e.token = v
        /\ e.disk.token = v \/ (e.disk.token = c.disk.token /\ x.change = "none")
    BY <1>1, <1>7, <2>1, OneToken
  <2> QED BY <1>4, <1>8, <2>2, <2>3
<1>9. CASE ~IsActiveTarget(c, Main)
  BY <1>6, <1>7, <1>9, NoChange, NoDiskToken
<1> QED BY <1>8, <1>9

\* The document's part: it is news, or the one on disk is not older.
NotNews(c, d) == \A y \in d.updates : y # NoneVersion /\ y.version <= c.disk.document.version

\* The document on disk stays, for it is not older, or is one held back.
LEMMA RecordedDocument ==
    ASSUME NEW c \in WideClients, NEW v, NEW d, Noted(c, d, v),
           NEW h, TrueUpdates(h, d), NEW old, NEW e, Recorded(d, e, v, old),
           NEW news, news = NewsOf(d.disk.document, d.updates), NEW shown
    PROVE  \/ /\ e.disk.document = c.disk.document /\ DocumentOf(news, shown) = shown
              /\ NotNews(c, d)
           \/ /\ e.disk.document \in d.updates
              /\ DocumentOf(news, shown) = DocumentClaim(e.disk.document)
<1> USE DEF TrueUpdates, NotNews
<1>1. d.disk = c.disk /\ d.updates \in SUBSET MaybeDocuments
  BY ClientFields DEF Noted, Aggregates, SameApp, SameStore
<1>2. c.disk.document.version \in Nat
  <2>1. c.disk \in Disks
    BY ClientFields
  <2>2. c.disk.document \in MaybeDocuments
    BY <2>1, DiskFields
  <2> QED BY <2>2, DocumentFields
<1>3. e.disk.document = StoredOf(news, c.disk.document)
  BY <1>1 DEF Recorded
<1>4. CASE news = {}
  <2>1. e.disk.document = c.disk.document /\ DocumentOf(news, shown) = shown
    BY <1>3, <1>4 DEF StoredOf, DocumentOf
  <2>2. ASSUME NEW y \in d.updates
        PROVE  y # NoneVersion /\ y.version <= c.disk.document.version
    <3>1. y \notin NewsOf(d.disk.document, d.updates)
      BY <1>4
    <3>2. y # NoneVersion /\ ~(y.version > c.disk.document.version)
      BY <1>1, <3>1 DEF NewsOf
    <3>3. y.version \in Nat
      BY <1>1, DocumentFields
    <3> QED BY <1>2, <3>2, <3>3
  <2> QED BY <2>1, <2>2
<1>5. CASE news # {}
  <2>1. PICK y \in news : news = {y}
    BY <1>5 DEF NewsOf
  <2>2. y \in d.updates
    BY DEF NewsOf
  <2>3. (CHOOSE m \in {y} : TRUE) = y
    OBVIOUS
  <2>4. e.disk.document = y
    BY <1>3, <2>1, <2>3 DEF StoredOf
  <2>5. DocumentOf(news, shown) = DocumentClaim(y)
    <3>1. CASE y.exists
      <4>1. (CHOOSE m \in {y} : m.exists) = y
        BY <3>1
      <4> QED BY <2>1, <3>1, <4>1 DEF DocumentOf, DocumentClaim
    <3>2. CASE ~y.exists
      BY <2>1, <3>2 DEF DocumentOf, DocumentClaim
    <3> QED BY <3>1, <3>2
  <2> QED BY <2>2, <2>4, <2>5
<1> QED BY <1>4, <1>5

\* What is on disk after the event goes with its token.
LEMMA RecordedKept ==
    ASSUME NEW h, NEW c, NEW q \in Seq(Messages), q # <<>>, NEW s, Ready(h, c, q, s),
           NEW p, p = Tail(q), NEW m, m = Head(q), m.kind = "snapshot",
           NEW d, Noted(c, d, m.version), m.version >= c.disk.version,
           NEW old \in BOOLEAN, NEW e, Recorded(d, e, m.version, old)
    PROVE  /\ KeptOnDisk(h, e)
           /\ c.view.on => e.disk.token <= e.token /\ e.token <= m.version
           /\ IsActiveTarget(c, Main) => (e.disk.keys <=> Had(h, m.version)) /\ e.token = m.version
<1> DEFINE v == m.version
<1>1. Sound(c, q, s) /\ c \in WideClients /\ Coherent(c) /\ Heard(h, q) /\ h \in Seq(BOOLEAN)
      /\ Kept(h, c)
  BY DEF Ready, Sound, Faithful
<1>2. v \in 1..MaxVersion /\ v \in DOMAIN h
  <2>1. m \in Messages
    BY TailIs
  <2> QED BY <1>1, <2>1, MessageFields, HeardTail
<1>3. v \in 1..Len(h) /\ Len(h) \in Nat
  BY <1>1, <1>2, LenProperties
<1>4. /\ c.disk.token \in Nat /\ c.disk.version \in Nat /\ c.token \in Nat
      /\ c.disk.keys \in BOOLEAN
  <2>1. c.disk \in Disks /\ c.token \in Nat
    BY <1>1, ClientFields
  <2> QED BY <2>1, DiskFields
<1>5. Noted(c, d, v) /\ Recorded(d, e, v, old) /\ v >= c.disk.version
  OBVIOUS
<1> HIDE DEF v
<1>6. KeptOnDisk(h, c) /\ (c.view.on => KeptInView(c))
  BY <1>1 DEF Kept
<1>7. e.disk.version = v
  BY <1>5 DEF Recorded
<1>8. CASE IsActiveTarget(c, Main)
  <2>1. /\ e.token = v
        /\ e.disk.keys <=> Holding(c.states[Main].change, c.disk.keys)
        /\ \/ e.disk.token = v
           \/ e.disk.token = c.disk.token /\ c.states[Main].change = "none"
    BY <1>1, <1>2, <1>5, <1>8, RecordedMain
  <2>2. Main \in c.listens /\ c.states[Main].pending = 0 /\ c.view.on
    BY <1>1, <1>8 DEF IsActiveTarget, Coherent
  <2>3. TargetContainsDocument(c, Main) <=> c.disk.keys
    BY <1>6, <2>2 DEF TargetContainsDocument, KeptInView
  <2>4. Holding(c.states[Main].change, TargetContainsDocument(c, Main)) <=> Had(h, v)
    BY <2>2, SnapshotClaims DEF v
  <2>5. e.disk.keys <=> Had(h, v)
    BY <2>1, <2>3, <2>4 DEF Holding
  <2>6. c.states[Main].change = "none" => (e.disk.keys <=> c.disk.keys)
    BY <2>1 DEF Holding
  <2>7. KeptOnDisk(h, e)
    BY <1>3, <1>4, <1>5, <1>6, <1>7, <2>1, <2>5, <2>6 DEF KeptOnDisk
  <2>8. e.disk.token <= e.token /\ e.token <= v
    BY <1>3, <1>4, <1>5, <1>6, <2>1 DEF KeptOnDisk
  <2> QED BY <2>1, <2>5, <2>7, <2>8 DEF v
<1>9. CASE ~IsActiveTarget(c, Main)
  <2>1. e.token = c.token /\ e.disk.keys = c.disk.keys /\ e.disk.token = c.disk.token
    BY <1>1, <1>2, <1>5, <1>9, RecordedMain
  <2>2. KeptOnDisk(h, e)
    BY <1>3, <1>4, <1>5, <1>6, <1>7, <2>1 DEF KeptOnDisk
  <2>3. c.view.on => e.disk.token <= e.token /\ e.token <= v
    BY <1>3, <1>4, <1>5, <1>6, <2>1 DEF KeptInView
  <2> QED BY <1>9, <2>2, <2>3 DEF v
<1> QED BY <1>8, <1>9

\* The view after the event goes with the disk.
LEMMA EventView ==
    ASSUME NEW h, NEW c, NEW q \in Seq(Messages), q # <<>>, NEW s, Ready(h, c, q, s),
           NEW p, p = Tail(q), NEW m, m = Head(q), m.kind = "snapshot",
           NEW d, Noted(c, d, m.version), Deduced(c, d, m.version), m.version >= c.disk.version,
           NEW old \in BOOLEAN, NEW e, Recorded(d, e, m.version, old), c.view.on,
           NEW news \in SUBSET MaybeDocuments, news = NewsOf(d.disk.document, d.updates),
           NEW g, After(d, g), g.disk = e.disk, g.token = e.token,
           g.view = Settled(ViewAfter(c.view, news, ChangeOf(d, Main)))
    PROVE  KeptInView(g)
<1> DEFINE v == m.version
           change == ChangeOf(d, Main)
           w == ViewAfter(c.view, news, change)
<1>1. Sound(c, q, s) /\ c \in WideClients /\ Coherent(c) /\ KeptInView(c) /\ c.view \in Views
  BY ClientFields DEF Ready, Sound, Faithful, Kept
<1>2. v \in 1..MaxVersion
  <2>1. m \in Messages
    BY TailIs
  <2> QED BY <2>1, MessageFields
<1>3. /\ e.disk.token <= e.token /\ e.token <= v
      /\ IsActiveTarget(c, Main) => e.token = v
  BY RecordedKept, ZenonT(60)
<1>4. Main \in c.listens
  BY <1>1 DEF Coherent
<1>5. /\ w \in Views
      /\ w.document = DocumentOf(news, c.view.document)
      /\ w.synced = SyncedOf(change, c.view.synced)
      /\ w.current = CurrentOf(change, c.view.current)
  BY <1>1, ViewAfterFields
<1>6. Noted(c, d, v) /\ Recorded(d, e, v, old) /\ e.disk.version = v
      /\ g.view = Settled(w)
  BY DEF Recorded
<1>7. /\ IsActiveTarget(c, Main) => change = {d.states[Main]}
      /\ ~IsActiveTarget(c, Main) => change = {}
  <2>1. IsActiveTarget(c, Main) => Dirty(d, Main)
    BY <1>1, <1>2, <1>6, ActiveEvent DEF IsActiveTarget
  <2>2. ~IsActiveTarget(c, Main) => ~Dirty(d, Main)
    BY <1>1, <1>2, <1>4, <1>6, PendingEvent DEF IsActiveTarget
  <2> QED BY <2>1, <2>2 DEF ChangeOf
<1>8. d.states[Main].change = c.states[Main].change
  BY <1>6, TargetFacts DEF Noted
<1> HIDE DEF v, change, w
<1>9. /\ g.view.document = w.document /\ g.view.synced = w.synced
      /\ g.view.current = w.current
      /\ g.view.limbo = (IF w.current THEN w.document # 0 /\ ~w.synced ELSE w.limbo)
      /\ g.view.sync = IF w.current /\ ~g.view.limbo THEN "Synced" ELSE "Local"
  BY <1>5, <1>6, SettledFields
<1>10. /\ c.view.synced \in BOOLEAN /\ c.view.current \in BOOLEAN /\ c.disk.keys \in BOOLEAN
       /\ (c.view.synced <=> c.disk.keys)
  <2>1. c.disk \in Disks
    BY <1>1, ClientFields
  <2> QED BY <1>1, <2>1, ViewFields, DiskFields DEF KeptInView
<1>11. g.view.synced <=> e.disk.keys
  <2>1. CASE IsActiveTarget(c, Main)
    <3>1. e.disk.keys <=> Holding(c.states[Main].change, c.disk.keys)
      BY <1>1, <1>2, <1>6, <2>1, RecordedMain
    <3>2. SyncedOf(change, c.view.synced) <=> Holding(d.states[Main].change, c.view.synced)
      <4> DEFINE x == d.states[Main]
                 b == c.view.synced
      <4>1. change = {x} /\ b \in BOOLEAN
        BY <1>7, <1>10, <2>1
      <4> HIDE DEF x, b
      <4>2. SyncedOf(change, b) <=> Holding(x.change, b)
        BY <4>1, OneChange
      <4> QED BY <4>2 DEF x, b
    <3> QED BY <1>5, <1>8, <1>9, <1>10, <3>1, <3>2 DEF Holding
  <2>2. CASE ~IsActiveTarget(c, Main)
    <3>1. e.disk.keys = c.disk.keys
      BY <1>1, <1>2, <1>6, <2>2, RecordedMain
    <3>2. SyncedOf(change, c.view.synced) = c.view.synced
      BY <1>7, <2>2, NoChange
    <3> QED BY <1>5, <1>9, <1>10, <3>1, <3>2
  <2> QED BY <2>1, <2>2
<1>12. g.tokens[Main] = g.token
  <2>1. CASE IsActiveTarget(c, Main)
    <3>1. g.tokens[Main] = v
      BY <1>1, <1>2, <1>6, <2>1, ActiveEvent DEF IsActiveTarget
    <3> QED BY <1>3, <2>1, <3>1
  <2>2. CASE ~IsActiveTarget(c, Main)
    <3>1. g.tokens[Main] = c.tokens[Main]
      BY <1>1, <1>2, <1>4, <1>6, <2>2, PendingEvent DEF IsActiveTarget
    <3>2. e.token = c.token
      BY <1>1, <1>2, <1>6, <2>2, RecordedMain
    <3> QED BY <1>1, <3>1, <3>2 DEF KeptInView
  <2> QED BY <2>1, <2>2
<1>13. g.view.document = DocumentClaim(e.disk.document)
  <2>1. TrueUpdates(h, d)
    BY SnapshotUpdates
  <2>2. \/ e.disk.document = c.disk.document /\ w.document = c.view.document
        \/ w.document = DocumentClaim(e.disk.document)
    BY <1>1, <1>5, <1>6, <2>1, RecordedDocument, SMTT(40)
  <2> QED BY <1>1, <1>9, <2>2 DEF KeptInView
<1>14. g.view.current => g.token # 0
  <2>1. CASE IsActiveTarget(c, Main)
    BY <1>2, <1>3, <2>1
  <2>2. CASE ~IsActiveTarget(c, Main)
    <3>1. e.token = c.token
      BY <1>1, <1>2, <1>6, <2>2, RecordedMain
    <3>2. CurrentOf(change, c.view.current) = c.view.current
      BY <1>7, <2>2, NoChange
    <3> QED BY <1>1, <1>5, <1>9, <3>1, <3>2 DEF KeptInView
  <2> QED BY <2>1, <2>2
<1>15. g.disk.token <= g.token /\ g.token <= g.disk.version
  BY <1>3, <1>6
<1>16. g.view.current => (g.view.limbo <=> g.view.document # 0 /\ ~g.view.synced)
  BY <1>9
<1>17. g.view.sync = IF g.view.current /\ ~g.view.limbo THEN "Synced" ELSE "Local"
  BY <1>9
<1> QED BY <1>11, <1>12, <1>13, <1>14, <1>15, <1>16, <1>17 DEF KeptInView

\* What is on disk after the event can be resumed from.
LEMMA EventUnbroken ==
    ASSUME NEW h, NEW c, NEW q \in Seq(Messages), q # <<>>, NEW s, Ready(h, c, q, s),
           NEW p, p = Tail(q), NEW m, m = Head(q), m.kind = "snapshot",
           NEW d, Noted(c, d, m.version), Deduced(c, d, m.version), m.version >= c.disk.version,
           NEW old \in BOOLEAN, NEW e, Recorded(d, e, m.version, old),
           e.view.on = c.view.on, e.newest = c.newest, Unbroken(h, c, q, s)
    PROVE  Resumable(h, e) /\ Upward(h, e)
<1> DEFINE v == m.version
           k == c.disk.document
           f == e.disk.document
<1>1. Sound(c, q, s) /\ c \in WideClients /\ Coherent(c) /\ Kept(h, c) /\ Truth(h, c)
      /\ Heard(h, q) /\ h \in Seq(BOOLEAN)
  BY DEF Ready, Sound, Faithful
<1>2. v \in 1..MaxVersion /\ v \in DOMAIN h
  <2>1. m \in Messages
    BY TailIs
  <2> QED BY <1>1, <2>1, MessageFields, HeardTail
<1>3. DOMAIN h = 1..Len(h) /\ Len(h) \in Nat /\ v \in Nat
  BY <1>1, <1>2, LenProperties
<1>4. /\ c.disk.version \in Nat /\ c.token \in Nat /\ c.disk.token \in Nat
      /\ c.newest \in Nat /\ k \in MaybeDocuments /\ c.disk.keys \in BOOLEAN
  <2>1. c.disk \in Disks /\ c.token \in Nat /\ c.newest \in Nat
    BY <1>1, ClientFields
  <2> QED BY <2>1, DiskFields
<1>5. k.exists \in BOOLEAN /\ k.version \in Nat
  BY <1>4, DocumentFields
<1>6. /\ Noted(c, d, v) /\ Recorded(d, e, v, old) /\ e.disk.version = v
      /\ c.disk.version <= v
  BY <1>4 DEF Recorded
<1>7. KeptOnDisk(h, e) /\ (c.view.on => e.disk.token <= e.token /\ e.token <= v)
      /\ (IsActiveTarget(c, Main) => (e.disk.keys <=> Had(h, v)) /\ e.token = v)
  BY RecordedKept, ZenonT(60)
<1>8. Resumable(h, c) /\ Upward(h, c)
  BY DEF Unbroken
<1>9. TrueUpdates(h, d) /\ ClaimedAt(h, d, v) /\ (d.updates = {} => c.updates = {})
  BY SnapshotUpdates
<1>10. d.updates \in SUBSET MaybeDocuments /\ d.disk = c.disk
  BY <1>6, ClientFields DEF Noted, Aggregates, SameApp, SameStore
<1>11. (f = k /\ NotNews(c, d)) \/ f \in d.updates
  <2> DEFINE news == NewsOf(d.disk.document, d.updates)
  <2>1. news = NewsOf(d.disk.document, d.updates)
    OBVIOUS
  <2> HIDE DEF news
  <2> QED BY <1>1, <1>6, <1>9, <2>1, RecordedDocument
<1>12. TrueIn(h, k)
  BY <1>1 DEF Truth
<1> HIDE DEF v, f, k
<1>13. ASSUME NEW y \in d.updates
       PROVE  /\ y.exists => y.version = v
              /\ ~y.exists => ~h[v] /\ ~Had(h, v)
              /\ IsAt(h, y, v)
  <2>1. TrueIn(h, y) /\ DocumentClaim(y) = Claim(h, v) /\ y \in MaybeDocuments
    BY <1>9, <1>10 DEF TrueUpdates, ClaimedAt
  <2>2. y.exists \in BOOLEAN /\ y.version \in Nat
    BY <2>1, DocumentFields
  <2>3. CASE y.exists
    <3>1. y.version # 0 /\ DocumentClaim(y) = y.version
      BY <2>1, <2>3 DEF TrueIn, Had, DocumentClaim
    <3>2. y.version = v
      BY <2>1, <3>1 DEF Claim
    <3> QED BY <2>3, <3>2 DEF IsAt
  <2>4. CASE ~y.exists
    <3>1. Claim(h, v) = 0
      BY <2>1, <2>4 DEF DocumentClaim
    <3>2. ~Had(h, v)
      BY <1>2, <3>1 DEF Claim
    <3>3. ~h[v]
      BY <1>2, <3>2 DEF Had
    <3> QED BY <2>4, <3>2, <3>3 DEF IsAt
  <2> QED BY <2>2, <2>3, <2>4
<1>14. Latest(e) <= v /\ e.disk.token <= v
  <2>1. e.disk.token <= v
    BY <1>6, <1>7 DEF KeptOnDisk
  <2> QED BY <1>7, <2>1 DEF Latest
<1>15. CASE f \in d.updates
  <2>2. IsAt(h, f, v) /\ (f.exists => f.version = v) /\ (~f.exists => ~h[v])
    BY <1>13, <1>15
  <2>3. v >= Latest(e)
    <3>1. Latest(e) \in Nat
      <4>1. e.token \in Nat /\ e.disk.token \in Nat
        BY <1>1, <1>2, <1>4, <1>6, RecordedMain, SMTT(40)
      <4> QED BY <4>1 DEF Latest
    <3> QED BY <1>3, <1>14, <3>1
  <2>4. Resumable(h, e)
    BY <1>2, <2>2, <2>3 DEF Resumable, f
  <2>5. e.newest <= v
    BY <1>3, <1>4, <1>6, <1>8 DEF Upward
  <2>6. v >= e.newest
    BY <1>3, <1>4, <2>5
  <2>7. Upward(h, e)
    BY <1>2, <1>3, <1>6, <2>2, <2>5, <2>6 DEF Upward, f
  <2> QED BY <2>4, <2>7
<1>16. CASE f = k /\ NotNews(c, d)
  <2>1. Upward(h, e)
    BY <1>3, <1>4, <1>5, <1>6, <1>8, <1>16, SMTT(40) DEF Upward, f, k
  <2>2. CASE ~IsActiveTarget(c, Main)
    <3>1. e.token = c.token /\ e.disk.keys = c.disk.keys /\ e.disk.token = c.disk.token
      BY <1>1, <1>2, <1>6, <2>2, RecordedMain
    <3>2. Latest(e) = Latest(c)
      BY <3>1 DEF Latest
    <3> QED BY <1>8, <1>16, <2>1, <3>1, <3>2 DEF Resumable, f, k
  <2>3. CASE IsActiveTarget(c, Main)
    <3>1. Main \in c.listens /\ c.states[Main].pending = 0 /\ c.view.on
      BY <1>1, <2>3 DEF IsActiveTarget, Coherent
    <3>2. e.token = v /\ Latest(e) = v /\ Latest(c) = c.token
      BY <1>7, <2>3, <3>1 DEF Latest
    <3>3. SUFFICES ASSUME e.disk.keys PROVE \E w \in DOMAIN h : w >= v /\ IsAt(h, f, w)
      BY <2>1, <3>2 DEF Resumable, f
    <3>4. Had(h, v)
      BY <1>7, <2>3, <3>3
    <3>5. CASE d.updates = {}
      <4>1. c.updates = {}
        BY <1>9, <3>5
      <4>2. TargetHolds(h, c, q, s, Main)
        BY <3>1 DEF Ready, Told, TargetTold
      <4>3. Claim(h, v) \in Fits(c.states[Main].change, Claim(h, c.tokens[Main]))
        BY <3>1, SnapshotClaims DEF v
      <4>4. Claim(h, v) = v /\ v # 0
        BY <1>2, <3>4 DEF Claim
      <4>5. c.states[Main].change = "none"
        <5>1. c.states[Main] \in WideTargetStates
          BY <1>1, TargetFacts, ClientFields
        <5> QED BY <4>1, <4>2, <4>3, <4>4, <5>1, StateFields DEF TargetHolds, Fits
      <4>6. v = Claim(h, c.tokens[Main])
        BY <4>3, <4>4, <4>5 DEF Fits
      <4>7. c.tokens[Main] = c.token
        BY <1>1, <3>1 DEF Kept, KeptInView
      <4>8. c.token = v
        BY <1>4, <4>4, <4>6, <4>7 DEF Claim
      <4>9. c.disk.keys
        BY <1>1, <1>2, <1>6, <2>3, <3>3, <4>5, RecordedMain DEF Holding
      <4> QED BY <1>8, <1>16, <3>2, <4>8, <4>9 DEF Resumable, k
    <3>6. CASE d.updates # {}
      <4>1. PICK y \in d.updates : TRUE
        BY <3>6
      <4>2. y.exists /\ y.version = v
        BY <1>13, <3>4, <4>1
      <4>3. v <= k.version
        BY <1>16, <4>1, <4>2 DEF NotNews, k
      <4>4. CASE k.exists
        <5>1. k.version = v
          BY <1>3, <1>4, <1>5, <1>6, <1>8, <4>3, <4>4, SMTT(40) DEF Upward, k
        <5> QED BY <1>2, <1>3, <1>16, <4>4, <5>1 DEF IsAt
      <4>5. CASE ~k.exists
        <5>1. k.version \in 0..Len(h) /\ ~Had(h, k.version)
          BY <1>12, <4>5 DEF TrueIn
        <5>2. k.version \in DOMAIN h /\ k.version >= v
          BY <1>2, <1>3, <1>5, <4>3, <5>1
        <5>3. k.version # 0
          BY <1>2, <1>3, <5>2
        <5>4. ~h[k.version]
          BY <5>1, <5>3 DEF Had
        <5>5. PICK w \in DOMAIN h : w >= v /\ ~h[w]
          BY <5>2, <5>4
        <5>6. w >= v /\ IsAt(h, f, w)
          BY <1>16, <4>5, <5>5 DEF IsAt
        <5> QED BY <5>6
      <4> QED BY <1>5, <4>4, <4>5
    <3> QED BY <3>5, <3>6
  <2> QED BY <2>1, <2>2, <2>3
<1> QED BY <1>11, <1>15, <1>16

\* Of what goes with the disk, the view and the listeners the main target's token is all.
LEMMA FaithfulMain ==
    ASSUME NEW h, NEW c, NEW d, Faithful(h, c), SameApp(c, d), d.updates = c.updates,
           d.tokens[Main] = c.tokens[Main]
    PROVE  Faithful(h, d)
<1>1. Truth(h, d)
  BY DEF Faithful, Truth, SameApp, SameStore
<1>2. Kept(h, d)
  BY DEF Faithful, Kept, KeptOnDisk, KeptInView, SameApp, SameStore
<1>3. Shown(d)
  BY DEF Faithful, Shown, SameApp, SameShown, EventOf, ShouldRaiseInitialEvent
<1> QED BY <1>1, <1>2, <1>3 DEF Faithful

\* A limbo document is listened to: its target is told what there is.
LEMMA TrackLimboTold ==
    ASSUME NEW h, Len(h) \in Nat, NEW c, NEW q, NEW s, Sound(c, q, s), Told(h, c, q, s),
           Faithful(h, c), NEW d, d = TrackLimbo(c)
    PROVE  /\ Told(h, d, q, s) /\ Faithful(h, d) /\ SameApp(c, d)
           /\ d.updates = c.updates /\ d.open = c.open
<1>1. c \in WideClients /\ c.limbo \in Nat /\ c.resolutions \in 0..(MaxLimbo + 1)
  BY ClientFields DEF Sound
<1>2. CASE c.limbo # 0
  <2>1. d = c
    BY <1>1, <1>2, TrackLimboEffect
  <2> QED BY <2>1 DEF SameApp, SameShown, SameStore
<1>3. CASE c.limbo = 0 /\ c.resolutions >= MaxLimbo
  <2>1. d = [c EXCEPT !.resolutions = MaxLimbo + 1]
    BY <1>1, <1>3, TrackLimboEffect
  <2>2. /\ SameApp(c, d) /\ SameStream(c, d)
        /\ d.limbo = c.limbo /\ d.received = c.received /\ d.view = c.view
    BY <1>1, <2>1 DEF WideClients, SameApp, SameStream, SameShown, SameStore
  <2>3. SameTargets(c, d) /\ d.requests = c.requests
    BY <2>2 DEF SameTargets, SameStream
  <2>4. Told(h, d, q, s)
    BY <2>3, ToldSame
  <2>5. Faithful(h, d)
    BY <2>2, FaithfulMain DEF SameStream
  <2> QED BY <2>2, <2>4, <2>5 DEF SameStream
<1>4. CASE c.limbo = 0 /\ ~(c.resolutions >= MaxLimbo)
  <2> DEFINE t == c.resolutions + 1
             e == [c EXCEPT !.limbo = t, !.received = FALSE, !.resolutions = t]
  <2>1. /\ t \in Targets /\ t # Main
        /\ e \in WideClients /\ d = Listen(e, t, 0)
        /\ e.limbo = t /\ ~e.received /\ e.resolutions = t
        /\ SameApp(c, e) /\ SameStream(c, e) /\ e.asserted = c.asserted
    BY <1>1, <1>4, TrackLimboEffect
  <2>2. t > c.resolutions /\ t \in Nat /\ c.resolutions \in Nat
    BY <1>1
  <2> HIDE DEF t, e
  <2>3. t \notin c.listens /\ Unused(c, t)
    BY <1>4, <2>1, <2>2 DEF Sound, Coherent, Unused
  <2>4. Idle(c, q, s, t)
    BY <2>1, <2>3 DEF Sound, Protocol, TargetProtocol
  <2>5. ~Asks(e, "watch", t) /\ e.states[t].change = "none"
    BY <2>1, <2>4, FreshFields DEF Idle, Asks, SameStream
  <2>6. 0 \in 0..MaxVersion /\ 0 \in 0..Len(h)
    BY WatchAssumption
  <2>7. t \in Targets \ e.listens
    BY <2>1, <2>3 DEF SameStream
  <2>8. Told(h, e, q, s)
    <3>1. ASSUME NEW u \in e.listens PROVE TargetTold(h, e, q, s, u)
      <4>1. u = Main /\ u \in c.listens
        BY <1>4, <2>1 DEF Sound, Coherent, SameStream, Main
      <4>2. TargetTold(h, c, q, s, u)
        BY <4>1 DEF Told
      <4>3. TargetContainsDocument(e, u) <=> TargetContainsDocument(c, u)
        BY <2>1, <4>1 DEF TargetContainsDocument, SameApp
      <4>4. Wants(e, u) => Wants(c, u)
        BY <2>1 DEF Wants, Asks, SameStream
      <4>5. \A r \in e.requests : r.kind = "watch" /\ r.target = u => r \in c.requests
        BY <2>1 DEF SameStream
      <4> QED BY <2>1, <4>2, <4>3, <4>4, <4>5, TargetStays DEF SameStream
    <3> QED BY <3>1 DEF Told
  <2>9. TargetContainsDocument(e, t) <=> Had(h, 0)
    BY <2>1 DEF TargetContainsDocument, Had
  <2>10. Told(h, d, q, s)
    BY <2>1, <2>5, <2>6, <2>7, <2>8, <2>9, ListenTold
  <2>11. /\ SameApp(e, d) /\ d.open = e.open /\ d.updates = e.updates
         /\ d.tokens = Replaced(e.tokens, t, 0)
    BY <2>1, <2>6, <2>7, ListenEffect
  <2>12. d.tokens[Main] = c.tokens[Main]
    <3>1. e.tokens = c.tokens /\ c.tokens \in [Targets -> 0..MaxVersion]
      BY <1>1, <2>1, ClientFields DEF SameStream
    <3> QED BY <2>1, <2>11, <3>1, TargetFacts DEF Replaced
  <2>13. SameApp(c, d)
    BY <2>1, <2>11 DEF SameApp, SameShown, SameStore
  <2>14. d.updates = c.updates /\ d.open = c.open
    BY <2>1, <2>11 DEF SameStream
  <2>15. Faithful(h, d)
    BY <2>12, <2>13, <2>14, FaithfulMain
  <2> QED BY <2>10, <2>13, <2>14, <2>15
<1> QED BY <1>1, <1>2, <1>3, <1>4

\* A limbo document is not listened to any more.
LEMMA RemoveLimboTargetTold ==
    ASSUME NEW h, Len(h) \in Nat, NEW c, NEW q, NEW s, Coherent(c), c \in WideClients,
           Told(h, c, q, s), Faithful(h, c), NEW d, d = RemoveLimboTarget(c)
    PROVE  /\ Told(h, d, q, s) /\ Faithful(h, d) /\ SameApp(c, d)
           /\ d.updates = c.updates /\ d.open = c.open
<1>1. c.limbo \in 0..MaxLimbo
  BY ClientFields
<1>2. CASE c.limbo = 0
  <2>1. d = c
    BY <1>2 DEF RemoveLimboTarget
  <2> QED BY <2>1 DEF SameApp, SameShown, SameStore
<1>3. CASE c.limbo # 0
  <2> DEFINE t == c.limbo
             e == StopListening(c, t)
  <2>1. /\ e \in WideClients /\ d \in WideClients
        /\ d.limbo = 0 /\ ~d.received /\ d.resolutions = c.resolutions
        /\ SameApp(e, d) /\ SameStream(e, d) /\ d.asserted = e.asserted
    BY <1>3, RemoveLimboTargetEffect DEF Coherent
  <2>2. t \in c.listens /\ t # Main /\ e = StopListening(c, t) /\ t \in Targets
    BY <1>1, <1>3, ClientFields DEF Coherent, Main
  <2> HIDE DEF e, t
  <2>3. /\ SameApp(c, e) /\ SameLimbo(c, e)
        /\ e.open = c.open /\ e.updates = c.updates /\ e.tokens = c.tokens
        /\ e.listens = c.listens \ {t}
        /\ c.open => /\ e.requests = c.requests \cup {Request("unwatch", t, c.tokens[t])}
                     /\ e.states = Owing(c.states, t)
        /\ ~c.open => e.requests = c.requests /\ e.states = c.states
    BY <2>2, StopListeningEffect
  <2>4. c.open \in BOOLEAN /\ c.states \in [Targets -> WideTargetStates]
    BY ClientFields
  <2>5. \A u \in Targets \ {t} : d.states[u] = c.states[u]
    BY <2>1, <2>3, <2>4 DEF SameStream, Owing
  <2>6. /\ d.listens = c.listens \ {t} /\ d.open = c.open /\ d.updates = c.updates
        /\ d.tokens = c.tokens
    BY <2>1, <2>3 DEF SameStream
  <2>7. SameApp(c, d)
    BY <2>1, <2>3 DEF SameApp, SameShown, SameStore
  <2>8. \A r : r.kind = "watch" => (r \in d.requests <=> r \in c.requests)
    BY <2>1, <2>3, <2>4 DEF SameStream, Request
  <2>9. ASSUME NEW u \in d.listens PROVE TargetTold(h, d, q, s, u)
    <3>1. u = Main /\ u \in c.listens /\ u \in Targets \ {t}
      BY <2>2, <2>6, TargetFacts DEF Coherent, t
    <3>2. TargetTold(h, c, q, s, u)
      BY <3>1 DEF Told
    <3>3. TargetContainsDocument(d, u) <=> TargetContainsDocument(c, u)
      BY <2>7, <3>1 DEF TargetContainsDocument, SameApp
    <3>4. Wants(d, u) => Wants(c, u)
      BY <2>6, <2>8 DEF Wants, Asks
    <3>5. \A r \in d.requests : r.kind = "watch" /\ r.target = u => r \in c.requests
      BY <2>8
    <3> QED BY <2>5, <2>6, <3>1, <3>2, <3>3, <3>4, <3>5, TargetStays
  <2>10. Faithful(h, d)
    BY <2>6, <2>7, FaithfulMain
  <2> QED BY <2>6, <2>7, <2>9, <2>10 DEF Told
<1> QED BY <1>2, <1>3

\* What an event was made of leaves the client sound.
LEMMA EventSound ==
    ASSUME NEW c, NEW q, NEW s, Sound(c, q, s), c.open, NEW v \in 1..MaxVersion,
           NEW a, a = HandleNoChange(c, v), NEW d, d = DeduceMissing(a, v)
    PROVE  /\ a \in WideClients /\ Aggregates(c, a) /\ Aggregates(a, d) /\ Aggregates(c, d)
           /\ Sound(a, q, s) /\ Sound(d, q, s) /\ d.open
           /\ \A x \in ChangeOf(d, Main) : x.change = "Modified" => c.view.synced
<1>1. c \in WideClients /\ v \in 0..MaxVersion
  BY DEF Sound
<1>2. Aggregates(c, a) /\ a \in WideClients /\ a.open
  BY <1>1, HandleNoChangeEffect, ZenonT(60) DEF Aggregates
<1>3. Sound(a, q, s)
  BY <1>1, HandleNoChangeSound
<1>4. Aggregates(a, d) /\ d.states = a.states
  <2>1. a \in WideClients
    BY <1>2
  <2> QED BY <2>1, DeduceMissingEffect, ZenonT(60)
<1>5. \A t \in Targets : ChangeFits(d, t)
  <2>1. \A t \in Targets : TargetContainsDocument(d, t) <=> TargetContainsDocument(a, t)
    BY <1>4, AggregateContains
  <2>2. \A t \in Targets : ChangeFits(a, t)
    BY <1>3 DEF Sound, Coherent
  <2> QED BY <1>4, <2>1, <2>2 DEF ChangeFits, Aggregates
<1>6. Sound(d, q, s) /\ d.open
  <2>1. \A t \in Targets : /\ d.states[t].pending = a.states[t].pending
                           /\ t \notin a.listens => d.states[t] = a.states[t]
                           /\ ChangeFits(d, t)
    BY <1>4, <1>5
  <2> QED BY <1>2, <1>3, <1>4, <2>1, AggregateSound, ZenonT(60) DEF Aggregates
<1>7. Aggregates(c, d)
  BY <1>2, <1>4 DEF Aggregates, SameApp, SameShown, SameStore, SameLimbo
<1>8. \A x \in ChangeOf(d, Main) : x.change = "Modified" => c.view.synced
  <2>1. TargetContainsDocument(d, Main) => d.view.synced
    BY DEF TargetContainsDocument
  <2>2. d.view = c.view
    BY <1>7 DEF Aggregates, SameApp
  <2> QED BY <1>5, <2>1, <2>2, TargetFacts
          DEF ChangeOf, Dirty, IsActiveTarget, ChangeFits
<1> QED BY <1>2, <1>3, <1>4, <1>6, <1>7, <1>8

\* The stream's part of the client after an event.
Taken(d, e) ==
    /\ e.open = d.open /\ e.requests = d.requests /\ e.listens = d.listens
    /\ e.tokens = ClearedTokens(d) /\ e.states = ClearedStates(d) /\ e.updates = {}
    /\ e.limbo = d.limbo /\ e.received = EventReceived(d)

\* An event is recorded, and then the view moves, if there is one.
LEMMA EventIs ==
    ASSUME NEW c, NEW q, NEW s, Sound(c, q, s), c.open, NEW v \in 1..MaxVersion,
           v >= c.disk.version, NEW old \in BOOLEAN,
           NEW a, a = HandleNoChange(c, v), NEW d, d = DeduceMissing(a, v),
           NEW e, e = EventApplied(a, d, v, old), NEW f, f = RaiseWatchSnapshot(a, v, old),
           NEW news, news = NewsOf(d.disk.document, d.updates),
           NEW change, change = ChangeOf(d, Main)
    PROVE  /\ e \in WideClients /\ Sound(e, q, s) /\ Calm(e)
           /\ Recorded(d, e, v, old) /\ SameShown(c, e)
           /\ e.view = c.view /\ d.view = c.view /\ e.online = c.online
           /\ Taken(d, e) /\ news \in SUBSET MaybeDocuments
           /\ ~c.view.on => f = e /\ change = {}
           /\ c.view.on =>
                f = UpdateTrackedLimboDocuments(ViewMoved(e, news, change), c.view.limbo)
<1>1. /\ a \in WideClients /\ Aggregates(c, a) /\ Aggregates(a, d) /\ Aggregates(c, d)
      /\ Sound(d, q, s) /\ d.open
      /\ \A x \in change : x.change = "Modified" => c.view.synced
  BY EventSound
<1>2. v >= a.disk.version
  BY <1>1 DEF Aggregates, SameApp, SameStore
<1>3. f = EmitNewSnapshots(e, EventNews(a, d, old), change)
  BY <1>1, <1>2, RaiseWatchSnapshotIs
<1>4. Coherent(d) /\ d \in WideClients
  BY <1>1 DEF Sound
<1>5. /\ e \in WideClients
      /\ SameShown(d, e) /\ e.view = d.view /\ e.online = d.online
      /\ e.asserted = d.asserted
      /\ e.limbo = d.limbo /\ e.resolutions = d.resolutions
      /\ SameStream(Cleared(d), e)
      /\ e.received = EventReceived(d)
      /\ EventNews(a, d, old) = news
      /\ Recorded(d, e, v, old)
  BY <1>1, <1>4, EventEffect DEF Recorded
<1>6. /\ SameShown(c, d) /\ d.view = c.view /\ d.online = c.online
  BY <1>1 DEF Aggregates, SameApp
<1> DEFINE c1 == Cleared(d)
<1>7. Sound(c1, q, s) /\ Calm(c1)
  BY <1>1, ClearedSound
<1>8. /\ c1.limbo = d.limbo /\ c1.resolutions = d.resolutions /\ c1.asserted = d.asserted
      /\ c1.view = d.view
      /\ c1.open = d.open /\ c1.requests = d.requests /\ c1.listens = d.listens
      /\ c1.states = ClearedStates(d) /\ c1.tokens = ClearedTokens(d) /\ c1.updates = {}
  BY <1>4, ClearedEffect DEF SameApp, SameLimbo
<1>9. SameStream(c1, e)
  BY <1>5
<1> HIDE DEF c1
<1>10. Sound(e, q, s) /\ Calm(e)
  BY <1>5, <1>7, <1>8, <1>9, CalmKept
<1>11. Taken(d, e)
  BY <1>5, <1>8, <1>9 DEF Taken, SameStream
<1>12. news \in SUBSET MaybeDocuments
  BY <1>4, ClientFields, NewsFields
<1>13. SameShown(c, e) /\ e.view = c.view /\ e.online = c.online
  BY <1>5, <1>6 DEF SameShown
<1>14. /\ ~c.view.on => f = e
       /\ c.view.on =>
            f = UpdateTrackedLimboDocuments(ViewMoved(e, news, change), c.view.limbo)
  <2>1. f = EmitNewSnapshots(e, news, change)
    BY <1>3, <1>5
  <2>2. \A x \in change : x.change = "Modified" => e.view.synced
    BY <1>1, <1>13
  <2> QED BY <1>5, <1>12, <1>13, <2>1, <2>2, EmitEffect
<1>15. ~c.view.on => change = {}
  <2>1. ~d.view.on => Main \notin d.listens
    BY <1>4 DEF Coherent
  <2> QED BY <1>6, <2>1 DEF ChangeOf, Dirty, IsActiveTarget
<1> QED BY <1>5, <1>6, <1>10, <1>11, <1>12, <1>13, <1>14, <1>15

\* A calm client stays sound when its view moves.
LEMMA ViewMovedSound ==
    ASSUME NEW c, NEW q, NEW s, Sound(c, q, s), NEW documents \in SUBSET MaybeDocuments,
           NEW change, Calm(c), NEW d, d = ViewMoved(c, documents, change)
    PROVE  Sound(d, q, s)
<1> DEFINE w == ViewAfter(c.view, documents, change)
<1>1. c \in WideClients /\ c.view \in Views
  BY ClientFields DEF Sound
<1>2. /\ d \in WideClients
      /\ SameStream(c, d) /\ SameLimbo(c, d)
      /\ d.view = Settled(w) /\ d.asserted = c.asserted
  BY <1>1, ViewMovedEffect
<1>3. w \in Views /\ w.on = c.view.on
  BY <1>1, ViewAfterFields
<1> HIDE DEF w
<1>4. d.view.on = c.view.on
  BY <1>2, <1>3, SettledFields
<1> QED BY <1>2, <1>4, CalmKept DEF SameLimbo

\* The listeners are called with the view that moved.
LEMMA ViewMovedShown ==
    ASSUME NEW c \in WideClients, Shown(c), c.view.on,
           NEW documents \in SUBSET MaybeDocuments, NEW change,
           NEW d, d = ViewMoved(c, documents, change)
    PROVE  Shown(d) /\ Shows(c, d)
<1> DEFINE w == ViewAfter(c.view, documents, change)
           e == ViewSet(c, w)
           changed == DocumentOf(documents, c.view.document) # c.view.document
<1>1. /\ w \in Views /\ w.on = c.view.on
      /\ w.document = DocumentOf(documents, c.view.document) /\ w.sync = c.view.sync
  <2>1. c.view \in Views
    BY ClientFields
  <2> QED BY <2>1, ViewAfterFields, ZenonT(60)
<1>2. d = ApplyChanges(e, changed) /\ changed \in BOOLEAN
  BY DEF ViewMoved
<1>3. changed <=> w.document # c.view.document
  BY <1>1
<1>4. e = ViewSet(c, w)
  OBVIOUS
<1> HIDE DEF e, w, changed
<1>5. /\ e \in WideClients /\ e.view = w /\ SameShown(c, e) /\ e.online = c.online
  BY <1>1, <1>4, ViewSetEffect
<1>6. ~changed => EventOf(e) = EventOf(c)
                  /\ (ShouldRaiseInitialEvent(e, e.online) <=> ShouldRaiseInitialEvent(c, c.online))
  BY <1>1, <1>3, <1>5 DEF EventOf, ShouldRaiseInitialEvent
<1>7. changed \/ Shown(e)
  BY <1>1, <1>5, <1>6 DEF Shown, SameShown
<1>8. \A l \in Listeners : e.shown[l].kind = "version" => e.shown[l].is <= e.newest
  BY <1>5 DEF Shown, SameShown
<1>9. Shown(d) /\ Shows(e, d)
  BY <1>1, <1>2, <1>5, <1>7, <1>8, ApplyChangesShown
<1>10. Shows(c, d)
  BY <1>5, <1>9 DEF Shows, ShownAnew, SameShown
<1> QED BY <1>9, <1>10

\* The limbo document is seen to, and no more.
LEMMA UpdateTrackedTold ==
    ASSUME NEW h, Len(h) \in Nat, NEW c, NEW q, NEW s, Sound(c, q, s), Told(h, c, q, s),
           Faithful(h, c), NEW before, NEW d, d = UpdateTrackedLimboDocuments(c, before)
    PROVE  /\ Told(h, d, q, s) /\ Faithful(h, d) /\ SameApp(c, d)
           /\ d.updates = c.updates /\ d.open = c.open /\ d \in WideClients
<1>1. d = TrackLimbo(c) \/ d = RemoveLimboTarget(c) \/ d = c
  BY DEF UpdateTrackedLimboDocuments
<1>2. Coherent(c) /\ c \in WideClients
  BY DEF Sound
<1>3. CASE d = TrackLimbo(c)
  <2>1. d \in WideClients
    BY <1>3, TrackLimboSound DEF Sound
  <2> QED BY <1>3, <2>1, TrackLimboTold
<1>4. CASE d = RemoveLimboTarget(c)
  <2>1. d \in WideClients
    BY <1>4, RemoveLimboTargetSound DEF Sound
  <2> QED BY <1>2, <1>4, <2>1, RemoveLimboTargetTold
<1>5. CASE d = c
  BY <1>2, <1>5 DEF SameApp, SameShown, SameStore
<1> QED BY <1>1, <1>2, <1>3, <1>4, <1>5

\* The client e with the event d recorded, the view as it was.
Records(c, d, e, p, s) ==
    /\ e \in WideClients /\ Sound(e, p, s) /\ Calm(e) /\ Taken(d, e)
    /\ SameShown(c, e) /\ e.view = c.view /\ d.view = c.view /\ e.online = c.online

\* And the client g with its view moved.
Moves(c, d, e, g) ==
    /\ c.view.on => g = ViewMoved(e, NewsOf(d.disk.document, d.updates), ChangeOf(d, Main))
    /\ ~c.view.on => g = e /\ ChangeOf(d, Main) = {}

\* What is so of it.
Arrives(h, c, e, g, p, s) ==
    /\ Sound(g, p, s) /\ Told(h, g, p, s) /\ Faithful(h, g) /\ Shows(c, g)
    /\ SameStore(e, g) /\ g.view.on = c.view.on /\ g.updates = {}

\* The view after the event, before the limbo document is seen to.
LEMMA EventMoved ==
    ASSUME NEW h, NEW c, NEW q \in Seq(Messages), q # <<>>, NEW s, Ready(h, c, q, s),
           NEW p, p = Tail(q), NEW m, m = Head(q), m.kind = "snapshot",
           NEW d, Noted(c, d, m.version), Deduced(c, d, m.version), m.version >= c.disk.version,
           NEW old \in BOOLEAN, NEW e, Recorded(d, e, m.version, old), Records(c, d, e, p, s),
           NEW g, Moves(c, d, e, g)
    PROVE  Arrives(h, c, e, g, p, s)
<1> USE DEF Arrives
<1>1. Truth(h, c) /\ Kept(h, c) /\ Shown(c)
  BY DEF Ready, Faithful
<1> USE DEF Records
<1> DEFINE news == NewsOf(d.disk.document, d.updates)
           change == ChangeOf(d, Main)
<1>8. news = NewsOf(d.disk.document, d.updates) /\ change = ChangeOf(d, Main)
      /\ news \in SUBSET MaybeDocuments
  <2>1. d.updates \in SUBSET MaybeDocuments
    BY ClientFields DEF Noted, Aggregates
  <2> QED BY <2>1, NewsFields
<1> HIDE DEF news, change
<1>2. KeptOnDisk(h, e)
  BY RecordedKept
<1>3. TrueUpdates(h, d)
  BY SnapshotUpdates
<1>4. c \in WideClients
  BY DEF Ready, Sound
<1>5. TrueIn(h, e.disk.document)
  <2>1. e.disk.document = c.disk.document \/ e.disk.document \in d.updates
    <3>1. \A shown : \/ e.disk.document = c.disk.document
                     \/ e.disk.document \in d.updates
      BY <1>3, <1>4, RecordedDocument
    <3> QED BY <3>1
  <2>2. TrueIn(h, c.disk.document)
    BY <1>1 DEF Truth
  <2> QED BY <1>3, <2>1, <2>2 DEF TrueUpdates
<1>6. CASE ~c.view.on
  <2>1. g = e /\ change = {}
    BY <1>6, <1>8 DEF Moves
  <2>2. SyncedOf(change, d.view.synced) = d.view.synced
    BY <2>1, NoChange
  <2>3. After(d, g)
    BY <1>8, <2>1, <2>2 DEF After, Taken
  <2>4. Told(h, g, p, s)
    BY <2>3, EventTold
  <2>5. Truth(h, g)
    BY <1>5, <2>1 DEF Truth, Taken
  <2>6. Kept(h, g)
    BY <1>1, <1>2, <1>6, <2>1 DEF Kept
  <2>7. Shown(g)
    BY <1>1, <2>1 DEF Shown, SameShown, EventOf, ShouldRaiseInitialEvent
  <2>8. Shows(c, g)
    BY <2>1, ShowsSame
  <2> QED BY <2>1, <2>4, <2>5, <2>6, <2>7, <2>8 DEF Faithful, SameStore, Taken
<1>7. CASE c.view.on
  <2>1. g = ViewMoved(e, news, change)
    BY <1>7, <1>8 DEF Moves
  <2>2. /\ g \in WideClients
        /\ SameStream(e, g) /\ SameStore(e, g) /\ SameLimbo(e, g)
        /\ g.view = Settled(ViewAfter(c.view, news, change))
        /\ g.online = c.online
    BY <1>8, <2>1, ViewMovedEffect
  <2>3. Sound(g, p, s)
    BY <1>8, <2>1, ViewMovedSound
  <2> DEFINE w == ViewAfter(c.view, news, change)
  <2>4. /\ w \in Views /\ w.on = c.view.on /\ w.synced = SyncedOf(change, c.view.synced)
    <3>1. c.view \in Views
      BY <1>4, ClientFields
    <3> QED BY <1>8, <3>1, ViewAfterFields
  <2>5. g.view = Settled(w)
    BY <2>2
  <2> HIDE DEF w
  <2>6. g.view.on = c.view.on /\ g.view.synced = SyncedOf(change, d.view.synced)
    BY <2>4, <2>5, SettledFields
  <2>7. After(d, g)
    BY <1>8, <2>2, <2>6 DEF After, Taken, SameStream, SameLimbo
  <2>8. Told(h, g, p, s)
    BY <2>7, EventTold
  <2>9. KeptInView(g)
    <3>1. g.disk = e.disk /\ g.token = e.token
          /\ g.view = Settled(ViewAfter(c.view, news, ChangeOf(d, Main)))
      BY <1>8, <2>2 DEF SameStore
    <3> QED BY <1>7, <1>8, <2>7, <3>1, EventView
  <2>10. Kept(h, g)
    BY <1>2, <1>7, <2>2, <2>6, <2>9 DEF Kept, KeptOnDisk, SameStore
  <2>11. Truth(h, g)
    BY <1>5, <2>2 DEF Truth, Taken, SameStream, SameStore
  <2>12. Shown(e)
    BY <1>1 DEF Shown, SameShown, EventOf, ShouldRaiseInitialEvent
  <2>13. Shown(g) /\ Shows(e, g)
    BY <1>7, <1>8, <2>1, <2>12, ViewMovedShown, SMTT(40)
  <2>14. Shows(c, g)
    BY <2>13 DEF Shows, ShownAnew, SameShown
  <2>15. g.updates = {}
    BY <2>7 DEF After
  <2> QED BY <2>2, <2>3, <2>6, <2>8, <2>10, <2>11, <2>13, <2>14, <2>15 DEF Faithful
<1> QED BY <1>6, <1>7

\* A global snapshot that is news.
LEMMA RaiseWatchSnapshotTakes ==
    ASSUME NEW h, NEW c, NEW q \in Seq(Messages), q # <<>>, NEW s, Ready(h, c, q, s),
           NEW p, p = Tail(q), NEW m, m = Head(q), m.kind = "snapshot",
           m.version >= c.disk.version, NEW old \in BOOLEAN,
           NEW a, a = HandleNoChange(c, m.version), NEW f,
           f = RaiseWatchSnapshot(a, m.version, old)
    PROVE  Takes(h, c, f, q, p, s)
<1> DEFINE v == m.version
           d == DeduceMissing(a, v)
           e == EventApplied(a, d, v, old)
           news == NewsOf(d.disk.document, d.updates)
           change == ChangeOf(d, Main)
           g == IF c.view.on THEN ViewMoved(e, news, change) ELSE e
<1>1. Sound(c, q, s) /\ c \in WideClients /\ h \in Seq(BOOLEAN)
  BY DEF Ready, Sound
<1>2. v \in 1..MaxVersion
  <2>1. m \in Messages
    BY TailIs
  <2> QED BY <2>1, MessageFields
<1>3. Sound(c, p, s) /\ c.open
  BY <1>1, HeardSound
<1>4. d = DeduceMissing(a, v) /\ e = EventApplied(a, d, v, old)
      /\ news = NewsOf(d.disk.document, d.updates) /\ change = ChangeOf(d, Main)
      /\ g = IF c.view.on THEN ViewMoved(e, news, change) ELSE e
  OBVIOUS
<1> HIDE DEF v, d, e, news, change, g
<1>5. v = m.version
  BY DEF v
<1>6. Noted(c, d, v) /\ Deduced(c, d, v)
  BY <1>1, <1>2, <1>4, <1>5, SnapshotNoted, SMTT(40)
<1>7. /\ e \in WideClients /\ Sound(e, p, s) /\ Calm(e)
      /\ Recorded(d, e, v, old) /\ SameShown(c, e)
      /\ e.view = c.view /\ d.view = c.view /\ e.online = c.online
      /\ Taken(d, e) /\ news \in SUBSET MaybeDocuments
      /\ ~c.view.on => f = e /\ change = {}
      /\ c.view.on =>
            f = UpdateTrackedLimboDocuments(ViewMoved(e, news, change), c.view.limbo)
  BY <1>2, <1>3, <1>4, <1>5, EventIs
<1>8. /\ Sound(g, p, s) /\ Told(h, g, p, s) /\ Faithful(h, g) /\ Shows(c, g)
      /\ SameStore(e, g) /\ g.view.on = c.view.on /\ g.updates = {}
  <2>1. /\ Noted(c, d, m.version) /\ Deduced(c, d, m.version)
        /\ Recorded(d, e, m.version, old)
    BY <1>5, <1>6, <1>7
  <2>2. Records(c, d, e, p, s)
    BY <1>7, SMTT(40) DEF Records
  <2>3. Moves(c, d, e, g)
    BY <1>4, <1>7 DEF Moves
  <2>4. Arrives(h, c, e, g, p, s)
    BY <2>1, <2>2, <2>3, EventMoved
  <2> QED BY <2>4 DEF Arrives
<1>9. f = g \/ f = UpdateTrackedLimboDocuments(g, c.view.limbo)
  BY <1>4, <1>7
<1>10. /\ Told(h, f, p, s) /\ Faithful(h, f) /\ SameApp(g, f)
       /\ f.updates = g.updates /\ f \in WideClients
  <2>1. CASE f = g
    BY <1>8, <2>1 DEF SameApp, SameShown, SameStore, Sound
  <2>2. CASE f = UpdateTrackedLimboDocuments(g, c.view.limbo)
    <3>1. Len(h) \in Nat
      BY <1>1, LenProperties
    <3> QED BY <1>8, <2>2, <3>1, UpdateTrackedTold
  <2> QED BY <1>9, <2>1, <2>2
<1>11. Shows(c, f)
  BY <1>8, <1>10, ShowsTo
<1>12. Unbroken(h, c, q, s) => Unbroken(h, f, p, s)
  <2>1. SUFFICES ASSUME Unbroken(h, c, q, s) PROVE Unbroken(h, f, p, s)
    OBVIOUS
  <2>2. e.view.on = c.view.on /\ e.newest = c.newest
    BY <1>7 DEF SameShown
  <2>3. Resumable(h, e) /\ Upward(h, e)
    BY <1>5, <1>6, <1>7, <2>1, <2>2, EventUnbroken
  <2>4. f.disk = e.disk /\ f.token = e.token /\ f.view.on = e.view.on /\ f.updates = {}
    BY <1>7, <1>8, <1>10, SMTT(40) DEF SameApp, SameStore
  <2>5. Resumable(h, f)
    BY <2>3, <2>4 DEF Resumable, Latest
  <2>6. Backs(h, f, p, s)
    BY <2>4 DEF Backs
  <2>7. Undisturbed(c, q)
    BY <2>1 DEF Unbroken
  <2>8. Undisturbed(f, p)
    BY <2>4, <2>7, UndisturbedTail
  <2>9. Upward(h, f)
    <3>1. Shows(e, f)
      BY <1>7, <1>11, ShowsFrom
    <3>2. Kept(h, f) /\ Shown(f)
      BY <1>10 DEF Faithful
    <3> QED BY <1>7, <1>10, <2>3, <2>4, <3>1, <3>2, UpwardShown
  <2> QED BY <2>5, <2>6, <2>8, <2>9 DEF Unbroken
<1> QED BY <1>10, <1>11, <1>12 DEF Takes

\* A global snapshot, raised or passed over.
LEMMA SnapshotTakes ==
    ASSUME NEW h, NEW c, NEW q \in Seq(Messages), q # <<>>, NEW s, Ready(h, c, q, s),
           NEW p, p = Tail(q), NEW m, m = Head(q), m.kind = "snapshot", NEW old \in BOOLEAN,
           NEW a, a = HandleNoChange(c, m.version), NEW f,
           f = IF IsNews(a, m.version) THEN RaiseWatchSnapshot(a, m.version, old) ELSE a
    PROVE  Takes(h, c, f, q, p, s)
<1>1. c \in WideClients
  BY DEF Ready, Sound
<1>2. m.version \in 1..MaxVersion /\ m.version \in 0..MaxVersion
  <2>1. m \in Messages
    BY TailIs
  <2> QED BY <2>1, MessageFields
<1>3. Aggregates(c, a) /\ a.updates = c.updates /\ a.disk = c.disk
  BY <1>1, <1>2, HandleNoChangeEffect DEF Aggregates, SameApp, SameStore
<1>4. CASE m.version >= a.disk.version
  <2>1. f = RaiseWatchSnapshot(a, m.version, old) /\ m.version >= c.disk.version
    BY <1>3, <1>4 DEF IsNews
  <2> QED BY <2>1, RaiseWatchSnapshotTakes
<1>5. CASE ~(m.version >= a.disk.version)
  <2>1. f = a
    BY <1>5 DEF IsNews
  <2> DEFINE d == DeduceMissing(a, m.version)
  <2>2. Noted(c, d, m.version) /\ d.states = a.states
    <3>1. a \in WideClients
      BY <1>3 DEF Aggregates
    <3>2. Noted(c, d, m.version)
      BY <1>1, <1>2, SnapshotNoted
    <3>3. d = DeduceMissing(a, m.version)
      OBVIOUS
    <3> HIDE DEF d
    <3>4. Aggregates(a, d) /\ d.states = a.states
      BY <1>2, <3>1, <3>3, DeduceMissingEffect, ZenonT(60)
    <3> QED BY <3>2, <3>4
  <2> HIDE DEF d
  <2>3. \A t \in c.listens : /\ ~Telling(m, t)
                             /\ a.states[t].change = c.states[t].change
                             /\ a.states[t].pending # 0 => c.states[t].pending # 0
    BY <1>1, <2>2, ClientFields DEF Telling, Noted
  <2> QED BY <1>3, <2>1, <2>3, QuietTakes
<1> QED BY <1>4, <1>5

-----------------------------------------------------------------------------
(* A rejected target *)

\* The other targets of a client that dropped one.
LEMMA DroppedTold ==
    ASSUME NEW h, NEW c \in WideClients, NEW q \in Seq(Messages), q # <<>>, NEW s,
           Told(h, c, q, s), NEW p, p = Tail(q), NEW m, m = Head(q), NEW t \in Targets,
           m.kind = "rejected", m.target = t, NEW d, SameStream(Dropped(c, t), d),
           \A u \in d.listens : TargetContainsDocument(d, u) <=> TargetContainsDocument(c, u)
    PROVE  Told(h, d, p, s)
<1> DEFINE b == Dropped(c, t)
<1>1. /\ b.open = c.open /\ b.requests = c.requests /\ b.tokens = c.tokens
      /\ b.updates = c.updates /\ b.listens = c.listens \ {t}
      /\ b.states = Replaced(c.states, t, FreshTarget)
  BY DroppedEffect
<1>2. SameStream(b, d)
  OBVIOUS
<1> HIDE DEF b
<1>3. /\ d.open = c.open /\ d.requests = c.requests /\ d.tokens = c.tokens
      /\ d.updates = c.updates /\ d.listens = c.listens \ {t}
      /\ d.states = Replaced(c.states, t, FreshTarget)
  BY <1>1, <1>2 DEF SameStream
<1>4. ASSUME NEW u \in d.listens PROVE TargetTold(h, d, p, s, u)
  <2>1. u \in c.listens /\ u # t /\ u \in Targets
    BY <1>3, ClientFields
  <2>2. Line(h, c, q, s, u, Fits(c.states[u].change, Claim(h, c.tokens[u])))
        /\ TargetHolds(h, c, q, s, u)
    BY <2>1 DEF Told, TargetTold
  <2>3. d.states[u] = c.states[u]
    <3> DEFINE x == FreshTarget
    <3>1. x \in WideTargetStates /\ c.states \in [Targets -> WideTargetStates]
      BY FreshFields, ClientFields
    <3>2. d.states = Replaced(c.states, t, x)
      BY <1>3
    <3> HIDE DEF x
    <3> QED BY <2>1, <3>1, <3>2, ReplacedFields
  <2>4. Wants(d, u) => Wants(c, u) /\ ~(m.kind = "rejected" /\ m.target = u)
    BY <1>3, <2>1 DEF Wants, Asks
  <2>5. ~Telling(m, u) /\ (m.kind = "snapshot" => m.version \in Nat)
    BY DEF Telling
  <2> DEFINE ks == Fits(c.states[u].change, Claim(h, c.tokens[u]))
  <2>6. Line(h, c, q, s, u, ks)
    BY <2>2
  <2>7. ks = Fits(d.states[u].change, Claim(h, d.tokens[u]))
    BY <1>3, <2>3
  <2> HIDE DEF ks
  <2>8. Line(h, d, p, s, u, ks)
    BY <2>4, <2>5, <2>6, LineTail
  <2>9. Wants(d, u) /\ s[u].phase = "none" => Tells(p, "rejected", u)
    BY <2>1, <2>4, AnswerTail
  <2>10. TargetContainsDocument(d, u) <=> TargetContainsDocument(c, u)
    OBVIOUS
  <2>11. TargetHolds(h, d, p, s, u)
    BY <1>3, <2>2, <2>3, <2>9, <2>10 DEF TargetHolds
  <2> QED BY <2>7, <2>8, <2>11 DEF TargetTold
<1> QED BY <1>4 DEF Told

\* The app's target is rejected: its token is kept, and its listeners are failed.
LEMMA RejectedTakes ==
    ASSUME NEW h, NEW c, NEW q \in Seq(Messages), q # <<>>, NEW s, Ready(h, c, q, s),
           NEW p, p = Tail(q), NEW m, m = Head(q), m.kind = "rejected", m.target = Main,
           Main \in c.listens, NEW f, f = ProcessTargetError(c, Main)
    PROVE  Takes(h, c, f, q, p, s)
<1> DEFINE b == Dropped(c, Main)
           g == Failed(b)
<1>1. Sound(c, q, s) /\ c \in WideClients /\ Coherent(c) /\ Told(h, c, q, s)
      /\ Truth(h, c) /\ Kept(h, c) /\ Shown(c) /\ Len(h) \in Nat /\ Main \in Targets
  BY TargetFacts, LenProperties DEF Ready, Sound, Faithful
<1>2. f = RemoveLimboTarget(g)
  BY ProcessTargetErrorIs
<1>3. Sound(g, p, s)
  BY <1>1, FailedSound
<1>4. /\ b \in WideClients /\ SameApp(c, b) /\ SameLimbo(c, b)
      /\ b.listens = c.listens \ {Main} /\ b.updates = c.updates
  BY <1>1, DroppedEffect
<1>5. b = Dropped(c, Main) /\ g = Failed(b)
  OBVIOUS
<1> HIDE DEF b, g
<1>6. /\ g \in WideClients /\ SameStream(b, g) /\ SameLimbo(b, g)
      /\ g.view = NoView /\ g.token = 0
      /\ g.shown = FailedShown(b) /\ g.newest = b.newest
      /\ g.disk.token = b.token /\ g.disk.keys = b.disk.keys
      /\ g.disk.document = b.disk.document /\ g.disk.version = b.disk.version
  BY <1>4, <1>5, FailedEffect
<1>7. /\ g.newest = c.newest /\ g.updates = c.updates /\ g.listens = c.listens \ {Main}
      /\ g.disk.token = c.token /\ g.disk.keys = c.disk.keys
      /\ g.disk.document = c.disk.document /\ g.disk.version = c.disk.version
      /\ ~g.view.on /\ g.view.sync = "None" /\ b.shown = c.shown
      /\ g.limbo = c.limbo /\ g.received = c.received
  BY <1>4, <1>6 DEF SameApp, SameShown, SameStore, SameStream, SameLimbo, NoView
<1>8. Told(h, g, p, s)
  <2>1. \A u \in g.listens : TargetContainsDocument(g, u) <=> TargetContainsDocument(c, u)
    BY <1>7 DEF TargetContainsDocument
  <2> QED BY <1>1, <1>5, <1>6, <2>1, DroppedTold, ZenonT(60)
<1>9. c.view.on /\ KeptInView(c) /\ (c.disk.keys <=> Had(h, c.token))
  <2>1. c.view.on /\ KeptInView(c)
    BY <1>1 DEF Coherent, Kept
  <2>2. TargetContainsDocument(c, Main) <=> Had(h, c.tokens[Main])
    BY <1>1 DEF Told, TargetTold, TargetHolds
  <2> QED BY <2>1, <2>2 DEF TargetContainsDocument, KeptInView
<1>10. Kept(h, g)
  BY <1>1, <1>7, <1>9 DEF Kept, KeptOnDisk, KeptInView
<1>11. Truth(h, g)
  BY <1>1, <1>7 DEF Truth
<1>12. \A l \in Listeners : g.shown[l] = IF c.shown[l].kind = "idle" THEN c.shown[l]
                                                             ELSE [kind |-> "failed"]
  BY <1>6, <1>7 DEF FailedShown
<1>13. Shown(g)
  BY <1>12 DEF Shown
<1>14. Shows(c, g)
  <2>1. ASSUME NEW l \in Listeners, g.shown[l] # c.shown[l]
        PROVE  c.shown[l].kind # "failed" /\ ShownAnew(c, g, l)
    <3>1. g.shown[l] = [kind |-> "failed"]
      BY <1>12, <2>1
    <3>2. g.shown[l].kind = "failed"
      BY <3>1
    <3>3. c.shown[l].kind # "failed"
      BY <1>1, <2>1, <3>1, ClientFields DEF Events
    <3> QED BY <3>2, <3>3 DEF ShownAnew
  <2> QED BY <1>7, <2>1 DEF Shows
<1>15. Faithful(h, g)
  BY <1>10, <1>11, <1>13 DEF Faithful
<1>16. Told(h, f, p, s) /\ Faithful(h, f) /\ SameApp(g, f) /\ f.updates = g.updates
  BY <1>1, <1>2, <1>3, <1>6, <1>8, <1>15, RemoveLimboTargetTold DEF Sound
<1>17. Shows(c, f)
  BY <1>14, <1>16 DEF Shows, ShownAnew, SameApp, SameShown, EventOf
<1>18. Unbroken(h, c, q, s) => Unbroken(h, f, p, s)
  <2>1. SUFFICES ASSUME Unbroken(h, c, q, s) PROVE Unbroken(h, f, p, s)
    OBVIOUS
  <2>2. Undisturbed(c, q) /\ Resumable(h, c) /\ Upward(h, c)
    BY <2>1 DEF Unbroken
  <2>3. f.updates = c.updates
    BY <1>7, <1>16
  <2>4. Undisturbed(f, p) /\ c.updates = {}
    BY <2>2, <2>3, UndisturbedTail
  <2>5. Backs(h, f, p, s)
    BY <2>3, <2>4 DEF Backs
  <2>6. /\ f.disk.keys = c.disk.keys /\ f.disk.document = c.disk.document
        /\ f.disk.version = c.disk.version /\ f.newest = c.newest
        /\ Latest(f) = Latest(c)
    BY <1>7, <1>9, <1>16 DEF SameApp, SameShown, SameStore, Latest
  <2>7. Resumable(h, f)
    BY <2>2, <2>6 DEF Resumable
  <2>8. Upward(h, f)
    BY <2>2, <2>6 DEF Upward
  <2> QED BY <2>4, <2>5, <2>7, <2>8 DEF Unbroken
<1> QED BY <1>16, <1>17, <1>18 DEF Takes

\* The limbo document's target is rejected: there is no such document.
LEMMA LimboRejectedTakes ==
    ASSUME NEW h, NEW c, NEW q \in Seq(Messages), q # <<>>, NEW s, Ready(h, c, q, s),
           NEW p, p = Tail(q), NEW m, m = Head(q), m.kind = "rejected", NEW t \in c.listens,
           m.target = t, t # Main, NEW f, f = ProcessTargetError(c, t)
    PROVE  Takes(h, c, f, q, p, s)
<1> DEFINE b == Dropped(c, t)
           g == Unasked(b)
           none == {NoneVersion}
           k == ApplyUpdates(g, none)[1]
           news == ApplyUpdates(g, none)[2]
           no == {}
           e == ViewMoved(k, news, no)
<1>1. Sound(c, q, s) /\ c \in WideClients /\ Coherent(c) /\ Told(h, c, q, s)
      /\ Truth(h, c) /\ Kept(h, c) /\ Shown(c) /\ Len(h) \in Nat /\ t \in Targets
  BY ClientFields, LenProperties DEF Ready, Sound, Faithful
<1>2. f = EmitNewSnapshots(k, news, no)
  BY ProcessTargetErrorIs
<1>3. Sound(g, p, s) /\ t = c.limbo
  BY <1>1, UnaskedSound
<1>4. /\ b \in WideClients /\ SameApp(c, b) /\ b.listens = c.listens \ {t}
      /\ b.updates = c.updates
  BY <1>1, DroppedEffect
<1>5. b = Dropped(c, t) /\ g = Unasked(b) /\ no = {} /\ none = {NoneVersion}
      /\ k = ApplyUpdates(g, none)[1] /\ news = ApplyUpdates(g, none)[2]
      /\ e = ViewMoved(k, news, no)
  OBVIOUS
<1>6. none \in SUBSET MaybeDocuments
  BY NoneIsDocument
<1>7. \A document : NewsOf(document, none) = none
  BY DEF NewsOf
<1>8. \A document : StoredOf(none, document) = NoneVersion
  <2>1. (CHOOSE x \in {NoneVersion} : TRUE) = NoneVersion
    OBVIOUS
  <2> QED BY <2>1 DEF StoredOf
<1>9. \A version : DocumentOf(none, version) = 0
  BY <1>1, NoneTrue DEF DocumentOf
<1> HIDE DEF b, g, none, k, news, no, e
<1>10. /\ g \in WideClients /\ SameStream(b, g) /\ SameApp(b, g)
       /\ g.limbo = 0
  BY <1>4, <1>5, UnaskedEffect
<1>11. Told(h, g, p, s)
  <2>1. \A u \in g.listens : u = Main
    BY <1>1, <1>3, <1>4, <1>10 DEF Coherent, SameStream
  <2>2. \A u \in g.listens : TargetContainsDocument(g, u) <=> TargetContainsDocument(c, u)
    BY <1>4, <1>10, <2>1 DEF TargetContainsDocument, SameApp
  <2> QED BY <1>1, <1>5, <1>10, <2>2, DroppedTold
<1>12. /\ news = none /\ Stores(g, k) /\ k.token = g.token
       /\ k.disk.document = NoneVersion
       /\ k.disk.keys = g.disk.keys /\ k.disk.token = g.disk.token
       /\ k.disk.version = g.disk.version
  <2>1. /\ news = NewsOf(g.disk.document, none) /\ Stores(g, k) /\ k.token = g.token
        /\ k.disk.document = StoredOf(NewsOf(g.disk.document, none), g.disk.document)
        /\ k.disk.keys = g.disk.keys /\ k.disk.token = g.disk.token
        /\ k.disk.version = g.disk.version
    BY <1>5, <1>6, <1>10, ApplyUpdatesEffect
  <2>2. NewsOf(g.disk.document, none) = none
    BY <1>7
  <2>3. StoredOf(none, g.disk.document) = NoneVersion
    BY <1>8
  <2> QED BY <2>1, <2>2, <2>3
<1>13. /\ k.updates = c.updates /\ k.view = c.view /\ k.online = c.online
       /\ SameShown(c, k) /\ k.token = c.token
       /\ k.disk.keys = c.disk.keys /\ k.disk.token = c.disk.token
       /\ k.disk.version = c.disk.version /\ k \in WideClients
  BY <1>4, <1>10, <1>12 DEF SameApp, SameShown, SameStore, SameStream, Stores
<1>14. k.tokens = c.tokens
  <2>1. b.tokens = c.tokens
    BY <1>1, <1>5, DroppedEffect
  <2> QED BY <1>10, <1>12, <2>1 DEF SameStream, Stores
<1>15. Sound(k, p, s)
  BY <1>3, <1>12, SoundKept DEF Stores
<1>16. Told(h, k, p, s)
  <2>1. SameTargets(g, k) /\ k.requests = g.requests
    BY <1>12, TargetsOf DEF Stores
  <2> QED BY <1>1, <1>11, <2>1, ToldSame
<1>17. Truth(h, k)
  BY <1>1, <1>12, <1>13, NoneTrue DEF Truth
<1>18. Shown(k)
  BY <1>1, <1>13 DEF Shown, SameShown, EventOf, ShouldRaiseInitialEvent
<1>19. /\ ~k.view.on => f = k
       /\ k.view.on => f = UpdateTrackedLimboDocuments(e, k.view.limbo)
  <2>1. \A x \in no : x.change = "Modified" => k.view.synced
    BY <1>5
  <2> QED BY <1>2, <1>5, <1>6, <1>12, <1>13, <2>1, EmitEffect
<1>20. ~Unbroken(h, c, q, s)
  <2>1. Undisturbed(c, q) => m.target = Main
    BY UndisturbedTail
  <2> QED BY <2>1 DEF Unbroken
<1>21. CASE ~c.view.on
  <2>1. f = k
    BY <1>13, <1>19, <1>21
  <2>2. Kept(h, k)
    BY <1>1, <1>13, <1>21 DEF Kept, KeptOnDisk
  <2>3. Told(h, f, p, s) /\ Faithful(h, f) /\ Shows(c, f)
    BY <1>13, <1>16, <1>17, <1>18, <2>1, <2>2, ShowsSame DEF Faithful
  <2> QED BY <1>20, <2>3 DEF Takes
<1>22. CASE c.view.on
  <2> DEFINE w == ViewAfter(k.view, news, no)
  <2>1. f = UpdateTrackedLimboDocuments(e, k.view.limbo)
    BY <1>13, <1>19, <1>22
  <2>2. /\ e \in WideClients
        /\ SameStream(k, e) /\ SameStore(k, e) /\ SameLimbo(k, e)
        /\ e.view = Settled(w) /\ e.online = k.online /\ e.asserted = k.asserted
    BY <1>5, <1>6, <1>12, <1>13, ViewMovedEffect
  <2>3. /\ w \in Views /\ w.on = c.view.on /\ w.document = 0
        /\ w.synced = c.view.synced /\ w.current = c.view.current
        /\ w.limbo = c.view.limbo
    <3>1. c.view \in Views
      BY <1>1, ClientFields
    <3>2. SyncedOf(no, c.view.synced) = c.view.synced
          /\ CurrentOf(no, c.view.current) = c.view.current
      BY <1>5, NoChange
    <3> QED BY <1>6, <1>9, <1>12, <1>13, <3>1, <3>2, ViewAfterFields
  <2> HIDE DEF w
  <2>4. /\ e.view.on = c.view.on /\ e.view.document = 0
        /\ e.view.synced = c.view.synced /\ e.view.current = c.view.current
        /\ e.view.limbo = (IF w.current THEN w.document # 0 /\ ~w.synced ELSE w.limbo)
        /\ e.view.sync = IF w.current /\ ~e.view.limbo THEN "Synced" ELSE "Local"
    BY <2>2, <2>3, SettledFields
  <2>5. Sound(e, p, s)
    BY <1>13, <1>15, <2>2, <2>4, SoundKept
  <2>6. Told(h, e, p, s)
    <3>1. SameTargets(k, e) /\ e.requests = k.requests
      BY <1>13, <2>2, <2>4, TargetsOf
    <3> QED BY <1>1, <1>16, <3>1, ToldSame
  <2>7. Kept(h, e)
    <3>1. /\ e.disk = k.disk /\ e.token = c.token /\ e.tokens = c.tokens
      BY <1>13, <1>14, <2>2 DEF SameStore, SameStream
    <3>2. DocumentClaim(e.disk.document) = 0
      BY <1>1, <1>12, <3>1, NoneTrue
    <3>3. KeptOnDisk(h, e)
      BY <1>1, <1>13, <3>1 DEF Kept, KeptOnDisk
    <3>4. KeptInView(c)
      BY <1>1, <1>22 DEF Kept
    <3>5. KeptInView(e)
      BY <1>13, <2>3, <2>4, <3>1, <3>2, <3>4, ZenonT(60) DEF KeptInView
    <3> QED BY <1>22, <2>4, <3>3, <3>5 DEF Kept
  <2>8. Truth(h, e)
    BY <1>17, <2>2 DEF Truth, SameStream, SameStore
  <2>9. Shown(e) /\ Shows(k, e)
    BY <1>5, <1>6, <1>12, <1>13, <1>18, <1>22, ViewMovedShown
  <2>10. Shows(c, e)
    BY <1>13, <2>9 DEF Shows, ShownAnew, SameShown
  <2>11. Told(h, f, p, s) /\ Faithful(h, f) /\ SameApp(e, f)
    BY <1>1, <2>1, <2>5, <2>6, <2>7, <2>8, <2>9, UpdateTrackedTold DEF Faithful
  <2>12. Shows(c, f)
    BY <2>10, <2>11 DEF Shows, ShownAnew, SameApp, SameShown, EventOf
  <2> QED BY <1>20, <2>11, <2>12 DEF Takes
<1> QED BY <1>21, <1>22

\* A message is processed: every case of OnWatchStreamChange.
LEMMA OnWatchStreamChangeTakes ==
    ASSUME NEW h, NEW c, NEW q \in Seq(Messages), q # <<>>, NEW s, Ready(h, c, q, s),
           NEW p, p = Tail(q), NEW m, m = Head(q), NEW old \in BOOLEAN,
           NEW d, d = UpdateState(c, "Online"), Ready(h, d, q, s),
           NEW e, e = OnWatchStreamChange(c, m, old)
    PROVE  Takes(h, d, e, q, p, s)
<1> DEFINE t == m.target
           f == HandleNoChange(d, m.version)
<1>1. m \in Messages
  BY TailTells, TargetFacts
<1>2. /\ m.kind = "added" => e = HandleAdded(d, t)
      /\ m.kind = "removed" => e = HandleRemoved(d, t)
      /\ m.kind = "current" => e = HandleCurrent(d, t, m.token)
      /\ m.kind = "reset" => e = HandleReset(d, t)
      /\ m.kind = "filter" => e = HandleExistenceFilter(d, t)
      /\ m.kind = "document" => e = HandleDocumentChange(d, t, m.document)
      /\ m.kind = "rejected" => e = ProcessTargetError(d, t)
      /\ m.kind = "snapshot" =>
            e = IF IsNews(f, m.version) THEN RaiseWatchSnapshot(f, m.version, old) ELSE f
  BY DEF OnWatchStreamChange
<1>3. CASE m.kind = "added"
  BY <1>2, <1>3, HandleAddedTakes
<1>4. CASE m.kind = "removed"
  BY <1>2, <1>4, HandleRemovedTakes
<1>5. CASE m.kind = "current"
  BY <1>2, <1>5, HandleCurrentTakes
<1>6. CASE m.kind = "reset"
  BY <1>2, <1>6, HandleResetTakes
<1>7. CASE m.kind = "filter"
  BY <1>2, <1>7, HandleExistenceFilterTakes
<1>8. CASE m.kind = "document"
  BY <1>2, <1>8, HandleDocumentChangeTakes
<1>9. CASE m.kind = "rejected"
  <2>1. e = ProcessTargetError(d, t)
    BY <1>2, <1>9
  <2>2. t \in Targets
    BY <1>1, <1>9, MessageFields
  <2>3. CASE t \notin d.listens
    <3>1. e = d
      BY <2>1, <2>3, ProcessTargetErrorIs
    <3> QED BY <2>3, <3>1, UnheardTakes
  <2>4. CASE t \in d.listens /\ t = Main
    BY <1>9, <2>1, <2>4, RejectedTakes
  <2>5. CASE t \in d.listens /\ t # Main
    BY <1>9, <2>1, <2>5, LimboRejectedTakes
  <2> QED BY <2>3, <2>4, <2>5
<1>10. CASE m.kind = "snapshot"
  BY <1>2, <1>10, SnapshotTakes
<1> QED BY <1>1, <1>3, <1>4, <1>5, <1>6, <1>7, <1>8, <1>9, <1>10, MessageFields

\* The client takes a message: with it on the way, the client is Online, and
\* then processes it.
LEMMA ReceiveHolds ==
    ASSUME DInv, NEW old \in BOOLEAN, Receive(old)
    PROVE  DInv' /\ Shows(client, client')
<1> DEFINE c == client
           online == "Online"
           d == UpdateState(c, online)
           e == client'
           h == history
           q == queue
           p == queue'
           m == Head(q)
           s == server.sessions
<1>1. /\ q # <<>> /\ p = Tail(q) /\ e = OnWatchStreamChange(c, m, old)
      /\ history' = history /\ server' = server /\ retracted' = retracted
      /\ e.open = c.open
  BY DEF Receive, Take, Link!Hears
<1>2. IInv /\ IInv'
  BY ReceiveKeeps DEF DInv
<1>3. /\ c \in WideClients /\ Len(h) \in Nat /\ h \in Seq(BOOLEAN) /\ Sound(c, q, s)
      /\ q \in Seq(Messages) /\ online \in {"Unknown", "Online", "Offline"}
  BY <1>2, HistoryFields DEF IInv, Sound, Network
<1>4. c.open
  BY <1>1, <1>3, ClientFields DEF Sound, Protocol, WhenClosed
<1>5. /\ Faithful(h, d) /\ Shows(c, d) /\ d \in WideClients
      /\ SameStream(c, d) /\ SameStore(c, d) /\ SameLimbo(c, d)
      /\ SameShown(c, d) /\ d.view = c.view
  BY <1>3, UpdateStateFaithful DEF DInv
<1>6. Sound(d, q, s)
  BY <1>3, UpdateStateSound
<1>7. e = OnWatchStreamChange(c, m, old) /\ d = UpdateState(c, "Online")
  BY <1>1
<1>8. Told(h, c, q, s) /\ Heard(h, q) /\ SentKnown(h, s) /\ Faithful(h, c)
      /\ (~retracted => Unbroken(h, c, q, s))
  BY DEF DInv
<1> HIDE DEF c, d, e, h, q, p, m, s, online
<1>9. SameTargets(c, d) /\ d.requests = c.requests
  BY <1>5, TargetsOf
<1>10. Told(h, d, q, s) /\ (Backs(h, c, q, s) => Backs(h, d, q, s))
  BY <1>3, <1>8, <1>9, ToldSame
<1>11. Ready(h, c, q, s) /\ Ready(h, d, q, s)
  BY <1>3, <1>5, <1>6, <1>8, <1>10 DEF Ready
<1>12. Unbroken(h, c, q, s) => Unbroken(h, d, q, s)
  <2>1. SUFFICES ASSUME Unbroken(h, c, q, s) PROVE Unbroken(h, d, q, s)
    OBVIOUS
  <2>2. Undisturbed(d, q)
    BY <1>9, <2>1 DEF Unbroken, Undisturbed, SameTargets
  <2>3. Resumable(h, d)
    BY <1>5, <2>1 DEF Unbroken, Resumable, Latest, SameStore
  <2>4. Upward(h, d)
    BY <1>3, <1>5, <1>8, <2>1, UpwardShown DEF Unbroken, Faithful, SameStore
  <2> QED BY <1>10, <2>1, <2>2, <2>3, <2>4 DEF Unbroken
<1>13. m = Head(q)
  BY DEF m
<1>14. Takes(h, d, e, q, p, s)
  BY <1>1, <1>3, <1>7, <1>11, <1>13, OnWatchStreamChangeTakes
<1>15. Heard(h, p)
  BY <1>1, <1>3, <1>8, <1>13, HeardTail
<1>16. Shows(c, e)
  BY <1>5, <1>14 DEF Takes, Shows, ShownAnew, SameShown
<1>17. e.open
  BY <1>1, <1>4
<1>18. /\ Told(h, e, p, s) /\ Faithful(h, e)
       /\ (~retracted => Unbroken(h, e, p, s))
  BY <1>8, <1>12, <1>14 DEF Takes
<1> QED BY <1>1, <1>2, <1>8, <1>15, <1>16, <1>17, <1>18 DEF DInv, c, e, h, p, s

\* No step breaks the invariant of the data.
LEMMA NextHolds == DInv /\ [Next]_vars => DInv'
<1> SUFFICES ASSUME DInv, [Next]_vars PROVE DInv'
  OBVIOUS
<1>1. ASSUME NEW b \in BOOLEAN, Write(b) PROVE DInv'
  BY <1>1, WriteHolds
<1>2. ASSUME Advance PROVE DInv'
  BY <1>2, AdvanceHolds
<1>3. ASSUME NEW r \in client.requests, ServeWatch(r) \/ ServeUnwatch(r) PROVE DInv'
  BY <1>3, ServeWatchHolds, ServeUnwatchHolds
<1>4. ASSUME NEW t \in Targets,
             SendDocument(t) \/ SendCurrent(t) \/ SendReset(t) \/ SendRejection(t)
      PROVE  DInv'
  BY <1>4, SendDocumentHolds, SendCurrentHolds, SendResetHolds, SendRejectionHolds
<1>5. ASSUME SendSnapshot PROVE DInv'
  BY <1>5, SendSnapshotHolds
<1>6. ASSUME NEW at \in 1..Len(history), StreamOpens(at) PROVE DInv'
  BY <1>6, StreamOpensHolds
<1>7. ASSUME NEW s \in {"Unknown", "Offline"}, StreamCloses(s) \/ OnlineStateChanges(s)
      PROVE  DInv'
  BY <1>7, StreamClosesHolds, OnlineStateChangesHolds
<1>8. ASSUME NEW old \in BOOLEAN, Receive(old) PROVE DInv'
  BY <1>8, ReceiveHolds
<1>9. ASSUME NEW l \in Listeners, Listening(l) PROVE DInv'
  BY <1>9, ListeningHolds
<1>10. ASSUME Restart PROVE DInv'
  BY <1>10, RestartHolds
<1>11. ASSUME UNCHANGED vars PROVE DInv'
  BY <1>11 DEF vars, DInv, IInv, Network
<1> QED BY <1>1, <1>2, <1>3, <1>4, <1>5, <1>6, <1>7, <1>8, <1>9, <1>10, <1>11 DEF Next

\* The invariant holds of every state: what is on disk, in the view, pending and on
\* the way is true of the server's document, and until the server takes something
\* back it is all of what the client's tokens stand for.
THEOREM SpecFaithful == Spec => []DInv
<1>1. Init => DInv
  BY InitTold
<1>2. DInv /\ [Next]_vars => DInv'
  BY NextHolds
<1> QED BY <1>1, <1>2, PTL DEF Spec

\* What is on disk when the app is ended can be resumed from: the document the
\* target is said to hold is as it was on the server at the target's token or later.
THEOREM DiskResumes == Spec => []ResumesFromDisk
<1>1. DInv => ResumesFromDisk
  <2>1. SUFFICES ASSUME DInv, client.disk.keys, ~retracted PROVE ResumesFromDisk
    BY DEF ResumesFromDisk
  <2>2. Resumable(history, client)
    BY <2>1 DEF DInv, Unbroken
  <2>3. PICK v \in DOMAIN history :
            v >= Latest(client) /\ IsAt(history, client.disk.document, v)
    BY <2>1, <2>2 DEF Resumable
  <2>4. Latest(client) >= client.disk.token /\ v \in Nat /\ client.disk.token \in Nat
        /\ Latest(client) \in Nat
    <3>1. client \in WideClients /\ Kept(history, client) /\ history \in Seq(BOOLEAN)
      BY <2>1, HistoryFields DEF DInv, IInv, Sound, Faithful, Network
    <3>2. client.disk \in Disks /\ client.token \in 0..MaxVersion
      BY <3>1, ClientFields
    <3>3. client.disk.token \in 0..MaxVersion
      BY <3>2, DiskFields
    <3> QED BY <3>1, <3>2, <3>3, WatchAssumption DEF Kept, KeptInView, Latest
  <2>5. v >= client.disk.token
    BY <2>3, <2>4
  <2> QED BY <2>3, <2>5 DEF ResumesFromDisk, IsAt
<1> QED BY <1>1, SpecFaithful, PTL

\* A view that is Synced shows the document as it was on the server at the target's
\* token or later: a listener is not told that the document is missing when the
\* client has merely not heard of it.
LEMMA SyncedIs == DInv => SyncedIsServers
<1>1. SUFFICES ASSUME DInv, client.view.sync = "Synced", ~retracted
      PROVE  \E v \in DOMAIN history : /\ v >= client.token
                                       /\ client.view.document = IF history[v] THEN v ELSE 0
  BY DEF SyncedIsServers
<1> DEFINE c == client
           h == history
<1>2. c \in WideClients /\ Kept(h, c) /\ Resumable(h, c) /\ Truth(h, c)
      /\ Told(h, c, queue, server.sessions) /\ Coherent(c)
      /\ h \in Seq(BOOLEAN) /\ Len(h) \in Nat /\ DOMAIN h = 1..Len(h)
  <2>1. IInv
    BY <1>1 DEF DInv
  <2>2. /\ Unbroken(h, c, queue, server.sessions) /\ Faithful(h, c)
        /\ Told(h, c, queue, server.sessions)
    BY <1>1 DEF DInv
  <2>3. c \in WideClients /\ h \in Seq(BOOLEAN) /\ Coherent(c)
    BY <2>1 DEF IInv, Sound, Network
  <2>4. Len(h) \in Nat /\ DOMAIN h = 1..Len(h)
    BY <2>3, LenProperties
  <2> QED BY <2>2, <2>3, <2>4 DEF Faithful, Unbroken
<1>3. c.view.sync = "Synced"
  BY <1>1
<1> HIDE DEF c, h
<1>4. c.disk \in Disks /\ c.token \in 0..MaxVersion /\ c.view \in Views
  BY <1>2, ClientFields
<1>5. c.disk.token \in 0..MaxVersion /\ c.disk.version \in 0..MaxVersion
      /\ c.disk.document \in MaybeDocuments
  BY <1>4, DiskFields
<1>6. /\ c.view.on /\ KeptInView(c) /\ KeptOnDisk(h, c)
      /\ c.view.current /\ ~c.view.limbo
  BY <1>2, <1>3 DEF Kept, KeptInView
<1>7. c.token # 0 /\ c.token <= Len(h) /\ c.token \in 1..Len(h)
  BY <1>2, <1>4, <1>5, <1>6, WatchAssumption DEF KeptInView, KeptOnDisk
<1>8. c.view.document = DocumentClaim(c.disk.document)
  BY <1>6 DEF KeptInView
<1>9. CASE c.disk.keys
  <2>1. PICK v \in DOMAIN h : v >= c.token /\ IsAt(h, c.disk.document, v)
    BY <1>2, <1>6, <1>9 DEF Resumable, Latest
  <2>2. c.disk.document.exists => c.disk.document.version # 0 /\ h[c.disk.document.version]
    BY <1>2 DEF Truth, TrueIn, Had
  <2>3. c.view.document = IF h[v] THEN v ELSE 0
    BY <1>8, <2>1, <2>2 DEF IsAt, DocumentClaim
  <2> QED BY <2>1, <2>3 DEF c, h
<1>10. CASE ~c.disk.keys
  <2>1. c.view.document = 0 /\ ~c.view.synced /\ c.tokens[Main] = c.token
    BY <1>6, <1>10 DEF KeptInView
  <2>2. TargetTold(h, c, queue, server.sessions, Main)
    BY <1>2, <1>6 DEF Told, Coherent
  <2>3. ~TargetContainsDocument(c, Main)
    BY <2>1 DEF TargetContainsDocument
  <2>4. ~h[c.token]
    BY <1>7, <2>1, <2>2, <2>3 DEF TargetTold, TargetHolds, Had
  <2>5. c.token \in DOMAIN h /\ c.token >= c.token
    BY <1>2, <1>4, <1>7
  <2> QED BY <2>1, <2>4, <2>5 DEF c, h
<1> QED BY <1>9, <1>10

\* A listener is never told that the document is missing when the client has merely
\* not heard of it: a view that is Synced is the server's.
THEOREM SyncedAgrees == Spec => []SyncedIsServers
<1> QED BY SyncedIs, SpecFaithful, PTL

-----------------------------------------------------------------------------
(* What DocumentListener promises *)

\* What the app knows a listener was shown: nothing yet, if it does not listen.
AppShown(c, l) == IF c.shown[l].kind = "idle" THEN [kind |-> "nothing"] ELSE c.shown[l]

\* What the listener l may be shown, of the client c and of d after it.
Allowed(h, c, d, l) ==
    \/ AppShown(d, l) = AppShown(c, l)
    \/ /\ AppShown(c, l) # [kind |-> "failed"]
       /\ \/ /\ AppShown(d, l) = [kind |-> "missing"]
             /\ \E w \in DOMAIN h : w >= c.newest /\ ~h[w]
          \/ /\ AppShown(d, l) = [kind |-> "missing"]
             /\ AppShown(c, l) = [kind |-> "nothing"] /\ d.online = "Offline"
          \/ AppShown(d, l) = [kind |-> "failed"]
          \/ \E v \in DOMAIN h : /\ h[v] /\ v >= c.newest
                                 /\ AppShown(d, l) = [kind |-> "version", is |-> v]

\* An event that is not a version is its kind.
EventForm(e) == e.kind = "version" \/ e = [kind |-> e.kind]
EventKind(e) == e.kind \in {"idle", "nothing", "missing", "failed", "version"}

PlainEvents == [kind : {"idle", "nothing", "missing", "failed"}]
VersionEvents == [kind : {"version"}, is : 1..MaxVersion]

\* Of an event that is not a version there is only one of its kind.
LEMMA EventByKind ==
    ASSUME NEW e \in Events
    PROVE  EventForm(e) /\ EventKind(e)
<1>1. ASSUME e \in PlainEvents PROVE EventForm(e) /\ EventKind(e)
  <2>1. PICK k \in {"idle", "nothing", "missing", "failed"} : e = [kind |-> k]
    BY <1>1 DEF PlainEvents
  <2>2. e.kind = k
    BY <2>1
  <2>3. EventForm(e)
    BY <2>1, <2>2 DEF EventForm
  <2>4. EventKind(e)
    BY <2>1, <2>2 DEF EventKind
  <2> QED BY <2>3, <2>4
<1>2. ASSUME e \in VersionEvents PROVE EventForm(e) /\ EventKind(e)
  BY <1>2 DEF EventForm, EventKind, VersionEvents
<1>3. Events = PlainEvents \cup VersionEvents
  BY DEF Events, PlainEvents, VersionEvents
<1> QED BY <1>1, <1>2, <1>3

\* What listeners are shown when the view is Synced, as SyncedIsServers has it.
ServersView(h, d) ==
    d.view.sync = "Synced" => \E v \in DOMAIN h : d.view.document = IF h[v] THEN v ELSE 0

\* A version a listener was shown is in the history, is the one on disk, and is not
\* newer than the newest.
LEMMA VersionShown ==
    ASSUME NEW h, NEW c \in WideClients, Faithful(h, c), Len(h) \in Nat, DOMAIN h = 1..Len(h),
           NEW l \in Listeners, c.shown[l].kind = "version"
    PROVE  /\ c.shown[l].is \in DOMAIN h /\ h[c.shown[l].is]
           /\ c.disk.document.exists /\ c.disk.document.version = c.shown[l].is
           /\ c.shown[l].is <= c.newest
           /\ c.shown[l] = [kind |-> "version", is |-> c.shown[l].is]
           /\ c.view.document = c.shown[l].is /\ c.shown[l].is # 0
<1>1. /\ c.view.on /\ c.shown[l] = EventOf(c) /\ c.shown[l].is <= c.newest
  BY DEF Faithful, Shown
<1>2. c.view.document = DocumentClaim(c.disk.document)
  BY <1>1 DEF Faithful, Kept, KeptInView
<1>3. c.shown[l].is = c.view.document /\ c.view.document # 0
      /\ c.shown[l] = [kind |-> "version", is |-> c.view.document]
  BY <1>1, EventKinds
<1>4. c.disk.document.exists /\ c.disk.document.version = c.view.document
  BY <1>2, <1>3 DEF DocumentClaim
<1>5. TrueIn(h, c.disk.document)
  BY DEF Faithful, Truth
<1>6. c.view.document \in DOMAIN h /\ h[c.view.document]
  BY <1>3, <1>4, <1>5 DEF TrueIn, Had
<1> QED BY <1>1, <1>3, <1>4, <1>6

\* Whatever is shown anew follows the history of the document: never backwards, and
\* missing only as DocumentListener lets it be.
LEMMA ShownIsAllowed ==
    ASSUME NEW h, NEW c \in WideClients, Faithful(h, c), Len(h) \in Nat, DOMAIN h = 1..Len(h),
           NEW d \in WideClients, Faithful(h, d), Upward(h, d), Shows(c, d),
           ServersView(h, d), NEW l \in Listeners
    PROVE  Allowed(h, c, d, l)
<1>1. c.shown[l] \in Events /\ d.shown[l] \in Events
      /\ c.newest \in 0..MaxVersion /\ d.newest \in 0..MaxVersion
      /\ d.view \in Views /\ d.disk \in Disks
  BY ClientFields
<1>2. c.newest <= d.newest /\ c.newest \in Nat /\ d.newest \in Nat
  BY <1>1, WatchAssumption DEF Shows
<1>3. CASE d.shown[l] = c.shown[l]
  BY <1>3 DEF Allowed, AppShown
<1>4. ASSUME c.shown[l].kind # "failed", ShownAnew(c, d, l) PROVE Allowed(h, c, d, l)
  <2>1. AppShown(c, l) # [kind |-> "failed"]
    BY <1>4 DEF AppShown
  <2>2. CASE d.shown[l].kind = "failed"
    <3>1. d.shown[l] = [kind |-> "failed"]
      BY <1>1, <2>2, EventByKind DEF EventForm
    <3> QED BY <2>1, <3>1 DEF Allowed, AppShown
  <2>3. CASE d.shown[l].kind = "nothing" /\ c.shown[l].kind = "idle"
    <3>1. d.shown[l] = [kind |-> "nothing"]
      BY <1>1, <2>3, EventByKind DEF EventForm
    <3> QED BY <2>3, <3>1 DEF Allowed, AppShown
  <2>4. CASE d.shown[l] = EventOf(d) /\ d.shown[l].kind = "version"
    <3> DEFINE v == d.shown[l].is
    <3>0. d.shown[l].kind = "version"
      BY <2>4
    <3>1. /\ v \in DOMAIN h /\ h[v] /\ d.disk.document.exists
          /\ d.disk.document.version = v /\ d.shown[l] = [kind |-> "version", is |-> v]
      BY <3>0, VersionShown
    <3> HIDE DEF v
    <3>2. v >= c.newest
      BY <1>2, <3>1 DEF Upward
    <3>3. AppShown(d, l) = [kind |-> "version", is |-> v]
      BY <3>1 DEF AppShown
    <3> QED BY <2>1, <3>1, <3>2, <3>3 DEF Allowed
  <2>5. ASSUME d.shown[l] = EventOf(d), d.shown[l].kind = "missing",
               \/ c.shown[l].kind = "version"
               \/ d.view.sync = "Synced"
               \/ d.online = "Offline" /\ c.shown[l].kind \in {"idle", "nothing"}
        PROVE  Allowed(h, c, d, l)
    <3>1. AppShown(d, l) = [kind |-> "missing"] /\ d.view.document = 0 /\ d.view.on
      <4>1. d.shown[l] = [kind |-> "missing"]
        BY <1>1, <2>5, EventByKind DEF EventForm
      <4>2. d.view.document = 0
        BY <2>5, EventKinds
      <4>3. d.view.on
        BY <2>5 DEF Faithful, Shown
      <4> QED BY <4>1, <4>2, <4>3 DEF AppShown
    <3>2. ~d.disk.document.exists
      <4>1. 0 = DocumentClaim(d.disk.document)
        BY <3>1 DEF Faithful, Kept, KeptInView
      <4> QED BY <4>1 DEF DocumentClaim, Faithful, Truth, TrueIn, Had
    <3>3. CASE d.newest # 0
      <4>1. PICK w \in DOMAIN h : w >= d.newest /\ ~h[w]
        BY <3>2, <3>3 DEF Upward
      <4>2. w >= c.newest
        BY <1>2, <4>1
      <4> QED BY <2>1, <3>1, <4>1, <4>2 DEF Allowed
    <3>4. CASE d.newest = 0 /\ c.shown[l].kind = "version"
      <4>1. c.shown[l].is <= c.newest /\ c.shown[l].is # 0 /\ c.shown[l].is \in DOMAIN h
        BY <3>4, VersionShown
      <4> QED BY <1>2, <3>4, <4>1
    <3>5. CASE d.newest = 0 /\ d.view.sync = "Synced"
      <4>1. PICK v \in DOMAIN h : d.view.document = IF h[v] THEN v ELSE 0
        BY <3>5 DEF ServersView
      <4>2. v >= c.newest /\ ~h[v]
        BY <1>2, <3>1, <3>5, <4>1
      <4> QED BY <2>1, <3>1, <4>2 DEF Allowed
    <3>6. CASE d.online = "Offline" /\ c.shown[l].kind \in {"idle", "nothing"}
      <4>1. AppShown(c, l) = [kind |-> "nothing"]
        BY <1>1, <3>6, EventByKind DEF EventForm, AppShown
      <4> QED BY <2>1, <3>1, <3>6, <4>1 DEF Allowed
    <3> QED BY <2>5, <3>3, <3>4, <3>5, <3>6
  <2>6. d.shown[l] = EventOf(d) => d.shown[l].kind \in {"missing", "version"}
    BY EventKinds
  <2> QED BY <1>4, <2>2, <2>3, <2>4, <2>5, <2>6 DEF ShownAnew
<1> QED BY <1>3, <1>4 DEF Shows

\* A version an app knows of is one the client's listener was shown.
LEMMA AppVersion ==
    ASSUME NEW c, NEW l, NEW v, AppShown(c, l) = [kind |-> "version", is |-> v]
    PROVE  c.shown[l].kind = "version" /\ c.shown[l].is = v
BY DEF AppShown

\* What the client newly shows is what DocumentListener shows, or what the server
\* took back may be.
LEMMA ShowsPromised ==
    ASSUME DInv, DInv', history' = history, Shows(client, client')
    PROVE  Promise!Show
<1> DEFINE c == client
           d == client'
           h == history
<1>1. /\ c \in WideClients /\ Faithful(h, c) /\ d \in WideClients /\ Faithful(h, d)
      /\ Len(h) \in Nat /\ DOMAIN h = 1..Len(h) /\ Shows(c, d)
  <2>1. IInv /\ IInv' /\ Faithful(h, c) /\ Faithful(h, d)
    BY DEF DInv
  <2>2. c \in WideClients /\ d \in WideClients /\ h \in Seq(BOOLEAN)
    BY <2>1 DEF IInv, Sound, Network
  <2>3. Len(h) \in Nat /\ DOMAIN h = 1..Len(h)
    BY <2>2, LenProperties
  <2> QED BY <2>1, <2>2, <2>3
<1>2. ~retracted' => Upward(h, d) /\ ServersView(h, d)
  <2>1. SUFFICES ASSUME ~retracted' PROVE Upward(h, d) /\ ServersView(h, d)
    OBVIOUS
  <2>2. Upward(h, d)
    BY <2>1 DEF DInv, Unbroken
  <2>3. SyncedIsServers'
    BY SyncedIs, PTL
  <2>4. ServersView(h, d)
    BY <2>1, <2>3 DEF SyncedIsServers, ServersView
  <2> QED BY <2>2, <2>4
<1>3. d.newest \in 0..MaxVersion /\ c.newest \in 0..MaxVersion
  BY <1>1, ClientFields
<1> HIDE DEF c, d, h
<1>4. ASSUME NEW l \in Listeners, ~retracted' PROVE Allowed(h, c, d, l)
  BY <1>1, <1>2, <1>4, ShownIsAllowed
<1>5. ASSUME NEW l \in Listeners, NEW v \in DOMAIN h,
             AppShown(d, l) = [kind |-> "version", is |-> v]
      PROVE  v <= d.newest
  <2>1. d.shown[l].kind = "version" /\ d.shown[l].is = v
    BY <1>5, AppVersion
  <2> QED BY <1>1, <2>1, VersionShown
<1>6. \/ d.newest = c.newest
      \/ /\ d.newest \in DOMAIN h
         /\ \E l \in Listeners : AppShown(d, l) = [kind |-> "version", is |-> d.newest]
  <2>1. SUFFICES ASSUME d.newest # c.newest
                 PROVE  /\ d.newest \in DOMAIN h
                        /\ \E l \in Listeners :
                              AppShown(d, l) = [kind |-> "version", is |-> d.newest]
    OBVIOUS
  <2>2. PICK l \in Listeners : d.shown[l] = [kind |-> "version", is |-> d.newest]
    BY <1>1, <2>1 DEF Shows
  <2>3. d.shown[l].kind = "version" /\ d.shown[l].is = d.newest
    BY <2>2
  <2>4. d.shown[l].is \in DOMAIN h
    BY <1>1, <2>3, VersionShown
  <2>5. AppShown(d, l) = [kind |-> "version", is |-> d.newest]
    BY <2>2 DEF AppShown
  <2> QED BY <2>3, <2>4, <2>5
<1>7. ASSUME NEW l \in Listeners PROVE Promise!MayShow(l, AppShown(d, l))
  <2>1. CASE retracted'
    BY <2>1 DEF Promise!MayShow
  <2>2. CASE ~retracted'
    <3>1. Allowed(h, c, d, l)
      BY <1>4, <2>2
    <3> QED BY <3>1 DEF Allowed, AppShown, Promise!MayShow, Promise!Missing, Promise!Nothing,
                        Promise!Failed, Promise!Version, c, d, h
  <2> QED BY <2>1, <2>2
<1> QED BY <1>5, <1>6, <1>7 DEF Promise!Show, Promise!Version, AppShown, c, d, h

\* To serve a request shows nothing.
LEMMA ServedShown ==
    ASSUME NEW c \in WideClients, NEW r, NEW d, d = Served(c, r)
    PROVE  Shows(c, d)
<1>1. d.shown = c.shown /\ d.newest = c.newest
  BY DEF Served, WideClients
<1> QED BY <1>1 DEF Shows

\* Nothing is shown when the app is started.
LEMMA StartedShown ==
    ASSUME NEW k, NEW n, NEW d, d = Started(k, n)
    PROVE  /\ \A l \in Listeners : d.shown[l] = [kind |-> "idle"]
           /\ d.newest = n /\ d.online = "Unknown"
BY DEF Started

\* The app is started again, as DocumentListener has it.
LEMMA RestartPromised ==
    ASSUME DInv, Restart
    PROVE  Promise!Restart
<1>1. client' = Started(client.disk, client.newest) /\ history' = history
      /\ retracted' = retracted
  BY DEF Restart
<1>2. /\ \A l \in Listeners : client'.shown[l] = [kind |-> "idle"]
      /\ client'.newest = client.newest /\ client'.online = "Unknown"
  BY <1>1, StartedShown
<1> QED BY <1>1, <1>2 DEF Promise!Restart, Promise!Nothing

\* Every step is one DocumentListener promises, or shows nothing.
LEMMA NextPromised == DInv /\ DInv' /\ [Next]_vars => [Promise!Next]_(Promise!promise)
<1> SUFFICES ASSUME DInv, DInv', [Next]_vars PROVE [Promise!Next]_(Promise!promise)
  OBVIOUS
<1>1. ASSUME NEW b \in BOOLEAN, Write(b) PROVE Promise!Next
  BY <1>1 DEF Write, Promise!Next, Promise!Write
<1>2. ASSUME history' = history, Shows(client, client') PROVE Promise!Next
  BY <1>2, ShowsPromised DEF Promise!Next
<1>3. ASSUME history' = history, client' = client PROVE Promise!Next
  BY <1>2, <1>3 DEF Shows
<1>4. ASSUME Advance PROVE Promise!Next
  BY <1>3, <1>4 DEF Advance
<1>5. ASSUME NEW r \in client.requests, ServeWatch(r) \/ ServeUnwatch(r) PROVE Promise!Next
  <2>1. client \in WideClients
    BY DEF DInv, IInv, Sound
  <2>2. client' = Served(client, r) /\ history' = history
    BY <1>5 DEF ServeWatch, ServeUnwatch, Served
  <2> QED BY <1>2, <2>1, <2>2, ServedShown
<1>6. ASSUME NEW t \in Targets,
             SendDocument(t) \/ SendCurrent(t) \/ SendReset(t) \/ SendRejection(t)
      PROVE  Promise!Next
  BY <1>3, <1>6 DEF SendDocument, SendCurrent, SendReset, SendRejection
<1>7. ASSUME SendSnapshot PROVE Promise!Next
  BY <1>3, <1>7 DEF SendSnapshot
<1>8. ASSUME NEW at \in 1..Len(history), StreamOpens(at) PROVE Promise!Next
  <2>1. history' = history
    BY <1>8 DEF StreamOpens
  <2> QED BY <1>2, <1>8, <2>1, StreamOpensHolds
<1>9. ASSUME NEW s \in {"Unknown", "Offline"}, StreamCloses(s) \/ OnlineStateChanges(s)
      PROVE  Promise!Next
  <2>1. history' = history
    BY <1>9 DEF StreamCloses, OnlineStateChanges
  <2>2. Shows(client, client')
    BY <1>9, StreamClosesHolds, OnlineStateChangesHolds
  <2> QED BY <1>2, <2>1, <2>2
<1>10. ASSUME NEW old \in BOOLEAN, Receive(old) PROVE Promise!Next
  <2>1. history' = history
    BY <1>10 DEF Receive
  <2> QED BY <1>2, <1>10, <2>1, ReceiveHolds
<1>11. ASSUME NEW l \in Listeners, Listening(l) PROVE Promise!Next
  <2>1. history' = history
    BY <1>11 DEF Listening
  <2> QED BY <1>2, <1>11, <2>1, ListeningHolds
<1>12. ASSUME Restart PROVE Promise!Next
  BY <1>12, RestartPromised DEF Promise!Next
<1>13. ASSUME UNCHANGED vars PROVE UNCHANGED Promise!promise
  BY <1>13 DEF vars, Promise!promise
<1> QED BY <1>1, <1>4, <1>5, <1>6, <1>7, <1>8, <1>9, <1>10, <1>11, <1>12, <1>13 DEF Next

\* The document's listeners keep DocumentListener's promise to the app, whatever
\* happens to the stream, to the other listeners and to the app's process: they
\* follow the server's history of the document, never backwards.
THEOREM KeepsPromise == Spec => ImplementsDocumentListener
<1>1. Init => Promise!Init
  <2> SUFFICES ASSUME Init PROVE Promise!Init
    OBVIOUS
  <2> DEFINE k == [document |-> NoneVersion, keys |-> FALSE, token |-> 0, version |-> 0]
  <2>1. client = Started(k, 0)
    BY DEF Init
  <2> HIDE DEF k
  <2>2. /\ \A l \in Listeners : client.shown[l] = [kind |-> "idle"]
        /\ client.newest = 0 /\ client.online = "Unknown"
    BY <2>1, StartedShown
  <2>3. [l \in Listeners |-> IF client.shown[l].kind = "idle" THEN [kind |-> "nothing"]
                             ELSE client.shown[l]] = [l \in Listeners |-> [kind |-> "nothing"]]
    BY <2>2
  <2>4. history \in {<<TRUE>>, <<FALSE>>} /\ retracted = FALSE
    BY DEF Init
  <2> QED BY <2>2, <2>3, <2>4, Zenon DEF Promise!Init, Promise!Nothing
<1>2. DInv /\ DInv' /\ [Next]_vars => [Promise!Next]_(Promise!promise)
  BY NextPromised
<1> QED BY <1>1, <1>2, SpecFaithful, PTL DEF Spec, ImplementsDocumentListener, Promise!Spec
=============================================================================
