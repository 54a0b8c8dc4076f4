------------------------- MODULE DocumentWatchProofs -------------------------
(****************************************************************************)
(* That the way of a message to the listeners asserts nothing wrong, for    *)
(* any number of listeners, versions, limbo documents, messages and faults. *)
(* Protocol relates the requests, the server's sessions, the messages and   *)
(* the counts of answers that are owed; Coherent relates the targets that   *)
(* are listened to, the view, the limbo document and what is pending.       *)
(* Together, with the client's type, they are Sound, and each function of   *)
(* the client keeps them; the steps of the server and the network do too.   *)
(****************************************************************************)
EXTENDS DocumentWatch, Integers, SequenceTheorems, TLAPS

-----------------------------------------------------------------------------
(* The client's type on the way through a step *)

\* The counts of requests are any numbers here, and one resolution more than
\* there are limbo targets stands for a step that is cut off.
WideTargetStates ==
    [pending : Int, current : BOOLEAN, change : {"none", "Added", "Modified", "Removed"},
     dirty : BOOLEAN, token : 0..MaxVersion]

Disks == [document : MaybeDocuments, keys : BOOLEAN,
          token : 0..MaxVersion, version : 0..MaxVersion]

Views == [on : BOOLEAN, document : 0..MaxVersion, synced : BOOLEAN, current : BOOLEAN,
          limbo : BOOLEAN, sync : {"None", "Local", "Synced"}]

WideClients ==
    [open : BOOLEAN, online : {"Unknown", "Online", "Offline"},
     requests : SUBSET Requests, listens : SUBSET Targets,
     tokens : [Targets -> 0..MaxVersion], states : [Targets -> WideTargetStates],
     updates : SUBSET MaybeDocuments, disk : Disks, token : 0..MaxVersion, view : Views,
     limbo : 0..MaxLimbo, received : BOOLEAN, resolutions : 0..(MaxLimbo + 1),
     shown : [Listeners -> Events], newest : 0..MaxVersion, asserted : BOOLEAN]

\* What two clients have in common, in four parts.
SameStream(c, d) ==
    /\ d.open = c.open /\ d.requests = c.requests /\ d.listens = c.listens
    /\ d.tokens = c.tokens /\ d.states = c.states /\ d.updates = c.updates
SameStore(c, d) == d.disk = c.disk /\ d.token = c.token
SameLimbo(c, d) ==
    d.limbo = c.limbo /\ d.received = c.received /\ d.resolutions = c.resolutions
SameShown(c, d) == d.shown = c.shown /\ d.newest = c.newest

\* What a client is made of.
LEMMA ClientFields ==
    ASSUME NEW c \in WideClients
    PROVE  /\ c.open \in BOOLEAN /\ c.online \in {"Unknown", "Online", "Offline"}
           /\ c.requests \in SUBSET Requests /\ c.listens \in SUBSET Targets
           /\ c.tokens \in [Targets -> 0..MaxVersion]
           /\ c.states \in [Targets -> WideTargetStates]
           /\ c.updates \in SUBSET MaybeDocuments /\ c.disk \in Disks
           /\ c.token \in 0..MaxVersion /\ c.view \in Views
           /\ c.limbo \in 0..MaxLimbo /\ c.received \in BOOLEAN
           /\ c.resolutions \in 0..(MaxLimbo + 1)
           /\ c.shown \in [Listeners -> Events] /\ c.newest \in 0..MaxVersion
           /\ c.asserted \in BOOLEAN
BY DEF WideClients

\* What a view is made of.
LEMMA ViewFields ==
    ASSUME NEW v \in Views
    PROVE  /\ v.on \in BOOLEAN /\ v.document \in 0..MaxVersion /\ v.synced \in BOOLEAN
           /\ v.current \in BOOLEAN /\ v.limbo \in BOOLEAN
           /\ v.sync \in {"None", "Local", "Synced"}
BY DEF Views

\* What is on disk.
LEMMA DiskFields ==
    ASSUME NEW k \in Disks
    PROVE  /\ k.document \in MaybeDocuments /\ k.keys \in BOOLEAN
           /\ k.token \in 0..MaxVersion /\ k.version \in 0..MaxVersion
BY DEF Disks

\* What the aggregator has of a target.
LEMMA StateFields ==
    ASSUME NEW s \in WideTargetStates
    PROVE  /\ s.pending \in Int /\ s.current \in BOOLEAN /\ s.dirty \in BOOLEAN
           /\ s.change \in {"none", "Added", "Modified", "Removed"}
           /\ s.token \in 0..MaxVersion
BY DEF WideTargetStates

\* What is known of a document.
LEMMA DocumentFields ==
    ASSUME NEW m \in MaybeDocuments
    PROVE  m.exists \in BOOLEAN /\ m.version \in 0..MaxVersion
BY DEF MaybeDocuments

\* The targets are numbers, and the main one is among them.
LEMMA TargetFacts == Main \in Targets /\ Targets \subseteq Nat
BY WatchAssumption DEF Main, Targets

-----------------------------------------------------------------------------
(* What the functions of the client change *)

\* Calling listeners changes what they are shown.
LEMMA RaiseShown ==
    ASSUME NEW c \in WideClients, NEW ls
    PROVE  /\ Raise(c, ls) \in WideClients
           /\ Raise(c, ls).shown =
                 [l \in Listeners |-> IF l \in ls THEN EventOf(c) ELSE c.shown[l]]
           /\ Raise(c, ls).newest = IF ls # {} /\ c.view.document > c.newest
                                      THEN c.view.document ELSE c.newest
           /\ SameStream(c, Raise(c, ls)) /\ SameStore(c, Raise(c, ls))
           /\ SameLimbo(c, Raise(c, ls))
           /\ Raise(c, ls).view = c.view /\ Raise(c, ls).online = c.online
           /\ Raise(c, ls).asserted = c.asserted
<1> DEFINE e == EventOf(c)
           sh == [l \in Listeners |-> IF l \in ls THEN e ELSE c.shown[l]]
           nw == IF ls # {} /\ c.view.document > c.newest THEN c.view.document ELSE c.newest
           d == Raise(c, ls)
<1>1. e \in Events
  BY ClientFields, ViewFields, WatchAssumption DEF EventOf, Events
<1>2. sh \in [Listeners -> Events]
  BY <1>1, ClientFields
<1>3. nw \in 0..MaxVersion
  BY ClientFields, ViewFields
<1>4. d = [c EXCEPT !.shown = sh, !.newest = nw]
  BY DEF Raise
<1> HIDE DEF d
<1>5. d.shown = sh /\ d.newest = nw
  <2> HIDE DEF sh, nw
  <2> QED BY <1>4 DEF WideClients
<1>6. /\ d \in WideClients
      /\ SameStream(c, d) /\ SameStore(c, d) /\ SameLimbo(c, d)
      /\ d.view = c.view /\ d.online = c.online /\ d.asserted = c.asserted
  <2> HIDE DEF sh, nw
  <2> QED BY <1>2, <1>3, <1>4 DEF WideClients, SameStream, SameStore, SameLimbo
<1> QED BY <1>5, <1>6 DEF d

\* Calling listeners changes nothing else.
LEMMA RaiseEffect ==
    ASSUME NEW c \in WideClients, NEW ls, NEW d, d = Raise(c, ls)
    PROVE  /\ d \in WideClients
           /\ SameStream(c, d) /\ SameStore(c, d) /\ SameLimbo(c, d)
           /\ d.view = c.view /\ d.online = c.online /\ d.asserted = c.asserted
BY RaiseShown

\* Whom ApplyChanges calls.
Called(c, ls, changed) ==
    ls \cap (    (IF ShouldRaiseInitialEvent(c, c.online) THEN Unraised(c) ELSE {})
             \cup (IF changed THEN Raised(c) ELSE {}))

\* A snapshot of the view calls some listeners.
LEMMA OnViewSnapshotEffect ==
    ASSUME NEW c \in WideClients, NEW ls, NEW changed, NEW d,
           d = OnViewSnapshot(c, ls, changed)
    PROVE  /\ d \in WideClients
           /\ SameStream(c, d) /\ SameStore(c, d) /\ SameLimbo(c, d)
           /\ d.view = c.view /\ d.online = c.online /\ d.asserted = c.asserted
           /\ d = Raise(c, Called(c, ls, changed))
<1> DEFINE k == Called(c, ls, changed)
<1>1. d = Raise(c, k)
  BY DEF OnViewSnapshot, Called
<1> HIDE DEF k
<1>2. /\ d \in WideClients
      /\ SameStream(c, d) /\ SameStore(c, d) /\ SameLimbo(c, d)
      /\ d.view = c.view /\ d.online = c.online /\ d.asserted = c.asserted
  BY <1>1, RaiseEffect
<1> QED BY <1>1, <1>2 DEF k

\* The view after ApplyChanges: its limbo document and its sync state.
Settled(v) ==
    LET limbo == IF v.current THEN v.document # 0 /\ ~v.synced ELSE v.limbo
    IN  [v EXCEPT !.limbo = limbo,
                  !.sync = IF v.current /\ ~limbo THEN "Synced" ELSE "Local"]

\* Settling a view changes its limbo document and its sync state.
LEMMA SettledFields ==
    ASSUME NEW v \in Views
    PROVE  /\ Settled(v) \in Views
           /\ Settled(v).on = v.on /\ Settled(v).document = v.document
           /\ Settled(v).synced = v.synced /\ Settled(v).current = v.current
           /\ Settled(v).limbo = (IF v.current THEN v.document # 0 /\ ~v.synced ELSE v.limbo)
           /\ Settled(v).sync = IF v.current /\ ~Settled(v).limbo THEN "Synced" ELSE "Local"
BY DEF Settled, Views

ViewSet(c, v) == [c EXCEPT !.view = v]

\* The snapshot of ApplyChanges, if anything is new since the view was v.
ChangesShown(c, v, changed) ==
    IF changed \/ c.view.sync # v.sync THEN Raise(c, Called(c, Listeners, changed)) ELSE c

\* ApplyChanges settles the view, and calls listeners if something is new.
LEMMA ApplyChangesEffect ==
    ASSUME NEW c \in WideClients, NEW changed, NEW d, d = ApplyChanges(c, changed)
    PROVE  /\ d \in WideClients
           /\ SameStream(c, d) /\ SameStore(c, d) /\ SameLimbo(c, d)
           /\ d.view = Settled(c.view) /\ d.online = c.online /\ d.asserted = c.asserted
           /\ d = ChangesShown(ViewSet(c, Settled(c.view)), c.view, changed)
<1> DEFINE w == Settled(c.view)
           e == ViewSet(c, w)
<1>1. c.view \in Views
  BY ClientFields
<1>2. w \in Views
  BY <1>1, SettledFields
<1>3. /\ e \in WideClients /\ e.view = w
      /\ SameStream(c, e) /\ SameStore(c, e) /\ SameLimbo(c, e)
      /\ e.online = c.online /\ e.asserted = c.asserted
  <2> HIDE DEF w
  <2> QED BY <1>2 DEF ViewSet, WideClients, SameStream, SameStore, SameLimbo
<1>4. d = IF changed \/ w.sync # c.view.sync THEN OnViewSnapshot(e, Listeners, changed) ELSE e
  <2> DEFINE limbo == IF c.view.current THEN c.view.document # 0 /\ ~c.view.synced
                                        ELSE c.view.limbo
             sync == IF c.view.current /\ ~limbo THEN "Synced" ELSE "Local"
  <2>1. w = [c.view EXCEPT !.limbo = limbo, !.sync = sync]
    BY DEF Settled
  <2>2. w.sync = sync
    BY <1>1, <2>1 DEF Views
  <2>3. e = [c EXCEPT !.view.limbo = limbo, !.view.sync = sync]
    <3> HIDE DEF limbo, sync
    <3> QED BY <1>1, <2>1 DEF ViewSet, WideClients, Views
  <2> QED BY <2>2, <2>3 DEF ApplyChanges
<1> HIDE DEF e
<1>5. CASE changed \/ w.sync # c.view.sync
  <2>1. d = OnViewSnapshot(e, Listeners, changed)
    BY <1>4, <1>5
  <2>2. /\ d \in WideClients
        /\ SameStream(e, d) /\ SameStore(e, d) /\ SameLimbo(e, d)
        /\ d.view = e.view /\ d.online = e.online /\ d.asserted = e.asserted
        /\ d = Raise(e, Called(e, Listeners, changed))
    BY <1>3, <2>1, OnViewSnapshotEffect
  <2> QED BY <1>3, <1>5, <2>2 DEF SameStream, SameStore, SameLimbo, ChangesShown, e
<1>6. CASE ~(changed \/ w.sync # c.view.sync)
  BY <1>3, <1>4, <1>6 DEF ChangesShown, e
<1> QED BY <1>5, <1>6

-----------------------------------------------------------------------------
(* Requests, answers and what is listened to *)

About(m, t) == m.kind # "snapshot" /\ m.target = t
Asks(c, kind, t) == \E r \in c.requests : r.kind = kind /\ r.target = t
Tells(q, kind, t) == \E i \in DOMAIN q : q[i].kind = kind /\ q[i].target = t
Silent(q, t) == \A i \in DOMAIN q : ~About(q[i], t)
One(b) == IF b THEN 1 ELSE 0

\* What the client knows of the target t, the server and the messages do.
Idle(c, q, s, t) ==
    /\ ~Asks(c, "watch", t) /\ ~Asks(c, "unwatch", t)
    /\ Silent(q, t)
    /\ s[t] = NoSession
    /\ c.states[t] = FreshTarget

\* A target that may yet be listened to.
Unused(c, t) == t \notin c.listens /\ (t = Main \/ t > c.resolutions)

\* Of a target's messages "added" is the first, "removed" and "rejected" the last.
InOrder(q) ==
    \A t \in Targets, i, j \in DOMAIN q :
        About(q[i], t) /\ About(q[j], t) /\ i < j =>
            q[j].kind # "added" /\ q[i].kind \notin {"rejected", "removed"}

\* Without a stream there is nothing under way.
WhenClosed(c, q, s) ==
    ~c.open => q = <<>> /\ \A t \in Targets : Idle(c, q, s, t)

OneOfAKind(c) ==
    \A r1, r2 \in c.requests : r1.kind = r2.kind /\ r1.target = r2.target => r1 = r2

\* The aggregator counts the answers it is owed: exactly, for a target that is
\* listened to; one that was given up may be owed an answer that never comes.
TargetProtocol(c, q, s, t) ==
    /\ Asks(c, "watch", t) => Silent(q, t) /\ s[t] = NoSession
    /\ Asks(c, "unwatch", t) => t \notin c.listens /\ ~Tells(q, "removed", t)
    /\ Tells(q, "removed", t) => t \notin c.listens
    /\ Tells(q, "removed", t) \/ Tells(q, "rejected", t) => s[t] = NoSession
    /\ Unused(c, t) => Idle(c, q, s, t)
    /\ t \in c.listens /\ c.open =>
          c.states[t].pending = One(Asks(c, "watch", t) \/ Tells(q, "added", t))
    /\ c.states[t].pending \in 0..2
    /\ One(Asks(c, "watch", t)) + One(Asks(c, "unwatch", t))
         + One(Tells(q, "added", t)) + One(Tells(q, "removed", t)) <= c.states[t].pending

Protocol(c, q, s) ==
    /\ WhenClosed(c, q, s)
    /\ OneOfAKind(c)
    /\ InOrder(q)
    /\ \A t \in Targets : TargetProtocol(c, q, s, t)

-----------------------------------------------------------------------------
(* The queue *)

\* With the message m the queue q is p: what is told of the target t.
AddedTo(q, p, m, t) ==
    /\ Tells(p, "added", t) <=> Tells(q, "added", t) \/ (m.kind = "added" /\ m.target = t)
    /\ Tells(p, "removed", t) <=>
          Tells(q, "removed", t) \/ (m.kind = "removed" /\ m.target = t)
    /\ Tells(p, "rejected", t) <=>
          Tells(q, "rejected", t) \/ (m.kind = "rejected" /\ m.target = t)
    /\ Silent(p, t) <=> Silent(q, t) /\ ~About(m, t)

\* A message at the end of the queue.
LEMMA AppendTells ==
    ASSUME NEW q \in Seq(Messages), NEW m \in Messages, NEW p, p = Append(q, m),
           NEW t \in Targets
    PROVE  p \in Seq(Messages) /\ AddedTo(q, p, m, t)
<1>1. /\ p \in Seq(Messages) /\ Len(p) = Len(q) + 1 /\ Len(q) \in Nat
      /\ \A i \in 1..Len(q) : p[i] = q[i]
      /\ p[Len(q) + 1] = m
  BY AppendProperties, LenProperties
<1>2. DOMAIN q = 1..Len(q) /\ DOMAIN p = 1..(Len(q) + 1)
  BY <1>1, LenProperties
<1>3. \A kind : Tells(p, kind, t) <=> Tells(q, kind, t) \/ (m.kind = kind /\ m.target = t)
  BY <1>1, <1>2 DEF Tells
<1>4. Silent(p, t) <=> Silent(q, t) /\ ~About(m, t)
  BY <1>1, <1>2 DEF Silent
<1> QED BY <1>1, <1>3, <1>4 DEF AddedTo

\* A message that may come last keeps the order.
LEMMA AppendInOrder ==
    ASSUME NEW q \in Seq(Messages), NEW m \in Messages, NEW p, p = Append(q, m), InOrder(q),
           \A t \in Targets : About(m, t) =>
               /\ ~Tells(q, "removed", t) /\ ~Tells(q, "rejected", t)
               /\ m.kind = "added" => Silent(q, t)
    PROVE  InOrder(p)
<1>1. /\ Len(p) = Len(q) + 1 /\ Len(q) \in Nat
      /\ \A i \in 1..Len(q) : p[i] = q[i]
      /\ p[Len(q) + 1] = m
  BY AppendProperties, LenProperties
<1>2. DOMAIN q = 1..Len(q) /\ DOMAIN p = 1..(Len(q) + 1)
  BY <1>1, AppendProperties, LenProperties
<1>3. ASSUME NEW t \in Targets, NEW i \in DOMAIN p, NEW j \in DOMAIN p,
             About(p[i], t), About(p[j], t), i < j
      PROVE  p[j].kind # "added" /\ p[i].kind \notin {"rejected", "removed"}
  <2>1. i \in DOMAIN q /\ p[i] = q[i]
    BY <1>1, <1>2, <1>3
  <2>2. CASE j \in DOMAIN q
    <3>1. p[j] = q[j]
      BY <1>1, <1>2, <2>2
    <3> QED BY <1>3, <2>1, <2>2, <3>1 DEF InOrder
  <2>3. CASE j \notin DOMAIN q
    <3>1. p[j] = m
      BY <1>1, <1>2, <2>3
    <3> QED BY <1>3, <2>1, <3>1 DEF Silent, Tells, About
  <2> QED BY <2>2, <2>3
<1> QED BY <1>3 DEF InOrder

\* Without its first message m the queue q is p: what is told of the target t.
TakenFrom(q, p, m, t) ==
    /\ \A kind \in {"added", "removed", "rejected"} :
          Tells(q, kind, t) <=> Tells(p, kind, t) \/ (m.kind = kind /\ m.target = t)
    /\ Silent(q, t) <=> Silent(p, t) /\ ~About(m, t)
    /\ InOrder(q) => /\ InOrder(p)
                     /\ m.kind = "added" /\ m.target = t => ~Tells(p, "added", t)
                     /\ m.kind \in {"rejected", "removed"} /\ m.target = t => Silent(p, t)

\* The first message is taken from the queue.
LEMMA TailTells ==
    ASSUME NEW q \in Seq(Messages), q # <<>>, NEW p, p = Tail(q), NEW m, m = Head(q),
           NEW t \in Targets
    PROVE  p \in Seq(Messages) /\ m \in Messages /\ TakenFrom(q, p, m, t)
<1>1. /\ p \in Seq(Messages) /\ m \in Messages /\ Len(q) \in Nat /\ Len(q) # 0
      /\ Len(p) = Len(q) - 1
      /\ \A i \in 1..Len(p) : p[i] = q[i + 1]
      /\ m = q[1]
  BY HeadTailProperties, LenProperties, EmptySeq
<1>2. DOMAIN q = 1..Len(q) /\ DOMAIN p = 1..(Len(q) - 1)
  BY <1>1, LenProperties
<1>3. \A i \in DOMAIN p : i \in Nat /\ i + 1 \in DOMAIN q /\ p[i] = q[i + 1] /\ i + 1 > 1
  BY <1>1, <1>2
<1>4. \A i \in DOMAIN q : i = 1 \/ (i - 1 \in DOMAIN p /\ q[i] = p[i - 1])
  BY <1>1, <1>2
<1>5. 1 \in DOMAIN q
  BY <1>1, <1>2
<1>6. \A kind : Tells(q, kind, t) <=> Tells(p, kind, t) \/ (m.kind = kind /\ m.target = t)
  <2>1. ASSUME NEW kind, Tells(q, kind, t)
        PROVE  Tells(p, kind, t) \/ (m.kind = kind /\ m.target = t)
    <3>1. PICK i \in DOMAIN q : q[i].kind = kind /\ q[i].target = t
      BY <2>1 DEF Tells
    <3> QED BY <1>1, <1>4, <3>1 DEF Tells
  <2>2. ASSUME NEW kind, Tells(p, kind, t) PROVE Tells(q, kind, t)
    BY <1>3, <2>2 DEF Tells
  <2>3. ASSUME NEW kind, m.kind = kind, m.target = t PROVE Tells(q, kind, t)
    BY <1>1, <1>5, <2>3 DEF Tells
  <2> QED BY <2>1, <2>2, <2>3
<1>7. Silent(q, t) <=> Silent(p, t) /\ ~About(m, t)
  <2>1. ASSUME Silent(q, t) PROVE Silent(p, t) /\ ~About(m, t)
    BY <1>1, <1>3, <1>5, <2>1 DEF Silent
  <2>2. ASSUME Silent(p, t), ~About(m, t) PROVE Silent(q, t)
    <3>1. ASSUME NEW i \in DOMAIN q PROVE ~About(q[i], t)
      BY <1>1, <1>4, <2>2 DEF Silent
    <3> QED BY <3>1 DEF Silent
  <2> QED BY <2>1, <2>2
<1>8. ASSUME InOrder(q)
      PROVE  /\ InOrder(p)
             /\ m.kind = "added" /\ m.target = t => ~Tells(p, "added", t)
             /\ m.kind \in {"rejected", "removed"} /\ m.target = t => Silent(p, t)
  <2>1. ASSUME NEW u \in Targets, NEW i \in DOMAIN p, NEW j \in DOMAIN p,
               About(p[i], u), About(p[j], u), i < j
        PROVE  p[j].kind # "added" /\ p[i].kind \notin {"rejected", "removed"}
    <3>1. i + 1 < j + 1
      BY <1>3, <2>1
    <3>2. i + 1 \in DOMAIN q /\ j + 1 \in DOMAIN q /\ p[i] = q[i + 1] /\ p[j] = q[j + 1]
      BY <1>3
    <3> QED BY <1>8, <2>1, <3>1, <3>2 DEF InOrder
  <2>2. \A i \in DOMAIN p : About(m, t) /\ About(p[i], t) =>
            p[i].kind # "added" /\ m.kind \notin {"rejected", "removed"}
    <3>1. ASSUME NEW i \in DOMAIN p, About(m, t), About(p[i], t)
          PROVE  p[i].kind # "added" /\ m.kind \notin {"rejected", "removed"}
      <4>1. i + 1 \in DOMAIN q /\ p[i] = q[i + 1] /\ 1 < i + 1
        BY <1>3
      <4> QED BY <1>1, <1>5, <1>8, <3>1, <4>1 DEF InOrder
    <3> QED BY <3>1
  <2> QED BY <2>1, <2>2 DEF InOrder, Tells, Silent, About
<1> QED BY <1>1, <1>6, <1>7, <1>8 DEF TakenFrom

-----------------------------------------------------------------------------
(* Requests *)

\* What the requests of a client do not touch.
SameApp(c, d) ==
    SameShown(c, d) /\ SameStore(c, d) /\ d.view = c.view /\ d.online = c.online

Request(kind, t, token) == [kind |-> kind, target |-> t, token |-> token]

\* One more answer is owed for t.
Owing(states, t) == [states EXCEPT ![t].pending = @ + 1]

\* A request, and the answer that is owed for it.
LEMMA SendRequestEffect ==
    ASSUME NEW c \in WideClients, NEW kind \in {"watch", "unwatch"}, NEW t \in Targets,
           NEW d, d = SendRequest(c, kind, t)
    PROVE  /\ d \in WideClients
           /\ SameApp(c, d) /\ SameLimbo(c, d) /\ d.asserted = c.asserted
           /\ d.open = c.open /\ d.listens = c.listens /\ d.tokens = c.tokens
           /\ d.updates = c.updates
           /\ d.requests = c.requests \cup {Request(kind, t, c.tokens[t])}
           /\ d.states = Owing(c.states, t)
<1> DEFINE rs == c.requests \cup {Request(kind, t, c.tokens[t])}
           ss == Owing(c.states, t)
<1>1. d = [c EXCEPT !.requests = rs, !.states = ss]
  <2>1. d = [c EXCEPT !.requests = rs, !.states[t].pending = @ + 1]
    BY DEF SendRequest, Request
  <2> HIDE DEF rs
  <2> QED BY <2>1 DEF WideClients, Owing
<1>2. rs \in SUBSET Requests
  BY ClientFields DEF Request, Requests
<1>3. ss \in [Targets -> WideTargetStates]
  <2>1. c.states \in [Targets -> WideTargetStates] /\ c.states[t] \in WideTargetStates
    BY ClientFields
  <2>2. [c.states[t] EXCEPT !.pending = @ + 1] \in WideTargetStates
    BY <2>1 DEF WideTargetStates
  <2> QED BY <2>1, <2>2 DEF Owing
<1> HIDE DEF rs, ss
<1>4. d.requests = rs /\ d.states = ss
  BY <1>1 DEF WideClients
<1>5. /\ d \in WideClients
      /\ SameApp(c, d) /\ SameLimbo(c, d) /\ d.asserted = c.asserted
      /\ d.open = c.open /\ d.listens = c.listens /\ d.tokens = c.tokens
      /\ d.updates = c.updates
  BY <1>1, <1>2, <1>3, ZenonT(60) DEF WideClients, SameApp, SameShown, SameStore, SameLimbo
<1> QED BY <1>4, <1>5 DEF rs, ss

Replaced(f, t, x) == [f EXCEPT ![t] = x]

\* A target more is listened to; on an open stream it is requested.
LEMMA ListenEffect ==
    ASSUME NEW c \in WideClients, NEW t \in Targets \ c.listens, NEW token \in 0..MaxVersion,
           NEW d, d = Listen(c, t, token)
    PROVE  /\ d \in WideClients
           /\ SameApp(c, d) /\ SameLimbo(c, d) /\ d.asserted = c.asserted
           /\ d.open = c.open /\ d.updates = c.updates
           /\ d.listens = c.listens \cup {t}
           /\ d.tokens = Replaced(c.tokens, t, token)
           /\ c.open => /\ d.requests = c.requests \cup {Request("watch", t, token)}
                        /\ d.states = Owing(c.states, t)
           /\ ~c.open => d.requests = c.requests /\ d.states = c.states
<1> DEFINE ls == c.listens \cup {t}
           tk == [c.tokens EXCEPT ![t] = token]
           e == [c EXCEPT !.listens = ls, !.tokens = tk]
<1>1. d = IF c.open THEN SendRequest(e, "watch", t) ELSE e
  <2>1. e = [c EXCEPT !.listens = @ \cup {t}, !.tokens[t] = token]
    BY DEF WideClients
  <2>2. e.open = c.open
    BY DEF WideClients
  <2> QED BY <2>1 DEF Listen
<1>2. ls \in SUBSET Targets /\ tk \in [Targets -> 0..MaxVersion] /\ tk[t] = token
  BY ClientFields
<1>3. e.listens = ls /\ e.tokens = tk
  <2> HIDE DEF ls, tk
  <2> QED BY DEF WideClients
<1>4. /\ e \in WideClients
      /\ SameApp(c, e) /\ SameLimbo(c, e) /\ e.asserted = c.asserted
      /\ e.open = c.open /\ e.requests = c.requests /\ e.states = c.states
      /\ e.updates = c.updates
  <2> HIDE DEF ls, tk
  <2> QED BY <1>2 DEF WideClients, SameApp, SameShown, SameStore, SameLimbo
<1>5. c.open \in BOOLEAN
  BY ClientFields
<1> HIDE DEF e
<1>6. CASE c.open
  <2>1. d = SendRequest(e, "watch", t)
    BY <1>1, <1>6
  <2>2. /\ d \in WideClients
        /\ SameApp(e, d) /\ SameLimbo(e, d) /\ d.asserted = e.asserted
        /\ d.open = e.open /\ d.listens = e.listens /\ d.tokens = e.tokens
        /\ d.updates = e.updates
        /\ d.requests = e.requests \cup {Request("watch", t, e.tokens[t])}
        /\ d.states = Owing(e.states, t)
    BY <1>2, <1>4, <2>1, SendRequestEffect
  <2> QED BY <1>2, <1>3, <1>4, <1>6, <2>2, ZenonT(60) DEF SameApp, SameShown, SameStore, SameLimbo, Replaced
<1>7. CASE ~c.open
  BY <1>1, <1>3, <1>4, <1>7 DEF Replaced
<1> QED BY <1>5, <1>6, <1>7

\* A target less is listened to; on an open stream that is requested.
LEMMA StopListeningEffect ==
    ASSUME NEW c \in WideClients, NEW t \in c.listens, NEW d, d = StopListening(c, t)
    PROVE  /\ d \in WideClients
           /\ SameApp(c, d) /\ SameLimbo(c, d) /\ d.asserted = c.asserted
           /\ d.open = c.open /\ d.updates = c.updates /\ d.tokens = c.tokens
           /\ d.listens = c.listens \ {t}
           /\ c.open => /\ d.requests = c.requests \cup {Request("unwatch", t, c.tokens[t])}
                        /\ d.states = Owing(c.states, t)
           /\ ~c.open => d.requests = c.requests /\ d.states = c.states
<1> DEFINE ls == c.listens \ {t}
           e == [c EXCEPT !.listens = ls]
<1>1. d = IF c.open THEN SendRequest(e, "unwatch", t) ELSE e
  <2>1. e.open = c.open
    BY DEF WideClients
  <2> QED BY DEF StopListening, Asserting
<1>2. ls \in SUBSET Targets /\ t \in Targets
  BY ClientFields
<1>3. e.listens = ls
  <2> HIDE DEF ls
  <2> QED BY DEF WideClients
<1>4. /\ e \in WideClients
      /\ SameApp(c, e) /\ SameLimbo(c, e) /\ e.asserted = c.asserted
      /\ e.open = c.open /\ e.requests = c.requests /\ e.states = c.states
      /\ e.updates = c.updates /\ e.tokens = c.tokens
  <2> HIDE DEF ls
  <2> QED BY <1>2 DEF WideClients, SameApp, SameShown, SameStore, SameLimbo
<1>5. c.open \in BOOLEAN
  BY ClientFields
<1> HIDE DEF e
<1>6. CASE c.open
  <2>1. d = SendRequest(e, "unwatch", t)
    BY <1>1, <1>6
  <2>2. /\ d \in WideClients
        /\ SameApp(e, d) /\ SameLimbo(e, d) /\ d.asserted = e.asserted
        /\ d.open = e.open /\ d.listens = e.listens /\ d.tokens = e.tokens
        /\ d.updates = e.updates
        /\ d.requests = e.requests \cup {Request("unwatch", t, e.tokens[t])}
        /\ d.states = Owing(e.states, t)
    BY <1>2, <1>4, <2>1, SendRequestEffect
  <2> QED BY <1>2, <1>3, <1>4, <1>6, <2>2, ZenonT(60) DEF SameApp, SameShown, SameStore, SameLimbo
<1>7. CASE ~c.open
  BY <1>1, <1>3, <1>4, <1>7
<1> QED BY <1>5, <1>6, <1>7

\* A limbo document without a target gets one, if one is left.
LEMMA TrackLimboEffect ==
    ASSUME NEW c \in WideClients, NEW d, d = TrackLimbo(c)
    PROVE  /\ c.limbo # 0 => d = c
           /\ c.limbo = 0 /\ c.resolutions >= MaxLimbo =>
                 d = [c EXCEPT !.resolutions = MaxLimbo + 1] /\ d \in WideClients
           /\ c.limbo = 0 /\ ~(c.resolutions >= MaxLimbo) =>
                 LET t == c.resolutions + 1
                     e == [c EXCEPT !.limbo = t, !.received = FALSE, !.resolutions = t]
                 IN  /\ t \in Targets /\ t # Main
                     /\ e \in WideClients /\ d = Listen(e, t, 0)
                     /\ e.limbo = t /\ ~e.received /\ e.resolutions = t
                     /\ SameApp(c, e) /\ SameStream(c, e) /\ e.asserted = c.asserted
<1> DEFINE t == c.resolutions + 1
           e == [c EXCEPT !.limbo = t, !.received = FALSE, !.resolutions = t]
<1>1. c.resolutions \in 0..(MaxLimbo + 1) /\ MaxLimbo \in Nat
  BY ClientFields, WatchAssumption
<1>2. ASSUME c.limbo = 0, c.resolutions >= MaxLimbo
      PROVE  d = [c EXCEPT !.resolutions = MaxLimbo + 1] /\ d \in WideClients
  <2>1. d = [c EXCEPT !.resolutions = MaxLimbo + 1]
    BY <1>2 DEF TrackLimbo
  <2>2. MaxLimbo + 1 \in 0..(MaxLimbo + 1)
    BY <1>1
  <2> QED BY <2>1, <2>2 DEF WideClients
<1>3. ASSUME c.limbo = 0, ~(c.resolutions >= MaxLimbo)
      PROVE  /\ t \in Targets /\ t # Main
             /\ e \in WideClients /\ d = Listen(e, t, 0)
             /\ e.limbo = t /\ ~e.received /\ e.resolutions = t
             /\ SameApp(c, e) /\ SameStream(c, e) /\ e.asserted = c.asserted
  <2>1. d = Listen(e, t, 0)
    BY <1>3 DEF TrackLimbo
  <2>2. t \in 0..MaxLimbo /\ t \in 0..(MaxLimbo + 1) /\ t # 0
    BY <1>1, <1>3
  <2> HIDE DEF t
  <2>3. /\ e \in WideClients /\ e.limbo = t /\ ~e.received /\ e.resolutions = t
        /\ SameApp(c, e) /\ SameStream(c, e) /\ e.asserted = c.asserted
    BY <2>2 DEF WideClients, SameApp, SameShown, SameStore, SameStream
  <2> QED BY <2>1, <2>2, <2>3 DEF Targets, Main
<1>4. c.limbo # 0 => d = c
  BY DEF TrackLimbo
<1> QED BY <1>2, <1>3, <1>4

\* The limbo document's target is given up.
LEMMA RemoveLimboTargetEffect ==
    ASSUME NEW c \in WideClients, c.limbo # 0, c.limbo \in c.listens,
           NEW d, d = RemoveLimboTarget(c)
    PROVE  LET e == StopListening(c, c.limbo)
           IN  /\ e \in WideClients /\ d \in WideClients
               /\ d.limbo = 0 /\ ~d.received /\ d.resolutions = c.resolutions
               /\ SameApp(e, d) /\ SameStream(e, d) /\ d.asserted = e.asserted
<1> DEFINE e == StopListening(c, c.limbo)
<1>1. d = [e EXCEPT !.limbo = 0, !.received = FALSE]
  BY DEF RemoveLimboTarget
<1> DEFINE t == c.limbo
<1>2. e \in WideClients /\ e.resolutions = c.resolutions
  <2>1. t \in c.listens /\ e = StopListening(c, t)
    OBVIOUS
  <2> HIDE DEF t, e
  <2>2. e \in WideClients /\ SameLimbo(c, e)
    BY <2>1, StopListeningEffect
  <2> QED BY <2>2 DEF SameLimbo
<1>3. 0 \in 0..MaxLimbo
  BY WatchAssumption
<1> HIDE DEF e
<1>4. /\ d \in WideClients /\ d.limbo = 0 /\ ~d.received /\ d.resolutions = e.resolutions
      /\ SameApp(e, d) /\ SameStream(e, d) /\ d.asserted = e.asserted
  BY <1>1, <1>2, <1>3, ZenonT(60) DEF WideClients, SameApp, SameShown, SameStore, SameStream
<1> QED BY <1>2, <1>4 DEF e

-----------------------------------------------------------------------------
(* The protocol on the way through a step *)

\* What is pending for a target that is listened to and owed nothing is a change
\* of what the view, or the limbo resolution, has.
ChangeFits(c, t) ==
    t \in c.listens /\ c.states[t].pending = 0 =>
        /\ c.states[t].change \in {"Modified", "Removed"} => TargetContainsDocument(c, t)
        /\ c.states[t].change # "none" => c.states[t].dirty

Coherent(c) ==
    /\ c.limbo # 0 => c.limbo \in c.listens
    /\ c.listens \subseteq {Main, c.limbo}
    /\ c.view.on <=> Main \in c.listens
    /\ c.limbo <= c.resolutions
    /\ \A t \in Targets : ChangeFits(c, t)
    /\ ~c.asserted

Sound(c, q, s) == c \in WideClients /\ Coherent(c) /\ Protocol(c, q, s)

\* A target of which nothing changed but that less may be under way.
LEMMA TargetSame ==
    ASSUME NEW c, NEW d, NEW q, NEW p, NEW s, NEW r, NEW t,
           TargetProtocol(c, q, s, t),
           d.open => c.open, t \in d.listens <=> t \in c.listens,
           Asks(d, "watch", t) <=> Asks(c, "watch", t),
           Asks(d, "unwatch", t) => Asks(c, "unwatch", t),
           Tells(p, "added", t) <=> Tells(q, "added", t),
           Tells(p, "removed", t) => Tells(q, "removed", t),
           Tells(p, "rejected", t) => Tells(q, "rejected", t),
           Silent(q, t) => Silent(p, t),
           r[t] = s[t], Unused(d, t) => Unused(c, t),
           d.states[t].pending = c.states[t].pending,
           Unused(c, t) => d.states[t] = c.states[t]
    PROVE  TargetProtocol(d, p, r, t)
<1>1. Unused(d, t) => Idle(d, p, r, t)
  BY DEF TargetProtocol, Idle
<1>2. c.states[t].pending \in 0..2
  BY DEF TargetProtocol
<1>3. One(Asks(d, "watch", t)) + One(Asks(d, "unwatch", t))
        + One(Tells(p, "added", t)) + One(Tells(p, "removed", t)) <= d.states[t].pending
  BY <1>2 DEF TargetProtocol, One
<1>4. t \in d.listens /\ d.open =>
          d.states[t].pending = One(Asks(d, "watch", t) \/ Tells(p, "added", t))
  BY DEF TargetProtocol, One
<1> QED BY <1>1, <1>2, <1>3, <1>4 DEF TargetProtocol

\* A step that leaves the requests and the counts alone.
LEMMA ProtocolKept ==
    ASSUME NEW c, NEW d, NEW q, NEW s, Protocol(c, q, s),
           d.open = c.open, d.requests = c.requests, d.listens = c.listens,
           d.resolutions >= c.resolutions, c.resolutions \in Nat, d.resolutions \in Nat,
           \A t \in Targets : /\ d.states[t].pending = c.states[t].pending
                              /\ ~c.open \/ Unused(c, t) => d.states[t] = c.states[t]
    PROVE  Protocol(d, q, s)
<1>1. ASSUME NEW t \in Targets PROVE TargetProtocol(d, q, s, t)
  <2>1. TargetProtocol(c, q, s, t)
    BY DEF Protocol
  <2>2. \A kind : Asks(d, kind, t) <=> Asks(c, kind, t)
    BY DEF Asks
  <2>3. Unused(d, t) => Unused(c, t)
    <3>1. t \in Nat
      BY TargetFacts
    <3> QED BY <3>1 DEF Unused
  <2> QED BY <2>1, <2>2, <2>3, TargetSame
<1>2. WhenClosed(d, q, s)
  BY DEF Protocol, WhenClosed, Idle, Asks
<1>3. OneOfAKind(d)
  BY DEF Protocol, OneOfAKind
<1> QED BY <1>1, <1>2, <1>3 DEF Protocol

\* A step that leaves alone what coherence is about.
LEMMA CoherentKept ==
    ASSUME NEW c, NEW d, Coherent(c), d.limbo = c.limbo, d.listens = c.listens,
           d.view.on = c.view.on, d.view.synced = c.view.synced, d.received = c.received,
           d.resolutions = c.resolutions, d.asserted = c.asserted,
           \A t \in Targets : d.states[t] = c.states[t]
    PROVE  Coherent(d)
BY DEF Coherent, ChangeFits, TargetContainsDocument

\* A step of the view or the listeners only.
LEMMA SoundKept ==
    ASSUME NEW c, NEW d, NEW q, NEW s, Sound(c, q, s), d \in WideClients,
           SameStream(c, d), SameLimbo(c, d), d.asserted = c.asserted,
           d.view.on = c.view.on, d.view.synced = c.view.synced
    PROVE  Sound(d, q, s)
<1>1. c.resolutions \in Nat /\ c.resolutions >= c.resolutions
  BY ClientFields DEF Sound
<1>2. Protocol(d, q, s)
  BY <1>1, ProtocolKept DEF Sound, SameStream, SameLimbo
<1>3. Coherent(d)
  BY CoherentKept DEF Sound, SameStream, SameLimbo
<1> QED BY <1>2, <1>3 DEF Sound

\* The listen of a target that is not in use.
LEMMA ListenKeeps ==
    ASSUME NEW c \in WideClients, NEW q, NEW s, NEW t \in Targets \ c.listens,
           NEW token \in 0..MaxVersion, NEW d, d = Listen(c, t, token),
           WhenClosed(c, q, s), OneOfAKind(c), InOrder(q), Idle(c, q, s, t),
           \A u \in Targets \ {t} : TargetProtocol(c, q, s, u)
    PROVE  Protocol(d, q, s)
<1> DEFINE r == Request("watch", t, token)
<1>1. /\ d \in WideClients /\ SameLimbo(c, d)
      /\ d.open = c.open /\ d.listens = c.listens \cup {t}
      /\ c.open => /\ d.requests = c.requests \cup {r}
                   /\ d.states = Owing(c.states, t)
      /\ ~c.open => d.requests = c.requests /\ d.states = c.states
  BY ListenEffect
<1>2. r.kind = "watch" /\ r.target = t
  BY DEF Request
<1> HIDE DEF r
<1>3. c.open \in BOOLEAN /\ c.states \in [Targets -> WideTargetStates]
  BY ClientFields
<1>4. ASSUME c.open
      PROVE  /\ d.states[t].pending = c.states[t].pending + 1
             /\ \A u \in Targets \ {t} : d.states[u] = c.states[u]
  BY <1>1, <1>3, <1>4 DEF Owing, WideTargetStates
<1>5. c.states[t].pending = 0 /\ FreshTarget.pending = 0
  BY DEF Idle, FreshTarget
<1>6. ASSUME NEW u \in Targets \ {t} PROVE TargetProtocol(d, q, s, u)
  <2>1. \A kind : Asks(d, kind, u) <=> Asks(c, kind, u)
    BY <1>1, <1>2, <1>3 DEF Asks
  <2>2. d.states[u] = c.states[u]
    BY <1>1, <1>3, <1>4
  <2>3. u \in d.listens <=> u \in c.listens
    BY <1>1
  <2>4. Unused(d, u) => Unused(c, u)
    BY <1>1, <2>3 DEF Unused, SameLimbo
  <2>5. TargetProtocol(c, q, s, u)
    OBVIOUS
  <2> QED BY <1>1, <2>1, <2>2, <2>3, <2>4, <2>5, TargetSame
<1>7. TargetProtocol(d, q, s, t)
  <2>1. t \in d.listens /\ ~Unused(d, t)
    BY <1>1 DEF Unused
  <2>2. /\ ~Tells(q, "added", t) /\ ~Tells(q, "removed", t) /\ ~Tells(q, "rejected", t)
        /\ Silent(q, t) /\ s[t] = NoSession
    BY DEF Idle, Silent, Tells, About
  <2>3. ~Asks(d, "unwatch", t)
    BY <1>1, <1>2, <1>3 DEF Idle, Asks
  <2>4. d.states[t].pending = IF d.open THEN 1 ELSE 0
    BY <1>1, <1>3, <1>4, <1>5
  <2>5. Asks(d, "watch", t) <=> d.open
    BY <1>1, <1>2, <1>3 DEF Idle, Asks
  <2> QED BY <1>1, <1>3, <2>1, <2>2, <2>3, <2>4, <2>5 DEF TargetProtocol, One
<1>8. WhenClosed(d, q, s)
  BY <1>1 DEF WhenClosed, Idle, Asks
<1>9. OneOfAKind(d)
  BY <1>1, <1>2, <1>3 DEF OneOfAKind, Idle, Asks
<1> QED BY <1>6, <1>7, <1>8, <1>9 DEF Protocol

\* The end of the listen of a limbo target.
LEMMA StopListeningKeeps ==
    ASSUME NEW c \in WideClients, NEW q, NEW s, Protocol(c, q, s), NEW t \in c.listens,
           t # Main, t <= c.resolutions, NEW d, d = StopListening(c, t)
    PROVE  Protocol(d, q, s)
<1> DEFINE token == c.tokens[t]
           r == Request("unwatch", t, token)
<1>1. /\ d \in WideClients /\ SameLimbo(c, d)
      /\ d.open = c.open /\ d.listens = c.listens \ {t}
      /\ c.open => /\ d.requests = c.requests \cup {r}
                   /\ d.states = Owing(c.states, t)
      /\ ~c.open => d.requests = c.requests /\ d.states = c.states
  BY StopListeningEffect
<1>2. r.kind = "unwatch" /\ r.target = t
  BY DEF Request
<1> HIDE DEF r
<1>3. c.open \in BOOLEAN /\ c.states \in [Targets -> WideTargetStates] /\ t \in Targets
  BY ClientFields
<1>4. ASSUME c.open
      PROVE  /\ d.states[t].pending = c.states[t].pending + 1
             /\ \A u \in Targets \ {t} : d.states[u] = c.states[u]
  BY <1>1, <1>3, <1>4 DEF Owing, WideTargetStates
<1>5. ~Unused(d, t)
  <2>1. t \in Nat /\ c.resolutions \in Nat /\ d.resolutions = c.resolutions
    BY <1>1, <1>3, TargetFacts, ClientFields DEF SameLimbo
  <2> QED BY <2>1 DEF Unused
<1>6. ASSUME NEW u \in Targets \ {t} PROVE TargetProtocol(d, q, s, u)
  <2>1. \A kind : Asks(d, kind, u) <=> Asks(c, kind, u)
    BY <1>1, <1>2, <1>3 DEF Asks
  <2>2. d.states[u] = c.states[u]
    BY <1>1, <1>3, <1>4
  <2>3. u \in d.listens <=> u \in c.listens
    BY <1>1
  <2>4. Unused(d, u) => Unused(c, u)
    BY <1>1, <2>3 DEF Unused, SameLimbo
  <2>5. TargetProtocol(c, q, s, u)
    BY DEF Protocol
  <2> QED BY <1>1, <2>1, <2>2, <2>3, <2>4, <2>5, TargetSame
<1>7. TargetProtocol(d, q, s, t)
  <2>1. TargetProtocol(c, q, s, t)
    BY <1>3 DEF Protocol
  <2>2. t \notin d.listens
    BY <1>1
  <2>3. ~Tells(q, "removed", t) /\ ~Asks(c, "unwatch", t)
    BY <2>1 DEF TargetProtocol
  <2>4. Asks(d, "watch", t) <=> Asks(c, "watch", t)
    BY <1>1, <1>2, <1>3 DEF Asks
  <2>5. CASE ~c.open
    BY <1>1, <1>5, <2>1, <2>2, <2>5, TargetSame DEF TargetProtocol, Asks
  <2>6. CASE c.open
    <3>1. Asks(d, "unwatch", t)
      BY <1>1, <1>2, <2>6 DEF Asks
    <3>2. /\ c.states[t].pending = One(Asks(c, "watch", t) \/ Tells(q, "added", t))
          /\ Asks(c, "watch", t) => ~Tells(q, "added", t)
      <4>1. Silent(q, t) => ~Tells(q, "added", t)
        BY DEF Silent, Tells, About
      <4> QED BY <2>1, <2>6, <4>1 DEF TargetProtocol
    <3> QED BY <1>4, <1>5, <2>1, <2>2, <2>3, <2>4, <2>6, <3>1, <3>2 DEF TargetProtocol, One
  <2> QED BY <1>3, <2>5, <2>6
<1>8. WhenClosed(d, q, s)
  BY <1>1 DEF Protocol, WhenClosed, Idle, Asks
<1>9. OneOfAKind(d)
  <2>1. ~Asks(c, "unwatch", t)
    BY <1>3 DEF Protocol, TargetProtocol
  <2> QED BY <1>1, <1>2, <1>3, <2>1 DEF Protocol, OneOfAKind, Asks
<1> QED BY <1>6, <1>7, <1>8, <1>9 DEF Protocol

\* Starting a limbo resolution is sound: its target was not in use.
LEMMA TrackLimboSound ==
    ASSUME NEW c, NEW q, NEW s, Sound(c, q, s), NEW d, d = TrackLimbo(c)
    PROVE  Sound(d, q, s)
<1>1. c \in WideClients /\ c.limbo \in Nat /\ c.resolutions \in 0..(MaxLimbo + 1)
  BY ClientFields DEF Sound
<1>2. CASE c.limbo # 0
  BY <1>1, <1>2, TrackLimboEffect
<1>3. CASE c.limbo = 0 /\ c.resolutions >= MaxLimbo
  <2>1. d = [c EXCEPT !.resolutions = MaxLimbo + 1] /\ d \in WideClients
    BY <1>1, <1>3, TrackLimboEffect
  <2>2. /\ d.resolutions = MaxLimbo + 1
        /\ d.limbo = c.limbo /\ d.received = c.received /\ d.view = c.view
        /\ d.open = c.open /\ d.requests = c.requests /\ d.listens = c.listens
        /\ d.states = c.states /\ d.asserted = c.asserted
    BY <1>1, <2>1 DEF WideClients
  <2>3. MaxLimbo \in Nat /\ MaxLimbo + 1 >= c.resolutions /\ c.resolutions \in Nat
    BY <1>1, WatchAssumption
  <2>4. Protocol(d, q, s)
    BY <2>2, <2>3, ProtocolKept DEF Sound
  <2>5. Coherent(d)
    BY <1>3, <2>2, <2>3 DEF Sound, Coherent, ChangeFits, TargetContainsDocument
  <2> QED BY <2>1, <2>4, <2>5 DEF Sound
<1>4. CASE c.limbo = 0 /\ ~(c.resolutions >= MaxLimbo)
  <2> DEFINE t == c.resolutions + 1
             e == [c EXCEPT !.limbo = t, !.received = FALSE, !.resolutions = t]
  <2>1. /\ t \in Targets /\ t # Main
        /\ e \in WideClients /\ d = Listen(e, t, 0)
        /\ e.limbo = t /\ ~e.received /\ e.resolutions = t
        /\ SameApp(c, e) /\ SameStream(c, e) /\ e.asserted = c.asserted
    BY <1>1, <1>4, TrackLimboEffect
  <2>2. t > c.resolutions /\ t \in Nat /\ c.resolutions \in Nat
    BY <1>1
  <2> HIDE DEF t, e
  <2>3. t \notin c.listens /\ Unused(c, t)
    BY <1>4, <2>1, <2>2 DEF Sound, Coherent, Unused
  <2>4. Idle(e, q, s, t)
    BY <2>1, <2>3 DEF Sound, Protocol, TargetProtocol, SameStream, Idle, Asks
  <2>5. ASSUME NEW u \in Targets \ {t} PROVE TargetProtocol(e, q, s, u)
    <3>1. TargetProtocol(c, q, s, u)
      BY DEF Sound, Protocol
    <3>2. Unused(e, u) => Unused(c, u)
      <4>1. u \in Nat
        BY TargetFacts
      <4> QED BY <2>1, <2>2, <4>1 DEF Unused, SameStream
    <3> QED BY <2>1, <3>1, <3>2, TargetSame DEF SameStream, Asks
  <2>6. WhenClosed(e, q, s) /\ OneOfAKind(e) /\ InOrder(q)
    BY <2>1 DEF Sound, Protocol, WhenClosed, OneOfAKind, Idle, Asks, SameStream
  <2>7. 0 \in 0..MaxVersion
    BY WatchAssumption
  <2>8. t \in Targets \ e.listens
    BY <2>1, <2>3 DEF SameStream
  <2>9. Protocol(d, q, s)
    BY <2>1, <2>4, <2>5, <2>6, <2>7, <2>8, ListenKeeps
  <2>10. /\ d \in WideClients
         /\ SameApp(e, d) /\ SameLimbo(e, d) /\ d.asserted = e.asserted
         /\ d.open = e.open
         /\ d.listens = e.listens \cup {t}
         /\ e.open => d.states = Owing(e.states, t)
         /\ ~e.open => d.states = e.states
    BY <2>1, <2>7, <2>8, ListenEffect
  <2>11. /\ d.limbo = t /\ d.resolutions = t /\ d.view = c.view
         /\ d.listens = c.listens \cup {t} /\ ~d.asserted
         /\ c.states \in [Targets -> WideTargetStates] /\ e.states = c.states
    BY <1>1, <2>1, <2>10, ClientFields
       DEF SameApp, SameLimbo, SameStream, Sound, Coherent
  <2>12. /\ d.states[t].change = "none"
         /\ \A u \in Targets \ {t} : d.states[u] = c.states[u]
    <3>1. c.states[t] = FreshTarget
      BY <2>1, <2>4, <2>11 DEF Idle
    <3>2. CASE e.open
      BY <2>1, <2>10, <2>11, <3>1, <3>2 DEF Owing, FreshTarget
    <3>3. CASE ~e.open
      BY <2>1, <2>10, <2>11, <3>1, <3>3 DEF FreshTarget
    <3> QED BY <3>2, <3>3
  <2>13. ASSUME NEW u \in Targets PROVE ChangeFits(d, u)
    <3>1. CASE u = t
      BY <2>12, <3>1 DEF ChangeFits
    <3>2. CASE u # t
      <4>1. TargetContainsDocument(d, u) <=> TargetContainsDocument(c, u)
        BY <1>4, <2>1, <2>11, <3>2 DEF TargetContainsDocument, Main
      <4>2. ChangeFits(c, u)
        BY DEF Sound, Coherent
      <4> QED BY <2>11, <2>12, <3>2, <4>1, <4>2 DEF ChangeFits
    <3> QED BY <3>1, <3>2
  <2>14. Coherent(d)
    BY <1>4, <2>1, <2>2, <2>11, <2>13 DEF Sound, Coherent, Main
  <2> QED BY <2>9, <2>10, <2>14 DEF Sound
<1> QED BY <1>2, <1>3, <1>4

\* Giving up a limbo resolution is sound: its target is listened to.
LEMMA RemoveLimboTargetSound ==
    ASSUME NEW c, NEW q, NEW s, Sound(c, q, s), NEW d, d = RemoveLimboTarget(c)
    PROVE  Sound(d, q, s)
<1>1. c \in WideClients /\ c.limbo \in 0..MaxLimbo
  BY ClientFields DEF Sound
<1>2. CASE c.limbo = 0
  BY <1>2 DEF RemoveLimboTarget
<1>3. CASE c.limbo # 0
  <2> DEFINE t == c.limbo
             e == StopListening(c, t)
  <2>1. /\ e \in WideClients /\ d \in WideClients
        /\ d.limbo = 0 /\ ~d.received /\ d.resolutions = c.resolutions
        /\ SameApp(e, d) /\ SameStream(e, d) /\ d.asserted = e.asserted
    BY <1>1, <1>3, RemoveLimboTargetEffect DEF Sound, Coherent
  <2>2. t \in c.listens /\ t # Main /\ t <= c.resolutions /\ e = StopListening(c, t)
        /\ t \in Targets
    BY <1>1, <1>3, ClientFields DEF Sound, Coherent, Main
  <2> HIDE DEF e, t
  <2>3. Protocol(e, q, s)
    BY <1>1, <2>2, StopListeningKeeps DEF Sound
  <2>4. /\ SameApp(c, e) /\ SameLimbo(c, e) /\ e.asserted = c.asserted
        /\ e.listens = c.listens \ {t}
        /\ c.open => e.states = Owing(c.states, t)
        /\ ~c.open => e.states = c.states
    BY <1>1, <2>2, StopListeningEffect
  <2>5. /\ e.resolutions \in Nat /\ c.open \in BOOLEAN
        /\ c.states \in [Targets -> WideTargetStates]
    BY <1>1, <2>1, ClientFields
  <2>6. Protocol(d, q, s)
    <3>1. d.resolutions = e.resolutions /\ e.resolutions >= e.resolutions
      BY <2>1, <2>4, <2>5 DEF SameLimbo
    <3> QED BY <2>1, <2>3, <2>5, <3>1, ProtocolKept DEF SameStream
  <2>7. \A u \in Targets \ {t} : d.states[u] = c.states[u]
    BY <2>1, <2>4, <2>5 DEF SameStream, Owing
  <2>8. d.listens = c.listens \ {t} /\ d.view = c.view /\ ~d.asserted
    BY <2>1, <2>4 DEF SameStream, SameApp, Sound, Coherent
  <2>9. ASSUME NEW u \in Targets PROVE ChangeFits(d, u)
    <3>1. CASE u = t
      BY <2>8, <3>1 DEF ChangeFits
    <3>2. CASE u # t
      <4>1. TargetContainsDocument(d, u) <=> TargetContainsDocument(c, u)
        BY <2>1, <2>8, <3>2 DEF TargetContainsDocument, Main, t
      <4>2. ChangeFits(c, u)
        BY DEF Sound, Coherent
      <4> QED BY <2>7, <2>8, <3>2, <4>1, <4>2 DEF ChangeFits
    <3> QED BY <3>1, <3>2
  <2>10. Coherent(d)
    <3>1. c.resolutions \in Nat
      BY <1>1, ClientFields
    <3>2. d.listens \subseteq {Main, d.limbo}
      BY <2>1, <2>8 DEF Sound, Coherent, t
    <3>3. d.view.on <=> Main \in d.listens
      BY <2>2, <2>8 DEF Sound, Coherent
    <3> QED BY <2>1, <2>8, <2>9, <3>1, <3>2, <3>3 DEF Coherent
  <2> QED BY <2>1, <2>6, <2>10 DEF Sound
<1> QED BY <1>2, <1>3

-----------------------------------------------------------------------------
(* The connection and the aggregator *)

\* UpdateState: the view first, then the state, then the listeners.
OfflineFirst(c, online) ==
    IF online = "Offline" /\ c.online # online /\ c.view.on /\ c.view.current
      THEN ApplyChanges([c EXCEPT !.view.current = FALSE], FALSE)
      ELSE c
StateSet(c, online) == [OfflineFirst(c, online) EXCEPT !.online = online]

\* Going Offline makes the view not current.
LEMMA OfflineFirstEffect ==
    ASSUME NEW c \in WideClients, NEW online, NEW d, d = OfflineFirst(c, online)
    PROVE  /\ d \in WideClients
           /\ SameStream(c, d) /\ SameStore(c, d) /\ SameLimbo(c, d)
           /\ d.asserted = c.asserted
           /\ d.view.on = c.view.on /\ d.view.synced = c.view.synced
           /\ d.view.document = c.view.document
           /\ d.online = c.online
           /\ d.view = IF online = "Offline" /\ c.online # online /\ c.view.on /\ c.view.current
                         THEN Settled([c.view EXCEPT !.current = FALSE]) ELSE c.view
<1>1. CASE online = "Offline" /\ c.online # online /\ c.view.on /\ c.view.current
  <2> DEFINE w == [c.view EXCEPT !.current = FALSE]
             e == [c EXCEPT !.view = w]
             no == FALSE
  <2>1. d = ApplyChanges(e, no)
    <3>1. e = [c EXCEPT !.view.current = FALSE]
      BY DEF WideClients
    <3> QED BY <1>1, <3>1 DEF OfflineFirst
  <2>2. c.view \in Views
    BY ClientFields
  <2>3. /\ w \in Views /\ w.on = c.view.on /\ w.synced = c.view.synced
        /\ w.document = c.view.document
    BY <2>2 DEF Views
  <2> HIDE DEF w
  <2>4. /\ e \in WideClients /\ e.view = w
        /\ SameStream(c, e) /\ SameStore(c, e) /\ SameLimbo(c, e)
        /\ e.asserted = c.asserted /\ e.online = c.online
    BY <2>3 DEF WideClients, SameStream, SameStore, SameLimbo
  <2> HIDE DEF e, no
  <2>5. /\ d \in WideClients
        /\ SameStream(e, d) /\ SameStore(e, d) /\ SameLimbo(e, d)
        /\ d.view = Settled(e.view) /\ d.asserted = e.asserted /\ d.online = e.online
    BY <2>1, <2>4, ApplyChangesEffect
  <2>6. /\ Settled(w).on = w.on /\ Settled(w).synced = w.synced
        /\ Settled(w).document = w.document
    BY <2>3, SettledFields
  <2> QED BY <1>1, <2>3, <2>4, <2>5, <2>6, ZenonT(60) DEF SameStream, SameStore, SameLimbo, w
<1>2. CASE ~(online = "Offline" /\ c.online # online /\ c.view.on /\ c.view.current)
  <2>1. d = c
    BY <1>2 DEF OfflineFirst
  <2> QED BY <1>2, <2>1 DEF SameStream, SameStore, SameLimbo
<1> QED BY <1>1, <1>2

\* The new state of the connection, before listeners are called for it.
LEMMA StateSetEffect ==
    ASSUME NEW c \in WideClients, NEW online \in {"Unknown", "Online", "Offline"},
           NEW d, d = StateSet(c, online)
    PROVE  /\ d \in WideClients
           /\ SameStream(c, d) /\ SameStore(c, d) /\ SameLimbo(c, d)
           /\ SameShown(OfflineFirst(c, online), d)
           /\ d.asserted = c.asserted /\ d.online = online
           /\ d.view = OfflineFirst(c, online).view
<1> DEFINE e == OfflineFirst(c, online)
<1>1. /\ e \in WideClients
      /\ SameStream(c, e) /\ SameStore(c, e) /\ SameLimbo(c, e) /\ e.asserted = c.asserted
  BY OfflineFirstEffect
<1>2. d = [e EXCEPT !.online = online]
  BY DEF StateSet
<1> HIDE DEF e
<1>3. /\ d \in WideClients
      /\ SameStream(e, d) /\ SameStore(e, d) /\ SameLimbo(e, d) /\ SameShown(e, d)
      /\ d.asserted = e.asserted /\ d.online = online /\ d.view = e.view
  BY <1>1, <1>2 DEF WideClients, SameStream, SameStore, SameLimbo, SameShown
<1> QED BY <1>1, <1>3 DEF SameStream, SameStore, SameLimbo, e

\* A state of the connection changes the view and the listeners at most.
LEMMA UpdateStateEffect ==
    ASSUME NEW c \in WideClients, NEW online \in {"Unknown", "Online", "Offline"},
           NEW d, d = UpdateState(c, online)
    PROVE  /\ d \in WideClients
           /\ SameStream(c, d) /\ SameStore(c, d) /\ SameLimbo(c, d)
           /\ d.asserted = c.asserted /\ d.online = online
           /\ d.view = OfflineFirst(c, online).view
           /\ d = LET e == StateSet(c, online)
                  IN  IF c.online # online /\ e.view.on /\ ShouldRaiseInitialEvent(e, online)
                        THEN Raise(e, Unraised(e)) ELSE e
<1> DEFINE e == StateSet(c, online)
           k == Unraised(e)
           called == c.online # online /\ e.view.on /\ ShouldRaiseInitialEvent(e, online)
<1>1. d = IF called THEN Raise(e, k) ELSE e
  BY DEF UpdateState, OfflineFirst, StateSet
<1>2. /\ e \in WideClients
      /\ SameStream(c, e) /\ SameStore(c, e) /\ SameLimbo(c, e)
      /\ e.asserted = c.asserted /\ e.online = online
      /\ e.view = OfflineFirst(c, online).view
  BY StateSetEffect
<1> HIDE DEF e, k, called
<1>3. /\ d \in WideClients
      /\ SameStream(e, d) /\ SameStore(e, d) /\ SameLimbo(e, d)
      /\ d.asserted = e.asserted /\ d.online = e.online /\ d.view = e.view
  <2>1. CASE called
    <3>1. d = Raise(e, k)
      BY <1>1, <2>1
    <3> QED BY <1>2, <3>1, RaiseEffect
  <2>2. CASE ~called
    BY <1>1, <1>2, <2>2 DEF SameStream, SameStore, SameLimbo
  <2> QED BY <2>1, <2>2
<1>4. d = IF called THEN Raise(e, Unraised(e)) ELSE e
  BY <1>1 DEF k
<1> QED BY <1>2, <1>3, <1>4 DEF SameStream, SameStore, SameLimbo, e, called

\* A state of the connection keeps the client sound.
LEMMA UpdateStateSound ==
    ASSUME NEW c, NEW q, NEW s, Sound(c, q, s),
           NEW online \in {"Unknown", "Online", "Offline"}, NEW d, d = UpdateState(c, online)
    PROVE  Sound(d, q, s)
<1>1. c \in WideClients
  BY DEF Sound
<1> DEFINE e == OfflineFirst(c, online)
<1>2. e.view.on = c.view.on /\ e.view.synced = c.view.synced
  BY <1>1, OfflineFirstEffect, ZenonT(60)
<1> HIDE DEF e
<1>3. /\ d \in WideClients
      /\ SameStream(c, d) /\ SameLimbo(c, d) /\ d.asserted = c.asserted /\ d.view = e.view
  BY <1>1, UpdateStateEffect DEF e
<1> QED BY <1>2, <1>3, SoundKept

\* What a message to the aggregator leaves alone.
Aggregates(c, d) ==
    /\ d \in WideClients
    /\ SameApp(c, d) /\ SameLimbo(c, d) /\ d.asserted = c.asserted
    /\ d.open = c.open /\ d.requests = c.requests /\ d.listens = c.listens
    /\ d.tokens = c.tokens

AggregatorSet(c, ss, us) == [c EXCEPT !.states = ss, !.updates = us]

\* The aggregator's part of the client is replaced.
LEMMA StatesUpdated ==
    ASSUME NEW c \in WideClients, NEW ss \in [Targets -> WideTargetStates],
           NEW us \in SUBSET MaybeDocuments,
           NEW d, d = AggregatorSet(c, ss, us)
    PROVE  Aggregates(c, d) /\ d.states = ss /\ d.updates = us
BY DEF AggregatorSet, Aggregates, WideClients, SameApp, SameShown, SameStore, SameLimbo

\* A step of the aggregator that changes no count keeps the client sound.
LEMMA AggregateSound ==
    ASSUME NEW c, NEW d, NEW q, NEW s, Sound(c, q, s), c.open, Aggregates(c, d),
           \A t \in Targets : /\ d.states[t].pending = c.states[t].pending
                              /\ t \notin c.listens => d.states[t] = c.states[t]
                              /\ ChangeFits(d, t)
    PROVE  Sound(d, q, s)
<1>1. c.resolutions \in Nat /\ c.resolutions >= c.resolutions /\ d.resolutions = c.resolutions
  BY ClientFields DEF Sound, Aggregates, SameLimbo
<1>2. \A t \in Targets : ~c.open \/ Unused(c, t) => d.states[t] = c.states[t]
  BY DEF Unused
<1>3. Protocol(d, q, s)
  BY <1>1, <1>2, ProtocolKept DEF Sound, Aggregates
<1>4. Coherent(d)
  BY DEF Sound, Coherent, Aggregates, SameApp, SameLimbo
<1> QED BY <1>3, <1>4 DEF Sound, Aggregates

\* The target state t with a change.
Changed(c, t, change) == [c.states[t] EXCEPT !.change = change, !.dirty = TRUE]

\* A target with a change.
LEMMA ChangedFields ==
    ASSUME NEW c \in WideClients, NEW t \in Targets,
           NEW change \in {"none", "Added", "Modified", "Removed"}
    PROVE  /\ Changed(c, t, change) \in WideTargetStates
           /\ Changed(c, t, change).pending = c.states[t].pending
           /\ Changed(c, t, change).current = c.states[t].current
           /\ Changed(c, t, change).token = c.states[t].token
           /\ Changed(c, t, change).change = change
           /\ Changed(c, t, change).dirty = TRUE
<1>1. c.states[t] \in WideTargetStates
  BY ClientFields
<1> QED BY <1>1 DEF Changed, WideTargetStates

\* A function with one value replaced.
LEMMA ReplacedFields ==
    ASSUME NEW f \in [Targets -> WideTargetStates], NEW t \in Targets,
           NEW x \in WideTargetStates
    PROVE  /\ Replaced(f, t, x) \in [Targets -> WideTargetStates]
           /\ Replaced(f, t, x)[t] = x
           /\ \A u \in Targets \ {t} : Replaced(f, t, x)[u] = f[u]
BY DEF Replaced

\* A document of an active target is added or modified.
LEMMA AddDocumentEffect ==
    ASSUME NEW c \in WideClients, NEW t \in Targets, NEW m \in MaybeDocuments,
           NEW d, d = AddDocumentToTarget(c, t, m)
    PROVE  /\ Aggregates(c, d)
           /\ ~IsActiveTarget(c, t) => d = c
           /\ IsActiveTarget(c, t) =>
                 /\ d.updates = {m}
                 /\ d.states = Replaced(c.states, t, Changed(c, t,
                                   IF TargetContainsDocument(c, t) THEN "Modified" ELSE "Added"))
<1> DEFINE ch == IF TargetContainsDocument(c, t) THEN "Modified" ELSE "Added"
           ss == Replaced(c.states, t, Changed(c, t, ch))
<1>1. CASE ~IsActiveTarget(c, t)
  <2>1. d = c
    BY <1>1 DEF AddDocumentToTarget
  <2> QED BY <1>1, <2>1 DEF Aggregates, SameApp, SameShown, SameStore, SameLimbo
<1>2. CASE IsActiveTarget(c, t)
  <2>1. d = [c EXCEPT !.states[t].change = ch, !.states[t].dirty = TRUE, !.updates = {m}]
    BY <1>2 DEF AddDocumentToTarget
  <2>2. ch \in {"none", "Added", "Modified", "Removed"}
    OBVIOUS
  <2>3. c.states \in [Targets -> WideTargetStates]
    BY ClientFields
  <2> HIDE DEF ch
  <2>4. d = AggregatorSet(c, ss, {m})
    BY <2>1, <2>3, ZenonT(60) DEF AggregatorSet, Replaced, Changed, WideClients
  <2>5. ss \in [Targets -> WideTargetStates]
    BY <2>2, <2>3, ChangedFields, ReplacedFields
  <2> HIDE DEF ss
  <2>6. {m} \in SUBSET MaybeDocuments
    OBVIOUS
  <2>7. Aggregates(c, d) /\ d.states = ss /\ d.updates = {m}
    BY <2>4, <2>5, <2>6, StatesUpdated
  <2> QED BY <1>2, <2>7 DEF ss, ch
<1> QED BY <1>1, <1>2

\* A document of an active target is removed, if the target had it.
LEMMA RemoveDocumentEffect ==
    ASSUME NEW c \in WideClients, NEW t \in Targets, NEW ms \in SUBSET MaybeDocuments,
           NEW d, d = RemoveDocumentFromTarget(c, t, ms)
    PROVE  /\ Aggregates(c, d)
           /\ ~IsActiveTarget(c, t) => d = c
           /\ IsActiveTarget(c, t) =>
                 /\ d.updates = IF ms = {} THEN c.updates ELSE ms
                 /\ d.states = Replaced(c.states, t, Changed(c, t,
                                   IF TargetContainsDocument(c, t) THEN "Removed" ELSE "none"))
<1> DEFINE ch == IF TargetContainsDocument(c, t) THEN "Removed" ELSE "none"
           ss == Replaced(c.states, t, Changed(c, t, ch))
           us == IF ms = {} THEN c.updates ELSE ms
<1>1. CASE ~IsActiveTarget(c, t)
  <2>1. d = c
    BY <1>1 DEF RemoveDocumentFromTarget
  <2> QED BY <1>1, <2>1 DEF Aggregates, SameApp, SameShown, SameStore, SameLimbo
<1>2. CASE IsActiveTarget(c, t)
  <2>1. d = [c EXCEPT !.states[t].change = ch, !.states[t].dirty = TRUE, !.updates = us]
    BY <1>2 DEF RemoveDocumentFromTarget
  <2>2. ch \in {"none", "Added", "Modified", "Removed"}
    OBVIOUS
  <2>3. c.states \in [Targets -> WideTargetStates] /\ us \in SUBSET MaybeDocuments
    BY ClientFields
  <2> HIDE DEF ch, us
  <2>4. d = AggregatorSet(c, ss, us)
    BY <2>1, <2>3, ZenonT(60) DEF AggregatorSet, Replaced, Changed, WideClients
  <2>5. ss \in [Targets -> WideTargetStates]
    BY <2>2, <2>3, ChangedFields, ReplacedFields
  <2> HIDE DEF ss
  <2>6. Aggregates(c, d) /\ d.states = ss /\ d.updates = us
    BY <2>3, <2>4, <2>5, StatesUpdated
  <2> QED BY <1>2, <2>6 DEF ss, ch, us
<1> QED BY <1>1, <1>2

\* A change of one target that fits keeps the client sound.
LEMMA ChangeSound ==
    ASSUME NEW c, NEW d, NEW q, NEW s, Sound(c, q, s), c.open, Aggregates(c, d),
           NEW t \in Targets, IsActiveTarget(c, t), NEW x \in WideTargetStates,
           d.states = Replaced(c.states, t, x), x.pending = c.states[t].pending,
           x.change \in {"Modified", "Removed"} => TargetContainsDocument(c, t),
           x.change # "none" => x.dirty
    PROVE  Sound(d, q, s)
<1>1. c.states \in [Targets -> WideTargetStates]
  BY ClientFields DEF Sound
<1>2. /\ d.states[t] = x
      /\ \A u \in Targets \ {t} : d.states[u] = c.states[u]
  BY <1>1, ReplacedFields
<1>3. \A u : TargetContainsDocument(d, u) <=> TargetContainsDocument(c, u)
  BY DEF TargetContainsDocument, Aggregates, SameApp, SameLimbo
<1>4. \A u \in Targets : ChangeFits(d, u)
  <2>1. ASSUME NEW u \in Targets, u # t PROVE ChangeFits(d, u)
    <3>1. ChangeFits(c, u)
      BY DEF Sound, Coherent
    <3> QED BY <1>2, <1>3, <2>1, <3>1 DEF ChangeFits, Aggregates
  <2>2. ChangeFits(d, t)
    BY <1>2, <1>3 DEF ChangeFits
  <2> QED BY <2>1, <2>2
<1>5. \A u \in Targets : /\ d.states[u].pending = c.states[u].pending
                         /\ u \notin c.listens => d.states[u] = c.states[u]
  BY <1>2 DEF IsActiveTarget
<1> QED BY <1>4, <1>5, AggregateSound

\* An added document keeps the client sound.
LEMMA AddDocumentSound ==
    ASSUME NEW c, NEW q, NEW s, Sound(c, q, s), c.open, NEW t \in Targets,
           NEW m \in MaybeDocuments, NEW d, d = AddDocumentToTarget(c, t, m)
    PROVE  Sound(d, q, s)
<1> DEFINE ch == IF TargetContainsDocument(c, t) THEN "Modified" ELSE "Added"
           x == Changed(c, t, ch)
<1>1. c \in WideClients /\ ch \in {"none", "Added", "Modified", "Removed"}
  BY DEF Sound
<1>2. ch \in {"Modified", "Removed"} => TargetContainsDocument(c, t)
  OBVIOUS
<1>3. /\ Aggregates(c, d)
      /\ ~IsActiveTarget(c, t) => d = c
      /\ IsActiveTarget(c, t) => d.states = Replaced(c.states, t, x)
  BY <1>1, AddDocumentEffect
<1> HIDE DEF ch
<1>4. /\ x \in WideTargetStates /\ x.pending = c.states[t].pending
      /\ x.change = ch /\ x.dirty
  BY <1>1, ChangedFields, ZenonT(60)
<1> HIDE DEF x
<1> QED BY <1>2, <1>3, <1>4, ChangeSound

\* A removed document keeps the client sound.
LEMMA RemoveDocumentSound ==
    ASSUME NEW c, NEW q, NEW s, Sound(c, q, s), c.open, NEW t \in Targets,
           NEW ms \in SUBSET MaybeDocuments, NEW d, d = RemoveDocumentFromTarget(c, t, ms)
    PROVE  Sound(d, q, s)
<1> DEFINE ch == IF TargetContainsDocument(c, t) THEN "Removed" ELSE "none"
           x == Changed(c, t, ch)
<1>1. c \in WideClients /\ ch \in {"none", "Added", "Modified", "Removed"}
  BY DEF Sound
<1>2. ch \in {"Modified", "Removed"} => TargetContainsDocument(c, t)
  OBVIOUS
<1>3. /\ Aggregates(c, d)
      /\ ~IsActiveTarget(c, t) => d = c
      /\ IsActiveTarget(c, t) => d.states = Replaced(c.states, t, x)
  BY <1>1, RemoveDocumentEffect
<1> HIDE DEF ch
<1>4. /\ x \in WideTargetStates /\ x.pending = c.states[t].pending
      /\ x.change = ch /\ x.dirty
  BY <1>1, ChangedFields, ZenonT(60)
<1> HIDE DEF x
<1> QED BY <1>2, <1>3, <1>4, ChangeSound

\* A message that answers no request is taken from the queue.
LEMMA HeardSound ==
    ASSUME NEW c, NEW q \in Seq(Messages), NEW s, Sound(c, q, s), q # <<>>,
           NEW m, m = Head(q), m.kind \notin {"added", "removed"}, NEW p, p = Tail(q)
    PROVE  Sound(c, p, s) /\ c.open
<1>1. c.open
  BY ClientFields DEF Sound, Protocol, WhenClosed
<1>2. ASSUME NEW t \in Targets PROVE TargetProtocol(c, p, s, t)
  <2>1. /\ \A kind \in {"added", "removed", "rejected"} :
              Tells(q, kind, t) <=> Tells(p, kind, t) \/ (m.kind = kind /\ m.target = t)
        /\ Silent(q, t) <=> Silent(p, t) /\ ~About(m, t)
    <3>1. TakenFrom(q, p, m, t)
      BY TailTells
    <3> QED BY <3>1 DEF TakenFrom
  <2>2. TargetProtocol(c, q, s, t)
    BY DEF Sound, Protocol
  <2>3. /\ Tells(p, "added", t) <=> Tells(q, "added", t)
        /\ Tells(p, "removed", t) => Tells(q, "removed", t)
        /\ Tells(p, "rejected", t) => Tells(q, "rejected", t)
        /\ Silent(q, t) => Silent(p, t)
    BY <2>1
  <2> QED BY <2>2, <2>3, TargetSame
<1>3. InOrder(p)
  BY TailTells, TargetFacts DEF Sound, Protocol, TakenFrom
<1>4. Protocol(c, p, s)
  BY <1>1, <1>2, <1>3 DEF Sound, Protocol, WhenClosed
<1> QED BY <1>1, <1>4 DEF Sound

\* The answer to a watch request.
AddedState(x) ==
    IF x.pending - 1 # 0
      THEN [x EXCEPT !.pending = @ - 1]
      ELSE [x EXCEPT !.pending = @ - 1, !.dirty = FALSE, !.change = "none"]

\* The answer to an unwatch request.
RemovedState(x) ==
    IF x.pending - 1 # 0 THEN [x EXCEPT !.pending = @ - 1] ELSE FreshTarget

\* What an answer makes of a target's state.
LEMMA AnsweredFields ==
    ASSUME NEW x \in WideTargetStates
    PROVE  /\ AddedState(x) \in WideTargetStates
           /\ AddedState(x).pending = x.pending - 1
           /\ AddedState(x).pending = 0 => AddedState(x).change = "none"
           /\ AddedState(x).pending = 0 => AddedState(x).dirty = FALSE
           /\ AddedState(x).current = x.current /\ AddedState(x).token = x.token
           /\ RemovedState(x) \in WideTargetStates
           /\ RemovedState(x).pending = x.pending - 1
<1>1. x.pending \in Int /\ x.pending - 1 \in Int
  BY StateFields
<1>2. FreshTarget \in WideTargetStates /\ FreshTarget.pending = 0
  BY WatchAssumption DEF FreshTarget, WideTargetStates
<1>3. /\ AddedState(x) \in WideTargetStates
      /\ AddedState(x).pending = x.pending - 1
      /\ AddedState(x).pending = 0 => AddedState(x).change = "none"
      /\ AddedState(x).pending = 0 => AddedState(x).dirty = FALSE
      /\ AddedState(x).current = x.current /\ AddedState(x).token = x.token
  BY <1>1 DEF AddedState, WideTargetStates
<1>4. /\ RemovedState(x) \in WideTargetStates
      /\ RemovedState(x).pending = x.pending - 1
  BY <1>1, <1>2 DEF RemovedState, WideTargetStates
<1> QED BY <1>3, <1>4

\* The answer to a watch request.
LEMMA HandleAddedEffect ==
    ASSUME NEW c \in WideClients, NEW t \in Targets, NEW d, d = HandleAdded(c, t)
    PROVE  /\ Aggregates(c, d) /\ d.updates = c.updates
           /\ d.states = Replaced(c.states, t, AddedState(c.states[t]))
<1> DEFINE x == c.states[t]
           ss == Replaced(c.states, t, AddedState(x))
           e == RecordTargetResponse(c, t)
<1>1. c.states \in [Targets -> WideTargetStates] /\ x \in WideTargetStates
  BY ClientFields
<1>2. ss \in [Targets -> WideTargetStates] /\ c.updates \in SUBSET MaybeDocuments
  BY <1>1, AnsweredFields, ReplacedFields, ClientFields
<1>3. e.states[t].pending = x.pending - 1
  BY <1>1 DEF RecordTargetResponse, WideClients, WideTargetStates
<1>4. d = AggregatorSet(c, ss, c.updates)
  <2>1. CASE x.pending - 1 # 0
    <3>1. d = e
      BY <1>3, <2>1 DEF HandleAdded
    <3> QED BY <1>1, <2>1, <3>1
            DEF RecordTargetResponse, AggregatorSet, AddedState, Replaced, WideClients
  <2>2. CASE x.pending - 1 = 0
    <3>1. d = [e EXCEPT !.states[t].dirty = FALSE, !.states[t].change = "none"]
      BY <1>3, <2>2 DEF HandleAdded
    <3> DEFINE y == [x EXCEPT !.pending = @ - 1]
               z == [y EXCEPT !.dirty = FALSE, !.change = "none"]
               es == [c.states EXCEPT ![t] = y]
    <3>2. e = [c EXCEPT !.states = es]
      BY DEF RecordTargetResponse, WideClients
    <3>3. es \in [Targets -> WideTargetStates] /\ es[t] = y
      BY <1>1 DEF WideTargetStates
    <3>4. z = AddedState(x)
      BY <1>1, <2>2 DEF AddedState, WideTargetStates
    <3>5. [es EXCEPT ![t] = z] = ss
      BY <1>1, <3>4 DEF Replaced
    <3>6. [es EXCEPT ![t].dirty = FALSE, ![t].change = "none"] = [es EXCEPT ![t] = z]
      <4> HIDE DEF es, y
      <4> QED BY <1>1, <3>3
    <3> HIDE DEF es, z, ss
    <3>7. d = [c EXCEPT !.states = [es EXCEPT ![t].dirty = FALSE, ![t].change = "none"]]
      BY <1>1, <3>1, <3>2, <3>3, ZenonT(60) DEF WideClients
    <3> QED BY <3>5, <3>6, <3>7 DEF AggregatorSet, WideClients
  <2> QED BY <2>1, <2>2
<1> HIDE DEF ss
<1>5. Aggregates(c, d) /\ d.states = ss /\ d.updates = c.updates
  BY <1>2, <1>4, StatesUpdated
<1> QED BY <1>5 DEF ss

\* The answer to an unwatch request.
LEMMA HandleRemovedEffect ==
    ASSUME NEW c \in WideClients, NEW t \in Targets, NEW d, d = HandleRemoved(c, t)
    PROVE  /\ Aggregates(c, d) /\ d.updates = c.updates
           /\ d.states = Replaced(c.states, t, RemovedState(c.states[t]))
<1> DEFINE x == c.states[t]
           ss == Replaced(c.states, t, RemovedState(x))
           e == RecordTargetResponse(c, t)
<1>1. c.states \in [Targets -> WideTargetStates] /\ x \in WideTargetStates
  BY ClientFields
<1>2. ss \in [Targets -> WideTargetStates] /\ c.updates \in SUBSET MaybeDocuments
  BY <1>1, AnsweredFields, ReplacedFields, ClientFields
<1>3. e.states[t].pending = x.pending - 1
  BY <1>1 DEF RecordTargetResponse, WideClients, WideTargetStates
<1>4. d = AggregatorSet(c, ss, c.updates)
  <2>1. CASE x.pending - 1 # 0
    <3>1. d = e
      BY <1>3, <2>1 DEF HandleRemoved
    <3> QED BY <1>1, <2>1, <3>1
            DEF RecordTargetResponse, AggregatorSet, RemovedState, Replaced, WideClients
  <2>2. CASE x.pending - 1 = 0
    <3>1. d = [e EXCEPT !.states[t] = FreshTarget]
      BY <1>3, <2>2 DEF HandleRemoved
    <3> QED BY <1>1, <2>2, <3>1, ZenonT(60)
            DEF RecordTargetResponse, AggregatorSet, RemovedState, Replaced, WideClients,
                WideTargetStates
  <2> QED BY <2>1, <2>2
<1> HIDE DEF ss
<1>5. Aggregates(c, d) /\ d.states = ss /\ d.updates = c.updates
  BY <1>2, <1>4, StatesUpdated
<1> QED BY <1>5 DEF ss

\* An answer is taken, and the count goes down with it.
LEMMA AnswerSound ==
    ASSUME NEW c, NEW q \in Seq(Messages), NEW s, Sound(c, q, s), q # <<>>,
           NEW m, m = Head(q), NEW t \in Targets, m.target = t, NEW p, p = Tail(q),
           m.kind \in {"added", "removed"},
           NEW d, Aggregates(c, d), NEW x \in WideTargetStates,
           d.states = Replaced(c.states, t, x), x.pending = c.states[t].pending - 1,
           m.kind = "added" /\ x.pending = 0 => x.change = "none"
    PROVE  Sound(d, p, s)
<1>1. c.open /\ c.open \in BOOLEAN
  BY ClientFields DEF Sound, Protocol, WhenClosed
<1>2. c.states \in [Targets -> WideTargetStates] /\ c.states[t].pending \in Int
  BY ClientFields, StateFields DEF Sound
<1>3. d.states[t] = x /\ \A u \in Targets \ {t} : d.states[u] = c.states[u]
  BY <1>2, ReplacedFields
<1>4. \A u \in Targets :
         /\ \A kind \in {"added", "removed", "rejected"} :
               Tells(q, kind, u) <=> Tells(p, kind, u) \/ (m.kind = kind /\ m.target = u)
         /\ Silent(q, u) <=> Silent(p, u) /\ ~About(m, u)
         /\ InOrder(q) => /\ InOrder(p)
                          /\ m.kind = "added" /\ m.target = u => ~Tells(p, "added", u)
                          /\ m.kind \in {"rejected", "removed"} /\ m.target = u =>
                                Silent(p, u)
  <2>1. ASSUME NEW u \in Targets PROVE TakenFrom(q, p, m, u)
    BY TailTells
  <2> QED BY <2>1 DEF TakenFrom
<1>5. InOrder(q) /\ InOrder(p)
  BY <1>4, TargetFacts DEF Sound, Protocol
<1>6. \A kind, u : Asks(d, kind, u) <=> Asks(c, kind, u)
  BY DEF Aggregates, Asks
<1>7. \A u : Unused(d, u) <=> Unused(c, u)
  BY DEF Aggregates, SameLimbo, Unused
<1>8. ASSUME NEW u \in Targets \ {t} PROVE TargetProtocol(d, p, s, u)
  <2>1. TargetProtocol(c, q, s, u)
    BY DEF Sound, Protocol
  <2>2. m.target # u
    OBVIOUS
  <2>3. /\ Tells(p, "added", u) <=> Tells(q, "added", u)
        /\ Tells(p, "removed", u) => Tells(q, "removed", u)
        /\ Tells(p, "rejected", u) => Tells(q, "rejected", u)
        /\ Silent(q, u) => Silent(p, u)
    BY <1>4, <2>2
  <2>4. d.open = c.open /\ d.listens = c.listens
    BY DEF Aggregates
  <2> QED BY <1>3, <1>6, <1>7, <2>1, <2>3, <2>4, TargetSame
<1>9. /\ About(m, t) /\ ~Silent(q, t)
      /\ m.kind = "added" => Tells(q, "added", t) /\ ~Tells(p, "added", t)
      /\ m.kind = "removed" => Tells(q, "removed", t) /\ Silent(p, t)
      /\ Tells(p, "removed", t) => Tells(q, "removed", t)
      /\ Tells(p, "rejected", t) => Tells(q, "rejected", t)
  BY <1>4, <1>5 DEF About
<1>10. TargetProtocol(c, q, s, t)
  BY DEF Sound, Protocol
<1>11. ~Asks(c, "watch", t) /\ ~Unused(c, t)
  BY <1>9, <1>10 DEF TargetProtocol, Idle
<1>12. TargetProtocol(d, p, s, t)
  <2>1. d.open = c.open /\ d.listens = c.listens /\ d.states[t].pending = c.states[t].pending - 1
    BY <1>3 DEF Aggregates
  <2>2. Silent(p, t) => ~Tells(p, "added", t) /\ ~Tells(p, "removed", t)
    BY DEF Silent, Tells, About
  <2>3. CASE m.kind = "added"
    <3>1. ~Asks(d, "watch", t) /\ ~Unused(d, t) /\ ~Tells(p, "added", t)
      BY <1>6, <1>7, <1>9, <1>11, <2>3
    <3>2. /\ Asks(d, "unwatch", t) => t \notin d.listens /\ ~Tells(p, "removed", t)
          /\ Tells(p, "removed", t) => t \notin d.listens
          /\ Tells(p, "removed", t) \/ Tells(p, "rejected", t) => s[t] = NoSession
      BY <1>6, <1>9, <1>10, <2>1 DEF TargetProtocol
    <3>3. /\ t \in d.listens /\ d.open => d.states[t].pending = 0
          /\ d.states[t].pending \in 0..2
          /\ One(Asks(d, "unwatch", t)) + One(Tells(p, "removed", t)) <= d.states[t].pending
      BY <1>2, <1>6, <1>9, <1>10, <1>11, <2>1, <2>3 DEF TargetProtocol, One
    <3> QED BY <3>1, <3>2, <3>3 DEF TargetProtocol, One
  <2>4. CASE m.kind = "removed"
    <3>1. /\ ~Asks(d, "watch", t) /\ ~Asks(d, "unwatch", t) /\ ~Unused(d, t)
          /\ t \notin d.listens /\ s[t] = NoSession
          /\ ~Tells(p, "added", t) /\ ~Tells(p, "removed", t)
      BY <1>6, <1>7, <1>9, <1>10, <1>11, <2>1, <2>2, <2>4 DEF TargetProtocol
    <3>2. d.states[t].pending \in 0..2
      BY <1>2, <1>9, <1>10, <2>1, <2>4 DEF TargetProtocol, One
    <3> QED BY <3>1, <3>2 DEF TargetProtocol, One
  <2> QED BY <2>3, <2>4
<1>13. Protocol(d, p, s)
  <2>1. WhenClosed(d, p, s)
    BY <1>1 DEF WhenClosed, Aggregates
  <2>2. OneOfAKind(d)
    BY DEF Sound, Protocol, OneOfAKind, Aggregates
  <2> QED BY <1>5, <1>8, <1>12, <2>1, <2>2 DEF Protocol
<1>14. \A u \in Targets : ChangeFits(d, u)
  <2>1. ASSUME NEW u \in Targets \ {t} PROVE ChangeFits(d, u)
    <3>1. TargetContainsDocument(d, u) <=> TargetContainsDocument(c, u)
      BY DEF TargetContainsDocument, Aggregates, SameApp, SameLimbo
    <3>2. ChangeFits(c, u)
      BY DEF Sound, Coherent
    <3> QED BY <1>3, <3>1, <3>2 DEF ChangeFits, Aggregates
  <2>2. ChangeFits(d, t)
    <3>1. CASE m.kind = "added"
      BY <1>3, <3>1 DEF ChangeFits
    <3>2. CASE m.kind = "removed"
      <4>1. t \notin c.listens
        BY <1>9, <1>10, <3>2 DEF TargetProtocol
      <4> QED BY <4>1 DEF ChangeFits, Aggregates
    <3> QED BY <3>1, <3>2
  <2> QED BY <2>1, <2>2
<1>15. Coherent(d)
  BY <1>14 DEF Sound, Coherent, Aggregates, SameApp, SameLimbo
<1> QED BY <1>13, <1>15 DEF Sound, Aggregates

\* The answer to a watch request keeps the client sound.
LEMMA HandleAddedSound ==
    ASSUME NEW c, NEW q \in Seq(Messages), NEW s, Sound(c, q, s), q # <<>>,
           NEW m, m = Head(q), NEW t \in Targets, m.target = t, NEW p, p = Tail(q),
           m.kind = "added", NEW d, d = HandleAdded(c, t)
    PROVE  Sound(d, p, s)
<1> DEFINE x == AddedState(c.states[t])
<1>1. c \in WideClients /\ c.states[t] \in WideTargetStates
  BY ClientFields DEF Sound
<1>2. Aggregates(c, d) /\ d.states = Replaced(c.states, t, x)
  BY <1>1, HandleAddedEffect
<1>3. /\ x \in WideTargetStates /\ x.pending = c.states[t].pending - 1
      /\ x.pending = 0 => x.change = "none"
  BY <1>1, AnsweredFields
<1> HIDE DEF x
<1> QED BY <1>2, <1>3, AnswerSound, ZenonT(60)

\* The answer to an unwatch request keeps the client sound.
LEMMA HandleRemovedSound ==
    ASSUME NEW c, NEW q \in Seq(Messages), NEW s, Sound(c, q, s), q # <<>>,
           NEW m, m = Head(q), NEW t \in Targets, m.target = t, NEW p, p = Tail(q),
           m.kind = "removed", NEW d, d = HandleRemoved(c, t)
    PROVE  Sound(d, p, s)
<1> DEFINE x == RemovedState(c.states[t])
<1>1. c \in WideClients /\ c.states[t] \in WideTargetStates
  BY ClientFields DEF Sound
<1>2. Aggregates(c, d) /\ d.states = Replaced(c.states, t, x)
  BY <1>1, HandleRemovedEffect
<1>3. x \in WideTargetStates /\ x.pending = c.states[t].pending - 1
  BY <1>1, AnsweredFields
<1> HIDE DEF x
<1> QED BY <1>2, <1>3, AnswerSound, ZenonT(60)

\* A target state with a token, or the one it had.
TokenState(x, token) == UpdateResumeToken(x, token)
CurrentState(x, token) ==
    UpdateResumeToken([x EXCEPT !.current = TRUE, !.dirty = TRUE], token)

\* What a resume token makes of a target's state.
LEMMA TokenFields ==
    ASSUME NEW x \in WideTargetStates, NEW token \in 0..MaxVersion
    PROVE  /\ TokenState(x, token) \in WideTargetStates
           /\ TokenState(x, token).pending = x.pending
           /\ TokenState(x, token).change = x.change
           /\ TokenState(x, token).current = x.current
           /\ token # 0 => TokenState(x, token).dirty = TRUE
           /\ token = 0 => TokenState(x, token).dirty = x.dirty
           /\ TokenState(x, token).token = IF token = 0 THEN x.token ELSE token
           /\ CurrentState(x, token) \in WideTargetStates
           /\ CurrentState(x, token).pending = x.pending
           /\ CurrentState(x, token).change = x.change
           /\ CurrentState(x, token).current = TRUE /\ CurrentState(x, token).dirty = TRUE
           /\ CurrentState(x, token).token = IF token = 0 THEN x.token ELSE token
BY DEF TokenState, CurrentState, UpdateResumeToken, WideTargetStates

\* A target is current.
LEMMA HandleCurrentEffect ==
    ASSUME NEW c \in WideClients, NEW t \in Targets, NEW token \in 0..MaxVersion,
           NEW d, d = HandleCurrent(c, t, token)
    PROVE  /\ Aggregates(c, d) /\ d.updates = c.updates
           /\ ~IsActiveTarget(c, t) => d = c
           /\ IsActiveTarget(c, t) =>
                 d.states = Replaced(c.states, t, CurrentState(c.states[t], token))
<1> DEFINE x == CurrentState(c.states[t], token)
           ss == Replaced(c.states, t, x)
<1>1. CASE ~IsActiveTarget(c, t)
  <2>1. d = c
    BY <1>1 DEF HandleCurrent
  <2> QED BY <1>1, <2>1 DEF Aggregates, SameApp, SameShown, SameStore, SameLimbo
<1>2. CASE IsActiveTarget(c, t)
  <2>1. c.states \in [Targets -> WideTargetStates] /\ c.states[t] \in WideTargetStates
        /\ c.updates \in SUBSET MaybeDocuments
    BY ClientFields
  <2>2. d = AggregatorSet(c, ss, c.updates)
    BY <1>2, <2>1 DEF HandleCurrent, AggregatorSet, CurrentState, Replaced, WideClients
  <2>3. ss \in [Targets -> WideTargetStates]
    BY <2>1, TokenFields, ReplacedFields
  <2> HIDE DEF ss
  <2>4. Aggregates(c, d) /\ d.states = ss /\ d.updates = c.updates
    BY <2>1, <2>2, <2>3, StatesUpdated
  <2> QED BY <1>2, <2>4 DEF ss
<1> QED BY <1>1, <1>2

\* A target that is current keeps the client sound.
LEMMA HandleCurrentSound ==
    ASSUME NEW c, NEW q, NEW s, Sound(c, q, s), c.open, NEW t \in Targets,
           NEW token \in 0..MaxVersion, NEW d, d = HandleCurrent(c, t, token)
    PROVE  Sound(d, q, s)
<1> DEFINE x == CurrentState(c.states[t], token)
<1>1. c \in WideClients /\ c.states[t] \in WideTargetStates
  BY ClientFields DEF Sound
<1>2. /\ Aggregates(c, d)
      /\ ~IsActiveTarget(c, t) => d = c
      /\ IsActiveTarget(c, t) => d.states = Replaced(c.states, t, x)
  BY <1>1, HandleCurrentEffect
<1>3. /\ x \in WideTargetStates /\ x.pending = c.states[t].pending
      /\ x.change = c.states[t].change /\ x.dirty
  BY <1>1, TokenFields
<1>4. IsActiveTarget(c, t) /\ x.change \in {"Modified", "Removed"} =>
          TargetContainsDocument(c, t)
  BY <1>3 DEF Sound, Coherent, ChangeFits, IsActiveTarget
<1> HIDE DEF x
<1> QED BY <1>2, <1>3, <1>4, ChangeSound

\* A target's state without anything pending.
LEMMA FreshFields ==
    /\ FreshTarget \in WideTargetStates
    /\ FreshTarget.pending = 0 /\ FreshTarget.change = "none"
    /\ FreshTarget.current = FALSE /\ FreshTarget.dirty = FALSE /\ FreshTarget.token = 0
BY WatchAssumption DEF FreshTarget, WideTargetStates

\* A reset target, before what it held is taken back.
TargetReset(c, t) == AggregatorSet(c, Replaced(c.states, t, FreshTarget), c.updates)

\* A target starts over, without the document it had.
LEMMA HandleResetEffect ==
    ASSUME NEW c \in WideClients, NEW t \in Targets, NEW d, d = HandleReset(c, t)
    PROVE  /\ ~IsActiveTarget(c, t) => d = c
           /\ IsActiveTarget(c, t) =>
                 /\ ~TargetContainsDocument(c, t) => d = TargetReset(c, t)
                 /\ TargetContainsDocument(c, t) =>
                       d = RemoveDocumentFromTarget(TargetReset(c, t), t, {})
<1> DEFINE e == TargetReset(c, t)
<1>1. e = [c EXCEPT !.states[t] = FreshTarget]
  BY DEF TargetReset, AggregatorSet, Replaced, WideClients
<1>2. TargetContainsDocument(e, t) <=> TargetContainsDocument(c, t)
  BY <1>1 DEF TargetContainsDocument, WideClients
<1>3. ~IsActiveTarget(c, t) => d = c
  BY DEF HandleReset
<1>4. ASSUME IsActiveTarget(c, t)
      PROVE  d = IF TargetContainsDocument(e, t) THEN RemoveDocumentFromTarget(e, t, {}) ELSE e
  BY <1>1, <1>4 DEF HandleReset
<1> QED BY <1>2, <1>3, <1>4

\* A target's state is a fresh one.
LEMMA TargetResetEffect ==
    ASSUME NEW c \in WideClients, NEW t \in Targets, NEW d, d = TargetReset(c, t)
    PROVE  /\ Aggregates(c, d) /\ d.updates = c.updates
           /\ d.states = Replaced(c.states, t, FreshTarget)
<1> DEFINE ss == Replaced(c.states, t, FreshTarget)
<1>1. c.states \in [Targets -> WideTargetStates] /\ c.updates \in SUBSET MaybeDocuments
  BY ClientFields
<1>2. ss \in [Targets -> WideTargetStates]
  BY <1>1, FreshFields, ReplacedFields
<1>3. d = AggregatorSet(c, ss, c.updates)
  BY DEF TargetReset
<1> HIDE DEF ss
<1>4. Aggregates(c, d) /\ d.states = ss /\ d.updates = c.updates
  BY <1>1, <1>2, <1>3, StatesUpdated
<1> QED BY <1>4 DEF ss

\* A target that starts over keeps the client sound.
LEMMA HandleResetSound ==
    ASSUME NEW c, NEW q, NEW s, Sound(c, q, s), c.open, NEW t \in Targets,
           NEW d, d = HandleReset(c, t)
    PROVE  Sound(d, q, s)
<1>1. c \in WideClients
  BY DEF Sound
<1>2. CASE ~IsActiveTarget(c, t)
  BY <1>1, <1>2, HandleResetEffect
<1>3. CASE IsActiveTarget(c, t)
  <2> DEFINE e == TargetReset(c, t)
             none == {}
  <2>1. Aggregates(c, e) /\ e.states = Replaced(c.states, t, FreshTarget)
    BY <1>1, TargetResetEffect
  <2>2. FreshTarget.pending = c.states[t].pending
    BY <1>3, FreshFields DEF IsActiveTarget
  <2>3. Sound(e, q, s)
    <3> HIDE DEF e
    <3> QED BY <1>3, <2>1, <2>2, FreshFields, ChangeSound
  <2>4. e.open
    BY <2>1 DEF Aggregates
  <2>5. d = e \/ d = RemoveDocumentFromTarget(e, t, none)
    BY <1>1, <1>3, HandleResetEffect
  <2>6. none \in SUBSET MaybeDocuments
    OBVIOUS
  <2> HIDE DEF e, none
  <2> QED BY <2>3, <2>4, <2>5, <2>6, RemoveDocumentSound
<1> QED BY <1>2, <1>3

\* Every active target with a token.
AllTold(c, token) ==
    [t \in Targets |-> IF IsActiveTarget(c, t) THEN TokenState(c.states[t], token)
                                              ELSE c.states[t]]

\* All active targets are at a snapshot.
LEMMA AllToldFields ==
    ASSUME NEW c \in WideClients, NEW token \in 0..MaxVersion
    PROVE  /\ AllTold(c, token) \in [Targets -> WideTargetStates]
           /\ \A t \in Targets : AllTold(c, token)[t] =
                 IF IsActiveTarget(c, t) THEN TokenState(c.states[t], token) ELSE c.states[t]
<1>1. \A t \in Targets : c.states[t] \in WideTargetStates
  BY ClientFields
<1>2. \A t \in Targets : TokenState(c.states[t], token) \in WideTargetStates
  BY <1>1, TokenFields
<1> QED BY <1>1, <1>2 DEF AllTold

\* A global snapshot is at first a token for all active targets.
LEMMA HandleNoChangeEffect ==
    ASSUME NEW c \in WideClients, NEW token \in 0..MaxVersion,
           NEW d, d = HandleNoChange(c, token)
    PROVE  Aggregates(c, d) /\ d.updates = c.updates /\ d.states = AllTold(c, token)
<1> DEFINE ss == AllTold(c, token)
<1>1. ss \in [Targets -> WideTargetStates] /\ c.updates \in SUBSET MaybeDocuments
  BY AllToldFields, ClientFields
<1>2. d = AggregatorSet(c, ss, c.updates)
  BY DEF HandleNoChange, AllTold, AggregatorSet, TokenState, WideClients
<1> HIDE DEF ss
<1>3. Aggregates(c, d) /\ d.states = ss /\ d.updates = c.updates
  BY <1>1, <1>2, StatesUpdated
<1> QED BY <1>3 DEF ss

\* A token for all active targets keeps the client sound.
LEMMA HandleNoChangeSound ==
    ASSUME NEW c, NEW q, NEW s, Sound(c, q, s), c.open, NEW token \in 0..MaxVersion,
           NEW d, d = HandleNoChange(c, token)
    PROVE  Sound(d, q, s)
<1>1. c \in WideClients
  BY DEF Sound
<1>2. Aggregates(c, d) /\ d.states = AllTold(c, token)
  BY <1>1, HandleNoChangeEffect
<1>3. ASSUME NEW t \in Targets
      PROVE  /\ d.states[t].pending = c.states[t].pending
             /\ t \notin c.listens => d.states[t] = c.states[t]
             /\ d.states[t].change = c.states[t].change
             /\ c.states[t].dirty => d.states[t].dirty
  <2>1. c.states[t] \in WideTargetStates
    BY <1>1, ClientFields
  <2>2. d.states[t] = IF IsActiveTarget(c, t) THEN TokenState(c.states[t], token)
                                              ELSE c.states[t]
    BY <1>1, <1>2, AllToldFields
  <2>3. c.states[t].dirty \in BOOLEAN
    BY <2>1, StateFields
  <2>4. /\ TokenState(c.states[t], token).pending = c.states[t].pending
        /\ TokenState(c.states[t], token).change = c.states[t].change
        /\ c.states[t].dirty => TokenState(c.states[t], token).dirty
    BY <2>1, <2>3, TokenFields, ZenonT(60)
  <2> QED BY <2>2, <2>4 DEF IsActiveTarget
<1>4. \A u \in Targets : ChangeFits(d, u)
  <2>1. ASSUME NEW u \in Targets PROVE ChangeFits(d, u)
    <3>1. TargetContainsDocument(d, u) <=> TargetContainsDocument(c, u)
      BY <1>2 DEF TargetContainsDocument, Aggregates, SameApp, SameLimbo
    <3>2. ChangeFits(c, u)
      BY DEF Sound, Coherent
    <3> QED BY <1>2, <1>3, <3>1, <3>2 DEF ChangeFits, Aggregates
  <2> QED BY <2>1
<1> QED BY <1>2, <1>3, <1>4, AggregateSound

-----------------------------------------------------------------------------
(* From a remote event to the view *)

\* The view's document, and the view, after the documents and the change of an event.
DocumentOf(documents, version) ==
    IF documents = {} THEN version
    ELSE IF \E m \in documents : m.exists
      THEN (CHOOSE m \in documents : m.exists).version
      ELSE 0
SyncedOf(change, synced) ==
    IF \E s \in change : s.change = "Added" THEN TRUE
    ELSE IF \E s \in change : s.change = "Removed" THEN FALSE
    ELSE synced
CurrentOf(change, current) == IF change = {} THEN current ELSE \E s \in change : s.current
ViewAfter(v, documents, change) ==
    [v EXCEPT !.document = DocumentOf(documents, v.document),
              !.synced = SyncedOf(change, v.synced),
              !.current = CurrentOf(change, v.current)]

\* The view's documents after an event.
LEMMA ViewAfterFields ==
    ASSUME NEW v \in Views, NEW documents \in SUBSET MaybeDocuments, NEW change
    PROVE  /\ ViewAfter(v, documents, change) \in Views
           /\ ViewAfter(v, documents, change).on = v.on
           /\ ViewAfter(v, documents, change).document = DocumentOf(documents, v.document)
           /\ ViewAfter(v, documents, change).synced = SyncedOf(change, v.synced)
           /\ ViewAfter(v, documents, change).current = CurrentOf(change, v.current)
           /\ ViewAfter(v, documents, change).limbo = v.limbo
           /\ ViewAfter(v, documents, change).sync = v.sync
<1>1. /\ v.document \in 0..MaxVersion /\ v.synced \in BOOLEAN /\ v.current \in BOOLEAN
  BY ViewFields
<1>2. DocumentOf(documents, v.document) \in 0..MaxVersion
  <2>1. CASE \E m \in documents : m.exists
    <3>1. (CHOOSE m \in documents : m.exists) \in documents
      BY <2>1
    <3> QED BY <1>1, <2>1, <3>1, DocumentFields DEF DocumentOf
  <2>2. CASE ~\E m \in documents : m.exists
    BY <1>1, <2>2, WatchAssumption DEF DocumentOf
  <2> QED BY <2>1, <2>2
<1>3. SyncedOf(change, v.synced) \in BOOLEAN
  BY <1>1 DEF SyncedOf
<1>4. CurrentOf(change, v.current) \in BOOLEAN
  BY <1>1 DEF CurrentOf
<1> QED BY <1>2, <1>3, <1>4 DEF ViewAfter, Views

\* The view is replaced.
LEMMA ViewSetEffect ==
    ASSUME NEW c \in WideClients, NEW v \in Views, NEW d, d = ViewSet(c, v)
    PROVE  /\ d \in WideClients /\ d.view = v
           /\ SameStream(c, d) /\ SameStore(c, d) /\ SameLimbo(c, d) /\ SameShown(c, d)
           /\ d.online = c.online /\ d.asserted = c.asserted
BY DEF ViewSet, WideClients, SameStream, SameStore, SameLimbo, SameShown

\* The view with what the event brings, applied, and its limbo document tracked.
ViewMoved(c, documents, change) ==
    ApplyChanges(ViewSet(c, ViewAfter(c.view, documents, change)),
                 DocumentOf(documents, c.view.document) # c.view.document)

\* An event moves the view, and then the limbo document is seen to.
LEMMA EmitEffect ==
    ASSUME NEW c \in WideClients, NEW documents \in SUBSET MaybeDocuments, NEW change,
           \A s \in change : s.change = "Modified" => c.view.synced,
           NEW d, d = EmitNewSnapshots(c, documents, change)
    PROVE  /\ ~c.view.on => d = c
           /\ c.view.on => d = UpdateTrackedLimboDocuments(ViewMoved(c, documents, change),
                                                           c.view.limbo)
<1> DEFINE dv == DocumentOf(documents, c.view.document)
           sv == SyncedOf(change, c.view.synced)
           cv == CurrentOf(change, c.view.current)
           e == [c EXCEPT !.view.document = dv, !.view.synced = sv, !.view.current = cv]
<1>1. e = ViewSet(c, ViewAfter(c.view, documents, change))
  <2> HIDE DEF dv, sv, cv
  <2>1. e = [c EXCEPT !.view = [c.view EXCEPT !.document = dv, !.synced = sv, !.current = cv]]
    BY DEF WideClients, Views
  <2> QED BY <2>1 DEF ViewSet, ViewAfter, dv, sv, cv
<1>2. /\ ~c.view.on => d = c
      /\ c.view.on =>
            d = Asserting(\A s \in change : s.change = "Modified" => c.view.synced,
                          UpdateTrackedLimboDocuments(
                             ApplyChanges(e, dv # c.view.document), c.view.limbo))
  BY DEF EmitNewSnapshots, DocumentOf, SyncedOf, CurrentOf
<1>3. c.view.on => d = UpdateTrackedLimboDocuments(
                          ApplyChanges(e, dv # c.view.document), c.view.limbo)
  <2> HIDE DEF e, dv
  <2> QED BY <1>2 DEF Asserting
<1> QED BY <1>1, <1>2, <1>3 DEF ViewMoved

\* An event moves the view and calls listeners.
LEMMA ViewMovedEffect ==
    ASSUME NEW c \in WideClients, NEW documents \in SUBSET MaybeDocuments, NEW change,
           NEW d, d = ViewMoved(c, documents, change)
    PROVE  /\ d \in WideClients
           /\ SameStream(c, d) /\ SameStore(c, d) /\ SameLimbo(c, d)
           /\ d.view = Settled(ViewAfter(c.view, documents, change))
           /\ d.online = c.online /\ d.asserted = c.asserted
<1> DEFINE w == ViewAfter(c.view, documents, change)
           e == ViewSet(c, w)
           b == DocumentOf(documents, c.view.document) # c.view.document
<1>1. w \in Views
  BY ClientFields, ViewAfterFields
<1>2. d = ApplyChanges(e, b)
  BY DEF ViewMoved
<1> HIDE DEF w, b
<1>3. /\ e \in WideClients /\ e.view = w
      /\ SameStream(c, e) /\ SameStore(c, e) /\ SameLimbo(c, e)
      /\ e.online = c.online /\ e.asserted = c.asserted
  BY <1>1, ViewSetEffect
<1> HIDE DEF e
<1>4. /\ d \in WideClients
      /\ SameStream(e, d) /\ SameStore(e, d) /\ SameLimbo(e, d)
      /\ d.view = Settled(e.view) /\ d.online = e.online /\ d.asserted = e.asserted
  BY <1>2, <1>3, ApplyChangesEffect
<1> QED BY <1>3, <1>4 DEF SameStream, SameStore, SameLimbo, w

\* Nothing is pending for the targets that are listened to.
Calm(c) ==
    \A t \in Targets : t \in c.listens /\ c.states[t].pending = 0 =>
                           c.states[t].change = "none"

\* An event that fits the view keeps the client sound.
LEMMA EmitSound ==
    ASSUME NEW c, NEW q, NEW s, Sound(c, q, s), NEW documents \in SUBSET MaybeDocuments,
           NEW change, change = {} \/ Calm(c),
           \A x \in change : x.change = "Modified" => c.view.synced,
           NEW d, d = EmitNewSnapshots(c, documents, change)
    PROVE  Sound(d, q, s)
<1>1. c \in WideClients /\ c.view \in Views
  BY ClientFields DEF Sound
<1>2. CASE ~c.view.on
  <2>1. d = c
    BY <1>1, <1>2, EmitEffect
  <2> QED BY <2>1
<1>3. CASE c.view.on
  <2> DEFINE e == ViewMoved(c, documents, change)
             w == ViewAfter(c.view, documents, change)
             before == c.view.limbo
  <2>1. d = UpdateTrackedLimboDocuments(e, before)
    BY <1>1, <1>3, EmitEffect
  <2>2. /\ e \in WideClients
        /\ SameStream(c, e) /\ SameLimbo(c, e)
        /\ e.view = Settled(w) /\ e.asserted = c.asserted
    BY <1>1, ViewMovedEffect
  <2>3. /\ w \in Views /\ w.on = c.view.on /\ w.synced = SyncedOf(change, c.view.synced)
    BY <1>1, ViewAfterFields
  <2> HIDE DEF e, w, before
  <2>4. e.view.on = c.view.on /\ e.view.synced = SyncedOf(change, c.view.synced)
    BY <2>2, <2>3, SettledFields
  <2>5. Sound(e, q, s)
    <3>1. CASE change = {}
      <4>1. e.view.synced = c.view.synced
        BY <2>4, <3>1 DEF SyncedOf
      <4> QED BY <2>2, <2>4, <4>1, SoundKept
    <3>2. CASE Calm(c)
      <4>1. c.resolutions \in Nat /\ c.resolutions >= c.resolutions
        BY <1>1, ClientFields
      <4>2. Protocol(e, q, s)
        BY <2>2, <4>1, ProtocolKept DEF Sound, SameStream, SameLimbo
      <4>3. \A t \in Targets : ChangeFits(e, t)
        BY <2>2, <3>2 DEF Calm, ChangeFits, SameStream
      <4>4. Coherent(e)
        BY <2>2, <2>4, <4>3 DEF Sound, Coherent, SameStream, SameLimbo
      <4> QED BY <2>2, <4>2, <4>4 DEF Sound
    <3> QED BY <3>1, <3>2
  <2>6. d = TrackLimbo(e) \/ d = RemoveLimboTarget(e) \/ d = e
    BY <2>1 DEF UpdateTrackedLimboDocuments
  <2> QED BY <2>5, <2>6, TrackLimboSound, RemoveLimboTargetSound
<1> QED BY <1>2, <1>3

-----------------------------------------------------------------------------
(* A snapshot is raised *)

\* A target whose change goes into the event, and the change.
Dirty(c, t) == IsActiveTarget(c, t) /\ c.states[t].dirty
ChangeOf(c, t) == IF Dirty(c, t) THEN {c.states[t]} ELSE {}

ClearedState(x) == [x EXCEPT !.dirty = FALSE, !.change = "none"]
ClearedStates(c) ==
    [t \in Targets |-> IF Dirty(c, t) THEN ClearedState(c.states[t]) ELSE c.states[t]]
ClearedTokens(c) ==
    [t \in Targets |-> IF Dirty(c, t) /\ c.states[t].token # 0
                         THEN c.states[t].token ELSE c.tokens[t]]
Cleared(c) ==
    [c EXCEPT !.states = ClearedStates(c), !.tokens = ClearedTokens(c), !.updates = {}]

\* What the local store makes of the event.
KeysOf(change, keys) ==
    IF \E s \in change : s.change = "Added" THEN TRUE
    ELSE IF \E s \in change : s.change = "Removed" THEN FALSE
    ELSE keys
TokenOf(change, token) ==
    IF \E s \in change : s.token # 0 THEN (CHOOSE s \in change : TRUE).token ELSE token
DiskTokenOf(change, token, diskToken, old) ==
    IF \E s \in change : s.token # 0 /\ (token = 0 \/ s.change # "none" \/ old)
      THEN (CHOOSE s \in change : TRUE).token ELSE diskToken
NewsOf(document, updates) ==
    {m \in updates : m = NoneVersion \/ m.version > document.version}
StoredOf(news, document) == IF news = {} THEN document ELSE CHOOSE m \in news : TRUE

\* Only the store is touched.
Stores(c, d) ==
    /\ d \in WideClients
    /\ SameStream(c, d) /\ SameLimbo(c, d) /\ SameShown(c, d)
    /\ d.view = c.view /\ d.online = c.online /\ d.asserted = c.asserted

StoreSet(c, k, token) == [c EXCEPT !.disk = k, !.token = token]

\* The store is replaced.
LEMMA StoreSetEffect ==
    ASSUME NEW c \in WideClients, NEW k \in Disks, NEW token \in 0..MaxVersion,
           NEW d, d = StoreSet(c, k, token)
    PROVE  Stores(c, d) /\ d.disk = k /\ d.token = token
BY DEF StoreSet, Stores, WideClients, SameStream, SameLimbo, SameShown

\* What is pending is taken into an event.
LEMMA ClearedEffect ==
    ASSUME NEW c \in WideClients, NEW d, d = Cleared(c)
    PROVE  /\ d \in WideClients
           /\ SameApp(c, d) /\ SameLimbo(c, d) /\ d.asserted = c.asserted
           /\ d.open = c.open /\ d.requests = c.requests /\ d.listens = c.listens
           /\ d.states = ClearedStates(c) /\ d.tokens = ClearedTokens(c) /\ d.updates = {}
<1> DEFINE ss == ClearedStates(c)
           tk == ClearedTokens(c)
<1>1. ss \in [Targets -> WideTargetStates] /\ tk \in [Targets -> 0..MaxVersion]
  <2>1. ASSUME NEW t \in Targets
        PROVE  /\ c.states[t] \in WideTargetStates /\ c.tokens[t] \in 0..MaxVersion
               /\ c.states[t].token \in 0..MaxVersion
               /\ ClearedState(c.states[t]) \in WideTargetStates
    <3>1. c.states[t] \in WideTargetStates /\ c.tokens[t] \in 0..MaxVersion
      BY ClientFields
    <3>2. c.states[t].token \in 0..MaxVersion
      BY <3>1, StateFields
    <3>3. ClearedState(c.states[t]) \in WideTargetStates
      BY <3>1 DEF ClearedState, WideTargetStates
    <3> QED BY <3>1, <3>2, <3>3
  <2> QED BY <2>1 DEF ClearedStates, ClearedTokens
<1>2. d = [c EXCEPT !.states = ss, !.tokens = tk, !.updates = {}]
  BY DEF Cleared
<1> HIDE DEF ss, tk
<1>3. /\ d \in WideClients
      /\ SameApp(c, d) /\ SameLimbo(c, d) /\ d.asserted = c.asserted
      /\ d.open = c.open /\ d.requests = c.requests /\ d.listens = c.listens
      /\ d.states = ss /\ d.tokens = tk /\ d.updates = {}
  BY <1>1, <1>2, ZenonT(60) DEF WideClients, SameApp, SameShown, SameStore, SameLimbo
<1> QED BY <1>1, <1>3 DEF ss, tk

\* The local store takes the main target's change.
LEMMA ApplyTargetChangeEffect ==
    ASSUME NEW c \in WideClients, NEW x \in WideTargetStates, NEW change,
           change = {} \/ change = {x}, NEW old \in BOOLEAN,
           NEW d, d = ApplyTargetChange(c, change, old)
    PROVE  /\ Stores(c, d)
           /\ d.disk.document = c.disk.document /\ d.disk.version = c.disk.version
           /\ d.disk.keys = KeysOf(change, c.disk.keys)
           /\ d.token = TokenOf(change, c.token)
           /\ d.disk.token = DiskTokenOf(change, c.token, c.disk.token, old)
<1>1. c.disk \in Disks /\ c.token \in 0..MaxVersion
  BY ClientFields
<1>2. CASE change = {}
  <2>1. d = c
    BY <1>2 DEF ApplyTargetChange
  <2> QED BY <1>2, <2>1
          DEF Stores, SameStream, SameLimbo, SameShown, KeysOf, TokenOf, DiskTokenOf
<1>3. CASE change = {x}
  <2> DEFINE kk == KeysOf(change, c.disk.keys)
             tk == TokenOf(change, c.token)
             dt == DiskTokenOf(change, c.token, c.disk.token, old)
             k == [c.disk EXCEPT !.keys = kk, !.token = dt]
  <2>1. (CHOOSE s \in change : TRUE) = x
    BY <1>3
  <2>2. x.token \in 0..MaxVersion
    BY StateFields
  <2>3. /\ kk = (CASE x.change = "Added" -> TRUE
                   [] x.change = "Removed" -> FALSE
                   [] OTHER -> c.disk.keys)
        /\ tk = (IF x.token = 0 THEN c.token ELSE x.token)
        /\ dt = (IF x.token # 0 /\ (c.token = 0 \/ x.change # "none" \/ old)
                   THEN x.token ELSE c.disk.token)
    <3>1. /\ (\E s \in change : s.change = "Added") <=> x.change = "Added"
          /\ (\E s \in change : s.change = "Removed") <=> x.change = "Removed"
          /\ (\E s \in change : s.token # 0) <=> x.token # 0
          /\ (\E s \in change : s.token # 0 /\ (c.token = 0 \/ s.change # "none" \/ old))
               <=> (x.token # 0 /\ (c.token = 0 \/ x.change # "none" \/ old))
      BY <1>3
    <3>2. kk = (CASE x.change = "Added" -> TRUE
                  [] x.change = "Removed" -> FALSE
                  [] OTHER -> c.disk.keys)
      BY <3>1 DEF KeysOf
    <3>3. tk = (IF x.token = 0 THEN c.token ELSE x.token)
      BY <2>1, <3>1 DEF TokenOf
    <3>4. dt = (IF x.token # 0 /\ (c.token = 0 \/ x.change # "none" \/ old)
                  THEN x.token ELSE c.disk.token)
      BY <2>1, <3>1 DEF DiskTokenOf
    <3> QED BY <3>2, <3>3, <3>4
  <2>4. kk \in BOOLEAN /\ tk \in 0..MaxVersion /\ dt \in 0..MaxVersion
    BY <1>1, <2>2, <2>3, DiskFields
  <2>5. d = [c EXCEPT !.disk.keys = kk, !.token = tk, !.disk.token = dt]
    BY <1>3, <2>1, <2>3 DEF ApplyTargetChange
  <2> HIDE DEF kk, tk, dt
  <2>6. /\ k \in Disks /\ k.keys = kk /\ k.token = dt
        /\ k.document = c.disk.document /\ k.version = c.disk.version
    BY <1>1, <2>4 DEF Disks
  <2>7. d = StoreSet(c, k, tk)
    BY <2>5 DEF StoreSet, WideClients, Disks
  <2> HIDE DEF k
  <2>8. Stores(c, d) /\ d.disk = k /\ d.token = tk
    BY <2>4, <2>6, <2>7, StoreSetEffect
  <2> QED BY <2>6, <2>8 DEF kk, tk, dt
<1> QED BY <1>2, <1>3

\* The local store takes the documents that are news.
LEMMA ApplyUpdatesEffect ==
    ASSUME NEW c \in WideClients, NEW updates \in SUBSET MaybeDocuments,
           NEW d, d = ApplyUpdates(c, updates)[1]
    PROVE  /\ ApplyUpdates(c, updates)[2] = NewsOf(c.disk.document, updates)
           /\ Stores(c, d) /\ d.token = c.token
           /\ d.disk.document = StoredOf(NewsOf(c.disk.document, updates), c.disk.document)
           /\ d.disk.keys = c.disk.keys /\ d.disk.token = c.disk.token
           /\ d.disk.version = c.disk.version
<1> DEFINE news == NewsOf(c.disk.document, updates)
           m == StoredOf(news, c.disk.document)
           k == [c.disk EXCEPT !.document = m]
<1>1. c.disk \in Disks /\ c.token \in 0..MaxVersion
  BY ClientFields
<1>2. m \in MaybeDocuments
  <2>1. news \subseteq MaybeDocuments
    BY DEF NewsOf
  <2> HIDE DEF news
  <2>2. news # {} => (CHOOSE n \in news : TRUE) \in news
    OBVIOUS
  <2> QED BY <1>1, <2>1, <2>2, DiskFields DEF StoredOf
<1>3. ApplyUpdates(c, updates) = <<[c EXCEPT !.disk.document = m], news>>
  BY DEF ApplyUpdates, NewsOf, StoredOf
<1> HIDE DEF m, news
<1>4. d = [c EXCEPT !.disk.document = m]
  BY <1>3
<1>5. /\ k \in Disks /\ k.document = m /\ k.keys = c.disk.keys
      /\ k.token = c.disk.token /\ k.version = c.disk.version
  BY <1>1, <1>2 DEF Disks
<1>6. d = StoreSet(c, k, c.token)
  BY <1>4 DEF StoreSet, WideClients, Disks
<1> HIDE DEF k
<1>7. Stores(c, d) /\ d.disk = k /\ d.token = c.token
  BY <1>1, <1>5, <1>6, StoreSetEffect
<1> QED BY <1>3, <1>5, <1>7 DEF m, news

ReceivedOf(change, received) ==
    IF \E s \in change : s.change = "Added" THEN TRUE
    ELSE IF \E s \in change : s.change = "Removed" THEN FALSE
    ELSE received

\* The limbo target's change fits what was received.
LEMMA ApplyLimboChangeEffect ==
    ASSUME NEW c \in WideClients, NEW x \in WideTargetStates, NEW change,
           change = {} \/ change = {x},
           \A s \in change : s.change \in {"Modified", "Removed"} => c.received,
           NEW d, d = ApplyLimboChange(c, change)
    PROVE  /\ d \in WideClients
           /\ SameStream(c, d) /\ SameApp(c, d) /\ d.asserted = c.asserted
           /\ d.limbo = c.limbo /\ d.resolutions = c.resolutions
           /\ d.received = ReceivedOf(change, c.received)
<1>1. c.received \in BOOLEAN
  BY ClientFields
<1>2. CASE change = {}
  <2>1. d = c
    BY <1>2 DEF ApplyLimboChange
  <2> QED BY <1>2, <2>1 DEF SameStream, SameApp, SameShown, SameStore, ReceivedOf
<1>3. CASE change = {x}
  <2> DEFINE b == ReceivedOf(change, c.received)
  <2>1. (CHOOSE s \in change : TRUE) = x
    BY <1>3
  <2>2. /\ (\E s \in change : s.change = "Added") <=> x.change = "Added"
        /\ (\E s \in change : s.change = "Removed") <=> x.change = "Removed"
        /\ x.change \in {"Modified", "Removed"} => c.received
    BY <1>3
  <2>3. b = (CASE x.change = "Added" -> TRUE
               [] x.change = "Removed" -> FALSE
               [] OTHER -> c.received)
    BY <2>2 DEF ReceivedOf
  <2>4. b \in BOOLEAN
    BY <1>1 DEF ReceivedOf
  <2>5. d = [c EXCEPT !.received = b]
    BY <1>3, <2>1, <2>2, <2>3 DEF ApplyLimboChange, Asserting
  <2> HIDE DEF b
  <2>6. /\ d \in WideClients
        /\ SameStream(c, d) /\ SameApp(c, d) /\ d.asserted = c.asserted
        /\ d.limbo = c.limbo /\ d.resolutions = c.resolutions
        /\ d.received = b
    BY <2>4, <2>5 DEF WideClients, SameStream, SameApp, SameShown, SameStore
  <2> QED BY <2>6 DEF b
<1> QED BY <1>2, <1>3

\* A document may be deduced to be missing.
LEMMA DeduceMissingEffect ==
    ASSUME NEW c \in WideClients, NEW version \in 1..MaxVersion,
           NEW d, d = DeduceMissing(c, version)
    PROVE  /\ Aggregates(c, d) /\ d.states = c.states
           /\ d.updates = c.updates \/ d.updates = {MaybeDocument(FALSE, version)}
<1>1. CASE d = c
  BY <1>1 DEF Aggregates, SameApp, SameShown, SameStore, SameLimbo
<1>2. CASE d # c
  <2> DEFINE us == {MaybeDocument(FALSE, version)}
  <2>1. d = [c EXCEPT !.updates = us]
    BY <1>2 DEF DeduceMissing
  <2>2. us \in SUBSET MaybeDocuments
    BY WatchAssumption DEF MaybeDocument, MaybeDocuments
  <2>3. d = AggregatorSet(c, c.states, us)
    <3> HIDE DEF us
    <3> QED BY <2>1 DEF AggregatorSet, WideClients
  <2>4. c.states \in [Targets -> WideTargetStates]
    BY ClientFields
  <2> HIDE DEF us
  <2>5. Aggregates(c, d) /\ d.states = c.states /\ d.updates = us
    BY <2>2, <2>3, <2>4, StatesUpdated
  <2> QED BY <2>5 DEF us
<1> QED BY <1>1, <1>2

\* The client with the event d applied: the limbo target, the store, the view.
EventTaken(c, d) ==
    IF c.limbo = 0 THEN Cleared(d) ELSE ApplyLimboChange(Cleared(d), ChangeOf(d, c.limbo))
EventKept(c, d, old) == ApplyTargetChange(EventTaken(c, d), ChangeOf(d, Main), old)
EventStored(c, d, old) == ApplyUpdates(EventKept(c, d, old), d.updates)[1]
EventApplied(c, d, version, old) ==
    [EventStored(c, d, old) EXCEPT !.disk.version = version]
EventNews(c, d, old) == ApplyUpdates(EventKept(c, d, old), d.updates)[2]

\* RaiseWatchSnapshot in terms of its parts.
LEMMA RaiseWatchSnapshotIs ==
    ASSUME NEW c \in WideClients, NEW version \in 1..MaxVersion, version >= c.disk.version,
           NEW old, NEW d, d = DeduceMissing(c, version)
    PROVE  RaiseWatchSnapshot(c, version, old) =
               EmitNewSnapshots(EventApplied(c, d, version, old), EventNews(c, d, old),
                                ChangeOf(d, Main))
<1> DEFINE changed == {t \in Targets : IsActiveTarget(d, t) /\ d.states[t].dirty}
           Change(t) == IF t \in changed THEN {d.states[t]} ELSE {}
           cleared == [d EXCEPT !.states = [t \in Targets |->
                                    IF t \in changed
                                      THEN [@[t] EXCEPT !.dirty = FALSE, !.change = "none"]
                                      ELSE @[t]],
                                !.tokens = [t \in Targets |->
                                    IF t \in changed /\ d.states[t].token # 0
                                      THEN d.states[t].token ELSE @[t]],
                                !.updates = {}]
           limbo == IF c.limbo = 0 THEN cleared ELSE ApplyLimboChange(cleared, Change(c.limbo))
           applied == ApplyUpdates(ApplyTargetChange(limbo, Change(Main), old), d.updates)
<1>1. RaiseWatchSnapshot(c, version, old) =
          Asserting(version >= c.disk.version,
                    EmitNewSnapshots([applied[1] EXCEPT !.disk.version = version],
                                     applied[2], Change(Main)))
  BY DEF RaiseWatchSnapshot
<1>2. \A t \in Targets : Change(t) = ChangeOf(d, t)
  BY DEF ChangeOf, Dirty
<1>3. Main \in Targets /\ c.limbo \in Targets
  BY ClientFields, TargetFacts DEF Targets
<1>4. d \in WideClients
  BY DeduceMissingEffect DEF Aggregates
<1>5. cleared = Cleared(d)
  <2>1. [t \in Targets |-> IF t \in changed
                             THEN [d.states[t] EXCEPT !.dirty = FALSE, !.change = "none"]
                             ELSE d.states[t]] = ClearedStates(d)
    BY DEF ClearedStates, ClearedState, Dirty
  <2>2. [t \in Targets |-> IF t \in changed /\ d.states[t].token # 0
                             THEN d.states[t].token ELSE d.tokens[t]] = ClearedTokens(d)
    BY DEF ClearedTokens, Dirty
  <2> HIDE DEF changed
  <2> QED BY <2>1, <2>2 DEF Cleared
<1> HIDE DEF cleared, Change
<1>6. limbo = EventTaken(c, d)
  BY <1>2, <1>3, <1>5 DEF EventTaken
<1> HIDE DEF limbo
<1>7. applied[1] = EventStored(c, d, old) /\ applied[2] = EventNews(c, d, old)
  BY <1>2, <1>3, <1>6 DEF EventStored, EventNews, EventKept
<1> HIDE DEF applied
<1> QED BY <1>1, <1>2, <1>3, <1>7 DEF Asserting, EventApplied

\* With nothing pending, what the limbo resolution has received may change.
LEMMA CalmKept ==
    ASSUME NEW c, NEW d, NEW q, NEW s, Sound(c, q, s), Calm(c), d \in WideClients,
           SameStream(c, d), d.limbo = c.limbo, d.resolutions = c.resolutions,
           d.asserted = c.asserted, d.view.on = c.view.on
    PROVE  Sound(d, q, s) /\ Calm(d)
<1>1. c.resolutions \in Nat /\ c.resolutions >= c.resolutions
  BY ClientFields DEF Sound
<1>2. Protocol(d, q, s)
  BY <1>1, ProtocolKept DEF Sound, SameStream
<1>3. Calm(d)
  BY DEF Calm, SameStream
<1>4. \A t \in Targets : ChangeFits(d, t)
  BY <1>3 DEF Calm, ChangeFits
<1>5. Coherent(d)
  BY <1>4 DEF Sound, Coherent, SameStream
<1> QED BY <1>2, <1>3, <1>5 DEF Sound

\* Taking what is pending keeps the client sound, and leaves it calm.
LEMMA ClearedSound ==
    ASSUME NEW c, NEW q, NEW s, Sound(c, q, s), c.open, NEW d, d = Cleared(c)
    PROVE  Sound(d, q, s) /\ Calm(d) /\ d.open
<1>1. c \in WideClients
  BY DEF Sound
<1>2. /\ d \in WideClients
      /\ SameApp(c, d) /\ SameLimbo(c, d) /\ d.asserted = c.asserted
      /\ d.open = c.open /\ d.requests = c.requests /\ d.listens = c.listens
      /\ d.states = ClearedStates(c)
  BY <1>1, ClearedEffect
<1>3. ASSUME NEW t \in Targets
      PROVE  /\ d.states[t].pending = c.states[t].pending
             /\ t \notin c.listens => d.states[t] = c.states[t]
             /\ t \in d.listens /\ d.states[t].pending = 0 => d.states[t].change = "none"
  <2>1. c.states[t] \in WideTargetStates
    BY <1>1, ClientFields
  <2>2. /\ ClearedState(c.states[t]).pending = c.states[t].pending
        /\ ClearedState(c.states[t]).change = "none"
    BY <2>1 DEF ClearedState, WideTargetStates
  <2>3. ChangeFits(c, t)
    BY DEF Sound, Coherent
  <2>4. d.states[t] = IF Dirty(c, t) THEN ClearedState(c.states[t]) ELSE c.states[t]
    BY <1>2 DEF ClearedStates
  <2> QED BY <1>2, <2>2, <2>3, <2>4 DEF Dirty, IsActiveTarget, ChangeFits
<1>4. Calm(d)
  BY <1>3 DEF Calm
<1>5. \A t \in Targets : ChangeFits(d, t)
  BY <1>4 DEF Calm, ChangeFits
<1>6. c.resolutions \in Nat /\ c.resolutions >= c.resolutions /\ d.resolutions = c.resolutions
  BY <1>1, <1>2, ClientFields DEF SameLimbo
<1>7. Protocol(d, q, s)
  <2>1. \A t \in Targets : ~c.open \/ Unused(c, t) => d.states[t] = c.states[t]
    BY <1>3 DEF Unused
  <2> QED BY <1>2, <1>3, <1>6, <2>1, ProtocolKept, ZenonT(60) DEF Sound
<1>8. Coherent(d)
  BY <1>2, <1>5 DEF Sound, Coherent, SameApp, SameLimbo
<1> QED BY <1>2, <1>4, <1>7, <1>8 DEF Sound

EventReceived(d) ==
    IF d.limbo = 0 THEN d.received ELSE ReceivedOf(ChangeOf(d, d.limbo), d.received)

\* What one raised snapshot does, up to the view.
LEMMA EventEffect ==
    ASSUME NEW c \in WideClients, NEW d, Aggregates(c, d), Coherent(d),
           NEW version \in 1..MaxVersion, NEW old \in BOOLEAN,
           NEW e, e = EventApplied(c, d, version, old)
    PROVE  /\ e \in WideClients
           /\ SameShown(d, e) /\ e.view = d.view /\ e.online = d.online
           /\ e.asserted = d.asserted
           /\ e.limbo = d.limbo /\ e.resolutions = d.resolutions
           /\ SameStream(Cleared(d), e)
           /\ e.received = EventReceived(d)
           /\ EventNews(c, d, old) = NewsOf(d.disk.document, d.updates)
           /\ e.disk.document =
                 StoredOf(NewsOf(d.disk.document, d.updates), d.disk.document)
           /\ e.disk.keys = KeysOf(ChangeOf(d, Main), d.disk.keys)
           /\ e.token = TokenOf(ChangeOf(d, Main), d.token)
           /\ e.disk.token = DiskTokenOf(ChangeOf(d, Main), d.token, d.disk.token, old)
           /\ e.disk.version = version
<1> DEFINE c1 == Cleared(d)
           c2 == EventTaken(c, d)
           c3 == EventKept(c, d, old)
           c4 == EventStored(c, d, old)
           cm == ChangeOf(d, Main)
           cl == ChangeOf(d, d.limbo)
           us == d.updates
<1>1. d \in WideClients /\ c.limbo = d.limbo /\ d.limbo \in Targets /\ Main \in Targets
      /\ us \in SUBSET MaybeDocuments
  BY ClientFields, TargetFacts DEF Aggregates, SameLimbo, Targets
<1>2. /\ c1 \in WideClients
      /\ SameApp(d, c1) /\ SameLimbo(d, c1) /\ c1.asserted = d.asserted
  BY <1>1, ClearedEffect
<1> DEFINE xm == d.states[Main]
           xl == d.states[d.limbo]
<1>3. /\ xm \in WideTargetStates /\ xl \in WideTargetStates
      /\ cm = {} \/ cm = {xm}
      /\ cl = {} \/ cl = {xl}
  BY <1>1, ClientFields DEF ChangeOf
<1>4. /\ c2 \in WideClients
      /\ SameStream(c1, c2) /\ SameApp(c1, c2) /\ c2.asserted = c1.asserted
      /\ c2.limbo = c1.limbo /\ c2.resolutions = c1.resolutions
      /\ c2.received = IF d.limbo = 0 THEN d.received ELSE ReceivedOf(cl, d.received)
  <2>1. CASE d.limbo = 0
    <3>1. c2 = c1
      BY <1>1, <2>1 DEF EventTaken
    <3> QED BY <1>2, <2>1, <3>1 DEF SameStream, SameApp, SameShown, SameStore, SameLimbo
  <2>2. CASE d.limbo # 0
    <3>1. c2 = ApplyLimboChange(c1, cl)
      BY <1>1, <2>2 DEF EventTaken
    <3>2. \A x \in cl : x.change \in {"Modified", "Removed"} => c1.received
      <4>1. ChangeFits(d, d.limbo)
        BY <1>1 DEF Coherent
      <4>2. TargetContainsDocument(d, d.limbo) <=> d.received
        BY <2>2 DEF TargetContainsDocument, Main
      <4>3. c1.received = d.received
        BY <1>2 DEF SameLimbo
      <4> HIDE DEF c1
      <4> QED BY <4>1, <4>2, <4>3 DEF ChangeOf, Dirty, IsActiveTarget, ChangeFits
    <3> HIDE DEF c1, c2, cl, xl
    <3>3. /\ c2 \in WideClients
          /\ SameStream(c1, c2) /\ SameApp(c1, c2) /\ c2.asserted = c1.asserted
          /\ c2.limbo = c1.limbo /\ c2.resolutions = c1.resolutions
          /\ c2.received = ReceivedOf(cl, c1.received)
      BY <1>2, <1>3, <3>1, <3>2, ApplyLimboChangeEffect
    <3> QED BY <1>2, <2>2, <3>3 DEF SameLimbo
  <2> QED BY <2>1, <2>2
<1>5. /\ Stores(c2, c3)
      /\ c3.disk.document = c2.disk.document /\ c3.disk.version = c2.disk.version
      /\ c3.disk.keys = KeysOf(cm, c2.disk.keys)
      /\ c3.token = TokenOf(cm, c2.token)
      /\ c3.disk.token = DiskTokenOf(cm, c2.token, c2.disk.token, old)
  <2>1. c3 = ApplyTargetChange(c2, cm, old)
    BY DEF EventKept
  <2> HIDE DEF c2, c3, cm, xm
  <2> QED BY <1>3, <1>4, <2>1, ApplyTargetChangeEffect
<1>6. /\ EventNews(c, d, old) = NewsOf(c3.disk.document, us)
      /\ Stores(c3, c4) /\ c4.token = c3.token
      /\ c4.disk.document = StoredOf(NewsOf(c3.disk.document, us), c3.disk.document)
      /\ c4.disk.keys = c3.disk.keys /\ c4.disk.token = c3.disk.token
      /\ c4.disk.version = c3.disk.version
  <2>1. c4 = ApplyUpdates(c3, us)[1] /\ EventNews(c, d, old) = ApplyUpdates(c3, us)[2]
    BY DEF EventStored, EventNews
  <2>2. c3 \in WideClients
    BY <1>5 DEF Stores
  <2> HIDE DEF c3, c4, us
  <2> QED BY <1>1, <2>1, <2>2, ApplyUpdatesEffect
<1>7. /\ Stores(c4, e)
      /\ e.disk.document = c4.disk.document /\ e.disk.version = version
      /\ e.disk.keys = c4.disk.keys /\ e.disk.token = c4.disk.token /\ e.token = c4.token
  <2> DEFINE k == [c4.disk EXCEPT !.version = version]
  <2>1. e = [c4 EXCEPT !.disk.version = version]
    BY DEF EventApplied
  <2>2. c4 \in WideClients
    BY <1>6 DEF Stores
  <2> HIDE DEF c4
  <2>3. c4.disk \in Disks /\ c4.token \in 0..MaxVersion
    BY <2>2, ClientFields
  <2>4. /\ k \in Disks /\ k.document = c4.disk.document /\ k.version = version
        /\ k.keys = c4.disk.keys /\ k.token = c4.disk.token
    BY <2>3 DEF Disks
  <2>5. e = StoreSet(c4, k, c4.token)
    BY <2>1, <2>2 DEF StoreSet, WideClients, Disks
  <2> HIDE DEF k
  <2>6. Stores(c4, e) /\ e.disk = k /\ e.token = c4.token
    BY <2>2, <2>3, <2>4, <2>5, StoreSetEffect
  <2> QED BY <2>4, <2>6
<1> HIDE DEF c1, c2, c3, c4, cm, cl, us
<1>8. /\ e \in WideClients
      /\ SameStream(c2, e) /\ SameLimbo(c2, e) /\ SameShown(c2, e)
      /\ e.view = c2.view /\ e.online = c2.online /\ e.asserted = c2.asserted
  BY <1>5, <1>6, <1>7 DEF Stores, SameStream, SameLimbo, SameShown
<1>9. /\ e.disk.document = StoredOf(NewsOf(c2.disk.document, us), c2.disk.document)
      /\ e.disk.keys = KeysOf(cm, c2.disk.keys)
      /\ e.token = TokenOf(cm, c2.token)
      /\ e.disk.token = DiskTokenOf(cm, c2.token, c2.disk.token, old)
      /\ EventNews(c, d, old) = NewsOf(c2.disk.document, us)
  BY <1>5, <1>6, <1>7
<1>10. /\ c2.disk = d.disk /\ c2.token = d.token /\ SameShown(d, c2)
       /\ c2.view = d.view /\ c2.online = d.online /\ c2.asserted = d.asserted
       /\ c2.limbo = d.limbo /\ c2.resolutions = d.resolutions /\ SameStream(c1, c2)
  BY <1>2, <1>4 DEF SameApp, SameShown, SameStore, SameLimbo
<1>11. SameShown(d, e) /\ SameStream(c1, e)
  BY <1>8, <1>10 DEF SameShown, SameStream
<1>12. e.received = EventReceived(d)
  BY <1>4, <1>8 DEF SameLimbo, cl, EventReceived
<1> QED BY <1>7, <1>8, <1>9, <1>10, <1>11, <1>12 DEF SameLimbo, c1, cm, us

\* News are documents.
LEMMA NewsFields ==
    ASSUME NEW document, NEW updates \in SUBSET MaybeDocuments
    PROVE  NewsOf(document, updates) \in SUBSET MaybeDocuments
BY DEF NewsOf

\* Raising a snapshot keeps the client sound: none of its assertions fails.
LEMMA RaiseWatchSnapshotSound ==
    ASSUME NEW c, NEW q, NEW s, Sound(c, q, s), c.open,
           NEW version \in 1..MaxVersion, version >= c.disk.version, NEW old \in BOOLEAN,
           NEW e, e = RaiseWatchSnapshot(c, version, old)
    PROVE  Sound(e, q, s)
<1> DEFINE d == DeduceMissing(c, version)
           c1 == Cleared(d)
           a == EventApplied(c, d, version, old)
           news == EventNews(c, d, old)
           change == ChangeOf(d, Main)
<1>1. c \in WideClients
  BY DEF Sound
<1>2. Aggregates(c, d) /\ d.states = c.states
  BY <1>1, DeduceMissingEffect
<1>3. e = EmitNewSnapshots(a, news, change)
  BY <1>1, RaiseWatchSnapshotIs
<1> HIDE DEF d
<1>4. \A t \in Targets : ChangeFits(d, t)
  <2>1. \A t \in Targets : TargetContainsDocument(d, t) <=> TargetContainsDocument(c, t)
    BY <1>2 DEF TargetContainsDocument, Aggregates, SameApp, SameLimbo
  <2>2. \A t \in Targets : ChangeFits(c, t)
    BY DEF Sound, Coherent
  <2> QED BY <1>2, <2>1, <2>2 DEF ChangeFits, Aggregates
<1>5. Sound(d, q, s) /\ d.open
  <2>1. \A t \in Targets : /\ d.states[t].pending = c.states[t].pending
                           /\ t \notin c.listens => d.states[t] = c.states[t]
                           /\ ChangeFits(d, t)
    BY <1>2, <1>4
  <2> QED BY <1>2, <2>1, AggregateSound DEF Aggregates
<1>6. Sound(c1, q, s) /\ Calm(c1)
  BY <1>5, ClearedSound
<1>7. d \in WideClients /\ Coherent(d)
  BY <1>5 DEF Sound
<1>8. /\ c1.limbo = d.limbo /\ c1.resolutions = d.resolutions /\ c1.asserted = d.asserted
      /\ c1.view = d.view
  BY <1>7, ClearedEffect DEF SameApp, SameLimbo
<1>9. /\ a \in WideClients
      /\ a.view = d.view /\ a.asserted = d.asserted
      /\ a.limbo = d.limbo /\ a.resolutions = d.resolutions
      /\ SameStream(c1, a)
      /\ news = NewsOf(d.disk.document, d.updates)
  <2>1. a = EventApplied(c, d, version, old)
    OBVIOUS
  <2>2. news = EventNews(c, d, old) /\ c1 = Cleared(d)
    OBVIOUS
  <2> HIDE DEF a, c1, news
  <2>3. /\ a \in WideClients /\ SameShown(d, a)
        /\ a.view = d.view /\ a.asserted = d.asserted
        /\ a.limbo = d.limbo /\ a.resolutions = d.resolutions
        /\ SameStream(Cleared(d), a)
        /\ EventNews(c, d, old) = NewsOf(d.disk.document, d.updates)
    BY <1>1, <1>2, <1>7, <2>1, EventEffect
  <2> QED BY <2>2, <2>3
<1> HIDE DEF a, c1, news
<1>10. Sound(a, q, s) /\ Calm(a)
  BY <1>6, <1>8, <1>9, CalmKept
<1>11. news \in SUBSET MaybeDocuments
  BY <1>7, <1>9, ClientFields, NewsFields
<1>12. \A x \in change : x.change = "Modified" => a.view.synced
  <2>1. TargetContainsDocument(d, Main) => d.view.synced
    BY DEF TargetContainsDocument
  <2> QED BY <1>4, <1>9, <2>1, TargetFacts
          DEF ChangeOf, Dirty, IsActiveTarget, ChangeFits
<1> HIDE DEF change
<1> QED BY <1>3, <1>10, <1>11, <1>12, EmitSound

-----------------------------------------------------------------------------
(* Rejected targets *)

\* Without the target t.
Dropped(c, t) == [c EXCEPT !.listens = @ \ {t}, !.states[t] = FreshTarget]

\* The view of the target t is gone, and its listeners are failed.
NoView == [on |-> FALSE, document |-> 0, synced |-> FALSE,
           current |-> FALSE, limbo |-> FALSE, sync |-> "None"]
FailedShown(c) ==
    [l \in Listeners |-> IF c.shown[l].kind = "idle" THEN c.shown[l] ELSE [kind |-> "failed"]]
Failed(c) ==
    [c EXCEPT !.disk.token = c.token, !.token = 0, !.view = NoView, !.shown = FailedShown(c)]

\* Nobody is asked about the limbo document.
Unasked(c) == [c EXCEPT !.limbo = 0, !.received = FALSE]

\* ProcessTargetError in terms of its parts.
LEMMA ProcessTargetErrorIs ==
    ASSUME NEW c, NEW t
    PROVE  ProcessTargetError(c, t) =
               IF t \notin c.listens THEN c
               ELSE IF t = Main THEN RemoveLimboTarget(Failed(Dropped(c, t)))
               ELSE EmitNewSnapshots(ApplyUpdates(Unasked(Dropped(c, t)), {NoneVersion})[1],
                                     ApplyUpdates(Unasked(Dropped(c, t)), {NoneVersion})[2], {})
BY DEF ProcessTargetError, Failed, Dropped, NoView, FailedShown, Unasked

\* A target is dropped.
LEMMA DroppedEffect ==
    ASSUME NEW c \in WideClients, NEW t \in Targets, NEW d, d = Dropped(c, t)
    PROVE  /\ d \in WideClients
           /\ SameApp(c, d) /\ SameLimbo(c, d) /\ d.asserted = c.asserted
           /\ d.open = c.open /\ d.requests = c.requests /\ d.tokens = c.tokens
           /\ d.updates = c.updates
           /\ d.listens = c.listens \ {t}
           /\ d.states = Replaced(c.states, t, FreshTarget)
<1> DEFINE ls == c.listens \ {t}
           ss == Replaced(c.states, t, FreshTarget)
<1>1. ls \in SUBSET Targets
  BY ClientFields
<1>2. ss \in [Targets -> WideTargetStates]
  BY ClientFields, FreshFields, ReplacedFields
<1>3. d = [c EXCEPT !.listens = ls, !.states = ss]
  BY DEF Dropped, Replaced, WideClients
<1> HIDE DEF ls, ss
<1>4. /\ d \in WideClients
      /\ SameApp(c, d) /\ SameLimbo(c, d) /\ d.asserted = c.asserted
      /\ d.open = c.open /\ d.requests = c.requests /\ d.tokens = c.tokens
      /\ d.updates = c.updates /\ d.listens = ls /\ d.states = ss
  BY <1>1, <1>2, <1>3, ZenonT(60) DEF WideClients, SameApp, SameShown, SameStore, SameLimbo
<1> QED BY <1>4 DEF ls, ss

\* The app's listeners are failed.
LEMMA FailedEffect ==
    ASSUME NEW c \in WideClients, NEW d, d = Failed(c)
    PROVE  /\ d \in WideClients
           /\ SameStream(c, d) /\ SameLimbo(c, d) /\ d.asserted = c.asserted
           /\ d.online = c.online /\ d.view = NoView /\ d.token = 0
           /\ d.shown = FailedShown(c) /\ d.newest = c.newest
           /\ d.disk.token = c.token /\ d.disk.keys = c.disk.keys
           /\ d.disk.document = c.disk.document /\ d.disk.version = c.disk.version
<1> DEFINE k == [c.disk EXCEPT !.token = c.token]
           sh == FailedShown(c)
<1>1. NoView \in Views /\ 0 \in 0..MaxVersion
  BY WatchAssumption DEF NoView, Views
<1>2. /\ k \in Disks /\ k.token = c.token /\ k.keys = c.disk.keys
      /\ k.document = c.disk.document /\ k.version = c.disk.version
  BY ClientFields DEF Disks
<1>3. sh \in [Listeners -> Events]
  <2>1. c.shown \in [Listeners -> Events]
    BY ClientFields
  <2>2. [kind |-> "failed"] \in Events
    BY DEF Events
  <2> QED BY <2>1, <2>2 DEF FailedShown
<1>4. d = [c EXCEPT !.disk = k, !.token = 0, !.view = NoView, !.shown = sh]
  BY DEF Failed, WideClients
<1> HIDE DEF k, sh
<1>5. /\ d \in WideClients
      /\ SameStream(c, d) /\ SameLimbo(c, d) /\ d.asserted = c.asserted
      /\ d.online = c.online /\ d.view = NoView /\ d.token = 0
      /\ d.shown = sh /\ d.newest = c.newest /\ d.disk = k
  BY <1>1, <1>2, <1>3, <1>4, ZenonT(60) DEF WideClients, SameStream, SameLimbo
<1> QED BY <1>2, <1>5 DEF sh

\* The limbo document is not asked about any more.
LEMMA UnaskedEffect ==
    ASSUME NEW c \in WideClients, NEW d, d = Unasked(c)
    PROVE  /\ d \in WideClients
           /\ SameStream(c, d) /\ SameApp(c, d) /\ d.asserted = c.asserted
           /\ d.limbo = 0 /\ ~d.received /\ d.resolutions = c.resolutions
<1>1. 0 \in 0..MaxLimbo
  BY WatchAssumption
<1> QED BY <1>1 DEF Unasked, WideClients, SameStream, SameApp, SameShown, SameStore

SameElsewhere(c, d, t) == \A u \in Targets \ {t} : d.states[u] = c.states[u]

\* The target t is rejected, and nothing more is told of it.
LEMMA DroppedSound ==
    ASSUME NEW c, NEW q \in Seq(Messages), NEW s, Sound(c, q, s), q # <<>>,
           NEW m, m = Head(q), NEW t \in c.listens, m.kind = "rejected", m.target = t,
           NEW p, p = Tail(q), NEW d, d = Dropped(c, t)
    PROVE  d \in WideClients /\ Protocol(d, p, s) /\ SameElsewhere(c, d, t)
<1>1. c \in WideClients /\ t \in Targets
  BY ClientFields DEF Sound
<1>2. Sound(c, p, s) /\ c.open
  BY HeardSound
<1>3. /\ d \in WideClients
      /\ SameLimbo(c, d) /\ d.open = c.open /\ d.requests = c.requests
      /\ d.listens = c.listens \ {t}
      /\ d.states = Replaced(c.states, t, FreshTarget)
  BY <1>1, DroppedEffect
<1>4. /\ d.states[t] = FreshTarget
      /\ \A u \in Targets \ {t} : d.states[u] = c.states[u]
  <2> DEFINE x == FreshTarget
             f == c.states
  <2>1. x \in WideTargetStates /\ f \in [Targets -> WideTargetStates]
    BY <1>1, FreshFields, ClientFields
  <2>2. d.states = Replaced(f, t, x)
    BY <1>3
  <2> HIDE DEF x, f
  <2>3. d.states[t] = x /\ \A u \in Targets \ {t} : d.states[u] = f[u]
    BY <1>1, <2>1, <2>2, ReplacedFields
  <2> QED BY <2>3 DEF x, f
<1>5. ASSUME NEW u \in Targets \ {t} PROVE TargetProtocol(d, p, s, u)
  <2>1. TargetProtocol(c, p, s, u)
    BY <1>2 DEF Sound, Protocol
  <2>2. \A kind : Asks(d, kind, u) <=> Asks(c, kind, u)
    BY <1>3 DEF Asks
  <2>3. Unused(d, u) <=> Unused(c, u)
    BY <1>3 DEF Unused, SameLimbo
  <2>4. u \in d.listens <=> u \in c.listens
    BY <1>3
  <2> QED BY <1>3, <1>4, <2>1, <2>2, <2>3, <2>4, TargetSame
<1>6. Idle(d, p, s, t)
  <2>1. TargetProtocol(c, q, s, t)
    BY <1>1 DEF Sound, Protocol
  <2>2. TakenFrom(q, p, m, t) /\ InOrder(q)
    BY <1>1, TailTells DEF Sound, Protocol
  <2>3. Tells(q, "rejected", t) /\ ~Silent(q, t)
    BY <2>2 DEF TakenFrom, About
  <2>4. Silent(p, t)
    BY <2>2 DEF TakenFrom
  <2>5. ~Asks(c, "watch", t) /\ ~Asks(c, "unwatch", t) /\ s[t] = NoSession
    BY <2>1, <2>3 DEF TargetProtocol
  <2> QED BY <1>3, <1>4, <2>4, <2>5 DEF Idle, Asks
<1>7. TargetProtocol(d, p, s, t)
  <2>1. /\ ~Asks(d, "watch", t) /\ ~Asks(d, "unwatch", t)
        /\ ~Tells(p, "added", t) /\ ~Tells(p, "removed", t) /\ ~Tells(p, "rejected", t)
        /\ d.states[t].pending = 0 /\ t \notin d.listens
    BY <1>3, <1>6, FreshFields DEF Idle, Silent, Tells, About
  <2> QED BY <1>6, <2>1 DEF TargetProtocol, One
<1>8. WhenClosed(d, p, s) /\ OneOfAKind(d) /\ InOrder(p)
  BY <1>2, <1>3 DEF Sound, Protocol, WhenClosed, OneOfAKind
<1> QED BY <1>3, <1>4, <1>5, <1>7, <1>8 DEF Protocol, SameElsewhere

\* The main target is rejected: its listeners are failed.
LEMMA FailedSound ==
    ASSUME NEW c, NEW q \in Seq(Messages), NEW s, Sound(c, q, s), q # <<>>,
           NEW m, m = Head(q), Main \in c.listens, m.kind = "rejected", m.target = Main,
           NEW p, p = Tail(q), NEW f, f = Failed(Dropped(c, Main))
    PROVE  Sound(f, p, s)
<1> DEFINE d == Dropped(c, Main)
<1>1. d \in WideClients /\ Protocol(d, p, s) /\ SameElsewhere(c, d, Main)
  BY DroppedSound
<1>2. /\ SameApp(c, d) /\ SameLimbo(c, d) /\ d.asserted = c.asserted
      /\ d.listens = c.listens \ {Main}
  BY TargetFacts, DroppedEffect DEF Sound
<1>3. f = Failed(d)
  OBVIOUS
<1> HIDE DEF d
<1>4. /\ f \in WideClients
      /\ SameStream(d, f) /\ SameLimbo(d, f) /\ f.asserted = d.asserted
      /\ f.view = NoView
  BY <1>1, <1>3, FailedEffect
<1>5. Protocol(f, p, s)
  <2>1. d.resolutions \in Nat /\ d.resolutions >= d.resolutions
    BY <1>1, ClientFields
  <2> QED BY <1>1, <1>4, <2>1, ProtocolKept DEF SameStream, SameLimbo
<1>6. ASSUME NEW u \in Targets PROVE ChangeFits(f, u)
  <2>1. ChangeFits(c, u)
    BY DEF Sound, Coherent
  <2>2. u # Main =>
            (TargetContainsDocument(f, u) <=> TargetContainsDocument(c, u))
    BY <1>2, <1>4 DEF TargetContainsDocument, SameLimbo
  <2>3. u # Main => f.states[u] = c.states[u]
    BY <1>1, <1>4 DEF SameElsewhere, SameStream
  <2> QED BY <1>2, <1>4, <2>1, <2>2, <2>3 DEF ChangeFits, SameStream
<1>7. /\ f.limbo = c.limbo /\ f.listens = c.listens \ {Main} /\ f.view.on = FALSE
      /\ f.asserted = c.asserted /\ f.resolutions = c.resolutions
  BY <1>2, <1>4 DEF SameStream, SameLimbo, NoView
<1>8. Coherent(f)
  BY <1>6, <1>7 DEF Sound, Coherent, Main
<1> QED BY <1>4, <1>5, <1>8 DEF Sound

\* The limbo target is rejected: the document is asked about no more.
LEMMA UnaskedSound ==
    ASSUME NEW c, NEW q \in Seq(Messages), NEW s, Sound(c, q, s), q # <<>>,
           NEW m, m = Head(q), NEW t \in c.listens, t # Main, m.kind = "rejected", m.target = t,
           NEW p, p = Tail(q), NEW f, f = Unasked(Dropped(c, t))
    PROVE  Sound(f, p, s) /\ t = c.limbo
<1> DEFINE d == Dropped(c, t)
<1>1. c \in WideClients /\ t \in Targets /\ t = c.limbo
  BY ClientFields DEF Sound, Coherent
<1>2. d \in WideClients /\ Protocol(d, p, s) /\ SameElsewhere(c, d, t)
  BY DroppedSound
<1>3. /\ SameApp(c, d) /\ SameLimbo(c, d) /\ d.asserted = c.asserted
      /\ d.listens = c.listens \ {t}
  BY <1>1, DroppedEffect
<1>4. f = Unasked(d)
  OBVIOUS
<1> HIDE DEF d
<1>5. /\ f \in WideClients
      /\ SameStream(d, f) /\ SameApp(d, f) /\ f.asserted = d.asserted
      /\ f.limbo = 0 /\ f.resolutions = d.resolutions
  BY <1>2, <1>4, UnaskedEffect
<1>6. Protocol(f, p, s)
  <2>1. d.resolutions \in Nat /\ d.resolutions >= d.resolutions
    BY <1>2, ClientFields
  <2> QED BY <1>2, <1>5, <2>1, ProtocolKept DEF SameStream
<1>7. ASSUME NEW u \in Targets PROVE ChangeFits(f, u)
  <2>1. ChangeFits(c, u)
    BY DEF Sound, Coherent
  <2>2. u = Main => (TargetContainsDocument(f, u) <=> TargetContainsDocument(c, u))
    BY <1>3, <1>5 DEF TargetContainsDocument, SameApp
  <2>3. u \in f.listens => u = Main /\ u # t /\ u \in c.listens
    BY <1>1, <1>3, <1>5 DEF Sound, Coherent, SameStream
  <2>4. u # t => f.states[u] = c.states[u]
    BY <1>2, <1>5 DEF SameElsewhere, SameStream
  <2> QED BY <2>1, <2>2, <2>3, <2>4 DEF ChangeFits
<1>8. /\ f.listens = c.listens \ {t} /\ f.view.on = c.view.on /\ f.asserted = c.asserted
      /\ f.resolutions = c.resolutions /\ f.limbo = 0
  BY <1>3, <1>5 DEF SameStream, SameApp, SameLimbo
<1>9. Coherent(f)
  <2>1. 0 <= c.resolutions
    BY <1>1, ClientFields
  <2> QED BY <1>1, <1>7, <1>8, <2>1 DEF Sound, Coherent
<1> QED BY <1>1, <1>5, <1>6, <1>9 DEF Sound

\* A rejected target keeps the client sound.
LEMMA ProcessTargetErrorSound ==
    ASSUME NEW c, NEW q \in Seq(Messages), NEW s, Sound(c, q, s), q # <<>>,
           NEW m, m = Head(q), NEW t \in Targets, m.kind = "rejected", m.target = t,
           NEW p, p = Tail(q), NEW e, e = ProcessTargetError(c, t)
    PROVE  Sound(e, p, s)
<1>1. CASE t \notin c.listens
  <2>1. e = c
    BY <1>1, ProcessTargetErrorIs
  <2> QED BY <2>1, HeardSound
<1>2. CASE t \in c.listens /\ t = Main
  <2> DEFINE f == Failed(Dropped(c, Main))
  <2>1. e = RemoveLimboTarget(f)
    BY <1>2, ProcessTargetErrorIs
  <2>2. Sound(f, p, s)
    BY <1>2, FailedSound
  <2> HIDE DEF f
  <2> QED BY <2>1, <2>2, RemoveLimboTargetSound
<1>3. CASE t \in c.listens /\ t # Main
  <2> DEFINE f == Unasked(Dropped(c, t))
             none == {NoneVersion}
             g == ApplyUpdates(f, none)[1]
             news == ApplyUpdates(f, none)[2]
             no == {}
  <2>1. e = EmitNewSnapshots(g, news, no)
    BY <1>3, ProcessTargetErrorIs
  <2>2. Sound(f, p, s)
    BY <1>3, UnaskedSound
  <2>3. none \in SUBSET MaybeDocuments
    BY WatchAssumption DEF NoneVersion, MaybeDocument, MaybeDocuments
  <2>4. no = {} /\ \A x \in no : x.change = "Modified" => g.view.synced
    OBVIOUS
  <2> HIDE DEF f, none, no
  <2>5. news = NewsOf(f.disk.document, none) /\ Stores(f, g)
    BY <2>2, <2>3, ApplyUpdatesEffect DEF Sound
  <2>6. news \in SUBSET MaybeDocuments
    BY <2>3, <2>5, NewsFields
  <2> HIDE DEF g, news
  <2>7. Sound(g, p, s)
    BY <2>2, <2>5, SoundKept DEF Stores
  <2> QED BY <2>1, <2>4, <2>6, <2>7, EmitSound
<1> QED BY <1>1, <1>2, <1>3

-----------------------------------------------------------------------------
(* Messages *)

\* What messages are made of.
LEMMA MessageFields ==
    ASSUME NEW m \in Messages
    PROVE  /\ m.kind \in {"added", "removed", "reset", "rejected", "filter", "current",
                          "document", "snapshot"}
           /\ m.kind # "snapshot" => m.target \in Targets
           /\ m.kind = "current" => m.token \in 0..MaxVersion
           /\ m.kind = "document" => m.document \in MaybeDocuments
           /\ m.kind = "snapshot" => m.version \in 1..MaxVersion
BY DEF Messages

\* That there is no document can be known of it.
LEMMA NoneIsDocument == NoneVersion \in MaybeDocuments /\ {NoneVersion} \in SUBSET MaybeDocuments
BY WatchAssumption DEF NoneVersion, MaybeDocument, MaybeDocuments

\* What a message that is not about a request does to the client that was told
\* that it is online.
LEMMA HandleDocumentChangeSound ==
    ASSUME NEW c, NEW q, NEW s, Sound(c, q, s), c.open, NEW t \in Targets,
           NEW m \in MaybeDocuments, NEW d, d = HandleDocumentChange(c, t, m)
    PROVE  Sound(d, q, s)
<1> DEFINE ms == {m}
<1>1. ms \in SUBSET MaybeDocuments
  OBVIOUS
<1>2. CASE m.exists
  <2>1. d = AddDocumentToTarget(c, t, m)
    BY <1>2 DEF HandleDocumentChange
  <2> QED BY <2>1, AddDocumentSound
<1>3. CASE ~m.exists
  <2>1. d = RemoveDocumentFromTarget(c, t, ms)
    BY <1>3 DEF HandleDocumentChange
  <2> HIDE DEF ms
  <2> QED BY <1>1, <2>1, RemoveDocumentSound
<1> QED BY <1>2, <1>3

\* A filter that matches nothing keeps the client sound.
LEMMA HandleExistenceFilterSound ==
    ASSUME NEW c, NEW q, NEW s, Sound(c, q, s), c.open, NEW t \in Targets,
           NEW d, d = HandleExistenceFilter(c, t)
    PROVE  Sound(d, q, s)
<1> DEFINE ms == {NoneVersion}
<1>1. ms \in SUBSET MaybeDocuments
  BY NoneIsDocument
<1>2. d = RemoveDocumentFromTarget(c, t, ms)
  BY DEF HandleExistenceFilter
<1> HIDE DEF ms
<1> QED BY <1>1, <1>2, RemoveDocumentSound

\* A global snapshot, raised or passed over, keeps the client sound.
LEMMA OnSnapshotSound ==
    ASSUME NEW c, NEW q, NEW s, Sound(c, q, s), c.open, NEW version \in 1..MaxVersion,
           NEW old \in BOOLEAN, NEW e, e = HandleNoChange(c, version),
           NEW d, d = IF IsNews(e, version) THEN RaiseWatchSnapshot(e, version, old) ELSE e
    PROVE  Sound(d, q, s)
<1>1. c \in WideClients /\ version \in 0..MaxVersion
  BY DEF Sound
<1>2. Aggregates(c, e)
  BY <1>1, HandleNoChangeEffect
<1>3. Sound(e, q, s) /\ e.open
  BY <1>1, <1>2, HandleNoChangeSound DEF Aggregates
<1>4. CASE version >= e.disk.version
  <2>1. d = RaiseWatchSnapshot(e, version, old)
    BY <1>4 DEF IsNews
  <2> QED BY <1>3, <1>4, <2>1, RaiseWatchSnapshotSound
<1>5. CASE ~(version >= e.disk.version)
  <2>1. d = e
    BY <1>5 DEF IsNews
  <2> QED BY <1>3, <2>1
<1> QED BY <1>4, <1>5

\* The client takes a message.
LEMMA OnWatchStreamChangeSound ==
    ASSUME NEW c, NEW q \in Seq(Messages), NEW s, Sound(c, q, s), q # <<>>,
           NEW m, m = Head(q), NEW p, p = Tail(q), NEW old \in BOOLEAN,
           NEW e, e = OnWatchStreamChange(c, m, old)
    PROVE  Sound(e, p, s)
<1> DEFINE d == UpdateState(c, "Online")
           t == m.target
           f == HandleNoChange(d, m.version)
<1>1. m \in Messages
  BY TailTells, TargetFacts
<1>2. /\ m.kind = "added" => e = HandleAdded(d, t)
      /\ m.kind = "removed" => e = HandleRemoved(d, t)
      /\ m.kind = "current" => e = HandleCurrent(d, t, m.token)
      /\ m.kind = "reset" => e = HandleReset(d, t)
      /\ m.kind = "filter" => e = HandleExistenceFilter(d, t)
      /\ m.kind = "document" => e = HandleDocumentChange(d, t, m.document)
      /\ m.kind = "rejected" => e = ProcessTargetError(d, t)
      /\ m.kind = "snapshot" =>
            e = IF IsNews(f, m.version) THEN RaiseWatchSnapshot(f, m.version, old) ELSE f
  BY DEF OnWatchStreamChange
<1>3. Sound(d, q, s)
  <2>1. "Online" \in {"Unknown", "Online", "Offline"}
    OBVIOUS
  <2> QED BY <2>1, UpdateStateSound
<1> HIDE DEF d
<1>4. m.kind \notin {"added", "removed"} => Sound(d, p, s) /\ d.open
  BY <1>3, HeardSound
<1>5. m.kind # "snapshot" => t \in Targets
  BY <1>1, MessageFields
<1>6. CASE m.kind = "added"
  BY <1>2, <1>3, <1>5, <1>6, HandleAddedSound
<1>7. CASE m.kind = "removed"
  BY <1>2, <1>3, <1>5, <1>7, HandleRemovedSound
<1>8. CASE m.kind = "current"
  <2>1. m.token \in 0..MaxVersion
    BY <1>1, <1>8, MessageFields
  <2> QED BY <1>2, <1>4, <1>5, <1>8, <2>1, HandleCurrentSound
<1>9. CASE m.kind = "reset"
  BY <1>2, <1>4, <1>5, <1>9, HandleResetSound
<1>10. CASE m.kind = "filter"
  BY <1>2, <1>4, <1>5, <1>10, HandleExistenceFilterSound
<1>11. CASE m.kind = "document"
  <2>1. m.document \in MaybeDocuments
    BY <1>1, <1>11, MessageFields
  <2> QED BY <1>2, <1>4, <1>5, <1>11, <2>1, HandleDocumentChangeSound
<1>12. CASE m.kind = "rejected"
  BY <1>2, <1>3, <1>5, <1>12, ProcessTargetErrorSound
<1>13. CASE m.kind = "snapshot"
  <2>1. m.version \in 1..MaxVersion
    BY <1>1, <1>13, MessageFields
  <2> QED BY <1>2, <1>4, <1>13, <2>1, OnSnapshotSound
<1> QED BY <1>1, <1>6, <1>7, <1>8, <1>9, <1>10, <1>11, <1>12, <1>13, MessageFields

-----------------------------------------------------------------------------
(* The app's listeners *)

\* The listener l was added.
Added(c, l) == [c EXCEPT !.shown[l] = [kind |-> "nothing"]]

\* The view from the disk.
DiskView(k) ==
    [on |-> TRUE, document |-> IF k.document.exists THEN k.document.version ELSE 0,
     synced |-> k.keys, current |-> FALSE, limbo |-> FALSE, sync |-> "None"]

Viewed(c) == [c EXCEPT !.token = c.disk.token, !.view = DiskView(c.disk)]

\* AddQueryListener in terms of its parts.
LEMMA AddQueryListenerIs ==
    ASSUME NEW c \in WideClients, NEW l \in Listeners
    PROVE  AddQueryListener(c, l) =
               IF c.view.on THEN OnViewSnapshot(Added(c, l), {l}, FALSE)
               ELSE Listen(ApplyChanges(Viewed(Added(c, l)), TRUE), Main,
                           ApplyChanges(Viewed(Added(c, l)), TRUE).token)
<1>1. Added(c, l).disk = c.disk
  BY DEF Added, WideClients
<1> QED BY <1>1 DEF AddQueryListener, Added, Viewed, DiskView

\* A listener is added.
LEMMA AddedEffect ==
    ASSUME NEW c \in WideClients, NEW l \in Listeners, NEW d, d = Added(c, l)
    PROVE  /\ d \in WideClients
           /\ SameStream(c, d) /\ SameStore(c, d) /\ SameLimbo(c, d)
           /\ d.view = c.view /\ d.online = c.online /\ d.asserted = c.asserted
           /\ d.newest = c.newest
           /\ d.shown = Replaced(c.shown, l, [kind |-> "nothing"])
<1> DEFINE sh == Replaced(c.shown, l, [kind |-> "nothing"])
<1>1. sh \in [Listeners -> Events]
  <2>1. c.shown \in [Listeners -> Events]
    BY ClientFields
  <2>2. [kind |-> "nothing"] \in Events
    BY DEF Events
  <2> QED BY <2>1, <2>2 DEF Replaced
<1>2. d = [c EXCEPT !.shown = sh]
  BY DEF Added, Replaced, WideClients
<1> HIDE DEF sh
<1>3. /\ d \in WideClients
      /\ SameStream(c, d) /\ SameStore(c, d) /\ SameLimbo(c, d)
      /\ d.view = c.view /\ d.online = c.online /\ d.asserted = c.asserted
      /\ d.newest = c.newest /\ d.shown = sh
  BY <1>1, <1>2 DEF WideClients, SameStream, SameStore, SameLimbo
<1> QED BY <1>3 DEF sh

\* A view is made from the disk.
LEMMA ViewedEffect ==
    ASSUME NEW c \in WideClients, NEW d, d = Viewed(c)
    PROVE  /\ d \in WideClients
           /\ SameStream(c, d) /\ SameLimbo(c, d) /\ SameShown(c, d)
           /\ d.disk = c.disk /\ d.token = c.disk.token /\ d.view = DiskView(c.disk)
           /\ d.online = c.online /\ d.asserted = c.asserted
<1> DEFINE w == DiskView(c.disk)
           tk == c.disk.token
<1>1. c.disk \in Disks
  BY ClientFields
<1>2. tk \in 0..MaxVersion
  BY <1>1, DiskFields
<1>3. w \in Views
  BY <1>1, DiskFields, DocumentFields, WatchAssumption DEF DiskView, Views
<1> HIDE DEF w, tk
<1>4. d = [c EXCEPT !.token = tk, !.view = w]
  BY DEF Viewed, w, tk
<1> QED BY <1>2, <1>3, <1>4 DEF WideClients, SameStream, SameLimbo, SameShown, w, tk

\* Where the client that has no view has one, and is not listening yet.
LEMMA AddQueryListenerSound ==
    ASSUME NEW c, NEW q, NEW s, Sound(c, q, s), NEW l \in Listeners,
           NEW e, e = AddQueryListener(c, l)
    PROVE  Sound(e, q, s) /\ e.open = c.open /\ e.resolutions = c.resolutions
<1> DEFINE d == Added(c, l)
           ls == {l}
           no == FALSE
           v == Viewed(d)
           b == TRUE
           f == ApplyChanges(v, b)
<1>1. c \in WideClients /\ c.view.on \in BOOLEAN
  BY ClientFields, ViewFields DEF Sound
<1>2. /\ c.view.on => e = OnViewSnapshot(d, ls, no)
      /\ ~c.view.on => e = Listen(f, Main, f.token)
  BY <1>1, AddQueryListenerIs
<1>3. /\ d \in WideClients
      /\ SameStream(c, d) /\ SameLimbo(c, d)
      /\ d.view = c.view /\ d.asserted = c.asserted
  BY <1>1, AddedEffect
<1> HIDE DEF d, ls, no, b
<1>4. Sound(d, q, s)
  BY <1>3, SoundKept
<1>5. CASE c.view.on
  <2>1. e = OnViewSnapshot(d, ls, no)
    BY <1>2, <1>5
  <2>2. /\ e \in WideClients /\ SameStream(d, e) /\ SameLimbo(d, e)
        /\ e.view = d.view /\ e.asserted = d.asserted
    BY <1>3, <2>1, OnViewSnapshotEffect
  <2>3. e.open = c.open /\ e.resolutions = c.resolutions
    BY <1>3, <2>2 DEF SameStream, SameLimbo
  <2> QED BY <1>4, <2>2, <2>3, SoundKept
<1>6. CASE ~c.view.on
  <2>1. /\ v \in WideClients /\ SameStream(d, v) /\ SameLimbo(d, v)
        /\ v.view = DiskView(d.disk) /\ v.asserted = d.asserted
    BY <1>3, ViewedEffect
  <2>2. v.view \in Views /\ v.view.on
    BY <2>1, ClientFields DEF DiskView
  <2> HIDE DEF v
  <2>3. /\ f \in WideClients /\ SameStream(v, f) /\ SameLimbo(v, f)
        /\ f.view = Settled(v.view) /\ f.asserted = v.asserted
    BY <2>1, ApplyChangesEffect
  <2>4. f.view.on /\ f.token \in 0..MaxVersion
    BY <2>2, <2>3, SettledFields, ClientFields
  <2> DEFINE token == f.token
  <2>5. e = Listen(f, Main, token)
    BY <1>2, <1>6
  <2> HIDE DEF f, token
  <2>6. Main \notin c.listens
    BY <1>6 DEF Sound, Coherent
  <2>7. SameStream(c, f) /\ SameLimbo(c, f) /\ f.asserted = c.asserted
    BY <1>3, <2>1, <2>3 DEF SameStream, SameLimbo
  <2>8. f.resolutions \in Nat /\ f.resolutions >= c.resolutions /\ c.resolutions \in Nat
    BY <1>1, <2>7, ClientFields DEF SameLimbo
  <2>9. Protocol(f, q, s)
    BY <2>7, <2>8, ProtocolKept DEF Sound, SameStream
  <2>10. Idle(f, q, s, Main)
    <3>1. Unused(f, Main)
      BY <2>6, <2>7 DEF Unused, SameStream
    <3> QED BY <2>9, <3>1, TargetFacts DEF Protocol, TargetProtocol
  <2>11. Protocol(e, q, s)
    <3>1. Main \in Targets \ f.listens /\ token \in 0..MaxVersion
      BY <2>4, <2>6, <2>7, TargetFacts DEF SameStream, token
    <3> QED BY <2>3, <2>5, <2>9, <2>10, <3>1, ListenKeeps DEF Protocol
  <2>12. /\ e \in WideClients /\ SameApp(f, e) /\ SameLimbo(f, e) /\ e.asserted = f.asserted
         /\ e.open = f.open /\ e.listens = f.listens \cup {Main}
         /\ f.open => e.states = Owing(f.states, Main)
         /\ ~f.open => e.states = f.states
    <3>1. Main \in Targets \ f.listens /\ token \in 0..MaxVersion
      BY <2>4, <2>6, <2>7, TargetFacts DEF SameStream, token
    <3> QED BY <2>3, <2>5, <3>1, ListenEffect
  <2>13. ASSUME NEW u \in Targets, u # Main PROVE ChangeFits(e, u)
    <3>1. ChangeFits(c, u)
      BY DEF Sound, Coherent
    <3>2. e.states[u] = c.states[u]
      <4>1. f.states \in [Targets -> WideTargetStates] /\ f.open \in BOOLEAN
        BY <2>3, ClientFields
      <4> QED BY <2>7, <2>12, <2>13, <4>1, TargetFacts DEF Owing, SameStream
    <3>3. TargetContainsDocument(e, u) <=> TargetContainsDocument(c, u)
      BY <2>7, <2>12, <2>13 DEF TargetContainsDocument, SameLimbo
    <3> QED BY <2>7, <2>12, <2>13, <3>1, <3>2, <3>3 DEF ChangeFits, SameStream
  <2>14. ChangeFits(e, Main)
    <3>1. f.states[Main] = FreshTarget
      BY <2>10 DEF Idle
    <3>2. CASE f.open
      <4>1. e.states[Main].pending = 1
        <5>1. f.states \in [Targets -> WideTargetStates]
          BY <2>3, ClientFields
        <5> QED BY <2>12, <3>1, <3>2, <5>1, TargetFacts DEF Owing, FreshTarget, WideTargetStates
      <4> QED BY <4>1 DEF ChangeFits
    <3>3. CASE ~f.open
      BY <2>12, <3>1, <3>3 DEF ChangeFits, FreshTarget
    <3> QED BY <2>3, <3>2, <3>3, ClientFields
  <2>15. Coherent(e)
    <3>1. /\ e.limbo = c.limbo /\ e.listens = c.listens \cup {Main}
          /\ e.view.on = TRUE /\ e.resolutions = c.resolutions /\ e.asserted = c.asserted
      BY <2>4, <2>7, <2>12 DEF SameApp, SameLimbo, SameStream
    <3> QED BY <2>13, <2>14, <3>1 DEF Sound, Coherent
  <2> QED BY <2>7, <2>11, <2>12, <2>15 DEF Sound, SameStream, SameLimbo
<1> QED BY <1>1, <1>5, <1>6

-----------------------------------------------------------------------------
(* The server *)

\* The server says something of the target t, which it serves.
LEMMA SentSound ==
    ASSUME NEW c, NEW q \in Seq(Messages), NEW s, Sound(c, q, s), NEW t \in Targets,
           s[t] # NoSession, NEW r, \A u \in Targets \ {t} : r[u] = s[u],
           NEW m \in Messages, m.kind \notin {"added", "removed", "snapshot"}, m.target = t,
           m.kind = "rejected" => r[t] = NoSession, NEW p, p = Append(q, m)
    PROVE  Sound(c, p, r)
<1>1. TargetProtocol(c, q, s, t)
  BY DEF Sound, Protocol
<1>2. /\ ~Asks(c, "watch", t) /\ ~Tells(q, "removed", t) /\ ~Tells(q, "rejected", t)
      /\ ~Unused(c, t)
  BY <1>1 DEF TargetProtocol, Idle
<1>3. c.open
  BY ClientFields DEF Sound, Protocol, WhenClosed, Idle
<1>4. ASSUME NEW u \in Targets
      PROVE  /\ Tells(p, "added", u) <=> Tells(q, "added", u)
             /\ Tells(p, "removed", u) <=> Tells(q, "removed", u)
             /\ Tells(p, "rejected", u) <=>
                   Tells(q, "rejected", u) \/ (m.kind = "rejected" /\ u = t)
             /\ Silent(p, u) <=> Silent(q, u) /\ u # t
  BY AppendTells, ZenonT(60) DEF AddedTo, About
<1>5. ASSUME NEW u \in Targets \ {t} PROVE TargetProtocol(c, p, r, u)
  <2>1. TargetProtocol(c, q, s, u)
    BY DEF Sound, Protocol
  <2> QED BY <1>4, <2>1, TargetSame
<1>6. TargetProtocol(c, p, r, t)
  <2>1. /\ Tells(p, "added", t) <=> Tells(q, "added", t)
        /\ Tells(p, "removed", t) <=> Tells(q, "removed", t)
        /\ Tells(p, "rejected", t) => m.kind = "rejected"
    BY <1>2, <1>4
  <2>2. One(Tells(p, "added", t)) = One(Tells(q, "added", t))
        /\ One(Tells(p, "removed", t)) = One(Tells(q, "removed", t))
    BY <2>1 DEF One
  <2>3. One(Asks(c, "watch", t) \/ Tells(p, "added", t))
           = One(Asks(c, "watch", t) \/ Tells(q, "added", t))
    BY <2>1 DEF One
  <2> QED BY <1>1, <1>2, <2>1, <2>2, <2>3 DEF TargetProtocol
<1>7. InOrder(p)
  <2>1. \A u \in Targets : About(m, u) =>
            /\ ~Tells(q, "removed", u) /\ ~Tells(q, "rejected", u)
            /\ m.kind = "added" => Silent(q, u)
    BY <1>2 DEF About
  <2> QED BY <2>1, AppendInOrder DEF Sound, Protocol
<1> QED BY <1>3, <1>5, <1>6, <1>7 DEF Sound, Protocol, WhenClosed

\* The server goes on with the target t, and says nothing.
LEMMA UnsaidSound ==
    ASSUME NEW c, NEW q, NEW s, Sound(c, q, s), NEW t \in Targets,
           s[t] # NoSession, NEW r, \A u \in Targets \ {t} : r[u] = s[u]
    PROVE  Sound(c, q, r)
<1>1. TargetProtocol(c, q, s, t)
  BY DEF Sound, Protocol
<1>2. /\ ~Asks(c, "watch", t) /\ ~Tells(q, "removed", t) /\ ~Tells(q, "rejected", t)
      /\ ~Unused(c, t)
  BY <1>1 DEF TargetProtocol, Idle
<1>3. c.open
  BY ClientFields DEF Sound, Protocol, WhenClosed, Idle
<1>4. ASSUME NEW u \in Targets \ {t} PROVE TargetProtocol(c, q, r, u)
  <2>1. TargetProtocol(c, q, s, u)
    BY DEF Sound, Protocol
  <2> QED BY <2>1, TargetSame
<1>5. TargetProtocol(c, q, r, t)
  BY <1>1, <1>2 DEF TargetProtocol
<1> QED BY <1>3, <1>4, <1>5 DEF Sound, Protocol, WhenClosed

\* A global snapshot is about no target.
LEMMA SnapshotSound ==
    ASSUME NEW c, NEW q \in Seq(Messages), NEW s, Sound(c, q, s), c.open,
           NEW m \in Messages, m.kind = "snapshot", NEW p, p = Append(q, m)
    PROVE  Sound(c, p, s)
<1>1. ASSUME NEW u \in Targets
      PROVE  /\ Tells(p, "added", u) <=> Tells(q, "added", u)
             /\ Tells(p, "removed", u) <=> Tells(q, "removed", u)
             /\ Tells(p, "rejected", u) <=> Tells(q, "rejected", u)
             /\ Silent(p, u) <=> Silent(q, u)
  BY AppendTells DEF AddedTo, About
<1>2. ASSUME NEW u \in Targets PROVE TargetProtocol(c, p, s, u)
  <2>1. TargetProtocol(c, q, s, u)
    BY DEF Sound, Protocol
  <2> QED BY <1>1, <2>1, TargetSame
<1>3. InOrder(p)
  <2>1. \A u \in Targets : ~About(m, u)
    BY DEF About
  <2> QED BY <2>1, AppendInOrder DEF Sound, Protocol
<1> QED BY <1>2, <1>3 DEF Sound, Protocol, WhenClosed

\* The request r was taken.
Served(c, r) == [c EXCEPT !.requests = @ \ {r}]

\* A request is taken.
LEMMA ServedEffect ==
    ASSUME NEW c \in WideClients, NEW r, NEW d, d = Served(c, r)
    PROVE  /\ d \in WideClients /\ d.requests = c.requests \ {r}
           /\ SameApp(c, d) /\ SameLimbo(c, d) /\ d.asserted = c.asserted
           /\ d.open = c.open /\ d.listens = c.listens /\ d.tokens = c.tokens
           /\ d.states = c.states /\ d.updates = c.updates
<1> DEFINE rs == c.requests \ {r}
<1>1. rs \in SUBSET Requests
  BY ClientFields
<1>2. d = [c EXCEPT !.requests = rs]
  BY DEF Served
<1> HIDE DEF rs
<1>3. /\ d \in WideClients /\ d.requests = rs
      /\ SameApp(c, d) /\ SameLimbo(c, d) /\ d.asserted = c.asserted
      /\ d.open = c.open /\ d.listens = c.listens /\ d.tokens = c.tokens
      /\ d.states = c.states /\ d.updates = c.updates
  BY <1>1, <1>2 DEF WideClients, SameApp, SameShown, SameStore, SameLimbo
<1> QED BY <1>3 DEF rs

\* What remains to be asked of the targets.
LEMMA ServedAsks ==
    ASSUME NEW c, NEW q, NEW s, Sound(c, q, s), NEW r \in c.requests, NEW d, d = Served(c, r)
    PROVE  /\ Coherent(d) /\ OneOfAKind(d) /\ c.open /\ r \in Requests
           /\ r.target \in Targets /\ r.kind \in {"watch", "unwatch"}
           /\ Asks(c, r.kind, r.target) /\ ~Asks(d, r.kind, r.target)
           /\ \A kind, u : kind # r.kind \/ u # r.target =>
                  (Asks(d, kind, u) <=> Asks(c, kind, u))
<1>1. c \in WideClients
  BY DEF Sound
<1>2. /\ d \in WideClients /\ d.requests = c.requests \ {r}
      /\ SameApp(c, d) /\ SameLimbo(c, d) /\ d.asserted = c.asserted
      /\ d.open = c.open /\ d.listens = c.listens /\ d.states = c.states
  BY <1>1, ServedEffect
<1>3. Coherent(d)
  BY <1>2, CoherentKept DEF Sound, SameApp, SameLimbo
<1>4. r \in Requests /\ r.target \in Targets /\ r.kind \in {"watch", "unwatch"}
  BY <1>1, ClientFields DEF Requests
<1>5. Asks(c, r.kind, r.target)
  BY DEF Asks
<1>6. OneOfAKind(c)
  BY DEF Sound, Protocol
<1>7. ~Asks(d, r.kind, r.target)
  BY <1>2, <1>6 DEF Asks, OneOfAKind
<1>8. \A kind, u : kind # r.kind \/ u # r.target => (Asks(d, kind, u) <=> Asks(c, kind, u))
  BY <1>2 DEF Asks
<1>9. OneOfAKind(d)
  BY <1>2, <1>6 DEF OneOfAKind
<1>10. c.open
  BY <1>1, <1>4, <1>5, ClientFields DEF Sound, Protocol, WhenClosed, Idle
<1> QED BY <1>3, <1>4, <1>5, <1>7, <1>8, <1>9, <1>10

\* A watch request is served.
LEMMA ServeWatchSound ==
    ASSUME NEW c, NEW q \in Seq(Messages), NEW s, Sound(c, q, s), NEW r \in c.requests,
           r.kind = "watch", NEW d, d = Served(c, r), NEW t, t = r.target,
           NEW z, \A u \in Targets \ {t} : z[u] = s[u],
           NEW m \in Messages, m.kind = "added", m.target = t, NEW p, p = Append(q, m)
    PROVE  Sound(d, p, z)
<1>1. /\ Coherent(d) /\ OneOfAKind(d) /\ c.open
      /\ t \in Targets
      /\ Asks(c, "watch", t) /\ ~Asks(d, "watch", t)
      /\ \A kind, u : kind # "watch" \/ u # t => (Asks(d, kind, u) <=> Asks(c, kind, u))
  BY ServedAsks
<1>2. /\ d \in WideClients
      /\ SameLimbo(c, d) /\ d.open = c.open /\ d.listens = c.listens /\ d.states = c.states
  BY ServedEffect DEF Sound
<1>3. ASSUME NEW u \in Targets
      PROVE  /\ Tells(p, "added", u) <=> Tells(q, "added", u) \/ u = t
             /\ Tells(p, "removed", u) <=> Tells(q, "removed", u)
             /\ Tells(p, "rejected", u) <=> Tells(q, "rejected", u)
             /\ Silent(p, u) <=> Silent(q, u) /\ u # t
  <2>1. AddedTo(q, p, m, u)
    BY AppendTells
  <2> QED BY <2>1 DEF AddedTo, About
<1>4. ASSUME NEW u \in Targets \ {t} PROVE TargetProtocol(d, p, z, u)
  <2>1. TargetProtocol(c, q, s, u)
    BY DEF Sound, Protocol
  <2>2. Unused(d, u) <=> Unused(c, u)
    BY <1>2 DEF Unused, SameLimbo
  <2> QED BY <1>1, <1>2, <1>3, <2>1, <2>2, TargetSame
<1>5. /\ TargetProtocol(c, q, s, t) /\ Silent(q, t) /\ ~Unused(c, t)
      /\ ~Tells(q, "added", t) /\ ~Tells(q, "removed", t) /\ ~Tells(q, "rejected", t)
  <2>1. TargetProtocol(c, q, s, t)
    BY <1>1 DEF Sound, Protocol
  <2>2. Silent(q, t) /\ ~Unused(c, t)
    BY <1>1, <2>1 DEF TargetProtocol, Idle
  <2> QED BY <2>1, <2>2 DEF Silent, Tells, About
<1>6. TargetProtocol(d, p, z, t)
  <2>1. /\ Tells(p, "added", t) /\ ~Tells(p, "removed", t) /\ ~Tells(p, "rejected", t)
    BY <1>1, <1>3, <1>5
  <2>2. ~Unused(d, t)
    BY <1>2, <1>5 DEF Unused, SameLimbo
  <2>3. Asks(d, "unwatch", t) <=> Asks(c, "unwatch", t)
    BY <1>1
  <2>4. One(Asks(c, "watch", t)) = 1 /\ One(Asks(d, "watch", t)) = 0
        /\ One(Tells(q, "added", t)) = 0 /\ One(Tells(p, "added", t)) = 1
        /\ One(Tells(q, "removed", t)) = 0 /\ One(Tells(p, "removed", t)) = 0
        /\ One(Asks(d, "unwatch", t)) = One(Asks(c, "unwatch", t))
        /\ One(Asks(c, "unwatch", t)) \in 0..1
        /\ One(Asks(c, "watch", t) \/ Tells(q, "added", t)) = 1
        /\ One(Asks(d, "watch", t) \/ Tells(p, "added", t)) = 1
    BY <1>1, <1>5, <2>1, <2>3 DEF One
  <2> QED BY <1>1, <1>2, <1>5, <2>1, <2>2, <2>3, <2>4 DEF TargetProtocol
<1>7. InOrder(p)
  <2>1. \A u \in Targets : About(m, u) =>
            /\ ~Tells(q, "removed", u) /\ ~Tells(q, "rejected", u)
            /\ m.kind = "added" => Silent(q, u)
    BY <1>5 DEF About
  <2> QED BY <2>1, AppendInOrder DEF Sound, Protocol
<1>8. \A u \in Targets : TargetProtocol(d, p, z, u)
  BY <1>4, <1>6
<1> QED BY <1>1, <1>2, <1>7, <1>8 DEF Sound, Protocol, WhenClosed

\* An unwatch request is served, with an answer or, of a rejected target, without.
LEMMA ServeUnwatchSound ==
    ASSUME NEW c, NEW q \in Seq(Messages), NEW s, Sound(c, q, s), NEW r \in c.requests,
           r.kind = "unwatch", NEW d, d = Served(c, r), NEW t, t = r.target,
           ~Asks(c, "watch", t),
           NEW z, z[t] = NoSession, \A u \in Targets \ {t} : z[u] = s[u],
           NEW m \in Messages, m.kind = "removed", m.target = t,
           NEW p, p = q \/ (s[t] # NoSession /\ p = Append(q, m))
    PROVE  Sound(d, p, z)
<1>1. /\ Coherent(d) /\ OneOfAKind(d) /\ c.open
      /\ t \in Targets
      /\ Asks(c, "unwatch", t) /\ ~Asks(d, "unwatch", t)
      /\ \A kind, u : kind # "unwatch" \/ u # t => (Asks(d, kind, u) <=> Asks(c, kind, u))
  BY ServedAsks
<1>2. /\ d \in WideClients
      /\ SameLimbo(c, d) /\ d.open = c.open /\ d.listens = c.listens /\ d.states = c.states
  BY ServedEffect DEF Sound
<1>3. TargetProtocol(c, q, s, t)
  BY <1>1 DEF Sound, Protocol
<1>4. t \notin c.listens /\ ~Tells(q, "removed", t) /\ ~Unused(c, t)
  BY <1>1, <1>3 DEF TargetProtocol, Idle
<1>5. ~Unused(d, t) /\ \A u \in Targets : Unused(d, u) <=> Unused(c, u)
  BY <1>2, <1>4 DEF Unused, SameLimbo
<1>6. ~Asks(d, "watch", t)
  BY <1>1
<1>7. CASE p = q
  <2>1. ASSUME NEW u \in Targets \ {t} PROVE TargetProtocol(d, p, z, u)
    <3>1. TargetProtocol(c, q, s, u)
      BY DEF Sound, Protocol
    <3> QED BY <1>1, <1>2, <1>5, <1>7, <3>1, TargetSame
  <2>2. TargetProtocol(d, p, z, t)
    <3>1. /\ One(Asks(c, "unwatch", t)) = 1 /\ One(Asks(d, "unwatch", t)) = 0
          /\ One(Asks(c, "watch", t)) = 0 /\ One(Asks(d, "watch", t)) = 0
          /\ One(Tells(q, "added", t)) \in 0..1 /\ One(Tells(q, "removed", t)) = 0
      BY <1>1, <1>4, <1>6 DEF One
    <3> QED BY <1>1, <1>2, <1>3, <1>4, <1>5, <1>6, <1>7, <3>1 DEF TargetProtocol
  <2>3. \A u \in Targets : TargetProtocol(d, p, z, u)
    BY <2>1, <2>2
  <2> QED BY <1>1, <1>2, <1>7, <2>3 DEF Sound, Protocol, WhenClosed
<1>8. CASE s[t] # NoSession /\ p = Append(q, m)
  <2>1. ASSUME NEW u \in Targets
        PROVE  /\ Tells(p, "added", u) <=> Tells(q, "added", u)
               /\ Tells(p, "removed", u) <=> Tells(q, "removed", u) \/ u = t
               /\ Tells(p, "rejected", u) <=> Tells(q, "rejected", u)
               /\ Silent(p, u) <=> Silent(q, u) /\ u # t
    BY <1>8, AppendTells, ZenonT(60) DEF AddedTo, About
  <2>2. ASSUME NEW u \in Targets \ {t} PROVE TargetProtocol(d, p, z, u)
    <3>1. TargetProtocol(c, q, s, u)
      BY DEF Sound, Protocol
    <3> QED BY <1>1, <1>2, <1>5, <2>1, <3>1, TargetSame
  <2>3. ~Tells(q, "rejected", t)
    BY <1>3, <1>8 DEF TargetProtocol
  <2>4. TargetProtocol(d, p, z, t)
    <3>1. Tells(p, "removed", t) /\ (Tells(p, "added", t) <=> Tells(q, "added", t))
      BY <1>1, <2>1
    <3>2. /\ One(Asks(c, "unwatch", t)) = 1 /\ One(Asks(d, "unwatch", t)) = 0
          /\ One(Asks(c, "watch", t)) = 0 /\ One(Asks(d, "watch", t)) = 0
          /\ One(Tells(p, "added", t)) = One(Tells(q, "added", t))
          /\ One(Tells(q, "added", t)) \in 0..1
          /\ One(Tells(q, "removed", t)) = 0 /\ One(Tells(p, "removed", t)) = 1
      BY <1>1, <1>4, <1>6, <3>1 DEF One
    <3> QED BY <1>1, <1>2, <1>3, <1>4, <1>5, <1>6, <3>1, <3>2 DEF TargetProtocol
  <2>5. InOrder(p)
    <3>1. \A u \in Targets : About(m, u) =>
              /\ ~Tells(q, "removed", u) /\ ~Tells(q, "rejected", u)
              /\ m.kind = "added" => Silent(q, u)
      BY <1>4, <2>3 DEF About
    <3> QED BY <1>8, <3>1, AppendInOrder DEF Sound, Protocol
  <2>6. \A u \in Targets : TargetProtocol(d, p, z, u)
    BY <2>2, <2>4
  <2> QED BY <1>1, <1>2, <2>5, <2>6 DEF Sound, Protocol, WhenClosed
<1> QED BY <1>7, <1>8

-----------------------------------------------------------------------------
(* The stream opens, and is lost *)

Watched(c) == {Request("watch", t, c.tokens[t]) : t \in c.listens}
OpenStates(c) ==
    [t \in Targets |-> [FreshTarget EXCEPT !.pending = IF t \in c.listens THEN 1 ELSE 0]]
Opened(c) == [c EXCEPT !.open = TRUE, !.requests = Watched(c), !.states = OpenStates(c)]

FreshStates == [t \in Targets |-> FreshTarget]
Closed(c) ==
    [c EXCEPT !.open = FALSE, !.requests = {}, !.updates = {}, !.states = FreshStates]

NoSessions == [t \in Targets |-> NoSession]

\* The stream opens, and all targets are requested.
LEMMA OpenedEffect ==
    ASSUME NEW c \in WideClients, NEW d, d = Opened(c)
    PROVE  /\ d \in WideClients
           /\ SameApp(c, d) /\ SameLimbo(c, d) /\ d.asserted = c.asserted
           /\ d.listens = c.listens /\ d.tokens = c.tokens /\ d.updates = c.updates
           /\ d.open = TRUE /\ d.requests = Watched(c) /\ d.states = OpenStates(c)
<1> DEFINE rs == Watched(c)
           ss == OpenStates(c)
<1>1. rs \in SUBSET Requests
  BY ClientFields DEF Watched, Request, Requests
<1>2. ss \in [Targets -> WideTargetStates]
  <2>1. ASSUME NEW t \in Targets, NEW n \in Int
        PROVE  [FreshTarget EXCEPT !.pending = n] \in WideTargetStates
    BY FreshFields DEF WideTargetStates
  <2>2. \A t \in Targets : (IF t \in c.listens THEN 1 ELSE 0) \in Int
    OBVIOUS
  <2> QED BY <2>1, <2>2 DEF OpenStates
<1>3. d = [c EXCEPT !.open = TRUE, !.requests = rs, !.states = ss]
  BY DEF Opened
<1> HIDE DEF rs, ss
<1>4. /\ d \in WideClients
      /\ SameApp(c, d) /\ SameLimbo(c, d) /\ d.asserted = c.asserted
      /\ d.listens = c.listens /\ d.tokens = c.tokens /\ d.updates = c.updates
      /\ d.open = TRUE /\ d.requests = rs /\ d.states = ss
  BY <1>1, <1>2, <1>3, ZenonT(60) DEF WideClients, SameApp, SameShown, SameStore, SameLimbo
<1> QED BY <1>4 DEF rs, ss

\* The stream is lost, and the aggregator with it.
LEMMA ClosedEffect ==
    ASSUME NEW c \in WideClients, NEW d, d = Closed(c)
    PROVE  /\ d \in WideClients
           /\ SameApp(c, d) /\ SameLimbo(c, d) /\ d.asserted = c.asserted
           /\ d.listens = c.listens /\ d.tokens = c.tokens /\ d.updates = {}
           /\ d.open = FALSE /\ d.requests = {} /\ d.states = FreshStates
<1> DEFINE ss == FreshStates
<1>1. ss \in [Targets -> WideTargetStates]
  BY WatchAssumption DEF FreshStates, FreshTarget, WideTargetStates
<1>2. d = [c EXCEPT !.open = FALSE, !.requests = {}, !.updates = {}, !.states = ss]
  BY DEF Closed
<1> HIDE DEF ss
<1>3. /\ d \in WideClients
      /\ SameApp(c, d) /\ SameLimbo(c, d) /\ d.asserted = c.asserted
      /\ d.listens = c.listens /\ d.tokens = c.tokens /\ d.updates = {}
      /\ d.open = FALSE /\ d.requests = {} /\ d.states = ss
  BY <1>1, <1>2, ZenonT(60) DEF WideClients, SameApp, SameShown, SameStore, SameLimbo
<1> QED BY <1>3 DEF ss

\* Nothing is told by an empty queue.
LEMMA NothingTold ==
    ASSUME NEW t
    PROVE  /\ Silent(<<>>, t) /\ InOrder(<<>>)
           /\ \A kind : ~Tells(<<>>, kind, t)
BY DEF Silent, InOrder, Tells

\* A stream that opens keeps the client sound.
LEMMA OpenedSound ==
    ASSUME NEW c, NEW q, NEW s, Sound(c, q, s), ~c.open, NEW d, d = Opened(c)
    PROVE  Sound(d, q, NoSessions)
<1>1. c \in WideClients
  BY DEF Sound
<1>2. /\ d \in WideClients
      /\ SameApp(c, d) /\ SameLimbo(c, d) /\ d.asserted = c.asserted
      /\ d.listens = c.listens
      /\ d.open = TRUE /\ d.requests = Watched(c) /\ d.states = OpenStates(c)
  BY <1>1, OpenedEffect
<1>3. q = <<>>
  BY DEF Sound, Protocol, WhenClosed
<1>4. ASSUME NEW t \in Targets
      PROVE  /\ Asks(d, "watch", t) <=> t \in c.listens
             /\ ~Asks(d, "unwatch", t)
             /\ d.states[t].pending = One(t \in c.listens)
             /\ t \notin c.listens => d.states[t] = FreshTarget
  <2>1. \A r \in d.requests : r.kind = "watch" /\ r.target \in c.listens
    BY <1>2 DEF Watched, Request
  <2>2. t \in c.listens =>
            \E r \in d.requests : r.kind = "watch" /\ r.target = t
    <3>1. t \in c.listens => Request("watch", t, c.tokens[t]) \in d.requests
      BY <1>2 DEF Watched
    <3>2. /\ Request("watch", t, c.tokens[t]).kind = "watch"
          /\ Request("watch", t, c.tokens[t]).target = t
      BY DEF Request
    <3> QED BY <3>1, <3>2
  <2>3. d.states[t] = [FreshTarget EXCEPT !.pending = IF t \in c.listens THEN 1 ELSE 0]
    BY <1>2 DEF OpenStates
  <2>4. d.states[t].pending = (IF t \in c.listens THEN 1 ELSE 0)
        /\ (t \notin c.listens => d.states[t] = FreshTarget)
    BY <2>3 DEF FreshTarget
  <2> QED BY <2>1, <2>2, <2>4 DEF Asks, One
<1>5. ASSUME NEW t \in Targets PROVE TargetProtocol(d, q, NoSessions, t)
  <2>1. Silent(q, t) /\ \A kind : ~Tells(q, kind, t)
    BY <1>3, NothingTold
  <2>2. NoSessions[t] = NoSession
    BY DEF NoSessions
  <2>3. Unused(d, t) => t \notin c.listens
    BY <1>2 DEF Unused
  <2>4. CASE t \in c.listens
    <3>1. d.states[t].pending = 1 /\ Asks(d, "watch", t)
      BY <1>4, <2>4 DEF One
    <3> QED BY <1>2, <1>4, <2>1, <2>2, <2>3, <2>4, <3>1 DEF TargetProtocol, One
  <2>5. CASE t \notin c.listens
    <3>1. d.states[t].pending = 0 /\ ~Asks(d, "watch", t)
      BY <1>4, <2>5 DEF One
    <3> QED BY <1>2, <1>4, <2>1, <2>2, <2>3, <2>5, <3>1 DEF TargetProtocol, One, Idle
  <2> QED BY <2>4, <2>5
<1>6. OneOfAKind(d)
  BY <1>2 DEF OneOfAKind, Watched, Request
<1>7. \A t \in Targets : ChangeFits(d, t)
  BY <1>2, <1>4 DEF ChangeFits, One
<1>8. Coherent(d)
  BY <1>2, <1>7 DEF Sound, Coherent, SameApp, SameLimbo
<1>9. InOrder(q)
  BY <1>3, NothingTold
<1> QED BY <1>2, <1>5, <1>6, <1>8, <1>9 DEF Sound, Protocol, WhenClosed

\* Without a stream nothing is under way.
LEMMA ClosedProtocol ==
    ASSUME NEW d, ~d.open, d.requests = {}, d.states = FreshStates
    PROVE  Protocol(d, <<>>, NoSessions)
<1>1. ASSUME NEW t \in Targets
      PROVE  Idle(d, <<>>, NoSessions, t) /\ TargetProtocol(d, <<>>, NoSessions, t)
  <2>1. Silent(<<>>, t) /\ \A kind : ~Tells(<<>>, kind, t) /\ ~Asks(d, kind, t)
    BY NothingTold DEF Asks
  <2>2. NoSessions[t] = NoSession /\ d.states[t] = FreshTarget
    BY DEF NoSessions, FreshStates
  <2> QED BY <2>1, <2>2, FreshFields DEF Idle, TargetProtocol, One
<1> QED BY <1>1, NothingTold DEF Protocol, WhenClosed, OneOfAKind

\* A stream that is lost keeps the client sound.
LEMMA ClosedSound ==
    ASSUME NEW c, NEW q, NEW s, Sound(c, q, s), NEW d, d = Closed(c)
    PROVE  Sound(d, <<>>, NoSessions)
<1>1. c \in WideClients
  BY DEF Sound
<1>2. /\ d \in WideClients
      /\ SameApp(c, d) /\ SameLimbo(c, d) /\ d.asserted = c.asserted
      /\ d.listens = c.listens
      /\ d.open = FALSE /\ d.requests = {} /\ d.states = FreshStates
  BY <1>1, ClosedEffect
<1>3. Protocol(d, <<>>, NoSessions)
  BY <1>2, ClosedProtocol
<1>4. \A t \in Targets : ChangeFits(d, t)
  BY <1>2, FreshFields DEF ChangeFits, FreshStates
<1>5. Coherent(d)
  BY <1>2, <1>4 DEF Sound, Coherent, SameApp, SameLimbo
<1> QED BY <1>2, <1>3, <1>5 DEF Sound

\* A client that starts from any disk is sound.
LEMMA StartedSound ==
    ASSUME NEW k \in Disks, NEW newest \in 0..MaxVersion, NEW d, d = Started(k, newest)
    PROVE  Sound(d, <<>>, NoSessions)
<1>1. /\ d.open = FALSE /\ d.requests = {} /\ d.states = FreshStates /\ d.listens = {}
      /\ d.limbo = 0 /\ d.view.on = FALSE /\ d.resolutions = 0 /\ d.asserted = FALSE
  BY DEF Started, FreshStates
<1>2. d \in WideClients
  <2>1. FreshStates \in [Targets -> WideTargetStates]
    BY WatchAssumption DEF FreshStates, FreshTarget, WideTargetStates
  <2>2. [t \in Targets |-> 0] \in [Targets -> 0..MaxVersion]
    BY WatchAssumption
  <2>3. [l \in Listeners |-> [kind |-> "idle"]] \in [Listeners -> Events]
    BY DEF Events
  <2>4. NoView \in Views
    BY WatchAssumption DEF NoView, Views
  <2>5. 0 \in 0..MaxVersion /\ 0 \in 0..MaxLimbo /\ 0 \in 0..(MaxLimbo + 1)
    BY WatchAssumption
  <2> QED BY <2>1, <2>2, <2>3, <2>4, <2>5 DEF Started, WideClients, FreshStates, NoView
<1>3. Protocol(d, <<>>, NoSessions)
  BY <1>1, ClosedProtocol
<1>4. Coherent(d)
  BY <1>1 DEF Coherent, ChangeFits
<1> QED BY <1>2, <1>3, <1>4 DEF Sound

-----------------------------------------------------------------------------
(* The invariant *)

\* The network and what was written, and the client that is sound with them.
Network ==
    /\ history \in Seq(BOOLEAN) /\ Len(history) \in 1..MaxVersion
    /\ server \in Servers /\ server.at <= Len(history)
    /\ queue \in Seq(Messages) /\ Len(queue) <= MaxMessages
    /\ faults \in 0..MaxFaults

IInv ==
    /\ Network
    /\ client.resolutions <= MaxLimbo
    /\ client.open \/ ~server.news
    /\ Sound(client, queue, server.sessions)

\* What the server's end is made of.
LEMMA ServerFields ==
    ASSUME NEW s \in Servers
    PROVE  /\ s.at \in 1..MaxVersion /\ s.sessions \in [Targets -> Sessions]
           /\ s.news \in BOOLEAN
BY DEF Servers

\* A server's end without sessions.
LEMMA NoServerFields ==
    ASSUME NEW at \in 1..MaxVersion, NEW d, d = NoServer(at)
    PROVE  d \in Servers /\ d.at = at /\ d.sessions = NoSessions
<1>1. NoSession \in Sessions
  BY WatchAssumption DEF NoSession, Sessions
<1>2. NoSessions \in [Targets -> Sessions]
  BY <1>1 DEF NoSessions
<1>3. d = [at |-> at, sessions |-> NoSessions, news |-> FALSE]
  BY DEF NoServer, NoSessions
<1> HIDE DEF NoSessions
<1> QED BY <1>2, <1>3 DEF Servers

\* Sessions with one replaced.
LEMMA SessionFields ==
    ASSUME NEW f \in [Targets -> Sessions], NEW t \in Targets, NEW x \in Sessions
    PROVE  /\ Replaced(f, t, x) \in [Targets -> Sessions]
           /\ Replaced(f, t, x)[t] = x
           /\ \A u \in Targets \ {t} : Replaced(f, t, x)[u] = f[u]
BY DEF Replaced

\* The server with a new session.
ServerWith(s, t, x, b) == [s EXCEPT !.sessions[t] = x, !.news = b]

\* The server's end with one session replaced.
LEMMA ServerSet ==
    ASSUME NEW s \in Servers, NEW t \in Targets, NEW x \in Sessions, NEW b \in BOOLEAN,
           NEW d, d = ServerWith(s, t, x, b)
    PROVE  d \in Servers /\ d.at = s.at /\ d.sessions = Replaced(s.sessions, t, x)
<1> DEFINE ss == Replaced(s.sessions, t, x)
<1>1. ss \in [Targets -> Sessions]
  BY ServerFields, SessionFields
<1>2. d = [s EXCEPT !.sessions = ss, !.news = b]
  BY DEF Servers, Replaced, ServerWith
<1> HIDE DEF ss
<1>3. d \in Servers /\ d.at = s.at /\ d.sessions = ss
  BY <1>1, <1>2 DEF Servers
<1> QED BY <1>3 DEF ss

\* A message that is sent fits on the queue.
LEMMA SendType ==
    ASSUME Network, NEW m \in Messages, Send(m)
    PROVE  queue' \in Seq(Messages) /\ Len(queue') <= MaxMessages
<1>1. Len(queue) \in Nat /\ Len(queue) < MaxMessages /\ queue' = Append(queue, m)
  BY LenProperties DEF Network, Send
<1>2. queue' \in Seq(Messages) /\ Len(queue') = Len(queue) + 1
  BY <1>1, AppendProperties DEF Network
<1> QED BY <1>1, <1>2, WatchAssumption

\* A fault more.
LEMMA FaultyType ==
    ASSUME Network, Faulty
    PROVE  faults' \in 0..MaxFaults
BY WatchAssumption DEF Network, Faulty

\* The server's end reads what was written.
LEMMA HistoryFields ==
    ASSUME Network
    PROVE  /\ Len(history) \in Nat /\ DOMAIN history = 1..Len(history)
           /\ server.at \in DOMAIN history /\ history[server.at] \in BOOLEAN
           /\ server.at \in 1..MaxVersion
<1>1. Len(history) \in Nat /\ DOMAIN history = 1..Len(history)
  BY LenProperties DEF Network
<1>2. server.at \in 1..MaxVersion /\ server.at <= Len(history)
  BY ServerFields DEF Network
<1>3. server.at \in DOMAIN history
  BY <1>1, <1>2
<1>4. history[server.at] \in BOOLEAN
  BY <1>1, <1>3, ElementOfSeq DEF Network
<1> QED BY <1>1, <1>2, <1>3, <1>4

\* A client that is sound fits its type.
LEMMA ClientOfType ==
    ASSUME NEW c, NEW q, NEW s, Sound(c, q, s), c.resolutions <= MaxLimbo
    PROVE  c \in Clients
<1>1. c \in WideClients
  BY DEF Sound
<1>2. c.states \in [Targets -> TargetStates]
  <2>1. ASSUME NEW t \in Targets PROVE c.states[t] \in TargetStates
    <3>1. c.states[t] \in WideTargetStates
      BY <1>1, ClientFields
    <3>2. c.states[t].pending \in 0..2
      BY DEF Sound, Protocol, TargetProtocol
    <3> QED BY <3>1, <3>2 DEF WideTargetStates, TargetStates
  <2>2. c.states \in [Targets -> WideTargetStates]
    BY <1>1, ClientFields
  <2> QED BY <2>1, <2>2
<1>3. c.resolutions \in 0..MaxLimbo
  BY <1>1, ClientFields, WatchAssumption
<1> QED BY <1>1, <1>2, <1>3 DEF WideClients, Clients, Disks, Views

-----------------------------------------------------------------------------
(* The steps *)

\* Someone writes.
LEMMA WriteKeeps ==
    ASSUME IInv, NEW b \in BOOLEAN, Write(b)
    PROVE  IInv'
<1>1. history' = Append(history, b) /\ Len(history) < MaxVersion
      /\ UNCHANGED <<server, queue, client, faults>>
  BY DEF Write
<1>2. Len(history) \in Nat /\ history \in Seq(BOOLEAN) /\ Len(history) >= 1
  BY LenProperties DEF IInv, Network
<1>3. history' \in Seq(BOOLEAN) /\ Len(history') = Len(history) + 1
  BY <1>1, <1>2, AppendProperties
<1>4. Len(history') \in 1..MaxVersion
  BY <1>1, <1>2, <1>3, WatchAssumption
<1>5. server.at <= Len(history')
  BY <1>2, <1>3, ServerFields DEF IInv, Network
<1> QED BY <1>1, <1>3, <1>4, <1>5 DEF IInv, Network

\* The server's end catches up.
LEMMA AdvanceKeeps ==
    ASSUME IInv, Advance
    PROVE  IInv'
<1>1. server.at < Len(history) /\ server' = [server EXCEPT !.at = @ + 1]
      /\ UNCHANGED <<history, queue, client, faults>>
  BY DEF Advance
<1>2. server \in Servers /\ server.at \in 1..MaxVersion /\ Len(history) \in 1..MaxVersion
  BY ServerFields DEF IInv, Network
<1>3. server.at + 1 \in 1..MaxVersion /\ server.at + 1 <= Len(history)
  BY <1>1, <1>2, WatchAssumption
<1>4. /\ server' \in Servers /\ server'.sessions = server.sessions
      /\ server'.at = server.at + 1 /\ server'.news = server.news
  BY <1>1, <1>2, <1>3 DEF Servers
<1> QED BY <1>1, <1>3, <1>4 DEF IInv, Network

\* A watch request is served.
LEMMA ServeWatchKeeps ==
    ASSUME IInv, NEW r \in client.requests, ServeWatch(r)
    PROVE  IInv'
<1> DEFINE t == r.target
           m == [kind |-> "added", target |-> t]
           x == [phase |-> "added", sent |-> r.token]
           z == Replaced(server.sessions, t, x)
           d == Served(client, r)
<1>1. /\ r.kind = "watch" /\ server' = [server EXCEPT !.sessions[t] = x]
      /\ client' = d /\ Send(m) /\ UNCHANGED <<history, faults>>
  BY DEF ServeWatch, Served
<1>2. r \in Requests /\ t \in Targets /\ r.token \in 0..MaxVersion
  BY ClientFields DEF IInv, Sound, Requests
<1>3. m \in Messages /\ m.kind = "added" /\ m.target = t
  BY <1>2 DEF Messages
<1>4. x \in Sessions
  BY <1>2 DEF Sessions
<1>5. server \in Servers /\ server.news \in BOOLEAN
  BY ServerFields DEF IInv, Network
<1> HIDE DEF m, x, d
<1>6. server' \in Servers /\ server'.at = server.at /\ server'.sessions = z
  <2>1. server' = ServerWith(server, t, x, server.news)
    BY <1>1, <1>5 DEF Servers, ServerWith
  <2> QED BY <1>2, <1>4, <1>5, <2>1, ServerSet
<1>7. \A u \in Targets \ {t} : z[u] = server.sessions[u]
  BY <1>2, <1>4, <1>5, SessionFields, ServerFields
<1> HIDE DEF t, z
<1>8. Sound(d, queue', z)
  <2>1. queue' = Append(queue, m) /\ queue \in Seq(Messages) /\ t = r.target
    BY <1>1 DEF Send, IInv, Network, t
  <2>2. Sound(client, queue, server.sessions) /\ d = Served(client, r)
    BY DEF IInv, d
  <2> QED BY <1>1, <1>3, <1>7, <2>1, <2>2, ServeWatchSound
<1>9. d.resolutions = client.resolutions /\ d.open = client.open /\ client.open
  BY ServedEffect, ServedAsks DEF IInv, Sound, SameLimbo, d
<1>10. queue' \in Seq(Messages) /\ Len(queue') <= MaxMessages
  BY <1>1, <1>3, SendType DEF IInv
<1> QED BY <1>1, <1>6, <1>8, <1>9, <1>10 DEF IInv, Network

\* An unwatch request is served.
LEMMA ServeUnwatchKeeps ==
    ASSUME IInv, NEW r \in client.requests, ServeUnwatch(r)
    PROVE  IInv'
<1> DEFINE t == r.target
           m == [kind |-> "removed", target |-> t]
           x == NoSession
           z == Replaced(server.sessions, t, x)
           d == Served(client, r)
<1>1. /\ r.kind = "unwatch" /\ server' = [server EXCEPT !.sessions[t] = x]
      /\ client' = d /\ UNCHANGED <<history, faults>>
      /\ \A q \in client.requests : q.target = t => q = r
      /\ queue' = queue \/ (server.sessions[t] # NoSession /\ Send(m))
  BY DEF ServeUnwatch, Served
<1>2. t \in Targets
  BY ClientFields DEF IInv, Sound, Requests
<1>3. m \in Messages /\ m.kind = "removed" /\ m.target = t
  BY <1>2 DEF Messages
<1>4. x \in Sessions
  BY WatchAssumption DEF Sessions, NoSession
<1>5. server \in Servers /\ server.news \in BOOLEAN
  BY ServerFields DEF IInv, Network
<1>6. ~Asks(client, "watch", t)
  BY <1>1 DEF Asks
<1> HIDE DEF m, d
<1>7. server' \in Servers /\ server'.at = server.at /\ server'.sessions = z
  <2>1. server' = ServerWith(server, t, x, server.news)
    BY <1>1, <1>5 DEF Servers, ServerWith
  <2> HIDE DEF x
  <2> QED BY <1>2, <1>4, <1>5, <2>1, ServerSet
<1>8. z[t] = NoSession /\ \A u \in Targets \ {t} : z[u] = server.sessions[u]
  <2>1. server.sessions \in [Targets -> Sessions]
    BY <1>5, ServerFields
  <2> QED BY <1>2, <1>4, <2>1 DEF Replaced
<1> HIDE DEF t, z
<1>9. Sound(d, queue', z)
  <2>1. queue \in Seq(Messages) /\ t = r.target
    BY DEF IInv, Network, t
  <2>2. Sound(client, queue, server.sessions) /\ d = Served(client, r)
    BY DEF IInv, d
  <2> DEFINE q == queue
             p == queue'
             s == server.sessions
  <2>3. p = q \/ (s[t] # NoSession /\ p = Append(q, m))
    BY <1>1 DEF Send
  <2> HIDE DEF q, p, s
  <2>4. q \in Seq(Messages) /\ Sound(client, q, s) /\ \A u \in Targets \ {t} : z[u] = s[u]
    BY <1>8, <2>1, <2>2 DEF q, s
  <2>5. Sound(d, p, z)
    BY <1>1, <1>3, <1>6, <1>8, <2>1, <2>2, <2>3, <2>4, ServeUnwatchSound, SMTT(40)
  <2> QED BY <2>5 DEF p
<1>10. d.resolutions = client.resolutions /\ d.open = client.open /\ client.open
  BY ServedEffect, ServedAsks DEF IInv, Sound, SameLimbo, d
<1>11. queue' \in Seq(Messages) /\ Len(queue') <= MaxMessages
  BY <1>1, <1>3, SendType DEF IInv, Network
<1> QED BY <1>1, <1>7, <1>9, <1>10, <1>11 DEF IInv, Network

\* The server goes on with the target t, with a message or without.
LEMMA SentKeeps ==
    ASSUME IInv, NEW t \in Targets, server.sessions[t] # NoSession,
           NEW x \in Sessions, NEW b \in BOOLEAN, server' = ServerWith(server, t, x, b),
           client' = client, history' = history, faults' \in 0..MaxFaults,
           NEW m \in Messages, m.kind \notin {"added", "removed", "snapshot"}, m.target = t,
           m.kind = "rejected" => x = NoSession,
           queue' = queue \/ Send(m)
    PROVE  IInv'
<1> DEFINE s == server.sessions
           r == Replaced(s, t, x)
           q == queue
           p == queue'
<1>1. server \in Servers /\ s \in [Targets -> Sessions]
  BY ServerFields DEF IInv, Network
<1>2. server' \in Servers /\ server'.at = server.at /\ server'.sessions = r
  BY <1>1, ServerSet
<1>3. r[t] = x /\ \A u \in Targets \ {t} : r[u] = s[u]
  BY <1>1, SessionFields
<1>4. q \in Seq(Messages) /\ Sound(client, q, s) /\ s[t] # NoSession
  BY DEF IInv, Network
<1>5. p = q \/ p = Append(q, m)
  BY DEF Send
<1>6. queue' \in Seq(Messages) /\ Len(queue') <= MaxMessages
  BY SendType DEF IInv, Network
<1> HIDE DEF s, r, q, p
<1>7. m.kind = "rejected" => r[t] = NoSession
  BY <1>3
<1>8. Sound(client, p, r)
  <2>1. CASE p = q
    BY <1>3, <1>4, <2>1, UnsaidSound
  <2>2. CASE p = Append(q, m)
    <3>1. /\ m \in Messages /\ m.kind \notin {"added", "removed", "snapshot"} /\ m.target = t
          /\ t \in Targets
      OBVIOUS
    <3>2. \A u \in Targets \ {t} : r[u] = s[u]
      BY <1>3
    <3> QED BY <1>4, <1>7, <2>2, <3>1, <3>2, SentSound, ZenonT(60)
  <2> QED BY <1>5, <2>1, <2>2
<1>9. client.open
  BY <1>4, ClientFields DEF Sound, Protocol, WhenClosed, Idle
<1> QED BY <1>2, <1>6, <1>8, <1>9 DEF IInv, Network, p

\* The server tells of the document.
LEMMA SendDocumentKeeps ==
    ASSUME IInv, NEW t \in Targets, SendDocument(t)
    PROVE  IInv'
<1> DEFINE s == server.sessions[t]
           document == MaybeDocument(history[server.at], server.at)
           m1 == [kind |-> "document", target |-> t, document |-> document]
           m2 == [kind |-> "filter", target |-> t]
           x == [s EXCEPT !.sent = server.at]
           b == TRUE
<1>1. /\ s.phase # "none" /\ server' = [server EXCEPT !.sessions[t].sent = server.at,
                                                      !.news = TRUE]
      /\ queue' = queue \/ Send(m1) \/ Send(m2)
      /\ UNCHANGED <<history, client, faults>>
  BY DEF SendDocument
<1>2. server \in Servers /\ s \in Sessions /\ server.sessions \in [Targets -> Sessions]
  BY ServerFields DEF IInv, Network
<1>3. s # NoSession
  BY <1>1 DEF NoSession
<1>4. server.at \in 1..MaxVersion /\ history[server.at] \in BOOLEAN
  BY HistoryFields DEF IInv
<1>5. x \in Sessions
  BY <1>2, <1>4 DEF Sessions
<1>6. document \in MaybeDocuments
  BY <1>4 DEF MaybeDocument, MaybeDocuments
<1> HIDE DEF document
<1>7. /\ m1 \in Messages /\ m1.kind \notin {"added", "removed", "snapshot"} /\ m1.target = t
      /\ m1.kind # "rejected"
      /\ m2 \in Messages /\ m2.kind \notin {"added", "removed", "snapshot"} /\ m2.target = t
      /\ m2.kind # "rejected"
  BY <1>6 DEF Messages
<1>8. server' = ServerWith(server, t, x, b) /\ b \in BOOLEAN
  BY <1>1, <1>2 DEF Servers, ServerWith
<1>9. faults' \in 0..MaxFaults
  BY <1>1 DEF IInv, Network
<1> HIDE DEF m1, m2, x, b, s
<1>10. server.sessions[t] # NoSession
  BY <1>3 DEF s
<1>11. CASE queue' = queue \/ Send(m1)
  BY <1>1, <1>5, <1>7, <1>8, <1>9, <1>10, <1>11, SentKeeps
<1>12. CASE Send(m2)
  BY <1>1, <1>5, <1>7, <1>8, <1>9, <1>10, <1>12, SentKeeps
<1> QED BY <1>1, <1>11, <1>12

\* The server tells that a target is current.
LEMMA SendCurrentKeeps ==
    ASSUME IInv, NEW t \in Targets, SendCurrent(t)
    PROVE  IInv'
<1> DEFINE s == server.sessions[t]
           m == [kind |-> "current", target |-> t, token |-> server.at]
           x == [s EXCEPT !.phase = "current"]
           b == TRUE
<1>1. /\ s = [phase |-> "added", sent |-> server.at] /\ Send(m)
      /\ server' = [server EXCEPT !.sessions[t].phase = "current", !.news = TRUE]
      /\ UNCHANGED <<history, client, faults>>
  BY DEF SendCurrent
<1>2. server \in Servers /\ s \in Sessions /\ server.sessions \in [Targets -> Sessions]
  BY ServerFields DEF IInv, Network
<1>3. s # NoSession
  BY <1>1 DEF NoSession
<1>4. server.at \in 1..MaxVersion
  BY HistoryFields DEF IInv
<1>5. x \in Sessions
  BY <1>2 DEF Sessions
<1>6. /\ m \in Messages /\ m.kind \notin {"added", "removed", "snapshot"} /\ m.target = t
      /\ m.kind # "rejected"
  BY <1>4, WatchAssumption DEF Messages
<1>7. server' = ServerWith(server, t, x, b) /\ b \in BOOLEAN
  BY <1>1, <1>2 DEF Servers, ServerWith
<1>8. faults' \in 0..MaxFaults
  BY <1>1 DEF IInv, Network
<1> HIDE DEF m, x, b, s
<1>9. server.sessions[t] # NoSession
  BY <1>3 DEF s
<1> QED BY <1>1, <1>5, <1>6, <1>7, <1>8, <1>9, SentKeeps

\* The server tells of a global snapshot.
LEMMA SendSnapshotKeeps ==
    ASSUME IInv, SendSnapshot
    PROVE  IInv'
<1> DEFINE m == [kind |-> "snapshot", version |-> server.at]
           q == queue
           p == queue'
           s == server.sessions
<1>1. /\ server.news /\ server' = [server EXCEPT !.news = FALSE] /\ Send(m)
      /\ UNCHANGED <<history, client, faults>>
  BY DEF SendSnapshot
<1>2. server \in Servers /\ client.open
  BY <1>1, ServerFields DEF IInv, Network
<1>3. server.at \in 1..MaxVersion
  BY HistoryFields DEF IInv
<1>4. m \in Messages /\ m.kind = "snapshot"
  BY <1>3 DEF Messages
<1>5. server' \in Servers /\ server'.sessions = s /\ server'.at = server.at /\ ~server'.news
  BY <1>1, <1>2 DEF Servers
<1> HIDE DEF m
<1>6. q \in Seq(Messages) /\ p = Append(q, m) /\ Sound(client, q, s)
  BY <1>1 DEF Send, IInv, Network
<1>7. queue' \in Seq(Messages) /\ Len(queue') <= MaxMessages
  BY <1>1, <1>4, SendType DEF IInv
<1> HIDE DEF q, p, s
<1>8. Sound(client, p, s)
  BY <1>2, <1>4, <1>6, SnapshotSound
<1> QED BY <1>1, <1>5, <1>7, <1>8 DEF IInv, Network, p, s

\* The server starts a target over.
LEMMA SendResetKeeps ==
    ASSUME IInv, NEW t \in Targets, SendReset(t)
    PROVE  IInv'
<1> DEFINE s == server.sessions[t]
           m == [kind |-> "reset", target |-> t]
           x == [phase |-> "added", sent |-> 0]
           b == TRUE
<1>1. /\ s.phase # "none" /\ Send(m) /\ Faulty
      /\ server' = [server EXCEPT !.sessions[t] = x, !.news = TRUE]
      /\ UNCHANGED <<history, client>>
  BY DEF SendReset
<1>2. s # NoSession
  BY <1>1 DEF NoSession
<1>3. x \in Sessions
  BY WatchAssumption DEF Sessions
<1>4. /\ m \in Messages /\ m.kind \notin {"added", "removed", "snapshot"} /\ m.target = t
      /\ m.kind # "rejected"
  BY DEF Messages
<1> HIDE DEF m, x
<1>5. server' = ServerWith(server, t, x, b) /\ b \in BOOLEAN
  BY <1>1 DEF ServerWith
<1>6. faults' \in 0..MaxFaults
  BY <1>1, FaultyType DEF IInv
<1> HIDE DEF b, s
<1>7. server.sessions[t] # NoSession
  BY <1>2 DEF s
<1> QED BY <1>1, <1>3, <1>4, <1>5, <1>6, <1>7, SentKeeps

\* The server rejects a target.
LEMMA SendRejectionKeeps ==
    ASSUME IInv, NEW t \in Targets, SendRejection(t)
    PROVE  IInv'
<1> DEFINE s == server.sessions[t]
           m == [kind |-> "rejected", target |-> t]
           x == NoSession
           b == server.news
<1>1. /\ s.phase # "none" /\ Send(m) /\ Faulty
      /\ server' = [server EXCEPT !.sessions[t] = x]
      /\ UNCHANGED <<history, client>>
  BY DEF SendRejection
<1>2. s # NoSession
  BY <1>1 DEF NoSession
<1>3. x \in Sessions /\ server \in Servers /\ b \in BOOLEAN
  BY WatchAssumption, ServerFields DEF Sessions, NoSession, IInv, Network
<1>4. /\ m \in Messages /\ m.kind \notin {"added", "removed", "snapshot"} /\ m.target = t
      /\ x = NoSession
  BY DEF Messages
<1> HIDE DEF m, x
<1>5. server' = ServerWith(server, t, x, b)
  BY <1>1, <1>3 DEF ServerWith, Servers
<1>6. faults' \in 0..MaxFaults
  BY <1>1, FaultyType DEF IInv
<1> HIDE DEF b, s
<1>7. server.sessions[t] # NoSession
  BY <1>2 DEF s
<1> QED BY <1>1, <1>3, <1>4, <1>5, <1>6, <1>7, SentKeeps

-----------------------------------------------------------------------------
(* The stream, the messages and the app *)

\* The stream opens.
LEMMA StreamOpensKeeps ==
    ASSUME IInv, NEW at \in 1..Len(history), StreamOpens(at)
    PROVE  IInv'
<1> DEFINE d == Opened(client)
<1>1. /\ ~client.open /\ client' = d /\ server' = NoServer(at)
      /\ UNCHANGED <<history, queue, faults>>
  BY DEF StreamOpens, Opened, Watched, Request, OpenStates
<1>2. Len(history) \in 1..MaxVersion /\ at \in 1..MaxVersion /\ at <= Len(history)
  BY WatchAssumption DEF IInv, Network
<1> HIDE DEF d
<1>3. server' \in Servers /\ server'.at = at /\ server'.sessions = NoSessions
  BY <1>1, <1>2, NoServerFields
<1>4. Sound(d, queue, NoSessions)
  BY <1>1, OpenedSound DEF IInv, d
<1>5. d.resolutions = client.resolutions /\ d.open
  BY OpenedEffect DEF IInv, Sound, SameLimbo, d
<1> QED BY <1>1, <1>2, <1>3, <1>4, <1>5 DEF IInv, Network

\* An empty queue is a queue.
LEMMA EmptyQueue == <<>> \in Seq(Messages) /\ Len(<<>>) <= MaxMessages
<1>1. Len(<<>>) = 0
  OBVIOUS
<1> QED BY <1>1, WatchAssumption

\* A new server's end has sent nothing.
LEMMA NoServerNews == ASSUME NEW at PROVE ~NoServer(at).news
BY DEF NoServer

\* The stream is lost.
LEMMA StreamClosesKeeps ==
    ASSUME IInv, NEW online \in {"Unknown", "Offline"}, StreamCloses(online)
    PROVE  IInv'
<1> DEFINE d == Closed(client)
           e == UpdateState(d, online)
           ns == NoServer(1)
<1>1. /\ client' = e /\ server' = ns /\ queue' = <<>> /\ Faulty /\ UNCHANGED history
  BY DEF StreamCloses, Closed, FreshStates
<1>2. Len(history) \in 1..MaxVersion /\ 1 \in 1..MaxVersion /\ 1 <= Len(history)
  BY WatchAssumption DEF IInv, Network
<1>3. ns \in Servers /\ ns.at = 1 /\ ns.sessions = NoSessions /\ ~ns.news
  BY <1>2, NoServerFields, NoServerNews
<1> HIDE DEF ns, d
<1>4. Sound(d, <<>>, NoSessions) /\ d.resolutions = client.resolutions
  BY ClosedSound, ClosedEffect DEF IInv, Sound, SameLimbo, d
<1>5. online \in {"Unknown", "Online", "Offline"}
  OBVIOUS
<1>6. Sound(e, <<>>, NoSessions)
  BY <1>4, <1>5, UpdateStateSound
<1>7. e.resolutions = client.resolutions
  BY <1>4, <1>5, UpdateStateEffect DEF Sound, SameLimbo
<1>8. faults' \in 0..MaxFaults
  BY <1>1, FaultyType DEF IInv
<1> HIDE DEF e
<1> QED BY <1>1, <1>2, <1>3, <1>6, <1>7, <1>8, EmptyQueue DEF IInv, Network

\* The tracker changes its mind.
LEMMA OnlineStateChangesKeeps ==
    ASSUME IInv, NEW online \in {"Unknown", "Offline"}, OnlineStateChanges(online)
    PROVE  IInv'
<1> DEFINE e == UpdateState(client, online)
<1>1. client' = e /\ UNCHANGED <<history, server, queue, faults>>
  BY DEF OnlineStateChanges
<1>2. online \in {"Unknown", "Online", "Offline"}
  OBVIOUS
<1>3. Sound(e, queue, server.sessions)
  BY <1>2, UpdateStateSound DEF IInv
<1>4. e.resolutions = client.resolutions /\ e.open = client.open
  BY <1>2, UpdateStateEffect DEF IInv, Sound, SameLimbo, SameStream
<1> HIDE DEF e
<1> QED BY <1>1, <1>3, <1>4 DEF IInv, Network

\* The client takes a message.
LEMMA ReceiveKeeps ==
    ASSUME IInv, NEW old \in BOOLEAN, Receive(old)
    PROVE  IInv'
<1> DEFINE q == queue
           p == queue'
           m == Head(q)
           e == OnWatchStreamChange(client, m, old)
<1>1. /\ q # <<>> /\ p = Tail(q) /\ client' = e /\ e.resolutions <= MaxLimbo
      /\ UNCHANGED <<history, server, faults>>
  BY DEF Receive, Take
<1>2. client'.open = client.open
  BY DEF Receive, Link!Hears
<1>3. q \in Seq(Messages) /\ Sound(client, q, server.sessions)
  BY DEF IInv, Network
<1>4. p \in Seq(Messages) /\ Len(p) <= MaxMessages
  <2>1. Len(q) \in Nat /\ Len(q) <= MaxMessages /\ MaxMessages \in Nat
    BY <1>3, LenProperties, WatchAssumption DEF IInv, Network
  <2>2. p \in Seq(Messages) /\ Len(p) = Len(q) - 1
    BY <1>1, <1>3, HeadTailProperties
  <2> QED BY <2>1, <2>2
<1> HIDE DEF q, p, m
<1>5. Sound(e, p, server.sessions)
  BY <1>1, <1>3, OnWatchStreamChangeSound DEF m
<1> HIDE DEF e
<1> QED BY <1>1, <1>2, <1>4, <1>5 DEF IInv, Network, p

\* The app listens.
LEMMA ListeningKeeps ==
    ASSUME IInv, NEW l \in Listeners, Listening(l)
    PROVE  IInv'
<1> DEFINE e == AddQueryListener(client, l)
<1>1. client' = e /\ UNCHANGED <<history, server, queue, faults>>
  BY DEF Listening
<1> HIDE DEF e
<1>2. /\ Sound(e, queue, server.sessions) /\ e.open = client.open
      /\ e.resolutions = client.resolutions
  BY AddQueryListenerSound DEF IInv, e
<1> QED BY <1>1, <1>2 DEF IInv, Network

\* The app is started again.
LEMMA RestartKeeps ==
    ASSUME IInv, Restart
    PROVE  IInv'
<1> DEFINE k == client.disk
           n == client.newest
           e == Started(k, n)
           ns == NoServer(1)
<1>1. /\ client' = e /\ server' = ns /\ queue' = <<>> /\ Faulty /\ UNCHANGED history
  BY DEF Restart
<1>2. Len(history) \in 1..MaxVersion /\ 1 \in 1..MaxVersion /\ 1 <= Len(history)
  BY WatchAssumption DEF IInv, Network
<1>3. ns \in Servers /\ ns.at = 1 /\ ns.sessions = NoSessions /\ ~ns.news
  BY <1>2, NoServerFields, NoServerNews
<1>4. k \in Disks /\ n \in 0..MaxVersion
  BY ClientFields DEF IInv, Sound
<1>5. e.resolutions <= MaxLimbo
  BY WatchAssumption DEF Started
<1> HIDE DEF ns, k, n
<1>6. Sound(e, <<>>, NoSessions)
  BY <1>4, StartedSound
<1>7. faults' \in 0..MaxFaults
  BY <1>1, FaultyType DEF IInv
<1> HIDE DEF e
<1> QED BY <1>1, <1>2, <1>3, <1>5, <1>6, <1>7, EmptyQueue DEF IInv, Network

\* The system starts sound.
LEMMA InitHolds == Init => IInv
<1> SUFFICES ASSUME Init PROVE IInv
  OBVIOUS
<1> DEFINE k == [document |-> NoneVersion, keys |-> FALSE, token |-> 0, version |-> 0]
           n == 0
           e == Started(k, n)
           ns == NoServer(1)
<1>1. /\ client = e /\ server = ns /\ queue = <<>> /\ faults = 0
      /\ history = <<TRUE>> \/ history = <<FALSE>>
  BY DEF Init
<1>2. history \in Seq(BOOLEAN) /\ Len(history) = 1
  <2>1. /\ <<TRUE>> \in Seq(BOOLEAN) /\ Len(<<TRUE>>) = 1
        /\ <<FALSE>> \in Seq(BOOLEAN) /\ Len(<<FALSE>>) = 1
    OBVIOUS
  <2> QED BY <1>1, <2>1
<1>3. 1 \in 1..MaxVersion /\ 0 \in 0..MaxVersion /\ 0 \in 0..MaxFaults
  BY WatchAssumption
<1>4. ns \in Servers /\ ns.at = 1 /\ ns.sessions = NoSessions /\ ~ns.news
  BY <1>3, NoServerFields, NoServerNews
<1>5. k \in Disks /\ n \in 0..MaxVersion
  BY <1>3, NoneIsDocument DEF Disks
<1>6. e.resolutions <= MaxLimbo
  BY WatchAssumption DEF Started
<1> HIDE DEF ns, k, n
<1>7. Sound(e, <<>>, NoSessions)
  BY <1>5, StartedSound
<1> HIDE DEF e
<1> QED BY <1>1, <1>2, <1>3, <1>4, <1>6, <1>7, EmptyQueue DEF IInv, Network

\* Every step keeps the invariant.
LEMMA NextKeeps == IInv /\ [Next]_vars => IInv'
<1> SUFFICES ASSUME IInv, [Next]_vars PROVE IInv'
  OBVIOUS
<1>1. ASSUME NEW b \in BOOLEAN, Write(b) PROVE IInv'
  BY <1>1, WriteKeeps
<1>2. ASSUME Advance PROVE IInv'
  BY <1>2, AdvanceKeeps
<1>3. ASSUME NEW r \in client.requests, ServeWatch(r) \/ ServeUnwatch(r) PROVE IInv'
  BY <1>3, ServeWatchKeeps, ServeUnwatchKeeps
<1>4. ASSUME NEW t \in Targets,
             SendDocument(t) \/ SendCurrent(t) \/ SendReset(t) \/ SendRejection(t)
      PROVE  IInv'
  BY <1>4, SendDocumentKeeps, SendCurrentKeeps, SendResetKeeps, SendRejectionKeeps
<1>5. ASSUME SendSnapshot PROVE IInv'
  BY <1>5, SendSnapshotKeeps
<1>6. ASSUME NEW at \in 1..Len(history), StreamOpens(at) PROVE IInv'
  BY <1>6, StreamOpensKeeps
<1>7. ASSUME NEW s \in {"Unknown", "Offline"}, StreamCloses(s) \/ OnlineStateChanges(s)
      PROVE  IInv'
  BY <1>7, StreamClosesKeeps, OnlineStateChangesKeeps
<1>8. ASSUME NEW old \in BOOLEAN, Receive(old) PROVE IInv'
  BY <1>8, ReceiveKeeps
<1>9. ASSUME NEW l \in Listeners, Listening(l) PROVE IInv'
  BY <1>9, ListeningKeeps
<1>10. ASSUME Restart PROVE IInv'
  BY <1>10, RestartKeeps
<1>11. ASSUME UNCHANGED vars PROVE IInv'
  BY <1>11 DEF vars, IInv, Network
<1> QED BY <1>1, <1>2, <1>3, <1>4, <1>5, <1>6, <1>7, <1>8, <1>9, <1>10, <1>11 DEF Next

\* The invariant holds of every state: requests, messages and pending counts agree,
\* and so do targets, the view and what is pending.
THEOREM SpecSound == Spec => []IInv
<1>1. Init => IInv
  BY InitHolds
<1>2. IInv /\ [Next]_vars => IInv'
  BY NextKeeps
<1> QED BY <1>1, <1>2, PTL DEF Spec

\* Every variable has its type; no target is owed more than two answers.
THEOREM TypeCorrect == Spec => []TypeOK
<1>1. IInv => TypeOK
  BY ClientOfType DEF IInv, Network, TypeOK
<1> QED BY <1>1, SpecSound, PTL

\* No HARD_ASSERT on the way of a message or a call fails, however streams are lost
\* and targets rejected, reset or given up while answers are under way.
THEOREM AssertionsHold == Spec => []AssertsHold
<1>1. IInv => AssertsHold
  BY DEF IInv, Sound, Coherent, AssertsHold
<1> QED BY <1>1, SpecSound, PTL
=============================================================================
