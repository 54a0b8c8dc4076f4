---------------------------- MODULE DocumentWatch ----------------------------
(****************************************************************************)
(* From the watch stream to the app's listeners, for one document: requests *)
(* and messages, the aggregator that holds changes until a consistent       *)
(* snapshot, the local store, the view with its limbo document, and the     *)
(* listeners of the app.  The server and the network are external: what     *)
(* they may do is what the code of src/ expects of them.                    *)
(*                                                                          *)
(* The client's part runs on one worker queue: a step handles one message   *)
(* or one call, with everything it calls.  The functions of the code are    *)
(* operators from the client before the call to the client after it.        *)
(****************************************************************************)
EXTENDS Naturals, Sequences, FiniteSets

CONSTANTS
    Listeners,    \* the listeners the app may add for the document
    MaxVersion,   \* bound: versions of the document on the server
    MaxLimbo,     \* bound: limbo resolutions started
    MaxMessages,  \* bound: messages on their way to the client
    MaxFaults     \* bound: streams lost, restarts of the app, resets and
                  \* rejections by the server

ASSUME WatchAssumption ==
    /\ MaxVersion \in Nat \ {0}
    /\ MaxLimbo \in Nat
    /\ MaxMessages \in Nat
    /\ MaxFaults \in Nat

VARIABLES
    history,  \* history[v]: whether the document's version v exists
    server,   \* the server's end of the stream
    queue,    \* the messages on their way to the client
    client,   \* the client's state, in memory and on disk
    faults,   \* how many faults there were
    retracted \* history: the server started over or rejected a target while a
              \* document was on its way to the listeners, or rejected a limbo target

vars == <<history, server, queue, client, faults, retracted>>

Main == 0                     \* the target of the app's listeners
Targets == 0..MaxLimbo        \* and those of limbo resolutions, each used once

\* A document as the client knows it, or that there is none; version 0 is
\* SnapshotVersion::None().
MaybeDocument(exists, version) == [exists |-> exists, version |-> version]
NoneVersion == MaybeDocument(FALSE, 0)
MaybeDocuments == [exists : BOOLEAN, version : 0..MaxVersion]

Requests == [kind : {"watch", "unwatch"}, target : Targets, token : 0..MaxVersion]

Messages ==
         [kind : {"added", "removed", "reset", "rejected", "filter"}, target : Targets]
    \cup [kind : {"current"}, target : Targets, token : 0..MaxVersion]
    \cup [kind : {"document"}, target : Targets, document : MaybeDocuments]
    \cup [kind : {"snapshot"}, version : 1..MaxVersion]

\* WatchChangeAggregator's TargetState.  An entry that is not there behaves like
\* one without anything pending.
TargetStates ==
    [pending : 0..2,                          \* outstanding_responses_
     current : BOOLEAN,
     change : {"none", "Added", "Modified", "Removed"},
     dirty : BOOLEAN,                         \* has_pending_changes_
     token : 0..MaxVersion]                   \* the snapshot it stands for; 0: empty

FreshTarget == [pending |-> 0, current |-> FALSE, change |-> "none",
                dirty |-> FALSE, token |-> 0]

\* What the app's listeners were called with last; idle: one that was not added.
Events ==
         [kind : {"idle", "nothing", "missing", "failed"}]
    \cup [kind : {"version"}, is : 1..MaxVersion]

Clients ==
    [open : BOOLEAN,                        \* the watch stream is open
     online : {"Unknown", "Online", "Offline"},
     requests : SUBSET Requests,            \* sent, not yet served
     listens : SUBSET Targets,              \* listen_targets_
     tokens : [Targets -> 0..MaxVersion],   \* their resume tokens
     states : [Targets -> TargetStates],    \* target_states_
     updates : SUBSET MaybeDocuments,       \* pending_document_updates_: one or none
     disk : [document : MaybeDocuments,     \* the remote document cache
             keys : BOOLEAN,                \* the target's matching keys hold it
             token : 0..MaxVersion,         \* the target's resume token
             version : 0..MaxVersion],      \* the last remote snapshot version
     token : 0..MaxVersion,                 \* of target_data_by_target_
     view : [on : BOOLEAN,
             document : 0..MaxVersion,      \* the version in document_set_, or 0
             synced : BOOLEAN,              \* synced_documents_ holds it
             current : BOOLEAN,
             limbo : BOOLEAN,               \* limbo_documents_ holds it
             sync : {"None", "Local", "Synced"}],
     limbo : 0..MaxLimbo,                   \* the active limbo target, or 0
     received : BOOLEAN,                    \* its document_received
     resolutions : 0..MaxLimbo,             \* the limbo targets used up
     shown : [Listeners -> Events],
     newest : 0..MaxVersion,                \* history: the newest version shown
     asserted : BOOLEAN]                    \* an assertion failed

\* HARD_ASSERT(condition) on the way from one client to the next.
Asserting(condition, c) == IF condition THEN c ELSE [c EXCEPT !.asserted = TRUE]

-----------------------------------------------------------------------------
(* The app's listeners *)

\* Mutant: a first call is made as soon as there is a view.
ShouldRaiseInitialEventAtOnce(c, online) == TRUE

\* Whether a listener that was not called yet is called now.
ShouldRaiseInitialEvent(c, online) ==
    \/ c.view.sync = "Synced"
    \/ c.view.document # 0
    \/ online = "Offline"

EventOf(c) == IF c.view.document = 0 THEN [kind |-> "missing"]
                                     ELSE [kind |-> "version", is |-> c.view.document]

Raise(c, ls) ==
    [c EXCEPT !.shown = [l \in Listeners |-> IF l \in ls THEN EventOf(c) ELSE @[l]],
              !.newest = IF ls # {} /\ c.view.document > @ THEN c.view.document ELSE @]

Unraised(c) == {l \in Listeners : c.shown[l].kind = "nothing"}
Raised(c) == {l \in Listeners : c.shown[l].kind \in {"missing", "version"}}

\* A snapshot of the view for the listeners ls: one that was not called yet may
\* be, the others are if the document changed.  Metadata alone calls nobody.
OnViewSnapshot(c, ls, changed) ==
    Raise(c, ls \cap (    (IF ShouldRaiseInitialEvent(c, c.online) THEN Unraised(c) ELSE {})
                      \cup (IF changed THEN Raised(c) ELSE {})))

-----------------------------------------------------------------------------
(* The view *)

\* Mutant: whether the server has the document is not asked.
ApplyChangesNoLimbo(c, changed) ==
    LET sync == IF c.view.current THEN "Synced" ELSE "Local"
        d == [c EXCEPT !.view.sync = sync]
    IN  IF changed \/ sync # c.view.sync THEN OnViewSnapshot(d, Listeners, changed) ELSE d

\* ApplyChanges, once document_set_, synced_documents_ and current_ are what
\* they are to be: the limbo document, the sync state, and the snapshot, if
\* anything is new.
ApplyChanges(c, changed) ==
    LET v == c.view
        limbo == IF v.current THEN v.document # 0 /\ ~v.synced ELSE v.limbo
        sync == IF v.current /\ ~limbo THEN "Synced" ELSE "Local"
        d == [c EXCEPT !.view.limbo = limbo, !.view.sync = sync]
    IN  IF changed \/ sync # v.sync THEN OnViewSnapshot(d, Listeners, changed) ELSE d

\* A new state of the connection, if it is one: first the view, which is no
\* longer current when Offline, then the listeners that were not called yet.
UpdateState(c, online) ==
    LET d == IF online = "Offline" /\ c.online # online /\ c.view.on /\ c.view.current
               THEN ApplyChanges([c EXCEPT !.view.current = FALSE], FALSE)
               ELSE c
        e == [d EXCEPT !.online = online]
    IN  IF c.online # online /\ e.view.on /\ ShouldRaiseInitialEvent(e, online)
          THEN Raise(e, Unraised(e))
          ELSE e

-----------------------------------------------------------------------------
(* Requests *)

SendRequest(c, kind, t) ==
    [c EXCEPT !.requests = @ \cup {[kind |-> kind, target |-> t, token |-> c.tokens[t]]},
              !.states[t].pending = @ + 1]

Listen(c, t, token) ==
    IF t \in c.listens
      THEN c
      ELSE LET d == [c EXCEPT !.listens = @ \cup {t}, !.tokens[t] = token]
           IN  IF c.open THEN SendRequest(d, "watch", t) ELSE d

StopListening(c, t) ==
    LET d == [c EXCEPT !.listens = @ \ {t}]
    IN  Asserting(t \in c.listens, IF c.open THEN SendRequest(d, "unwatch", t) ELSE d)

-----------------------------------------------------------------------------
(* The limbo document: in the view, though the server does not say so *)

\* TrackLimboChange: the document gets a target of its own, if it has none.  (One
\* more than MaxLimbo stands for a step the bound cuts off.)
TrackLimbo(c) ==
    IF c.limbo # 0
      THEN c
      ELSE IF c.resolutions >= MaxLimbo THEN [c EXCEPT !.resolutions = MaxLimbo + 1]
      ELSE LET t == c.resolutions + 1
           IN  Listen([c EXCEPT !.limbo = t, !.received = FALSE, !.resolutions = t], t, 0)

RemoveLimboTarget(c) ==
    IF c.limbo = 0
      THEN c
      ELSE [StopListening(c, c.limbo) EXCEPT !.limbo = 0, !.received = FALSE]

\* UpdateTrackedLimboDocuments, before is the view's limbo before its change.
UpdateTrackedLimboDocuments(c, before) ==
    IF c.view.limbo /\ ~before THEN TrackLimbo(c)
    ELSE IF ~c.view.limbo /\ before THEN RemoveLimboTarget(c)
    ELSE c

-----------------------------------------------------------------------------
(* The aggregator *)

IsActiveTarget(c, t) == t \in c.listens /\ c.states[t].pending = 0

\* GetRemoteKeysForTarget, the document being the only one.
TargetContainsDocument(c, t) ==
    IF t # Main /\ t = c.limbo THEN c.received ELSE t = Main /\ c.view.on /\ c.view.synced

AddDocumentToTarget(c, t, document) ==
    IF ~IsActiveTarget(c, t)
      THEN c
      ELSE [c EXCEPT !.states[t].change =
                          IF TargetContainsDocument(c, t) THEN "Modified" ELSE "Added",
                     !.states[t].dirty = TRUE,
                     !.updates = {document}]

\* With what is known of the document now, if anything.
RemoveDocumentFromTarget(c, t, document) ==
    IF ~IsActiveTarget(c, t)
      THEN c
      ELSE [c EXCEPT !.states[t].change =
                          IF TargetContainsDocument(c, t) THEN "Removed" ELSE "none",
                     !.states[t].dirty = TRUE,
                     !.updates = IF document = {} THEN @ ELSE document]

HandleDocumentChange(c, t, document) ==
    IF document.exists THEN AddDocumentToTarget(c, t, document)
                       ELSE RemoveDocumentFromTarget(c, t, {document})

\* The document is not there any more: the filter's count is 0.
HandleExistenceFilter(c, t) == RemoveDocumentFromTarget(c, t, {NoneVersion})

\* The server answers a request.
RecordTargetResponse(c, t) == [c EXCEPT !.states[t].pending = @ - 1]

HandleAdded(c, t) ==
    LET d == RecordTargetResponse(c, t)
    IN  IF d.states[t].pending # 0
          THEN d
          ELSE [d EXCEPT !.states[t].dirty = FALSE, !.states[t].change = "none"]

HandleRemoved(c, t) ==
    LET d == RecordTargetResponse(c, t)
    IN  IF d.states[t].pending # 0 THEN d ELSE [d EXCEPT !.states[t] = FreshTarget]

UpdateResumeToken(s, token) ==
    IF token = 0 THEN s ELSE [s EXCEPT !.token = token, !.dirty = TRUE]

HandleCurrent(c, t, token) ==
    IF ~IsActiveTarget(c, t)
      THEN c
      ELSE [c EXCEPT !.states[t] =
                UpdateResumeToken([@ EXCEPT !.current = TRUE, !.dirty = TRUE], token)]

\* Mutant: the reset of a target leaves its document in place.
HandleResetKeeps(c, t) ==
    IF ~IsActiveTarget(c, t) THEN c ELSE [c EXCEPT !.states[t] = FreshTarget]

HandleReset(c, t) ==
    IF ~IsActiveTarget(c, t)
      THEN c
      ELSE LET d == [c EXCEPT !.states[t] = FreshTarget]
           IN  IF TargetContainsDocument(d, t) THEN RemoveDocumentFromTarget(d, t, {}) ELSE d

\* The token of a global snapshot is every active target's.
HandleNoChange(c, token) ==
    [c EXCEPT !.states = [t \in Targets |-> IF IsActiveTarget(c, t)
                                              THEN UpdateResumeToken(@[t], token)
                                              ELSE @[t]]]

\* Mutant: the absence of a document is not deduced.
DeduceMissingNever(c, version) == c

\* The first half of CreateRemoteEvent: a current target that never got its
\* document tells that there is none.  (Every active target has a new token
\* here, so it does not matter which of two comes first.)
DeduceMissing(c, version) ==
    IF /\ c.updates = {}
       /\ \E t \in Targets : /\ IsActiveTarget(c, t)
                             /\ c.states[t].current
                             /\ ~TargetContainsDocument(c, t)
      THEN [c EXCEPT !.updates = {MaybeDocument(FALSE, version)}]
      ELSE c

-----------------------------------------------------------------------------
(* From a remote event to the view *)

\* EmitNewSnapshotsAndNotifyLocalStore: documents is what changed in the cache,
\* change the main target's change, if there is one.
EmitNewSnapshots(c, documents, change) ==
    LET v == c.view
        document == IF documents = {} THEN v.document
                    ELSE IF \E m \in documents : m.exists
                      THEN (CHOOSE m \in documents : m.exists).version
                      ELSE 0
        synced == IF \E s \in change : s.change = "Added" THEN TRUE
                  ELSE IF \E s \in change : s.change = "Removed" THEN FALSE
                  ELSE v.synced
        current == IF change = {} THEN v.current ELSE \E s \in change : s.current
        d == [c EXCEPT !.view.document = document,
                       !.view.synced = synced,
                       !.view.current = current]
    IN  IF ~v.on
          THEN c
          ELSE Asserting(\A s \in change : s.change = "Modified" => v.synced,
                         UpdateTrackedLimboDocuments(
                            ApplyChanges(d, document # v.document), v.limbo))

\* LocalStore's part for the document updates of an event: which are news.
ApplyUpdates(c, updates) ==
    LET news == {m \in updates : m = NoneVersion \/ m.version > c.disk.document.version}
    IN  <<[c EXCEPT !.disk.document = IF news = {} THEN @ ELSE CHOOSE m \in news : TRUE],
          news>>

\* LocalStore's part for the change of the main target: its keys and its token,
\* which is written to disk when it is the first, when the document changed, or
\* when the one on disk is old.
ApplyTargetChange(c, change, old) ==
    IF change = {}
      THEN c
      ELSE LET s == CHOOSE s \in change : TRUE
           IN  [c EXCEPT
                  !.disk.keys = CASE s.change = "Added" -> TRUE
                                  [] s.change = "Removed" -> FALSE
                                  [] OTHER -> @,
                  !.token = IF s.token = 0 THEN @ ELSE s.token,
                  !.disk.token = IF s.token # 0 /\ (c.token = 0 \/ s.change # "none" \/ old)
                                   THEN s.token ELSE @]

\* SyncEngine's part for the limbo target.
ApplyLimboChange(c, change) ==
    IF change = {}
      THEN c
      ELSE LET s == CHOOSE s \in change : TRUE
           IN  Asserting(s.change \in {"Modified", "Removed"} => c.received,
                         [c EXCEPT !.received = CASE s.change = "Added" -> TRUE
                                                  [] s.change = "Removed" -> FALSE
                                                  [] OTHER -> @])

\* RaiseWatchSnapshot: everything that is pending becomes one event.
RaiseWatchSnapshot(c, version, old) ==
    LET d == DeduceMissing(c, version)
        changed == {t \in Targets : IsActiveTarget(d, t) /\ d.states[t].dirty}
        Change(t) == IF t \in changed THEN {d.states[t]} ELSE {}
        cleared ==
            [d EXCEPT !.states = [t \in Targets |->
                          IF t \in changed
                            THEN [@[t] EXCEPT !.dirty = FALSE, !.change = "none"]
                            ELSE @[t]],
                      !.tokens = [t \in Targets |->
                          IF t \in changed /\ d.states[t].token # 0
                            THEN d.states[t].token ELSE @[t]],
                      !.updates = {}]
        limbo == IF c.limbo = 0 THEN cleared ELSE ApplyLimboChange(cleared, Change(c.limbo))
        applied == ApplyUpdates(ApplyTargetChange(limbo, Change(Main), old), d.updates)
    IN  Asserting(version >= c.disk.version,
                  EmitNewSnapshots([applied[1] EXCEPT !.disk.version = version],
                                   applied[2], Change(Main)))

\* A target the server rejects.  Of the limbo target it means that the document
\* is not to be had; of the app's, that its listeners are done.
ProcessTargetError(c, t) ==
    LET d == [c EXCEPT !.listens = @ \ {t}, !.states[t] = FreshTarget]
        released == RemoveLimboTarget([d EXCEPT
            !.disk.token = d.token,
            !.token = 0,
            !.view = [on |-> FALSE, document |-> 0, synced |-> FALSE,
                      current |-> FALSE, limbo |-> FALSE, sync |-> "None"],
            !.shown = [l \in Listeners |-> IF @[l].kind = "idle" THEN @[l]
                                                               ELSE [kind |-> "failed"]]])
        applied == ApplyUpdates([d EXCEPT !.limbo = 0, !.received = FALSE], {NoneVersion})
    IN  IF t \notin c.listens THEN c
        ELSE IF t = Main THEN released
        ELSE EmitNewSnapshots(applied[1], applied[2], {})

\* Mutant: every global snapshot is raised.
IsNewsAlways(c, version) == TRUE

\* Global snapshots older than the last are passed over.
IsNews(c, version) == version >= c.disk.version

OnWatchStreamChange(c, m, old) ==
    LET d == UpdateState(c, "Online")
    IN  CASE m.kind = "added" -> HandleAdded(d, m.target)
          [] m.kind = "removed" -> HandleRemoved(d, m.target)
          [] m.kind = "current" -> HandleCurrent(d, m.target, m.token)
          [] m.kind = "reset" -> HandleReset(d, m.target)
          [] m.kind = "filter" -> HandleExistenceFilter(d, m.target)
          [] m.kind = "document" -> HandleDocumentChange(d, m.target, m.document)
          [] m.kind = "rejected" -> ProcessTargetError(d, m.target)
          [] m.kind = "snapshot" ->
                LET e == HandleNoChange(d, m.version)
                IN  IF IsNews(e, m.version) THEN RaiseWatchSnapshot(e, m.version, old) ELSE e

\* AddQueryListener: a listener gets the view's last snapshot; the first makes
\* the view, from the disk, and has the target listened to.
AddQueryListener(c, l) ==
    LET d == [c EXCEPT !.shown[l] = [kind |-> "nothing"]]
        viewed == ApplyChanges(
            [d EXCEPT !.token = c.disk.token,
                      !.view = [on |-> TRUE,
                                document |-> IF c.disk.document.exists
                                               THEN c.disk.document.version ELSE 0,
                                synced |-> c.disk.keys,
                                current |-> FALSE, limbo |-> FALSE, sync |-> "None"]],
            TRUE)
    IN  IF c.view.on THEN OnViewSnapshot(d, {l}, FALSE) ELSE Listen(viewed, Main, viewed.token)

-----------------------------------------------------------------------------
(* The server, external: what the code expects of it *)

NoSession == [phase |-> "none", sent |-> 0]

\* sent: the version the session is at.
Sessions == [phase : {"none", "added", "current"}, sent : 0..MaxVersion]

\* at: the version the server's end of the stream reads at, perhaps behind;
\* news: something was sent since the last global snapshot.
Servers == [at : 1..MaxVersion, sessions : [Targets -> Sessions], news : BOOLEAN]

Faulty == faults < MaxFaults /\ faults' = faults + 1

Send(m) == Len(queue) < MaxMessages /\ queue' = Append(queue, m)

NoServer(at) == [at |-> at, sessions |-> [t \in Targets |-> NoSession], news |-> FALSE]

\* Someone writes or deletes the document, or leaves it missing meanwhile.
Write(b) ==
    /\ Len(history) < MaxVersion
    /\ history' = Append(history, b)
    /\ UNCHANGED <<server, queue, client, faults, retracted>>

\* The server's end of the stream catches up.
Advance ==
    /\ server.at < Len(history)
    /\ server' = [server EXCEPT !.at = @ + 1]
    /\ UNCHANGED <<history, queue, client, faults, retracted>>

\* A watch request is served once the server has read as far as its token.
ServeWatch(r) ==
    /\ r.kind = "watch"
    /\ r.token <= server.at
    /\ server' = [server EXCEPT !.sessions[r.target] = [phase |-> "added", sent |-> r.token]]
    /\ client' = [client EXCEPT !.requests = @ \ {r}]
    /\ Send([kind |-> "added", target |-> r.target])
    /\ UNCHANGED <<history, faults, retracted>>

\* An unwatch request is served after the watch request before it; there is
\* nothing to answer for a target the server had rejected.
ServeUnwatch(r) ==
    /\ r.kind = "unwatch"
    /\ \A q \in client.requests : q.target = r.target => q = r
    /\ server' = [server EXCEPT !.sessions[r.target] = NoSession]
    /\ client' = [client EXCEPT !.requests = @ \ {r}]
    /\ IF server.sessions[r.target] = NoSession
         THEN UNCHANGED queue
         ELSE Send([kind |-> "removed", target |-> r.target])
    /\ UNCHANGED <<history, faults, retracted>>

\* The document, or that it is gone, as a deletion or as a filter, goes to a
\* target that is behind; a target that never had it is not told.
SendDocument(t) ==
    LET s == server.sessions[t]
        document == MaybeDocument(history[server.at], server.at)
    IN  /\ s.phase # "none"
        /\ s.sent < server.at
        /\ server' = [server EXCEPT !.sessions[t].sent = server.at, !.news = TRUE]
        /\ \/ Send([kind |-> "document", target |-> t, document |-> document])
           \/ ~document.exists /\ Send([kind |-> "filter", target |-> t])
           \/ ~document.exists /\ s.sent = 0 /\ UNCHANGED queue
        /\ UNCHANGED <<history, client, faults, retracted>>

SendCurrent(t) ==
    /\ server.sessions[t] = [phase |-> "added", sent |-> server.at]
    /\ server' = [server EXCEPT !.sessions[t].phase = "current", !.news = TRUE]
    /\ Send([kind |-> "current", target |-> t, token |-> server.at])
    /\ UNCHANGED <<history, client, faults, retracted>>

\* All targets served are at one version.
SendSnapshot ==
    /\ server.news
    /\ \A t \in Targets : server.sessions[t].phase # "none" => server.sessions[t].sent = server.at
    /\ server' = [server EXCEPT !.news = FALSE]
    /\ Send([kind |-> "snapshot", version |-> server.at])
    /\ UNCHANGED <<history, client, faults, retracted>>

\* A document is on its way to the listeners.  What of it the aggregator holds
\* back (pending_document_updates_) stays there when its target is started over
\* or dropped.
UnderWay ==
    client.updates # {} \/ \E i \in DOMAIN queue : queue[i].kind \in {"document", "filter"}

\* The server starts a target over.
SendReset(t) ==
    /\ Faulty
    /\ server.sessions[t].phase # "none"
    /\ server' = [server EXCEPT !.sessions[t] = [phase |-> "added", sent |-> 0], !.news = TRUE]
    /\ Send([kind |-> "reset", target |-> t])
    /\ retracted' = (retracted \/ UnderWay)
    /\ UNCHANGED <<history, client>>

SendRejection(t) ==
    /\ Faulty
    /\ server.sessions[t].phase # "none"
    /\ server' = [server EXCEPT !.sessions[t] = NoSession]
    /\ Send([kind |-> "rejected", target |-> t])
    /\ retracted' = (retracted \/ t # Main \/ UnderWay)
    /\ UNCHANGED <<history, client>>

-----------------------------------------------------------------------------
(* The stream *)

\* What the connection does is a step of OnlineLink, a doubt being timed.  (Nobody
\* enables the network while it is enabled: Link!Reenabled is not used.)
Link == INSTANCE OnlineLink WITH
    open <- client.open, online <- client.online, timed <- client.online = "Unknown"

\* OnWatchStreamOpen, with a server that reads anywhere from at on.
StreamOpens(at) ==
    /\ ~client.open
    /\ client' = [client EXCEPT
                    !.open = TRUE,
                    !.requests = {[kind |-> "watch", target |-> t, token |-> client.tokens[t]] :
                                      t \in client.listens},
                    !.states = [t \in Targets |->
                        [FreshTarget EXCEPT !.pending = IF t \in client.listens THEN 1 ELSE 0]]]
    /\ Link!Opens
    /\ server' = NoServer(at)
    /\ UNCHANGED <<history, queue, faults, retracted>>

\* Mutant: messages of the stream that ended still arrive.
StreamClosesNotQueue(online) ==
    /\ client.open
    /\ Faulty
    /\ client' = UpdateState([client EXCEPT !.open = FALSE, !.requests = {}, !.updates = {},
                                            !.states = [t \in Targets |-> FreshTarget]],
                             online)
    /\ Link!Closes
    /\ server' = NoServer(1)
    /\ UNCHANGED <<history, queue, retracted>>

\* The stream ends: requests and messages under way are lost, and with them the
\* aggregator and what it held back.
StreamCloses(online) ==
    /\ client.open
    /\ Faulty
    /\ client' = UpdateState([client EXCEPT !.open = FALSE, !.requests = {}, !.updates = {},
                                            !.states = [t \in Targets |-> FreshTarget]],
                             online)
    /\ Link!Closes
    /\ server' = NoServer(1)
    /\ queue' = <<>>
    /\ UNCHANGED <<history, retracted>>

\* The tracker doubts the connection, or gives it up, without a message.
OnlineStateChanges(online) ==
    /\ client' = UpdateState(client, online)
    /\ Link!TimesOut \/ (~client.open /\ Link!Closes)
    /\ UNCHANGED <<history, server, queue, faults, retracted>>

Take == queue # <<>> /\ queue' = Tail(queue)

\* The client takes the next message.
Receive(old) ==
    /\ Take
    /\ client' = OnWatchStreamChange(client, Head(queue), old)
    /\ client'.resolutions <= MaxLimbo
    /\ Link!Hears
    /\ UNCHANGED <<history, server, faults, retracted>>

-----------------------------------------------------------------------------
(* The app *)

Listening(l) ==
    /\ client.shown[l].kind = "idle"
    /\ client' = AddQueryListener(client, l)
    /\ UNCHANGED <<history, server, queue, faults, retracted>>

Started(disk, newest) ==
    [open |-> FALSE, online |-> "Unknown", requests |-> {}, listens |-> {},
     tokens |-> [t \in Targets |-> 0], states |-> [t \in Targets |-> FreshTarget],
     updates |-> {}, disk |-> disk, token |-> 0,
     view |-> [on |-> FALSE, document |-> 0, synced |-> FALSE, current |-> FALSE,
               limbo |-> FALSE, sync |-> "None"],
     limbo |-> 0, received |-> FALSE, resolutions |-> 0,
     shown |-> [l \in Listeners |-> [kind |-> "idle"]], newest |-> newest,
     asserted |-> FALSE]

\* The app is ended at any moment and started again: what is on disk stays.
Restart ==
    /\ Faulty
    /\ client' = Started(client.disk, client.newest)
    /\ Link!Closes
    /\ server' = NoServer(1)
    /\ queue' = <<>>
    /\ UNCHANGED <<history, retracted>>

Init ==
    /\ history \in {<<TRUE>>, <<FALSE>>}
    /\ server = NoServer(1)
    /\ queue = <<>>
    /\ client = Started([document |-> NoneVersion, keys |-> FALSE, token |-> 0, version |-> 0], 0)
    /\ faults = 0
    /\ retracted = FALSE

Next ==
    \/ \E b \in BOOLEAN : Write(b)
    \/ Advance
    \/ \E r \in client.requests : ServeWatch(r) \/ ServeUnwatch(r)
    \/ \E t \in Targets : \/ SendDocument(t)
                          \/ SendCurrent(t)
                          \/ SendReset(t)
                          \/ SendRejection(t)
    \/ SendSnapshot
    \/ \E at \in 1..Len(history) : StreamOpens(at)
    \/ \E s \in {"Unknown", "Offline"} : StreamCloses(s) \/ OnlineStateChanges(s)
    \/ \E old \in BOOLEAN : Receive(old)
    \/ \E l \in Listeners : Listening(l)
    \/ Restart

\* The network and the server do their part, and the worker queue its own: no
\* message waits for ever.
Fairness ==
    /\ WF_vars(Advance)
    /\ WF_vars(\E r \in client.requests : ServeWatch(r) \/ ServeUnwatch(r))
    /\ WF_vars(\E t \in Targets : SendDocument(t))
    /\ WF_vars(\E t \in Targets : SendCurrent(t))
    /\ WF_vars(SendSnapshot)
    /\ WF_vars(\E at \in 1..Len(history) : StreamOpens(at))
    /\ WF_queue(Take)

Spec == Init /\ [][Next]_vars /\ Fairness

-----------------------------------------------------------------------------
TypeOK ==
    /\ history \in Seq(BOOLEAN) /\ Len(history) \in 1..MaxVersion
    /\ server \in Servers
    /\ queue \in Seq(Messages) /\ Len(queue) <= MaxMessages
    /\ client \in Clients
    /\ faults \in 0..MaxFaults

\* No assertion fails on the way of a message or a call to the listeners: no
\* snapshot before the last one, no change of a document a view does not have,
\* no limbo document changed before it was received.
AssertsHold == ~client.asserted

\* A snapshot that is not from the cache shows what the server had at the
\* target's resume token or later, unless the server took something back: a
\* rejected limbo target deletes the document, though the app's target may have
\* it again.
SyncedIsServers ==
    client.view.sync = "Synced" /\ ~retracted =>
        \E v \in DOMAIN history :
            /\ v >= client.token
            /\ client.view.document = IF history[v] THEN v ELSE 0

\* Whenever the app is ended, what is on disk can be resumed from: the document
\* the target is said to hold is as it was on the server at the target's token
\* or later, so the server skips nothing the client does not have.  (Again unless
\* the server took something back.)
ResumesFromDisk ==
    client.disk.keys /\ ~retracted =>
        \E v \in DOMAIN history :
            /\ v >= client.disk.token
            /\ IF client.disk.document.exists THEN client.disk.document.version = v
                                              ELSE ~history[v]

\* Whoever listens is in the end shown the document as it is on the server, or
\* was failed by it, or the server took something back.
NewestIsShown ==
    \A l \in Listeners :
        client.shown[l].kind # "idle" ~>
            \/ retracted
            \/ client.shown[l].kind \in {"idle", "failed"}
            \/ client.shown[l] = IF history[Len(history)]
                                   THEN [kind |-> "version", is |-> Len(history)]
                                   ELSE [kind |-> "missing"]

\* Whatever happens to the connection, the view is in sync with the server again:
\* a listen that lost its currency when Offline gets it back (view.cc:315-317).
ComesBackInSync == client.view.on ~> (client.view.sync = "Synced" \/ ~client.view.on)

Promise == INSTANCE DocumentListener WITH
    newest <- client.newest,
    online <- client.online,
    shown <- [l \in Listeners |-> IF client.shown[l].kind = "idle"
                                    THEN [kind |-> "nothing"] ELSE client.shown[l]]

\* The app is only shown what DocumentListener promises.
ImplementsDocumentListener == Promise!Spec
=============================================================================
