--------------------------- MODULE WatchConnection ---------------------------
(****************************************************************************)
(* The connection every snapshot listener of the app shares: Firestore's    *)
(* watch stream, the part of RemoteStore that starts and stops it, and the  *)
(* tracker that tells the views whether the client is online.               *)
(*                                                                          *)
(* All of it runs on one worker queue, so a step here is one operation of   *)
(* that queue, with every call it makes.  What interleaves is the order of  *)
(* the operations: answers to token requests, the three timers, messages    *)
(* and the end of the stream, changes of network and user, and the calls of *)
(* the app.  The functions of the code are operators from the state before  *)
(* the call to the state after it.                                          *)
(****************************************************************************)
EXTENDS Naturals

CONSTANTS
    Targets,          \* what may be listened to
    RemovesListeners, \* TRUE: listeners are removed, which the app never does
    SwitchesNetwork,  \* TRUE: the network is switched, which the app never does
    ServerEndsOK,     \* TRUE: the server may end the stream with status OK
    MaxCloses         \* bound: times the stream is closed

ASSUME ConnectionAssumption ==
    /\ RemovesListeners \in BOOLEAN
    /\ SwitchesNetwork \in BOOLEAN
    /\ ServerEndsOK \in BOOLEAN
    /\ MaxCloses \in Nat

VARIABLE conn

kMaxWatchStreamFailures == 1

StreamStates == {"Initial", "Starting", "Open", "Error", "Backoff"}
OnlineStates == {"Unknown", "Online", "Offline"}

Connections ==
    [targets : SUBSET Targets,             \* listen_targets_
     enabled : BOOLEAN,                    \* is_network_enabled_
     aggregator : BOOLEAN,                 \* watch_change_aggregator_ is set
     stream : StreamStates,                \* the stream's state_
     closeCount : 0..MaxCloses,
     tokens : SUBSET (0..MaxCloses),       \* the close count each request for
                                           \* a token under way was made at
     idleTimer : BOOLEAN,
     backoffTimer : BOOLEAN,
     online : OnlineStates,                \* the tracker's state_
     failures : 0..kMaxWatchStreamFailures,
     onlineTimer : BOOLEAN,
     asserted : BOOLEAN]                   \* an assertion failed, or the
                                           \* aggregator was used while unset

\* HARD_ASSERT(condition) on the way from one state to the next state c.
Asserting(condition, c) == IF condition THEN c ELSE [c EXCEPT !.asserted = TRUE]

IsOpen(c) == c.stream = "Open"
IsStarted(c) == c.stream \in {"Starting", "Backoff", "Open"}
ShouldStartWatchStream(c) == c.enabled /\ ~IsStarted(c) /\ c.targets # {}

-----------------------------------------------------------------------------
(* OnlineStateTracker *)

UpdateState(c, s) ==
    [c EXCEPT !.onlineTimer = FALSE, !.failures = 0, !.online = s]

HandleWatchStreamStart(c) ==
    IF c.failures # 0
      THEN c
      ELSE Asserting(~c.onlineTimer,
                     [c EXCEPT !.online = "Unknown", !.onlineTimer = TRUE])

\* Mutant: a failure while Online is only counted.
HandleWatchStreamFailureCounted(c) ==
    IF c.online = "Online"
      THEN [c EXCEPT !.failures = 1]
      ELSE [c EXCEPT !.failures = 1, !.onlineTimer = FALSE, !.online = "Offline"]

\* The count is kept up to the maximum: nothing tells higher counts apart.
HandleWatchStreamFailure(c) ==
    IF c.online = "Online"
      THEN Asserting(c.failures = 0 /\ ~c.onlineTimer,
                     [c EXCEPT !.online = "Unknown"])
      ELSE IF c.failures + 1 >= kMaxWatchStreamFailures
        THEN [c EXCEPT !.failures = kMaxWatchStreamFailures,
                       !.onlineTimer = FALSE, !.online = "Offline"]
        ELSE [c EXCEPT !.failures = @ + 1]

-----------------------------------------------------------------------------
(* Starting the stream *)

BackoffAndTryRestarting(c) ==
    Asserting(c.stream = "Error",
              [c EXCEPT !.stream = "Backoff", !.backoffTimer = TRUE])

RequestCredentials(c) == [c EXCEPT !.tokens = @ \cup {c.closeCount}]

Start(c) ==
    IF c.stream = "Error"
      THEN BackoffAndTryRestarting(c)
      ELSE Asserting(c.stream = "Initial",
                     RequestCredentials([c EXCEPT !.stream = "Starting"]))

StartWatchStream(c) ==
    Asserting(ShouldStartWatchStream(c),
              HandleWatchStreamStart(Start([c EXCEPT !.aggregator = TRUE])))

\* A watch or unwatch request: it is recorded with the aggregator and written,
\* which cancels the idle timer.
SendRequest(c) ==
    Asserting(c.aggregator /\ IsOpen(c), [c EXCEPT !.idleTimer = FALSE])

OnWatchStreamOpen(c) == IF c.targets = {} THEN c ELSE SendRequest(c)

-----------------------------------------------------------------------------
(* Closing the stream *)

\* Mutant: the stream is not restarted while the client is Offline.
OnWatchStreamCloseGivesUp(c, ok) ==
    LET d == [c EXCEPT !.aggregator = FALSE]
    IN  IF ShouldStartWatchStream(d) /\ d.online # "Offline"
          THEN StartWatchStream(HandleWatchStreamFailure(d))
          ELSE UpdateState(d, "Unknown")

OnWatchStreamClose(c, ok) ==
    LET d == [c EXCEPT !.aggregator = FALSE]
    IN  Asserting(ok => ~ShouldStartWatchStream(c),
                  IF ShouldStartWatchStream(d)
                    THEN StartWatchStream(HandleWatchStreamFailure(d))
                    ELSE UpdateState(d, "Unknown"))

\* Mutant: the close count is raised twice.
CloseTwice(c, ok) ==
    IF ok /\ ~IsStarted(c)
      THEN c
      ELSE Asserting(IsStarted(c),
                     OnWatchStreamClose(
                        [c EXCEPT !.idleTimer = FALSE, !.backoffTimer = FALSE,
                                  !.closeCount = @ + 2,
                                  !.stream = IF ok THEN "Initial" ELSE "Error"],
                        ok))

\* Close, with status OK or with an error.  The timers cancelled here do not
\* run any more; a token request stays under way, for a close count that is past.
Close(c, ok) ==
    IF ok /\ ~IsStarted(c)
      THEN c
      ELSE Asserting(IsStarted(c),
                     OnWatchStreamClose(
                        [c EXCEPT !.idleTimer = FALSE, !.backoffTimer = FALSE,
                                  !.closeCount = @ + 1,
                                  !.stream = IF ok THEN "Initial" ELSE "Error"],
                        ok))

Stop(c) == Close(c, TRUE)

InhibitBackoff(c) == Asserting(~IsStarted(c), [c EXCEPT !.stream = "Initial"])

-----------------------------------------------------------------------------
(* RemoteStore's network switch *)

EnableNetwork(c) ==
    LET d == [c EXCEPT !.enabled = TRUE]
    IN  IF ShouldStartWatchStream(d) THEN StartWatchStream(d)
                                     ELSE UpdateState(d, "Unknown")

DisableNetworkInternal(c) == [Stop(c) EXCEPT !.aggregator = FALSE]

DisableNetwork(c) ==
    UpdateState(DisableNetworkInternal([c EXCEPT !.enabled = FALSE]), "Offline")

RestartNetwork(c) ==
    EnableNetwork(InhibitBackoff(UpdateState(
        DisableNetworkInternal([c EXCEPT !.enabled = FALSE]), "Unknown")))

-----------------------------------------------------------------------------
(* What runs on the worker queue *)

\* Mutant: the close count is not compared, so an answer meant for an earlier
\* attempt is taken for the current one.
AnswerTokenStale(c, k, ok) ==
    LET d == [c EXCEPT !.tokens = @ \ {k}]
    IN  Asserting(d.stream = "Starting",
                  IF ok THEN OnWatchStreamOpen([d EXCEPT !.stream = "Open"])
                        ELSE Close(d, FALSE))

\* A token, or none, arrives for the attempt made at close count k.  The stream
\* opens at once: gRPC does not wait for the server here.
AnswerToken(c, k, ok) ==
    LET d == [c EXCEPT !.tokens = @ \ {k}]
    IN  IF k # c.closeCount
          THEN d
          ELSE Asserting(d.stream = "Starting",
                         IF ok THEN OnWatchStreamOpen([d EXCEPT !.stream = "Open"])
                               ELSE Close(d, FALSE))

Listen(c, t) ==
    LET d == [c EXCEPT !.targets = @ \cup {t}]
    IN  IF ShouldStartWatchStream(d) THEN StartWatchStream(d)
        ELSE IF IsOpen(d) THEN SendRequest(d) ELSE d

StopListening(c, t) ==
    LET d == [c EXCEPT !.targets = @ \ {t}]
        e == IF IsOpen(d) THEN SendRequest(d) ELSE d
    IN  IF d.targets # {} THEN e
        ELSE IF IsOpen(d) THEN [e EXCEPT !.idleTimer = TRUE]
        ELSE IF d.enabled THEN UpdateState(e, "Unknown") ELSE e

\* A message of the server: the client is Online, and a target it rejects is
\* listened to no longer.
OnWatchStreamChange(c, rejected) ==
    LET d == UpdateState(c, "Online")
    IN  Asserting(d.aggregator, [d EXCEPT !.targets = @ \ rejected])

\* What the stream reads: a message that cannot be parsed closes it.
OnStreamRead(c, rejected, parsed) ==
    Asserting(IsStarted(c),
              IF parsed THEN OnWatchStreamChange(c, rejected) ELSE Close(c, FALSE))

BackoffElapsed(c) ==
    LET d == Start([c EXCEPT !.backoffTimer = FALSE, !.stream = "Initial"])
    IN  Asserting(c.stream = "Backoff" /\ IsStarted(d), d)

OnlineTimeout(c) ==
    Asserting(c.online = "Unknown",
              [c EXCEPT !.onlineTimer = FALSE, !.online = "Offline"])

-----------------------------------------------------------------------------
\* RemoteStore's Start, before the app listens to anything.
Init ==
    conn = EnableNetwork(
        [targets |-> {}, enabled |-> FALSE, aggregator |-> FALSE,
         stream |-> "Initial", closeCount |-> 0, tokens |-> {},
         idleTimer |-> FALSE, backoffTimer |-> FALSE, online |-> "Unknown",
         failures |-> 0, onlineTimer |-> FALSE, asserted |-> FALSE])

Running == ~conn.asserted
MayClose == conn.closeCount < MaxCloses

\* A listener for t is added, the first for t.
AppListens(t) ==
    /\ Running
    /\ t \notin conn.targets
    /\ conn' = Listen(conn, t)

\* The last listener for t is removed.
AppStopsListening(t) ==
    /\ Running
    /\ RemovesListeners
    /\ t \in conn.targets
    /\ conn' = StopListening(conn, t)

AppSwitchesNetwork(on) ==
    /\ Running
    /\ SwitchesNetwork
    /\ MayClose
    /\ conn' = IF on THEN EnableNetwork(conn) ELSE DisableNetwork(conn)

TokenArrives(k, ok) ==
    /\ Running
    /\ k \in conn.tokens
    /\ ok \/ MayClose
    /\ conn' = AnswerToken(conn, k, ok)

\* gRPC reports the end of the stream.
StreamFinishes(ok) ==
    /\ Running
    /\ IsOpen(conn)
    /\ MayClose
    /\ ok => ServerEndsOK
    /\ conn' = Close(conn, ok)

MessageArrives(rejected, parsed) ==
    /\ Running
    /\ IsOpen(conn)
    /\ parsed \/ MayClose
    /\ conn' = OnStreamRead(conn, rejected, parsed)

BackoffElapses ==
    /\ Running
    /\ conn.backoffTimer
    /\ conn' = BackoffElapsed(conn)

IdleElapses ==
    /\ Running
    /\ conn.idleTimer
    /\ MayClose
    /\ conn' = Stop(conn)

OnlineTimeoutElapses ==
    /\ Running
    /\ conn.onlineTimer
    /\ conn' = OnlineTimeout(conn)

\* The phone is on another network, or another user signed in: the streams are
\* restarted, unless the network is switched off.
NetworkOrUserChanges ==
    /\ Running
    /\ conn.enabled
    /\ MayClose
    /\ conn' = RestartNetwork(conn)

Next ==
    \/ \E t \in Targets : AppListens(t) \/ AppStopsListening(t)
    \/ \E on \in BOOLEAN : AppSwitchesNetwork(on)
    \/ \E k \in conn.tokens, ok \in BOOLEAN : TokenArrives(k, ok)
    \/ \E ok \in BOOLEAN : StreamFinishes(ok)
    \/ \E rejected \in SUBSET Targets, parsed \in BOOLEAN : MessageArrives(rejected, parsed)
    \/ BackoffElapses
    \/ IdleElapses
    \/ OnlineTimeoutElapses
    \/ NetworkOrUserChanges

Spec == Init /\ [][Next]_conn

-----------------------------------------------------------------------------
TypeOK == conn \in Connections

\* No assertion of stream.cc, remote_store.cc or online_state_tracker.cc fails,
\* and no request or message finds the aggregator unset, whatever the order in
\* which answers, timers, messages and calls reach the worker queue.
AssertsHold == ~conn.asserted

\* As long as something is listened to and the network is enabled, the client
\* is at it: it awaits a token for its current attempt, or has the stream open,
\* or waits out a backoff whose timer runs.
NeededIsTried ==
    (conn.enabled /\ conn.targets # {}) =>
        \/ conn.stream = "Starting" /\ conn.closeCount \in conn.tokens
        \/ conn.stream = "Open" /\ conn.aggregator
        \/ conn.stream = "Backoff" /\ conn.backoffTimer

\* The client takes itself for Online only while the stream is open: no view is
\* told so on the strength of a stream that is gone.
OnlineIsOpen == conn.online = "Online" => conn.stream = "Open"

\* Whenever the client listens and does not know whether it is online, the timer
\* runs that ends the doubt (online_state_tracker.cc:44-46): a first snapshot
\* that waits for the server waits that long at most.
UnknownIsTimed ==
    (conn.enabled /\ conn.targets # {} /\ conn.online = "Unknown") => conn.onlineTimer

Link == INSTANCE OnlineLink WITH
    open <- IsOpen(conn), online <- conn.online, timed <- conn.onlineTimer

\* To the views above, the connection is what OnlineLink says, whoever removes
\* listeners or switches the network: DocumentWatch rests on it.
ImplementsOnlineLink == Link!Spec
=============================================================================
