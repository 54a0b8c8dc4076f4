------------------------ MODULE WatchConnectionProofs ------------------------
(****************************************************************************)
(* The safety of the watch connection, for any set of targets and any       *)
(* number of closes.  Sound is the inductive invariant: beside what is      *)
(* checked it says which timer runs and which token is awaited in which     *)
(* state of the stream, and what the tracker's timer and count imply.       *)
(* Stopped is the shorter form it has between the moment the stream is put  *)
(* down and the moment it is started again, inside one step.                *)
(****************************************************************************)
EXTENDS WatchConnection, TLAPS

\* What the tracker's timer and failure count say about its state.
TrackerSound(c) ==
    /\ c.onlineTimer => c.online = "Unknown"
    /\ c.failures # 0 => c.online = "Offline"

Stopped(c) ==
    /\ c \in Connections
    /\ ~c.asserted
    /\ ~IsStarted(c)
    /\ \A k \in c.tokens : k < c.closeCount
    /\ ~c.idleTimer /\ ~c.backoffTimer
    /\ TrackerSound(c)

Sound(c) ==
    /\ c \in Connections
    /\ ~c.asserted
    /\ TrackerSound(c)
    /\ c.onlineTimer => IsStarted(c)
    /\ c.online = "Online" => IsOpen(c)
    /\ \A k \in c.tokens : k <= c.closeCount
    /\ c.closeCount \in c.tokens <=> c.stream = "Starting"
    /\ c.backoffTimer <=> c.stream = "Backoff"
    /\ c.idleTimer => IsOpen(c) /\ c.targets = {}
    /\ IsStarted(c) => c.aggregator
    /\ (c.enabled /\ c.targets # {}) => IsStarted(c)

\* Doubt is timed while the stream is started.
Timed(c) == (c.online = "Unknown" /\ IsStarted(c)) => c.onlineTimer

SameUse(c, d) == d.targets = c.targets /\ d.enabled = c.enabled

\* What the views may see of a step from c to a sound d with the stream open.
Linked(c, d) ==
    IsOpen(d) =>
        \/ d.online = c.online /\ d.onlineTimer = c.onlineTimer
        \/ IsOpen(c) /\ ~d.onlineTimer /\ d.online \in {"Online", "Unknown"}
        \/ IsOpen(c) /\ ~d.onlineTimer /\ d.online = "Offline" /\ c.onlineTimer

-----------------------------------------------------------------------------
(* What the functions of the code do to a sound state *)

\* Setting the tracker's state keeps the rest.
LEMMA UpdateStateFields ==
    ASSUME NEW c \in Connections, NEW s \in OnlineStates
    PROVE  /\ UpdateState(c, s) \in Connections
           /\ UpdateState(c, s).online = s
           /\ ~UpdateState(c, s).onlineTimer
           /\ UpdateState(c, s).failures = 0
           /\ UpdateState(c, s).stream = c.stream
           /\ UpdateState(c, s).closeCount = c.closeCount
           /\ UpdateState(c, s).tokens = c.tokens
           /\ UpdateState(c, s).idleTimer = c.idleTimer
           /\ UpdateState(c, s).backoffTimer = c.backoffTimer
           /\ UpdateState(c, s).aggregator = c.aggregator
           /\ UpdateState(c, s).asserted = c.asserted
           /\ SameUse(c, UpdateState(c, s))
<1>1. UpdateState(c, s) \in Connections
  <2>1. 0 \in 0..kMaxWatchStreamFailures
    BY DEF kMaxWatchStreamFailures
  <2> QED BY <2>1 DEF UpdateState, Connections
<1>2. /\ UpdateState(c, s).online = s /\ ~UpdateState(c, s).onlineTimer
      /\ UpdateState(c, s).failures = 0
  BY DEF UpdateState, Connections
<1> QED BY <1>1, <1>2 DEF UpdateState, Connections, SameUse

\* A stopped stream that is needed is started, and the attempt is timed.
LEMMA StartWatchStreamSound ==
    ASSUME NEW c, Stopped(c), ShouldStartWatchStream(c),
           ~c.onlineTimer, c.online # "Online"
    PROVE  /\ Sound(StartWatchStream(c))
           /\ Timed(StartWatchStream(c))
           /\ ~IsOpen(StartWatchStream(c))
           /\ SameUse(c, StartWatchStream(c))
<1> DEFINE a == [c EXCEPT !.aggregator = TRUE]
<1>1. /\ a \in Connections /\ a.aggregator
      /\ a.stream = c.stream /\ a.closeCount = c.closeCount /\ a.tokens = c.tokens
      /\ a.targets = c.targets /\ a.enabled = c.enabled /\ a.idleTimer = c.idleTimer
      /\ a.backoffTimer = c.backoffTimer /\ a.online = c.online
      /\ a.failures = c.failures /\ a.onlineTimer = c.onlineTimer /\ a.asserted = c.asserted
  BY DEF Stopped, Connections
<1> DEFINE b == Start(a)
<1>2. /\ b \in Connections /\ b.aggregator /\ ~b.asserted
      /\ b.closeCount = c.closeCount
      /\ \/ b.stream = "Starting" /\ b.tokens = c.tokens \cup {c.closeCount} /\ ~b.backoffTimer
         \/ b.stream = "Backoff" /\ b.tokens = c.tokens /\ b.backoffTimer
      /\ b.targets = c.targets /\ b.enabled = c.enabled /\ b.idleTimer = c.idleTimer
      /\ b.online = c.online /\ b.failures = c.failures /\ b.onlineTimer = c.onlineTimer
  <2>1. CASE a.stream = "Error"
    BY <1>1, <2>1 DEF Start, BackoffAndTryRestarting, Asserting, Connections,
                      StreamStates, Stopped
  <2>2. CASE a.stream = "Initial"
    BY <1>1, <2>2, ZenonT(60) DEF Start, RequestCredentials, Asserting, Connections,
                      StreamStates, Stopped
  <2> QED BY <1>1, <2>1, <2>2 DEF Stopped, IsStarted, Connections, StreamStates
<1> HIDE DEF a, b
<1> DEFINE d == HandleWatchStreamStart(b)
<1>3. /\ d \in Connections /\ d.aggregator /\ ~d.asserted
      /\ d.stream = b.stream /\ d.closeCount = b.closeCount /\ d.tokens = b.tokens
      /\ d.targets = b.targets /\ d.enabled = b.enabled /\ d.idleTimer = b.idleTimer
      /\ d.backoffTimer = b.backoffTimer
      /\ \/ d.online = "Unknown" /\ d.onlineTimer /\ d.failures = 0
         \/ d.online = "Offline" /\ ~d.onlineTimer
  BY <1>2 DEF HandleWatchStreamStart, Asserting, Connections, OnlineStates, Stopped,
              TrackerSound
<1>4. StartWatchStream(c) = d
  BY DEF StartWatchStream, Asserting, a, b
<1>5. d.closeCount \in Nat /\ \A k \in c.tokens : k \in Nat /\ k < d.closeCount
  BY <1>2, <1>3 DEF Stopped, Connections
<1>6. d.closeCount \in d.tokens <=> d.stream = "Starting"
  BY <1>2, <1>3, <1>5
<1>7. \A k \in d.tokens : k <= d.closeCount
  BY <1>2, <1>3, <1>5
<1> QED
  BY <1>1, <1>2, <1>3, <1>4, <1>6, <1>7
  DEF Sound, Timed, SameUse, TrackerSound, IsStarted, IsOpen, Stopped

\* A stopped stream nobody needs is sound, unless the tracker trusts it.
LEMMA StoppedIsSound ==
    ASSUME NEW c, Stopped(c), ~ShouldStartWatchStream(c),
           c.online # "Online", ~c.onlineTimer
    PROVE  Sound(c)
<1>1. c.closeCount \in Nat /\ c.tokens \subseteq Nat
  BY DEF Stopped, Connections
<1> QED BY <1>1 DEF Stopped, Sound, IsStarted, IsOpen, ShouldStartWatchStream

\* Once the stream is put down, the store starts it again if it is needed.
LEMMA OnWatchStreamCloseSound ==
    ASSUME NEW c, Stopped(c), NEW ok \in BOOLEAN, ok => ~ShouldStartWatchStream(c)
    PROVE  /\ Sound(OnWatchStreamClose(c, ok))
           /\ Timed(OnWatchStreamClose(c, ok))
           /\ ~IsOpen(OnWatchStreamClose(c, ok))
           /\ SameUse(c, OnWatchStreamClose(c, ok))
           /\ ~ShouldStartWatchStream(c) => Stopped(OnWatchStreamClose(c, ok))
<1> DEFINE d == [c EXCEPT !.aggregator = FALSE]
<1>1. /\ Stopped(d) /\ SameUse(c, d)
      /\ ShouldStartWatchStream(d) <=> ShouldStartWatchStream(c)
  BY DEF Stopped, Connections, SameUse, TrackerSound, ShouldStartWatchStream, IsStarted
<1> HIDE DEF d
<1>2. CASE ShouldStartWatchStream(d)
  <2> DEFINE f == HandleWatchStreamFailure(d)
  <2>0. /\ d \in Connections /\ TrackerSound(d)
        /\ d.failures \in {0, 1} /\ kMaxWatchStreamFailures = 1
    BY <1>1 DEF Stopped, Connections, kMaxWatchStreamFailures
  <2>1. /\ Stopped(f) /\ SameUse(d, f) /\ ~f.onlineTimer /\ f.online # "Online"
        /\ ShouldStartWatchStream(f)
    <3>1. CASE d.online = "Online"
      <4>1. f = [d EXCEPT !.online = "Unknown"]
        BY <2>0, <3>1 DEF HandleWatchStreamFailure, Asserting, TrackerSound
      <4> HIDE DEF f
      <4> QED BY <1>1, <1>2, <2>0, <3>1, <4>1 DEF Stopped, Connections, SameUse,
                 TrackerSound, ShouldStartWatchStream, IsStarted, OnlineStates
    <3>2. CASE d.online # "Online"
      <4>1. f = [d EXCEPT !.failures = 1, !.onlineTimer = FALSE, !.online = "Offline"]
        BY <2>0, <3>2 DEF HandleWatchStreamFailure
      <4> HIDE DEF f
      <4>2. f \in Connections
        <5>1. 1 \in 0..kMaxWatchStreamFailures
          BY <2>0
        <5> QED BY <2>0, <4>1, <5>1 DEF Connections, OnlineStates
      <4> QED BY <1>1, <1>2, <2>0, <3>2, <4>1, <4>2 DEF Stopped, Connections, SameUse,
                 TrackerSound, ShouldStartWatchStream, IsStarted, OnlineStates
    <3> QED BY <3>1, <3>2
  <2>2. OnWatchStreamClose(c, ok) = StartWatchStream(f)
    BY <1>2 DEF OnWatchStreamClose, Asserting, d
  <2> QED BY <1>1, <1>2, <2>1, <2>2, StartWatchStreamSound DEF SameUse
<1>3. CASE ~ShouldStartWatchStream(d)
  <2> DEFINE u == UpdateState(d, "Unknown")
  <2>1. OnWatchStreamClose(c, ok) = u
    BY <1>1, <1>3 DEF OnWatchStreamClose, Asserting, d
  <2>2. Stopped(u) /\ SameUse(d, u)
    BY <1>1, UpdateStateFields DEF Stopped, OnlineStates, TrackerSound, IsStarted
  <2>3. ~ShouldStartWatchStream(u) /\ u.online = "Unknown" /\ ~u.onlineTimer
    BY <1>1, <1>3, UpdateStateFields DEF Stopped, OnlineStates, ShouldStartWatchStream,
       IsStarted, SameUse
  <2>4. Sound(u)
    BY <2>2, <2>3, StoppedIsSound
  <2> QED BY <1>1, <2>1, <2>2, <2>4 DEF SameUse, Timed, Stopped, IsStarted, IsOpen
<1> QED BY <1>2, <1>3

\* Closing a started stream, also in the middle of an operation.
LEMMA CloseStartedSound ==
    ASSUME NEW c \in Connections, ~c.asserted, TrackerSound(c), IsStarted(c),
           \A k \in c.tokens : k <= c.closeCount,
           c.closeCount < MaxCloses,
           NEW ok \in BOOLEAN, ok => (~c.enabled \/ c.targets = {})
    PROVE  /\ Sound(Close(c, ok)) /\ Timed(Close(c, ok)) /\ ~IsOpen(Close(c, ok))
           /\ SameUse(c, Close(c, ok))
           /\ ok => Stopped(Close(c, ok))
<1>1. c.closeCount \in Nat /\ c.tokens \subseteq Nat
  BY DEF Connections
<1> DEFINE d == [c EXCEPT !.idleTimer = FALSE, !.backoffTimer = FALSE,
                          !.closeCount = @ + 1,
                          !.stream = IF ok THEN "Initial" ELSE "Error"]
<1>2. c.closeCount + 1 \in 0..MaxCloses
  BY <1>1, ConnectionAssumption
<1>3. /\ d \in Connections /\ d.closeCount = c.closeCount + 1 /\ d.tokens = c.tokens
      /\ d.stream \in {"Initial", "Error"} /\ ~d.idleTimer /\ ~d.backoffTimer
      /\ d.asserted = c.asserted /\ d.online = c.online /\ d.failures = c.failures
      /\ d.onlineTimer = c.onlineTimer /\ SameUse(c, d)
  BY <1>1, <1>2 DEF Connections, StreamStates, SameUse
<1>4. Stopped(d)
  BY <1>1, <1>3 DEF Stopped, TrackerSound, IsStarted
<1>5. ok => ~ShouldStartWatchStream(d)
  BY <1>3 DEF ShouldStartWatchStream, SameUse
<1>6. /\ Sound(OnWatchStreamClose(d, ok)) /\ Timed(OnWatchStreamClose(d, ok))
      /\ ~IsOpen(OnWatchStreamClose(d, ok))
      /\ SameUse(d, OnWatchStreamClose(d, ok))
      /\ ok => Stopped(OnWatchStreamClose(d, ok))
  BY <1>4, <1>5, OnWatchStreamCloseSound
<1>7. Close(c, ok) = OnWatchStreamClose(d, ok)
  BY DEF Close, Asserting
<1> QED BY <1>3, <1>6, <1>7 DEF SameUse

\* Stopping a sound stream nobody needs.
LEMMA StopSound ==
    ASSUME NEW c, Sound(c), c.closeCount < MaxCloses, ~c.enabled \/ c.targets = {}
    PROVE  /\ Sound(Stop(c)) /\ Stopped(Stop(c)) /\ SameUse(c, Stop(c))
<1>1. c \in Connections /\ c.closeCount \in Nat /\ c.tokens \subseteq Nat
  BY DEF Sound, Connections
<1>2. CASE ~IsStarted(c)
  <2>1. Stop(c) = c
    BY <1>2 DEF Stop, Close
  <2>2. c.stream # "Starting" /\ c.stream # "Backoff" /\ c.stream # "Open"
    BY <1>2 DEF IsStarted
  <2>3. Stopped(c)
    BY <1>1, <1>2, <2>2 DEF Sound, Stopped, IsOpen
  <2> QED BY <2>1, <2>3 DEF SameUse
<1>3. CASE IsStarted(c)
  BY <1>1, <1>3, CloseStartedSound DEF Sound, Stop
<1> QED BY <1>2, <1>3

\* A stopped stream is sound again once the network is enabled.
LEMMA EnableStoppedSound ==
    ASSUME NEW c, Stopped(c), c.online # "Online", ~c.onlineTimer
    PROVE  /\ Sound(EnableNetwork(c)) /\ Timed(EnableNetwork(c))
           /\ ~IsOpen(EnableNetwork(c))
           /\ EnableNetwork(c).enabled
           /\ EnableNetwork(c).targets = c.targets
<1> DEFINE d == [c EXCEPT !.enabled = TRUE]
<1>1. /\ Stopped(d) /\ d.enabled /\ d.targets = c.targets
      /\ d.online = c.online /\ d.onlineTimer = c.onlineTimer
  BY DEF Stopped, Connections, TrackerSound, IsStarted
<1> HIDE DEF d
<1>2. CASE ShouldStartWatchStream(d)
  <2>1. EnableNetwork(c) = StartWatchStream(d)
    BY <1>2 DEF EnableNetwork, d
  <2> QED BY <1>1, <1>2, <2>1, StartWatchStreamSound DEF SameUse
<1>3. CASE ~ShouldStartWatchStream(d)
  <2> DEFINE u == UpdateState(d, "Unknown")
  <2>1. EnableNetwork(c) = u
    BY <1>3 DEF EnableNetwork, d
  <2>2. /\ Stopped(u) /\ SameUse(d, u) /\ ~ShouldStartWatchStream(u)
        /\ u.online = "Unknown" /\ ~u.onlineTimer
    BY <1>1, <1>3, UpdateStateFields, ZenonT(60) DEF Stopped, OnlineStates, TrackerSound, IsStarted,
       ShouldStartWatchStream, SameUse
  <2>3. Sound(u)
    BY <2>2, StoppedIsSound
  <2> QED BY <1>1, <2>1, <2>2, <2>3 DEF SameUse, Timed, Stopped, IsStarted, IsOpen
<1> QED BY <1>2, <1>3

-----------------------------------------------------------------------------
(* One lemma for each kind of operation on the worker queue *)

\* A request to the server, on an open stream.
LEMMA SendRequestSound ==
    ASSUME NEW c, Sound(c), IsOpen(c)
    PROVE  /\ Sound(SendRequest(c)) /\ SameUse(c, SendRequest(c))
           /\ Timed(c) => Timed(SendRequest(c))
           /\ SendRequest(c).stream = "Open"
           /\ SendRequest(c).online = c.online
           /\ SendRequest(c).onlineTimer = c.onlineTimer
<1>1. SendRequest(c) = [c EXCEPT !.idleTimer = FALSE]
  BY DEF SendRequest, Asserting, Sound, IsOpen, IsStarted
<1> QED BY <1>1 DEF Sound, Connections, SameUse, Timed, IsStarted, IsOpen, TrackerSound

\* The answer to a request for a token, whether it is still wanted or not.
LEMMA AnswerTokenSound ==
    ASSUME NEW c, Sound(c), NEW k \in c.tokens, NEW ok \in BOOLEAN,
           ok \/ c.closeCount < MaxCloses
    PROVE  /\ Sound(AnswerToken(c, k, ok)) /\ SameUse(c, AnswerToken(c, k, ok))
           /\ Timed(c) => Timed(AnswerToken(c, k, ok))
           /\ Linked(c, AnswerToken(c, k, ok))
<1> DEFINE d == [c EXCEPT !.tokens = @ \ {k}]
<1>1. /\ d \in Connections /\ d.tokens = c.tokens \ {k} /\ SameUse(c, d)
      /\ d.stream = c.stream /\ d.closeCount = c.closeCount
      /\ d.idleTimer = c.idleTimer /\ d.backoffTimer = c.backoffTimer
      /\ d.online = c.online /\ d.failures = c.failures /\ d.onlineTimer = c.onlineTimer
      /\ d.aggregator = c.aggregator /\ d.asserted = c.asserted
  BY DEF Sound, Connections, SameUse
<1>2. CASE k # c.closeCount
  <2>1. AnswerToken(c, k, ok) = d
    BY <1>2 DEF AnswerToken
  <2> HIDE DEF d
  <2> QED BY <1>1, <1>2, <2>1
          DEF Sound, SameUse, Timed, IsStarted, IsOpen, TrackerSound, Linked
<1>3. CASE k = c.closeCount /\ ok
  <2> DEFINE e == [d EXCEPT !.stream = "Open"]
  <2>1. c.stream = "Starting"
    BY <1>3 DEF Sound
  <2>2. AnswerToken(c, k, ok) = OnWatchStreamOpen(e)
    BY <1>1, <1>3, <2>1 DEF AnswerToken, Asserting
  <2>3. /\ e \in Connections /\ e.tokens = d.tokens /\ SameUse(d, e)
        /\ e.stream = "Open" /\ e.closeCount = d.closeCount
        /\ e.idleTimer = d.idleTimer /\ e.backoffTimer = d.backoffTimer
        /\ e.online = d.online /\ e.failures = d.failures /\ e.onlineTimer = d.onlineTimer
        /\ e.aggregator = d.aggregator /\ e.asserted = d.asserted
    BY <1>1 DEF Connections, StreamStates, SameUse
  <2>4. d.aggregator
    BY <1>1, <2>1 DEF Sound, IsStarted
  <2> HIDE DEF d, e
  <2>5. /\ Sound(e) /\ IsOpen(e) /\ SameUse(c, e) /\ (Timed(c) => Timed(e))
        /\ e.online = c.online /\ e.onlineTimer = c.onlineTimer
    BY <1>1, <1>3, <2>1, <2>3, <2>4
    DEF Sound, SameUse, Timed, IsStarted, IsOpen, TrackerSound
  <2> QED BY <2>2, <2>5, SendRequestSound DEF OnWatchStreamOpen, SameUse, Linked
<1>4. CASE k = c.closeCount /\ ~ok
  <2>1. c.stream = "Starting"
    BY <1>4 DEF Sound
  <2>2. AnswerToken(c, k, ok) = Close(d, FALSE)
    BY <1>1, <1>4, <2>1 DEF AnswerToken, Asserting
  <2> HIDE DEF d
  <2>3. /\ ~d.asserted /\ TrackerSound(d) /\ IsStarted(d) /\ d.closeCount < MaxCloses
        /\ \A m \in d.tokens : m <= d.closeCount
    BY <1>1, <1>4, <2>1 DEF Sound, TrackerSound, IsStarted
  <2> QED BY <1>1, <2>2, <2>3, CloseStartedSound DEF SameUse, Linked
<1> QED BY <1>2, <1>3, <1>4

\* A new target: it starts a stopped stream, or is requested on an open one.
LEMMA ListenSound ==
    ASSUME NEW c, Sound(c), NEW t \in Targets
    PROVE  /\ Sound(Listen(c, t))
           /\ Timed(c) => Timed(Listen(c, t))
           /\ Listen(c, t).enabled = c.enabled
           /\ Linked(c, Listen(c, t))
<1> DEFINE d == [c EXCEPT !.targets = @ \cup {t}]
<1>1. /\ d \in Connections /\ d.targets = c.targets \cup {t} /\ d.enabled = c.enabled
      /\ d.stream = c.stream /\ d.closeCount = c.closeCount /\ d.tokens = c.tokens
      /\ d.idleTimer = c.idleTimer /\ d.backoffTimer = c.backoffTimer
      /\ d.online = c.online /\ d.failures = c.failures /\ d.onlineTimer = c.onlineTimer
      /\ d.aggregator = c.aggregator /\ d.asserted = c.asserted
  BY DEF Sound, Connections
<1>2. CASE ShouldStartWatchStream(d)
  <2>1. Listen(c, t) = StartWatchStream(d)
    BY <1>2 DEF Listen
  <2> HIDE DEF d
  <2>2. c.closeCount \in Nat /\ c.tokens \subseteq Nat
    BY DEF Sound, Connections
  <2>3. c.stream # "Starting" /\ c.stream # "Backoff" /\ c.stream # "Open"
    BY <1>1, <1>2 DEF ShouldStartWatchStream, IsStarted
  <2>4. Stopped(d) /\ ~d.onlineTimer /\ d.online # "Online"
    BY <1>1, <2>2, <2>3 DEF Sound, Stopped, TrackerSound, IsStarted, IsOpen
  <2> QED BY <1>1, <1>2, <2>1, <2>4, StartWatchStreamSound DEF SameUse, Linked
<1>3. CASE ~ShouldStartWatchStream(d) /\ IsOpen(d)
  <2>1. Listen(c, t) = [d EXCEPT !.idleTimer = FALSE]
    BY <1>1, <1>3 DEF Listen, SendRequest, Asserting, Sound, IsOpen, IsStarted
  <2> HIDE DEF d
  <2> QED BY <1>1, <1>3, <2>1, ZenonT(60)
          DEF Sound, Timed, Connections, TrackerSound, IsStarted, IsOpen, Linked
<1>4. CASE ~ShouldStartWatchStream(d) /\ ~IsOpen(d)
  <2>1. Listen(c, t) = d
    BY <1>4 DEF Listen
  <2> HIDE DEF d
  <2> QED BY <1>1, <1>4, <2>1 DEF Sound, Timed, TrackerSound, IsStarted, IsOpen,
                                  ShouldStartWatchStream, Linked
<1> QED BY <1>2, <1>3, <1>4

\* A target less: what is left of a stream nobody needs is marked idle, or the
\* tracker forgets it.
LEMMA StopListeningSound ==
    ASSUME NEW c, Sound(c), NEW t \in Targets
    PROVE  Sound(StopListening(c, t)) /\ Linked(c, StopListening(c, t))
<1> DEFINE d == [c EXCEPT !.targets = @ \ {t}]
           e == IF IsOpen(d) THEN SendRequest(d) ELSE d
<1>1. /\ Sound(d) /\ d.enabled = c.enabled /\ d.stream = c.stream
      /\ d.online = c.online /\ d.onlineTimer = c.onlineTimer
  BY DEF Sound, Connections, TrackerSound, IsStarted, IsOpen
<1> HIDE DEF d
<1>2. /\ Sound(e) /\ SameUse(d, e) /\ e.stream = d.stream
      /\ e.online = d.online /\ e.onlineTimer = d.onlineTimer
  BY <1>1, SendRequestSound DEF SameUse, IsOpen
<1> HIDE DEF e
<1>3. CASE d.targets # {}
  BY <1>1, <1>2, <1>3 DEF StopListening, Linked, d, e
<1>4. CASE d.targets = {} /\ IsOpen(d)
  <2>1. StopListening(c, t) = [e EXCEPT !.idleTimer = TRUE]
    BY <1>4 DEF StopListening, d, e
  <2> QED BY <1>1, <1>2, <1>4, <2>1, ZenonT(60)
          DEF Sound, Connections, TrackerSound, IsStarted, IsOpen, SameUse, Linked
<1>5. CASE d.targets = {} /\ ~IsOpen(d) /\ d.enabled
  <2>1. StopListening(c, t) = UpdateState(e, "Unknown")
    BY <1>5 DEF StopListening, d, e
  <2> QED BY <1>2, <1>5, <2>1, UpdateStateFields
          DEF Sound, OnlineStates, TrackerSound, IsStarted, IsOpen, SameUse, Linked
<1>6. CASE d.targets = {} /\ ~IsOpen(d) /\ ~d.enabled
  BY <1>1, <1>2, <1>6 DEF StopListening, Linked, d, e
<1> QED BY <1>3, <1>4, <1>5, <1>6

\* A message, which may be one that cannot be parsed.
LEMMA OnStreamReadSound ==
    ASSUME NEW c, Sound(c), IsOpen(c), NEW rejected \in SUBSET Targets,
           NEW parsed \in BOOLEAN, parsed \/ c.closeCount < MaxCloses
    PROVE  /\ Sound(OnStreamRead(c, rejected, parsed))
           /\ Timed(OnStreamRead(c, rejected, parsed))
           /\ OnStreamRead(c, rejected, parsed).enabled = c.enabled
           /\ Linked(c, OnStreamRead(c, rejected, parsed))
<1>1. IsStarted(c) /\ c.aggregator /\ c \in Connections
  BY DEF Sound, IsOpen, IsStarted
<1>2. CASE parsed
  <2> DEFINE u == UpdateState(c, "Online")
  <2>1. OnStreamRead(c, rejected, parsed) = [u EXCEPT !.targets = @ \ rejected]
    BY <1>1, <1>2, UpdateStateFields
    DEF OnStreamRead, OnWatchStreamChange, Asserting, OnlineStates
  <2>2. /\ Sound(u) /\ u.online = "Online" /\ ~u.onlineTimer /\ IsOpen(u)
        /\ u.enabled = c.enabled
    BY <1>1, UpdateStateFields
    DEF Sound, OnlineStates, TrackerSound, IsStarted, IsOpen, SameUse
  <2> HIDE DEF u
  <2> QED BY <2>1, <2>2
          DEF Sound, Connections, Timed, TrackerSound, IsStarted, IsOpen, Linked
<1>3. CASE ~parsed
  <2>1. OnStreamRead(c, rejected, parsed) = Close(c, FALSE)
    BY <1>1, <1>3 DEF OnStreamRead, Asserting
  <2>2. /\ ~c.asserted /\ TrackerSound(c) /\ c.closeCount < MaxCloses
        /\ \A k \in c.tokens : k <= c.closeCount
    BY <1>3 DEF Sound
  <2> QED BY <1>1, <2>1, <2>2, CloseStartedSound DEF SameUse, Linked
<1> QED BY <1>2, <1>3

\* The backoff is over: a token is requested for the next attempt.
LEMMA BackoffElapsedSound ==
    ASSUME NEW c, Sound(c), c.backoffTimer
    PROVE  /\ Sound(BackoffElapsed(c)) /\ SameUse(c, BackoffElapsed(c))
           /\ ~IsOpen(BackoffElapsed(c))
           /\ Timed(c) => Timed(BackoffElapsed(c))
<1>1. BackoffElapsed(c) = [c EXCEPT !.backoffTimer = FALSE, !.stream = "Starting",
                                    !.tokens = @ \cup {c.closeCount}]
  BY DEF BackoffElapsed, Start, RequestCredentials, Asserting, Sound, IsStarted, Connections
<1>2. c.closeCount \in Nat /\ c.tokens \subseteq Nat
  BY DEF Sound, Connections
<1>3. BackoffElapsed(c) \in Connections
  <2>1. /\ c.tokens \cup {c.closeCount} \in SUBSET (0..MaxCloses)
        /\ "Starting" \in StreamStates /\ c \in Connections
    BY DEF Sound, Connections, StreamStates
  <2> QED BY <1>1, <2>1 DEF Connections
<1> QED BY <1>1, <1>2, <1>3
        DEF Sound, SameUse, Timed, IsStarted, IsOpen, TrackerSound, Connections

\* The tracker's timer fires.
LEMMA OnlineTimeoutSound ==
    ASSUME NEW c, Sound(c), c.onlineTimer
    PROVE  /\ Sound(OnlineTimeout(c)) /\ Timed(OnlineTimeout(c))
           /\ SameUse(c, OnlineTimeout(c)) /\ Linked(c, OnlineTimeout(c))
<1>1. OnlineTimeout(c) = [c EXCEPT !.onlineTimer = FALSE, !.online = "Offline"]
  BY DEF OnlineTimeout, Asserting, Sound, TrackerSound
<1> QED BY <1>1, ZenonT(60) DEF Sound, Connections, OnlineStates, SameUse, Timed, IsStarted, IsOpen,
                    TrackerSound, Linked

\* The streams are restarted: the network is disabled, which lets Stop find the
\* stream not needed, and enabled again.
LEMMA RestartNetworkSound ==
    ASSUME NEW c, Sound(c), c.closeCount < MaxCloses
    PROVE  /\ Sound(RestartNetwork(c)) /\ Timed(RestartNetwork(c))
           /\ RestartNetwork(c).enabled /\ ~IsOpen(RestartNetwork(c))
<1> DEFINE d == [c EXCEPT !.enabled = FALSE]
           e == DisableNetworkInternal(d)
           u == UpdateState(e, "Unknown")
           i == InhibitBackoff(u)
<1>1. Sound(d) /\ ~d.enabled /\ d.closeCount < MaxCloses
  BY DEF Sound, Connections, TrackerSound, IsStarted, IsOpen
<1> HIDE DEF d
<1>2. Stopped(e)
  <2>1. Stopped(Stop(d))
    BY <1>1, StopSound
  <2> QED BY <2>1 DEF DisableNetworkInternal, Stopped, Connections, TrackerSound, IsStarted
<1> HIDE DEF e
<1>3. Stopped(u) /\ u.online = "Unknown" /\ ~u.onlineTimer
  BY <1>2, UpdateStateFields DEF Stopped, OnlineStates, TrackerSound, IsStarted
<1> HIDE DEF u
<1>4. i = [u EXCEPT !.stream = "Initial"]
  BY <1>3 DEF InhibitBackoff, Asserting, Stopped
<1> HIDE DEF i
<1>5. Stopped(i) /\ i.online = "Unknown" /\ ~i.onlineTimer
  BY <1>3, <1>4 DEF Stopped, Connections, StreamStates, TrackerSound, IsStarted
<1>6. RestartNetwork(c) = EnableNetwork(i)
  BY DEF RestartNetwork, d, e, u, i
<1> QED BY <1>5, <1>6, EnableStoppedSound

\* The network is switched off.
LEMMA DisableNetworkSound ==
    ASSUME NEW c, Sound(c), c.closeCount < MaxCloses
    PROVE  Sound(DisableNetwork(c)) /\ ~IsOpen(DisableNetwork(c))
<1> DEFINE d == [c EXCEPT !.enabled = FALSE]
           e == DisableNetworkInternal(d)
           u == UpdateState(e, "Offline")
<1>1. Sound(d) /\ ~d.enabled /\ d.closeCount < MaxCloses
  BY DEF Sound, Connections, TrackerSound, IsStarted, IsOpen
<1> HIDE DEF d
<1>2. Stopped(e) /\ ~e.enabled
  <2>1. Stopped(Stop(d)) /\ ~Stop(d).enabled
    BY <1>1, StopSound DEF SameUse
  <2> QED BY <2>1 DEF DisableNetworkInternal, Stopped, Connections, TrackerSound, IsStarted
<1> HIDE DEF e
<1>3. /\ Stopped(u) /\ u.online = "Offline" /\ ~u.onlineTimer
      /\ ~ShouldStartWatchStream(u)
  BY <1>2, UpdateStateFields
  DEF Stopped, OnlineStates, TrackerSound, IsStarted, ShouldStartWatchStream, SameUse
<1>4. DisableNetwork(c) = u
  BY DEF DisableNetwork, d, e, u
<1> QED BY <1>3, <1>4, StoppedIsSound DEF Stopped, IsStarted, IsOpen

\* The network is switched on, also when it is on already.
LEMMA EnableNetworkSound ==
    ASSUME NEW c, Sound(c)
    PROVE  Sound(EnableNetwork(c)) /\ Linked(c, EnableNetwork(c))
<1> DEFINE d == [c EXCEPT !.enabled = TRUE]
<1>1. /\ d \in Connections /\ d.targets = c.targets /\ d.enabled
      /\ d.stream = c.stream /\ d.closeCount = c.closeCount /\ d.tokens = c.tokens
      /\ d.idleTimer = c.idleTimer /\ d.backoffTimer = c.backoffTimer
      /\ d.online = c.online /\ d.failures = c.failures /\ d.onlineTimer = c.onlineTimer
      /\ d.aggregator = c.aggregator /\ d.asserted = c.asserted
  BY DEF Sound, Connections
<1>2. CASE ShouldStartWatchStream(d)
  <2>1. c.closeCount \in Nat /\ c.tokens \subseteq Nat
    BY DEF Sound, Connections
  <2>2. EnableNetwork(c) = StartWatchStream(d)
    BY <1>2 DEF EnableNetwork
  <2> HIDE DEF d
  <2>3. c.stream # "Starting" /\ c.stream # "Backoff" /\ c.stream # "Open"
    BY <1>1, <1>2 DEF ShouldStartWatchStream, IsStarted
  <2>4. Stopped(d) /\ ~d.onlineTimer /\ d.online # "Online"
    BY <1>1, <2>1, <2>3 DEF Sound, Stopped, TrackerSound, IsStarted, IsOpen
  <2> QED BY <1>2, <2>2, <2>4, StartWatchStreamSound DEF Linked
<1>3. CASE ~ShouldStartWatchStream(d)
  <2>1. EnableNetwork(c) = UpdateState(d, "Unknown")
    BY <1>3 DEF EnableNetwork
  <2> HIDE DEF d
  <2> QED BY <1>1, <1>3, <2>1, UpdateStateFields
          DEF Sound, OnlineStates, TrackerSound, IsStarted, IsOpen, SameUse,
              ShouldStartWatchStream, Linked
<1> QED BY <1>2, <1>3

-----------------------------------------------------------------------------
(* The theorems *)

\* The state RemoteStore's Start leaves is sound.
LEMMA InitSound ==
    Init => /\ Sound(conn) /\ Timed(conn) /\ conn.enabled
            /\ ~IsOpen(conn) /\ conn.online = "Unknown"
<1> DEFINE c == [targets |-> {}, enabled |-> FALSE, aggregator |-> FALSE,
                 stream |-> "Initial", closeCount |-> 0, tokens |-> {},
                 idleTimer |-> FALSE, backoffTimer |-> FALSE, online |-> "Unknown",
                 failures |-> 0, onlineTimer |-> FALSE, asserted |-> FALSE]
<1>1. Stopped(c) /\ c.online # "Online" /\ ~c.onlineTimer
  <2>1. 0 \in 0..MaxCloses /\ 0 \in 0..kMaxWatchStreamFailures
    BY ConnectionAssumption DEF kMaxWatchStreamFailures
  <2>2. c \in Connections
    BY <2>1 DEF Connections, StreamStates, OnlineStates
  <2> QED BY <2>2 DEF Stopped, TrackerSound, IsStarted
<1>2. Init => conn = EnableNetwork(c)
  BY DEF Init
<1>3. EnableNetwork(c).online = "Unknown"
  BY DEF EnableNetwork, ShouldStartWatchStream, UpdateState
<1> HIDE DEF c
<1> QED BY <1>1, <1>2, <1>3, EnableStoppedSound

\* Every operation of the worker queue keeps the state sound, as long as the
\* server does not end the stream with status OK.
LEMMA StepSound ==
    ASSUME ~ServerEndsOK, Sound(conn), [Next]_conn
    PROVE  Sound(conn')
<1>1. ASSUME NEW t \in Targets, AppListens(t) PROVE Sound(conn')
  BY <1>1, ListenSound DEF AppListens
<1>2. ASSUME NEW t \in Targets, AppStopsListening(t) PROVE Sound(conn')
  BY <1>2, StopListeningSound DEF AppStopsListening
<1>3. ASSUME NEW on \in BOOLEAN, AppSwitchesNetwork(on) PROVE Sound(conn')
  BY <1>3, EnableNetworkSound, DisableNetworkSound DEF AppSwitchesNetwork, MayClose
<1>4. ASSUME NEW k \in conn.tokens, NEW ok \in BOOLEAN, TokenArrives(k, ok)
      PROVE  Sound(conn')
  BY <1>4, AnswerTokenSound DEF TokenArrives, MayClose
<1>5. ASSUME NEW ok \in BOOLEAN, StreamFinishes(ok) PROVE Sound(conn')
  <2>1. conn' = Close(conn, FALSE) /\ IsOpen(conn) /\ conn.closeCount < MaxCloses
    BY <1>5 DEF StreamFinishes, MayClose
  <2>2. /\ conn \in Connections /\ ~conn.asserted /\ TrackerSound(conn)
        /\ \A k \in conn.tokens : k <= conn.closeCount
    BY DEF Sound
  <2>3. IsStarted(conn)
    BY <2>1 DEF IsOpen, IsStarted
  <2> QED BY <2>1, <2>2, <2>3, CloseStartedSound
<1>6. ASSUME NEW rejected \in SUBSET Targets, NEW parsed \in BOOLEAN,
             MessageArrives(rejected, parsed)
      PROVE  Sound(conn')
  BY <1>6, OnStreamReadSound DEF MessageArrives, MayClose
<1>7. ASSUME BackoffElapses PROVE Sound(conn')
  BY <1>7, BackoffElapsedSound DEF BackoffElapses
<1>8. ASSUME IdleElapses PROVE Sound(conn')
  BY <1>8, StopSound DEF IdleElapses, MayClose, Sound
<1>9. ASSUME OnlineTimeoutElapses PROVE Sound(conn')
  BY <1>9, OnlineTimeoutSound DEF OnlineTimeoutElapses
<1>10. ASSUME NetworkOrUserChanges PROVE Sound(conn')
  BY <1>10, RestartNetworkSound DEF NetworkOrUserChanges, MayClose
<1>11. ASSUME UNCHANGED conn PROVE Sound(conn')
  BY <1>11
<1> QED BY <1>1, <1>2, <1>3, <1>4, <1>5, <1>6, <1>7, <1>8, <1>9, <1>10, <1>11 DEF Next

\* Of every operation the views see what they may see.
LEMMA StepLinked ==
    ASSUME ~ServerEndsOK, Sound(conn), Next
    PROVE  Linked(conn, conn')
<1>1. ASSUME NEW t \in Targets, AppListens(t) PROVE Linked(conn, conn')
  BY <1>1, ListenSound DEF AppListens
<1>2. ASSUME NEW t \in Targets, AppStopsListening(t) PROVE Linked(conn, conn')
  BY <1>2, StopListeningSound DEF AppStopsListening
<1>3. ASSUME NEW on \in BOOLEAN, AppSwitchesNetwork(on) PROVE Linked(conn, conn')
  BY <1>3, EnableNetworkSound, DisableNetworkSound DEF AppSwitchesNetwork, MayClose, Linked
<1>4. ASSUME NEW k \in conn.tokens, NEW ok \in BOOLEAN, TokenArrives(k, ok)
      PROVE  Linked(conn, conn')
  BY <1>4, AnswerTokenSound DEF TokenArrives, MayClose
<1>5. ASSUME NEW ok \in BOOLEAN, StreamFinishes(ok) PROVE Linked(conn, conn')
  <2>1. conn' = Close(conn, FALSE) /\ IsOpen(conn) /\ conn.closeCount < MaxCloses
    BY <1>5 DEF StreamFinishes, MayClose
  <2>2. /\ conn \in Connections /\ ~conn.asserted /\ TrackerSound(conn)
        /\ \A k \in conn.tokens : k <= conn.closeCount
    BY DEF Sound
  <2>3. IsStarted(conn)
    BY <2>1 DEF IsOpen, IsStarted
  <2> QED BY <2>1, <2>2, <2>3, CloseStartedSound DEF Linked
<1>6. ASSUME NEW rejected \in SUBSET Targets, NEW parsed \in BOOLEAN,
             MessageArrives(rejected, parsed)
      PROVE  Linked(conn, conn')
  BY <1>6, OnStreamReadSound DEF MessageArrives, MayClose
<1>7. ASSUME BackoffElapses PROVE Linked(conn, conn')
  BY <1>7, BackoffElapsedSound DEF BackoffElapses, Linked
<1>8. ASSUME IdleElapses PROVE Linked(conn, conn')
  <2>1. Stopped(conn')
    BY <1>8, StopSound DEF IdleElapses, MayClose, Sound
  <2> QED BY <2>1 DEF Stopped, IsStarted, IsOpen, Linked
<1>9. ASSUME OnlineTimeoutElapses PROVE Linked(conn, conn')
  BY <1>9, OnlineTimeoutSound DEF OnlineTimeoutElapses
<1>10. ASSUME NetworkOrUserChanges PROVE Linked(conn, conn')
  BY <1>10, RestartNetworkSound DEF NetworkOrUserChanges, MayClose, Linked
<1> QED BY <1>1, <1>2, <1>3, <1>4, <1>5, <1>6, <1>7, <1>8, <1>9, <1>10 DEF Next

\* As long as nobody removes a listener or switches the network, doubt is timed
\* after every operation.
LEMMA StepTimed ==
    ASSUME ~ServerEndsOK, ~RemovesListeners, ~SwitchesNetwork,
           Sound(conn), Timed(conn), conn.enabled, [Next]_conn
    PROVE  Timed(conn') /\ conn'.enabled
<1>1. ASSUME NEW t \in Targets, AppListens(t) PROVE Timed(conn') /\ conn'.enabled
  BY <1>1, ListenSound DEF AppListens
<1>2. ASSUME NEW k \in conn.tokens, NEW ok \in BOOLEAN, TokenArrives(k, ok)
      PROVE  Timed(conn') /\ conn'.enabled
  BY <1>2, AnswerTokenSound DEF TokenArrives, MayClose, SameUse
<1>3. ASSUME NEW ok \in BOOLEAN, StreamFinishes(ok) PROVE Timed(conn') /\ conn'.enabled
  <2>1. conn' = Close(conn, FALSE) /\ IsOpen(conn) /\ conn.closeCount < MaxCloses
    BY <1>3 DEF StreamFinishes, MayClose
  <2>2. /\ conn \in Connections /\ ~conn.asserted /\ TrackerSound(conn)
        /\ \A k \in conn.tokens : k <= conn.closeCount
    BY DEF Sound
  <2>3. IsStarted(conn)
    BY <2>1 DEF IsOpen, IsStarted
  <2> QED BY <2>1, <2>2, <2>3, CloseStartedSound DEF SameUse
<1>4. ASSUME NEW rejected \in SUBSET Targets, NEW parsed \in BOOLEAN,
             MessageArrives(rejected, parsed)
      PROVE  Timed(conn') /\ conn'.enabled
  BY <1>4, OnStreamReadSound DEF MessageArrives, MayClose
<1>5. ASSUME BackoffElapses PROVE Timed(conn') /\ conn'.enabled
  BY <1>5, BackoffElapsedSound DEF BackoffElapses, SameUse
<1>6. ASSUME IdleElapses PROVE Timed(conn') /\ conn'.enabled
  BY <1>6, StopSound DEF IdleElapses, MayClose, Sound, SameUse, Stopped, Timed
<1>7. ASSUME OnlineTimeoutElapses PROVE Timed(conn') /\ conn'.enabled
  BY <1>7, OnlineTimeoutSound DEF OnlineTimeoutElapses, SameUse
<1>8. ASSUME NetworkOrUserChanges PROVE Timed(conn') /\ conn'.enabled
  BY <1>8, RestartNetworkSound DEF NetworkOrUserChanges, MayClose
<1>9. ASSUME UNCHANGED conn PROVE Timed(conn') /\ conn'.enabled
  BY <1>9
<1> QED BY <1>1, <1>2, <1>3, <1>4, <1>5, <1>6, <1>7, <1>8, <1>9
        DEF Next, AppStopsListening, AppSwitchesNetwork

\* The connection is sound for ever, whatever the order of the operations, if
\* the server never ends the stream with status OK.
THEOREM SoundForEver ==
    ASSUME ~ServerEndsOK
    PROVE  Spec => []Sound(conn)
<1> DEFINE IInv == Sound(conn)
<1>1. Init => IInv
  BY InitSound
<1>2. IInv /\ [Next]_conn => IInv'
  BY StepSound
<1> QED BY <1>1, <1>2, PTL DEF Spec

\* The state always has its type: in particular no token is awaited for a close
\* count that is yet to come.
THEOREM TypeCorrect ==
    ASSUME ~ServerEndsOK
    PROVE  Spec => []TypeOK
<1>1. Sound(conn) => TypeOK
  BY DEF Sound, TypeOK
<1> QED BY <1>1, SoundForEver, PTL

\* No assertion of the stream, the store or the tracker ever fails.
THEOREM AssertionsHold ==
    ASSUME ~ServerEndsOK
    PROVE  Spec => []AssertsHold
<1>1. Sound(conn) => AssertsHold
  BY DEF Sound, AssertsHold
<1> QED BY <1>1, SoundForEver, PTL

\* A stream that is needed is always opened, open or about to be tried again.
THEOREM NeededTried ==
    ASSUME ~ServerEndsOK
    PROVE  Spec => []NeededIsTried
<1>1. Sound(conn) => NeededIsTried
  BY DEF Sound, NeededIsTried, IsStarted
<1> QED BY <1>1, SoundForEver, PTL

\* The client is Online only on the strength of a stream that is open.
THEOREM OnlineOpen ==
    ASSUME ~ServerEndsOK
    PROVE  Spec => []OnlineIsOpen
<1>1. Sound(conn) => OnlineIsOpen
  BY DEF Sound, OnlineIsOpen, IsOpen
<1> QED BY <1>1, SoundForEver, PTL

\* The connection implements OnlineLink: an operation that leaves the stream open
\* opened it, or the client heard a message, or its doubt timed out or began anew;
\* any other leaves no stream and nobody Online.
THEOREM ConnectionImplementsLink ==
    ASSUME ~ServerEndsOK
    PROVE  Spec => ImplementsOnlineLink
<1> DEFINE IInv == Sound(conn)
<1>1. Init => Link!Init
  <2>1. Init => Sound(conn) /\ ~IsOpen(conn)
    BY InitSound
  <2>2. Init => conn.online = "Unknown"
    BY InitSound
  <2>3. Sound(conn) => conn.onlineTimer \in BOOLEAN
    BY DEF Sound, Connections
  <2> QED BY <2>1, <2>2, <2>3 DEF Link!Init
<1>2. IInv /\ IInv' /\ [Next]_conn => [Link!Next]_(Link!link)
  <2> SUFFICES ASSUME Sound(conn), Sound(conn'), [Next]_conn
               PROVE  [Link!Next]_(Link!link)
    OBVIOUS
  <2>1. CASE UNCHANGED conn
    BY <2>1 DEF Link!link
  <2>2. CASE ~IsOpen(conn')
    <3>1. /\ conn'.online \in {"Unknown", "Offline"} /\ conn'.onlineTimer \in BOOLEAN
          /\ conn'.onlineTimer => conn'.online = "Unknown"
      BY <2>2 DEF Sound, Connections, OnlineStates, TrackerSound
    <3> QED BY <2>2, <3>1 DEF Link!Next, Link!Closes
  <2>3. CASE Next /\ IsOpen(conn')
    <3>1. Linked(conn, conn')
      BY <2>3, StepLinked
    <3>2. /\ conn.onlineTimer \in BOOLEAN /\ conn'.onlineTimer \in BOOLEAN
          /\ IsOpen(conn) \in BOOLEAN /\ IsOpen(conn') = TRUE
      BY <2>3 DEF Sound, Connections, IsOpen
    <3>3. CASE ~IsOpen(conn)
      BY <2>3, <3>1, <3>2, <3>3 DEF Linked, Link!Next, Link!Opens
    <3>4. CASE IsOpen(conn)
      BY <2>3, <3>1, <3>2, <3>4 DEF Linked, Link!Next, Link!link, Link!Hears,
                                    Link!TimesOut, Link!Reenabled
    <3> QED BY <3>3, <3>4
  <2> QED BY <2>1, <2>2, <2>3
<1> QED BY <1>1, <1>2, SoundForEver, PTL DEF Spec, ImplementsOnlineLink, Link!Spec

\* For an app that never removes a listener nor switches the network, as this
\* one, a doubt about being online is always timed.
THEOREM DoubtTimed ==
    ASSUME ~ServerEndsOK, ~RemovesListeners, ~SwitchesNetwork
    PROVE  Spec => []UnknownIsTimed
<1> DEFINE IInv == Sound(conn) /\ Timed(conn) /\ conn.enabled
<1>1. Init => IInv
  BY InitSound
<1>2. IInv /\ [Next]_conn => IInv'
  <2> SUFFICES ASSUME IInv, [Next]_conn PROVE IInv'
    OBVIOUS
  <2>1. Sound(conn')
    BY StepSound
  <2>2. Timed(conn') /\ conn'.enabled
    BY StepTimed
  <2> QED BY <2>1, <2>2
<1>3. IInv => UnknownIsTimed
  BY DEF Sound, Timed, UnknownIsTimed
<1> QED BY <1>1, <1>2, <1>3, PTL DEF Spec
=============================================================================
