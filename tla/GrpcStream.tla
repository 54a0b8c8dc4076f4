------------------------------ MODULE GrpcStream ------------------------------
(****************************************************************************)
(* One gRPC stream of the Firestore client, between two threads: the worker *)
(* queue, on which the stream and its observer live, and the thread that    *)
(* takes finished operations off gRPC's completion queue and puts their     *)
(* callbacks on the worker queue.  To end a stream the worker blocks until  *)
(* gRPC holds no operation of it any more, since the stream and its call    *)
(* must outlive them.                                                       *)
(*                                                                          *)
(* The functions of the code are operators from the state before the call   *)
(* to the state after it.  What a function does once a wait is over is in   *)
(* todo, and the other thread may step in between.                          *)
(****************************************************************************)
EXTENDS Naturals, Sequences

CONSTANTS
    MaxMessages,  \* bound: messages of the server
    MaxWrites     \* bound: messages the observer writes

ASSUME StreamAssumption == MaxMessages \in Nat /\ MaxWrites \in Nat

VARIABLE stream

Types == {"Read", "Write", "Finish"}

\* What a function may have still to do, in this order.
Todos == {"AwaitLast", "Await", "Finish", "Drain", "UnsetObserver", "Notify", "Destroy"}

Streams ==
    [life : {"new", "started", "destroyed"},
     observer : BOOLEAN,              \* observer_ is set
     finished : BOOLEAN,              \* is_grpc_call_finished_
     notifies : BOOLEAN,              \* the Finish operation has a callback
     completions : SUBSET Types,      \* completions_; there is one of a type
     cancelled : BOOLEAN,             \* their callbacks were dropped
     buffer : Seq(1..MaxWrites),      \* the BufferedWriter's queue_
     active : BOOLEAN,                \* has_active_write_
     asked : 0..MaxWrites,            \* the messages written so far
     todo : SUBSET Todos,             \* what the worker's operation has still to do
     posted : Seq([type : Types, ok : BOOLEAN]),  \* callbacks on the worker queue
     call : {"live", "broken", "cancelled"},
     held : SUBSET Types,             \* the operations gRPC holds
     writing : 0..MaxWrites,          \* the message of the last Write
     sent : Seq(1..MaxWrites),        \* history: the messages that left
     read : 0..MaxMessages,           \* the messages gRPC has read
     told : Seq(1..MaxMessages),      \* history: those the observer got
     notified : BOOLEAN,              \* history: OnStreamFinish was called
     asserted : BOOLEAN]              \* an assertion failed, or a rule of gRPC
                                      \* or of C++'s lifetimes was broken

\* HARD_ASSERT(condition) on the way from one state to the next state c.
Asserting(condition, c) == IF condition THEN c ELSE [c EXCEPT !.asserted = TRUE]

-----------------------------------------------------------------------------
(* Operations *)

\* An operation goes to gRPC, which takes one of a type at a time.
NewCompletion(c, type) ==
    Asserting(type \notin c.held,
              [c EXCEPT !.completions = @ \cup {type}, !.held = @ \cup {type}])

Read(c) == IF c.observer THEN NewCompletion(c, "Read") ELSE c

\* Mutant: the message buffered last is written first.
TryStartWriteLatest(c) ==
    IF c.buffer = <<>> \/ c.active
      THEN c
      ELSE NewCompletion([c EXCEPT !.active = TRUE,
                                   !.writing = c.buffer[Len(c.buffer)],
                                   !.buffer = SubSeq(@, 1, Len(@) - 1)], "Write")

\* The next buffered message, unless one is being written.
TryStartWrite(c) ==
    IF c.buffer = <<>> \/ c.active
      THEN c
      ELSE NewCompletion([c EXCEPT !.active = TRUE, !.writing = Head(c.buffer),
                                   !.buffer = Tail(@)], "Write")

EnqueueWrite(c) ==
    TryStartWrite([c EXCEPT !.asked = @ + 1, !.buffer = Append(@, c.asked + 1)])

-----------------------------------------------------------------------------
(* The end of a stream *)

\* Mutant: the callbacks are waited for, but not dropped.
CancelNot(c) == c

\* All pending callbacks are dropped; those on the worker queue run without
\* effect and are left out.
Cancel(c) == [c EXCEPT !.cancelled = TRUE, !.posted = <<>>]

FastFinishCompletionsBlocking(c) == [Cancel(c) EXCEPT !.todo = @ \cup {"Await"}]

FinishGrpcCall(c, notifies) ==
    Asserting(~c.finished,
              FastFinishCompletionsBlocking(
                 [c EXCEPT !.finished = TRUE, !.notifies = notifies,
                           !.todo = @ \cup {"Finish"}]))

\* Mutant: the call is not cancelled.
ShutdownNoCancel(c) ==
    IF c.completions # {} /\ ~c.finished
      THEN FinishGrpcCall([c EXCEPT !.todo = @ \cup {"Drain"}], FALSE)
      ELSE FastFinishCompletionsBlocking(c)

\* A call that runs is cancelled and finished; then nothing may be left of it.
Shutdown(c) ==
    IF c.completions # {} /\ ~c.finished
      THEN FinishGrpcCall([c EXCEPT !.call = "cancelled", !.todo = @ \cup {"Drain"}], FALSE)
      ELSE FastFinishCompletionsBlocking(c)

FinishImmediately(c) == Shutdown([c EXCEPT !.todo = @ \cup {"UnsetObserver"}])

FinishAndNotify(c) == Shutdown([c EXCEPT !.todo = @ \cup {"Notify"}])

\* The last message is only written if no other is being written, and it is
\* awaited for half a second at most.
WriteAndFinish(c) ==
    LET last == EnqueueWrite(c)
    IN  IF c.finished THEN FinishImmediately(c)
        ELSE IF c.active THEN FinishImmediately(last)
        ELSE [last EXCEPT !.todo = @ \cup {"AwaitLast"}]

\* What the observer's OnStreamFinish does: it destroys the stream, and finishes
\* it once more before if the status is OK.
OnStreamFinish(c, ok) ==
    LET d == [c EXCEPT !.todo = @ \cup {"Destroy"}]
    IN  IF ok THEN FinishImmediately(d) ELSE d

Destroy(c) == Asserting(c.completions = {} /\ c.held = {}, [c EXCEPT !.life = "destroyed"])

-----------------------------------------------------------------------------
(* Callbacks *)

\* The next read is asked for before the observer is told.
OnRead(c) == IF c.observer THEN [Read(c) EXCEPT !.told = Append(@, c.read)] ELSE c

OnWrite(c) == IF c.observer THEN TryStartWrite([c EXCEPT !.active = FALSE]) ELSE c

OnOperationFailed(c) == IF c.finished THEN c ELSE FinishGrpcCall(c, TRUE)

\* A callback that was not dropped runs, on a stream that must still be there.
Callback(c, type, ok) ==
    LET d == [c EXCEPT !.completions = @ \ {type}]
    IN  Asserting(c.life # "destroyed" /\ type \in c.completions,
                  CASE ~ok -> OnOperationFailed(d)
                    [] ok /\ type = "Read" -> OnRead(d)
                    [] ok /\ type = "Write" -> OnWrite(d)
                    [] ok /\ type = "Finish" -> IF c.notifies THEN FinishAndNotify(d) ELSE d)

-----------------------------------------------------------------------------
Running == ~stream.asserted

\* The worker is free for the next operation on its queue.
Free == Running /\ stream.todo = {}

Init ==
    stream = [life |-> "new", observer |-> TRUE, finished |-> FALSE, notifies |-> FALSE,
              completions |-> {}, cancelled |-> FALSE, buffer |-> <<>>, active |-> FALSE,
              asked |-> 0, todo |-> {}, posted |-> <<>>, call |-> "live", held |-> {},
              writing |-> 0, sent |-> <<>>, read |-> 0, told |-> <<>>,
              notified |-> FALSE, asserted |-> FALSE]

\* The call starts at once: gRPC does not wait for the server.
Start ==
    /\ Free
    /\ stream.life = "new"
    /\ stream' = Read([stream EXCEPT !.life = "started"])

\* The observer writes, in an operation of its own or in one of its callbacks.
ObserverWrites ==
    /\ Free
    /\ stream.life = "started"
    /\ stream.asked < MaxWrites
    /\ stream' = EnqueueWrite(stream)

\* The observer ends the stream, also before its start, or with a last message.
ObserverFinishes(last) ==
    /\ Free
    /\ stream.life # "destroyed"
    /\ last => stream.life = "started" /\ stream.asked < MaxWrites
    /\ LET d == [stream EXCEPT !.todo = {"Destroy"}]
       IN  stream' = IF last THEN WriteAndFinish(d) ELSE FinishImmediately(d)

\* The phone is on another network: the connection ends all its calls.
ConnectivityChanges ==
    /\ Free
    /\ stream.life # "destroyed"
    /\ stream' = FinishAndNotify(stream)

\* The worker runs the next callback.
WorkerRuns ==
    /\ Free
    /\ stream.posted # <<>>
    /\ LET e == Head(stream.posted)
       IN  stream' = Callback([stream EXCEPT !.posted = Tail(@)], e.type, e.ok)

\* The worker goes on with the step of its operation that comes first.
Proceed(step, before) ==
    /\ Running
    /\ step \in stream.todo
    /\ stream.todo \cap before = {}

\* Half a second, if the last message takes that long.
AwaitLastEnds ==
    /\ Proceed("AwaitLast", {})
    /\ stream' = FinishImmediately([stream EXCEPT !.todo = @ \ {"AwaitLast"}])

\* A wait is over when gRPC holds none of the operations.
AwaitEnds ==
    /\ Proceed("Await", {"AwaitLast"})
    /\ stream.completions \cap stream.held = {}
    /\ stream' = [stream EXCEPT !.todo = @ \ {"Await"},
                                !.completions = {}, !.cancelled = FALSE]

Finishes ==
    /\ Proceed("Finish", {"AwaitLast", "Await"})
    /\ stream' = Asserting(stream.held = {},
                           NewCompletion([stream EXCEPT !.todo = @ \ {"Finish"}], "Finish"))

Drains ==
    /\ Proceed("Drain", {"AwaitLast", "Await", "Finish"})
    /\ stream' = FastFinishCompletionsBlocking([stream EXCEPT !.todo = @ \ {"Drain"}])

UnsetsObserver ==
    /\ Proceed("UnsetObserver", {"AwaitLast", "Await", "Finish", "Drain"})
    /\ stream' = [stream EXCEPT !.todo = @ \ {"UnsetObserver"}, !.observer = FALSE]

Notifies(ok) ==
    /\ Proceed("Notify", {"AwaitLast", "Await", "Finish", "Drain"})
    /\ LET c == [stream EXCEPT !.todo = @ \ {"Notify"}]
       IN  stream' = IF c.observer
                       THEN OnStreamFinish([c EXCEPT !.observer = FALSE,
                                                     !.notified = TRUE], ok)
                       ELSE c

Destroys ==
    /\ Proceed("Destroy", Todos \ {"Destroy"})
    /\ stream' = Destroy([stream EXCEPT !.todo = {}])

WorkerProceeds ==
    \/ AwaitLastEnds
    \/ AwaitEnds
    \/ Finishes
    \/ Drains
    \/ UnsetsObserver
    \/ \E ok \in BOOLEAN : Notifies(ok)
    \/ Destroys

\* The server or the network ends the call.
CallBreaks ==
    /\ stream.call = "live"
    /\ stream.life = "started"
    /\ stream' = [stream EXCEPT !.call = "broken"]

\* The other thread takes an operation off gRPC's queue and posts its callback,
\* unless that was dropped.  Operations fail only once the call is over, and
\* Finish only comes back then.
Complete(type, ok) ==
    /\ Running
    /\ type \in stream.held
    /\ ok \/ type # "Finish"
    /\ stream.call = "live" => ok /\ type # "Finish"
    /\ (ok /\ type = "Read") => stream.read < MaxMessages
    /\ stream' = [stream EXCEPT
          !.held = @ \ {type},
          !.posted = IF stream.cancelled THEN @ ELSE Append(@, [type |-> type, ok |-> ok]),
          !.read = IF ok /\ type = "Read" THEN @ + 1 ELSE @,
          !.sent = IF ok /\ type = "Write" THEN Append(@, stream.writing) ELSE @]

Next ==
    \/ Start
    \/ ObserverWrites
    \/ \E last \in BOOLEAN : ObserverFinishes(last)
    \/ ConnectivityChanges
    \/ WorkerRuns
    \/ WorkerProceeds
    \/ CallBreaks
    \/ \E type \in Types, ok \in BOOLEAN : Complete(type, ok)

\* Both threads go on, and gRPC gives back every operation of a call that is over.
Fairness ==
    /\ WF_stream(WorkerRuns)
    /\ WF_stream(WorkerProceeds)
    /\ \A type \in Types :
          WF_stream(stream.call # "live" /\ \E ok \in BOOLEAN : Complete(type, ok))

Spec == Init /\ [][Next]_stream /\ Fairness

-----------------------------------------------------------------------------
TypeOK == stream \in Streams

\* No assertion of grpc_stream.cc fails, gRPC gets one operation of a type at a
\* time and Finish last and once, no callback runs on a stream that is gone, and
\* the stream goes only when gRPC holds nothing of it, whichever thread is first.
AssertsHold == ~stream.asserted

\* The worker never waits for ever, and a call that is over ends in a stream that
\* is finished: its observer was told, or ended it.
EndsInTime ==
    /\ (stream.todo # {} ~> stream.todo = {})
    /\ (stream.call # "live" ~> ~stream.observer)

Promise == INSTANCE ObservedStream WITH
    told <- stream.told,
    asked <- stream.asked,
    sent <- stream.sent,
    phase <- IF stream.notified THEN "notified"
             ELSE IF ~stream.observer THEN "quietly"
             ELSE IF stream.life = "new" THEN "new" ELSE "started"

\* To the observer, the stream is what ObservedStream says.
ImplementsObservedStream == Promise!Spec
=============================================================================
