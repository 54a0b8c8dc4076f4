--------------------------- MODULE GrpcStreamProofs ---------------------------
(****************************************************************************)
(* The safety of the gRPC stream, for any number of messages.  Core says    *)
(* which operations gRPC and the worker queue hold and how far the messages *)
(* of both sides are; it is kept by every function.  Planned says what has  *)
(* been done when the worker comes to each step of an operation that has to *)
(* wait; together they are the inductive invariant.                         *)
(****************************************************************************)
EXTENDS GrpcStream, SequenceTheorems, TLAPS

\* The messages the observer was told of are the first the server sent, and the
\* one read last is told of next.
ReadsInOrder(c) ==
    /\ \A i \in 1..Len(c.told) : c.told[i] = i
    /\ ("Read" \in c.held /\ ~c.cancelled) => c.read = Len(c.told)
    /\ \A i \in 1..Len(c.posted) :
          (c.posted[i].type = "Read" /\ c.posted[i].ok) => c.read = Len(c.told) + 1

\* How many messages were taken out of the buffer.
Taken(c) == IF c.active THEN c.writing ELSE Len(c.sent)

\* The messages that left are the first that were written, the one being written
\* is the next, and those after it are in the buffer.
WritesInOrder(c) ==
    /\ \A i \in 1..Len(c.sent) : c.sent[i] = i
    /\ "Write" \in c.completions => c.active
    /\ "Write" \in c.held => c.writing = Len(c.sent) + 1
    /\ \A i \in 1..Len(c.posted) :
          (c.posted[i].type = "Write" /\ c.posted[i].ok) => c.writing = Len(c.sent)
    /\ c.asked = Taken(c) + Len(c.buffer)
    /\ \A i \in 1..Len(c.buffer) : c.buffer[i] = Taken(c) + i

\* A callback on the worker queue is of a pending operation gRPC has given back.
PostedOnce(c) ==
    /\ \A i \in 1..Len(c.posted) : c.posted[i].type \in c.completions \ c.held
    /\ \A i, j \in 1..Len(c.posted) : c.posted[i].type = c.posted[j].type => i = j
    /\ c.cancelled => c.posted = <<>>

Core(c) ==
    /\ c \in Streams
    /\ ~c.asserted
    /\ c.held \subseteq c.completions
    /\ PostedOnce(c)
    /\ ReadsInOrder(c)
    /\ WritesInOrder(c)

Planned(c) ==
    /\ c.cancelled <=> "Await" \in c.todo
    /\ "AwaitLast" \in c.todo => c.todo = {"AwaitLast", "Destroy"}
    /\ ("Finish" \in c.todo /\ "Await" \notin c.todo) => c.completions = {}
    /\ "Finish" \in c.todo => c.todo \subseteq {"Await", "Finish"} \/ "Drain" \in c.todo
    /\ (c.todo # {} /\ c.todo \cap {"AwaitLast", "Await", "Drain"} = {}) => c.completions = {}
    /\ "UnsetObserver" \in c.todo => "Notify" \notin c.todo /\ "Destroy" \in c.todo
    /\ ("Destroy" \in c.todo /\ c.todo \cap {"AwaitLast", "UnsetObserver"} = {}) => ~c.observer
    /\ c.life = "destroyed" => c.todo = {} /\ ~c.observer
    /\ c.life = "new" => /\ c.completions = {} /\ c.asked = 0 /\ c.read = 0
                         /\ c.told = <<>>
                         /\ c.todo \cap {"AwaitLast", "Finish", "Drain"} = {}
    /\ ~c.observer => /\ c.completions = {}
                      /\ c.todo \subseteq {"Await", "UnsetObserver", "Destroy"}
                      /\ c.life = "destroyed" \/ "Destroy" \in c.todo
    /\ c.notified => ~c.observer

Sound(c) == Core(c) /\ Planned(c)

\* From c to d only callbacks were dropped and steps were planned.
Dropped(c, d) ==
    /\ d \in Streams
    /\ d.held = c.held /\ d.completions = c.completions /\ d.asserted = c.asserted
    /\ d.buffer = c.buffer /\ d.active = c.active /\ d.asked = c.asked
    /\ d.writing = c.writing /\ d.sent = c.sent /\ d.read = c.read /\ d.told = c.told
    /\ d.observer = c.observer /\ d.life = c.life /\ d.notified = c.notified
    /\ d.posted = <<>> /\ d.cancelled

\* What the observer may see is the same.
SameView(c, d) ==
    /\ d.told = c.told /\ d.asked = c.asked /\ d.sent = c.sent
    /\ d.notified = c.notified /\ d.observer = c.observer /\ d.life = c.life

-----------------------------------------------------------------------------
(* Dropping callbacks *)

\* Cancel and what ends with it leave the order of the messages as it was.
LEMMA DroppedCore ==
    ASSUME NEW c, NEW d, Core(c), Dropped(c, d)
    PROVE  Core(d)
<1>1. Len(d.posted) = 0
  BY DEF Dropped
<1>2. PostedOnce(d)
  BY <1>1 DEF PostedOnce, Dropped
<1>3. ReadsInOrder(d)
  BY <1>1 DEF Core, ReadsInOrder, Dropped
<1>4. WritesInOrder(d)
  <2>1. /\ \A i \in 1..Len(d.sent) : d.sent[i] = i
        /\ Taken(d) = Taken(c) /\ d.asked = Taken(d) + Len(d.buffer)
        /\ \A i \in 1..Len(d.buffer) : d.buffer[i] = Taken(d) + i
    BY DEF Core, WritesInOrder, Dropped, Taken
  <2>2. /\ "Write" \in d.completions => d.active
        /\ "Write" \in d.held => d.writing = Len(d.sent) + 1
    BY DEF Core, WritesInOrder, Dropped
  <2>3. \A i \in 1..Len(d.posted) :
           (d.posted[i].type = "Write" /\ d.posted[i].ok) => d.writing = Len(d.sent)
    BY <1>1
  <2> QED BY <2>1, <2>2, <2>3 DEF WritesInOrder
<1> QED BY <1>2, <1>3, <1>4 DEF Core, Dropped

LEMMA FastFinishDrops ==
    ASSUME NEW c \in Streams
    PROVE  /\ Dropped(c, FastFinishCompletionsBlocking(c))
           /\ FastFinishCompletionsBlocking(c).todo = c.todo \cup {"Await"}
<1> DEFINE d == FastFinishCompletionsBlocking(c)
<1>1. d.posted = <<>> /\ d.posted \in Seq([type : Types, ok : BOOLEAN])
  BY DEF FastFinishCompletionsBlocking, Cancel, Streams
<1>2. /\ d.cancelled = TRUE /\ d.todo = c.todo \cup {"Await"}
      /\ d.held = c.held /\ d.completions = c.completions /\ d.asserted = c.asserted
      /\ d.buffer = c.buffer /\ d.active = c.active /\ d.asked = c.asked
      /\ d.writing = c.writing /\ d.sent = c.sent /\ d.read = c.read /\ d.told = c.told
      /\ d.observer = c.observer /\ d.life = c.life /\ d.notified = c.notified
  BY DEF FastFinishCompletionsBlocking, Cancel, Streams
<1>3. d \in Streams
  BY <1>1, <1>2 DEF FastFinishCompletionsBlocking, Cancel, Streams, Todos
<1> QED BY <1>1, <1>2, <1>3 DEF Dropped

LEMMA FinishGrpcCallDrops ==
    ASSUME NEW c \in Streams, NEW n \in BOOLEAN, ~c.finished
    PROVE  /\ Dropped(c, FinishGrpcCall(c, n))
           /\ FinishGrpcCall(c, n).todo = c.todo \cup {"Finish", "Await"}
<1> DEFINE b == [c EXCEPT !.finished = TRUE, !.notifies = n, !.todo = @ \cup {"Finish"}]
<1>1. /\ b \in Streams /\ b.todo = c.todo \cup {"Finish"}
      /\ \A d : Dropped(b, d) => Dropped(c, d)
  BY ZenonT(60) DEF Streams, Dropped, Todos
<1>2. FinishGrpcCall(c, n) = FastFinishCompletionsBlocking(b)
  BY DEF FinishGrpcCall, Asserting
<1> HIDE DEF b
<1>3. Dropped(b, FastFinishCompletionsBlocking(b))
  BY <1>1, FastFinishDrops
<1>4. FastFinishCompletionsBlocking(b).todo = b.todo \cup {"Await"}
  BY <1>1, FastFinishDrops
<1> QED BY <1>1, <1>2, <1>3, <1>4

\* Shutdown plans to finish a call that runs, and else only waits.
ShutdownTodo(c, d, extra) ==
    \/ c.completions # {} /\ d.todo = c.todo \cup extra \cup {"Drain", "Finish", "Await"}
    \/ d.todo = c.todo \cup extra \cup {"Await"}

LEMMA ShutdownDrops ==
    ASSUME NEW c \in Streams
    PROVE  Dropped(c, Shutdown(c)) /\ ShutdownTodo(c, Shutdown(c), {})
<1>1. CASE c.completions # {} /\ ~c.finished
  <2> DEFINE b == [c EXCEPT !.call = "cancelled", !.todo = @ \cup {"Drain"}]
  <2>1. /\ b \in Streams /\ b.todo = c.todo \cup {"Drain"} /\ ~b.finished
        /\ \A d : Dropped(b, d) => Dropped(c, d)
    BY <1>1, ZenonT(60) DEF Streams, Dropped, Todos
  <2>2. Shutdown(c) = FinishGrpcCall(b, FALSE)
    BY <1>1 DEF Shutdown
  <2> HIDE DEF b
  <2>3. /\ Dropped(b, FinishGrpcCall(b, FALSE))
        /\ FinishGrpcCall(b, FALSE).todo = b.todo \cup {"Finish", "Await"}
    BY <2>1, FinishGrpcCallDrops
  <2> QED BY <1>1, <2>1, <2>2, <2>3 DEF ShutdownTodo
<1>2. CASE ~(c.completions # {} /\ ~c.finished)
  BY <1>2, FastFinishDrops DEF Shutdown, ShutdownTodo
<1> QED BY <1>1, <1>2

LEMMA FinishImmediatelyDrops ==
    ASSUME NEW c \in Streams
    PROVE  /\ Dropped(c, FinishImmediately(c))
           /\ ShutdownTodo(c, FinishImmediately(c), {"UnsetObserver"})
<1> DEFINE b == [c EXCEPT !.todo = @ \cup {"UnsetObserver"}]
<1>1. /\ b \in Streams /\ b.todo = c.todo \cup {"UnsetObserver"}
      /\ b.completions = c.completions /\ \A d : Dropped(b, d) => Dropped(c, d)
  BY ZenonT(60) DEF Streams, Dropped, Todos
<1>2. FinishImmediately(c) = Shutdown(b)
  BY DEF FinishImmediately
<1> HIDE DEF b
<1>3. Dropped(b, Shutdown(b)) /\ ShutdownTodo(b, Shutdown(b), {})
  BY <1>1, ShutdownDrops
<1> QED BY <1>1, <1>2, <1>3 DEF ShutdownTodo

LEMMA FinishAndNotifyDrops ==
    ASSUME NEW c \in Streams
    PROVE  /\ Dropped(c, FinishAndNotify(c))
           /\ ShutdownTodo(c, FinishAndNotify(c), {"Notify"})
<1> DEFINE b == [c EXCEPT !.todo = @ \cup {"Notify"}]
<1>1. /\ b \in Streams /\ b.todo = c.todo \cup {"Notify"}
      /\ b.completions = c.completions /\ \A d : Dropped(b, d) => Dropped(c, d)
  BY ZenonT(60) DEF Streams, Dropped, Todos
<1>2. FinishAndNotify(c) = Shutdown(b)
  BY DEF FinishAndNotify
<1> HIDE DEF b
<1>3. Dropped(b, Shutdown(b)) /\ ShutdownTodo(b, Shutdown(b), {})
  BY <1>1, ShutdownDrops
<1> QED BY <1>1, <1>2, <1>3 DEF ShutdownTodo

-----------------------------------------------------------------------------
(* Writing *)

LEMMA Shift == \A a, b \in Nat : a + b = (a + 1) + (b - 1) /\ a + (b + 1) = (a + 1) + b
OBVIOUS

\* The next message of the buffer is written, if none is being written.
LEMMA TryStartWriteCore ==
    ASSUME NEW c, Core(c), ~c.cancelled
    PROVE  /\ Core(TryStartWrite(c)) /\ SameView(c, TryStartWrite(c))
           /\ TryStartWrite(c).todo = c.todo /\ ~TryStartWrite(c).cancelled
           /\ TryStartWrite(c).finished = c.finished
           /\ TryStartWrite(c).read = c.read
<1>1. CASE c.buffer = <<>> \/ c.active
  <2>1. TryStartWrite(c) = c
    BY <1>1 DEF TryStartWrite
  <2> QED BY <2>1 DEF SameView
<1>2. CASE c.buffer # <<>> /\ ~c.active
  <2> DEFINE d == [c EXCEPT !.active = TRUE, !.writing = Head(c.buffer),
                            !.buffer = Tail(@),
                            !.completions = @ \cup {"Write"}, !.held = @ \cup {"Write"}]
  <2>1. "Write" \notin c.completions /\ "Write" \notin c.held
    BY <1>2 DEF Core, WritesInOrder
  <2>2. TryStartWrite(c) = d
    BY <1>2, <2>1 DEF TryStartWrite, NewCompletion, Asserting, Core, Streams
  <2>3. /\ c.buffer \in Seq(1..MaxWrites) /\ Len(c.buffer) \in Nat /\ Len(c.buffer) > 0
        /\ c.asked \in Nat /\ Len(c.sent) \in Nat /\ MaxWrites \in Nat
    BY <1>2, StreamAssumption DEF Core, Streams
  <2>4. /\ Head(c.buffer) = c.buffer[1] /\ Head(c.buffer) \in 1..MaxWrites
        /\ Tail(c.buffer) \in Seq(1..MaxWrites) /\ Len(Tail(c.buffer)) = Len(c.buffer) - 1
        /\ \A i \in 1..Len(c.buffer) - 1 : Tail(c.buffer)[i] = c.buffer[i + 1]
    <3>1. Head(c.buffer) = c.buffer[1]
      BY <2>3
    <3> QED BY <1>2, <2>3, <3>1, HeadTailProperties
  <2>5. /\ d.active /\ d.writing = Head(c.buffer) /\ d.buffer = Tail(c.buffer)
        /\ d.completions = c.completions \cup {"Write"} /\ d.held = c.held \cup {"Write"}
        /\ SameView(c, d) /\ d.todo = c.todo /\ d.cancelled = c.cancelled
        /\ d.finished = c.finished /\ d.read = c.read /\ d.posted = c.posted
        /\ d.asserted = c.asserted
    BY DEF Core, Streams, SameView
  <2>6. d \in Streams
    <3>1. /\ c \in Streams /\ Head(c.buffer) \in 0..MaxWrites
          /\ c.completions \cup {"Write"} \in SUBSET Types /\ c.held \cup {"Write"} \in SUBSET Types
      BY <2>3, <2>4, SMTT(40) DEF Core, Streams, Types
    <3> QED BY <2>4, <3>1 DEF Streams
  <2> HIDE DEF d
  <2>7. PostedOnce(d)
    BY <2>1, <2>5 DEF Core, PostedOnce
  <2>8. ReadsInOrder(d)
    BY <2>5 DEF Core, ReadsInOrder, SameView
  <2>9. WritesInOrder(d)
    <3>1. /\ d.sent = c.sent /\ d.asked = c.asked /\ d.writing = Head(c.buffer)
          /\ d.posted = c.posted /\ Len(d.buffer) = Len(c.buffer) - 1 /\ d.active
      BY <2>4, <2>5 DEF SameView
    <3>2. \A i \in 1..Len(c.posted) : c.posted[i].type # "Write"
      BY <2>1 DEF Core, PostedOnce
    <3>3. /\ Taken(c) = Len(c.sent) /\ Taken(d) = d.writing
          /\ c.asked = Len(c.sent) + Len(c.buffer)
          /\ \A i \in 1..Len(c.buffer) : c.buffer[i] = Len(c.sent) + i
      BY <1>2, <3>1 DEF Core, WritesInOrder, Taken
    <3>4. d.writing = Len(d.sent) + 1
      BY <2>3, <2>4, <3>1, <3>3
    <3>5. d.asked = Taken(d) + Len(d.buffer)
      <4>1. Len(c.sent) + Len(c.buffer) = (Len(c.sent) + 1) + (Len(c.buffer) - 1)
        BY <2>3, Shift
      <4> QED BY <3>1, <3>3, <3>4, <4>1
    <3>6. ASSUME NEW i \in 1..Len(d.buffer)
          PROVE  d.buffer[i] = Taken(d) + i
      <4>1. i \in 1..Len(c.buffer) - 1 /\ i + 1 \in 1..Len(c.buffer) /\ i \in Nat
        BY <2>3, <3>1
      <4>2. d.buffer[i] = c.buffer[i + 1] /\ c.buffer[i + 1] = Len(c.sent) + (i + 1)
        BY <2>4, <2>5, <3>3, <4>1
      <4>3. Len(c.sent) + (i + 1) = (Len(c.sent) + 1) + i
        BY <2>3, <4>1, Shift
      <4> QED BY <3>1, <3>3, <3>4, <4>2, <4>3
    <3>7. \A i \in 1..Len(d.sent) : d.sent[i] = i
      BY <3>1 DEF Core, WritesInOrder
    <3> QED BY <3>1, <3>2, <3>4, <3>5, <3>6, <3>7 DEF WritesInOrder
  <2> QED BY <2>2, <2>5, <2>6, <2>7, <2>8, <2>9 DEF Core
<1> QED BY <1>1, <1>2

\* What is written goes behind what is in the buffer, and waits for its turn.
LEMMA EnqueueWriteCore ==
    ASSUME NEW c, Core(c), ~c.cancelled, c.asked < MaxWrites
    PROVE  LET d == EnqueueWrite(c)
           IN  /\ Core(d) /\ ~d.cancelled
               /\ d.told = c.told /\ d.asked = c.asked + 1 /\ d.sent = c.sent
               /\ d.notified = c.notified /\ d.observer = c.observer /\ d.life = c.life
               /\ d.todo = c.todo /\ d.finished = c.finished /\ d.read = c.read
<1> DEFINE b == [c EXCEPT !.asked = @ + 1, !.buffer = Append(@, c.asked + 1)]
<1>1. /\ c.buffer \in Seq(1..MaxWrites) /\ Len(c.buffer) \in Nat /\ c.asked \in Nat
      /\ c.asked + 1 \in 1..MaxWrites /\ c.asked + 1 \in 0..MaxWrites
      /\ Len(c.sent) \in Nat /\ Taken(c) \in Nat
  BY StreamAssumption DEF Core, Streams, Taken
<1>2. /\ Append(c.buffer, c.asked + 1) \in Seq(1..MaxWrites)
      /\ Len(Append(c.buffer, c.asked + 1)) = Len(c.buffer) + 1
      /\ \A i \in 1..Len(c.buffer) : Append(c.buffer, c.asked + 1)[i] = c.buffer[i]
      /\ Append(c.buffer, c.asked + 1)[Len(c.buffer) + 1] = c.asked + 1
  BY <1>1, AppendProperties
<1>3. /\ b.asked = c.asked + 1 /\ b.buffer = Append(c.buffer, c.asked + 1)
      /\ b.told = c.told /\ b.sent = c.sent /\ b.notified = c.notified
      /\ b.observer = c.observer /\ b.life = c.life /\ b.todo = c.todo
      /\ b.finished = c.finished /\ b.read = c.read /\ b.cancelled = c.cancelled
      /\ b.held = c.held /\ b.completions = c.completions /\ b.posted = c.posted
      /\ b.active = c.active /\ b.writing = c.writing /\ b.asserted = c.asserted
  BY DEF Core, Streams
<1>4. b \in Streams
  BY <1>1, <1>2 DEF Core, Streams
<1>5. EnqueueWrite(c) = TryStartWrite(b)
  BY DEF EnqueueWrite
<1> HIDE DEF b
<1>6. PostedOnce(b) /\ ReadsInOrder(b)
  BY <1>3 DEF Core, PostedOnce, ReadsInOrder
<1>7. WritesInOrder(b)
  <2>1. /\ Taken(b) = Taken(c) /\ c.asked = Taken(c) + Len(c.buffer)
        /\ \A i \in 1..Len(c.buffer) : c.buffer[i] = Taken(c) + i
    BY <1>3 DEF Core, WritesInOrder, Taken
  <2>2. Taken(c) + (Len(c.buffer) + 1) = (Taken(c) + Len(c.buffer)) + 1
    BY <1>1, Shift
  <2>3. b.asked = Taken(b) + Len(b.buffer)
    BY <1>2, <1>3, <2>1, <2>2
  <2>4. ASSUME NEW i \in 1..Len(b.buffer)
        PROVE  b.buffer[i] = Taken(b) + i
    <3>1. i \in 1..Len(c.buffer) \/ i = Len(c.buffer) + 1
      BY <1>1, <1>2, <1>3
    <3> QED BY <1>2, <1>3, <2>1, <2>2, <3>1
  <2> QED BY <1>3, <2>3, <2>4 DEF Core, WritesInOrder
<1>8. Core(b)
  BY <1>3, <1>4, <1>6, <1>7 DEF Core
<1>9. ~b.cancelled
  BY <1>3
<1> QED BY <1>3, <1>5, <1>8, <1>9, TryStartWriteCore DEF SameView

-----------------------------------------------------------------------------
(* Callbacks *)

\* Another operation than a write is given to gRPC.
LEMMA NewCompletionCore ==
    ASSUME NEW c, Core(c), NEW type \in {"Read", "Finish"}, type \notin c.completions,
           type = "Read" => c.read = Len(c.told)
    PROVE  LET d == NewCompletion(c, type)
           IN  /\ Core(d) /\ SameView(c, d)
               /\ d.completions = c.completions \cup {type}
               /\ d.todo = c.todo /\ d.cancelled = c.cancelled
<1> DEFINE d == [c EXCEPT !.completions = @ \cup {type}, !.held = @ \cup {type}]
<1>1. NewCompletion(c, type) = d
  BY DEF NewCompletion, Asserting, Core
<1>2. /\ SameView(c, d) /\ d.todo = c.todo /\ d.cancelled = c.cancelled
      /\ d.completions = c.completions \cup {type} /\ d.held = c.held \cup {type}
      /\ d.posted = c.posted /\ d.read = c.read /\ d.active = c.active
      /\ d.writing = c.writing /\ d.buffer = c.buffer /\ d.asserted = c.asserted
  BY DEF Core, Streams, SameView
<1>3. d \in Streams
  BY DEF Core, Streams, Types
<1> HIDE DEF d
<1>4. PostedOnce(d)
  BY <1>2 DEF Core, PostedOnce
<1>5. ReadsInOrder(d)
  BY <1>2 DEF Core, ReadsInOrder, SameView
<1>6. WritesInOrder(d)
  BY <1>2 DEF Core, WritesInOrder, SameView, Taken
<1> QED BY <1>1, <1>2, <1>3, <1>4, <1>5, <1>6 DEF Core

\* The state in which a callback runs, taken off the queue.
Popped(c) == [[c EXCEPT !.posted = Tail(@)]
                 EXCEPT !.completions = @ \ {Head(c.posted).type}]

LEMMA PoppedCore ==
    ASSUME NEW c, Core(c), c.posted # <<>>
    PROVE  LET d == Popped(c)
               e == Head(c.posted)
           IN  /\ e \in [type : Types, ok : BOOLEAN]
               /\ e.type \in c.completions
               /\ Core(d) /\ SameView(c, d) /\ ~d.cancelled /\ ~c.cancelled
               /\ d.completions = c.completions \ {e.type} /\ d.todo = c.todo
               /\ e.type = "Read" /\ e.ok => d.read = Len(d.told) + 1
               /\ e.type = "Write" /\ e.ok => d.active /\ d.writing = Len(d.sent)
<1> DEFINE d == Popped(c)
           e == Head(c.posted)
<1>1. /\ c.posted \in Seq([type : Types, ok : BOOLEAN]) /\ Len(c.posted) \in Nat
      /\ Len(c.posted) > 0 /\ 1 \in 1..Len(c.posted) /\ e = c.posted[1]
  BY DEF Core, Streams
<1>2. /\ e \in [type : Types, ok : BOOLEAN]
      /\ Tail(c.posted) \in Seq([type : Types, ok : BOOLEAN])
      /\ Len(Tail(c.posted)) = Len(c.posted) - 1
      /\ \A i \in 1..Len(Tail(c.posted)) : Tail(c.posted)[i] = c.posted[i + 1]
  BY <1>1, HeadTailProperties
<1>3. /\ SameView(c, d) /\ d.todo = c.todo /\ d.cancelled = c.cancelled
      /\ d.completions = c.completions \ {e.type} /\ d.held = c.held
      /\ d.posted = Tail(c.posted) /\ d.read = c.read /\ d.active = c.active
      /\ d.writing = c.writing /\ d.buffer = c.buffer /\ d.asserted = c.asserted
  BY DEF Popped, Core, Streams, SameView
<1>4. d \in Streams
  BY <1>2 DEF Popped, Core, Streams
<1> HIDE DEF d, e
<1>5. /\ e.type \in c.completions \ c.held /\ ~c.cancelled
      /\ e.type = "Read" /\ e.ok => c.read = Len(c.told) + 1
      /\ e.type = "Write" /\ e.ok => c.writing = Len(c.sent)
      /\ e.type = "Write" => c.active
  BY <1>1 DEF Core, PostedOnce, ReadsInOrder, WritesInOrder
<1>6. ASSUME NEW i \in 1..Len(d.posted)
      PROVE  /\ i + 1 \in 1..Len(c.posted) /\ i + 1 # 1 /\ d.posted[i] = c.posted[i + 1]
  BY <1>1, <1>2, <1>3
<1>7. PostedOnce(d)
  <2>1. ASSUME NEW i \in 1..Len(d.posted)
        PROVE  d.posted[i].type \in d.completions \ d.held
    BY <1>1, <1>3, <1>6 DEF Core, PostedOnce
  <2>2. ASSUME NEW i \in 1..Len(d.posted), NEW j \in 1..Len(d.posted),
               d.posted[i].type = d.posted[j].type
        PROVE  i = j
    <3>1. i + 1 = j + 1
      <4>1. /\ i + 1 \in 1..Len(c.posted) /\ d.posted[i] = c.posted[i + 1]
            /\ j + 1 \in 1..Len(c.posted) /\ d.posted[j] = c.posted[j + 1]
        BY <1>6
      <4> QED BY <4>1, <2>2 DEF Core, PostedOnce
    <3>2. i \in Nat /\ j \in Nat
      OBVIOUS
    <3> QED BY <3>1, <3>2
  <2> QED BY <1>3, <1>5, <2>1, <2>2 DEF PostedOnce
<1>8. ReadsInOrder(d)
  BY <1>3, <1>6 DEF Core, ReadsInOrder, SameView
<1>9. WritesInOrder(d)
  BY <1>3, <1>6 DEF Core, WritesInOrder, SameView, Taken
<1>10. Core(d)
  BY <1>3, <1>4, <1>5, <1>7, <1>8, <1>9 DEF Core
<1> QED BY <1>2, <1>3, <1>5, <1>10 DEF d, e, SameView

\* The observer is told of the message read last, after the next was asked for.
LEMMA OnReadCore ==
    ASSUME NEW c, Core(c), ~c.cancelled, c.observer, "Read" \notin c.completions,
           c.read = Len(c.told) + 1
    PROVE  LET d == OnRead(c)
           IN  /\ Core(d) /\ d.told = Append(c.told, Len(c.told) + 1)
               /\ d.asked = c.asked /\ d.sent = c.sent /\ d.notified = c.notified
               /\ d.observer = c.observer /\ d.life = c.life
               /\ d.todo = c.todo /\ d.cancelled = c.cancelled
<1> DEFINE b == [c EXCEPT !.told = Append(@, c.read)]
<1>1. /\ c.told \in Seq(1..MaxMessages) /\ Len(c.told) \in Nat
      /\ c.read \in 1..MaxMessages
  BY StreamAssumption DEF Core, Streams
<1>2. /\ Append(c.told, c.read) \in Seq(1..MaxMessages)
      /\ Len(Append(c.told, c.read)) = Len(c.told) + 1
      /\ \A i \in 1..Len(c.told) : Append(c.told, c.read)[i] = c.told[i]
      /\ Append(c.told, c.read)[Len(c.told) + 1] = c.read
  BY <1>1, AppendProperties
<1>3. /\ b.told = Append(c.told, c.read) /\ b.asked = c.asked /\ b.sent = c.sent
      /\ b.notified = c.notified /\ b.observer = c.observer /\ b.life = c.life
      /\ b.todo = c.todo /\ b.read = c.read /\ b.cancelled = c.cancelled
      /\ b.held = c.held /\ b.completions = c.completions /\ b.posted = c.posted
      /\ b.active = c.active /\ b.writing = c.writing /\ b.buffer = c.buffer
      /\ b.asserted = c.asserted
  BY DEF Core, Streams
<1>4. b \in Streams
  BY <1>2 DEF Core, Streams
<1>5. OnRead(c) = NewCompletion(b, "Read")
  BY DEF OnRead, Read, NewCompletion, Asserting, Core, Streams
<1> HIDE DEF b
<1>6. PostedOnce(b) /\ WritesInOrder(b)
  BY <1>3 DEF Core, PostedOnce, WritesInOrder, Taken
<1>7. ReadsInOrder(b)
  <2>1. "Read" \notin b.held /\ \A i \in 1..Len(b.posted) : b.posted[i].type # "Read"
    BY <1>3 DEF Core, PostedOnce
  <2>2. ASSUME NEW i \in 1..Len(b.told)
        PROVE  b.told[i] = i
    <3>1. i \in 1..Len(c.told) \/ i = Len(c.told) + 1
      BY <1>1, <1>2, <1>3
    <3> QED BY <1>2, <1>3, <3>1 DEF Core, ReadsInOrder
  <2> QED BY <2>1, <2>2 DEF ReadsInOrder
<1>8. Core(b) /\ b.read = Len(b.told) /\ "Read" \notin b.completions
  BY <1>2, <1>3, <1>4, <1>6, <1>7 DEF Core
<1> DEFINE d == OnRead(c)
<1> HIDE DEF d
<1>9. Core(d) /\ SameView(b, d) /\ d.todo = b.todo /\ d.cancelled = b.cancelled
  BY <1>5, <1>8, NewCompletionCore DEF d
<1>10. /\ Core(d) /\ d.told = Append(c.told, Len(c.told) + 1)
       /\ d.asked = c.asked /\ d.sent = c.sent /\ d.notified = c.notified
       /\ d.observer = c.observer /\ d.life = c.life
       /\ d.todo = c.todo /\ d.cancelled = c.cancelled
  BY <1>3, <1>9 DEF SameView
<1> QED BY <1>10 DEF d

\* A message has left: the next one in the buffer may be written.
LEMMA OnWriteCore ==
    ASSUME NEW c, Core(c), ~c.cancelled, c.observer, "Write" \notin c.completions,
           c.active, c.writing = Len(c.sent)
    PROVE  LET d == OnWrite(c)
           IN  Core(d) /\ SameView(c, d) /\ d.todo = c.todo /\ ~d.cancelled
<1> DEFINE b == [c EXCEPT !.active = FALSE]
<1>1. /\ b \in Streams /\ ~b.active /\ SameView(c, b) /\ b.todo = c.todo
      /\ b.read = c.read /\ b.cancelled = c.cancelled
      /\ b.held = c.held /\ b.completions = c.completions /\ b.posted = c.posted
      /\ b.writing = c.writing /\ b.buffer = c.buffer /\ b.asserted = c.asserted
  BY DEF Core, Streams, SameView
<1>2. OnWrite(c) = TryStartWrite(b)
  BY DEF OnWrite
<1> HIDE DEF b
<1>3. PostedOnce(b) /\ ReadsInOrder(b)
  BY <1>1 DEF Core, PostedOnce, ReadsInOrder, SameView
<1>4. WritesInOrder(b)
  <2>1. Taken(b) = Taken(c)
    BY <1>1 DEF Taken, SameView
  <2> QED BY <1>1, <2>1 DEF Core, WritesInOrder, SameView
<1>5. Core(b) /\ ~b.cancelled
  BY <1>1, <1>3, <1>4 DEF Core
<1>6. /\ Core(TryStartWrite(b)) /\ SameView(b, TryStartWrite(b))
      /\ TryStartWrite(b).todo = b.todo /\ ~TryStartWrite(b).cancelled
  BY <1>5, TryStartWriteCore
<1> QED BY <1>1, <1>2, <1>6 DEF SameView

\* What a callback does to the stream: the view changes by a message told of, if
\* at all, and steps are planned when the call failed or is finished.
CalledBack(c, d) ==
    /\ Core(d)
    /\ d.asked = c.asked /\ d.sent = c.sent /\ d.notified = c.notified
    /\ d.observer = c.observer /\ d.life = c.life
    /\ d.told = c.told \/ d.told = Append(c.told, Len(c.told) + 1)
    /\ d.todo \in {{}, {"Finish", "Await"}, {"Notify", "Await"},
                   {"Notify", "Drain", "Finish", "Await"}}
    /\ d.cancelled <=> d.todo # {}

\* A callback may run on c: nothing else is planned.
Calm(c) == c \in Streams /\ Core(c) /\ c.observer /\ ~c.cancelled /\ c.todo = {}

\* The four cases of a callback.
LEMMA FailedCalledBack ==
    ASSUME NEW c, Calm(c)
    PROVE  CalledBack(c, OnOperationFailed(c))
<1>1. CASE c.finished
  BY <1>1 DEF OnOperationFailed, CalledBack, Calm
<1>2. CASE ~c.finished
  <2> DEFINE d == FinishGrpcCall(c, TRUE)
  <2>1. OnOperationFailed(c) = d
    BY <1>2 DEF OnOperationFailed
  <2>2. Dropped(c, d) /\ d.todo = {"Finish", "Await"}
    BY <1>2, FinishGrpcCallDrops DEF Calm
  <2> HIDE DEF d
  <2>3. Core(d)
    BY <2>2, DroppedCore DEF Calm
  <2> QED BY <2>1, <2>2, <2>3 DEF Dropped, CalledBack
<1> QED BY <1>1, <1>2

LEMMA ReadCalledBack ==
    ASSUME NEW c, Calm(c), "Read" \notin c.completions, c.read = Len(c.told) + 1
    PROVE  CalledBack(c, OnRead(c))
<1> DEFINE d == OnRead(c)
<1>1. /\ Core(d) /\ d.told = Append(c.told, Len(c.told) + 1)
      /\ d.asked = c.asked /\ d.sent = c.sent /\ d.notified = c.notified
      /\ d.observer = c.observer /\ d.life = c.life
      /\ d.todo = c.todo /\ d.cancelled = c.cancelled
  BY OnReadCore DEF Calm
<1> HIDE DEF d
<1>2. CalledBack(c, d)
  BY <1>1 DEF Calm, CalledBack
<1> QED BY <1>2 DEF d

LEMMA WriteCalledBack ==
    ASSUME NEW c, Calm(c), "Write" \notin c.completions, c.active, c.writing = Len(c.sent)
    PROVE  CalledBack(c, OnWrite(c))
<1> DEFINE d == OnWrite(c)
<1>1. Core(d) /\ SameView(c, d) /\ d.todo = c.todo /\ ~d.cancelled
  BY OnWriteCore DEF Calm
<1> HIDE DEF d
<1>2. CalledBack(c, d)
  BY <1>1 DEF Calm, CalledBack, SameView
<1> QED BY <1>2 DEF d

LEMMA FinishCalledBack ==
    ASSUME NEW c, Calm(c)
    PROVE  CalledBack(c, FinishAndNotify(c)) /\ CalledBack(c, c)
<1> DEFINE d == FinishAndNotify(c)
<1>1. Dropped(c, d) /\ ShutdownTodo(c, d, {"Notify"})
  BY FinishAndNotifyDrops DEF Calm
<1> HIDE DEF d
<1>2. Core(d)
  BY <1>1, DroppedCore DEF Calm
<1>3. d.todo \in {{"Notify", "Await"}, {"Notify", "Drain", "Finish", "Await"}}
  BY <1>1 DEF ShutdownTodo, Calm
<1>4. CalledBack(c, d)
  BY <1>1, <1>2, <1>3 DEF Dropped, CalledBack
<1>5. CalledBack(c, c)
  BY DEF CalledBack, Calm
<1> QED BY <1>4, <1>5 DEF d

\* Any callback.
LEMMA CallbackCore ==
    ASSUME NEW c, Core(c), c.posted # <<>>, c.observer, c.life # "destroyed", c.todo = {}
    PROVE  CalledBack(c, Callback([c EXCEPT !.posted = Tail(@)],
                                  Head(c.posted).type, Head(c.posted).ok))
<1> DEFINE type == Head(c.posted).type
           ok == Head(c.posted).ok
           a == [c EXCEPT !.posted = Tail(@)]
           b == Popped(c)
           d == Callback(a, type, ok)
<1>1. /\ Head(c.posted) \in [type : Types, ok : BOOLEAN] /\ type \in c.completions
      /\ Core(b) /\ SameView(c, b) /\ ~b.cancelled
      /\ b.completions = c.completions \ {type} /\ b.todo = {}
      /\ type = "Read" /\ ok => b.read = Len(b.told) + 1
      /\ type = "Write" /\ ok => b.active /\ b.writing = Len(b.sent)
  BY PoppedCore
<1>2. type \in Types /\ ok \in BOOLEAN
  BY <1>1
<1>3. /\ a.life = c.life /\ a.completions = c.completions
      /\ [a EXCEPT !.completions = @ \ {type}] = b
  BY DEF Core, Streams, Popped
<1> HIDE DEF type, ok, a, b
<1>4. type \in a.completions /\ a.life # "destroyed" /\ type \notin b.completions
  BY <1>1, <1>3
<1>5. /\ ~ok => d = OnOperationFailed(b)
      /\ ok /\ type = "Read" => d = OnRead(b)
      /\ ok /\ type = "Write" => d = OnWrite(b)
      /\ ok /\ type = "Finish" => d = FinishAndNotify(b) \/ d = b
  BY <1>3, <1>4 DEF Callback, Asserting
<1>6. Calm(b)
  BY <1>1 DEF Calm, SameView, Core
<1> HIDE DEF d
<1>7. CalledBack(b, d)
  <2>1. CASE ~ok
    BY <1>5, <1>6, <2>1, FailedCalledBack
  <2>2. CASE ok /\ type = "Read"
    BY <1>1, <1>4, <1>5, <1>6, <2>2, ReadCalledBack
  <2>3. CASE ok /\ type = "Write"
    BY <1>1, <1>4, <1>5, <1>6, <2>3, WriteCalledBack
  <2>4. CASE ok /\ type = "Finish"
    BY <1>5, <1>6, <2>4, FinishCalledBack
  <2> QED BY <1>2, <2>1, <2>2, <2>3, <2>4 DEF Types
<1>8. CalledBack(c, d)
  BY <1>1, <1>7 DEF CalledBack, SameView
<1> QED BY <1>8 DEF d, a, type, ok

\* The state after gRPC gave an operation back.
Completed(c, type, ok) ==
    [c EXCEPT
        !.held = @ \ {type},
        !.posted = IF c.cancelled THEN @ ELSE Append(@, [type |-> type, ok |-> ok]),
        !.read = IF ok /\ type = "Read" THEN @ + 1 ELSE @,
        !.sent = IF ok /\ type = "Write" THEN Append(@, c.writing) ELSE @]

LEMMA CompletedCore ==
    ASSUME NEW c, Core(c), NEW type \in c.held, NEW ok \in BOOLEAN,
           ok /\ type = "Read" => c.read < MaxMessages
    PROVE  LET d == Completed(c, type, ok)
           IN  /\ Core(d) /\ d.told = c.told /\ d.asked = c.asked
               /\ d.notified = c.notified /\ d.observer = c.observer /\ d.life = c.life
               /\ d.todo = c.todo /\ d.cancelled = c.cancelled
               /\ d.completions = c.completions
               /\ d.read = c.read \/ c.completions # {}
               /\ \/ d.sent = c.sent
                  \/ d.sent = Append(c.sent, Len(c.sent) + 1) /\ Len(c.sent) < c.asked
<1> DEFINE d == Completed(c, type, ok)
           e == [type |-> type, ok |-> ok]
<1>1. /\ type \in Types /\ type \in c.completions /\ ok \in BOOLEAN
      /\ c.posted \in Seq([type : Types, ok : BOOLEAN]) /\ Len(c.posted) \in Nat
      /\ c.sent \in Seq(1..MaxWrites) /\ Len(c.sent) \in Nat
      /\ c.read \in 0..MaxMessages /\ c.writing \in 0..MaxWrites
      /\ Len(c.buffer) \in Nat /\ c.read \in Nat /\ MaxWrites \in Nat /\ MaxMessages \in Nat
  <2>1. c \in Streams /\ c.held \subseteq c.completions /\ MaxWrites \in Nat /\ MaxMessages \in Nat
    BY StreamAssumption DEF Core
  <2>2. /\ c.posted \in Seq([type : Types, ok : BOOLEAN]) /\ c.sent \in Seq(1..MaxWrites)
        /\ c.buffer \in Seq(1..MaxWrites) /\ c.read \in 0..MaxMessages
        /\ c.writing \in 0..MaxWrites /\ c.held \in SUBSET Types
    BY <2>1 DEF Streams
  <2> QED BY <2>1, <2>2
<1>2. /\ e \in [type : Types, ok : BOOLEAN]
      /\ Append(c.posted, e) \in Seq([type : Types, ok : BOOLEAN])
      /\ Len(Append(c.posted, e)) = Len(c.posted) + 1
      /\ \A i \in 1..Len(c.posted) : Append(c.posted, e)[i] = c.posted[i]
      /\ Append(c.posted, e)[Len(c.posted) + 1] = e
  BY <1>1, AppendProperties
<1>3. /\ d.told = c.told /\ d.asked = c.asked
      /\ d.notified = c.notified /\ d.observer = c.observer /\ d.life = c.life
      /\ d.todo = c.todo /\ d.cancelled = c.cancelled /\ d.completions = c.completions
      /\ d.active = c.active /\ d.writing = c.writing /\ d.buffer = c.buffer
      /\ d.asserted = c.asserted /\ d.held = c.held \ {type}
      /\ d.posted = IF c.cancelled THEN c.posted ELSE Append(c.posted, e)
      /\ d.read = IF ok /\ type = "Read" THEN c.read + 1 ELSE c.read
      /\ d.sent = IF ok /\ type = "Write" THEN Append(c.sent, c.writing) ELSE c.sent
  BY DEF Completed, Core, Streams
<1>4. type = "Write" => /\ c.active /\ c.writing = Len(c.sent) + 1
                        /\ c.writing \in 1..MaxWrites /\ Len(c.sent) < c.asked
  <2>1. type = "Write" => /\ c.active /\ c.writing = Len(c.sent) + 1
                          /\ c.asked = c.writing + Len(c.buffer)
    BY <1>1 DEF Core, WritesInOrder, Taken
  <2>2. \A a, b \in Nat : a < (a + 1) + b /\ a + 1 # 0
    OBVIOUS
  <2> QED BY <1>1, <2>1, <2>2
<1>5. type = "Write" => /\ Append(c.sent, c.writing) \in Seq(1..MaxWrites)
                        /\ Len(Append(c.sent, c.writing)) = Len(c.sent) + 1
                        /\ \A i \in 1..Len(c.sent) : Append(c.sent, c.writing)[i] = c.sent[i]
                        /\ Append(c.sent, c.writing)[Len(c.sent) + 1] = c.writing
  BY <1>1, <1>4, AppendProperties
<1>6. d \in Streams
  <2>1. /\ d.read \in 0..MaxMessages /\ d.sent \in Seq(1..MaxWrites)
        /\ d.posted \in Seq([type : Types, ok : BOOLEAN])
    <3>1. d.read \in 0..MaxMessages
      BY <1>1, <1>3
    <3>2. d.sent \in Seq(1..MaxWrites)
      BY <1>1, <1>3, <1>5
    <3>3. d.posted \in Seq([type : Types, ok : BOOLEAN])
      BY <1>1, <1>2, <1>3
    <3> QED BY <3>1, <3>2, <3>3
  <2>2. d.held \in SUBSET Types
    BY <1>3 DEF Core, Streams
  <2> QED BY <2>1, <2>2, ZenonT(60) DEF Completed, Core, Streams
<1> HIDE DEF d
<1>7. ASSUME NEW i \in 1..Len(d.posted)
      PROVE  \/ i \in 1..Len(c.posted) /\ d.posted[i] = c.posted[i]
             \/ i = Len(c.posted) + 1 /\ d.posted[i] = e /\ ~c.cancelled
  BY <1>1, <1>2, <1>3
<1>8. PostedOnce(d)
  <2>1. ASSUME NEW i \in 1..Len(d.posted)
        PROVE  d.posted[i].type \in d.completions \ d.held
    BY <1>1, <1>3, <1>7 DEF Core, PostedOnce
  <2>2. ASSUME NEW i \in 1..Len(c.posted)
        PROVE  c.posted[i].type # e.type
    BY DEF Core, PostedOnce
  <2>3. ASSUME NEW i \in 1..Len(d.posted), NEW j \in 1..Len(d.posted),
               d.posted[i].type = d.posted[j].type
        PROVE  i = j
    <3>1. \/ i \in 1..Len(c.posted) /\ d.posted[i] = c.posted[i]
          \/ i = Len(c.posted) + 1 /\ d.posted[i] = e
      BY <1>7
    <3>2. \/ j \in 1..Len(c.posted) /\ d.posted[j] = c.posted[j]
          \/ j = Len(c.posted) + 1 /\ d.posted[j] = e
      BY <1>7
    <3> HIDE DEF e
    <3> QED BY <2>2, <2>3, <3>1, <3>2 DEF Core, PostedOnce
  <2> QED BY <1>3, <2>1, <2>3 DEF Core, PostedOnce
<1>9. ReadsInOrder(d)
  <2>1. CASE ok /\ type = "Read"
    <3>1. \A i \in 1..Len(c.posted) : c.posted[i].type # "Read"
      BY <2>1 DEF Core, PostedOnce
    <3>2. ~c.cancelled => d.read = Len(d.told) + 1
      BY <1>3, <2>1 DEF Core, ReadsInOrder
    <3> QED BY <1>3, <1>7, <2>1, <3>1, <3>2 DEF Core, ReadsInOrder
  <2>2. CASE ~(ok /\ type = "Read")
    BY <1>3, <1>7, <2>2 DEF Core, ReadsInOrder
  <2> QED BY <2>1, <2>2
<1>10. WritesInOrder(d)
  <2>1. CASE ok /\ type = "Write"
    <3>1. \A i \in 1..Len(c.posted) : c.posted[i].type # "Write"
      BY <2>1 DEF Core, PostedOnce
    <3>2. /\ d.sent = Append(c.sent, c.writing) /\ d.writing = Len(d.sent)
          /\ "Write" \notin d.held /\ d.active /\ Taken(d) = Taken(c)
      BY <1>3, <1>4, <1>5, <2>1 DEF Taken
    <3>3. ASSUME NEW i \in 1..Len(d.sent)
          PROVE  d.sent[i] = i
      <4>1. i \in 1..Len(c.sent) \/ i = Len(c.sent) + 1
        BY <1>1, <1>5, <2>1, <3>2
      <4> QED BY <1>4, <1>5, <2>1, <3>2, <4>1 DEF Core, WritesInOrder
    <3> QED BY <1>3, <1>7, <3>1, <3>2, <3>3 DEF Core, WritesInOrder
  <2>2. CASE ~(ok /\ type = "Write")
    <3>1. d.sent = c.sent /\ Taken(d) = Taken(c)
      BY <1>3, <2>2 DEF Taken
    <3> QED BY <1>3, <1>7, <2>2, <3>1 DEF Core, WritesInOrder
  <2> QED BY <2>1, <2>2
<1>11. Core(d)
  BY <1>3, <1>6, <1>8, <1>9, <1>10 DEF Core
<1>12. \/ d.sent = c.sent
       \/ d.sent = Append(c.sent, Len(c.sent) + 1) /\ Len(c.sent) < c.asked
  BY <1>3, <1>4
<1> QED BY <1>1, <1>3, <1>11, <1>12 DEF d

-----------------------------------------------------------------------------
(* The steps *)

\* What the observer sees of the stream.
Phase(c) ==
    IF c.notified THEN "notified"
    ELSE IF ~c.observer THEN "quietly"
    ELSE IF c.life = "new" THEN "new" ELSE "started"

Unseen(c, d) ==
    d.told = c.told /\ d.asked = c.asked /\ d.sent = c.sent /\ Phase(d) = Phase(c)

\* From c to d the observer sees a step of ObservedStream, or none.
Seen(c, d) ==
    \/ Unseen(c, d)
    \/ /\ d.told = c.told /\ d.asked = c.asked /\ d.sent = c.sent
       /\ \/ Phase(c) = "new" /\ Phase(d) = "started"
          \/ Phase(c) \in {"new", "started"} /\ Phase(d) \in {"quietly", "notified"}
    \/ /\ Phase(c) = "started" /\ Phase(d) = "started"
       /\ \/ /\ d.told = Append(c.told, Len(c.told) + 1)
             /\ d.asked = c.asked /\ d.sent = c.sent
          \/ d.asked = c.asked + 1 /\ d.told = c.told /\ d.sent = c.sent
          \/ /\ d.sent = Append(c.sent, Len(c.sent) + 1) /\ Len(c.sent) < c.asked
             /\ d.told = c.told /\ d.asked = c.asked

\* A good step.
Good(c, d) == Sound(d) /\ Seen(c, d)

\* Between two operations, a stream that is there has its observer.
LEMMA IdleHasObserver ==
    ASSUME NEW c, Sound(c), c.todo = {}, c.life # "destroyed"
    PROVE  /\ c.observer /\ ~c.cancelled /\ ~c.notified
           /\ Phase(c) = IF c.life = "new" THEN "new" ELSE "started"
BY DEF Sound, Planned, Phase

LEMMA DroppedSeen ==
    ASSUME NEW c, NEW d, Dropped(c, d)
    PROVE  Unseen(c, d)
BY DEF Dropped, Unseen, Phase

\* Shutdown is planned in an operation that ends the stream, or tells its observer.
LEMMA ShutdownPlanned ==
    ASSUME NEW c, NEW d, NEW extra, Dropped(c, d), ShutdownTodo(c, d, extra),
           \/ c.todo = {"Destroy"} /\ extra = {"UnsetObserver"}
           \/ c.todo = {} /\ extra = {"Notify"},
           c.observer, ~c.notified, c.life # "destroyed",
           c.life = "new" => c.completions = {} /\ c.asked = 0 /\ c.read = 0 /\ c.told = <<>>
    PROVE  Planned(d)
<1>1. /\ d.observer /\ ~d.notified /\ d.life # "destroyed" /\ d.cancelled
      /\ d.completions = c.completions
      /\ d.life = "new" => c.completions = {} /\ d.asked = 0 /\ d.read = 0 /\ d.told = <<>>
  BY DEF Dropped
<1>2. \/ d.todo = {"Destroy", "UnsetObserver", "Drain", "Finish", "Await"} /\ c.completions # {}
      \/ d.todo = {"Notify", "Drain", "Finish", "Await"} /\ c.completions # {}
      \/ d.todo = {"Destroy", "UnsetObserver", "Await"}
      \/ d.todo = {"Notify", "Await"}
  BY DEF ShutdownTodo
<1> QED BY <1>1, <1>2 DEF Planned

LEMMA StartStep ==
    ASSUME Sound(stream), Start
    PROVE  Good(stream, stream')
<1> DEFINE c == [stream EXCEPT !.life = "started"]
           d == NewCompletion(c, "Read")
<1>1. /\ stream.todo = {} /\ stream.life = "new" /\ stream.observer /\ ~stream.cancelled
      /\ ~stream.notified /\ stream.completions = {} /\ stream.read = 0 /\ stream.told = <<>>
      /\ Core(stream)
  BY IdleHasObserver DEF Start, Free, Sound, Planned
<1>2. /\ c \in Streams /\ c.told = stream.told
      /\ c.asked = stream.asked /\ c.sent = stream.sent /\ c.notified = stream.notified
      /\ c.observer = stream.observer /\ c.life = "started"
      /\ c.read = stream.read /\ c.todo = stream.todo /\ c.cancelled = stream.cancelled
      /\ c.held = stream.held /\ c.completions = stream.completions /\ c.posted = stream.posted
      /\ c.active = stream.active /\ c.writing = stream.writing /\ c.buffer = stream.buffer
      /\ c.asserted = stream.asserted
  BY <1>1, ZenonT(60) DEF Core, Streams
<1>3. stream' = d
  BY <1>1, <1>2 DEF Start, Read
<1> HIDE DEF c, d
<1>4. Core(c)
  BY <1>1, <1>2 DEF Core, PostedOnce, ReadsInOrder, WritesInOrder, Taken
<1>5. Len(c.told) = 0
  BY <1>1, <1>2
<1>6. Core(d) /\ SameView(c, d) /\ d.todo = c.todo /\ d.cancelled = c.cancelled
  BY <1>1, <1>2, <1>4, <1>5, NewCompletionCore DEF d
<1>7. /\ d.observer /\ d.life = "started" /\ d.todo = {} /\ ~d.cancelled /\ ~d.notified
      /\ d.told = stream.told /\ d.asked = stream.asked /\ d.sent = stream.sent
  BY <1>1, <1>2, <1>6 DEF SameView
<1>8. Planned(d)
  BY <1>7 DEF Planned
<1>9. Seen(stream, d)
  BY <1>1, <1>7 DEF Seen, Phase
<1> QED BY <1>3, <1>6, <1>8, <1>9 DEF Good, Sound

LEMMA ObserverWritesStep ==
    ASSUME Sound(stream), ObserverWrites
    PROVE  Good(stream, stream')
<1> DEFINE d == EnqueueWrite(stream)
<1>1. /\ stream.todo = {} /\ stream.life = "started" /\ stream.observer /\ ~stream.cancelled
      /\ ~stream.notified /\ Core(stream) /\ stream.asked < MaxWrites /\ stream' = d
  BY IdleHasObserver DEF ObserverWrites, Free, Sound
<1>2. /\ Core(d) /\ ~d.cancelled
      /\ d.told = stream.told /\ d.asked = stream.asked + 1 /\ d.sent = stream.sent
      /\ d.notified = stream.notified /\ d.observer = stream.observer
      /\ d.life = stream.life /\ d.todo = stream.todo
  BY <1>1, EnqueueWriteCore
<1> HIDE DEF d
<1>3. Planned(d)
  BY <1>1, <1>2 DEF Planned
<1>4. Seen(stream, d)
  BY <1>1, <1>2 DEF Seen, Phase
<1> QED BY <1>1, <1>2, <1>3, <1>4 DEF Good, Sound

\* The observer ends the stream, when d has planned its destruction.
LEMMA FinishImmediatelyGood ==
    ASSUME NEW c, Core(c), c.todo = {"Destroy"}, c.observer, ~c.notified,
           c.life # "destroyed",
           c.life = "new" => c.completions = {} /\ c.asked = 0 /\ c.read = 0 /\ c.told = <<>>
    PROVE  Sound(FinishImmediately(c)) /\ Unseen(c, FinishImmediately(c))
<1>1. c \in Streams
  BY DEF Core
<1>2. /\ Dropped(c, FinishImmediately(c))
      /\ ShutdownTodo(c, FinishImmediately(c), {"UnsetObserver"})
  BY <1>1, FinishImmediatelyDrops
<1>3. Core(FinishImmediately(c)) /\ Unseen(c, FinishImmediately(c))
  BY <1>2, DroppedCore, DroppedSeen
<1>4. Planned(FinishImmediately(c))
  BY <1>2, ShutdownPlanned
<1> QED BY <1>3, <1>4 DEF Sound

LEMMA ObserverFinishesStep ==
    ASSUME Sound(stream), NEW last \in BOOLEAN, ObserverFinishes(last)
    PROVE  Good(stream, stream')
<1> DEFINE c == [stream EXCEPT !.todo = {"Destroy"}]
           d == EnqueueWrite(c)
<1>1. /\ stream.todo = {} /\ stream.life # "destroyed" /\ stream.observer
      /\ ~stream.cancelled /\ ~stream.notified /\ Core(stream)
      /\ last => stream.life = "started" /\ stream.asked < MaxWrites
      /\ stream' = IF last THEN WriteAndFinish(c) ELSE FinishImmediately(c)
      /\ stream.life = "new" => /\ stream.completions = {} /\ stream.asked = 0
                                /\ stream.read = 0 /\ stream.told = <<>>
  BY IdleHasObserver DEF ObserverFinishes, Free, Sound, Planned
<1>2. /\ c \in Streams /\ c.todo = {"Destroy"} /\ c.told = stream.told
      /\ c.asked = stream.asked /\ c.sent = stream.sent /\ c.notified = stream.notified
      /\ c.observer = stream.observer /\ c.life = stream.life
      /\ c.read = stream.read /\ c.cancelled = stream.cancelled
      /\ c.held = stream.held /\ c.completions = stream.completions /\ c.posted = stream.posted
      /\ c.active = stream.active /\ c.writing = stream.writing /\ c.buffer = stream.buffer
      /\ c.asserted = stream.asserted
  BY DEF Core, Streams, Sound, Todos
<1> HIDE DEF c
<1>3. Core(c)
  BY <1>1, <1>2 DEF Core, PostedOnce, ReadsInOrder, WritesInOrder, Taken
<1>4. Unseen(stream, c)
  BY <1>2 DEF Unseen, Phase
<1>5. CASE stream' = FinishImmediately(c)
  <2>1. Sound(stream') /\ Unseen(c, stream')
    BY <1>1, <1>2, <1>3, <1>5, FinishImmediatelyGood, ZenonT(60)
  <2> QED BY <1>4, <2>1 DEF Good, Seen, Unseen
<1>6. CASE last /\ stream' = IF c.active THEN FinishImmediately(d)
                             ELSE [d EXCEPT !.todo = @ \cup {"AwaitLast"}]
  <2>1. /\ Core(d) /\ ~d.cancelled
        /\ d.told = c.told /\ d.asked = c.asked + 1 /\ d.sent = c.sent
        /\ d.notified = c.notified /\ d.observer = c.observer /\ d.life = c.life
        /\ d.todo = c.todo
    BY <1>1, <1>2, <1>3, <1>6, EnqueueWriteCore
  <2> HIDE DEF d
  <2>2. /\ d.told = stream.told /\ d.asked = stream.asked + 1 /\ d.sent = stream.sent
        /\ Phase(stream) = "started" /\ Phase(d) = "started"
    BY <1>1, <1>2, <1>6, <2>1 DEF Phase
  <2>3. CASE c.active
    <3>1. Sound(stream') /\ Unseen(d, stream')
      BY <1>1, <1>2, <1>6, <2>1, <2>3, FinishImmediatelyGood, ZenonT(60)
    <3> QED BY <2>2, <3>1 DEF Good, Seen, Unseen
  <2>4. CASE ~c.active
    <3> DEFINE e == [d EXCEPT !.todo = @ \cup {"AwaitLast"}]
    <3>1. /\ e \in Streams /\ e.todo = {"AwaitLast", "Destroy"} /\ e.told = d.told
          /\ e.asked = d.asked /\ e.sent = d.sent /\ e.notified = d.notified
          /\ e.observer = d.observer /\ e.life = d.life
          /\ e.read = d.read /\ e.cancelled = d.cancelled
          /\ e.held = d.held /\ e.completions = d.completions /\ e.posted = d.posted
          /\ e.active = d.active /\ e.writing = d.writing /\ e.buffer = d.buffer
          /\ e.asserted = d.asserted
      BY <1>2, <2>1, ZenonT(60) DEF Core, Streams, Todos
    <3>2. stream' = e
      BY <1>6, <2>4
    <3> HIDE DEF e
    <3>3. Core(e)
      BY <2>1, <3>1 DEF Core, PostedOnce, ReadsInOrder, WritesInOrder, Taken
    <3>4. /\ e.observer /\ ~e.notified /\ e.life = "started" /\ ~e.cancelled
          /\ Phase(e) = "started"
      BY <1>1, <1>2, <1>6, <2>1, <3>1 DEF Phase
    <3>5. Planned(e)
      BY <3>1, <3>4 DEF Planned
    <3>6. Seen(stream, e)
      BY <2>2, <3>1, <3>4 DEF Seen
    <3> QED BY <3>2, <3>3, <3>5, <3>6 DEF Good, Sound
  <2> QED BY <2>3, <2>4
<1> QED BY <1>1, <1>5, <1>6 DEF WriteAndFinish

LEMMA ConnectivityChangesStep ==
    ASSUME Sound(stream), ConnectivityChanges
    PROVE  Good(stream, stream')
<1>1. /\ stream.todo = {} /\ stream.life # "destroyed" /\ stream.observer
      /\ ~stream.notified /\ Core(stream) /\ stream \in Streams
      /\ stream' = FinishAndNotify(stream)
      /\ stream.life = "new" => /\ stream.completions = {} /\ stream.asked = 0
                                /\ stream.read = 0 /\ stream.told = <<>>
  BY IdleHasObserver DEF ConnectivityChanges, Free, Sound, Planned, Core
<1>2. Dropped(stream, stream') /\ ShutdownTodo(stream, stream', {"Notify"})
  BY <1>1, FinishAndNotifyDrops
<1>3. Core(stream') /\ Unseen(stream, stream')
  BY <1>1, <1>2, DroppedCore, DroppedSeen
<1>4. Planned(stream')
  BY <1>1, <1>2, ShutdownPlanned
<1> QED BY <1>3, <1>4 DEF Good, Sound, Seen

LEMMA WorkerRunsStep ==
    ASSUME Sound(stream), WorkerRuns
    PROVE  Good(stream, stream')
<1>1. stream.todo = {} /\ stream.posted # <<>> /\ Core(stream)
  BY DEF WorkerRuns, Free, Sound
<1>2. stream.completions # {}
  <2>1. Head(stream.posted).type \in stream.completions
    BY <1>1, PoppedCore
  <2> QED BY <2>1
<1>3. stream.observer /\ stream.life = "started" /\ ~stream.notified
  BY <1>1, <1>2, SMTT(40) DEF Sound, Planned, Core, Streams
<1>4. stream' = Callback([stream EXCEPT !.posted = Tail(@)],
                         Head(stream.posted).type, Head(stream.posted).ok)
  BY DEF WorkerRuns
<1>5. /\ Core(stream')
      /\ stream'.asked = stream.asked /\ stream'.sent = stream.sent
      /\ stream'.notified = stream.notified
      /\ stream'.observer = stream.observer /\ stream'.life = stream.life
      /\ stream'.told = stream.told \/ stream'.told = Append(stream.told, Len(stream.told) + 1)
      /\ stream'.todo \in {{}, {"Finish", "Await"}, {"Notify", "Await"},
                           {"Notify", "Drain", "Finish", "Await"}}
      /\ stream'.cancelled <=> stream'.todo # {}
  BY <1>1, <1>3, <1>4, CallbackCore DEF CalledBack
<1>6. stream'.observer /\ stream'.life = "started" /\ ~stream'.notified
  BY <1>3, <1>5
<1>7. Planned(stream')
  <2>1. CASE stream'.todo = {}
    BY <1>5, <1>6, <2>1 DEF Planned
  <2>2. CASE stream'.todo # {}
    <3>1. stream'.cancelled /\ "Await" \in stream'.todo
      BY <1>5, <2>2
    <3> QED BY <1>5, <1>6, <3>1 DEF Planned
  <2> QED BY <2>1, <2>2
<1>8. Seen(stream, stream')
  BY <1>3, <1>5, <1>6 DEF Seen, Unseen, Phase
<1> QED BY <1>5, <1>7, <1>8 DEF Good, Sound

\* A step that only changes what is to do, the observer or the callbacks dropped.
Onward(c, d) ==
    /\ d \in Streams
    /\ d.held = c.held /\ d.asserted = c.asserted
    /\ d.buffer = c.buffer /\ d.active = c.active /\ d.asked = c.asked
    /\ d.writing = c.writing /\ d.sent = c.sent /\ d.read = c.read /\ d.told = c.told
    /\ d.life = c.life /\ d.posted = c.posted

LEMMA OnwardCore ==
    ASSUME NEW c, NEW d, Core(c), Onward(c, d),
           \/ d.completions = c.completions /\ d.cancelled = c.cancelled
           \/ c.held = {} /\ c.posted = <<>> /\ d.completions = {}
    PROVE  Core(d)
<1>1. CASE d.completions = c.completions /\ d.cancelled = c.cancelled
  BY <1>1 DEF Onward, Core, PostedOnce, ReadsInOrder, WritesInOrder, Taken
<1>2. CASE c.held = {} /\ c.posted = <<>> /\ d.completions = {}
  <2>1. Len(d.posted) = 0 /\ d.posted = <<>> /\ d.held = {}
    BY <1>2 DEF Onward
  <2>2. PostedOnce(d) /\ ReadsInOrder(d)
    BY <2>1 DEF Onward, Core, PostedOnce, ReadsInOrder
  <2>3. WritesInOrder(d)
    BY <1>2, <2>1 DEF Onward, Core, WritesInOrder, Taken
  <2> QED BY <1>2, <2>1, <2>2, <2>3 DEF Onward, Core
<1> QED BY <1>1, <1>2

LEMMA AwaitLastEndsStep ==
    ASSUME Sound(stream), AwaitLastEnds
    PROVE  Good(stream, stream')
<1> DEFINE c == [stream EXCEPT !.todo = @ \ {"AwaitLast"}]
<1>1. /\ stream.todo = {"AwaitLast", "Destroy"} /\ Core(stream)
      /\ stream.life = "started" /\ stream.observer /\ ~stream.notified
  BY DEF AwaitLastEnds, Proceed, Sound, Planned, Core, Streams
<1>2. /\ Onward(stream, c) /\ c.completions = stream.completions
      /\ c.cancelled = stream.cancelled /\ c.observer = stream.observer
      /\ c.notified = stream.notified /\ c.todo = {"Destroy"}
  BY <1>1 DEF Onward, Core, Streams
<1>3. stream' = FinishImmediately(c)
  BY DEF AwaitLastEnds
<1> HIDE DEF c
<1>4. Core(c) /\ c.life = "started" /\ c.observer /\ ~c.notified
  BY <1>1, <1>2, OnwardCore DEF Onward
<1>5. Sound(stream') /\ Unseen(c, stream')
  BY <1>2, <1>3, <1>4, FinishImmediatelyGood
<1>6. Unseen(stream, c)
  BY <1>2 DEF Onward, Unseen, Phase
<1> QED BY <1>5, <1>6 DEF Good, Seen, Unseen

LEMMA AwaitEndsStep ==
    ASSUME Sound(stream), AwaitEnds
    PROVE  Good(stream, stream')
<1>1. /\ "Await" \in stream.todo /\ Core(stream) /\ stream.cancelled
      /\ stream.held = {} /\ stream.posted = <<>> /\ "AwaitLast" \notin stream.todo
  BY DEF AwaitEnds, Proceed, Sound, Planned, Core, PostedOnce
<1>2. /\ Onward(stream, stream') /\ stream'.completions = {} /\ ~stream'.cancelled
      /\ stream'.observer = stream.observer /\ stream'.notified = stream.notified
      /\ stream'.todo = stream.todo \ {"Await"}
  BY DEF AwaitEnds, Onward, Sound, Core, Streams
<1>3. Core(stream') /\ stream'.life = stream.life
  BY <1>1, <1>2, OnwardCore DEF Onward
<1>4. Planned(stream')
  BY <1>1, <1>2 DEF Onward, Sound, Planned
<1>5. Unseen(stream, stream')
  BY <1>2 DEF Onward, Unseen, Phase
<1> QED BY <1>3, <1>4, <1>5 DEF Good, Sound, Seen

LEMMA FinishesStep ==
    ASSUME Sound(stream), Finishes
    PROVE  Good(stream, stream')
<1> DEFINE c == [stream EXCEPT !.todo = @ \ {"Finish"}]
           d == NewCompletion(c, "Finish")
<1>1. /\ "Finish" \in stream.todo /\ stream.todo \cap {"AwaitLast", "Await"} = {}
      /\ Core(stream) /\ stream.completions = {} /\ stream.held = {}
      /\ ~stream.cancelled /\ stream.observer /\ stream.life = "started"
      /\ ~stream.notified
  BY DEF Finishes, Proceed, Sound, Planned, Core, Streams
<1>2. /\ Onward(stream, c) /\ c.completions = stream.completions
      /\ c.cancelled = stream.cancelled /\ c.observer = stream.observer
      /\ c.notified = stream.notified /\ c.todo = stream.todo \ {"Finish"}
  BY <1>1 DEF Onward, Core, Streams
<1>3. stream' = d
  BY <1>1 DEF Finishes, Asserting
<1> HIDE DEF c, d
<1>4. Core(c) /\ c.completions = {}
  BY <1>1, <1>2, OnwardCore
<1>5. /\ Core(d) /\ SameView(c, d) /\ d.completions = {"Finish"}
      /\ d.todo = c.todo /\ d.cancelled = c.cancelled
  BY <1>4, NewCompletionCore DEF d
<1>6. /\ d.observer /\ ~d.notified /\ d.life = "started" /\ ~d.cancelled
      /\ d.todo = stream.todo \ {"Finish"}
      /\ d.told = stream.told /\ d.asked = stream.asked /\ d.sent = stream.sent
  BY <1>1, <1>2, <1>5 DEF SameView, Onward
<1>7. Planned(d)
  BY <1>1, <1>6 DEF Sound, Planned
<1>8. Unseen(stream, d)
  BY <1>1, <1>6 DEF Unseen, Phase
<1> QED BY <1>3, <1>5, <1>7, <1>8 DEF Good, Sound, Seen

LEMMA DrainsStep ==
    ASSUME Sound(stream), Drains
    PROVE  Good(stream, stream')
<1> DEFINE c == [stream EXCEPT !.todo = @ \ {"Drain"}]
<1>1. /\ "Drain" \in stream.todo /\ stream.todo \cap {"AwaitLast", "Await", "Finish"} = {}
      /\ Core(stream) /\ stream.observer /\ stream.life = "started" /\ ~stream.notified
  BY ZenonT(60) DEF Drains, Proceed, Sound, Planned, Core, Streams
<1>2. /\ Onward(stream, c) /\ c.completions = stream.completions
      /\ c.cancelled = stream.cancelled /\ c.observer = stream.observer
      /\ c.notified = stream.notified /\ c.todo = stream.todo \ {"Drain"}
  BY <1>1 DEF Onward, Core, Streams
<1>3. stream' = FastFinishCompletionsBlocking(c)
  BY DEF Drains
<1> HIDE DEF c
<1>4. Core(c) /\ c \in Streams
  BY <1>1, <1>2, OnwardCore DEF Onward
<1>5. Dropped(c, stream') /\ stream'.todo = c.todo \cup {"Await"}
  BY <1>3, <1>4, FastFinishDrops
<1>6. Core(stream')
  BY <1>4, <1>5, DroppedCore
<1>7. /\ stream'.observer /\ ~stream'.notified /\ stream'.life = "started"
      /\ stream'.cancelled /\ stream'.todo = (stream.todo \ {"Drain"}) \cup {"Await"}
  BY <1>1, <1>2, <1>5 DEF Dropped, Onward
<1>8. Planned(stream')
  BY <1>1, <1>7 DEF Sound, Planned
<1>9. Unseen(stream, stream')
  BY <1>2, <1>5 DEF Dropped, Onward, Unseen, Phase
<1> QED BY <1>6, <1>8, <1>9 DEF Good, Sound, Seen

LEMMA UnsetsObserverStep ==
    ASSUME Sound(stream), UnsetsObserver
    PROVE  Good(stream, stream')
<1>1. /\ "UnsetObserver" \in stream.todo
      /\ stream.todo \cap {"AwaitLast", "Await", "Finish", "Drain"} = {}
      /\ stream.todo \subseteq Todos /\ Core(stream) /\ stream.completions = {}
      /\ "Notify" \notin stream.todo /\ "Destroy" \in stream.todo
      /\ stream.life # "destroyed"
  BY DEF UnsetsObserver, Proceed, Sound, Planned, Core, Streams
<1>2. /\ Onward(stream, stream') /\ stream'.completions = stream.completions
      /\ stream'.cancelled = stream.cancelled /\ ~stream'.observer
      /\ stream'.notified = stream.notified /\ stream'.todo = stream.todo \ {"UnsetObserver"}
  BY <1>1 DEF UnsetsObserver, Onward, Core, Streams
<1>3. Core(stream')
  BY <1>1, <1>2, OnwardCore
<1>4. stream'.todo = {"Destroy"}
  BY <1>1, <1>2 DEF Todos
<1>5. Planned(stream')
  BY <1>1, <1>2, <1>4 DEF Onward, Sound, Planned
<1>6. Seen(stream, stream')
  BY <1>2 DEF Onward, Seen, Unseen, Phase
<1> QED BY <1>3, <1>5, <1>6 DEF Good, Sound

LEMMA NotifiesStep ==
    ASSUME Sound(stream), NEW ok \in BOOLEAN, Notifies(ok)
    PROVE  Good(stream, stream')
<1> DEFINE c == [[stream EXCEPT !.todo = @ \ {"Notify"}]
                    EXCEPT !.observer = FALSE, !.notified = TRUE]
           d == [c EXCEPT !.todo = @ \cup {"Destroy"}]
<1>1. /\ "Notify" \in stream.todo
      /\ stream.todo \cap {"AwaitLast", "Await", "Finish", "Drain"} = {}
      /\ stream.todo \subseteq Todos /\ Core(stream) /\ stream.completions = {}
      /\ "UnsetObserver" \notin stream.todo /\ stream.observer
      /\ stream.life # "destroyed" /\ ~stream.notified /\ ~stream.cancelled
  BY SMTT(40) DEF Notifies, Proceed, Sound, Planned, Core, Streams
<1>2. /\ Onward(stream, d) /\ d.completions = stream.completions
      /\ d.cancelled = stream.cancelled /\ ~d.observer
      /\ d.notified /\ d.todo = (stream.todo \ {"Notify"}) \cup {"Destroy"}
  BY <1>1 DEF Onward, Core, Streams, Todos
<1>3. stream' = IF ok THEN FinishImmediately(d) ELSE d
  BY <1>1 DEF Notifies, OnStreamFinish, Core, Streams
<1> HIDE DEF d
<1>4. Core(d) /\ d.todo = {"Destroy"}
  BY <1>1, <1>2, OnwardCore DEF Todos
<1>5. Seen(stream, d)
  BY <1>1, <1>2 DEF Onward, Seen, Phase, Core, Streams
<1>6. CASE ~ok
  <2>1. Planned(d)
    BY <1>1, <1>2, <1>4 DEF Onward, Sound, Planned
  <2> QED BY <1>3, <1>4, <1>5, <1>6, <2>1 DEF Good, Sound
<1>7. CASE ok
  <2>1. d \in Streams /\ stream' = FinishImmediately(d)
    BY <1>2, <1>3, <1>7 DEF Onward
  <2>2. Dropped(d, stream') /\ ShutdownTodo(d, stream', {"UnsetObserver"})
    BY <2>1, FinishImmediatelyDrops
  <2>3. Core(stream') /\ Unseen(d, stream')
    BY <1>4, <2>2, DroppedCore, DroppedSeen
  <2>4. /\ ~stream'.observer /\ stream'.notified /\ stream'.completions = {}
        /\ stream'.cancelled /\ stream'.life = stream.life
        /\ stream'.todo = {"Destroy", "UnsetObserver", "Await"}
        /\ stream'.told = stream.told /\ stream'.asked = stream.asked
        /\ stream'.read = stream.read
    BY <1>1, <1>2, <1>4, <2>2 DEF Dropped, Onward, ShutdownTodo
  <2>5. Planned(stream')
    BY <1>1, <2>4 DEF Sound, Planned
  <2>6. Seen(stream, stream')
    BY <1>5, <2>3 DEF Seen, Unseen
  <2> QED BY <2>3, <2>5, <2>6 DEF Good, Sound
<1> QED BY <1>6, <1>7

LEMMA DestroysStep ==
    ASSUME Sound(stream), Destroys
    PROVE  Good(stream, stream')
<1>1. /\ stream.todo = {"Destroy"} /\ Core(stream) /\ stream.completions = {}
      /\ stream.held = {} /\ ~stream.observer /\ ~stream.cancelled /\ stream.posted = <<>>
  <2>1. stream.todo = {"Destroy"} /\ Core(stream)
    BY DEF Destroys, Proceed, Sound, Core, Streams
  <2>2. stream.completions = {} /\ ~stream.observer /\ ~stream.cancelled
    BY <2>1 DEF Sound, Planned
  <2>3. Len(stream.posted) = 0
    <3>1. Len(stream.posted) \in Nat /\ stream.posted \in Seq([type : Types, ok : BOOLEAN])
      BY <2>1 DEF Core, Streams
    <3>2. \A i \in 1..Len(stream.posted) : FALSE
      BY <2>1, <2>2 DEF Core, PostedOnce
    <3> QED BY <3>1, <3>2
  <2>4. stream.posted \in Seq([type : Types, ok : BOOLEAN])
    BY <2>1 DEF Core, Streams
  <2> QED BY <2>1, <2>2, <2>3, <2>4, EmptySeq DEF Core
<1>2. /\ stream' \in Streams /\ stream'.todo = {} /\ stream'.life = "destroyed"
      /\ stream'.held = stream.held /\ stream'.asserted = stream.asserted
      /\ stream'.buffer = stream.buffer /\ stream'.active = stream.active
      /\ stream'.asked = stream.asked /\ stream'.writing = stream.writing
      /\ stream'.sent = stream.sent /\ stream'.read = stream.read
      /\ stream'.told = stream.told /\ stream'.posted = stream.posted
      /\ stream'.completions = stream.completions /\ stream'.cancelled = stream.cancelled
      /\ stream'.observer = stream.observer /\ stream'.notified = stream.notified
  BY <1>1, ZenonT(60) DEF Destroys, Destroy, Asserting, Core, Streams
<1>3. Core(stream')
  BY <1>1, <1>2 DEF Core, PostedOnce, ReadsInOrder, WritesInOrder, Taken
<1>4. Planned(stream')
  BY <1>1, <1>2 DEF Planned
<1>5. Unseen(stream, stream')
  BY <1>1, <1>2 DEF Unseen, Phase
<1> QED BY <1>3, <1>4, <1>5 DEF Good, Sound, Seen

LEMMA CallBreaksStep ==
    ASSUME Sound(stream), CallBreaks
    PROVE  Good(stream, stream')
<1>1. /\ Onward(stream, stream') /\ stream'.completions = stream.completions
      /\ stream'.cancelled = stream.cancelled /\ stream'.observer = stream.observer
      /\ stream'.notified = stream.notified /\ stream'.todo = stream.todo
  BY DEF CallBreaks, Onward, Sound, Core, Streams
<1>2. Core(stream')
  BY <1>1, OnwardCore DEF Sound
<1>3. Planned(stream')
  BY <1>1 DEF Onward, Sound, Planned
<1>4. Unseen(stream, stream')
  BY <1>1 DEF Onward, Unseen, Phase
<1> QED BY <1>2, <1>3, <1>4 DEF Good, Sound, Seen

LEMMA CompleteStep ==
    ASSUME Sound(stream), NEW type \in Types, NEW ok \in BOOLEAN, Complete(type, ok)
    PROVE  Good(stream, stream')
<1> DEFINE d == Completed(stream, type, ok)
<1>1. /\ stream' = d /\ type \in stream.held /\ Core(stream)
      /\ ok /\ type = "Read" => stream.read < MaxMessages
  BY DEF Complete, Completed, Sound
<1>2. /\ Core(d) /\ d.told = stream.told /\ d.asked = stream.asked
      /\ d.notified = stream.notified /\ d.observer = stream.observer
      /\ d.life = stream.life /\ d.todo = stream.todo /\ d.cancelled = stream.cancelled
      /\ d.completions = stream.completions
      /\ \/ d.sent = stream.sent
         \/ d.sent = Append(stream.sent, Len(stream.sent) + 1) /\ Len(stream.sent) < stream.asked
  BY <1>1, CompletedCore
<1> HIDE DEF d
<1>3. /\ stream.completions # {} /\ stream.observer /\ stream.life = "started"
      /\ ~stream.notified
  <2>1. stream.completions # {}
    BY <1>1 DEF Core
  <2> QED BY <1>1, <2>1 DEF Sound, Planned, Core, Streams
<1>4. Planned(d)
  BY <1>2, <1>3 DEF Sound, Planned
<1>5. Seen(stream, d)
  BY <1>2, <1>3 DEF Seen, Unseen, Phase
<1> QED BY <1>1, <1>2, <1>4, <1>5 DEF Good, Sound

LEMMA NextGood ==
    ASSUME Sound(stream), Next
    PROVE  Good(stream, stream')
BY StartStep, ObserverWritesStep, ObserverFinishesStep, ConnectivityChangesStep,
   WorkerRunsStep, AwaitLastEndsStep, AwaitEndsStep, FinishesStep, DrainsStep,
   UnsetsObserverStep, NotifiesStep, DestroysStep, CallBreaksStep, CompleteStep
   DEF Next, WorkerProceeds

LEMMA InitSound == Init => Sound(stream)
<1> SUFFICES ASSUME Init PROVE Sound(stream)
  OBVIOUS
<1>1. /\ stream \in Streams /\ Len(stream.posted) = 0 /\ Len(stream.told) = 0
      /\ Len(stream.sent) = 0 /\ Len(stream.buffer) = 0
  BY StreamAssumption, EmptySeq DEF Init, Streams, Types, Todos
<1>2. Core(stream)
  BY <1>1 DEF Init, Core, PostedOnce, ReadsInOrder, WritesInOrder, Taken
<1>3. Planned(stream)
  BY DEF Init, Planned
<1> QED BY <1>2, <1>3 DEF Sound

\* The inductive invariant holds in every state the stream can be in.
THEOREM SoundForEver == Spec => [](Sound(stream))
<1> DEFINE IInv == Sound(stream)
<1>1. Init => IInv
  BY InitSound
<1>2. IInv /\ [Next]_stream => IInv'
  <2>1. ASSUME IInv, Next PROVE IInv'
    BY <2>1, NextGood DEF Good
  <2>2. ASSUME IInv, UNCHANGED stream PROVE IInv'
    BY <2>2 DEF Sound, Core, Planned, PostedOnce, ReadsInOrder, WritesInOrder, Taken
  <2> QED BY <2>1, <2>2
<1> QED BY <1>1, <1>2, PTL DEF Spec

\* The state always has its type.
THEOREM TypeCorrect == Spec => []TypeOK
<1>1. Sound(stream) => TypeOK
  BY DEF Sound, Core, TypeOK
<1> QED BY <1>1, SoundForEver, PTL

\* However many messages there are, no assertion of grpc_stream.cc fails and no
\* rule of gRPC is broken, whichever of the two threads is first.
THEOREM AssertionsHold == Spec => []AssertsHold
<1>1. Sound(stream) => AssertsHold
  BY DEF Sound, Core, AssertsHold
<1> QED BY <1>1, SoundForEver, PTL

\* To its observer the stream is what ObservedStream promises.
THEOREM StreamImplementsObserved == Spec => ImplementsObservedStream
<1> DEFINE IInv == Sound(stream)
<1>1. Init => Promise!Init
  BY DEF Init, Promise!Init
<1>2. IInv /\ [Next]_stream => [Promise!Next]_(Promise!observed)
  <2>1. ASSUME IInv, Next PROVE [Promise!Next]_(Promise!observed)
    <3>1. Seen(stream, stream')
      BY <2>1, NextGood DEF Good
    <3> QED BY <3>1 DEF Seen, Unseen, Phase, Promise!Next, Promise!observed, Promise!Starts,
               Promise!Tells, Promise!Writes, Promise!Sends, Promise!Ends
  <2>2. ASSUME UNCHANGED stream PROVE UNCHANGED Promise!observed
    BY <2>2 DEF Promise!observed
  <2> QED BY <2>1, <2>2
<1>3. Spec => []IInv
  BY SoundForEver
<1> HIDE DEF IInv
<1> QED BY <1>1, <1>2, <1>3, PTL DEF Spec, ImplementsObservedStream, Promise!Spec
=============================================================================
