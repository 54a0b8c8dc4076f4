---------------------------- MODULE ObservedStream ----------------------------
(****************************************************************************)
(* What a stream of the gRPC client promises whoever opened it: messages of *)
(* both sides in their order and none twice, at most one word of the end,   *)
(* and nothing after it.  GrpcStream implements it; WatchConnection and     *)
(* DocumentWatch take it for granted.                                       *)
(****************************************************************************)
EXTENDS Naturals, Sequences

VARIABLES
    told,    \* the server's messages the observer was told of, in order
    asked,   \* how many messages were written, the n-th being n
    sent,    \* those that left, in order
    phase    \* "new", "started", or how it ended: "quietly" or "notified"

observed == <<told, asked, sent, phase>>

Init == told = <<>> /\ asked = 0 /\ sent = <<>> /\ phase = "new"

Starts == phase = "new" /\ phase' = "started" /\ UNCHANGED <<told, asked, sent>>

Tells ==
    /\ phase = "started"
    /\ told' = Append(told, Len(told) + 1)
    /\ UNCHANGED <<asked, sent, phase>>

Writes == phase = "started" /\ asked' = asked + 1 /\ UNCHANGED <<told, sent, phase>>

Sends ==
    /\ phase = "started"
    /\ Len(sent) < asked
    /\ sent' = Append(sent, Len(sent) + 1)
    /\ UNCHANGED <<told, asked, phase>>

\* The stream ends, with a word to the observer unless the observer ended it.
Ends ==
    /\ phase \in {"new", "started"}
    /\ phase' \in {"quietly", "notified"}
    /\ UNCHANGED <<told, asked, sent>>

Next == Starts \/ Tells \/ Writes \/ Sends \/ Ends

Spec == Init /\ [][Next]_observed
=============================================================================
