--------------------------- MODULE GreedySelection ---------------------------
(****************************************************************************)
(* What nonMaxSuppression promises, without its sort, its flags and its two *)
(* nested loops: again and again the best of the boxes that remain is       *)
(* selected, and every remaining box that overlaps it too much is dropped.  *)
(****************************************************************************)
EXTENDS Naturals, Sequences

CONSTANTS
    Limit,         \* how many boxes may be selected
    Overlap(_, _)  \* Overlap(a, b): b's overlap with the selected a is over the threshold

VARIABLES
    boxes,      \* the boxes of the call
    chosen,     \* indices of the boxes selected so far
    remaining   \* indices of the boxes that may still be selected

vars == <<boxes, chosen, remaining>>

Init == /\ chosen = <<>>
        /\ remaining = DOMAIN boxes

\* The best remaining box is selected; what overlaps it is dropped with it.
Choose(a) ==
    /\ Len(chosen) < Limit
    /\ a \in remaining
    /\ \A b \in remaining : boxes[a].score >= boxes[b].score
    /\ chosen' = Append(chosen, a)
    /\ remaining' = {b \in remaining \ {a} : ~Overlap(boxes[a], boxes[b])}
    /\ UNCHANGED boxes

Next == \E a \in DOMAIN boxes : Choose(a)

Spec == Init /\ [][Next]_vars /\ WF_vars(Next)
=============================================================================
