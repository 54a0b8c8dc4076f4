------------------------- MODULE MCNonMaxSuppression -------------------------
(* Three rectangles in a row of which neighbours overlap over 0.4 and the   *)
(* ends do not, one that shares exactly 0.4 with the first, one of no area. *)
EXTENDS NonMaxSuppression

Row == [x : 0..2, y : {0}, w : {4}, h : {2}]
AtThreshold == [x |-> 2, y |-> 0, w |-> 3, h |-> 2]
Flat == [x |-> 1, y |-> 0, w |-> 0, h |-> 2]

MCBoxes == [score : {1, 2}, rect : Row] \cup [score : {1}, rect : {AtThreshold, Flat}]
=============================================================================
