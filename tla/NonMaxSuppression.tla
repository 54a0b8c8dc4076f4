-------------------------- MODULE NonMaxSuppression --------------------------
(****************************************************************************)
(* nonMaxSuppression of Helpers.swift, the function that turns the raw      *)
(* detections of the network into the boxes StoryController shows: one      *)
(* action per turn of its two loops.  Indices start at 1, the source's at 0.*)
(****************************************************************************)
EXTENDS Integers, Sequences, FiniteSets

CONSTANTS
    Boxes,      \* the predictions a call may be given: records [score, rect]
    MaxBoxes,   \* bound: the longest array of predictions explored
    Limit,      \* the parameter limit (YOLO.maxBoundingBoxes)
    ThreshNum,  \* the parameter threshold, as a fraction: ThreshNum / ThreshDen
    ThreshDen

VARIABLES
    boxes,      \* the array boxes
    order,      \* sortedIndices
    active,     \* the flags active, by position in order
    numActive,  \* the counter numActive
    selected,   \* the result, as indices of boxes
    i, j,       \* the loop variables
    pc          \* "outer": at the head of the outer loop; "inner"; "done": returned

vars == <<boxes, order, active, numActive, selected, i, j, pc>>

Rect == [x : Int, y : Int, w : Nat, h : Nat]

ASSUME NMSAssumption ==
    /\ Boxes \subseteq [score : Nat, rect : Rect]
    /\ MaxBoxes \in Nat
    /\ Limit \in Nat \ {0}
    /\ ThreshNum \in Nat
    /\ ThreshDen \in Nat \ {0}

-----------------------------------------------------------------------------
Larger(a, b) == IF a >= b THEN a ELSE b
Smaller(a, b) == IF a <= b THEN a ELSE b

Area(r) == r.w * r.h

\* The area two rectangles share: the overlaps of their sides, never below zero.
Intersection(a, b) ==
    Larger(Smaller(a.y + a.h, b.y + b.h) - Larger(a.y, b.y), 0)
      * Larger(Smaller(a.x + a.w, b.x + b.w) - Larger(a.x, b.x), 0)

\* IOU(a, b) > threshold, over the integers; a rectangle without area has IOU 0.
IOUExceeds(a, b) ==
    /\ Area(a) > 0
    /\ Area(b) > 0
    /\ Intersection(a, b) * ThreshDen
         > ThreshNum * ((Area(a) + Area(b)) - Intersection(a, b))

Overlap(a, b) == IOUExceeds(a.rect, b.rect)

\* b is suppressed by a: the test the inner loop makes, on indices of boxes.
Suppresses(a, b) == Overlap(boxes[a], boxes[b])

N == Len(boxes)

\* Mutant: sorted by <, the worst prediction first.
SortedIndicesAscending(bs) ==
    {p \in [1..Len(bs) -> 1..Len(bs)] :
        /\ \A k, l \in 1..Len(bs) : k < l => bs[p[k]].score <= bs[p[l]].score
        /\ \A b \in 1..Len(bs) : \E k \in 1..Len(bs) : p[k] = b}

\* What sorted { $0.score > $1.score } may return.  The sort need not be
\* stable, so predictions of equal score come in any order.
SortedIndices(bs) ==
    {p \in [1..Len(bs) -> 1..Len(bs)] :
        /\ \A k, l \in 1..Len(bs) : k < l => bs[p[k]].score >= bs[p[l]].score
        /\ \A k, l \in 1..Len(bs) : p[k] = p[l] => k = l
        /\ \A b \in 1..Len(bs) : \E k \in 1..Len(bs) : p[k] = b}

Init ==
    /\ boxes \in UNION {[1..n -> Boxes] : n \in 0..MaxBoxes}
    /\ order \in SortedIndices(boxes)
    /\ active = [k \in 1..N |-> TRUE]
    /\ numActive = N
    /\ selected = <<>>
    /\ i = 1
    /\ j = 1
    /\ pc = "outer"

-----------------------------------------------------------------------------
\* Mutant: a suppressed box ends the call (break for continue).
SkipStops ==
    /\ pc = "outer"
    /\ i <= N
    /\ ~active[i]
    /\ pc' = "done"
    /\ UNCHANGED <<boxes, order, active, numActive, selected, i, j>>

\* if active[i] fails: the outer loop goes on.
SkipSuppressed ==
    /\ pc = "outer"
    /\ i <= N
    /\ ~active[i]
    /\ i' = i + 1
    /\ UNCHANGED <<boxes, order, active, numActive, selected, j, pc>>

\* boxA is appended to the result; at the limit the function stops there.
Select ==
    /\ pc = "outer"
    /\ i <= N
    /\ active[i]
    /\ selected' = Append(selected, order[i])
    /\ IF Len(selected) + 1 >= Limit
         THEN pc' = "done" /\ j' = j
         ELSE pc' = "inner" /\ j' = i + 1
    /\ UNCHANGED <<boxes, order, active, numActive, i>>

\* Mutant: boxB is counted off but its flag stays on.
SuppressKeepsFlag ==
    /\ pc = "inner"
    /\ j <= N
    /\ active[j]
    /\ Suppresses(order[i], order[j])
    /\ numActive' = numActive - 1
    /\ j' = j + 1
    /\ pc' = IF numActive' <= 0 THEN "done" ELSE "inner"
    /\ UNCHANGED <<boxes, order, active, selected, i>>

\* Mutant: the inner loop stops at the first box it switches off.
SuppressFirstOnly ==
    /\ pc = "inner"
    /\ j <= N
    /\ active[j]
    /\ Suppresses(order[i], order[j])
    /\ active' = [active EXCEPT ![j] = FALSE]
    /\ numActive' = numActive - 1
    /\ j' = N + 1
    /\ pc' = IF numActive' <= 0 THEN "done" ELSE "inner"
    /\ UNCHANGED <<boxes, order, selected, i>>

\* boxB overlaps boxA too much: it is switched off and counted off.
Suppress ==
    /\ pc = "inner"
    /\ j <= N
    /\ active[j]
    /\ Suppresses(order[i], order[j])
    /\ active' = [active EXCEPT ![j] = FALSE]
    /\ numActive' = numActive - 1
    /\ j' = j + 1
    /\ pc' = IF numActive' <= 0 THEN "done" ELSE "inner"
    /\ UNCHANGED <<boxes, order, selected, i>>

\* boxB is already off, or far enough from boxA.
Keep ==
    /\ pc = "inner"
    /\ j <= N
    /\ active[j] => ~Suppresses(order[i], order[j])
    /\ j' = j + 1
    /\ UNCHANGED <<boxes, order, active, numActive, selected, i, pc>>

\* The inner loop has run out.
EndInner ==
    /\ pc = "inner"
    /\ j > N
    /\ i' = i + 1
    /\ pc' = "outer"
    /\ UNCHANGED <<boxes, order, active, numActive, selected, j>>

\* The outer loop has run out: selected is returned.
Return ==
    /\ pc = "outer"
    /\ i > N
    /\ pc' = "done"
    /\ UNCHANGED <<boxes, order, active, numActive, selected, i, j>>

Next == SkipSuppressed \/ Select \/ Suppress \/ Keep \/ EndInner \/ Return

\* The function runs on one thread and waits for nothing.
Spec == Init /\ [][Next]_vars /\ WF_vars(Next)

-----------------------------------------------------------------------------
TypeOK ==
    /\ boxes \in Seq(Boxes)
    /\ order \in [1..N -> 1..N]
    /\ active \in [1..N -> BOOLEAN]
    /\ numActive \in 0..N
    /\ selected \in Seq(1..N)
    /\ Len(selected) <= Limit
    /\ i \in 1..(N + 1)
    /\ j \in 1..(N + 1)
    /\ pc \in {"outer", "inner", "done"}

\* No two selected boxes overlap over the threshold, at any moment of the
\* call, whichever of the two is taken first: the point of the suppression.
ResultIsIndependent ==
    \A k, l \in DOMAIN selected :
        k # l => ~Suppresses(selected[k], selected[l])

\* Nothing is lost: a box that is not in the result of a call that stopped
\* below the limit overlaps a selected box that scores at least as high.
ResultCovers ==
    (pc = "done" /\ Len(selected) < Limit) =>
        \A b \in 1..N :
            \/ \E k \in DOMAIN selected : selected[k] = b
            \/ \E k \in DOMAIN selected :
                  /\ Suppresses(selected[k], b)
                  /\ boxes[selected[k]].score >= boxes[b].score

\* The limit cuts off the weakest: the result is in falling order of score, and
\* a box left out that overlaps no selected box scores no higher than any of them.
ResultIsBest ==
    /\ \A k, l \in DOMAIN selected :
          k < l => boxes[selected[k]].score >= boxes[selected[l]].score
    /\ pc = "done" =>
          \A b \in 1..N :
              \/ \E k \in DOMAIN selected : selected[k] = b
              \/ \E k \in DOMAIN selected : Suppresses(selected[k], b)
              \/ \A k \in DOMAIN selected : boxes[selected[k]].score >= boxes[b].score

\* numActive counts the flags that are on and never reaches zero during a
\* call, because no box switches itself off: "if numActive <= 0 { break outer }"
\* is never taken, so a call ends at the limit or at the end of the array.
NumActiveCounts ==
    /\ numActive = Cardinality({k \in 1..N : active[k]})
    /\ pc = "done" => (Len(selected) = Limit \/ i = N + 1)

-----------------------------------------------------------------------------
\* Positions of order whose box may still be selected.  While the inner loop
\* runs, a box it has not reached yet is already lost if boxA overlaps it.
Remaining ==
    {order[k] : k \in {l \in 1..N :
        /\ active[l]
        /\ IF pc = "outer" THEN l >= i
                           ELSE l > i /\ ~Suppresses(order[i], order[l])}}

Greedy == INSTANCE GreedySelection WITH chosen <- selected, remaining <- Remaining

\* The two loops select what the greedy rule selects, and as far as it does.
ImplementsGreedy == Greedy!Spec
=============================================================================
