--------------------------- MODULE DetectorProofs ---------------------------
(****************************************************************************)
(* Of the detector: that non-maximum suppression selects what it should,    *)
(* for every array of predictions, every limit and every threshold; and     *)
(* that the loops over the feature maps read every element once and find    *)
(* every detection, for grids of any sizes and any number of boxes and      *)
(* classes.                                                                 *)
(****************************************************************************)
EXTENDS NonMaxSuppression, YoloGrid, FiniteSetTheorems, SequenceTheorems, TLAPS

\* The selected boxes were taken from the part of order already passed, best
\* score first, and the last of them is boxA while the inner loop runs.
SelectedFromPast ==
    /\ \A k \in 1..Len(selected) : \E p \in 1..N :
          /\ selected[k] = order[p]
          /\ p <= i
          /\ pc = "outer" => p < i
    /\ \A k, l \in 1..Len(selected) :
          k < l => boxes[selected[k]].score >= boxes[selected[l]].score
    /\ pc # "done" => Len(selected) < Limit
    /\ pc = "inner" =>
          /\ i <= N
          /\ i < j
          /\ active[i]
          /\ Len(selected) > 0
          /\ selected[Len(selected)] = order[i]

\* The outer loop is still to look at this position.
Ahead(q) == IF pc = "outer" THEN i <= q ELSE i < q

\* selected[k] has been compared with the box at position q.
Compared(k, q) == pc = "inner" => (k < Len(selected) \/ q < j)

\* What is still on and ahead is clear of the boxes it was compared with.
AheadIsClear ==
    \A k \in 1..Len(selected), q \in 1..N :
        (pc # "done" /\ active[q] /\ Ahead(q) /\ Compared(k, q))
            => ~Suppresses(selected[k], order[q])

\* Each selected box is clear of those selected before it.
LaterIsClear ==
    \A k, l \in 1..Len(selected) : k < l => ~Suppresses(selected[k], selected[l])

\* A flag is off because of a selected box that scores at least as high.
OffIsCovered ==
    \A q \in 1..N : ~active[q] =>
        \E k \in 1..Len(selected) :
            /\ Suppresses(selected[k], order[q])
            /\ boxes[selected[k]].score >= boxes[order[q]].score

\* A flag still on behind the outer loop belongs to a selected box.
OnIsSelected ==
    \A q \in 1..N : (active[q] /\ ~Ahead(q)) =>
        \E k \in 1..Len(selected) : selected[k] = order[q]

IndInv ==
    /\ TypeOK
    /\ order \in SortedIndices(boxes)
    /\ SelectedFromPast
    /\ AheadIsClear
    /\ LaterIsClear
    /\ OffIsCovered
    /\ OnIsSelected
    /\ NumActiveCounts

-----------------------------------------------------------------------------
(* Facts about the operators.                                               *)

\* The area two rectangles share does not depend on which is named first.
LEMMA IntersectionSymmetric ==
  ASSUME NEW a \in Rect, NEW c \in Rect
  PROVE  Intersection(a, c) = Intersection(c, a)
<1>1. \A m, n \in Int : Larger(m, n) = Larger(n, m) /\ Smaller(m, n) = Smaller(n, m)
  BY DEF Larger, Smaller
<1>2. /\ a.x \in Int /\ a.x + a.w \in Int /\ a.y \in Int /\ a.y + a.h \in Int
      /\ c.x \in Int /\ c.x + c.w \in Int /\ c.y \in Int /\ c.y + c.h \in Int
  BY DEF Rect
<1>3. /\ Larger(a.x, c.x) = Larger(c.x, a.x)
      /\ Larger(a.y, c.y) = Larger(c.y, a.y)
      /\ Smaller(a.x + a.w, c.x + c.w) = Smaller(c.x + c.w, a.x + a.w)
      /\ Smaller(a.y + a.h, c.y + c.h) = Smaller(c.y + c.h, a.y + a.h)
  BY <1>1, <1>2
<1> QED
  BY <1>3 DEF Intersection

\* IOU(a, c) > threshold does not depend on which rectangle is named first.
LEMMA IOUSymmetric ==
  ASSUME NEW a \in Rect, NEW c \in Rect
  PROVE  IOUExceeds(a, c) <=> IOUExceeds(c, a)
<1>1. Intersection(a, c) = Intersection(c, a)
  BY IntersectionSymmetric
<1>2. Area(a) + Area(c) = Area(c) + Area(a)
  <2>1. /\ a.w \in Int /\ a.h \in Int /\ c.w \in Int /\ c.h \in Int
    BY DEF Rect
  <2>2. Area(a) \in Int /\ Area(c) \in Int
    <3>1. \A m, n \in Int : m * n \in Int
      OBVIOUS
    <3> QED
      BY <2>1, <3>1 DEF Area
  <2> QED
    BY <2>2
<1>3. Intersection(a, c) * ThreshDen = Intersection(c, a) * ThreshDen
  BY <1>1, Zenon
<1>4. ThreshNum * ((Area(a) + Area(c)) - Intersection(a, c))
        = ThreshNum * ((Area(c) + Area(a)) - Intersection(c, a))
  BY <1>1, <1>2, Zenon
<1> QED
  BY <1>3, <1>4, Zenon DEF IOUExceeds

\* Suppression is symmetric on the boxes of the call.
LEMMA SuppressesSymmetric ==
  ASSUME TypeOK, NEW a \in 1..N, NEW c \in 1..N
  PROVE  Suppresses(a, c) <=> Suppresses(c, a)
<1>1. boxes[a] \in Boxes /\ boxes[c] \in Boxes
  BY DEF TypeOK, N
<1>2. boxes[a].rect \in Rect /\ boxes[c].rect \in Rect
  BY <1>1, NMSAssumption
<1> QED
  BY <1>2, IOUSymmetric DEF Suppresses, Overlap

\* Along order the scores never rise.
LEMMA OrderIsRanked ==
  ASSUME IndInv, NEW p \in 1..N, NEW q \in 1..N, p <= q
  PROVE  /\ order[p] \in 1..N
         /\ boxes[order[p]].score \in Nat
         /\ boxes[order[p]].score >= boxes[order[q]].score
<1>1. order[p] \in 1..N /\ order[q] \in 1..N
  BY DEF IndInv, TypeOK
<1>2. \A c \in 1..N : boxes[c].score \in Nat
  <2>1. \A c \in 1..N : boxes[c] \in Boxes
    BY DEF IndInv, TypeOK, N
  <2> QED
    BY <2>1, NMSAssumption
<1>3. CASE p = q
  BY <1>1, <1>2, <1>3
<1>4. CASE p < q
  <2>1. \A k, l \in 1..Len(boxes) :
            k < l => boxes[order[k]].score >= boxes[order[l]].score
    BY DEF IndInv, SortedIndices
  <2> QED
    BY <1>1, <1>2, <1>4, <2>1 DEF N
<1> QED
  BY <1>3, <1>4 DEF N

-----------------------------------------------------------------------------
(* The invariant holds at the start and is kept by every action.            *)

\* What the sort hands over.
LEMMA InitIndInv == Init => IndInv
<1> SUFFICES ASSUME Init PROVE IndInv
  OBVIOUS
<1>1. boxes \in Seq(Boxes) /\ N \in Nat
  <2>1. PICK n \in 0..MaxBoxes : boxes \in [1..n -> Boxes]
    BY DEF Init
  <2>2. n \in Nat
    BY NMSAssumption
  <2> QED
    BY <2>1, <2>2 DEF N
<1>2. TypeOK
  BY <1>1, NMSAssumption, SMTT(40) DEF Init, TypeOK, SortedIndices, N
<1>3. NumActiveCounts
  <2>1. {k \in 1..N : active[k]} = 1..N
    BY DEF Init
  <2>2. Cardinality(1..N) = N
    BY <1>1, FS_Interval
  <2> QED
    BY <2>1, <2>2 DEF Init, NumActiveCounts
<1> QED
  BY <1>1, <1>2, <1>3, NMSAssumption
  DEF Init, IndInv, SelectedFromPast, AheadIsClear, LaterIsClear, OffIsCovered,
      OnIsSelected, Ahead

\* A box that was switched off is passed over.
LEMMA SkipKeepsIndInv == IndInv /\ SkipSuppressed => IndInv'
<1> SUFFICES ASSUME IndInv, SkipSuppressed PROVE IndInv'
  OBVIOUS
<1> USE DEF SkipSuppressed
<1>1. N \in Nat /\ N' = N /\ \A a, c : Suppresses(a, c)' = Suppresses(a, c)
  BY DEF IndInv, TypeOK, N, Suppresses
<1>2. TypeOK'
  BY <1>1 DEF IndInv, TypeOK
<1>3. NumActiveCounts'
  BY <1>1 DEF IndInv, TypeOK, NumActiveCounts
<1>4. (order \in SortedIndices(boxes))'
  BY DEF IndInv
<1>5. SelectedFromPast'
  BY <1>1 DEF IndInv, TypeOK, SelectedFromPast
<1>6. AheadIsClear'
  BY <1>1 DEF IndInv, TypeOK, AheadIsClear, Ahead, Compared
<1>7. LaterIsClear' /\ OffIsCovered'
  BY <1>1 DEF IndInv, LaterIsClear, OffIsCovered
<1>8. OnIsSelected'
  <2> SUFFICES ASSUME NEW q \in 1..N, active[q], ~(i + 1 <= q)
               PROVE  \E k \in 1..Len(selected) : selected[k] = order[q]
    BY <1>1 DEF OnIsSelected, Ahead
  <2>1. q # i
    BY Zenon
  <2>2. q < i
    BY <1>1, <2>1 DEF IndInv, TypeOK
  <2> QED
    BY <2>2 DEF IndInv, TypeOK, OnIsSelected, Ahead
<1> QED
  BY <1>2, <1>3, <1>4, <1>5, <1>6, <1>7, <1>8 DEF IndInv

\* A box that is still on is selected.
LEMMA KeepKeepsIndInv == IndInv /\ Keep => IndInv'
<1> SUFFICES ASSUME IndInv, Keep PROVE IndInv'
  OBVIOUS
<1> USE DEF Keep
<1>1. N \in Nat /\ N' = N /\ \A a, c : Suppresses(a, c)' = Suppresses(a, c)
  BY DEF IndInv, TypeOK, N, Suppresses
<1>2. TypeOK'
  BY <1>1 DEF IndInv, TypeOK
<1>3. NumActiveCounts'
  BY <1>1 DEF IndInv, TypeOK, NumActiveCounts
<1>4. (order \in SortedIndices(boxes))'
  BY DEF IndInv
<1>5. SelectedFromPast'
  BY <1>1 DEF IndInv, TypeOK, SelectedFromPast
<1>6. AheadIsClear'
  <2> SUFFICES ASSUME NEW k \in 1..Len(selected), NEW q \in 1..N,
                      active[q], i < q, k < Len(selected) \/ q < j + 1
               PROVE  ~Suppresses(selected[k], order[q])
    BY <1>1 DEF AheadIsClear, Ahead, Compared
  <2>1. CASE k < Len(selected) \/ q < j
    BY <2>1 DEF IndInv, AheadIsClear, Ahead, Compared
  <2>2. CASE k = Len(selected) /\ q = j
    BY <2>2 DEF IndInv, SelectedFromPast
  <2> QED
    BY <2>1, <2>2 DEF IndInv, TypeOK
<1>7. LaterIsClear' /\ OffIsCovered'
  BY <1>1 DEF IndInv, LaterIsClear, OffIsCovered
<1>8. OnIsSelected'
  BY <1>1 DEF IndInv, TypeOK, OnIsSelected, Ahead
<1> QED
  BY <1>2, <1>3, <1>4, <1>5, <1>6, <1>7, <1>8 DEF IndInv

\* The comparison with the boxes behind ends.
LEMMA EndInnerKeepsIndInv == IndInv /\ EndInner => IndInv'
<1> SUFFICES ASSUME IndInv, EndInner PROVE IndInv'
  OBVIOUS
<1> USE DEF EndInner
<1>1. N \in Nat /\ N' = N /\ \A a, c : Suppresses(a, c)' = Suppresses(a, c)
  BY DEF IndInv, TypeOK, N, Suppresses
<1>2. TypeOK'
  BY <1>1 DEF IndInv, TypeOK, SelectedFromPast
<1>3. NumActiveCounts'
  BY <1>1 DEF IndInv, NumActiveCounts
<1>4. (order \in SortedIndices(boxes))'
  BY DEF IndInv
<1>5. SelectedFromPast'
  BY <1>1 DEF IndInv, TypeOK, SelectedFromPast
<1>6. AheadIsClear'
  BY <1>1 DEF IndInv, TypeOK, AheadIsClear, Ahead, Compared
<1>7. LaterIsClear' /\ OffIsCovered'
  BY <1>1 DEF IndInv, LaterIsClear, OffIsCovered
<1>8. OnIsSelected'
  BY <1>1 DEF IndInv, TypeOK, OnIsSelected, Ahead
<1> QED
  BY <1>2, <1>3, <1>4, <1>5, <1>6, <1>7, <1>8 DEF IndInv

\* The function returns.
LEMMA ReturnKeepsIndInv == IndInv /\ Return => IndInv'
<1> SUFFICES ASSUME IndInv, Return PROVE IndInv'
  OBVIOUS
<1> USE DEF Return
<1>1. N \in Nat /\ N' = N /\ \A a, c : Suppresses(a, c)' = Suppresses(a, c)
  BY DEF IndInv, TypeOK, N, Suppresses
<1>2. TypeOK'
  BY <1>1 DEF IndInv, TypeOK
<1>3. NumActiveCounts'
  BY <1>1 DEF IndInv, TypeOK, NumActiveCounts
<1>4. (order \in SortedIndices(boxes))'
  BY DEF IndInv
<1>5. SelectedFromPast'
  BY <1>1 DEF IndInv, TypeOK, SelectedFromPast
<1>6. AheadIsClear' /\ LaterIsClear' /\ OffIsCovered'
  BY <1>1 DEF IndInv, AheadIsClear, LaterIsClear, OffIsCovered
<1>8. OnIsSelected'
  <2> SUFFICES ASSUME NEW q \in 1..N, active[q], ~(i < q)
               PROVE  \E k \in 1..Len(selected) : selected[k] = order[q]
    BY <1>1 DEF OnIsSelected, Ahead
  <2>1. q < i
    BY <1>1 DEF IndInv, TypeOK
  <2> QED
    BY <2>1 DEF IndInv, TypeOK, OnIsSelected, Ahead
<1> QED
  BY <1>2, <1>3, <1>4, <1>5, <1>6, <1>8 DEF IndInv

\* Select: boxA goes to the end of selected.
LEMMA SelectKeepsIndInv == IndInv /\ Select => IndInv'
<1> SUFFICES ASSUME IndInv, Select PROVE IndInv'
  OBVIOUS
<1>1. /\ N \in Nat /\ N' = N /\ i \in 1..N /\ active[i] /\ pc = "outer"
      /\ boxes' = boxes /\ order' = order /\ active' = active /\ i' = i
      /\ \A a, c : Suppresses(a, c)' = Suppresses(a, c)
  BY DEF Select, IndInv, TypeOK, N, Suppresses
<1>2. /\ order[i] \in 1..N
      /\ selected \in Seq(1..N)
      /\ selected' = Append(selected, order[i])
      /\ selected' \in Seq(1..N)
      /\ Len(selected') = Len(selected) + 1
      /\ \A k \in 1..Len(selected) : selected'[k] = selected[k]
      /\ selected'[Len(selected')] = order[i]
  BY <1>1 DEF Select, IndInv, TypeOK
<1>3. Len(selected) \in Nat /\ Len(selected) < Limit /\ Limit \in Nat
  BY <1>1, <1>2, NMSAssumption DEF IndInv, SelectedFromPast
<1>4. \/ pc' = "done" /\ j' = j /\ Len(selected') >= Limit
      \/ pc' = "inner" /\ j' = i + 1 /\ Len(selected') < Limit
  BY <1>2, <1>3 DEF Select
<1>5. TypeOK'
  <2>1. Len(selected') <= Limit
    BY <1>2, <1>3
  <2>2. j' \in 1..(N + 1) /\ pc' \in {"outer", "inner", "done"}
    BY <1>1, <1>4 DEF IndInv, TypeOK
  <2>3. numActive' = numActive
    BY DEF Select
  <2> QED
    BY <1>1, <1>2, <2>1, <2>2, <2>3 DEF IndInv, TypeOK
<1>6. (order \in SortedIndices(boxes))'
  BY <1>1 DEF IndInv
<1>7. NumActiveCounts'
  <2>1. Len(selected') = Limit \/ pc' # "done"
    BY <1>2, <1>3, <1>4
  <2>2. numActive' = Cardinality({k \in 1..N : active[k]})
    BY DEF Select, IndInv, NumActiveCounts
  <2> QED
    BY <1>1, <2>1, <2>2 DEF NumActiveCounts
<1>8. SelectedFromPast'
  <2>1. \A k \in 1..Len(selected') : \E p \in 1..N : selected'[k] = order[p] /\ p <= i
    <3> TAKE k \in 1..Len(selected')
    <3>1. CASE k \in 1..Len(selected)
      <4>1. PICK p \in 1..N : selected[k] = order[p] /\ p <= i
        BY <3>1 DEF IndInv, SelectedFromPast
      <4> QED
        BY <1>2, <3>1, <4>1
    <3>2. CASE k = Len(selected')
      BY <1>1, <1>2, <3>2
    <3> QED
      BY <1>2, <1>3, <3>1, <3>2
  <2>2. ASSUME NEW k \in 1..Len(selected'), NEW l \in 1..Len(selected'), k < l
        PROVE  boxes[selected'[k]].score >= boxes[selected'[l]].score
    <3>1. k \in 1..Len(selected)
      BY <1>2, <1>3, <2>2
    <3>2. CASE l \in 1..Len(selected)
      BY <1>2, <2>2, <3>1, <3>2 DEF IndInv, SelectedFromPast
    <3>3. CASE l = Len(selected')
      <4>1. PICK p \in 1..N : selected[k] = order[p] /\ p <= i
        BY <3>1 DEF IndInv, SelectedFromPast
      <4>2. boxes[order[p]].score >= boxes[order[i]].score
        BY <1>1, <4>1, OrderIsRanked
      <4> QED
        BY <1>2, <3>1, <3>3, <4>1, <4>2
    <3> QED
      BY <1>2, <1>3, <3>2, <3>3
  <2>3. pc' # "outer" /\ (pc' # "done" => Len(selected') < Limit)
    BY <1>4
  <2>4. pc' = "inner" => i < j' /\ Len(selected') > 0
    BY <1>1, <1>2, <1>3, <1>4
  <2>5. \A k \in 1..Len(selected') : \E p \in 1..N :
            selected'[k] = order[p] /\ p <= i /\ (pc' = "outer" => p < i)
    BY <2>1, <2>3
  <2>6. i <= N /\ active'[i] /\ i' = i /\ N' = N /\ order' = order /\ boxes' = boxes
    BY <1>1
  <2>7. selected'[Len(selected')] = order[i]
    BY <1>2
  <2> QED
    BY <2>2, <2>3, <2>4, <2>5, <2>6, <2>7 DEF SelectedFromPast
<1>9. \A k \in 1..Len(selected), q \in 1..N :
          active[q] /\ i <= q => ~Suppresses(selected[k], order[q])
  BY <1>1 DEF IndInv, AheadIsClear, Ahead, Compared
<1>10. AheadIsClear'
  <2> SUFFICES ASSUME NEW k \in 1..Len(selected'), NEW q \in 1..N,
                      pc' = "inner", active[q], i < q,
                      k < Len(selected') \/ q < j'
               PROVE  ~Suppresses(selected'[k], order[q])
    BY <1>1, <1>4 DEF AheadIsClear, Ahead, Compared
  <2>1. k \in 1..Len(selected) /\ i <= q
    BY <1>1, <1>2, <1>3, <1>4
  <2>2. ~Suppresses(selected[k], order[q])
    BY <1>9, <2>1
  <2> QED
    BY <1>2, <2>1, <2>2
<1>11. LaterIsClear'
  <2> SUFFICES ASSUME NEW k \in 1..Len(selected'), NEW l \in 1..Len(selected'), k < l
               PROVE  ~Suppresses(selected'[k], selected'[l])
    BY <1>1 DEF LaterIsClear
  <2>1. k \in 1..Len(selected)
    BY <1>2, <1>3
  <2>2. CASE l \in 1..Len(selected)
    BY <1>2, <2>1, <2>2 DEF IndInv, LaterIsClear
  <2>3. CASE l = Len(selected')
    <3>1. ~Suppresses(selected[k], order[i])
      BY <1>1, <1>9, <2>1
    <3> QED
      BY <1>2, <2>1, <2>3, <3>1
  <2> QED
    BY <1>2, <1>3, <2>2, <2>3
<1>12. OffIsCovered'
  <2> SUFFICES ASSUME NEW q \in 1..N, ~active[q]
               PROVE  \E k \in 1..Len(selected') :
                          /\ Suppresses(selected'[k], order[q])
                          /\ boxes[selected'[k]].score >= boxes[order[q]].score
    BY <1>1 DEF OffIsCovered
  <2>1. PICK k \in 1..Len(selected) :
                /\ Suppresses(selected[k], order[q])
                /\ boxes[selected[k]].score >= boxes[order[q]].score
    BY DEF IndInv, OffIsCovered
  <2>2. k \in 1..Len(selected') /\ selected'[k] = selected[k]
    BY <1>2, <1>3
  <2> QED
    BY <2>1, <2>2
<1>13. OnIsSelected'
  <2> SUFFICES ASSUME NEW q \in 1..N, active[q], ~(i < q)
               PROVE  \E k \in 1..Len(selected') : selected'[k] = order[q]
    BY <1>1, <1>4 DEF OnIsSelected, Ahead
  <2>1. CASE q = i
    BY <1>2, <1>3, <2>1
  <2>2. CASE q < i
    <3>1. PICK k \in 1..Len(selected) : selected[k] = order[q]
      BY <1>1, <2>2 DEF IndInv, OnIsSelected, Ahead
    <3> QED
      BY <1>2, <1>3, <3>1
  <2> QED
    BY <1>1, <2>1, <2>2
<1> QED
  BY <1>5, <1>6, <1>7, <1>8, <1>10, <1>11, <1>12, <1>13 DEF IndInv

\* Suppress: boxB is switched off.  boxA stays on, so the count stays above zero
\* and the early exit is not taken.
LEMMA SuppressKeepsIndInv == IndInv /\ Suppress => IndInv' /\ pc' = "inner"
<1> SUFFICES ASSUME IndInv, Suppress PROVE IndInv' /\ pc' = "inner"
  OBVIOUS
<1>1. /\ N \in Nat /\ N' = N /\ i \in 1..N /\ j \in 1..N /\ i < j
      /\ pc = "inner" /\ active[i] /\ active[j]
      /\ boxes' = boxes /\ order' = order /\ selected' = selected /\ i' = i
      /\ j' = j + 1
      /\ active' = [active EXCEPT ![j] = FALSE]
      /\ \A a, c : Suppresses(a, c)' = Suppresses(a, c)
  BY DEF Suppress, IndInv, TypeOK, SelectedFromPast, N, Suppresses
<1>2. /\ active' \in [1..N -> BOOLEAN]
      /\ ~active'[j]
      /\ \A q \in 1..N : q # j => active'[q] = active[q]
  BY <1>1 DEF IndInv, TypeOK
<1>3. numActive' = Cardinality({k \in 1..N : active'[k]}) /\ numActive' \in 1..N
  <2> DEFINE On == {k \in 1..N : active[k]}
             Left == {k \in 1..N : active'[k]}
  <2>1. Left = On \ {j}
    BY <1>1, <1>2
  <2>2. IsFiniteSet(1..N) /\ Cardinality(1..N) = N
    <3>1. N \in Nat
      BY <1>1
    <3> QED
      BY <3>1, FS_Interval
  <2>3. IsFiniteSet(On) /\ Cardinality(On) \in Nat /\ Cardinality(On) <= N
    BY <2>2, FS_Subset, FS_CardinalityType
  <2>4. j \in On /\ i \in Left
    BY <1>1, <1>2
  <2>5. IsFiniteSet(Left) /\ Cardinality(Left) = Cardinality(On) - 1
    BY <2>1, <2>3, <2>4, FS_RemoveElement
  <2>6. Cardinality(Left) \in Nat /\ Cardinality(Left) # 0
    BY <2>4, <2>5, FS_EmptySet, FS_CardinalityType
  <2>7. numActive = Cardinality(On)
    BY DEF IndInv, NumActiveCounts
  <2> HIDE DEF On, Left
  <2>8. numActive' = Cardinality(Left) /\ numActive' \in 1..N
    BY <1>1, <2>3, <2>5, <2>6, <2>7 DEF Suppress
  <2> QED
    BY <2>8 DEF Left
<1>4. pc' = "inner"
  BY <1>3 DEF Suppress
<1>5. TypeOK'
  BY <1>1, <1>2, <1>3, <1>4, SMTT(40) DEF IndInv, TypeOK
<1>6. (order \in SortedIndices(boxes))'
  BY <1>1 DEF IndInv
<1>7. NumActiveCounts'
  BY <1>1, <1>3, <1>4 DEF NumActiveCounts
<1>8. SelectedFromPast'
  BY <1>1, <1>2, <1>4 DEF IndInv, SelectedFromPast
<1>9. AheadIsClear'
  <2> SUFFICES ASSUME NEW k \in 1..Len(selected), NEW q \in 1..N,
                      active'[q], i < q, k < Len(selected) \/ q < j + 1
               PROVE  ~Suppresses(selected[k], order[q])
    BY <1>1, <1>4 DEF AheadIsClear, Ahead, Compared
  <2>1. q # j
    BY <1>2
  <2>2. active[q]
    BY <1>2, <2>1
  <2>3. k < Len(selected) \/ q < j
    BY <1>1, <2>1
  <2> QED
    BY <1>1, <2>2, <2>3 DEF IndInv, AheadIsClear, Ahead, Compared
<1>10. LaterIsClear'
  BY <1>1 DEF IndInv, LaterIsClear
<1>11. OffIsCovered'
  <2> SUFFICES ASSUME NEW q \in 1..N, ~active'[q]
               PROVE  \E k \in 1..Len(selected) :
                          /\ Suppresses(selected[k], order[q])
                          /\ boxes[selected[k]].score >= boxes[order[q]].score
    BY <1>1 DEF OffIsCovered
  <2>1. CASE q = j
    <3>1. /\ Len(selected) \in 1..Len(selected)
          /\ selected[Len(selected)] = order[i]
      BY <1>1 DEF IndInv, TypeOK, SelectedFromPast
    <3>2. Suppresses(order[i], order[j])
      BY DEF Suppress
    <3>3. boxes[order[i]].score >= boxes[order[j]].score
      BY <1>1, OrderIsRanked
    <3> QED
      BY <2>1, <3>1, <3>2, <3>3
  <2>2. CASE q # j
    <3>1. ~active[q]
      BY <1>2, <2>2
    <3> QED
      BY <3>1 DEF IndInv, OffIsCovered
  <2> QED
    BY <2>1, <2>2
<1>12. OnIsSelected'
  <2> SUFFICES ASSUME NEW q \in 1..N, active'[q], ~(i < q)
               PROVE  \E k \in 1..Len(selected) : selected[k] = order[q]
    BY <1>1, <1>4 DEF OnIsSelected, Ahead
  <2>1. q # j
    BY <1>2
  <2>2. active[q]
    BY <1>2, <2>1
  <2> QED
    BY <1>1, <2>2 DEF IndInv, OnIsSelected, Ahead
<1> QED
  BY <1>4, <1>5, <1>6, <1>7, <1>8, <1>9, <1>10, <1>11, <1>12 DEF IndInv

\* Nothing changes.
LEMMA StutterKeepsIndInv == IndInv /\ UNCHANGED vars => IndInv'
  BY DEF vars, IndInv, TypeOK, SelectedFromPast, AheadIsClear, LaterIsClear,
         OffIsCovered, OnIsSelected, NumActiveCounts, Ahead, Compared, N,
         Suppresses

\* IndInv is an inductive invariant of the loops.
THEOREM Inductive == Spec => []IndInv
<1>1. Init => IndInv
  BY InitIndInv
<1>2. IndInv /\ [Next]_vars => IndInv'
  BY SkipKeepsIndInv, SelectKeepsIndInv, SuppressKeepsIndInv, KeepKeepsIndInv,
     EndInnerKeepsIndInv, ReturnKeepsIndInv, StutterKeepsIndInv DEF Next
<1> QED
  BY <1>1, <1>2, PTL DEF Spec

-----------------------------------------------------------------------------
(* What follows for the result.                                             *)

\* The flags, the counter and the loop variables stay in range, and no more
\* boxes are selected than the limit allows.
THEOREM TypeCorrect == Spec => []TypeOK
<1>1. IndInv => TypeOK
  BY DEF IndInv
<1> QED
  BY <1>1, Inductive, PTL

\* No two boxes of the result overlap over the threshold.
THEOREM Independence == Spec => []ResultIsIndependent
<1>1. IndInv => ResultIsIndependent
  <2> SUFFICES ASSUME IndInv, NEW k \in 1..Len(selected), NEW l \in 1..Len(selected),
                      k # l
               PROVE  ~Suppresses(selected[k], selected[l])
    BY DEF ResultIsIndependent, IndInv, TypeOK
  <2>1. selected[k] \in 1..N /\ selected[l] \in 1..N
    <3>1. selected \in Seq(1..N)
      BY DEF IndInv, TypeOK
    <3> QED
      BY <3>1, ElementOfSeq
  <2>2. CASE k < l
    BY <2>2 DEF IndInv, LaterIsClear
  <2>3. CASE l < k
    <3>1. ~Suppresses(selected[l], selected[k])
      BY <2>3 DEF IndInv, LaterIsClear
    <3> QED
      BY <2>1, <3>1, SuppressesSymmetric DEF IndInv
  <2> QED
    BY <2>2, <2>3 DEF IndInv, TypeOK
<1> QED
  BY <1>1, Inductive, PTL

\* A position of order exists for every box of the call.
LEMMA OrderCovers ==
  ASSUME IndInv, NEW c \in 1..N
  PROVE  \E q \in 1..N : order[q] = c
BY DEF IndInv, SortedIndices, N

\* A call that stops below the limit drops a box only for a selected one that
\* overlaps it and scores at least as high.
THEOREM Coverage == Spec => []ResultCovers
<1>1. IndInv => ResultCovers
  <2> SUFFICES ASSUME IndInv, pc = "done", Len(selected) < Limit, NEW c \in 1..N
               PROVE  \/ \E k \in 1..Len(selected) : selected[k] = c
                      \/ \E k \in 1..Len(selected) :
                            /\ Suppresses(selected[k], c)
                            /\ boxes[selected[k]].score >= boxes[c].score
    BY SMTT(40) DEF ResultCovers, IndInv, TypeOK
  <2>1. PICK q \in 1..N : order[q] = c
    BY OrderCovers
  <2>2. i = N + 1
    BY NMSAssumption DEF IndInv, TypeOK, NumActiveCounts
  <2>3. CASE active[q]
    <3>1. N \in Nat
      BY DEF IndInv, TypeOK, N
    <3>2. ~Ahead(q)
      BY <2>2, <3>1 DEF Ahead
    <3> QED
      BY <2>1, <2>3, <3>2 DEF IndInv, OnIsSelected
  <2>4. CASE ~active[q]
    BY <2>1, <2>4 DEF IndInv, OffIsCovered
  <2> QED
    BY <2>3, <2>4
<1> QED
  BY <1>1, Inductive, PTL

\* What the limit cuts off scores no higher than anything selected.
THEOREM Best == Spec => []ResultIsBest
<1>1. IndInv => ResultIsBest
  <2> SUFFICES ASSUME IndInv PROVE ResultIsBest
    OBVIOUS
  <2>1. \A k, l \in 1..Len(selected) :
            k < l => boxes[selected[k]].score >= boxes[selected[l]].score
    BY DEF IndInv, SelectedFromPast
  <2>2. ASSUME pc = "done", NEW c \in 1..N
        PROVE  \/ \E k \in 1..Len(selected) : selected[k] = c
               \/ \E k \in 1..Len(selected) : Suppresses(selected[k], c)
               \/ \A k \in 1..Len(selected) : boxes[selected[k]].score >= boxes[c].score
    <3>1. PICK q \in 1..N : order[q] = c
      BY OrderCovers
    <3>2. CASE ~active[q]
      BY <3>1, <3>2 DEF IndInv, OffIsCovered
    <3>3. CASE active[q] /\ ~Ahead(q)
      BY <3>1, <3>3 DEF IndInv, OnIsSelected
    <3>4. CASE Ahead(q)
      <4> SUFFICES ASSUME NEW k \in 1..Len(selected)
                   PROVE  boxes[selected[k]].score >= boxes[c].score
        OBVIOUS
      <4>1. PICK p \in 1..N : selected[k] = order[p] /\ p <= i
        BY DEF IndInv, SelectedFromPast
      <4>2. p <= q
        BY <2>2, <3>4, <4>1 DEF Ahead, IndInv, TypeOK
      <4> QED
        BY <3>1, <4>1, <4>2, OrderIsRanked
    <3> QED
      BY <3>2, <3>3, <3>4
  <2>3. DOMAIN selected = 1..Len(selected)
    BY DEF IndInv, TypeOK
  <2> QED
    BY <2>1, <2>2, <2>3 DEF ResultIsBest
<1> QED
  BY <1>1, Inductive, PTL

\* numActive is the number of flags that are on, and the early exit is dead.
THEOREM CountIsExact == Spec => []NumActiveCounts
<1>1. IndInv => NumActiveCounts
  BY DEF IndInv
<1> QED
  BY <1>1, Inductive, PTL

-----------------------------------------------------------------------------
(* The greedy rule *)

\* The positions of order whose box remains, when the outer loop is at n in the
\* phase p with the flags f.
LivePositions(p, n, f) ==
    {l \in 1..N : f[l] /\ IF p = "outer" THEN l >= n ELSE l > n /\ ~Suppresses(order[n], order[l])}

\* What remains, by position.
LEMMA RemainingIs == Remaining = {order[k] : k \in LivePositions(pc, i, active)}
BY DEF Remaining, LivePositions

\* The same after a step that keeps the boxes and their order.
LEMMA RemainingNext ==
  ASSUME boxes' = boxes, order' = order
  PROVE  Remaining' = {order[k] : k \in LivePositions(pc', i', active')}
BY DEF Remaining, LivePositions, Suppresses, N

\* A step of the loops that selects nothing: what remains is the same.
LEMMA QuietRemains ==
  ASSUME UNCHANGED <<boxes, order, selected>>,
         LivePositions(pc', i', active') = LivePositions(pc, i, active)
  PROVE  UNCHANGED Greedy!vars
<1>1. Remaining' = Remaining
  BY RemainingIs, RemainingNext
<1> QED BY <1>1 DEF Greedy!vars

\* A suppressed box is passed.
LEMMA SkipRemains == IndInv /\ SkipSuppressed => UNCHANGED Greedy!vars
<1> SUFFICES ASSUME IndInv, SkipSuppressed PROVE UNCHANGED Greedy!vars
  OBVIOUS
<1>1. /\ pc = "outer" /\ ~active[i] /\ i' = i + 1 /\ pc' = pc /\ active' = active
      /\ UNCHANGED <<boxes, order, selected>> /\ i \in Nat /\ N \in Nat
  BY DEF SkipSuppressed, IndInv, TypeOK, N
<1>2. LivePositions(pc', i', active') = LivePositions(pc, i, active)
  BY <1>1 DEF LivePositions
<1> QED BY <1>1, <1>2, QuietRemains

\* A box is kept.
LEMMA KeepRemains == IndInv /\ Keep => UNCHANGED Greedy!vars
<1> SUFFICES ASSUME IndInv, Keep PROVE UNCHANGED Greedy!vars
  OBVIOUS
<1>1. UNCHANGED <<boxes, order, selected, pc, i, active>>
  BY DEF Keep
<1> QED BY <1>1, QuietRemains

\* A box that overlaps boxA is switched off; it had been lost when boxA was selected.
LEMMA SuppressRemains == IndInv /\ Suppress => UNCHANGED Greedy!vars
<1> SUFFICES ASSUME IndInv, Suppress PROVE UNCHANGED Greedy!vars
  OBVIOUS
<1>1. /\ pc = "inner" /\ pc' = "inner" /\ i' = i /\ active' = [active EXCEPT ![j] = FALSE]
      /\ Suppresses(order[i], order[j]) /\ active \in [1..N -> BOOLEAN] /\ i' = i
      /\ UNCHANGED <<boxes, order, selected>>
  BY SuppressKeepsIndInv DEF Suppress, IndInv, TypeOK
<1>2. \A l \in 1..N : l # j => active'[l] = active[l]
  BY <1>1
<1>3. j \in 1..N => ~active'[j]
  BY <1>1
<1>4. LivePositions(pc', i', active') = LivePositions(pc, i, active)
  <2>1. ASSUME NEW l \in 1..N
        PROVE  l \in LivePositions(pc', i', active') <=> l \in LivePositions(pc, i, active)
    BY <1>1, <1>2, <1>3 DEF LivePositions
  <2> QED BY <2>1 DEF LivePositions
<1> QED BY <1>1, <1>4, QuietRemains

\* The inner loop is over: what is on and ahead does not overlap boxA.
LEMMA EndInnerRemains == IndInv /\ EndInner => UNCHANGED Greedy!vars
<1> SUFFICES ASSUME IndInv, EndInner PROVE UNCHANGED Greedy!vars
  OBVIOUS
<1>1. /\ pc = "inner" /\ pc' = "outer" /\ i' = i + 1 /\ j > N /\ active' = active
      /\ UNCHANGED <<boxes, order, selected>> /\ i \in Nat /\ j \in Nat /\ N \in Nat
      /\ Len(selected) \in 1..Len(selected) /\ selected[Len(selected)] = order[i]
  BY DEF EndInner, IndInv, TypeOK, SelectedFromPast, N
<1>2. ASSUME NEW l \in 1..N, active[l], l > i PROVE ~Suppresses(order[i], order[l])
  BY <1>1, <1>2 DEF IndInv, AheadIsClear, Ahead, Compared
<1>3. LivePositions(pc', i', active') = LivePositions(pc, i, active)
  BY <1>1, <1>2 DEF LivePositions
<1> QED BY <1>1, <1>3, QuietRemains

\* The outer loop is over: nothing remains.
LEMMA ReturnRemains == IndInv /\ Return => UNCHANGED Greedy!vars
<1> SUFFICES ASSUME IndInv, Return PROVE UNCHANGED Greedy!vars
  OBVIOUS
<1>1. /\ pc = "outer" /\ pc' = "done" /\ i > N /\ UNCHANGED <<boxes, order, selected, i, active>>
      /\ i \in Nat /\ N \in Nat
  BY DEF Return, IndInv, TypeOK, N
<1>2. LivePositions(pc', i', active') = {} /\ LivePositions(pc, i, active) = {}
  BY <1>1 DEF LivePositions
<1> QED BY <1>1, <1>2, QuietRemains

\* boxA is the best that remains; what overlaps it is lost with it.
LEMMA SelectChooses == IndInv /\ Select => Greedy!Next
<1> SUFFICES ASSUME IndInv, Select PROVE Greedy!Next
  OBVIOUS
<1> DEFINE a == order[i]
           live == LivePositions(pc, i, active)
           left == LivePositions(pc', i', active')
<1>1. /\ pc = "outer" /\ pc' # "outer" /\ i' = i /\ i \in 1..N /\ active[i] /\ active' = active
      /\ boxes' = boxes /\ order' = order /\ selected' = Append(selected, a)
      /\ Len(selected) < Limit
  BY DEF Select, IndInv, TypeOK, SelectedFromPast, N
<1>2. /\ order \in [1..N -> 1..N] /\ DOMAIN boxes = 1..N
      /\ \A k, l \in 1..N : order[k] = order[l] => k = l
  BY SMTT(40) DEF IndInv, TypeOK, SortedIndices, N
<1>3. /\ Remaining = {order[k] : k \in live}
      /\ Remaining' = {order[k] : k \in left}
  BY <1>1, RemainingIs, RemainingNext
<1>4. \A k \in 1..N : k \in live <=> active[k] /\ k >= i
  BY <1>1 DEF LivePositions
<1>5. \A k \in 1..N : k \in left <=> active[k] /\ k > i /\ ~Suppresses(a, order[k])
  BY <1>1 DEF LivePositions
<1>6. live \subseteq 1..N /\ left \subseteq 1..N
  BY DEF LivePositions
<1> HIDE DEF live, left
<1>7. a \in Remaining /\ a \in DOMAIN boxes
  BY <1>1, <1>2, <1>3, <1>4
<1>8. \A r \in Remaining : boxes[a].score >= boxes[r].score
  <2>1. SUFFICES ASSUME NEW k \in live PROVE boxes[a].score >= boxes[order[k]].score
    BY <1>3
  <2> QED BY <1>1, <1>4, <1>6, OrderIsRanked
<1>9. Remaining' = {r \in Remaining \ {a} : ~Overlap(boxes[a], boxes[r])}
  <2>1. ASSUME NEW k \in left
        PROVE  order[k] \in Remaining \ {a} /\ ~Overlap(boxes[a], boxes[order[k]])
    BY <1>1, <1>2, <1>3, <1>4, <1>5, <1>6, <2>1 DEF Suppresses
  <2>2. ASSUME NEW r \in Remaining \ {a}, ~Overlap(boxes[a], boxes[r]) PROVE r \in Remaining'
    <3>1. PICK k \in live : r = order[k]
      BY <1>3
    <3>2. k \in left
      BY <1>1, <1>2, <1>4, <1>5, <1>6, <2>2, <3>1 DEF Suppresses
    <3> QED BY <1>3, <3>1, <3>2
  <2> QED BY <1>3, <2>1, <2>2
<1> QED BY <1>1, <1>7, <1>8, <1>9 DEF Greedy!Next, Greedy!Choose

\* For any predictions, limit and threshold the two loops select what the greedy
\* rule selects: each step takes the best box that remains, and drops with it what
\* overlaps it too much, or changes nothing.
THEOREM SelectsGreedily == Spec => Greedy!Init /\ [][Greedy!Next]_(Greedy!vars)
<1>1. Init => Greedy!Init
  <2> SUFFICES ASSUME Init PROVE Greedy!Init
    OBVIOUS
  <2>1. IndInv
    BY InitIndInv
  <2>2. /\ LivePositions(pc, i, active) = 1..N /\ selected = <<>>
    BY DEF Init, LivePositions
  <2>3. DOMAIN boxes = 1..N /\ order \in [1..N -> 1..N]
        /\ \A r \in 1..N : \E k \in 1..N : order[k] = r
    BY <2>1, SMTT(40) DEF IndInv, TypeOK, SortedIndices, N
  <2>4. Remaining = DOMAIN boxes
    BY <2>2, <2>3, RemainingIs
  <2> QED BY <2>2, <2>4 DEF Greedy!Init
<1>2. IndInv /\ [Next]_vars => [Greedy!Next]_(Greedy!vars)
  <2>1. ASSUME IndInv, UNCHANGED vars PROVE UNCHANGED Greedy!vars
    BY <2>1, QuietRemains DEF vars
  <2> QED BY <2>1, SkipRemains, KeepRemains, SuppressRemains, EndInnerRemains, ReturnRemains,
             SelectChooses DEF Next
<1> QED BY <1>1, <1>2, Inductive, PTL DEF Spec

-----------------------------------------------------------------------------
(* The detector's loops over the feature maps *)

\* The boxes of a cell, the classes, and the channels of a box.
BoxesOfCell == 0 .. (boxesPerCell - 1)
ClassNumbers == 0 .. (numClasses - 1)
Fields == 0 .. (numClasses + 4)

\* The loops have passed the box k of the cell <<x, y>> of the grid g.
Past(g, y, x, k) == g < grid \/ (g = grid /\ (y < cy \/ (y = cy /\ (x < cx \/ (x = cx /\ k < b)))))

\* The loops are at this box.
At(g, y, x, k) == g = grid /\ y = cy /\ x = cx /\ k = b

\* Something of class c in this box.
Det(g, y, x, k, c) == [grid |-> g, y |-> y, x |-> x, b |-> k, c |-> c]

\* The elements of one box.
Field(g, y, x, k, n) == <<g, offset(g, Channel(k) + n, x, y)>>
FieldsOf(g, y, x, k) == {Field(g, y, x, k, n) : n \in Fields}

\* What the feature maps give one class.
Sure(d) == d \in hot /\ \A c \in ClassNumbers : c = d.c \/ [d EXCEPT !.c = c] \notin hot

\* What was read is all of the boxes passed, and nothing else;
ReadIsPast ==
    \A e : e \in read <=>
        \E g \in Grids : \E y \in Cells(g), x \in Cells(g), k \in BoxesOfCell :
            Past(g, y, x, k) /\ e \in FieldsOf(g, y, x, k)

\* no element twice, so their number is known.
ReadIsCounted == IsFiniteSet(read) /\ Cardinality(read) = decoded * boxChannels

\* The predictions are the sure detections of the boxes passed, each once.
SurePast(d) == Sure(d) /\ Past(d.grid, d.y, d.x, d.b)
SureHere(d) == Sure(d) /\ At(d.grid, d.y, d.x, d.b)
PredictedIsPast ==
    /\ predictions \in Seq(Detections)
    /\ \A d : (\E n \in DOMAIN predictions : predictions[n] = d) <=> SurePast(d)
    /\ \A m, n \in DOMAIN predictions : predictions[m] = predictions[n] => m = n

\* What holds of the loops after every turn.
GridIInv == GridTypeOK /\ ReadIsPast /\ ReadIsCounted /\ PredictedIsPast

-----------------------------------------------------------------------------
\* A smaller multiple is smaller by one factor at least.
LEMMA Monotone ==
    ASSUME NEW a \in Nat, NEW c \in Nat, a < c, NEW M \in Nat
    PROVE  a * M + M <= c * M
<1>1. c - a - 1 \in Nat /\ (c - a - 1) * M \in Nat
  OBVIOUS
<1>2. c * M = a * M + M + (c - a - 1) * M
  OBVIOUS
<1>3. a * M \in Nat /\ c * M \in Nat
  OBVIOUS
<1> QED BY <1>1, <1>2, <1>3

\* A number has one quotient and one remainder.
LEMMA DivMod ==
    ASSUME NEW M \in Nat \ {0}, NEW o \in Nat
    PROVE  /\ o \div M \in Nat /\ o % M \in 0 .. (M - 1)
           /\ o = (o \div M) * M + (o % M)
<1>1. o \div M \in Nat
  OBVIOUS
<1>2. o % M \in 0 .. (M - 1)
  OBVIOUS
<1>3. o = (o \div M) * M + (o % M)
  OBVIOUS
<1> QED BY <1>1, <1>2, <1>3

\* A number put together from two digits has these digits.
LEMMA Digits ==
    ASSUME NEW M \in Nat \ {0}, NEW a \in Nat, NEW r \in 0 .. (M - 1)
    PROVE  /\ a * M + r \in Nat
           /\ (a * M + r) \div M = a
           /\ (a * M + r) % M = r
<1>1. a * M + r \in Nat
  OBVIOUS
<1>2. (a * M + r) \div M = a /\ (a * M + r) % M = r
  OBVIOUS
<1> QED BY <1>1, <1>2

\* Two digits fit into the square of their base.
LEMMA TwoDigits ==
    ASSUME NEW M \in Nat \ {0}, NEW y \in 0 .. (M - 1), NEW x \in 0 .. (M - 1)
    PROVE  y * M + x \in 0 .. (M * M - 1)
<1>1. y * M + M <= M * M
  BY Monotone
<1>2. y * M \in Nat /\ M * M \in Nat
  OBVIOUS
<1> QED BY <1>1, <1>2

\* The strides of a grid.
LEMMA GridFacts ==
    ASSUME NEW g \in Grids
    PROVE  /\ gridSize[g] \in Nat \ {0} /\ g \in Nat /\ g # 0 /\ g <= Len(gridSize)
           /\ channelStride(g) \in Nat \ {0} /\ channelStride(g) = gridSize[g] * gridSize[g]
           /\ boxChannels \in Nat \ {0} /\ boxChannels = numClasses + 5
           /\ numClasses \in Nat \ {0} /\ boxesPerCell \in Nat \ {0}
           /\ Cells(g) = 0 .. (gridSize[g] - 1)
<1>1. gridSize[g] \in Nat \ {0} /\ g \in Nat /\ g # 0 /\ g <= Len(gridSize)
  BY YoloAssumption, LenProperties, ElementOfSeq DEF Grids
<1>2. gridSize[g] * gridSize[g] \in Nat \ {0}
  <2> DEFINE M == gridSize[g]
  <2>1. M \in Nat \ {0}
    BY <1>1
  <2> HIDE DEF M
  <2>2. M * M \in Nat /\ M * M # 0
    BY <2>1
  <2> QED BY <2>2 DEF M
<1> QED BY <1>1, <1>2, YoloAssumption DEF channelStride, boxChannels, Cells

\* The digits of an offset are the row, the column and the channel.
LEMMA OffsetDigits ==
    ASSUME NEW g \in Grids, NEW ch \in Nat, NEW y \in Cells(g), NEW x \in Cells(g),
           NEW o, o = offset(g, ch, x, y)
    PROVE  /\ o \in Nat /\ o = ch * channelStride(g) + (y * gridSize[g] + x)
           /\ o \div channelStride(g) = ch
           /\ o % channelStride(g) = y * gridSize[g] + x
           /\ (o % channelStride(g)) \div gridSize[g] = y
           /\ o % gridSize[g] = x
<1> DEFINE M == gridSize[g]
           S == channelStride(g)
           r == y * M + x
<1>1. M \in Nat \ {0} /\ S \in Nat \ {0} /\ S = M * M /\ y \in 0 .. (M - 1) /\ x \in 0 .. (M - 1)
  BY GridFacts
<1>2. o = ch * S + y * M + x * 1
  BY DEF offset, yStride, xStride
<1> HIDE DEF M, S
<1>3. r \in 0 .. (S - 1) /\ r \div M = y /\ r \in Nat
  <2>1. y * M + x \in 0 .. (M * M - 1)
    BY <1>1, TwoDigits
  <2>2. y \in Nat
    BY <1>1
  <2>3. (y * M + x) \div M = y /\ y * M + x \in Nat
    BY <1>1, <2>2, Digits
  <2> QED BY <1>1, <2>1, <2>3
<1>4. o = ch * S + r
  <2>1. ch * S \in Nat /\ y * M \in Nat /\ x \in Nat
    BY <1>1
  <2> QED BY <1>2, <2>1
<1>5. o = (ch * M + y) * M + x /\ ch * M + y \in Nat
  <2>1. /\ ch * M \in Nat /\ y \in Nat /\ x \in Nat
        /\ (ch * M + y) * M = (ch * M) * M + y * M
        /\ (ch * M) * M = ch * (M * M)
        /\ y * M \in Nat /\ ch * (M * M) \in Nat
    BY <1>1
  <2> QED BY <1>1, <1>4, <2>1
<1> HIDE DEF r
<1>6. o \in Nat /\ o \div S = ch /\ o % S = r
  BY <1>1, <1>3, <1>4, Digits, SMTT(40)
<1>7. o % M = x
  BY <1>1, <1>5, Digits
<1> QED BY <1>3, <1>4, <1>6, <1>7 DEF M, S, r

\* The digits of a channel are the box and the field.
LEMMA ChannelDigits ==
    ASSUME NEW g \in Grids, NEW k \in BoxesOfCell, NEW n \in Fields, NEW ch, ch = Channel(k) + n
    PROVE  /\ ch \in Nat /\ ch \div boxChannels = k /\ ch % boxChannels = n
           /\ ch < boxesPerCell * boxChannels
<1> DEFINE W == boxChannels
<1>1. W \in Nat \ {0} /\ n \in 0 .. (W - 1) /\ ch = k * W + n /\ k \in Nat /\ n \in Nat
      /\ boxesPerCell \in Nat /\ k < boxesPerCell
  BY GridFacts, SMTT(40) DEF Channel, boxChannels, Fields, BoxesOfCell
<1> HIDE DEF W
<1>2. ch \in Nat /\ ch \div W = k /\ ch % W = n
  BY <1>1, Digits
<1>3. k * W + W <= boxesPerCell * W
  BY <1>1, Monotone
<1>4. ch < boxesPerCell * W
  <2>1. k * W \in Nat /\ boxesPerCell * W \in Nat
    BY <1>1
  <2> QED BY <1>1, <1>3, <2>1
<1> QED BY <1>2, <1>4 DEF W

\* An element is a field of one box only, and one field of it.
LEMMA FieldsDiffer ==
    ASSUME NEW g \in Grids, NEW y \in Cells(g), NEW x \in Cells(g), NEW k \in BoxesOfCell,
           NEW h \in Grids, NEW z \in Cells(h), NEW w \in Cells(h), NEW l \in BoxesOfCell,
           NEW m \in Fields, NEW n \in Fields, Field(g, y, x, k, m) = Field(h, z, w, l, n)
    PROVE  g = h /\ y = z /\ x = w /\ k = l /\ m = n
<1> DEFINE c == Channel(k) + m
           d == Channel(l) + n
<1>1. g = h /\ offset(g, c, x, y) = offset(h, d, w, z)
  BY DEF Field
<1>2. /\ c \in Nat /\ c \div boxChannels = k /\ c % boxChannels = m
      /\ d \in Nat /\ d \div boxChannels = l /\ d % boxChannels = n
  BY ChannelDigits
<1> DEFINE o == offset(g, c, x, y)
           p == offset(h, d, w, z)
<1> HIDE DEF c, d
<1>3. /\ o \div channelStride(g) = c
      /\ (o % channelStride(g)) \div gridSize[g] = y
      /\ o % gridSize[g] = x
  BY <1>2, OffsetDigits
<1>4. /\ p \div channelStride(h) = d
      /\ (p % channelStride(h)) \div gridSize[h] = z
      /\ p % gridSize[h] = w
  BY <1>2, OffsetDigits
<1>5. o = p
  BY <1>1
<1> HIDE DEF o, p
<1> QED BY <1>1, <1>2, <1>3, <1>4, <1>5

\* Every element is a field of a box.
LEMMA ElementsAreFields ==
    ASSUME NEW g \in Grids, NEW o
    PROVE  o \in 0 .. (count(g) - 1) <=>
              \E y \in Cells(g), x \in Cells(g), k \in BoxesOfCell :
                  <<g, o>> \in FieldsOf(g, y, x, k)
<1> DEFINE M == gridSize[g]
           S == channelStride(g)
           W == boxChannels
           C == boxesPerCell * W
<1>1. /\ M \in Nat \ {0} /\ S \in Nat \ {0} /\ S = M * M /\ W \in Nat \ {0}
      /\ W = numClasses + 5 /\ numClasses \in Nat
      /\ boxesPerCell \in Nat \ {0} /\ Cells(g) = 0 .. (M - 1)
  BY GridFacts
<1>2. count(g) = C * S
  <2>1. count(g) = boxesPerCell * W * M * M
    BY DEF count
  <2> HIDE DEF M, S, W
  <2>2. boxesPerCell * W \in Nat
    BY <1>1
  <2> QED BY <1>1, <2>1, <2>2
<1>3. C \in Nat /\ C * S \in Nat
  <2> HIDE DEF M, S, W
  <2>1. C \in Nat
    BY <1>1
  <2> HIDE DEF C
  <2> QED BY <1>1, <2>1
<1>4. ASSUME o \in 0 .. (count(g) - 1)
      PROVE  \E y \in Cells(g), x \in Cells(g), k \in BoxesOfCell : <<g, o>> \in FieldsOf(g, y, x, k)
  <2> DEFINE ch == o \div S
             r == o % S
             y == r \div M
             x == r % M
             k == ch \div W
             n == ch % W
  <2>1. o \in Nat /\ o < C * S
    BY <1>2, <1>3, <1>4
  <2> HIDE DEF M, S, W, C
  <2>2. ch \in Nat /\ r \in 0 .. (S - 1) /\ o = ch * S + r
    BY <1>1, <2>1, DivMod
  <2>3. ch < C
    <3> HIDE DEF ch, r
    <3>1. SUFFICES ASSUME ~(ch < C) PROVE FALSE
      OBVIOUS
    <3>2. C < ch \/ C = ch
      BY <1>3, <2>2, <3>1
    <3>3. C * S <= ch * S
      <4>1. CASE C = ch
        BY <1>3, <4>1
      <4>2. CASE C < ch
        <5>1. C * S + S <= ch * S /\ ch * S \in Nat
          BY <1>1, <1>3, <2>2, <4>2, Monotone
        <5> QED BY <1>1, <1>3, <5>1
      <4> QED BY <3>2, <4>1, <4>2
    <3>4. ch * S \in Nat /\ r \in Nat
      BY <1>1, <2>2
    <3> QED BY <1>3, <2>1, <2>2, <3>3, <3>4
  <2> HIDE DEF ch, r
  <2>4. k \in Nat /\ n \in 0 .. (W - 1) /\ ch = k * W + n
    BY <1>1, <2>2, DivMod
  <2>5. y \in Nat /\ x \in 0 .. (M - 1) /\ r = y * M + x
    <3>1. r \in Nat
      BY <1>1, <2>2
    <3> QED BY <1>1, <3>1, DivMod
  <2> HIDE DEF y, x, k, n
  <2>6. k < boxesPerCell
    <3> SUFFICES ASSUME ~(k < boxesPerCell) PROVE FALSE
      OBVIOUS
    <3>1. boxesPerCell < k \/ boxesPerCell = k
      BY <1>1, <2>4
    <3>2. boxesPerCell * W <= k * W
      <4>1. CASE boxesPerCell = k
        BY <1>1, <4>1
      <4>2. CASE boxesPerCell < k
        <5>1. boxesPerCell * W + W <= k * W /\ k * W \in Nat /\ boxesPerCell * W \in Nat
          BY <1>1, <2>4, <4>2, Monotone
        <5> QED BY <1>1, <5>1
      <4> QED BY <3>1, <4>1, <4>2
    <3>3. k * W \in Nat /\ n \in Nat /\ boxesPerCell * W \in Nat
      BY <1>1, <2>4
    <3> QED BY <1>1, <2>3, <2>4, <3>2, <3>3 DEF C
  <2>7. y < M
    <3> SUFFICES ASSUME ~(y < M) PROVE FALSE
      OBVIOUS
    <3>1. M < y \/ M = y
      BY <1>1, <2>5
    <3>2. M * M <= y * M
      <4>1. CASE M = y
        BY <1>1, <4>1
      <4>2. CASE M < y
        <5>1. M * M + M <= y * M /\ y * M \in Nat /\ M * M \in Nat
          BY <1>1, <2>5, <4>2, Monotone
        <5> QED BY <1>1, <5>1
      <4> QED BY <3>1, <4>1, <4>2
    <3>3. y * M \in Nat /\ x \in Nat /\ M * M \in Nat
      BY <1>1, <2>5
    <3> QED BY <1>1, <2>2, <2>5, <3>2, <3>3
  <2>8. y \in Cells(g) /\ x \in Cells(g) /\ k \in BoxesOfCell /\ n \in Fields
    BY <1>1, <2>4, <2>5, <2>6, <2>7 DEF BoxesOfCell, Fields
  <2>9. Channel(k) + n = ch
    <3>1. Channel(k) = k * W
      BY DEF Channel, W, boxChannels
    <3> QED BY <2>4, <3>1
  <2>10. offset(g, ch, x, y) = o
    <3>1. offset(g, ch, x, y) = ch * S + (y * M + x)
      BY <2>2, <2>8, OffsetDigits DEF M, S
    <3> QED BY <2>2, <2>5, <3>1
  <2>11. <<g, o>> = Field(g, y, x, k, n)
    BY <2>9, <2>10 DEF Field
  <2> QED BY <2>8, <2>11 DEF FieldsOf
<1>5. ASSUME NEW y \in Cells(g), NEW x \in Cells(g), NEW k \in BoxesOfCell,
             <<g, o>> \in FieldsOf(g, y, x, k)
      PROVE  o \in 0 .. (count(g) - 1)
  <2>1. PICK n \in Fields : <<g, o>> = Field(g, y, x, k, n)
    BY <1>5 DEF FieldsOf
  <2> DEFINE ch == Channel(k) + n
             r == y * M + x
  <2>2. o = offset(g, ch, x, y)
    BY <2>1 DEF Field
  <2>3. ch \in Nat /\ ch < C
    BY ChannelDigits
  <2> HIDE DEF ch
  <2>4. o \in Nat /\ o = ch * S + r
    BY <2>2, <2>3, OffsetDigits
  <2> HIDE DEF M, S, W, C
  <2>5. r \in 0 .. (S - 1)
    BY <1>1, TwoDigits
  <2>6. ch * S + S <= C * S
    BY <1>1, <1>3, <2>3, Monotone
  <2> HIDE DEF r
  <2>7. ch * S \in Nat
    BY <1>1, <2>3
  <2> QED BY <1>1, <1>2, <1>3, <2>4, <2>5, <2>6, <2>7
<1> QED BY <1>4, <1>5

\* Something of the box k of this cell is said in its field n.
SaidIn(g, y, x, k, n) ==
    \E d \in hot : d.grid = g /\ d.y = y /\ d.x = x /\ d.b = k /\ n \in {4, 5 + d.c}

\* What the array holds in a field of a box is what the feature maps say of it.
LEMMA ElementIs ==
    ASSUME NEW g \in Grids, NEW y \in Cells(g), NEW x \in Cells(g), NEW k \in BoxesOfCell,
           NEW n \in Fields
    PROVE  Element(g, offset(g, Channel(k) + n, x, y)) = IF SaidIn(g, y, x, k, n) THEN 1 ELSE 0
<1> DEFINE ch == Channel(k) + n
           o == offset(g, ch, x, y)
<1>1. ch \in Nat /\ ch \div boxChannels = k /\ ch % boxChannels = n
  BY ChannelDigits
<1> HIDE DEF ch
<1>2. /\ o \div channelStride(g) = ch
      /\ (o % channelStride(g)) \div gridSize[g] = y
      /\ o % gridSize[g] = x
  BY <1>1, OffsetDigits
<1> HIDE DEF o
<1>3. Element(g, o) = IF SaidIn(g, y, x, k, n) THEN 1 ELSE 0
  BY <1>1, <1>2 DEF Element, SaidIn
<1> QED BY <1>3 DEF o, ch

\* A detection is its place and its class.
LEMMA DetectionFacts ==
    ASSUME NEW d \in Detections
    PROVE  /\ d.grid \in Grids /\ d.y \in Cells(d.grid) /\ d.x \in Cells(d.grid) /\ d.b \in BoxesOfCell
           /\ d.c \in ClassNumbers /\ d = Det(d.grid, d.y, d.x, d.b, d.c)
           /\ \A c : [d EXCEPT !.c = c] = Det(d.grid, d.y, d.x, d.b, c)
<1>1. PICK g \in Grids : d \in [grid : {g}, y : Cells(g), x : Cells(g),
                                b : 0 .. (boxesPerCell - 1), c : 0 .. (numClasses - 1)]
  BY DEF Detections
<1> QED BY <1>1 DEF Det, BoxesOfCell, ClassNumbers

\* The confidence is set where there is a detection, a class where it is the one.
LEMMA FieldsSay ==
    ASSUME hot \subseteq Detections,
           NEW g \in Grids, NEW y \in Cells(g), NEW x \in Cells(g), NEW k \in BoxesOfCell
    PROVE  /\ \A c \in ClassNumbers : SaidIn(g, y, x, k, 5 + c) <=> Det(g, y, x, k, c) \in hot
           /\ \A c \in ClassNumbers : Det(g, y, x, k, c) \in hot => SaidIn(g, y, x, k, 4)
<1>1. ASSUME NEW d \in hot
      PROVE  d.c \in Nat /\ d = Det(d.grid, d.y, d.x, d.b, d.c)
  BY <1>1, DetectionFacts DEF ClassNumbers
<1>2. ASSUME NEW c \in ClassNumbers, SaidIn(g, y, x, k, 5 + c)
      PROVE  Det(g, y, x, k, c) \in hot
  <2>1. PICK d \in hot : /\ d.grid = g /\ d.y = y /\ d.x = x /\ d.b = k
                         /\ 5 + c = 4 \/ 5 + c = 5 + d.c
    BY <1>2 DEF SaidIn
  <2>2. c = d.c
    BY <1>1, <2>1 DEF ClassNumbers
  <2> QED BY <1>1, <2>1, <2>2
<1>3. ASSUME NEW c \in ClassNumbers, Det(g, y, x, k, c) \in hot
      PROVE  SaidIn(g, y, x, k, 5 + c) /\ SaidIn(g, y, x, k, 4)
  <2> DEFINE d == Det(g, y, x, k, c)
  <2>1. d.grid = g /\ d.y = y /\ d.x = x /\ d.b = k /\ d.c = c
    BY DEF Det
  <2> HIDE DEF d
  <2> QED BY <1>3, <2>1 DEF SaidIn, d
<1> QED BY <1>2, <1>3

\* Two sure detections are not of the same box.
LEMMA OneSure ==
    ASSUME hot \subseteq Detections, NEW d, NEW e, Sure(d), Sure(e),
           d.grid = e.grid, d.y = e.y, d.x = e.x, d.b = e.b
    PROVE  d = e
<1>1. d \in Detections /\ e \in Detections /\ d \in hot /\ e \in hot
  BY DEF Sure
<1>2. /\ d = Det(d.grid, d.y, d.x, d.b, d.c) /\ e = Det(d.grid, d.y, d.x, d.b, e.c)
      /\ [d EXCEPT !.c = e.c] = Det(d.grid, d.y, d.x, d.b, e.c) /\ e.c \in ClassNumbers
  BY <1>1, DetectionFacts
<1>3. e.c = d.c
  BY <1>1, <1>2 DEF Sure
<1> QED BY <1>2, <1>3

\* There is one thing at most in the box the loops are at.
LEMMA OneHere ==
    ASSUME hot \subseteq Detections, NEW d, NEW e, SureHere(d), SureHere(e)
    PROVE  d = e
<1>1. Sure(d) /\ Sure(e)
  BY DEF SureHere
<1>2. d.grid = e.grid /\ d.y = e.y /\ d.x = e.x /\ d.b = e.b
  BY DEF SureHere, At
<1> QED BY <1>1, <1>2, OneSure

\* The class that passes the threshold is the one that is said alone.
LEMMA DetectedIsSure ==
    ASSUME hot \subseteq Detections,
           NEW g \in Grids, NEW y \in Cells(g), NEW x \in Cells(g), NEW k \in BoxesOfCell,
           NEW classes, classes = [c \in ClassNumbers |->
                                      IF SaidIn(g, y, x, k, 5 + c) THEN 1 ELSE 0],
           NEW c
    PROVE  c \in Detected(classes) <=> c \in ClassNumbers /\ Sure(Det(g, y, x, k, c))
<1>1. \A e \in ClassNumbers : SaidIn(g, y, x, k, 5 + e) <=> Det(g, y, x, k, e) \in hot
  BY FieldsSay
<1>2. c \in Detected(classes) <=>
        c \in ClassNumbers /\ \A e \in ClassNumbers :
          (IF SaidIn(g, y, x, k, 5 + e) THEN 1 ELSE 0) = IF e = c THEN 1 ELSE 0
  BY DEF Detected
<1>3. c \in Detected(classes) <=>
        c \in ClassNumbers /\ \A e \in ClassNumbers : Det(g, y, x, k, e) \in hot <=> e = c
  BY <1>1, <1>2
<1>4. Det(g, y, x, k, c).c = c /\ \A e : [Det(g, y, x, k, c) EXCEPT !.c = e] = Det(g, y, x, k, e)
  BY DEF Det
<1> QED BY <1>3, <1>4 DEF Sure

\* The elements of a box are as many as it has channels.
LEMMA FieldsCounted ==
    ASSUME NEW g \in Grids, NEW y \in Cells(g), NEW x \in Cells(g), NEW k \in BoxesOfCell
    PROVE  IsFiniteSet(FieldsOf(g, y, x, k)) /\ Cardinality(FieldsOf(g, y, x, k)) = boxChannels
<1> DEFINE f == [n \in Fields |-> Field(g, y, x, k, n)]
           T == FieldsOf(g, y, x, k)
<1>1. IsFiniteSet(Fields) /\ Cardinality(Fields) = boxChannels
  <2>1. numClasses + 4 \in Int /\ 0 \in Int /\ ~(0 > numClasses + 4) /\ boxChannels = numClasses + 4 - 0 + 1
    BY YoloAssumption DEF boxChannels
  <2> QED BY <2>1, FS_Interval DEF Fields
<1>2. f \in Surjection(Fields, T)
  BY DEF Surjection, FieldsOf
<1>3. f \in Injection(Fields, T)
  <2>1. ASSUME NEW m \in Fields, NEW n \in Fields, f[m] = f[n] PROVE m = n
    BY <2>1, FieldsDiffer
  <2>2. f \in [Fields -> T]
    BY DEF FieldsOf
  <2> QED BY <2>1, <2>2 DEF Injection, IsInjective
<1> HIDE DEF f, T
<1>4. IsFiniteSet(T) /\ Cardinality(T) = Cardinality(Fields)
  BY <1>1, <1>2, <1>3, FS_Surjection
<1> QED BY <1>1, <1>4 DEF T

\* Where the loops are while a grid is left, and what they go to from there.
Steps ==
    /\ grid \in Grids
    /\ hot' = hot
    /\ decoded' = decoded + 1
    /\ NextBox \/ NextColumn \/ NextRow \/ NextGrid

\* What a turn of the loops reads and finds.
LEMMA DecodeAdds ==
    ASSUME GridTypeOK, DecodeBox
    PROVE  /\ Steps
           /\ read' = read \cup FieldsOf(grid, cy, cx, b)
           /\ \/ \E d : SureHere(d) /\ predictions' = Append(predictions, d)
              \/ ~(\E d : SureHere(d)) /\ predictions' = predictions
<1> DEFINE offsets == [n \in 0 .. (numClasses + 4) |-> offset(grid, Channel(b) + n, cx, cy)]
           confidence == Element(grid, offsets[4])
           classes == [c \in 0 .. (numClasses - 1) |-> Element(grid, offsets[5 + c])]
           detected == Detected(classes)
<1>1. /\ Steps
      /\ read' = read \cup {<<grid, offsets[n]>> : n \in DOMAIN offsets}
      /\ \/ /\ confidence = 1
            /\ \E c \in detected :
                 predictions' = Append(predictions, [grid |-> grid, y |-> cy, x |-> cx, b |-> b, c |-> c])
         \/ (confidence = 0 \/ detected = {}) /\ predictions' = predictions
  BY DEF DecodeBox, Steps
<1>2. grid \in Grids /\ cy \in Cells(grid) /\ cx \in Cells(grid) /\ b \in BoxesOfCell /\ hot \subseteq Detections
  BY <1>1, YoloAssumption DEF GridTypeOK, Steps, BoxesOfCell
<1>3. {<<grid, offsets[n]>> : n \in DOMAIN offsets} = FieldsOf(grid, cy, cx, b)
  BY DEF FieldsOf, Field, Fields
<1>4. \A n \in Fields : Element(grid, offsets[n]) = IF SaidIn(grid, cy, cx, b, n) THEN 1 ELSE 0
  <2> SUFFICES ASSUME NEW n \in Fields
               PROVE  Element(grid, offsets[n]) = IF SaidIn(grid, cy, cx, b, n) THEN 1 ELSE 0
    OBVIOUS
  <2>1. offsets[n] = offset(grid, Channel(b) + n, cx, cy)
    BY DEF Fields
  <2>2. Element(grid, offset(grid, Channel(b) + n, cx, cy)) = IF SaidIn(grid, cy, cx, b, n) THEN 1 ELSE 0
    BY <1>2, ElementIs
  <2> QED BY <2>1, <2>2
<1>5. 4 \in Fields /\ \A c \in ClassNumbers : 5 + c \in Fields
  BY YoloAssumption DEF Fields, ClassNumbers
<1> HIDE DEF offsets
<1>6. confidence = IF SaidIn(grid, cy, cx, b, 4) THEN 1 ELSE 0
  BY <1>4, <1>5
<1>7. classes = [c \in ClassNumbers |-> IF SaidIn(grid, cy, cx, b, 5 + c) THEN 1 ELSE 0]
  BY <1>4, <1>5 DEF ClassNumbers
<1> HIDE DEF confidence, classes
<1>8. \A c : c \in detected <=> c \in ClassNumbers /\ Sure(Det(grid, cy, cx, b, c))
  BY <1>2, <1>7, DetectedIsSure
<1> HIDE DEF detected
<1>9. CASE confidence = 1 /\ \E c \in detected :
             predictions' = Append(predictions, [grid |-> grid, y |-> cy, x |-> cx, b |-> b, c |-> c])
  <2>1. PICK c \in detected : predictions' = Append(predictions, Det(grid, cy, cx, b, c))
    BY <1>9 DEF Det
  <2> DEFINE d == Det(grid, cy, cx, b, c)
  <2>2. Sure(d) /\ predictions' = Append(predictions, d)
    BY <1>8, <2>1
  <2>3. d.grid = grid /\ d.y = cy /\ d.x = cx /\ d.b = b
    BY DEF Det
  <2> HIDE DEF d
  <2>4. SureHere(d)
    BY <2>2, <2>3 DEF At, SureHere
  <2> QED BY <1>1, <1>3, <2>2, <2>4
<1>10. CASE (confidence = 0 \/ detected = {}) /\ predictions' = predictions
  <2>1. ASSUME NEW d, SureHere(d) PROVE FALSE
    <3> Sure(d) /\ At(d.grid, d.y, d.x, d.b)
      BY <2>1 DEF SureHere
    <3>1. d \in hot /\ d \in Detections
      BY <1>2, <2>1 DEF Sure
    <3>2. d = Det(d.grid, d.y, d.x, d.b, d.c) /\ d.c \in ClassNumbers
      BY <3>1, DetectionFacts
    <3>3. d = Det(grid, cy, cx, b, d.c)
      BY <2>1, <3>2 DEF At
    <3>4. SaidIn(grid, cy, cx, b, 4)
      BY <1>2, <3>1, <3>2, <3>3, FieldsSay
    <3>5. d.c \in detected
      BY <1>8, <2>1, <3>2, <3>3
    <3> QED BY <1>6, <1>10, <3>4, <3>5
  <2> QED BY <1>1, <1>3, <1>10, <2>1
<1> QED BY <1>1, <1>9, <1>10

\* Where the loops go next, only the box just read is passed in addition.
LEMMA OnePassed ==
    ASSUME GridTypeOK, Steps,
           NEW g \in Grids, NEW y \in Cells(g), NEW x \in Cells(g), NEW k \in BoxesOfCell
    PROVE  /\ Past(g, y, x, k)' <=> Past(g, y, x, k) \/ At(g, y, x, k)
           /\ ~(Past(g, y, x, k) /\ At(g, y, x, k))
<1>1. /\ grid \in Nat /\ g \in Nat /\ b \in 0 .. (boxesPerCell - 1) /\ k \in 0 .. (boxesPerCell - 1)
      /\ boxesPerCell \in Nat \ {0}
      /\ gridSize[grid] \in Nat \ {0} /\ cy \in 0 .. (gridSize[grid] - 1) /\ cx \in 0 .. (gridSize[grid] - 1)
      /\ y \in Nat /\ x \in Nat
      /\ g = grid => y \in 0 .. (gridSize[grid] - 1) /\ x \in 0 .. (gridSize[grid] - 1)
  <2>1. grid \in Grids /\ cy \in Cells(grid) /\ cx \in Cells(grid) /\ b \in 0 .. (boxesPerCell - 1)
    BY DEF Steps, GridTypeOK
  <2>2. /\ gridSize[grid] \in Nat \ {0} /\ grid \in Nat /\ Cells(grid) = 0 .. (gridSize[grid] - 1)
        /\ boxesPerCell \in Nat \ {0}
    BY <2>1, GridFacts
  <2>3. gridSize[g] \in Nat \ {0} /\ g \in Nat /\ Cells(g) = 0 .. (gridSize[g] - 1)
    BY GridFacts
  <2> QED BY <2>1, <2>2, <2>3 DEF BoxesOfCell
<1> DEFINE M == gridSize[grid]
<1> HIDE DEF M
<1>2. ~(Past(g, y, x, k) /\ At(g, y, x, k))
  BY <1>1 DEF Past, At
<1>3. CASE NextBox
  BY <1>1, <1>3 DEF NextBox, Past, At
<1>4. CASE NextColumn
  BY <1>1, <1>4 DEF NextColumn, Past, At
<1>5. CASE NextRow
  BY <1>1, <1>5 DEF NextRow, Past, At
<1>6. CASE NextGrid
  BY <1>1, <1>6 DEF NextGrid, Past, At
<1> QED BY <1>2, <1>3, <1>4, <1>5, <1>6 DEF Steps

\* The loop variables stay in their ranges.
LEMMA StepsKeepRanges ==
    ASSUME GridTypeOK, Steps
    PROVE  /\ grid' \in 1 .. (Len(gridSize) + 1) /\ b' \in 0 .. (boxesPerCell - 1)
           /\ grid' \in Grids => cy' \in Cells(grid') /\ cx' \in Cells(grid')
           /\ decoded' \in Nat
<1>1. /\ grid \in 1 .. Len(gridSize) /\ Len(gridSize) \in Nat /\ grid \in Grids
      /\ b \in 0 .. (boxesPerCell - 1) /\ boxesPerCell \in Nat \ {0}
      /\ gridSize[grid] \in Nat \ {0} /\ cy \in 0 .. (gridSize[grid] - 1) /\ cx \in 0 .. (gridSize[grid] - 1)
      /\ decoded \in Nat
  BY GridFacts, YoloAssumption, LenProperties DEF Steps, GridTypeOK, Cells, Grids
<1>2. \A g \in Grids : 0 \in Cells(g)
  BY GridFacts
<1>3. CASE NextBox
  BY <1>1, <1>3 DEF NextBox, Steps, Cells
<1>4. CASE NextColumn
  BY <1>1, <1>4 DEF NextColumn, Steps, Cells
<1>5. CASE NextRow
  BY <1>1, <1>2, <1>5 DEF NextRow, Steps, Cells
<1>6. CASE NextGrid
  BY <1>1, <1>2, <1>6 DEF NextGrid, Steps
<1> QED BY <1>3, <1>4, <1>5, <1>6 DEF Steps

\* Before the first turn nothing is passed.
LEMMA InitGridIInv == GridInit => GridIInv
<1> SUFFICES ASSUME GridInit PROVE GridIInv
  OBVIOUS
<1>1. /\ hot \in Maps /\ grid = 1 /\ cy = 0 /\ cx = 0 /\ b = 0 /\ predictions = <<>>
      /\ read = {} /\ decoded = 0
  BY DEF GridInit
<1>2. GridTypeOK
  <2>1. Len(gridSize) \in Nat /\ boxesPerCell \in Nat \ {0}
    BY YoloAssumption, LenProperties
  <2>2. grid \in Grids => cy \in Cells(grid) /\ cx \in Cells(grid)
    BY <1>1, GridFacts
  <2> QED BY <1>1, <2>1, <2>2 DEF GridTypeOK
<1>3. ASSUME NEW g \in Grids, NEW y \in Cells(g), NEW x \in Cells(g), NEW k \in BoxesOfCell
      PROVE  ~Past(g, y, x, k)
  <2>1. gridSize[g] \in Nat \ {0} /\ g \in Nat /\ g # 0 /\ Cells(g) = 0 .. (gridSize[g] - 1)
    BY GridFacts
  <2>2. y \in Nat /\ x \in Nat /\ k \in Nat
    BY <1>3, <2>1, YoloAssumption DEF BoxesOfCell
  <2> QED BY <1>1, <2>1, <2>2 DEF Past
<1>4. ReadIsPast
  BY <1>1, <1>3 DEF ReadIsPast
<1>5. ReadIsCounted
  <2>1. boxChannels \in Nat
    BY YoloAssumption DEF boxChannels
  <2>2. 0 * boxChannels = 0
    BY <2>1
  <2> QED BY <1>1, <2>2, FS_EmptySet DEF ReadIsCounted
<1>6. PredictedIsPast
  <2>1. hot \subseteq Detections
    BY <1>1, YoloAssumption
  <2>2. ASSUME NEW d, Sure(d) PROVE ~Past(d.grid, d.y, d.x, d.b)
    <3>1. d \in Detections
      BY <2>1, <2>2 DEF Sure
    <3> QED BY <1>3, <3>1, DetectionFacts
  <2>3. predictions \in Seq(Detections) /\ DOMAIN predictions = {}
    BY <1>1
  <2> QED BY <2>2, <2>3 DEF PredictedIsPast, SurePast
<1> QED BY <1>2, <1>4, <1>5, <1>6 DEF GridIInv

\* What is read grows by the elements of one box, none of them read before.
LEMMA ReadGrows ==
    ASSUME GridTypeOK, ReadIsPast, ReadIsCounted, Steps,
           read' = read \cup FieldsOf(grid, cy, cx, b)
    PROVE  ReadIsPast' /\ ReadIsCounted'
<1> DEFINE T == FieldsOf(grid, cy, cx, b)
<1>1. grid \in Grids /\ cy \in Cells(grid) /\ cx \in Cells(grid) /\ b \in BoxesOfCell
  BY DEF Steps, GridTypeOK, BoxesOfCell
<1>2. \A g \in Grids : \A y \in Cells(g), x \in Cells(g), k \in BoxesOfCell :
        At(g, y, x, k) <=> g = grid /\ y = cy /\ x = cx /\ k = b
  BY DEF At
<1>3. ASSUME NEW e
      PROVE  e \in T <=> \E g \in Grids : \E y \in Cells(g), x \in Cells(g), k \in BoxesOfCell :
                             At(g, y, x, k) /\ e \in FieldsOf(g, y, x, k)
  BY <1>1, <1>2
<1>4. ReadIsPast'
  <2>1. ASSUME NEW e
        PROVE  e \in read' <=>
                 \E g \in Grids : \E y \in Cells(g), x \in Cells(g), k \in BoxesOfCell :
                     Past(g, y, x, k)' /\ e \in FieldsOf(g, y, x, k)
    <3>1. e \in read' <=> e \in read \/ e \in T
      OBVIOUS
    <3>2. e \in read <=>
            \E g \in Grids : \E y \in Cells(g), x \in Cells(g), k \in BoxesOfCell :
                Past(g, y, x, k) /\ e \in FieldsOf(g, y, x, k)
      BY DEF ReadIsPast
    <3>3. \A g \in Grids : \A y \in Cells(g), x \in Cells(g), k \in BoxesOfCell :
            Past(g, y, x, k)' <=> Past(g, y, x, k) \/ At(g, y, x, k)
      BY OnePassed
    <3> HIDE DEF T
    <3> QED BY <1>3, <3>1, <3>2, <3>3
  <2> QED BY <2>1 DEF ReadIsPast
<1>5. read \cap T = {}
  <2>1. ASSUME NEW e \in read, e \in T PROVE FALSE
    <3>1. PICK g \in Grids : \E y \in Cells(g), x \in Cells(g), k \in BoxesOfCell :
            Past(g, y, x, k) /\ e \in FieldsOf(g, y, x, k)
      BY <2>1 DEF ReadIsPast
    <3>2. PICK y \in Cells(g), x \in Cells(g), k \in BoxesOfCell :
            Past(g, y, x, k) /\ e \in FieldsOf(g, y, x, k)
      BY <3>1
    <3>3. PICK m \in Fields : e = Field(g, y, x, k, m)
      BY <3>2 DEF FieldsOf
    <3>4. PICK n \in Fields : e = Field(grid, cy, cx, b, n)
      BY <2>1 DEF FieldsOf
    <3>5. Field(g, y, x, k, m) = Field(grid, cy, cx, b, n)
      BY <3>3, <3>4
    <3>6. g = grid /\ y = cy /\ x = cx /\ k = b
      BY <1>1, <3>5, FieldsDiffer
    <3>7. At(g, y, x, k)
      BY <3>6 DEF At
    <3> QED BY <3>2, <3>7, OnePassed
  <2> QED BY <2>1
<1>6. IsFiniteSet(T) /\ Cardinality(T) = boxChannels
  BY <1>1, FieldsCounted
<1>7. IsFiniteSet(read) /\ Cardinality(read) = decoded * boxChannels
  BY DEF ReadIsCounted
<1> HIDE DEF T
<1>8. /\ IsFiniteSet(read \cup T)
      /\ Cardinality(read \cup T) = Cardinality(read) + Cardinality(T) - Cardinality(read \cap T)
  BY <1>6, <1>7, FS_Union
<1>9. Cardinality(read \cap T) = 0
  BY <1>5, FS_EmptySet
<1>10. (decoded + 1) * boxChannels = decoded * boxChannels + boxChannels
       /\ decoded * boxChannels \in Nat /\ boxChannels \in Nat
  BY YoloAssumption DEF boxChannels, GridTypeOK
<1>11. ReadIsCounted'
  BY <1>6, <1>7, <1>8, <1>9, <1>10 DEF ReadIsCounted, Steps, T
<1> QED BY <1>4, <1>11

\* A sequence without repetitions that grows by something new.
LEMMA NewAppended ==
    ASSUME NEW S, NEW q \in Seq(S), NEW p \in S, NEW r, r = Append(q, p),
           ~\E n \in DOMAIN q : q[n] = p,
           \A m, n \in DOMAIN q : q[m] = q[n] => m = n
    PROVE  /\ r \in Seq(S)
           /\ \A d : (\E n \in DOMAIN r : r[n] = d) <=> d = p \/ \E n \in DOMAIN q : q[n] = d
           /\ \A m, n \in DOMAIN r : r[m] = r[n] => m = n
<1>1. /\ r \in Seq(S) /\ Len(r) = Len(q) + 1 /\ Len(q) \in Nat
      /\ \A n \in 1 .. Len(q) : r[n] = q[n]
      /\ r[Len(q) + 1] = p
  BY AppendProperties, LenProperties
<1>2. DOMAIN q = 1 .. Len(q) /\ DOMAIN r = 1 .. (Len(q) + 1)
  BY <1>1, LenProperties
<1>3. \A n \in DOMAIN r : n \in DOMAIN q \/ n = Len(q) + 1
  BY <1>1, <1>2
<1>4. Len(q) + 1 \in DOMAIN r /\ \A n \in DOMAIN q : n \in DOMAIN r /\ r[n] = q[n]
  BY <1>1, <1>2
<1>5. \A d : (\E n \in DOMAIN r : r[n] = d) <=> d = p \/ \E n \in DOMAIN q : q[n] = d
  BY <1>1, <1>3, <1>4
<1>6. ASSUME NEW m \in DOMAIN r, NEW n \in DOMAIN r, r[m] = r[n]
      PROVE  m = n
  BY <1>1, <1>3, <1>4, <1>6
<1> QED BY <1>1, <1>5, <1>6

\* The predictions are the sure detections of the boxes passed, once each.
LEMMA PredictionsGrow ==
    ASSUME GridTypeOK, PredictedIsPast, Steps,
           \/ \E d : SureHere(d) /\ predictions' = Append(predictions, d)
           \/ ~(\E d : SureHere(d)) /\ predictions' = predictions
    PROVE  PredictedIsPast'
<1>1. hot' = hot /\ hot \subseteq Detections
  BY YoloAssumption DEF Steps, GridTypeOK
<1>2. ASSUME NEW d
      PROVE  /\ SureHere(d) => d \in Detections
             /\ SurePast(d)' <=> SurePast(d) \/ SureHere(d)
             /\ ~(SurePast(d) /\ SureHere(d))
  <2>1. Sure(d)' <=> Sure(d)
    BY <1>1 DEF Sure
  <2>2. CASE Sure(d)
    <3>1. d \in Detections
      BY <1>1, <2>2 DEF Sure
    <3>2. d.grid \in Grids /\ d.y \in Cells(d.grid) /\ d.x \in Cells(d.grid) /\ d.b \in BoxesOfCell
      BY <3>1, DetectionFacts
    <3>3. /\ Past(d.grid, d.y, d.x, d.b)' <=> Past(d.grid, d.y, d.x, d.b) \/ At(d.grid, d.y, d.x, d.b)
          /\ ~(Past(d.grid, d.y, d.x, d.b) /\ At(d.grid, d.y, d.x, d.b))
      BY <3>2, OnePassed
    <3> QED BY <2>1, <2>2, <3>1, <3>3 DEF SurePast, SureHere
  <2>3. CASE ~Sure(d)
    BY <2>1, <2>3 DEF SurePast, SureHere
  <2> QED BY <2>2, <2>3
<1>3. /\ predictions \in Seq(Detections)
      /\ \A d : (\E n \in DOMAIN predictions : predictions[n] = d) <=> SurePast(d)
      /\ \A m, n \in DOMAIN predictions : predictions[m] = predictions[n] => m = n
  BY DEF PredictedIsPast
<1>4. CASE ~(\E d : SureHere(d)) /\ predictions' = predictions
  <2>1. \A d : SurePast(d)' <=> SurePast(d)
    BY <1>2, <1>4
  <2>2. \A d : (\E n \in DOMAIN predictions' : predictions'[n] = d) <=> SurePast(d)'
    BY <1>3, <1>4, <2>1
  <2> QED BY <1>3, <1>4, <2>2 DEF PredictedIsPast
<1>5. ASSUME NEW p, SureHere(p), predictions' = Append(predictions, p)
      PROVE  PredictedIsPast'
  <2>1. p \in Detections /\ ~(\E n \in DOMAIN predictions : predictions[n] = p)
    BY <1>2, <1>3, <1>5
  <2>2. /\ predictions' \in Seq(Detections)
        /\ \A d : (\E n \in DOMAIN predictions' : predictions'[n] = d)
                    <=> d = p \/ \E n \in DOMAIN predictions : predictions[n] = d
        /\ \A m, n \in DOMAIN predictions' : predictions'[m] = predictions'[n] => m = n
    BY <1>3, <1>5, <2>1, NewAppended
  <2>3. ASSUME NEW d
        PROVE  (\E n \in DOMAIN predictions' : predictions'[n] = d) <=> SurePast(d)'
    <3>1. SureHere(d) => d = p
      BY <1>1, <1>5, OneHere
    <3> QED BY <1>2, <1>3, <1>5, <2>2, <3>1
  <2> QED BY <2>2, <2>3 DEF PredictedIsPast
<1> QED BY <1>4, <1>5

\* No turn of the loops breaks the invariant.
LEMMA StepGridIInv == GridIInv /\ [GridNext]_gridVars => GridIInv'
<1> SUFFICES ASSUME GridIInv, [GridNext]_gridVars PROVE GridIInv'
  OBVIOUS
<1>1. CASE UNCHANGED gridVars
  <2>1. UNCHANGED <<hot, grid, cy, cx, b, predictions, read, decoded>>
    BY <1>1 DEF gridVars
  <2>2. GridTypeOK' /\ ReadIsPast' /\ ReadIsCounted'
    BY <2>1 DEF GridIInv, GridTypeOK, ReadIsPast, Past, ReadIsCounted
  <2>3. PredictedIsPast'
    BY <2>1 DEF GridIInv, PredictedIsPast, SurePast, Past, Sure
  <2> QED BY <2>2, <2>3 DEF GridIInv
<1>2. CASE DecodeBox
  <2>1. GridTypeOK /\ ReadIsPast /\ ReadIsCounted /\ PredictedIsPast
    BY DEF GridIInv
  <2>2. /\ Steps
        /\ read' = read \cup FieldsOf(grid, cy, cx, b)
        /\ \/ \E d : SureHere(d) /\ predictions' = Append(predictions, d)
           \/ ~(\E d : SureHere(d)) /\ predictions' = predictions
    BY <1>2, <2>1, DecodeAdds
  <2>3. ReadIsPast' /\ ReadIsCounted'
    BY <2>1, <2>2, ReadGrows
  <2>4. PredictedIsPast'
    BY <2>1, <2>2, PredictionsGrow
  <2>5. hot' \in Maps
    BY <2>1, <2>2 DEF Steps, GridTypeOK
  <2>6. \A n \in DOMAIN predictions' : predictions'[n] \in Detections
    <3>1. predictions' \in Seq(Detections)
      BY <2>4 DEF PredictedIsPast
    <3> QED BY <3>1, LenProperties, ElementOfSeq
  <2>7. GridTypeOK'
    BY <2>1, <2>2, <2>5, <2>6, StepsKeepRanges DEF GridTypeOK
  <2> QED BY <2>3, <2>4, <2>7 DEF GridIInv
<1>3. CASE Done
  BY <1>1, <1>3 DEF Done
<1> QED BY <1>1, <1>2, <1>3 DEF GridNext

\* At the end every box has been passed.
LEMMA AllPassed ==
    ASSUME GridTypeOK, grid \notin Grids, NEW g \in Grids, NEW y, NEW x, NEW k
    PROVE  Past(g, y, x, k)
<1>1. /\ Len(gridSize) \in Nat /\ Grids = 1 .. Len(gridSize) /\ grid \in 1 .. (Len(gridSize) + 1)
  BY YoloAssumption, LenProperties DEF Grids, GridTypeOK
<1> QED BY <1>1 DEF Past

\* The boxes tile the arrays.
LEMMA InvReads == GridIInv => ReadsEachOnce
<1> SUFFICES ASSUME GridIInv PROVE ReadsEachOnce
  OBVIOUS
<1>1. Cardinality(read) = decoded * boxChannels
  BY DEF GridIInv, ReadIsCounted
<1>2. ASSUME grid \notin Grids
      PROVE  read = UNION {{g} \X (0 .. (count(g) - 1)) : g \in Grids}
  <2>1. \A e : e \in read <=>
          \E g \in Grids : \E y \in Cells(g), x \in Cells(g), k \in BoxesOfCell :
              e \in FieldsOf(g, y, x, k)
    <3>1. GridTypeOK /\ ReadIsPast
      BY DEF GridIInv
    <3>2. \A g \in Grids : \A y, x, k : Past(g, y, x, k)
      BY <1>2, <3>1, AllPassed
    <3> QED BY <3>1, <3>2 DEF ReadIsPast
  <2>2. ASSUME NEW e \in read
        PROVE  e \in UNION {{g} \X (0 .. (count(g) - 1)) : g \in Grids}
    <3>1. PICK g \in Grids : \E y \in Cells(g), x \in Cells(g), k \in BoxesOfCell :
              e \in FieldsOf(g, y, x, k)
      BY <2>1
    <3>2. PICK o : e = <<g, o>>
      BY <3>1 DEF FieldsOf, Field
    <3>3. o \in 0 .. (count(g) - 1)
      BY <3>1, <3>2, ElementsAreFields
    <3> QED BY <3>2, <3>3
  <2>3. ASSUME NEW g \in Grids, NEW o \in 0 .. (count(g) - 1)
        PROVE  <<g, o>> \in read
    BY <2>1, ElementsAreFields
  <2> QED BY <2>2, <2>3
<1> QED BY <1>1, <1>2 DEF ReadsEachOnce

\* The predictions are the sure detections, in some order.
LEMMA InvFinds == GridIInv => FindsWhatIsThere
<1> SUFFICES ASSUME GridIInv, grid \notin Grids PROVE FindsWhatIsThere
  BY DEF FindsWhatIsThere
<1> DEFINE sure == {d \in hot : \A c \in 0 .. (numClasses - 1) :
                        c = d.c \/ [d EXCEPT !.c = c] \notin hot}
           f == [n \in 1 .. Len(predictions) |-> predictions[n]]
<1>1. GridTypeOK /\ PredictedIsPast /\ hot \subseteq Detections
  BY YoloAssumption DEF GridIInv, GridTypeOK
<1>2. \A d : d \in sure <=> Sure(d)
  BY DEF Sure, ClassNumbers
<1>3. \A d : SurePast(d) <=> Sure(d)
  <2> SUFFICES ASSUME NEW d, Sure(d) PROVE Past(d.grid, d.y, d.x, d.b)
    BY DEF SurePast
  <2>1. d.grid \in Grids
    BY <1>1, DetectionFacts DEF Sure
  <2> QED BY <1>1, <2>1, AllPassed
<1> HIDE DEF sure
<1>4. /\ Len(predictions) \in Nat /\ DOMAIN predictions = 1 .. Len(predictions)
      /\ \A d : (\E n \in DOMAIN predictions : predictions[n] = d) <=> d \in sure
      /\ \A m, n \in DOMAIN predictions : predictions[m] = predictions[n] => m = n
  BY <1>1, <1>2, <1>3, LenProperties DEF PredictedIsPast
<1>5. {predictions[n] : n \in DOMAIN predictions} = sure
  BY <1>4
<1>6. f \in Surjection(1 .. Len(predictions), sure)
  BY <1>4 DEF Surjection
<1>7. f \in Injection(1 .. Len(predictions), sure)
  BY <1>4 DEF Injection, IsInjective
<1>8. IsFiniteSet(1 .. Len(predictions)) /\ Cardinality(1 .. Len(predictions)) = Len(predictions)
  <2>1. 1 \in Int /\ Len(predictions) \in Int
    BY <1>4
  <2>2. /\ IsFiniteSet(1 .. Len(predictions))
        /\ Cardinality(1 .. Len(predictions))
             = IF 1 > Len(predictions) THEN 0 ELSE Len(predictions) - 1 + 1
    BY <2>1, FS_Interval
  <2> QED BY <1>4, <2>2
<1> HIDE DEF f
<1>9. Cardinality(sure) = Len(predictions)
  BY <1>6, <1>7, <1>8, FS_Surjection
<1> QED BY <1>5, <1>9 DEF FindsWhatIsThere, sure

\* The inductive invariant of the detector's loops holds for ever.
THEOREM GridInvariantHolds == GridSpec => []GridIInv
BY InitGridIInv, StepGridIInv, PTL DEF GridSpec

\* The loop variables stay in their ranges, and a prediction names a box.
THEOREM GridTypeCorrect == GridSpec => []GridTypeOK
<1>1. GridIInv => GridTypeOK
  BY DEF GridIInv
<1> QED BY <1>1, GridInvariantHolds, PTL

\* For grids of any sizes, any number of boxes and classes: no element of the
\* feature maps is read for two boxes, and in the end none was left out.
THEOREM ElementsReadOnce == GridSpec => []ReadsEachOnce
BY InvReads, GridInvariantHolds, PTL

\* For whatever the feature maps say: the loops end with one prediction for each
\* box that they give one class, at its cell and of its class, and no other.
THEOREM DetectionsFound == GridSpec => []FindsWhatIsThere
BY InvFinds, GridInvariantHolds, PTL
=============================================================================
