------------------------------ MODULE YoloGrid ------------------------------
(****************************************************************************)
(* The loops of computeBoundingBoxes: every box of every cell of every grid *)
(* is decoded from a flat array through strides.                            *)
(*                                                                          *)
(* The feature maps are given by what they say (hot): this box holds        *)
(* something of this class.  They are laid out as Core ML does, channel by  *)
(* channel, row by row.  A raw value is 0 or 1, far enough apart that a     *)
(* single 1 among the classes passes the threshold and two that share the   *)
(* softmax, or none, do not.  Of the place of a box its cell is kept.       *)
(****************************************************************************)
EXTENDS Integers, Sequences, FiniteSets

CONSTANTS
    gridSize,     \* the width, and height, of each grid
    boxesPerCell,
    numClasses,
    Maps          \* what the feature maps of a call may say

Grids == DOMAIN gridSize
Cells(g) == 0 .. (gridSize[g] - 1)

\* The channels of one box: its place and size, its confidence, its classes.
boxChannels == numClasses + 5

\* The number of elements of an array, as the code asserts it.
count(g) == boxesPerCell * boxChannels * gridSize[g] * gridSize[g]

Detections ==
    UNION {[grid : {g}, y : Cells(g), x : Cells(g),
            b : 0 .. (boxesPerCell - 1), c : 0 .. (numClasses - 1)] : g \in Grids}

ASSUME YoloAssumption ==
    /\ gridSize \in Seq(Nat \ {0})
    /\ boxesPerCell \in Nat \ {0}
    /\ numClasses \in Nat \ {0}
    /\ Maps \subseteq SUBSET Detections

VARIABLES
    hot,          \* what the feature maps of this call say
    grid, cy, cx, b, \* the loop variables; grid, the code's i, counts from 1
    predictions,
    read,         \* history: the elements read, as <<grid, offset>>
    decoded       \* history: how many boxes were decoded

gridVars == <<hot, grid, cy, cx, b, predictions, read, decoded>>

-----------------------------------------------------------------------------
(* The arrays.                                                              *)

channelStride(g) == gridSize[g] * gridSize[g]
yStride(g) == gridSize[g]
xStride == 1

\* Mutant: the strides of rows and columns are swapped.
OffsetSwapped(g, channel, x, y) == channel * channelStride(g) + x * yStride(g) + y * xStride

\* The nested function offset.
offset(g, channel, x, y) == channel * channelStride(g) + y * yStride(g) + x * xStride

\* What the layout puts at offset o of array g.
Element(g, o) ==
    LET channel == o \div channelStride(g)
        field == channel % boxChannels
        Says(d) == /\ d.grid = g
                   /\ d.b = channel \div boxChannels
                   /\ d.y = (o % channelStride(g)) \div gridSize[g]
                   /\ d.x = o % gridSize[g]
                   /\ field \in {4, 5 + d.c}
    IN  IF \E d \in hot : Says(d) THEN 1 ELSE 0

\* Mutant: the place of a box is taken to have four channels, not five with
\* the confidence.
ChannelTooClose(box) == box * (numClasses + 4)

\* The first channel of a box.
Channel(box) == box * (numClasses + 5)

\* softmax, argmax and the threshold: the classes that score above it.
Detected(classes) ==
    {c \in DOMAIN classes : \A e \in DOMAIN classes : classes[e] = IF e = c THEN 1 ELSE 0}

-----------------------------------------------------------------------------
(* The loops.                                                               *)

GridInit ==
    /\ hot \in Maps
    /\ grid = 1 /\ cy = 0 /\ cx = 0 /\ b = 0
    /\ predictions = <<>>
    /\ read = {}
    /\ decoded = 0

NextBox == b < boxesPerCell - 1 /\ b' = b + 1 /\ UNCHANGED <<grid, cy, cx>>

NextColumn ==
    b = boxesPerCell - 1 /\ cx < gridSize[grid] - 1 /\ b' = 0 /\ cx' = cx + 1 /\ UNCHANGED <<grid, cy>>

NextRow ==
    /\ b = boxesPerCell - 1 /\ cx >= gridSize[grid] - 1 /\ cy < gridSize[grid] - 1
    /\ b' = 0 /\ cx' = 0 /\ cy' = cy + 1 /\ UNCHANGED grid

NextGrid ==
    /\ b = boxesPerCell - 1 /\ cx >= gridSize[grid] - 1 /\ cy = gridSize[grid] - 1
    /\ b' = 0 /\ cx' = 0 /\ cy' = 0 /\ grid' = grid + 1

\* The body reads the channels of the box one by one; a box that scores above
\* the threshold becomes a prediction.
DecodeBox ==
    LET offsets == [n \in 0 .. (numClasses + 4) |-> offset(grid, Channel(b) + n, cx, cy)]
        confidence == Element(grid, offsets[4])
        detected == Detected([c \in 0 .. (numClasses - 1) |-> Element(grid, offsets[5 + c])])
        Prediction(c) == [grid |-> grid, y |-> cy, x |-> cx, b |-> b, c |-> c]
    IN  /\ grid \in Grids
        /\ read' = read \cup {<<grid, offsets[n]>> : n \in DOMAIN offsets}
        /\ decoded' = decoded + 1
        /\ \/ /\ confidence = 1
              /\ \E c \in detected : predictions' = Append(predictions, Prediction(c))
           \/ /\ confidence = 0 \/ detected = {}
              /\ UNCHANGED predictions
        /\ NextBox \/ NextColumn \/ NextRow \/ NextGrid
        /\ UNCHANGED hot

\* nonMaxSuppression gets the predictions (module NonMaxSuppression).
Done == grid \notin Grids /\ UNCHANGED gridVars

GridNext == DecodeBox \/ Done

GridSpec == GridInit /\ [][GridNext]_gridVars

-----------------------------------------------------------------------------
(* Properties.                                                              *)

\* The loop variables stay in their ranges, and a prediction names a box.
GridTypeOK ==
    /\ hot \in Maps
    /\ grid \in 1 .. (Len(gridSize) + 1)
    /\ b \in 0 .. (boxesPerCell - 1)
    /\ grid \in Grids => cy \in Cells(grid) /\ cx \in Cells(grid)
    /\ decoded \in Nat
    /\ \A n \in DOMAIN predictions : predictions[n] \in Detections

\* No element is read for two boxes, and in the end none was left out: the
\* loops, the strides and the channels of a box tile the arrays.
ReadsEachOnce ==
    /\ Cardinality(read) = decoded * boxChannels
    /\ grid \notin Grids => read = UNION {{g} \X (0 .. (count(g) - 1)) : g \in Grids}

\* In the end there is one prediction, with the right cell, box and class, for
\* every box that the feature maps give one class, and no other.
FindsWhatIsThere ==
    grid \notin Grids =>
        LET sure == {d \in hot : \A c \in 0 .. (numClasses - 1) :
                         c = d.c \/ [d EXCEPT !.c = c] \notin hot}
        IN  /\ {predictions[n] : n \in DOMAIN predictions} = sure
            /\ Len(predictions) = Cardinality(sure)
=============================================================================
