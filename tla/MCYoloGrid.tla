----------------------------- MODULE MCYoloGrid -----------------------------
EXTENDS YoloGrid

\* Two grids, as the three of the code an even and an odd one.
MCGridSize == <<2, 3>>

\* Up to two detections: in two boxes, or of two classes in one box.
MCMaps == {{}} \cup {{d, e} : d, e \in Detections}
=============================================================================
