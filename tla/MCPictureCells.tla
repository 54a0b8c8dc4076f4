---------------------------- MODULE MCPictureCells ----------------------------
EXTENDS PictureCells

CONSTANTS c1, c2

MCCells == {c1, c2}

\* The chains of watched rows are longer, so there are fewer of them.
MCMaxDequeues == [watches \in BOOLEAN |-> IF watches THEN 2 ELSE 3]
=============================================================================
