-------------------------- MODULE MCWatchConnection --------------------------
(* Two documents are enough for a listener to be added or removed while       *)
(* another is there.                                                          *)
EXTENDS WatchConnection, TLC

CONSTANTS doc1, doc2

MCTargets == {doc1, doc2}
Symmetry == Permutations(MCTargets)
=============================================================================
