------------------------- MODULE MCFileEventStorage -------------------------
(* Two records fill a file and three files fill the storage, so five records *)
(* make the writer rotate twice; a pack ends in the middle of a file.        *)
EXTENDS FileEventStorage, TLC

CONSTANTS e1, e2, e3, e4, e5

Symmetry == Permutations(Events)
=============================================================================
