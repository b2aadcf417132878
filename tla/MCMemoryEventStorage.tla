------------------------ MODULE MCMemoryEventStorage ------------------------
(* A queue of three, packs of two, five puts: packs of one and two, a queue  *)
(* that fills while a pack is being built, and a pack that outlives it.      *)
EXTENDS MemoryEventStorage
=============================================================================
