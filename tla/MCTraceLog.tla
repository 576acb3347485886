----------------------------- MODULE MCTraceLog -----------------------------
(* Two turns, a batch of two slots, a cap of one artifact: a child can abort  *)
(* beside a leaf, two captures can pass the cap together, and the second cell *)
(* finds what the first has left.                                             *)
EXTENDS TraceLog, TLC
Symmetry == Permutations(Slots)
=============================================================================
