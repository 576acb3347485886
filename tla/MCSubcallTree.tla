---------------------------- MODULE MCSubcallTree ----------------------------
(***************************************************************************)
(* Instances of SubcallTree for TLC.  The bounds are named by the cfg      *)
(* files: three callbacks are enough for a batch of two next to a nested   *)
(* call; caps of three and four units with costs of one and two let a      *)
(* single completion stay below the cap, meet it and overshoot it.         *)
(***************************************************************************)
EXTENDS SubcallTree, TLC

Symmetry == Permutations(Calls)
=============================================================================
