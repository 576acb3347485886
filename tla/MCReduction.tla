---------------------------- MODULE MCReduction ----------------------------
(* Three findings of sizes 1 to 3; summaries of up to 2; a target that only   *)
(* takes one, one that takes two summaries; a budget of four calls, or none.  *)
EXTENDS Reduction
=============================================================================
