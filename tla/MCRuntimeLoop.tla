---------------------------- MODULE MCRuntimeLoop ----------------------------
(***************************************************************************)
(* Instances of RuntimeLoop for TLC.  Two cells are enough to repeat and   *)
(* to vary, and one of them looks like a stub; the iteration bound of the  *)
(* cfg leaves room for more errors than MaxErrors and for compaction to    *)
(* move its window.                                                        *)
(***************************************************************************)
EXTENDS RuntimeLoop
=============================================================================
