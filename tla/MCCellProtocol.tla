--------------------------- MODULE MCCellProtocol ---------------------------
(* One worker beside the main thread, two cells, two calls: at once, one     *)
(* after the other, or one that the first cell left open beside one of the   *)
(* second; a timer of two ticks can be read, paused and armed again with one *)
(* left.                                                                     *)
EXTENDS CellProtocol
=============================================================================
