----------------------------- MODULE LoopContract -----------------------------
(***************************************************************************)
(* What a runtime promises its caller, whatever happens inside a turn:     *)
(* it takes at most MaxIterations turns, sends one completion per turn     *)
(* before it runs anything, answers only out of a cell, and once it has    *)
(* answered or failed it stays so.                                         *)
(*                                                                         *)
(* RuntimeLoop, which has all of Runtime.run, and SubcallTree, which has   *)
(* many runtimes at once, both implement it.                               *)
(***************************************************************************)
EXTENDS Naturals

CONSTANT MaxIterations  \* a natural number; its users assume so

VARIABLES
  phase,   \* "turn", "model", "cell", "answered" or "failed"
  taken    \* turns taken

contractVars == <<phase, taken>>

Init == phase = "turn" /\ taken = 0

\* A turn begins with one completion on the whole history.
Send ==
  /\ phase = "turn"
  /\ taken < MaxIterations
  /\ phase' = "model"
  /\ taken' = taken + 1

\* The reply is run as a cell, or has nothing to run and ends the turn.
Act ==
  /\ phase = "model"
  /\ phase' \in {"cell", "turn"}
  /\ UNCHANGED taken

\* The cell ends the turn, or the run.
Observe ==
  /\ phase = "cell"
  /\ phase' \in {"turn", "answered"}
  /\ UNCHANGED taken

\* Any exception ends the run.
Fail ==
  /\ phase \in {"turn", "model", "cell"}
  /\ phase' = "failed"
  /\ UNCHANGED taken

Next == Send \/ Act \/ Observe \/ Fail

Spec == Init /\ [][Next]_contractVars
=============================================================================
