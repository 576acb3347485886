------------------------------- MODULE Slices -------------------------------
(***************************************************************************)
(* Python's x[lo:hi] on n items, as the set of the positions it keeps.  A  *)
(* negative bound counts from the end.                                     *)
(***************************************************************************)
EXTENDS Integers

Wrap(i, n) == IF i >= 0 THEN i ELSE IF n + i >= 0 THEN n + i ELSE 0
Slice(n, lo, hi) == {k \in 0 .. n - 1 : Wrap(lo, n) =< k /\ k < Wrap(hi, n)}
=============================================================================
