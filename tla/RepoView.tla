------------------------------ MODULE RepoView ------------------------------
(***************************************************************************)
(* What a Repo with targets lets through.  A file is its lines, numbered   *)
(* from 1; a target is a file with an inclusive range, either end of which *)
(* may be absent.  A view is None (no targets: the whole repository) or a  *)
(* set of targets.                                                         *)
(***************************************************************************)
EXTENDS Slices

CONSTANTS Docs,      \* the files
          Length,    \* the number of lines of each
          None       \* an absent bound, an absent manifest

Bound == Int \cup {None}
Target == [doc : Docs, start : Bound, end : Bound]
Positions(d) == 1 .. Length[d]

\* Which target records the constructor takes.
Normal(t) ==
  /\ t.start # None => t.start >= 1
  /\ t.end # None => t.end >= 1
  /\ t.start # None /\ t.end # None => t.start =< t.end

\* A request, with both its ends known, lies in a target.
Covers(t, s, e) ==
  /\ t.start # None => s >= t.start
  /\ t.end # None => e =< t.end

\* What the targets let a runtime see of a file.
Extent(view, d) ==
  {i \in Positions(d) :
     view = None \/ \E t \in view : t.doc = d /\ Covers(t, i, i)}

Scoped(view, d) == view # None => \E t \in view : t.doc = d

\* Mutant of Allowed: each end of a request may lie in another target.
AllowedAcross(view, d, s, e) ==
  view # None =>
    \E t, u \in view :
      /\ t.doc = d /\ (t.start # None => (IF s = None THEN 1 ELSE s) >= t.start)
      /\ u.doc = d /\ (u.end # None => (IF e = None THEN Length[d] ELSE e) =< u.end)

\* Requests are compared with one target at a time.
Allowed(view, d, s, e) ==
  view # None =>
    \E t \in view :
      /\ t.doc = d
      /\ Covers(t, IF s = None THEN 1 ELSE s, IF e = None THEN Length[d] ELSE e)

\* The lines read(path, start, end) returns.
Span(d, s, e) ==
  LET n == Length[d]
      first == IF s = None \/ s < 1 THEN 0 ELSE s - 1
      last == IF e = None \/ e > n THEN n ELSE e
  IN {i \in Positions(d) : i - 1 \in Slice(n, first, last)}

\* A glob is refused when it matches a file outside the targets.
GlobAllowed(view, match) == \A d \in match : Scoped(view, d)

\* The lines of a file grep looks at.
Hits(view, d) == Extent(view, d)

\* The files tree, glob and files name.
Named(view) == {d \in Docs : Scoped(view, d)}
=============================================================================
