----------------------------- MODULE CorpusView -----------------------------
(***************************************************************************)
(* What a Corpus with targets lets through.  A document is its characters, *)
(* at offsets from 0, cut into lines; a target is a document with a half   *)
(* open range of offsets, either end of which may be absent.               *)
(***************************************************************************)
EXTENDS Slices

CONSTANTS Docs,      \* the documents
          Length,    \* the number of characters of each
          Starts,    \* the offsets at which its lines start
          None       \* an absent bound, an absent manifest

Bound == Int \cup {None}
Target == [doc : Docs, start : Bound, end : Bound]
Positions(d) == 0 .. Length[d] - 1

Normal(t) ==
  /\ t.start # None => t.start >= 0
  /\ t.end # None => t.end >= 0
  /\ t.start # None /\ t.end # None => t.start =< t.end

Covers(t, s, e) ==
  /\ t.start # None => s >= t.start
  /\ t.end # None => e =< t.end

Extent(view, d) ==
  {i \in Positions(d) :
     view = None \/ \E t \in view : t.doc = d /\ Covers(t, i, i + 1)}

Scoped(view, d) == view # None => \E t \in view : t.doc = d

Allowed(view, d, s, e) ==
  view # None =>
    \E t \in view :
      /\ t.doc = d
      /\ Covers(t, IF s = None THEN 0 ELSE s, IF e = None THEN Length[d] ELSE e)

\* The characters slice(id, start, end) returns.
Span(d, s, e) ==
  Slice(Length[d], IF s = None THEN 0 ELSE s, IF e = None THEN Length[d] ELSE e)

\* The line that starts at a: up to the line break before the next start.
Line(d, a) ==
  {i \in Positions(d) : a =< i /\ \A b \in Starts[d] : b > a => i + 1 < b}

\* Search compares where a line starts, and shows the line.
HitLines(view, d) == {a \in Starts[d] : a \in Extent(view, d)}
Hits(view, d) == UNION {Line(d, a) : a \in HitLines(view, d)}

\* The catalog is bound whole.
Named(view) == Docs
=============================================================================
