---------------------------- MODULE MCTargetScope ----------------------------
(***************************************************************************)
(* One file or document of three positions and one of one; documents have  *)
(* a line break after the first character.  Manifests: empty, a prefix, a  *)
(* suffix, two spans with a gap between them, the whole of the other, and  *)
(* one the domains may refuse.                                             *)
(***************************************************************************)
EXTENDS TargetScope

CONSTANTS long, short

MCDocs == {long, short}
MCLines == [d \in MCDocs |-> IF d = long THEN 3 ELSE 1]
MCChars == [d \in MCDocs |-> IF d = long THEN 4 ELSE 1]
MCStarts == [d \in MCDocs |-> IF d = long THEN {0, 2} ELSE {0}]
MCBounds == {None} \cup -1 .. 4

Span0(d, s, e) == [doc |-> d, start |-> s, end |-> e]
MCManifests ==
  {{}, {Span0(long, None, 2)}, {Span0(long, 2, None)},
   {Span0(long, None, 1), Span0(long, 3, None)}, {Span0(short, None, None)},
   {Span0(long, 0, 3)}}
=============================================================================
