----------------------------- MODULE MCScopeScan -----------------------------
(***************************************************************************)
(* Up to three files with up to two declarations, or documents with up to  *)
(* two matches, under caps of one and two.                                 *)
(***************************************************************************)
EXTENDS ScopeScan

Files ==
  [kind : {"outside", "unreadable"}, parts : {0}, selected : {{}}]
    \cup UNION {[kind : {"text"}, parts : {n}, selected : SUBSET (1 .. n)] : n \in 0 .. 2}
Open(items) == \A i \in DOMAIN items : items[i].selected = 1 .. items[i].parts
Documents == [kind : {"document"}, parts : 1 .. 2, selected : {{}}]

UpTo(S, n) == UNION {[1 .. k -> S] : k \in 1 .. n}

MCInputs ==
  {[domain |-> "repo", filtered |-> TRUE, items |-> s] : s \in UpTo(Files, 2)}
    \cup {[domain |-> "repo", filtered |-> FALSE, items |-> s] :
            s \in {t \in UpTo(Files, 3) : Open(t)}}
    \cup {[domain |-> "research", filtered |-> FALSE, items |-> s] : s \in UpTo(Documents, 3)}

MCCap == {Uncapped, 1, 2}
MCCapSets ==
  [records : MCCap, paths : MCCap, nodes : MCCap, metadata : {Uncapped, 1}]
=============================================================================
