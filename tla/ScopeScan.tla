------------------------------ MODULE ScopeScan ------------------------------
(***************************************************************************)
(* The deterministic scope of a question: build_repo_scope walks the files *)
(* in path order, build_corpus_scope the documents in catalog order, and   *)
(* _manifest keeps a prefix of the records they collect.  Four caps may    *)
(* each end the scan, and each has a flag that tells so.                   *)
(*                                                                         *)
(* An item is a file or a document: what of it the filters of the question *)
(* select is part of the item.  One step scans one item.                   *)
(***************************************************************************)
EXTENDS Integers, Sequences

CONSTANTS Inputs,      \* the sequences of items to scan
          CapSets,     \* caps: records, paths, nodes, metadata
          Uncapped     \* a cap that is None

\* A file has declarations or none, a document at least one match: without
\* any it is a match as a whole.
Item == [kind : {"outside", "unreadable", "text", "document"}, parts : Nat, selected : SUBSET Nat]
Cap == Nat \cup {Uncapped}

ASSUME ScanAssumption ==
  /\ Uncapped \notin Nat
  /\ CapSets \subseteq [records : Cap, paths : Cap, nodes : Cap, metadata : Cap]
  /\ \A in \in Inputs :
       /\ in.domain \in {"repo", "research"} /\ in.filtered \in BOOLEAN
       /\ in.items \in Seq(Item)
       /\ in.domain = "research" =>
            \A i \in DOMAIN in.items : in.items[i].kind = "document" /\ in.items[i].parts > 0

VARIABLES input,       \* the items, the domain and whether declarations are filtered
          caps,
          at,          \* how many items were visited
          paths, nodes,
          records,     \* the records so far
          flags,       \* the truncation flags set
          state        \* scanning, collected, built

vars == <<input, caps, at, paths, nodes, records, flags, state>>

Reached(cap, n) == cap # Uncapped /\ n >= cap
Flags == {"records", "paths", "ast_nodes", "metadata_bytes"}
Items == input.items

Record(i, k) == [item |-> i, part |-> k]
Keep(s, n) == IF n < Len(s) THEN SubSeq(s, 1, n) ELSE s

\* The sequences of g one after the other: after none of them, after one, ...
Prefixes(g) ==
  LET upto[k \in 0 .. Len(g)] == IF k = 0 THEN <<>> ELSE upto[k - 1] \o g[k]
  IN upto

\* What a declaration adds to the records: itself, when the question selects it.
Selected(in, i, k) == IF k \in in.items[i].selected THEN <<Record(i, k)>> ELSE <<>>

\* Mutant of Declared: inner declarations come before the ones around them.
DeclaredInside(in, i, n) == Prefixes([k \in 1 .. n |-> Selected(in, i, n + 1 - k)])[n]

\* Records of the selected declarations among the first n of an item, in order.
Declared(in, i, n) == Prefixes([k \in 1 .. n |-> Selected(in, i, k)])[n]

\* All records an item has to give, when nothing is capped.
AllOf(in, i) ==
  IF in.domain = "research" THEN [k \in 1 .. in.items[i].parts |-> Record(i, k)]
  ELSE IF in.items[i].kind # "text" THEN <<>>
  ELSE IF in.items[i].parts = 0 /\ ~in.filtered THEN <<Record(i, 0)>>
  ELSE Declared(in, i, in.items[i].parts)

\* What an uncapped scan has after each number of items, and at its end.
Inventory(in) == Prefixes([i \in 1 .. Len(in.items) |-> AllOf(in, i)])

Census(in) == Inventory(in)[Len(in.items)]

Init ==
  /\ input \in Inputs
  /\ caps \in CapSets
  /\ at = 0 /\ paths = 0 /\ nodes = 0
  /\ records = <<>>
  /\ flags = {}
  /\ state = "scanning"

\* The paths cap is looked at before the item is.
PathsFull ==
  /\ state = "scanning" /\ at < Len(Items)
  /\ Reached(caps.paths, IF input.domain = "repo" THEN paths ELSE at)
  /\ flags' = flags \cup {"paths"}
  /\ state' = "collected"
  /\ UNCHANGED <<input, caps, at, paths, nodes, records>>

MayScan ==
  /\ state = "scanning" /\ at < Len(Items)
  /\ ~Reached(caps.paths, IF input.domain = "repo" THEN paths ELSE at)

\* A file that is no text or is outside the prefixes and globs.
PassFile ==
  /\ MayScan /\ input.domain = "repo" /\ Items[at + 1].kind = "outside"
  /\ at' = at + 1
  /\ UNCHANGED <<input, caps, paths, nodes, records, flags, state>>

\* A file that cannot be read is counted and passed over.
SkipUnreadable ==
  /\ MayScan /\ input.domain = "repo" /\ Items[at + 1].kind = "unreadable"
  /\ at' = at + 1 /\ paths' = paths + 1
  /\ UNCHANGED <<input, caps, nodes, records, flags, state>>

\* Mutant of Visited: the declaration that meets the cap is still recorded.
VisitedOneMore(n) ==
  IF caps.nodes = Uncapped \/ nodes + n =< caps.nodes THEN n ELSE caps.nodes - nodes + 1

\* How many of n declarations the walk of the syntax tree records.
Visited(n) ==
  IF caps.nodes = Uncapped \/ nodes + n =< caps.nodes THEN n ELSE caps.nodes - nodes

\* How many records are appended before the loop over declarations breaks: it
\* compares after each append.
Appended(found) ==
  IF caps.records = Uncapped \/ Len(records) + Len(found) =< caps.records THEN Len(found)
  ELSE IF Len(records) >= caps.records THEN 1
  ELSE caps.records - Len(records)

\* A file: its declarations, then the file itself when it has none.
ScanFile ==
  /\ MayScan /\ input.domain = "repo" /\ Items[at + 1].kind = "text"
  /\ LET item == Items[at + 1]
         seen == Visited(item.parts)
         found == Declared(input, at + 1, seen)
         more == IF found = <<>> THEN <<>> ELSE Keep(found, Appended(found))
         after == records \o more
         full == Reached(caps.records, Len(after))
     IN /\ nodes' = nodes + seen
        /\ records' = IF seen = 0 /\ ~input.filtered /\ ~full
                        THEN Append(after, Record(at + 1, 0))
                        ELSE after
        /\ flags' = flags \cup (IF seen < item.parts THEN {"ast_nodes"} ELSE {})
                          \cup (IF full /\ more # <<>> THEN {"records"} ELSE {})
        /\ state' = IF full THEN "collected" ELSE state
  /\ at' = at + 1 /\ paths' = paths + 1
  /\ UNCHANGED <<input, caps>>

\* Mutant of ScanDocument: the flag is set when the cap is met, not passed.
ScanDocumentAtCap ==
  /\ MayScan /\ input.domain = "research"
  /\ LET all == AllOf(input, at + 1)
         room == IF caps.records = Uncapped THEN Len(all) ELSE caps.records - Len(records)
     IN /\ records' = records \o Keep(all, room)
        /\ flags' = flags \cup (IF Len(all) > room + 1 THEN {"records"} ELSE {})
        /\ state' = IF Len(all) > room THEN "collected" ELSE state
  /\ at' = at + 1 /\ paths' = paths + 1
  /\ UNCHANGED <<input, caps, nodes>>

\* A document: one record for each match, or one for the whole.
ScanDocument ==
  /\ MayScan /\ input.domain = "research"
  /\ LET all == AllOf(input, at + 1)
         room == IF caps.records = Uncapped THEN Len(all) ELSE caps.records - Len(records)
     IN /\ records' = records \o Keep(all, room)
        /\ flags' = flags \cup (IF Len(all) > room THEN {"records"} ELSE {})
        /\ state' = IF Len(all) > room THEN "collected" ELSE state
  /\ at' = at + 1 /\ paths' = paths + 1
  /\ UNCHANGED <<input, caps, nodes>>

ScanEnds ==
  /\ state = "scanning" /\ at = Len(Items)
  /\ state' = "collected"
  /\ UNCHANGED <<input, caps, at, paths, nodes, records, flags>>

\* Mutant of Build: a prefix is kept, and nobody is told.
BuildSilent ==
  /\ state = "collected"
  /\ records' = IF Reached(caps.metadata, Len(records))
                  THEN Keep(records, caps.metadata) ELSE records
  /\ state' = "built"
  /\ UNCHANGED <<input, caps, at, paths, nodes, flags>>

\* _manifest: the longest prefix of the records within the metadata cap.
Build ==
  /\ state = "collected"
  /\ LET kept == IF Reached(caps.metadata, Len(records))
                   THEN Keep(records, caps.metadata) ELSE records
     IN /\ records' = kept
        /\ flags' = IF Len(kept) < Len(records) THEN flags \cup {"metadata_bytes"} ELSE flags
  /\ state' = "built"
  /\ UNCHANGED <<input, caps, at, paths, nodes>>

Next ==
  \/ PathsFull \/ PassFile \/ SkipUnreadable \/ ScanFile \/ ScanDocument
  \/ ScanEnds \/ Build

Spec == Init /\ [][Next]_vars
-----------------------------------------------------------------------------
TypeOK ==
  /\ at \in 0 .. Len(Items) /\ paths \in 0 .. at /\ nodes \in Nat
  /\ records \in Seq([item : 1 .. Len(Items), part : Nat])
  /\ flags \subseteq Flags
  /\ state \in {"scanning", "collected", "built"}

Before(q, r) == q.item < r.item \/ (q.item = r.item /\ q.part < r.part)

\* Records name distinct targets, in the order of the items: an identifier,
\* which is a position, stands for one target of the manifest and all shards.
Ordered(s) == \A j, k \in DOMAIN s : j < k => Before(s[j], s[k])

\* A manifest that can be planned on: every identifier means one target.
ManifestWellFormed == TypeOK /\ Ordered(records)

\* A manifest without a flag is the census, unless it is exactly full: then
\* the repository scan may have stopped without a word.
UnflaggedIsComplete ==
  state = "built" /\ flags = {} /\ ~Reached(caps.records, Len(records)) => records = Census(input)

\* For a corpus the flags are exact in both directions.
CorpusFlagsExact ==
  state = "built" /\ input.domain = "research" => (flags = {} <=> records = Census(input))

\* What is counted stays within its cap; the records of a repository may pass
\* theirs by one, when a file record filled the manifest.
CapsKept ==
  /\ caps.paths # Uncapped => paths =< caps.paths
  /\ caps.nodes # Uncapped => nodes =< caps.nodes
  /\ caps.records # Uncapped =>
       Len(records) =< caps.records + IF input.domain = "repo" THEN 1 ELSE 0
  /\ state = "built" /\ caps.metadata # Uncapped => Len(records) =< caps.metadata

\* docs/tests.md: a truncated manifest is an honest coverage signal.
TruncationTold == state = "built" /\ flags = {} => records = Census(input)
=============================================================================
