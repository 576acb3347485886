--------------------------- MODULE CoverageLedger ---------------------------
(***************************************************************************)
(* What coverage of planned work promises its reader about each record: it *)
(* is planned once, an outcome is said of selected records only, and an    *)
(* outcome once said stays.                                                *)
(*                                                                         *)
(* The "planned" architecture has no census, so its records go from unseen *)
(* to an outcome directly.                                                 *)
(***************************************************************************)
CONSTANT Records

VARIABLE said  \* what is said of each record

Planned  == {"selected", "not_selected", "unplannable"}
Outcomes == {"executed", "failed", "skipped_budget", "skipped_timeout"}

Init == said = [r \in Records |-> "unseen"]

\* The census is planned, every record of it.
Plan ==
  /\ \A r \in Records : said[r] = "unseen"
  /\ said' \in [Records -> Planned]

\* Some records get their outcomes.
Settle ==
  /\ \E done \in SUBSET Records :
       /\ \A r \in done : said[r] \in {"unseen", "selected"}
       /\ said' \in [Records -> Planned \cup Outcomes \cup {"unseen"}]
       /\ \A r \in Records : IF r \in done THEN said'[r] \in Outcomes
                             ELSE said'[r] = said[r]

Next == Plan \/ Settle

Spec == Init /\ [][Next]_said
=============================================================================
