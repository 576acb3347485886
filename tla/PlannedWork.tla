----------------------------- MODULE PlannedWork -----------------------------
(***************************************************************************)
(* Preparation and execution of planned research, between the public API   *)
(* and the runtime loop: the census is cut into shards, one planner call   *)
(* per shard returns untrusted JSON, an accepted plan selects records of   *)
(* its shard, and the selected records are worked off one by one under the *)
(* session's budget, each with a line of coverage.                         *)
(*                                                                         *)
(* The records are 1 .. N, in manifest order.  A completion returns a text *)
(* of one of four kinds, the ones the code tells apart by their words.     *)
(***************************************************************************)
EXTENDS Integers, FiniteSets, Sequences, SequencesExt, Packing

CONSTANTS
  N,            \* census records (at most 256 for "planned")
  Weights,      \* what a record adds to a planner prompt
  ShardTarget,  \* planner_shard_target_tokens
  PromptMax,    \* max_prompt_tokens
  MaxSelected,  \* planner_max_selected
  MaxLeaf,      \* planner_max_leaf_calls
  MaxChild      \* planner_max_child_calls

ASSUME PlannedAssumption ==
  /\ N \in Nat
  /\ Weights \subseteq Nat \ {0}
  /\ ShardTarget \in Nat /\ PromptMax \in Nat /\ ShardTarget =< PromptMax
  /\ MaxSelected \in Nat \ {0} /\ MaxLeaf \in Nat \ {0} /\ MaxChild \in Nat \ {0}

Records == 1 .. N

Architectures == {"direct", "planned", "planned_waves"}

\* Kinds of text: a finding, an error, and texts with the words "budget
\* exhausted" or "timeout exhausted" in them.
Texts == {"finding", "error", "usd", "timeout"}

Skipped == {"skipped_budget", "skipped_timeout"}

VARIABLES
  pc,
  arch,       \* config.architecture
  weight,     \* weight of each record
  large,      \* records whose route is "child" (above ASK_LEAF_CHARS)
  shard,      \* the shard to be planned next
  waves,      \* accepted plans: [shard, items]
  coverage,   \* lines of coverage.jsonl: [record, status]
  wave, item, \* position in the execution
  usd, late,  \* is the money, is the time of the budget exhausted?
  findings,   \* records with a finding
  summary,    \* planned-waves-summary.json: "none", "complete", "incomplete"
  view,       \* what the REPL of the run can read
  started,    \* records a model was asked about (history variable)
  stopped     \* has the execution skipped work? (history variable)

inputs == <<arch, weight, large>>
budget == <<usd, late>>
plan   == <<shard, waves>>
work   == <<wave, item, findings, started, stopped>>
vars == <<pc, inputs, plan, coverage, work, budget, summary, view>>

Exhausted == usd \/ late

\* The shards of planned_waves; planned has the whole scope in one.
ShardCount == IF arch = "planned" THEN 1 ELSE Cardinality(Groups(weight, ShardTarget))

ShardRecords(s) ==
  IF arch = "planned" THEN Records ELSE Members(weight, ShardTarget, s)

\* Current wave, current record.
Items   == waves[wave].items
Current == Items[item]

Line(r, s) == [record |-> r, status |-> s]

\* What coverage.jsonl says last about a record.
Latest(r) ==
  LET lines == {k \in DOMAIN coverage : coverage[k].record = r}
  IN IF lines = {} THEN "unseen"
     ELSE coverage[CHOOSE k \in lines : \A j \in lines : j =< k].status

Init ==
  /\ pc = "scope"
  /\ arch \in Architectures
  /\ weight \in [Records -> Weights]
  /\ large \in SUBSET Records
  /\ shard = 1 /\ waves = <<>>
  /\ coverage = <<>>
  /\ wave = 1 /\ item = 1
  /\ usd = FALSE /\ late = FALSE
  /\ findings = <<>>
  /\ summary = "none"
  /\ view = "none"
  /\ started = {} /\ stopped = FALSE

------------------------------------------------------------------------------
(* Preparation.                                                            *)

\* The manifest is built; direct has none.
BuildScope ==
  /\ pc = "scope"
  /\ IF arch = "direct"
       THEN pc' = "done" /\ view' = "domain"
       ELSE pc' = "plan" /\ UNCHANGED view
  /\ UNCHANGED <<inputs, plan, coverage, work, budget, summary>>

\* A selection of an untrusted plan: any record, or one that does not exist.
\* Replies of more than MaxSelected are rejected: PlanRejected stands for them.
Selections == [record : Records \cup {0}, route : {"leaf", "child"}]

\* Mutant of Valid: duplicates are accepted.
ValidTwice(reply, s) ==
  /\ reply # <<>> /\ Len(reply) =< MaxSelected
  /\ \A k \in DOMAIN reply :
       /\ reply[k].record \in ShardRecords(s)
       /\ reply[k].route = IF reply[k].record \in large THEN "child" ELSE "leaf"
  /\ Cardinality({k \in DOMAIN reply : reply[k].route = "leaf"}) =< MaxLeaf
  /\ Cardinality({k \in DOMAIN reply : reply[k].route = "child"}) =< MaxChild

\* Mutant of Valid: any record that has the route is accepted.
ValidUnknown(reply, s) ==
  /\ reply # <<>> /\ Len(reply) =< MaxSelected
  /\ \A k \in DOMAIN reply :
       /\ \A j \in 1 .. k - 1 : reply[j].record # reply[k].record
       /\ reply[k].route = IF reply[k].record \in large THEN "child" ELSE "leaf"
  /\ Cardinality({k \in DOMAIN reply : reply[k].route = "leaf"}) =< MaxLeaf
  /\ Cardinality({k \in DOMAIN reply : reply[k].route = "child"}) =< MaxChild

\* parse_plan accepts the reply for a shard.
Valid(reply, s) ==
  /\ reply # <<>> /\ Len(reply) =< MaxSelected
  /\ \A k \in DOMAIN reply :
       /\ reply[k].record \in ShardRecords(s)
       /\ \A j \in 1 .. k - 1 : reply[j].record # reply[k].record
       /\ reply[k].route = IF reply[k].record \in large THEN "child" ELSE "leaf"
  /\ Cardinality({k \in DOMAIN reply : reply[k].route = "leaf"}) =< MaxLeaf
  /\ Cardinality({k \in DOMAIN reply : reply[k].route = "child"}) =< MaxChild

Sendable(s) == Weigh(weight, ShardRecords(s)) =< PromptMax

\* The planner is asked and its reply is accepted.
PlanAccepted(reply) ==
  /\ pc = "plan"
  /\ shard =< ShardCount
  /\ ~Exhausted
  /\ Sendable(shard)
  /\ Valid(reply, shard)
  /\ waves' = Append(waves, [shard |-> shard, items |-> [k \in DOMAIN reply |-> reply[k].record]])
  /\ shard' = shard + 1
  /\ UNCHANGED <<pc, inputs, coverage, work, budget, summary, view>>

\* Any exception of the planner call rejects the plan: an exhausted budget, a
\* prompt too long, a failed completion, a reply that is not valid, or a
\* completion whose charge exhausts the money.
PlanRejected ==
  /\ pc = "plan"
  /\ shard =< ShardCount
  /\ usd' \in IF ~Exhausted /\ Sendable(shard) THEN BOOLEAN ELSE {usd}
  /\ shard' = shard + 1
  /\ UNCHANGED <<pc, inputs, waves, coverage, work, late, summary, view>>

\* Coverage of the planning, one line for every record in shard order.
PlanStatus(r) ==
  LET s == Cut(weight, ShardTarget)[r].group
      accepted == {k \in DOMAIN waves : waves[k].shard = s}
  IN IF accepted = {} THEN "unplannable"
     ELSE IF \E k \in accepted : r \in ToSet(waves[k].items) THEN "selected"
     ELSE "not_selected"

\* Mutant of Prepared: a rejected plan runs on the domain.
PreparedReopens ==
  /\ pc = "plan"
  /\ shard > ShardCount
  /\ coverage' = IF arch = "planned" THEN coverage
                 ELSE [r \in Records |-> Line(r, PlanStatus(r))]
  /\ IF waves # <<>>
       THEN pc' = "work" /\ UNCHANGED view
       ELSE pc' = "done" /\ view' = "domain"
  /\ UNCHANGED <<inputs, plan, work, budget, summary>>

\* Preparation is over.  planned_waves writes its coverage; a plan of planned
\* that was rejected leaves the targets of the manifest, if it has any;
\* planned_waves without an accepted shard leaves no plan at all.
Prepared ==
  /\ pc = "plan"
  /\ shard > ShardCount
  /\ coverage' = IF arch = "planned" THEN coverage
                 ELSE [r \in Records |-> Line(r, PlanStatus(r))]
  /\ IF waves # <<>>
       THEN pc' = "work" /\ UNCHANGED view
       ELSE /\ pc' = "done"
            /\ view' = IF arch = "planned" /\ Records # {} THEN "targets" ELSE "domain"
  /\ UNCHANGED <<inputs, plan, work, budget, summary>>

------------------------------------------------------------------------------
(* Execution.                                                              *)

\* Mutant of SkipRest: only the record at which the check failed is marked.
SkipCurrent ==
  /\ pc = "work"
  /\ wave =< Len(waves) /\ item =< Len(Items)
  /\ Exhausted
  /\ LET status == IF late THEN "skipped_timeout" ELSE "skipped_budget"
     IN coverage' = Append(coverage, Line(Current, status))
  /\ stopped' = TRUE
  /\ item' = Len(Items) + 1
  /\ UNCHANGED <<pc, inputs, plan, wave, findings, started, budget, summary, view>>

\* Mutant of SkipRest: the whole wave is marked.
SkipWave ==
  /\ pc = "work"
  /\ wave =< Len(waves) /\ item =< Len(Items)
  /\ Exhausted
  /\ LET status == IF late THEN "skipped_timeout" ELSE "skipped_budget"
     IN coverage' = coverage \o [k \in 1 .. Len(Items) |-> Line(Items[k], status)]
  /\ stopped' = TRUE
  /\ item' = Len(Items) + 1
  /\ UNCHANGED <<pc, inputs, plan, wave, findings, started, budget, summary, view>>

\* The check before a record fails: what is left of the wave is skipped.
SkipRest ==
  /\ pc = "work"
  /\ wave =< Len(waves) /\ item =< Len(Items)
  /\ Exhausted
  /\ LET status == IF late THEN "skipped_timeout" ELSE "skipped_budget"
     IN coverage' = coverage \o [k \in 1 .. Len(Items) - item + 1 |->
                                   Line(Items[item + k - 1], status)]
  /\ stopped' = TRUE
  /\ item' = Len(Items) + 1
  /\ UNCHANGED <<pc, inputs, plan, wave, findings, started, budget, summary, view>>

\* The check passes: leaf_complete or child_rlm is called.
TakeItem ==
  /\ pc = "work"
  /\ wave =< Len(waves) /\ item =< Len(Items)
  /\ ~Exhausted
  /\ pc' = "call"
  /\ UNCHANGED <<inputs, plan, coverage, work, budget, summary, view>>

\* The call comes back with a text, and the text decides the coverage.
Classified(text) ==
  CASE text = "timeout" -> "skipped_timeout"
    [] text = "usd"     -> "skipped_budget"
    [] text = "error"   -> "failed"
    [] OTHER            -> "executed"

Finding(text) ==
  /\ coverage' = Append(coverage, Line(Current, Classified(text)))
  /\ findings' = Append(findings, Current)
  /\ item' = item + 1
  /\ pc' = "work"

\* The callee checks the budget again, and time may have passed.
CallRefused ==
  /\ pc = "call"
  /\ Exhausted
  /\ Finding(IF late THEN "timeout" ELSE "usd")
  /\ UNCHANGED <<inputs, plan, wave, started, stopped, budget, summary, view>>

\* Mutant of CallUnsendable: a refused prompt is tried again.
CallUnsendableAgain ==
  /\ pc = "call"
  /\ ~Exhausted
  /\ pc' = "work"
  /\ UNCHANGED <<inputs, plan, coverage, work, budget, summary, view>>

\* The prompt guard refuses the evidence.
CallUnsendable ==
  /\ pc = "call"
  /\ ~Exhausted
  /\ Finding("error")
  /\ UNCHANGED <<inputs, plan, wave, started, stopped, budget, summary, view>>

\* The evidence is sent to a leaf, or a child is started on its target.
CallStarts ==
  /\ pc = "call"
  /\ ~Exhausted
  /\ started' = started \cup {Current}
  /\ pc' = "sent"
  /\ UNCHANGED <<inputs, plan, coverage, wave, item, findings, stopped, budget, summary,
                 view>>

\* It answers, or fails with an error text.  A leaf that answers is checked
\* after its charge; a child that is folded is not.
CallReturns(text) ==
  /\ pc = "sent"
  /\ \/ Current \notin large /\ ~late /\ UNCHANGED usd
     \/ Current \in large /\ usd' \in BOOLEAN
     \/ text = "error" /\ UNCHANGED usd
  /\ Finding(text)
  /\ UNCHANGED <<inputs, plan, wave, started, stopped, late, summary, view>>

\* Reading the evidence fails, a child cannot be launched, or the charge of a
\* leaf (a child beyond max_depth is one) exhausts the budget: the exception
\* leaves Runtime.run.
CallRaises ==
  /\ \/ pc = "call" /\ UNCHANGED usd
     \/ pc = "sent" /\ usd' = TRUE
     \/ pc = "sent" /\ late /\ UNCHANGED usd
  /\ pc' = "raised"
  /\ UNCHANGED <<inputs, plan, coverage, work, late, summary, view>>

\* Mutant of EndWave: every wave has a budget of its own.
EndWaveFreshBudget ==
  /\ pc = "work"
  /\ wave =< Len(waves) /\ item > Len(Items)
  /\ wave' = wave + 1 /\ item' = 1
  /\ usd' = FALSE
  /\ UNCHANGED <<pc, inputs, plan, coverage, findings, started, stopped, late, summary,
                 view>>

EndWave ==
  /\ pc = "work"
  /\ wave =< Len(waves) /\ item > Len(Items)
  /\ wave' = wave + 1 /\ item' = 1
  /\ UNCHANGED <<pc, inputs, plan, coverage, findings, started, stopped, budget, summary,
                 view>>

\* The findings are joined, or reduced by leaves until one text is left; the
\* charge of a reducing leaf may exhaust the budget and raise.
Reduce ==
  /\ pc = "work" /\ wave > Len(waves)
  /\ \/ arch = "planned" /\ pc' = "render" /\ UNCHANGED usd
     \/ arch = "planned_waves" /\ pc' = "summary" /\ UNCHANGED usd
     \/ /\ arch = "planned_waves" /\ ~stopped /\ ~usd
        /\ usd' \in IF late THEN BOOLEAN ELSE {TRUE}
        /\ pc' = "raised"
  /\ UNCHANGED <<inputs, plan, coverage, work, late, summary, view>>

\* Mutant of WriteSummary: a failed check is not looked for.
WriteSummaryPlanOnly ==
  /\ pc = "summary"
  /\ summary' = IF \E r \in Records : Latest(r) = "unplannable"
                  THEN "incomplete" ELSE "complete"
  /\ pc' = "render"
  /\ UNCHANGED <<inputs, plan, coverage, work, budget, view>>

\* planned-waves-summary.json.
WriteSummary ==
  /\ pc = "summary"
  /\ summary' = IF \E r \in Records : Latest(r) \in Skipped \cup {"unplannable"}
                  THEN "incomplete" ELSE "complete"
  /\ pc' = "render"
  /\ UNCHANGED <<inputs, plan, coverage, work, budget, view>>

\* The run goes on with the findings as its only context.
Render ==
  /\ pc = "render"
  /\ view' = "findings"
  /\ pc' = "done"
  /\ UNCHANGED <<inputs, plan, coverage, work, budget, summary>>

TimePasses ==
  /\ pc \in {"plan", "work", "call", "sent"}
  /\ ~late
  /\ late' = TRUE
  /\ UNCHANGED <<pc, inputs, plan, coverage, work, usd, summary, view>>

Advance ==
  \/ BuildScope
  \/ \E reply \in BoundedSeq(Selections, MaxSelected) : PlanAccepted(reply)
  \/ PlanRejected \/ Prepared
  \/ SkipRest \/ TakeItem
  \/ CallRefused \/ CallUnsendable \/ CallStarts
  \/ \E text \in Texts : CallReturns(text)
  \/ CallRaises \/ EndWave
  \/ Reduce \/ WriteSummary \/ Render

Next == Advance \/ TimePasses

Spec == Init /\ [][Next]_vars

\* One thread executes the plan; completions return or time out.
FairSpec == Spec /\ WF_vars(Advance)

------------------------------------------------------------------------------
(* Properties.                                                             *)

Statuses == {"selected", "not_selected", "unplannable", "executed", "failed"} \cup Skipped

\* The types of the variables; the position never leaves the plans.
TypeOK ==
  /\ pc \in {"scope", "plan", "work", "call", "sent", "summary", "render", "done", "raised"}
  /\ arch \in Architectures
  /\ weight \in [Records -> Weights]
  /\ large \subseteq Records
  /\ shard \in 1 .. N + 2
  /\ \A k \in DOMAIN waves :
       waves[k].shard \in 1 .. N + 1 /\ ToSet(waves[k].items) \subseteq Records
  /\ \A k \in DOMAIN coverage :
       coverage[k].record \in Records /\ coverage[k].status \in Statuses
  /\ wave \in 1 .. Len(waves) + 1
  /\ pc \in {"call", "sent"} => wave =< Len(waves) /\ item \in 1 .. Len(Items)
  /\ usd \in BOOLEAN /\ late \in BOOLEAN
  /\ ToSet(findings) \subseteq Records
  /\ summary \in {"none", "complete", "incomplete"}
  /\ view \in {"none", "domain", "targets", "findings"}
  /\ started \subseteq Records /\ stopped \in BOOLEAN

\* Planner shards are consecutive, within the target unless a single record
\* is above it, and none is closed early.
ShardsFit == CutFits(weight, ShardTarget)

\* The records selected so far, all waves together.
Selected == UNION {ToSet(waves[k].items) : k \in DOMAIN waves}

\* The plan is untrusted, shards are planned separately, and still no record
\* is worked off twice: its findings and its coverage are written once.
WorkedOnce ==
  /\ \A j, k \in DOMAIN findings : findings[j] = findings[k] => j = k
  /\ started \subseteq Selected
  /\ ToSet(findings) \subseteq Selected

\* 009, "exact coverage state for every census record": from the end of the
\* preparation of planned_waves every record has a status, and when the
\* execution went through, no selected record is left without an outcome.
Covered ==
  arch = "planned_waves" =>
    /\ pc \notin {"scope", "plan"} => \A r \in Records : Latest(r) # "unseen"
    /\ pc \in {"summary", "render"} =>
         \A r \in Records :
           Latest(r) \in IF r \in Selected THEN {"executed", "failed"} \cup Skipped
                         ELSE {"not_selected", "unplannable"}

\* "executed" is only said of records a model was asked about.
ExecutedWasAsked == \A r \in Records : Latest(r) = "executed" => r \in started

\* coverage.jsonl can be believed: it leaves no record out, and what it says
\* was executed was.
CoverageTrue == Covered /\ ExecutedWasAsked

\* A summary that does not say "incomplete" is one of a session in which
\* every shard was planned and no check ever stopped the work.
SummaryHonest ==
  summary = "complete" => /\ ~stopped
                          /\ \A s \in 1 .. ShardCount : \E k \in DOMAIN waves : waves[k].shard = s

\* "Stop launching work": once a check has skipped the rest of a wave, no
\* record is sent any more, although the loop over the waves goes on.
StopsLaunching == [][stopped => started' = started]_vars

\* Source text stays out of a run that was planned: with an accepted plan the
\* REPL sees the findings alone, and a rejected plan of planned leaves it the
\* targets of the manifest.
SourceHidden ==
  /\ (pc = "done" /\ waves # <<>>) => view = "findings"
  /\ (view = "domain" /\ arch = "planned") => Records = {}

\* Planning and execution come to an end, or raise.
WorkEnds == <>(pc \in {"done", "raised"})

\* What is said of each record, as CoverageLedger has it.
Said == [r \in Records |-> Latest(r)]

Ledger == INSTANCE CoverageLedger WITH said <- Said

\* The lines of coverage.jsonl tell a legal history of every record: nothing
\* that has an outcome is reopened or told differently later.
KeepsLedger == Ledger!Spec

------------------------------------------------------------------------------
(* A statement of the documentation that the code does not keep.           *)

\* 009: "For planned_waves, a rejected planner shard must not reopen the
\* repository."
RejectedNeverReopens == view = "domain" => arch # "planned_waves"
=============================================================================
