# A formal model of the recursive language model runtime

`rlm` answers a question about a text, a repository or a corpus by letting a
language model write Python cells in a REPL. A cell can call back into the
host: `llm_query` asks a leaf model, `rlm_query` starts a child runtime with a
REPL of its own, and the batched forms run several of either on a thread pool.
One budget of money and time covers the whole tree of calls. Optionally the
question is planned first: a census of records is cut into shards, a planner
model selects records of each shard, and the selected records are worked off
before a last run renders the findings.

This directory holds TLA+ modules that model those parts, TLC configurations
that check them on small instances, and TLAPS proofs for every value of the
constants. Paths below are relative to the repository.

## 1. Inventory

| Component | State | Operations | What is hard | What makes it correct |
|---|---|---|---|---|
| Budget (`rlm/core/budgets.py`) | `max_usd`, `deadline`, `spent_usd`, token, iteration and sub-call counters | `check`, `record`, `inherit`, `remaining_*` | one account written by several threads; check and charge are apart | no charge lost, bounded overspend, final usage |
| Sub-calls and recursion (`rlm/core/runtime.py` 680-1044) | a runtime per call, its lock, its pools | `callback`, `callback_batch`, `batched`, `leaf_complete`, `child_rlm` | interleavings of workers, nesting, failures between charge and fold | conservation, every callback answered, no starvation |
| Runtime loop (`rlm/core/runtime.py` 119-493) | history, error and stall counters, environment, spans | one iteration; five ways out | what each way out releases and writes | alternating history, exact counters, resources released |
| History policy (`rlm/core/history.py`) | none (pure) | `compact_parent_hist`, observations, nudges | relies on the shape the loop maintains, knows its stubs by their words | old pairs are stubs, or texts that look like one; recent pairs are not stubs |
| Planned work (`rlm/core/runtime.py` 495-662) | findings, `coverage.jsonl`, `findings.jsonl`, `reductions.jsonl`, summary | `execute_planned_work`, `_reduce_findings`, `_write_planned_waves_summary` | exhaustion between records and inside calls, rounds until a fixpoint | each record once, coverage tells what happened |
| Architectures and planner (`rlm/core/architecture.py`, `planner.py`) | shards, accepted plans, fallback targets | `prepare`, `_shards`, `parse_plan`, `resolve_targets` | untrusted plan, rejected shards | selections inside their shard, no reopened source |
| Public API (`rlm/api.py`) | the planning budget | `completion`, `ask_repo`, `research`, `_plan` | the budget is shared by planning and the run | what the run is given matches the plan |
| Scope manifests (`rlm/domains/scope.py`) | caps, truncation flags, digests | `build_*_scope`, `build_*_census`, `scope_slice` | several caps with a boundary each | records unique and ordered, truncation told |
| Domains (`rlm/domains/repo.py`, `corpus.py`) | targets | reads, searches, clones with targets | narrowing by clones | a read stays inside the targets |
| REPL namespace (`rlm/repl_ns.py`) | names, FINAL, alarm | `execute`, reserved names, callbacks | alarm paused during callbacks, FINAL across cells | FINAL answers once, time is accounted |
| Docker environment (`rlm/environments/docker.py`, `docker/repl_server.py`, `rlm/ipc.py`) | container, control channel, callback server | `execute`, `_serve_request`, `close` | two channels, host timeouts, lost containers | one answer per request, no late effects |
| Trace log and trajectory (`rlm/logging/trace.py`, `trajectory.py`) | spans, sequence numbers, artifact manifest | `start`, `end`, `abort_trace`, `capture_content` | writers on several threads, aborts below a finished root | spans balanced, artifacts consistent |
| Configuration, command line | values | load, merge, map errors to exit codes | boundaries | ranges (they are the assumptions on the constants) |
| Prompt guard, reply parser, prompts, backends, HTML report, evaluations | none | text processing, network, rendering | | see section 7 |

How they interact: `RLM.ask_repo` and `RLM.research` build the scope, let an
architecture plan it with the session's `Budget`, and call `Runtime.run` once
with that budget. `Runtime.run` executes accepted plans, builds an environment
and iterates. A cell running in the environment reaches back through
`RuntimeHandler` or the callback server, on threads of the host, into
`leaf_complete` and `child_rlm` of the same `Runtime`; `child_rlm` inherits a
budget, calls `Runtime.run` of a child, and folds the child's accounts under
the parent's lock. All runtimes share one trajectory logger.

The hazards this gives are listed in `PROJECT.json`, each at its line, with
the properties that watch it.

## 2. Modules

| Module | Models | Role |
|---|---|---|
| `SubcallTree` | `Budget`, `callback*`, `batched`, `leaf_complete`, `child_rlm`, the loop as its callbacks see it | state machine |
| `RuntimeLoop` | `Runtime.run` with all its exits, `compact_parent_hist` | state machine |
| `LoopContract` | what a runtime promises its caller | abstract specification of both |
| `PlannedWork` | architectures, planner calls, execution of plans, coverage, summary | state machine |
| `CoverageLedger` | what coverage promises about each record | abstract specification of `PlannedWork` |
| `Reduction` | the rounds of `_reduce_findings` | state machine; one step of `PlannedWork` |
| `Packing` | the greedy cut of shards and batches | pure operators |
| `ScopeScan` | `build_repo_scope`, `build_corpus_scope`, `_manifest`, their four caps and flags | state machine |
| `TargetScope` | the manifests of a stack of runtimes, and every operation they restrict | state machine |
| `RepoView`, `CorpusView`, `Slices` | what a manifest lets through and what a slice selects, in lines and in characters | pure operators |
| `CellProtocol` | one `DockerEnv`: host, REPL server, cell timer, callback connections | state machine |
| `TraceLog` | trace, summaries, spans, tool events, content capture of a run and its children | state machine |
| `MC*` | | instances for TLC |
| `*_proofs` | one for each of `SubcallTree`, `RuntimeLoop`, `TargetScope`, `CellProtocol`, `PlannedWork`, `Reduction` (with `Packing`), `ScopeScan`, `TraceLog` | theorems and proofs |

How they fit together. `SubcallTree` sees a runtime as phases of `LoopContract`;
`RuntimeLoop` shows that `Runtime.run` has these phases. The step `prelude` of
`RuntimeLoop` is what `PlannedWork` does, and the reduction step of
`PlannedWork` is what `Reduction` does, both cut by `Packing`. `ScopeScan`
makes the records `PlannedWork` plans on, and `TargetScope` starts from the
targets the api hands to the run. A cell, one step in `RuntimeLoop`, is what
`CellProtocol` runs; the host's threads it starts are the workers of
`SubcallTree`, and the records both write are `TraceLog`.

### SubcallTree

A node is the root runtime or a call; a call whose child was launched is a
runtime too. A call moves through the stages of `leaf_complete` or
`child_rlm`: queued in a pool, taken by a worker (at most `MaxConcurrent` per
runtime, each runtime with pools of its own as in `batched`), checked, sent,
replied, waiting for `_budget_lock`, charged. The charge takes two steps:
`Acquire` loads `spent_usd` (`seen`) and `ChargeLeaf` or `FoldChild` stores, so
that a charge outside the lock would be lost in the model as it would be in the
code. The loop charges its own completion without the lock (runtime.py:283) in
one step. `HostWaitExpires` is the Docker host that gives up waiting for a cell
whose callbacks still run; `ContainerDies` loses a container in a cell;
`DeadlinePasses` makes a budget late, and late for good. A child inherits what
remains at the time of `Inherit`, and a timeout of zero at that moment raises
in the child's configuration (`LaunchRaises`).

Amounts are whole units of cost. The token counters are charged in the same
statements as `spent_usd` and are left out. `billed` is a history variable. The
second check of a child that is degraded to a leaf at the depth cap is merged
with the first, because exhaustion is monotone. A session without a cap behaves
like one whose `MaxUsd` exceeds all possible costs. Cells that start threads of
their own are outside this model (they are in `CellProtocol`), as is
`KeyboardInterrupt`.

### RuntimeLoop

`pc` names the point of `Runtime.run`: `boot` (refusals), `prelude` (planned
work as one step that may raise), `startup` (environment), `top`, `model`,
`cell`, `closing` (the `finally` clause), `finish`, `done`. A reply is a cell
of a small set or has none; a cell may fail, set FINAL, do both, or break the
environment. A text is `full`, a `stub`, or `marked`: one that `_already_compacted`
takes for a stub by its words (history.py:183-185), so that `Compact` leaves it
as it is; replies and observations may be either. The workspace, the environment, the trace summary and the report
are variables, so each way out shows what it leaves behind. `cells` and `bad`
are history variables for the stall guard and the error counter.

### PlannedWork and Reduction

Records are `1 .. N` in manifest order; `weight` is what a record adds to the
planner's prompt beyond its fixed part; `large` records have the route
`child`. `PlanAccepted` takes every reply a planner can make and that
`parse_plan` accepts (`Valid`); `PlanRejected` stands for every exception
`RLM._plan` catches. Execution goes record by record: the check at the top of
the loop (`SkipRest`, `TakeItem`), the second check and the prompt guard of the
callee (`CallRefused`, `CallUnsendable`), the completion (`CallStarts`), its
text (`CallReturns`) and the exceptions that leave `Runtime.run`
(`CallRaises`). The status of a record is decided by the words of the text that
comes back, so a text is one of four kinds. `coverage` is the sequence of lines
of `coverage.jsonl`. `started` and `stopped` are history variables.

In `Reduction` a text has a size, the set of findings it covers, and a `shade`
that tells two texts of equal size and cover apart, since the loop compares
texts to find its fixpoint. A summary keeps what its batch covers, is cut to
the output limit (`Truncate`), or is the text of an error (`Fail`); the charge
of the call that exhausts the budget raises.

### ScopeScan

One step visits one file or document. What the question's filters select in it
is part of the input; the model is about what the four caps do. The walk of the
syntax tree, the append of records and the file record each compare with their
cap at a place of their own, and so do the model's `Visited`, `Appended` and
the last test of `ScanFile`. `metadata` caps the number of records here, as
the bytes of a record prefix grow with its length.

### TargetScope

A runtime is its `view` (a set of targets, or `None`) and the way it came by it;
`stack` is the runtimes at work, each waiting for the one above it. Operations
are the ones a cell can call: reads with line or character bounds, searches,
listings, `ask`, `explore` and `rlm_query`. `RepoView` counts lines from 1 and
both bounds in, `CorpusView` characters from 0 and the end out; both compare a
bound as it was given, and the slice that follows clamps or wraps negative ones
as Python does (`Slices`). So a read whose end counts back from the end of the
text (`repo.read(p, None, -1)` too) passes the check of a bounded target and
shows what follows it; the answer's `how` tells such reads, reads with an end
that counts from the start, searches (which show whole lines) and listings
apart. `read` is a history variable: what the ask that launched a runtime had
read.

### CellProtocol

The host's side (`host`, `errors`, `sent`), the server in the container
(`server`, `span`, the namespace's `final` and `answer`), the SIGALRM timer in
ticks, and the connections of callbacks: `call[c]` goes from `got` (the timer
was read) over `sent` and `set` (the handler's shared context was written) to
`ok` or `cut` (a frame above the limit). A tick is long: none falls between
`getitimer` and `setitimer`. A call whose caller left goes on at the host;
`orphaned` remembers that there was one.

`run_cell` waits for no thread of the cell: `EndCell` switches the timer off and
sends the observation while workers may be in a call, whose `pause_alarm` then
arms the timer between the cells or in the next one. A thread that is left may
also call, and set FINAL or `answer`, after its cell; `outlived` remembers that
one did. The signal of a timer that runs out between cells meets the default
handler, which ends the process (`Killed`), or is dropped when the server is the
first process of its container; both are modelled. `Exit` is a cell that raises
`SystemExit` or another exception that `run_cell` does not catch
(repl_ns.py:494): the server closes its socket, and the host's next write or
read fails (`ConnectionLost`). `used`, `shared`, `fired`, `orphaned`, `outlived` and
`booked` are history variables.

### TraceLog

The log is kept as what `validate_trace` and `summarize` make of it. The root
loop, the worker threads of one call and their child runs append under the
writer's lock; everything else they do interleaves: reading the log and
writing the summary are two steps, capturing content is five (look at the cap,
write the file and count it, read the manifest, write it back, go on), and a
manifest that another thread has just truncated reads as empty. A child runs
one turn.

A cell makes at most one call, which begins while the cell runs. Nobody waits
for it: when the host stops waiting for the cell (`CellRaises`), and when the
cell returns with the call unanswered (`CellReturns`, which `CellProtocol`'s
timer and threads make possible), it goes on beside the loop, and beside a run
that has answered. `left` tells that the last cell returned in this way. The next
call begins when the one before has ended.

A root or a child may be refused between the start of its run span and its loop
(`Refused`, `ChildRefused`: runtime.py:143-156), a charge may raise between a
reply and the end of its span (`ModelFails`, `SlotModelFails`: runtime.py:283 and
866), and overlapping calls of one tool cut each other's spans off (`Cut`). All
leave spans open; `broken` remembers them. At most `MaxCalls` cells bring tool
events. A summary is written in one step: when two writers are at it, the last
one's text stands, and torn files are not modelled.

## 3. What the runs check

Passing runs (numbers are distinct states):

| Run | Instance | Shows |
|---|---|---|
| `subcalls_batch` | 3 callbacks, cap 4, costs 1 and 2, deadline, depth 1, pool of 2, 2 turns; 604 000 | `Conservation` (every completion is in exactly one account or in a worker's hands), `OverspendBounded`, `SpentOnlyGrows`, `UsageIsFinal`, `AllKeepContract` |
| `subcalls_live` | 3 callbacks, cap 3, costs 1 and 2, deadline, depth 2, pools of 1; 513 000 | nested pools: `CallsAnswered`, `SessionEnds` |
| `loop` | 2 cells, one of which looks like a stub, 5 turns, 3 errors, 2 recent pairs; 1 189 000 | `HistWellFormed` (alternation and compaction at every send), `ErrorsInARow`, `NoThirdIdenticalCell`, `SessionLeft` (environment, workspace and summary at each way out); refinement `KeepsContract`; `RunEnds` |
| `planned` | 3 records of weight 1 or 3, shard target 2, prompt limit 3, up to 2 selections, 1 child; 401 000 | `TypeOK`, `ShardsFit`, `WorkedOnce`, `CoverageTrue`, `SummaryHonest`, `SourceHidden`, `StopsLaunching`; refinement `KeepsLedger`; `WorkEnds` |
| `reduce` | 3 findings of size 1 or 3, summaries up to 2, targets 1 and 4, no budget or 0 or 4 calls; 191 000 | `NothingDropped` (the report is rendered from a text that covers every finding), `RoundsEnd` |
| `scan` | up to 3 files with up to 2 declarations, or documents with up to 2 matches; each cap 1, 2 or none; 62 000 | `ManifestWellFormed`, `UnflaggedIsComplete`, `CorpusFlagsExact`, `CapsKept` |
| `scope` | a file of 3 lines (4 characters) and one of 1, bounds -1 to 4 and none, 6 manifests, leaves up to 1 character, depth 2; 12 000 | `AnswersWithin` (what a read shows, against every runtime above, and which way round a range there is), `NarrowsUnlessNamed` (and an ask's child reaches what was read), `ScopedStaysScoped` |
| `cell` | main thread and one worker, limit of 2 ticks, 2 cells, 2 calls, 2 errors; 890 000 | `TimerRight` (a cell computes for its limit, over all its calls; the one way the timer can be on between cells), `AnswerOfLastCell`, `BookedUnderItsCell`, `CallsSettle`, `CellsEnd` |
| `trace` | 2 slots, 2 turns, 1 call, 1 cell with tool events, a cap of 1 artifact; 5 777 000 up to symmetry | `TraceValid`, `SpansClosed` (what is open in the trace of an answered run, and why), `SummaryFinal` (complete and of the whole log, and what a call left by the last cell may do to it), `ArtifactsKept` |

Why the bounds are enough. Two workers are the least that can race for an
account, and a third call is nested below one of them or waits for the pool;
cap 4 with costs 1 and 2 lets a charge stay below, meet and overshoot the cap,
and leaves a remainder of one to inherit. Five turns with two recent pairs let
three pairs become stubs, three errors can be mixed with good cells between
them, and two cells are enough for a stall and for the reset of it. Three
records make one, two or three shards, one of them above the target when its
weight is 3, plans of one and two records, and waves that end or are cut off
before, between and after one another. Three findings make batches of one and
of two; the small target takes no two summaries, the large one does, and four
calls are spent in the middle of a second round. Three items put each cap below,
at and above what there is, in the middle of a file and between files. Depth 2
has a grandchild that must not reach past its grandparent; a file of three
lines has a proper inside, both its edges, and bounds on both sides of them.
Two calls are at once, one after the other, or one that the first cell left
open beside one of the second, with a timer that can be stopped with a tick
left; two cells let a text or a thread of the first survive into the second. Two slots are a child that aborts beside a leaf, and two captures that
pass the cap together; the second turn finds what the first cell left running.
Symmetry (`subcalls_batch`, `trace`) permutes calls and slots, which no property
tells apart, and is used for safety only.

Runs that end in a violation each state one sentence of the documentation or
the specification and show the code doing something else; `PROJECT.json` quotes
the sentence:

| Run | What happens |
|---|---|
| `rejected_never_reopens` | with all shards rejected, `planned_waves` runs on the whole domain |
| `truncation_told` | a file record that meets the record cap ends the scan and sets no flag: the manifest looks complete and is not |
| `paused_during_calls` | two threads of a cell call the host; the first answer starts the timer while the other still waits |

Other disagreements seen while modelling, in the models but without a run:

* A child that raises is not folded into its parent (runtime.py:948;
  docs/runtime.md:186), and one whose charge exhausts the budget raises before
  its text is returned: the completion is paid for and its answer dropped.
* A refused run and one whose environment fails to start keep their temporary
  workspace (runtime.py:224; docs/python-api.md:77), and an exception before
  the `try` statement leaves no `trace-summary.json` (runtime.py:146;
  .spec/004:130).
* A completion whose charge raises never ends its model span (runtime.py:283;
  .spec/004:195); a child degraded to a leaf at the depth cap loses its parent
  span (runtime.py:915).
* A record that was sent can be marked skipped, by the words of its answer
  (runtime.py:542), and records after a leaf whose charge raises are never
  marked (runtime.py:522; both .spec/009:175).
* A child that names targets gets them whatever its parent's are
  (runtime.py:1012; docs/architecture.md:83-84), and one that names none gets
  its parent's, not "the full-domain compatibility view" (docs/runtime.md:183).
  `NarrowsUnlessNamed` says how far narrowing goes.
* An empty list of targets does not fail before launch (docs/domains.md:74,
  docs/repl.md:57): it launches a child that may read nothing, which is what
  `ScopedStaysScoped` shows.
* Reads whose end is negative, of a corpus and of a repository
  (`repo.read(p, None, -1)`: repo.py:420), and searches, which show whole lines,
  can show text outside the ranges that "enforce" the view (docs/domains.md:74
  and :155). `AnswersWithin` says that nothing else can, and that what they show
  follows the start of a range of the same document.
* A reply or an observation whose first 120 characters look like a stub is
  never replaced by one (history.py:183-185; docs/runtime.md:97 says older pairs
  are); `HistWellFormed` says that nothing else stays.
* The callback context is one field for all connections (docker.py:117): a call
  that its cell left writes it while the next cell's calls read it, and they are
  recorded under the wrong cell. `BookedUnderItsCell` says that no other call is.
* A call that its cell left goes on when the run has answered: its spans are
  open in a complete trace, and a child of it that aborts replaces the complete
  `trace-summary.json` by a partial one (trajectory.py:251). `SpansClosed` and
  `SummaryFinal` say that nothing else does.
* A repository manifest can have one record more than its cap
  (scope.py:243; docs/runtime.md:45); `CapsKept` allows for it. The digest and
  the token estimate of a record are made from a slice by characters with line
  numbers (scope.py:229).
* `manifest.json` can lose entries under concurrent captures: `ArtifactsKept`
  only says that what is named exists.
* A reduction that reaches its fixpoint with several texts returns the first
  of them, and a leaf that fails puts its error text in the place of the
  findings; `NothingDropped` is about the other cases. Without a budget, and
  with a target below two summaries, rounds of texts that keep changing need
  not end; `RoundsEnd` is about the other cases.
* The buffer of tool events is called bounded (runtime.py:733) and is not.

## 4. Fairness

* `SubcallTree`: weak fairness of each runtime's loop and of each worker.
  Threads are scheduled by the operating system, the client has a timeout for
  completions, and a cell's local code runs under an alarm. Nothing is assumed
  of `HostWaitExpires`, `ContainerDies` and `DeadlinePasses`.
* `RuntimeLoop`, `Reduction`: weak fairness of `Next`; both are sequential
  programs whose calls return or raise.
* `PlannedWork`: weak fairness of `Advance`, again one thread; time need not
  pass. The reduction, one step here, ends by `RoundsEnd`.
* `CellProtocol`: weak fairness of the server (`StartCell`), the timer (`Tick`),
  the host's loop (`Observe`), the host's threads (`ReadRequest`, `Handle`), the
  calling side (`PauseTimer`, `CallReturns`), the host's wait when it has a
  limit, of a lost connection being noticed (`ConnectionLost`: the read or the
  write on it raises), and of what is raised being caught or ending the cell.
  Nothing is assumed of the code of a cell: it may compute forever, and catch
  its own timeout forever. `CellsEnd` names these two cases, in a run without a
  time limit, as the only ones in which the host waits for good.

No strong fairness is used: a worker waiting for a lock gets it because
every other worker takes it once. `ScopeScan`, `TargetScope` and `TraceLog`
state safety only.

## 5. What is proved

`SubcallTree_proofs` (assumption `SubcallAssumption`: distinct identities,
finitely many calls, a natural cap, natural costs of which one is the highest,
positive pool and turn limits; a session makes finitely many calls, and a
completion is bounded by its tokens). `SpentOnlyGrows` is not inductive: that a
store under the lock does not lower an account needs what was loaded to be
still current, which needs that the lock is held by the storing worker, that
the loop does not write meanwhile (`LoopAlone`), and that a runtime whose loop
is between cells has no callback. `IInv` says this in parts: `Owned`,
`NotYetRun`, `BelowCap`, `Quiet`, `LockHeld`, `SeenCurrent`. The proof has a
lemma per group of actions (`LoopStep`, `SubmitStep`, `WorkerStep`) with one
step per action.

* `Inductive`, `TypeCorrect`: `IInv` and `TypeOK` are invariants.
* `LoopIsAlone`, `NoLostUpdate`, `FinalUsage`: the loop's charge meets no
  callback, `SpentOnlyGrows` and `UsageIsFinal`, for any number of calls, any
  pool size, any costs and caps.
* `EachKeepsContract`, `RootImplements`: every runtime of the tree, and the
  root as a specification, implement `LoopContract`.
* `NoMoneyLost`: `Conservation`. With `IInv` it needs `Settled`, what the stage of
  a call says of its kind and of its run: a child is folded only once it has
  answered, and is done from then on. Four steps move money (`RecordTurn`,
  `Reply`, `ChargeLeaf`, `FoldChild`), each with a lemma that says from which of
  the two sums to which.
* `OverspendIsBounded`: `OverspendBounded`. A call that has passed
  `budget.check` is a claim on the account of its runtime (`Claim`): the dearest
  completion for a leaf, the limit of the child's own cap for a child.
  `Bounded` says that what is spent and what is claimed stay within the limit
  together. The step that matters is a new claim (`FitsGranted`): it is made
  below the cap, beside at most one claim less than the pool has workers, and
  a child inherits what is left and not more; the arithmetic is in
  `LimitLeaf`, `LimitPool` and `LimitChild`. Paying a claim (`FitsPaid`) moves it
  from one summand to the other.

Both stand on laws of the sum over a set of accounts (`SumAdd`, `SumRemove`,
`SumCharge`, `SumLess`, `SumAtMost`). A sum of naturals is the number of its units
(`SumIsCount`), so these are laws of cardinalities; that the fold of the library
computes it, and that powers are what they should be, follows from the least
set, or the least number, at which it would not (`Least`).

`RuntimeLoop_proofs` (assumption `LoopAssumption`). `IInv` adds to the types
`Counting` (the counters are below their limits while the run goes on),
`Holding` (what is held at each `pc`), `Ending` (how an outcome is reached) and
`HistShape` (the length and the roles of the history at each point of a turn).
On it stands a second invariant, `PastInv`: after any number of compactions an
old message is a stub or has a text that passes for one, and a recent one is
never a stub (`StubShape`), that the error counter is the length of
the run of failed turns (`ErrorRun`), and what the stall guard remembers
(`CellRun`).

* `CompactKeepsRoles`: compaction keeps the length and the roles of any
  history.
* `Inductive`, `TypeCorrect`, `Past`: `IInv`, `TypeOK`, `PastInv`.
* `WellFormed`, `ErrorsCounted`, `NoThird`, `Left`: all safety properties of the
  run `loop`, for every bound and window.
* `Implements`: `RuntimeLoop` implements `LoopContract`.

`TargetScope_proofs` (assumption `ScopeAssumption`: documents have a length and
line starts, targets are not confused with `None`). The properties together
with the types are inductive; the work is in the lemmas about ranges
(`RepoReadWithin`, `CorpusReadWithin`): that a range let through by comparing
its bounds, the end counted from the start, selects only positions inside a
target, although the slice clamps or wraps them and missing bounds stand for the
ends of the document. For negative ends and for searches, `ReadFromStart` and
`SearchFromStart` say that nothing before a range is shown. `AskExact` says that
the slice an ask reads is the extent of the target it hands on, and `AskNarrows`
that this target is within the caller's.

* `Contained`, `Narrows`, `StaysScoped`: the three properties of the run `scope`,
  for documents of any length, any bounds, manifests and depth.

`CellProtocol_proofs` (assumption `CellAssumption`). The invariants fail to be
inductive because they leave out where the host is when the server runs
(`Control`), for which cell the namespace may speak (`Speaking`), that a busy
thread has a call of its own, and of the current cell until a thread goes on
after its cell (`Calling`), that among threads that call one at a time the
timer's value is in `alarm` or in one `saved` (`Timing`), and that a call which
is being served has a caller unless one was left (`Booking`). `KilledStep` is the
end of the server's process, by the host or by the timer, and `Closing` treats the
ways a session is closed together; the other lemmas take one action each.

* `Inductive`, `TypeCorrect`, `Timer`, `LastAnswer`, `Booked`: `IInv`, `TypeOK` and
  the three safety properties of the run `cell`, for any number of threads,
  cells and calls, any limit.

`Reduction_proofs` (assumption `ReductionAssumption`) begin with the greedy cut of
`Packing`: it is defined by recursion over the items, and what it does step by
step (`CutSteps`) gives the shape of its groups. `PlannedWork_proofs` takes these
theorems from an instance of the module.

* `GroupsConsecutive`: groups are numbered from one, in the order of the items,
  without a gap.
* `CutAlwaysFits`: `CutFits` for any items, weights and target, the property of
  shards and of batches of findings alike.

On them stands `RInv`: the texts of a round say what all findings say (`Kept`),
the summaries so far are of the first batches (`Summed`), and with room for two
summaries the loop ends on one text (`Ended`). A round is over when the next
batch does not exist; since batches have no gap, every text was in one
(`InBatch`). The loop also ends when a round changed nothing; with two texts or
more that takes as many batches as texts, so the second text did not fit beside
the first (`AllAlone`), and both are summaries.

* `Inductive`, `TypeCorrect`, `AllSaid`: `RInv`, `TypeOK` and `NothingDropped`, for
  any findings, sizes, targets and budget. `RoundsEnd` is liveness.

`PlannedWork_proofs` (assumption `PlannedAssumption`). `PInv` has six parts:
`Typed`; `PlansOK` (an accepted plan lists records of its shard, each once, and
no shard has two plans), so that a record has one position in the waves;
`Phases` (where the position is at each `pc`); `Views` and `Found` (what is shown,
and that findings are records behind the position); `Told` (what is behind the
position has an outcome, the rest is still as planned). `Latest`, the status
the coverage says last, is reasoned about through `LatestExtended`: what a block
of new lines does to it. The steps that settle records (answers, failures,
skips, a raise) share the lemma `Settled`.

* `Inductive`, `TypeCorrect`, `ShardsAlwaysFit`, `Once`, `CoverageIsTrue`,
  `HonestSummary`, `Hidden`, `LaunchesStop`: every safety property of the run
  `planned`, for any census, weights and limits.
* `LedgerKept`: `PlannedWork` implements `CoverageLedger`: the lines of the
  coverage tell each record a legal history.

`TraceLog_proofs` (assumption `LogAssumption`). None of the properties is
inductive alone: that a span ends once needs that whoever ends it has it open.
`TInv` says who owns what: `Looping` and `Fresh` for the root loop (the spans it
has open at each point, and that those to come are not in the log yet),
`Serving` for the callback, `Working` for each slot of a batch, `OpenOnly` for
the converse (what is open is in work, was aborted, or is where something broke
off), `Cutting` for tool calls that another is about to cut off, `Beside` for how
far the loop may get ahead of a call it left, `Summed` for the summary, and `Stored` for the artifacts,
which counts the slots that are between the test of the cap and their write.
There is one lemma for each action.

* `Inductive`, `TypeCorrect`, `LogIsValid`, `SpansAreClosed`, `SummaryIsFinal`,
  `ArtifactsAreKept`: every property of the run `trace`, for any number of
  slots, turns and calls and any cap.

`ScopeScan_proofs` (assumption `ScanAssumption`: a cap is a number or
`Uncapped`, and a document gives at least one record, the whole of it when
nothing matches). What a scan ought to have found is `Inventory`, the records of
the items one after the other; `Prefixes`, the recursion behind it and behind
the declarations of a file, is shown to have a solution that grows with every
sequence that is not empty (`PrefixesAre`, `PrefixesGrow`). `SInv` adds to the
types and the order of the records: `Roomy` (a scan that goes on is within the
records cap; only a file record passes it), `Complete` (while no flag is set the
records are the inventory of what was visited, unless the records of a
repository fill their cap) and `Short` (the records of a corpus with a flag are
fewer than its census). That a step leaves nothing out without a flag is the
work of `AppendedIs`, the arithmetic of the break inside the loop over
declarations, and of the lemma of each action.

* `ScanKeepsInvariant`: `SInv`.
* `IdentifiersMeanOneTarget`, `NothingLeftOutInSilence`, `CorpusFlagsTellTheTruth`,
  `CapsAreKept`: every safety property of the run `scan`, for any items, any
  filters and any caps, zero included. `TruncationTold`, which the run
  `truncation_told` refutes, differs from what is proved by the one case
  `Complete` excepts.

Every inductive invariant was checked by TLC as an invariant of the run of its
module before it was proved. Induction has no rule the installed provers can
instantiate; where a proof needs it, it takes the least number at which the
claim would fail, which `NatLessThanWellFounded` and `WFMin` of the library
provide.

## 6. What is only model-checked

* Liveness (`CallsAnswered`, `SessionEnds`, `RunEnds`, `WorkEnds`, `RoundsEnd`,
  `CallsSettle`, `CellsEnd`): reasoning from fairness is outside the prover's
  reach.
* `RepoView`, `CorpusView` and `Slices` are proved about only as `TargetScope`
  uses them.

## 7. What is not modelled

* The HTML report, prompts and evaluations are text and rendering; only
  whether the report is written is a variable.
* Backends are external: a completion arrives with a cost, or fails.
* Configuration is read and merged once, before a run; its ranges are the
  assumptions on the constants. The command line keeps no state.
* The prompt guard's counting and the parser's extraction are
  nondeterministic outcomes: a prompt is refused or not, a reply has a cell or
  has none.
* Ingestion, ignore rules, text detection and AST extraction in the domains
  decide what a file is; `ScopeScan` takes the result as input.
* `FakeEnv` runs cells in the host's process, without a timer or sockets.
* In `CellProtocol`: a signal between `getitimer` and `setitimer`, which would
  lose the rest of the timer.
* Threads that a cell starts, and calls that it leaves, are in `CellProtocol` and
  `TraceLog`, not in `SubcallTree`: there a cell waits for its calls unless it is
  lost, so `LoopIsAlone` and what is said of the accounts hold for cells without
  threads of their own. A call left by such a thread would charge beside the
  loop's unlocked charge (runtime.py:283).
* Four hazards of `PROJECT.json` have no property, because what a property would
  forbid is what the code does: a failed environment start (runtime.py:224), the
  shared callback context across cells (docker.py:117), records left selected
  by a leaf that raises (runtime.py:522), and a failed reduction call
  (runtime.py:607). The models have these steps, the properties except them by
  name, and section 3 lists them.
* In `TraceLog`: `errors.jsonl` and the terminal output, which are appended and
  never read; and what a summary counts (the summary of a complete run counts
  the tokens and the cost of its root twice, as they are on the model spans and
  on the run's end).

## 8. Plan

1. *Done*: `SubcallTree`, `RuntimeLoop`, `LoopContract`, `PlannedWork`,
   `CoverageLedger`, `Packing`; `Reduction`, `ScopeScan`, `TargetScope`,
   `CellProtocol`, `TraceLog`; the proofs of section 5.
2. *Done*: the proofs about `Packing`, `PlannedWork`, `Reduction`, `TraceLog` and
   `ScopeScan`; conservation and the bound on overspending of `SubcallTree`. With
   them every safety and action property of the passing runs is a theorem.
3. That the step `Reduce` of `PlannedWork` abstracts `Reduction`; what
   `RepoView` and `CorpusView` let through, as theorems of their own.
