----------------------------- MODULE RuntimeLoop -----------------------------
(***************************************************************************)
(* One call of Runtime.run, at depth 0 or below: the refusals before the   *)
(* REPL exists, planned work, the start of the environment, the iteration  *)
(* loop with its error counters and history, and every way out of it with  *)
(* the resources, spans and artifacts each way leaves behind.              *)
(*                                                                         *)
(* The model's reply is a cell from a small set or no cell at all; a cell  *)
(* may fail, set FINAL, do both, or break the environment.  What a reply   *)
(* or an observation says is kept in one respect: whether it looks like a  *)
(* stub of the history.  Callbacks made by a cell are SubcallTree's        *)
(* subject.                                                                *)
(***************************************************************************)
EXTENDS Integers, Sequences

CONSTANTS
  Codes,          \* cells the model may write
  Marked,         \* those that look like a stub of the history
  NoCode,         \* a reply without an executable fence
  MaxIterations,  \* max_iterations
  MaxErrors,      \* max_consecutive_errors
  KeepRecent      \* HIST_KEEP_RECENT

ASSUME LoopAssumption ==
  /\ NoCode \notin Codes
  /\ Marked \subseteq Codes
  /\ MaxIterations \in Nat \ {0}
  /\ MaxErrors \in Nat \ {0}
  /\ KeepRecent \in Nat \ {0}

Replies == Codes \cup {NoCode}

VARIABLES
  pc,         \* where run() is
  root,       \* depth == 0
  planned,    \* an approved plan is executed before the REPL is built
  turn,       \* iterations whose completion was sent; the loop index i at the top
  consecErr,  \* consec_err
  identical,  \* identical
  lastCode,   \* last_code
  hist,       \* the messages of the parent history
  env,        \* the environment
  workspace,  \* the caller's directory, or a temporary one
  runSpan, modelSpan, cellSpan,  \* trace spans: "none", "open", "closed"
  summary,    \* trace-summary.json: "none", "partial", "complete"
  report,     \* report.html written by this run
  outcome,    \* how the run ended
  cells,      \* the cells executed so far (history variable)
  bad         \* for each finished turn, did it fail? (history variable)

control   == <<turn, consecErr, identical, lastCode, hist>>
resources == <<env, workspace>>
spans     == <<runSpan, modelSpan, cellSpan>>
artifacts == <<summary, report>>
past      == <<cells, bad>>
vars == <<pc, root, planned, control, resources, spans, artifacts, outcome, past>>

\* A text is a stub that compaction wrote, or in full; one in full may still
\* carry the mark by which compaction knows its stubs.
Texts == {"full", "marked"}
Message(role, text) == [role |-> role, text |-> text]
CellText(code) == IF code \in Marked THEN "marked" ELSE "full"

\* Mutant of Compact: one pair too many is kept.
CompactLate(h) ==
  IF Len(h) < 4 THEN h
  ELSE [k \in DOMAIN h |->
          IF 2 < k /\ k =< Len(h) - 2 * KeepRecent - 2 /\ h[k].text = "full"
            THEN [h[k] EXCEPT !.text = "stub"]
            ELSE h[k]]

\* compact_parent_hist: all but the last KeepRecent pairs become stubs, other
\* than what already looks like one; the system message and the query are
\* never touched.
Compact(h) ==
  IF Len(h) < 4 THEN h
  ELSE [k \in DOMAIN h |->
          IF 2 < k /\ k =< Len(h) - 2 * KeepRecent /\ h[k].text = "full"
            THEN [h[k] EXCEPT !.text = "stub"]
            ELSE h[k]]

Init ==
  /\ pc = "boot"
  /\ root \in BOOLEAN
  /\ planned \in IF root THEN BOOLEAN ELSE {FALSE}
  /\ turn = 0 /\ consecErr = 0 /\ identical = 0
  /\ lastCode = NoCode
  /\ hist = <<Message("system", "full"), Message("user", "full")>>
  /\ env = "none"
  /\ workspace \in IF planned THEN {"given"} ELSE {"given", "temp"}
  /\ runSpan = IF root THEN "open" ELSE "none"
  /\ modelSpan = "none" /\ cellSpan = "none"
  /\ summary = "none" /\ report = FALSE
  /\ outcome = "none"
  /\ cells = <<>> /\ bad = <<>>

------------------------------------------------------------------------------
(* Before the loop.                                                        *)

\* An exception outside every try statement: nothing is closed or written.
Refuse ==
  /\ outcome' = "refused"
  /\ pc' = "done"
  /\ UNCHANGED <<root, planned, control, resources, artifacts, past>>

\* A child opens its run span; the instruction and static prompt budgets are
\* checked and may refuse the run.
Boot ==
  /\ pc = "boot"
  /\ runSpan' = "open"
  /\ UNCHANGED <<modelSpan, cellSpan>>
  /\ \/ Refuse
     \/ /\ pc' = IF planned THEN "prelude" ELSE "startup"
        /\ UNCHANGED <<root, planned, control, resources, artifacts, outcome, past>>

\* Planned work is executed and rendered into a workspace of its own.  It may
\* raise, before that workspace exists or, on the prompt built from the
\* findings, after.
Prelude ==
  /\ pc = "prelude"
  /\ UNCHANGED spans
  /\ \/ Refuse
     \/ /\ workspace' = "temp"
        /\ \/ pc' = "startup" /\ UNCHANGED outcome
           \/ pc' = "done" /\ outcome' = "refused"
        /\ UNCHANGED <<root, planned, control, env, artifacts, past>>

\* The environment is built.
Startup ==
  /\ pc = "startup"
  /\ env' = "open"
  /\ pc' = "top"
  /\ UNCHANGED <<root, planned, control, workspace, spans, artifacts, outcome, past>>

\* Building it fails: the abort is traced, the workspace is left.
StartupFails ==
  /\ pc = "startup"
  /\ summary' = "partial"
  /\ report' = root
  /\ outcome' = "startup"
  /\ pc' = "done"
  /\ UNCHANGED <<root, planned, control, resources, spans, past>>

------------------------------------------------------------------------------
(* The loop.  Abort is the except clause; the finally clause is Close.     *)

Abort ==
  /\ outcome' = "aborted"
  /\ summary' = "partial"
  /\ pc' = "closing"
  /\ UNCHANGED report

\* Mutant of TopAborts: the else clause of the for statement is missing.
TopAbortsWithoutElse ==
  /\ pc = "top"
  /\ turn < MaxIterations
  /\ Abort
  /\ UNCHANGED <<root, planned, control, resources, spans, past>>

\* max_iterations, the budget or the prompt guard ends the run between turns.
TopAborts ==
  /\ pc = "top"
  /\ Abort
  /\ UNCHANGED <<root, planned, control, resources, spans, past>>

\* Mutant of Send: while TRUE instead of for.
SendUnbounded ==
  /\ pc = "top"
  /\ turn =< MaxIterations
  /\ turn' = turn + 1
  /\ modelSpan' = "open"
  /\ pc' = "model"
  /\ UNCHANGED <<root, planned, consecErr, identical, lastCode, hist, resources,
                 runSpan, cellSpan, artifacts, outcome, past>>

\* The history is sent to the root model.
Send ==
  /\ pc = "top"
  /\ turn < MaxIterations
  /\ turn' = turn + 1
  /\ modelSpan' = "open"
  /\ pc' = "model"
  /\ UNCHANGED <<root, planned, consecErr, identical, lastCode, hist, resources,
                 runSpan, cellSpan, artifacts, outcome, past>>

\* The completion fails and its span says so.
ModelFails ==
  /\ pc = "model"
  /\ modelSpan' = "closed"
  /\ Abort
  /\ UNCHANGED <<root, planned, control, resources, runSpan, cellSpan, past>>

\* Charging the completion exhausts the budget: record raises before the span
\* is ended.
RecordRaises ==
  /\ pc = "model"
  /\ Abort
  /\ UNCHANGED <<root, planned, control, resources, spans, past>>

\* The turn is over: compaction, then the next iteration.
EndTurn(h) ==
  /\ hist' = Compact(h)
  /\ pc' = "top"
  /\ UNCHANGED <<artifacts, outcome>>

\* The reply has no cell: a reminder, and one more consecutive error.
ParseError(reply) ==
  LET h == hist \o <<Message("assistant", reply), Message("user", "full")>>
  IN /\ pc = "model"
     /\ modelSpan' = "closed"
     /\ consecErr' = consecErr + 1
     /\ bad' = Append(bad, TRUE)
     /\ IF consecErr' >= MaxErrors
          THEN Abort /\ hist' = h
          ELSE EndTurn(h)
     /\ UNCHANGED <<root, planned, turn, identical, lastCode, resources, runSpan,
                    cellSpan, cells>>

\* Mutant of RunCell: the code remembered is not updated by a new cell.
RunCellForgetful(code) ==
  LET repeats == IF code = lastCode THEN identical + 1 ELSE 0
  IN /\ pc = "model"
     /\ modelSpan' = "closed"
     /\ hist' = Append(hist, Message("assistant", CellText(code)))
     /\ identical' = repeats
     /\ IF repeats >= 2
          THEN Abort /\ UNCHANGED <<lastCode, cellSpan, cells>>
          ELSE /\ lastCode' = IF lastCode = NoCode THEN code ELSE lastCode
               /\ cellSpan' = "open"
               /\ cells' = Append(cells, code)
               /\ pc' = "cell"
               /\ UNCHANGED <<artifacts, outcome>>
     /\ UNCHANGED <<root, planned, turn, consecErr, resources, runSpan, bad>>

\* The reply has a cell.  The second repetition of the last one aborts the
\* run before it is executed.
RunCell(code) ==
  LET repeats == IF code = lastCode THEN identical + 1 ELSE 0
  IN /\ pc = "model"
     /\ modelSpan' = "closed"
     /\ hist' = Append(hist, Message("assistant", CellText(code)))
     /\ identical' = repeats
     /\ IF repeats >= 2
          THEN Abort /\ UNCHANGED <<lastCode, cellSpan, cells>>
          ELSE /\ lastCode' = code
               /\ cellSpan' = "open"
               /\ cells' = Append(cells, code)
               /\ pc' = "cell"
               /\ UNCHANGED <<artifacts, outcome>>
     /\ UNCHANGED <<root, planned, turn, consecErr, resources, runSpan, bad>>

\* The environment raises: lost connection, host wait expired.
CellRaises ==
  /\ pc = "cell"
  /\ cellSpan' = "closed"
  /\ Abort
  /\ UNCHANGED <<root, planned, control, resources, runSpan, modelSpan, past>>

\* Mutant of CellReturns: a good cell does not reset the error count.
CellReturnsSticky(error, final, shown) ==
  /\ pc = "cell"
  /\ cellSpan' = "closed"
  /\ bad' = Append(bad, error)
  /\ consecErr' = IF error THEN consecErr + 1 ELSE consecErr
  /\ \/ /\ consecErr' >= MaxErrors
        /\ Abort
        /\ UNCHANGED hist
     \/ /\ consecErr' < MaxErrors
        /\ final
        /\ outcome' = "answered"
        /\ pc' = "closing"
        /\ UNCHANGED <<hist, artifacts>>
     \/ /\ consecErr' < MaxErrors
        /\ ~final
        /\ EndTurn(Append(hist, Message("user", shown)))
  /\ UNCHANGED <<root, planned, turn, identical, lastCode, resources, runSpan, modelSpan,
                 cells>>

\* The cell returns an observation, with or without an error, with or without
\* a final answer.  The error count is looked at before the answer.
CellReturns(error, final, shown) ==
  /\ pc = "cell"
  /\ cellSpan' = "closed"
  /\ bad' = Append(bad, error)
  /\ consecErr' = IF error THEN consecErr + 1 ELSE 0
  /\ \/ /\ consecErr' >= MaxErrors
        /\ Abort
        /\ UNCHANGED hist
     \/ /\ consecErr' < MaxErrors
        /\ final
        /\ outcome' = "answered"
        /\ pc' = "closing"
        /\ UNCHANGED <<hist, artifacts>>
     \/ /\ consecErr' < MaxErrors
        /\ ~final
        /\ EndTurn(Append(hist, Message("user", shown)))
  /\ UNCHANGED <<root, planned, turn, identical, lastCode, resources, runSpan, modelSpan,
                 cells>>

\* Mutant of Close: the workspace is removed on success only.
CloseKeepsOnAbort ==
  /\ pc = "closing"
  /\ env' = "closed"
  /\ workspace' = IF workspace = "temp" /\ outcome = "answered" THEN "removed" ELSE workspace
  /\ report' = (report \/ root)
  /\ pc' = IF outcome = "answered" THEN "finish" ELSE "done"
  /\ UNCHANGED <<root, planned, control, spans, summary, outcome, past>>

\* The finally clause: the environment is closed, a temporary workspace is
\* removed, and the root writes its report.
Close ==
  /\ pc = "closing"
  /\ env' = "closed"
  /\ workspace' = IF workspace = "temp" THEN "removed" ELSE workspace
  /\ report' = (report \/ root)
  /\ pc' = IF outcome = "answered" THEN "finish" ELSE "done"
  /\ UNCHANGED <<root, planned, control, spans, summary, outcome, past>>

\* After the try statement: the root finishes the session's artifacts, a
\* child ends its run span.
Finish ==
  /\ pc = "finish"
  /\ runSpan' = "closed"
  /\ summary' = IF root THEN "complete" ELSE summary
  /\ pc' = "done"
  /\ UNCHANGED <<root, planned, control, resources, modelSpan, cellSpan, report,
                 outcome, past>>

Next ==
  \/ Boot \/ Prelude \/ Startup \/ StartupFails
  \/ TopAborts \/ Send
  \/ ModelFails \/ RecordRaises
  \/ \E reply \in Texts : ParseError(reply)
  \/ \E code \in Codes : RunCell(code)
  \/ CellRaises
  \/ \E error, final \in BOOLEAN, shown \in Texts : CellReturns(error, final, shown)
  \/ Close \/ Finish

Spec == Init /\ [][Next]_vars

\* run() is a sequential program: it goes on until it returns or raises.
FairSpec == Spec /\ WF_vars(Next)

------------------------------------------------------------------------------
(* Properties.                                                             *)

SpanStates == {"none", "open", "closed"}

\* The types of the loop's variables; the history is one system message
\* followed by user and assistant messages.
TypeOK ==
  /\ pc \in {"boot", "prelude", "startup", "top", "model", "cell", "closing",
             "finish", "done"}
  /\ root \in BOOLEAN /\ planned \in BOOLEAN
  /\ turn \in 0 .. MaxIterations
  /\ consecErr \in 0 .. MaxErrors
  /\ identical \in 0 .. 2
  /\ lastCode \in Replies
  /\ hist \in Seq([role : {"system", "user", "assistant"}, text : Texts \cup {"stub"}])
  /\ env \in {"none", "open", "closed"}
  /\ workspace \in {"given", "temp", "removed"}
  /\ runSpan \in SpanStates /\ modelSpan \in SpanStates /\ cellSpan \in SpanStates
  /\ summary \in {"none", "partial", "complete"}
  /\ report \in BOOLEAN
  /\ outcome \in {"none", "answered", "refused", "startup", "aborted"}
  /\ cells \in Seq(Codes)
  /\ bad \in Seq(BOOLEAN)

\* What is sent alternates: after the system message and the query, one
\* assistant and one user message for every finished turn, parse errors
\* included, so a send never ends on the assistant.
HistAlternates ==
  pc = "top" =>
    /\ Len(hist) = 2 + 2 * turn
    /\ \A k \in 3 .. Len(hist) :
         hist[k].role = IF k % 2 = 1 THEN "assistant" ELSE "user"

\* The messages that compaction is for: not the opening two, nor the
\* KeepRecent latest pairs.
Old(k, h) == 2 < k /\ k =< Len(h) - 2 * KeepRecent

\* Anti-rot: a send has stubs for the old messages, other than those whose own
\* text passes for a stub, which stay as they are; none of the other messages
\* is a stub.
HistCompacted ==
  pc = "top" =>
    \A k \in DOMAIN hist :
      hist[k].text # (IF Old(k, hist) THEN "full" ELSE "stub")

\* The two together: what is sent to the root model is a conversation, and no
\* more of it is in full than the window and what imitates a stub.
HistWellFormed == HistAlternates /\ HistCompacted

\* The consecutive-error counter is the number of failed turns since the last
\* good cell, whichever mixture of parse and REPL errors they were, and the
\* run does not go on to another turn with MaxErrors of them.
ErrorsInARow ==
  pc \in {"top", "model"} =>
    /\ consecErr < MaxErrors
    /\ \A k \in 1 .. Len(bad) :
         (k > Len(bad) - consecErr) <=> (\A j \in k .. Len(bad) : bad[j])

\* The stall guard: no cell is executed three times in succession.
NoThirdIdenticalCell ==
  \A k \in 1 .. Len(cells) - 2 : ~(cells[k] = cells[k + 1] /\ cells[k + 1] = cells[k + 2])

\* A session that is over holds no environment, whichever way it ended, and
\* an environment that existed took its temporary workspace with it.
EnvReleased ==
  pc = "done" => /\ env # "open"
                 /\ env = "closed" => workspace # "temp"

\* The root's trace summary tells an answer from an abort.
SummaryTellsOutcome ==
  (pc = "done" /\ root) => ((summary = "complete") <=> (outcome = "answered"))

\* What a session leaves behind when it is over.
SessionLeft == EnvReleased /\ SummaryTellsOutcome

\* Every run ends: the iteration bound and the error counters leave no way to
\* loop forever.
RunEnds == <>(pc = "done")

\* What the loop is to its caller.
Phase ==
  CASE outcome = "answered" -> "answered"
    [] outcome \in {"refused", "startup", "aborted"} -> "failed"
    [] pc \in {"model", "cell"} -> pc
    [] OTHER -> "turn"

Contract == INSTANCE LoopContract WITH phase <- Phase, taken <- turn

\* The loop keeps its contract.
KeepsContract == Contract!Spec

------------------------------------------------------------------------------
(* The inductive strengthening of the invariants above.                    *)

InLoop == {"top", "model", "cell"}

\* The counters are below their limits as long as the run goes on.
Counting == outcome = "none" => consecErr < MaxErrors /\ identical < 2

\* Where run() is determines what it holds and what it has written.
Holding ==
  /\ pc \in {"boot", "prelude", "startup"} => env = "none"
  /\ pc \in InLoop \cup {"closing"} => env = "open"
  /\ pc = "finish" => env = "closed"
  /\ pc = "done" => env = IF outcome \in {"answered", "aborted"} THEN "closed" ELSE "none"
  /\ env = "closed" => workspace # "temp"

Ending ==
  /\ (outcome = "none") <=> (pc \in InLoop \cup {"boot", "prelude", "startup"})
  /\ outcome \in {"refused", "startup"} => pc = "done"
  /\ pc = "finish" => outcome = "answered"
  /\ summary = "complete" => pc = "done" /\ outcome = "answered"
  /\ root /\ pc = "done" /\ outcome = "answered" => summary = "complete"

\* The history at every point of a turn.
HistShape ==
  /\ pc \in {"boot", "prelude", "startup"} => turn = 0 /\ Len(hist) = 2
  /\ pc = "top"   => Len(hist) = 2 * turn + 2
  /\ pc = "model" => Len(hist) = 2 * turn /\ turn >= 1
  /\ pc = "cell"  => Len(hist) = 2 * turn + 1 /\ turn >= 1
  /\ \A k \in 3 .. Len(hist) :
       hist[k].role = IF k % 2 = 1 THEN "assistant" ELSE "user"

\* The loop's bookkeeping as a whole.
IInv == TypeOK /\ Counting /\ Holding /\ Ending /\ HistShape

\* Up to a reply no old message is in full and no other is a stub; the reply
\* makes no message old.
StubShape ==
  /\ pc \in {"boot", "prelude", "startup", "top", "model"} =>
       \A k \in 1 .. Len(hist) :
         hist[k].text # (IF Old(k, hist) THEN "full" ELSE "stub")
  /\ pc = "cell" =>
       \A k \in 1 .. Len(hist) :
         hist[k].text # (IF 2 < k /\ k =< Len(hist) - 1 - 2 * KeepRecent
                           THEN "full" ELSE "stub")

\* The counter is the length of the run of failed turns at the end.
ErrorRun ==
  outcome = "none" =>
    /\ consecErr =< Len(bad)
    /\ \A k \in 1 .. Len(bad) : k > Len(bad) - consecErr => bad[k]
    /\ consecErr < Len(bad) => ~bad[Len(bad) - consecErr]

\* The code remembered is the last cell, and without a repetition counted it
\* differs from the one before.
CellRun ==
  /\ lastCode = IF Len(cells) = 0 THEN NoCode ELSE cells[Len(cells)]
  /\ outcome = "none" /\ identical = 0 /\ Len(cells) >= 2 =>
       cells[Len(cells) - 1] # cells[Len(cells)]
  /\ NoThirdIdenticalCell

\* What the loop's counters and messages say about its past.
PastInv == StubShape /\ ErrorRun /\ CellRun
=============================================================================
