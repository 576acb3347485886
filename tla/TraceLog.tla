------------------------------ MODULE TraceLog ------------------------------
(***************************************************************************)
(* The record a run leaves behind: trace.jsonl, written by the loop of the *)
(* root run and by the threads that work on its calls, trace-summary.json, *)
(* rewritten by whoever finishes or aborts, and the artifacts that content *)
(* capture adds.  A cell makes one call, of one slot or of a batch; each   *)
(* slot is a leaf call or a child run of one turn.  Nobody waits for the   *)
(* threads of a call: they go on alone when the host stops waiting for the *)
(* cell, and when the cell returns without its answer.  A call begins      *)
(* while its cell runs, and the next one when it has ended.                *)
(*                                                                         *)
(* The log is kept as what validate_trace and summarize make of it: its    *)
(* length, the spans started, the ends of each, the faults found so far.   *)
(***************************************************************************)
EXTENDS Integers, Sequences, FiniteSets

CONSTANTS Root,      \* the root run; not a slot
          Slots,     \* the slots of a batch
          MaxTurns,  \* max_iterations
          MaxCalls,  \* bound on the cells that make a call, and on the cells
                     \* that bring tool events
          Cap        \* artifacts a run may keep: _artifact_limit, in items

ASSUME LogAssumption == /\ Root \notin Slots /\ Slots # {} /\ IsFiniteSet(Slots)
                        /\ MaxTurns \in Nat /\ MaxCalls \in Nat /\ Cap \in Nat

Turns == 0..MaxTurns
Tools == 1..4                  \* the tool events of a cell that are modelled
\* A span is named by what it covers; the code draws a fresh identifier.
Spans == ({"run", "model", "cell", "callback", "batch", "leaf"}
            \X Turns \X (Slots \cup {Root}))
         \cup ({"tool"} \X Turns \X Tools)
RootRun == <<"run", 0, Root>>

\* What trace_tool can have left in _trace_events, for one name: nothing, a
\* call, two calls one after the other, two that overlap, one not returned.
Buffers == { << >>, <<"start", "end">>, <<"start", "end", "start", "end">>,
             <<"start", "start", "end", "end">>, <<"start">> }

VARIABLES
  length,    \* TraceWriter._seq
  started,   \* spans with a span_start
  ends,      \* ends[s]: span_end records of s
  faults,    \* what validate_trace finds
  summary,   \* trace-summary.json: [status, length], the log it was made from
  turn,      \* the turn of the root run
  root,      \* where its loop is
  buffer,    \* the tool events of the cell that are still to be recorded
  pending,   \* _record_tool_events: the span pending for the name, or 0
  view,      \* view[w]: the length of the log that w read for its summary
  call,      \* "none", "single", "batch": the call that is being served
  at,        \* the turn that the call belongs to
  slot,      \* slot[s]: [pc, kind, next, kept, seen], the work on a slot
  files,     \* the artifact files
  bytes,     \* _artifact_bytes, in items
  manifest,  \* the artifacts listed in manifest.json
  refs,      \* artifacts named by the log
  aborted,   \* runs that aborted
  broken,    \* spans in which something broke off: a run that was refused, a
             \* charge that raised, a tool call cut by another or not returned
  left       \* the call was still served when the last cell returned

logVars  == <<length, started, ends, faults>>
rootVars == <<turn, root, buffer, pending>>
callVars == <<call, at>>
artVars  == <<files, bytes, manifest>>
pastVars == <<aborted, broken, left>>
vars == <<logVars, summary, rootVars, view, callVars, slot, artVars, refs, pastVars>>

Texts == {1, 2}    \* what a model span captures: the request and the reply
Idle == [pc |-> "idle", kind |-> "leaf", next |-> 1, kept |-> {}, seen |-> {}]

-----------------------------------------------------------------------------
(* TraceWriter: each record is numbered and appended under one lock *)

Start(s, parent) ==
  /\ length' = length + 1
  /\ started' = started \cup {s}
  /\ faults' = faults \cup (IF parent \in started THEN {} ELSE {"orphaned_span"})
  /\ UNCHANGED ends

End(s) ==
  /\ length' = length + 1
  /\ ends' = [ends EXCEPT ![s] = @ + 1]
  /\ faults' = faults \cup (IF s \in started THEN {} ELSE {"end_without_start"})
  /\ UNCHANGED started

Event == length' = length + 1 /\ UNCHANGED <<started, ends, faults>>

\* write_trace_summary: the log is read, and later the file is written.
ReadLog(w) == view' = [view EXCEPT ![w] = length]
WriteSummary(w, status) == /\ summary' = [status |-> status, length |-> view[w]]
                           /\ view' = [view EXCEPT ![w] = 0]

Init == /\ length = 1 /\ started = {RootRun} /\ ends = [s \in Spans |-> 0]
        /\ faults = {} /\ summary = [status |-> "none", length |-> 0]
        /\ turn = 1 /\ root = "turn" /\ buffer = << >> /\ pending = 0
        /\ view = [w \in Slots \cup {Root} |-> 0]
        /\ call = "none" /\ at = 0 /\ slot = [s \in Slots |-> Idle]
        /\ files = {} /\ bytes = 0 /\ manifest = {} /\ refs = {}
        /\ aborted = {} /\ broken = {} /\ left = FALSE

-----------------------------------------------------------------------------
(* The loop of the root run *)

Here(kind) == <<kind, turn, Root>>

\* A composed prompt past the limits is refused before the loop: no abort is
\* recorded and no summary written.
Refused == /\ root = "turn" /\ turn = 1
           /\ root' = "refused"
           /\ UNCHANGED <<logVars, summary, turn, buffer, pending, view, callVars,
                          slot, artVars, refs, pastVars>>

SendModel == /\ root = "turn" /\ turn <= MaxTurns
             /\ Start(Here("model"), RootRun)
             /\ root' = "model"
             /\ UNCHANGED <<summary, turn, buffer, pending, view, callVars,
                            slot, artVars, refs, pastVars>>

\* The reply is recorded; the next record is a parse event or a cell.
ModelReplies == /\ root = "model"
                /\ End(Here("model"))
                /\ root' \in {"code", "prose"}
                /\ UNCHANGED <<summary, turn, buffer, pending, view, callVars,
                               slot, artVars, refs, pastVars>>

\* The client raises; or the charge does, which leaves the span open.
ModelFails == /\ root = "model"
              /\ End(Here("model")) \/ UNCHANGED logVars
              /\ root' = "abort"
              /\ UNCHANGED <<summary, turn, buffer, pending, view, callVars,
                             slot, artVars, refs, pastVars>>

ParseError == /\ root = "prose"
              /\ Event
              /\ \/ root' = "turn" /\ turn' = turn + 1
                 \/ root' = "abort" /\ UNCHANGED turn
              /\ UNCHANGED <<summary, buffer, pending, view, callVars, slot,
                             artVars, refs, pastVars>>

StartCell == /\ root = "code"
             /\ Start(Here("cell"), RootRun)
             /\ root' = "cell"
             /\ UNCHANGED <<summary, turn, buffer, pending, view, callVars,
                            slot, artVars, refs, pastVars>>

\* A tool span is numbered by the records left when it starts.  The calls that
\* another of the same name cuts, or that had not returned with the cell.
Tool(k) == <<"tool", turn, k>>
ToolEvents == IF Cardinality({s[2] : s \in {s \in started : s[1] = "tool"}}) < MaxCalls
              THEN Buffers ELSE {<< >>}
Unmatched(b) == {j \in 1..Len(b) : b[j] = "start" /\ (j < Len(b) => b[j + 1] = "start")}
Cut(b) == {Tool(Len(b) + 1 - i) : i \in Unmatched(b)}

\* The observation comes when the cell is over, whether or not its call has been
\* answered; the tool events come with it.
CellReturns == /\ root = "cell"
               /\ buffer' \in ToolEvents /\ pending' = 0
               /\ root' = "tools"
               /\ broken' = broken \cup Cut(buffer') /\ left' = (call # "none")
               /\ UNCHANGED <<logVars, summary, turn, view, callVars, slot,
                              artVars, refs, aborted>>

\* The wait for the observation fails, or the connection does.
CellRaises == /\ root = "cell"
              /\ End(Here("cell"))
              /\ root' = "abort"
              /\ UNCHANGED <<summary, turn, buffer, pending, view, callVars,
                             slot, artVars, refs, pastVars>>

\* _record_tool_events: a start is remembered by the name of the tool; an end
\* closes the span remembered, or one that is started for it.
\* Mutant: an end leaves the span pending for the next one.
RecordToolKeepsPending ==
  /\ root = "tools" /\ buffer # << >>
  /\ LET here == Len(buffer) IN
     \/ /\ Head(buffer) = "start"
        /\ Start(Tool(here), Here("cell"))
        /\ pending' = here
     \/ /\ Head(buffer) = "end" /\ pending # 0
        /\ End(Tool(pending))
        /\ UNCHANGED pending
  /\ buffer' = Tail(buffer)
  /\ UNCHANGED <<summary, turn, root, view, callVars, slot, artVars, refs, pastVars>>

RecordTool ==
  /\ root = "tools" /\ buffer # << >>
  /\ LET here == Len(buffer) IN
     \/ /\ Head(buffer) = "start"
        /\ Start(Tool(here), Here("cell"))
        /\ pending' = here
     \/ /\ Head(buffer) = "end" /\ pending # 0
        /\ End(Tool(pending))
        /\ pending' = 0
     \/ /\ Head(buffer) = "end" /\ pending = 0
        /\ length' = length + 2
        /\ started' = started \cup {Tool(here)}
        /\ ends' = [ends EXCEPT ![Tool(here)] = @ + 1]
        /\ faults' = faults \cup
             (IF Here("cell") \in started THEN {} ELSE {"orphaned_span"})
        /\ UNCHANGED pending
  /\ buffer' = Tail(buffer)
  /\ UNCHANGED <<summary, turn, root, view, callVars, slot, artVars, refs, pastVars>>

\* The cell's span ends; its observation answers, aborts, or leads on.
EndCell == /\ root = "tools" /\ buffer = << >>
           /\ End(Here("cell"))
           /\ \/ root' \in {"finish", "abort"} /\ UNCHANGED turn
              \/ root' = "turn" /\ turn' = turn + 1
           /\ UNCHANGED <<summary, buffer, pending, view, callVars, slot,
                          artVars, refs, pastVars>>

\* finish: the root span ends; abort_trace: an event, and the span stays open.
Finish == /\ root = "finish"
          /\ End(RootRun)
          /\ root' = "complete"
          /\ UNCHANGED <<summary, turn, buffer, pending, view, callVars, slot,
                         artVars, refs, pastVars>>

Abort == /\ root = "abort" \/ (root = "turn" /\ turn > MaxTurns)
         /\ Event
         /\ root' = "partial" /\ aborted' = aborted \cup {RootRun}
         /\ UNCHANGED <<summary, turn, buffer, pending, view, callVars, slot,
                        artVars, refs, broken, left>>

ReadForSummary == /\ root \in {"complete", "partial"} /\ view[Root] = 0
                  /\ ReadLog(Root)
                  /\ UNCHANGED <<logVars, summary, rootVars, callVars, slot,
                                 artVars, refs, pastVars>>

RootSummary == /\ root \in {"complete", "partial"} /\ view[Root] # 0
               /\ WriteSummary(Root, root)
               /\ root' = IF root = "complete" THEN "finished" ELSE "aborted"
               /\ UNCHANGED <<logVars, turn, buffer, pending, callVars, slot,
                              artVars, refs, pastVars>>

-----------------------------------------------------------------------------
(* A call: callback and callback_batch, in a thread of the callback server *)

There(kind, s) == <<kind, at, s>>
Opened == There(IF call = "batch" THEN "batch" ELSE "callback", Root)
Launched == {[Idle EXCEPT !.pc = "start", !.kind = k] : k \in {"leaf", "child"}}
Launch(S) == slot' \in {f \in [Slots -> {Idle} \cup Launched] :
                          \A s \in Slots : s \in S <=> f[s].pc = "start"}

MayCall == /\ root = "cell" /\ call = "none" /\ Here("callback") \notin started
           /\ Cardinality({t \in Turns : <<"callback", t, Root>> \in started}) < MaxCalls
StartSingle == /\ MayCall
               /\ Start(Here("callback"), Here("cell"))
               /\ call' = "single" /\ at' = turn
               /\ \E s \in Slots : Launch({s})
               /\ UNCHANGED <<summary, rootVars, view, artVars, refs, pastVars>>

StartBatch ==
  \/ /\ MayCall
     /\ Start(Here("callback"), Here("cell"))
     /\ call' = "opening" /\ at' = turn
     /\ UNCHANGED <<summary, rootVars, view, slot, artVars, refs, pastVars>>
  \/ /\ call = "opening"
     /\ Start(There("batch", Root), There("callback", Root))
     /\ call' = "batch" /\ UNCHANGED at
     /\ Launch(Slots)
     /\ UNCHANGED <<summary, rootVars, view, artVars, refs, pastVars>>

\* The call waits for all its slots.
\*   Mutant: the first result is enough.
TakenFirst == \E s \in Slots : slot[s].pc = "done"
Taken == \A s \in Slots : slot[s].pc \in {"idle", "done"}
EndCall ==
  \/ /\ call = "batch" /\ Taken
     /\ End(There("batch", Root))
     /\ call' = "closing"
     /\ UNCHANGED <<summary, rootVars, view, at, slot, artVars, refs, pastVars>>
  \/ /\ call = "closing" \/ (call = "single" /\ Taken)
     /\ End(There("callback", Root))
     /\ call' = "none"
     /\ UNCHANGED <<summary, rootVars, view, at, slot, artVars, refs, pastVars>>

-----------------------------------------------------------------------------
(* A slot: leaf_complete, or child_rlm with a run of one turn *)

Goto(s, pc) == slot' = [slot EXCEPT ![s].pc = pc]
Model(s) == There(IF slot[s].kind = "leaf" THEN "leaf" ELSE "model", s)
Run(s) == There("run", s)
Item(s) == <<at, s, slot[s].next>>
elsewhere == <<summary, rootVars, view, callVars>>

\* Refused before anything is recorded: the budget, or the size of the prompt.
SlotRefused(s) == /\ slot[s].pc = "start"
                  /\ Goto(s, "done")
                  /\ UNCHANGED <<logVars, elsewhere, artVars, refs, pastVars>>

\* Mutant: the run of a child is not recorded.
SlotStartsSilent(s) ==
  /\ slot[s].pc = "start"
  /\ IF slot[s].kind = "leaf"
     THEN Start(Model(s), Opened) /\ Goto(s, "model")
     ELSE UNCHANGED logVars /\ Goto(s, "turn")
  /\ UNCHANGED <<elsewhere, artVars, refs, pastVars>>

SlotStarts(s) == /\ slot[s].pc = "start"
                 /\ IF slot[s].kind = "leaf"
                    THEN Start(Model(s), Opened) /\ Goto(s, "model")
                    ELSE Start(Run(s), Opened) /\ Goto(s, "turn")
                 /\ UNCHANGED <<elsewhere, artVars, refs, pastVars>>

ChildSends(s) == /\ slot[s].pc = "turn"
                 /\ Start(Model(s), Run(s)) /\ Goto(s, "model")
                 /\ UNCHANGED <<elsewhere, artVars, refs, pastVars>>

\* check_instruction_budget and the size of the prompt come before the child's
\* loop: its run has started, and nobody records the end of it.
ChildRefused(s) == /\ slot[s].pc = "turn"
                   /\ broken' = broken \cup {Run(s)} /\ Goto(s, "done")
                   /\ UNCHANGED <<logVars, elsewhere, artVars, refs, aborted, left>>

\* The client raises, which ends the span; or the charge does, after the reply,
\* which leaves it open.
SlotModelFails(s) == /\ slot[s].pc = "model"
                     /\ \/ End(Model(s)) /\ UNCHANGED broken
                        \/ UNCHANGED logVars /\ broken' = broken \cup {Model(s)}
                     /\ Goto(s, IF slot[s].kind = "leaf" THEN "done" ELSE "abort")
                     /\ UNCHANGED <<elsewhere, artVars, refs, aborted, left>>

\* capture_content, without a lock: the cap is looked at, ...
\*   Mutant: one too many.
CapLeftAtCap == bytes <= Cap
CapLeft == bytes < Cap
CaptureStarts(s) == /\ slot[s].pc \in {"model", "capture"} /\ slot[s].next \in Texts
                    /\ IF CapLeft THEN Goto(s, "write")
                       ELSE slot' = [slot EXCEPT ![s].pc = "capture", ![s].next = @ + 1]
                    /\ UNCHANGED <<logVars, elsewhere, artVars, refs, pastVars>>

\* ... the file is written and counted, ...
WriteArtifact(s) == /\ slot[s].pc = "write"
                    /\ files' = files \cup {Item(s)} /\ bytes' = bytes + 1
                    /\ Goto(s, "read")
                    /\ UNCHANGED <<logVars, elsewhere, manifest, refs, pastVars>>

\* ... the manifest is read, empty if another thread has just truncated it, ...
ReadManifest(s) ==
  /\ slot[s].pc = "read"
  /\ \E seen \in {manifest} \cup
                 {{} : u \in {u \in Slots \ {s} : slot[u].pc = "list"}} :
       slot' = [slot EXCEPT ![s].pc = "list", ![s].seen = seen]
  /\ UNCHANGED <<logVars, elsewhere, artVars, refs, pastVars>>

\* ... and written back with one entry more.
WriteManifest(s) == /\ slot[s].pc = "list"
                    /\ manifest' = slot[s].seen \cup {Item(s)}
                    /\ slot' = [slot EXCEPT ![s] =
                         [@ EXCEPT !.pc = "capture", !.next = slot[s].next + 1,
                                   !.seen = {},
                                   !.kept = slot[s].kept \cup {slot[s].next}]]
                    /\ UNCHANGED <<logVars, elsewhere, files, bytes, refs, pastVars>>

SlotReplies(s) ==
  /\ slot[s].pc = "capture" /\ slot[s].next \notin Texts
  /\ End(Model(s))
  /\ refs' = refs \cup {<<at, s, k>> : k \in slot[s].kept}
  /\ slot' = [slot EXCEPT ![s] =
       [Idle EXCEPT !.kind = slot[s].kind,
                    !.pc = IF slot[s].kind = "leaf" THEN "done" ELSE "ran"]]
  /\ UNCHANGED <<elsewhere, artVars, pastVars>>

\* The child's cell answers, and its run ends; or its loop aborts.
ChildEnds(s) == /\ slot[s].pc = "ran"
                /\ End(Run(s)) /\ Goto(s, "done")
                /\ UNCHANGED <<elsewhere, artVars, refs, pastVars>>

ChildAborts(s) == /\ slot[s].pc \in {"abort", "ran", "turn"}
                  /\ Event
                  /\ aborted' = aborted \cup {Run(s)} /\ Goto(s, "partial")
                  /\ UNCHANGED <<elsewhere, artVars, refs, broken, left>>

ChildReadsLog(s) == /\ slot[s].pc = "partial"
                    /\ ReadLog(s) /\ Goto(s, "summary")
                    /\ UNCHANGED <<logVars, summary, rootVars, callVars,
                                   artVars, refs, pastVars>>

ChildSummary(s) == /\ slot[s].pc = "summary"
                   /\ WriteSummary(s, "partial") /\ Goto(s, "done")
                   /\ UNCHANGED <<logVars, rootVars, callVars, artVars, refs,
                                  pastVars>>

Next ==
  \/ Refused \/ SendModel \/ ModelReplies \/ ModelFails \/ ParseError
  \/ StartCell \/ CellReturns \/ CellRaises \/ RecordTool \/ EndCell
  \/ Finish \/ Abort \/ ReadForSummary \/ RootSummary
  \/ StartSingle \/ StartBatch \/ EndCall
  \/ \E s \in Slots :
       \/ SlotRefused(s) \/ SlotStarts(s) \/ ChildSends(s)
       \/ ChildRefused(s) \/ SlotModelFails(s)
       \/ CaptureStarts(s) \/ WriteArtifact(s) \/ ReadManifest(s)
       \/ WriteManifest(s) \/ SlotReplies(s)
       \/ ChildEnds(s) \/ ChildAborts(s) \/ ChildReadsLog(s) \/ ChildSummary(s)

Spec == Init /\ [][Next]_vars

-----------------------------------------------------------------------------
Items == Turns \X Slots \X Texts
TypeOK ==
  /\ {length, bytes} \subseteq Nat
  /\ started \subseteq Spans /\ ends \in [Spans -> Nat]
  /\ faults \subseteq {"orphaned_span", "end_without_start"}
  /\ summary \in [status : {"none", "partial", "complete"}, length : 0..length]
  /\ turn \in 1..(MaxTurns + 1) /\ at \in Turns
  /\ root \in {"turn", "model", "code", "prose", "cell", "tools", "finish",
               "complete", "finished", "abort", "partial", "aborted", "refused"}
  /\ buffer \in Seq({"start", "end"}) /\ pending \in {0} \cup Tools
  /\ view \in [Slots \cup {Root} -> 0..length]
  /\ call \in {"none", "single", "opening", "batch", "closing"}
  /\ slot \in [Slots -> [pc : {"idle", "start", "turn", "model", "write", "read",
                               "list", "capture", "ran", "abort", "partial",
                               "summary", "done"},
                         kind : {"leaf", "child"}, next : 1..3,
                         kept : SUBSET Texts, seen : SUBSET Items]]
  /\ files \subseteq Items /\ manifest \subseteq Items /\ refs \subseteq Items
  /\ aborted \subseteq Spans /\ broken \subseteq Spans /\ left \in BOOLEAN

\* validate_trace accepts the log at every moment, with all its threads at
\* work: a parent's record is in it before any of its children's.
TraceValid == faults = {}

\* No span ends twice, which validate_trace does not look for: not when the
\* wait for a cell fails, nor when calls of one tool overlap.
EndsOnce == \A s \in Spans : ends[s] <= 1

\* A run that answered has a complete summary, made from the whole log: no
\* aborting child writes over it, none adds to the log after it.  When its last
\* cell left a call behind, the summary is complete until a child of that call
\* aborts.
SummaryFinal == root = "finished" =>
  IF left
  THEN summary.status = "complete" \/ \E s \in Slots : There("run", s) \in aborted
  ELSE summary = [status |-> "complete", length |-> length]

\* The spans of the call: its own, and those of its slots.
Served == {s \in Spans : /\ s[2] = at /\ s[1] # "tool"
                         /\ s[1] \in {"callback", "batch"} \/ s[3] \in Slots}

\* In the trace of a run that answered, what has no end is a run that aborted, a
\* span in which something broke off, or belongs to the call still served.
OpenIsInterrupted == root = "finished" =>
  \A s \in started : ends[s] = 0 =>
    s \in aborted \cup broken \/ (call # "none" /\ s \in Served)

\* Spans of an answered run are closed: none twice, none left without a reason.
SpansClosed == EndsOnce /\ OpenIsInterrupted

\* The trace names an artifact only when its file is there, and so does the
\* manifest, which concurrent captures overwrite for each other.
NamedIsStored == (refs \cup manifest) \subseteq files

\* The cap on artifacts is passed by what was being captured when it was hit,
\* no more: one item for each other thread.
CapOvershoot == bytes < Cap + Cardinality(Slots)

\* What content capture keeps, with no lock around it.
ArtifactsKept == NamedIsStored /\ CapOvershoot
=============================================================================
