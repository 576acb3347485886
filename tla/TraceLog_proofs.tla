---------------------------- MODULE TraceLog_proofs ---------------------------
(***************************************************************************)
(* The log, the summaries and the artifacts of TraceLog, for any number of *)
(* slots, turns and calls and any cap.                                     *)
(*                                                                         *)
(* A span is ended by whoever has it open: the root loop (Looping), the    *)
(* call a cell has made (Serving), or a slot of that call (Working).  The  *)
(* call goes on beside the loop, which may get ahead of it (Beside).  The  *)
(* spans each will start next are not in the log yet (Fresh), and what is  *)
(* open is in work, or something broke off in it (OpenOnly, Cutting).      *)
(* Writers that passed the test of the cap are counted beside the bytes    *)
(* (Stored).  There is one lemma per action.                               *)
(***************************************************************************)
EXTENDS TraceLog, FiniteSetTheorems, TLAPS

Open(s) == s \in started /\ ends[s] = 0

\* The log so far: an end has its start, and comes once.
Log ==
  /\ RootRun \in started /\ faults = {}
  /\ \A s \in Spans : ends[s] \in {0, 1} /\ (ends[s] # 0 => s \in started)

\* The spans of the loop: where the loop is tells what it has started this turn.
InTurn == {"model", "code", "prose", "cell", "tools"}
Looping ==
  /\ root \in InTurn => turn =< MaxTurns
  /\ root \notin {"complete", "finished"} => Open(RootRun)
  /\ root = "model" => Open(Here("model"))
  /\ root \in {"cell", "tools"} => Open(Here("cell"))
  /\ root = "tools" /\ pending # 0 => Open(Tool(pending)) /\ pending > Len(buffer)
  /\ root = "tools" => Len(buffer) =< 4

\* Spans that are still to be started are not in the log.
Fresh ==
  \A s \in started :
    /\ s[2] =< turn
    /\ root = "turn" => s[2] < turn
    /\ root \in {"model", "code", "prose"} /\ s[2] = turn => s = Here("model")
    /\ root = "cell" /\ s[1] = "tool" => s[2] < turn
    /\ root = "tools" /\ s[1] = "tool" /\ s[2] = turn => s[3] > Len(buffer)
    /\ s[1] = "batch" \/ (s[1] # "tool" /\ s[3] \in Slots) =>
         <<"callback", s[2], Root>> \in started

Busy == {"start", "turn", "model", "write", "read", "list", "capture", "ran", "abort",
         "partial", "summary"}
Capturing == {"model", "write", "read", "list", "capture"}

\* What is left of the tool events: the calls cut off are known, and so is the
\* one pending, unless its end is next.
Cutting == root = "tools" =>
  /\ Cut(buffer) \subseteq broken
  /\ pending # 0 => Tool(pending) \in broken \/ (buffer # << >> /\ Head(buffer) = "end")

\* A call is of the turn or an earlier one; when the loop has gone on without
\* it, its cell has left it.
Ahead == {"turn", "model", "code", "prose"}
Behind == {"tools", "finish", "complete", "finished"}
Beside == /\ at =< turn
          /\ root \in Ahead => at < turn
          /\ root \in Behind => left
Serving ==
  /\ call # "none" => Beside /\ at \in 1 .. MaxTurns /\ Open(There("callback", Root))
  /\ call = "batch" => Open(There("batch", Root))
  /\ call = "opening" =>
       \A s \in started : s[2] = at => s[1] # "batch" /\ (s[1] = "tool" \/ s[3] \notin Slots)
  /\ call \notin {"single", "batch"} => \A s \in Slots : slot[s].pc \notin Busy

\* A slot in work has its spans open and those to come still to be started.
Working ==
  \A w \in Slots :
    LET pc == slot[w].pc IN
    /\ pc \in {"turn", "ran", "abort", "partial", "summary"} => slot[w].kind = "child"
    /\ pc = "start" => \A s \in started : s[2] = at /\ s[3] = w => s[1] = "tool"
    /\ pc = "turn" => There("model", w) \notin started
    /\ pc \in {"partial", "summary"} => Run(w) \in aborted
    /\ pc \in Capturing => Open(Model(w))
    /\ slot[w].kind = "child" /\ pc \in Capturing \cup {"turn", "ran", "abort"} => Open(Run(w))

\* What is open is in work, was left by an abort, or something broke off in it.
OpenRoot(s) ==
  \/ s \in aborted \cup broken
  \/ s = RootRun /\ root \notin {"complete", "finished"}
  \/ s = Here("model") /\ root \in {"model", "abort", "partial", "aborted"}
  \/ s = Here("cell") /\ root \in {"cell", "tools"}
  \/ s = Tool(pending) /\ pending # 0 /\ root = "tools"
OpenCall(s) ==
  \/ s = There("callback", Root) /\ call # "none"
  \/ s = There("batch", Root) /\ call = "batch"
  \/ \E w \in Slots : s = Model(w) /\ slot[w].pc \in Capturing
  \/ \E w \in Slots : s = Run(w) /\ slot[w].kind = "child"
                      /\ slot[w].pc \in Capturing \cup {"turn", "ran", "abort"}
OpenOnly == \A s \in started : ends[s] = 0 => OpenRoot(s) \/ OpenCall(s)

Replaced == \E s \in Slots : There("run", s) \in aborted
Summed ==
  /\ root \notin {"complete", "finished", "partial", "aborted"} => view[Root] = 0
  /\ root = "complete" /\ ~left => view[Root] \in {0, length}
  /\ root = "finished" /\ ~left => summary = [status |-> "complete", length |-> length]
  /\ root = "finished" /\ left => summary.status = "complete" \/ Replaced
  /\ length > 0

Writing == {s \in Slots : slot[s].pc = "write"}

Stored ==
  /\ (refs \cup manifest) \subseteq files
  /\ \A s \in Slots :
       /\ \A k \in slot[s].kept : <<at, s, k>> \in files
       /\ slot[s].kept # {} => slot[s].pc \in {"write", "read", "list", "capture"}
       /\ slot[s].seen \subseteq files
       /\ slot[s].pc \in {"read", "list"} => Item(s) \in files
       /\ slot[s].pc \in {"write", "read", "list"} => slot[s].next \in Texts
  /\ bytes + Cardinality(Writing) < Cap + Cardinality(Slots)

TInv == /\ TypeOK /\ Log /\ Looping /\ Cutting /\ Fresh /\ Serving /\ Working /\ OpenOnly
        /\ Summed /\ Stored

-----------------------------------------------------------------------------
(* Spans, and the records *)

\* The spans a step may start are spans.
LEMMA SpanIn ==
  /\ \A k \in {"run", "model", "cell", "callback", "batch", "leaf"}, t \in Turns :
       \A x \in Slots \cup {Root} : <<k, t, x>> \in Spans
  /\ \A t \in Turns, k \in Tools : <<"tool", t, k>> \in Spans
BY DEF Spans, Tools

\* A span is its kind, its turn and its owner or number.
LEMMA SpanOf ==
  ASSUME NEW s \in Spans
  PROVE  /\ s = <<s[1], s[2], s[3]>> /\ s[2] \in Turns
         /\ s[1] \in {"run", "model", "cell", "callback", "batch", "leaf", "tool"}
         /\ s[1] = "tool" => s[3] \in Tools
         /\ s[1] # "tool" => s[3] \in Slots \cup {Root}
BY DEF Spans, Tools

\* TypeOK in parts.
TypeLog == /\ length \in Nat /\ started \subseteq Spans /\ ends \in [Spans -> Nat]
           /\ faults \subseteq {"orphaned_span", "end_without_start"}
TypeRead == /\ summary \in [status : {"none", "partial", "complete"}, length : 0..length]
            /\ view \in [Slots \cup {Root} -> 0..length]
TypeRoot == /\ turn \in 1..(MaxTurns + 1)
            /\ root \in {"turn", "model", "code", "prose", "cell", "tools", "finish",
                         "complete", "finished", "abort", "partial", "aborted", "refused"}
            /\ buffer \in Seq({"start", "end"}) /\ pending \in {0} \cup Tools
TypeCall == /\ at \in Turns /\ call \in {"none", "single", "opening", "batch", "closing"}
TypeSlot ==
  slot \in [Slots -> [pc : {"idle", "start", "turn", "model", "write", "read",
                            "list", "capture", "ran", "abort", "partial",
                            "summary", "done"},
                      kind : {"leaf", "child"}, next : 1..3,
                      kept : SUBSET Texts, seen : SUBSET Items]]
TypeArt == /\ bytes \in Nat /\ files \subseteq Items /\ manifest \subseteq Items
           /\ refs \subseteq Items
TypeRuns == aborted \subseteq Spans /\ broken \subseteq Spans /\ left \in BOOLEAN

\* Every step disturbs a few of the parts only.
LEMMA TypeParts == TypeOK <=> /\ TypeLog /\ TypeRead /\ TypeRoot /\ TypeCall
                             /\ TypeSlot /\ TypeArt /\ TypeRuns
BY Zenon DEF TypeOK, TypeLog, TypeRead, TypeRoot, TypeCall, TypeSlot, TypeArt, TypeRuns,
   pastVars

\* The parts of the types make up the types after a step too.
LEMMA TypeJoin ==
  ASSUME TypeLog', TypeRead', TypeRoot', TypeCall', TypeSlot', TypeArt', TypeRuns'
  PROVE  TypeOK'
BY Zenon DEF TypeOK, TypeLog, TypeRead, TypeRoot, TypeCall, TypeSlot, TypeArt, TypeRuns,
   pastVars

\* The turns the loop and the call are in.
LEMMA TurnIn ==
  ASSUME TypeOK
  PROVE  /\ turn \in Nat /\ turn > 0 /\ at \in Nat /\ turn =< MaxTurns + 1
         /\ turn =< MaxTurns => turn \in Turns /\ turn + 1 \in 1 .. (MaxTurns + 1)
         /\ \A s \in started : s \in Spans /\ s[2] \in Nat
<1>1. turn \in 1..(MaxTurns + 1) /\ at \in Turns
  BY TypeParts DEF TypeRoot, TypeCall
<1>2. started \subseteq Spans
  BY TypeParts DEF TypeLog
<1>3. \A s \in started : s \in Spans /\ s[2] \in Nat
  <2> SUFFICES ASSUME NEW s \in started PROVE s \in Spans /\ s[2] \in Nat
    OBVIOUS
  <2>0. s \in Spans
    BY <1>2
  <2>1. s \in Spans /\ s[2] \in Turns
    BY <2>0, SpanOf
  <2> QED BY <2>1, LogAssumption DEF Turns
<1> QED BY <1>1, <1>3, LogAssumption DEF Turns

\* A cell brings at most four tool records.
LEMMA BuffersIn == \A b \in ToolEvents : b \in Seq({"start", "end"}) /\ Len(b) =< 4
<1>1. << >> \in Seq({"start", "end"}) /\ Len(<< >>) =< 4
  OBVIOUS
<1>2. <<"start", "end">> \in Seq({"start", "end"}) /\ Len(<<"start", "end">>) =< 4
  OBVIOUS
<1>3. /\ <<"start", "end", "start", "end">> \in Seq({"start", "end"})
      /\ Len(<<"start", "end", "start", "end">>) =< 4
  OBVIOUS
<1>4. /\ <<"start", "start", "end", "end">> \in Seq({"start", "end"})
      /\ Len(<<"start", "start", "end", "end">>) =< 4
  OBVIOUS
<1>5. <<"start">> \in Seq({"start", "end"}) /\ Len(<<"start">>) =< 4
  OBVIOUS
<1> QED BY <1>1, <1>2, <1>3, <1>4, <1>5 DEF ToolEvents, Buffers

\* A span that is started below one in the log keeps the log in order.
LEMMA LogStart ==
  ASSUME TypeOK, Log, NEW s \in Spans, NEW p \in started, Start(s, p)
  PROVE  Log' /\ TypeLog' /\ length' = length + 1
<1>0. TypeLog
  BY TypeParts
<1>1. TypeLog' /\ length' = length + 1
  <2>1. length' = length + 1 /\ length' \in Nat
    BY <1>0 DEF Start, TypeLog
  <2>2. started' \subseteq Spans /\ ends' \in [Spans -> Nat]
    BY <1>0 DEF Start, TypeLog
  <2>3. faults' \subseteq {"orphaned_span", "end_without_start"}
    BY <1>0 DEF Start, TypeLog
  <2> QED BY <2>1, <2>2, <2>3 DEF TypeLog
<1>2. Log'
  BY TypeParts DEF Start, TypeLog, Log, RootRun
<1> QED BY <1>1, <1>2

\* So does the end of a span that is open.
LEMMA LogEnd ==
  ASSUME TypeOK, Log, NEW s \in Spans, Open(s), End(s)
  PROVE  Log' /\ TypeLog' /\ length' = length + 1
<1>0. TypeLog
  BY TypeParts
<1>1. TypeLog' /\ length' = length + 1
  <2>1. length' = length + 1 /\ length' \in Nat
    BY <1>0 DEF End, TypeLog
  <2>2. started' \subseteq Spans /\ ends' \in [Spans -> Nat]
    BY <1>0 DEF End, TypeLog
  <2>3. faults' \subseteq {"orphaned_span", "end_without_start"}
    BY <1>0 DEF End, TypeLog
  <2> QED BY <2>1, <2>2, <2>3 DEF TypeLog
<1>2. \A x \in Spans : ends'[x] = IF x = s THEN 1 ELSE ends[x]
  BY <1>0 DEF End, TypeLog, Open
<1>3. Log'
  BY DEF End, Log, Open
<1> QED BY <1>1, <1>3

\* So does an event.
LEMMA LogEvent ==
  ASSUME TypeOK, Log, Event
  PROVE  Log' /\ TypeLog' /\ length' = length + 1
BY TypeParts DEF Event, TypeLog, Log

\* The log only grows, so what was read of it stays a part of it.
LEMMA ReadKept ==
  ASSUME TypeOK, length' \in Nat, length' >= length, UNCHANGED <<summary, view>>
  PROVE  TypeRead'
<1>1. 0 .. length \subseteq 0 .. length'
  BY TypeParts DEF TypeLog
<1>2. TypeRead
  BY TypeParts
<1>3. summary' \in [status : {"none", "partial", "complete"}, length : 0..length']
  BY <1>1, <1>2 DEF TypeRead
<1>4. view' \in [Slots \cup {Root} -> 0..length']
  BY <1>1, <1>2 DEF TypeRead
<1> QED BY <1>3, <1>4 DEF TypeRead

\* The spans of a call; those of the loop are not among them.
OfCall(s) == s[1] \in {"callback", "batch"} \/ (s[1] # "tool" /\ s[3] \in Slots)
LEMMA NotOfCall ==
  /\ ~OfCall(RootRun) /\ ~OfCall(Here("model")) /\ ~OfCall(Here("cell"))
  /\ \A k : ~OfCall(Tool(k))
BY LogAssumption DEF OfCall, RootRun, Here, Tool

\* A step of the loop on a span x of its own leaves the call in work as it is.
LEMMA ServedKept ==
  ASSUME TInv, UNCHANGED <<call, at, slot>>, aborted \subseteq aborted',
         NEW x, ~OfCall(x), started \subseteq started', started' \subseteq started \cup {x},
         \A s \in Spans : s # x => ends'[s] = ends[s],
         call # "none" => Beside'
  PROVE  Serving' /\ Working'
<1>0. /\ Serving /\ Working /\ \A s \in started : s \in Spans
      /\ TypeSlot
  BY TypeParts DEF TInv, TypeLog
<1>1. \A s \in started' : OfCall(s) => s \in started
  OBVIOUS
<1>2. \A s : OfCall(s) /\ Open(s) => Open(s)'
  BY <1>0 DEF Open
<1>3. /\ OfCall(There("callback", Root)) /\ OfCall(There("batch", Root))
      /\ \A w \in Slots : OfCall(There("model", w)) /\ OfCall(Model(w)) /\ OfCall(Run(w))
  BY DEF OfCall, There, Model, Run
<1>4. /\ There("callback", Root)' = There("callback", Root)
      /\ There("batch", Root)' = There("batch", Root)
      /\ \A w \in Slots : /\ There("model", w)' = There("model", w)
                           /\ Model(w)' = Model(w) /\ Run(w)' = Run(w)
  BY DEF There, Model, Run
<1>5. Open(There("callback", Root)) => Open(There("callback", Root))'
  BY <1>2, <1>3, <1>4 DEF Open
<1>6. Open(There("batch", Root)) => Open(There("batch", Root))'
  BY <1>2, <1>3, <1>4 DEF Open
<1>7. Serving'
  BY <1>0, <1>1, <1>5, <1>6 DEF Serving, OfCall, pastVars
<1>8. \A w \in Slots : /\ Open(Model(w)) => Open(Model(w))'
                       /\ Open(Run(w)) => Open(Run(w))'
                       /\ There("model", w) \notin started => There("model", w) \notin started'
  BY <1>1, <1>2, <1>3, <1>4 DEF Open
<1>9. \A w \in Slots : Run(w) \in aborted => Run(w)' \in aborted'
  BY <1>4
<1>10. Working'
  <2> SUFFICES ASSUME NEW w \in Slots
               PROVE  LET pc == slot'[w].pc IN
                 /\ pc \in {"turn", "ran", "abort", "partial", "summary"} =>
                      slot'[w].kind = "child"
                 /\ pc = "start" =>
                      \A s \in started' : s[2] = at' /\ s[3] = w => s[1] = "tool"
                 /\ pc = "turn" => There("model", w)' \notin started'
                 /\ pc \in {"partial", "summary"} => Run(w)' \in aborted'
                 /\ pc \in Capturing => Open(Model(w))'
                 /\ slot'[w].kind = "child" /\ pc \in Capturing \cup {"turn", "ran", "abort"} =>
                      Open(Run(w))'
    BY <1>4 DEF Working, pastVars
  <2>1. slot' = slot /\ at' = at
    OBVIOUS
  <2>2. slot[w].pc = "start" => \A s \in started' : s[2] = at /\ s[3] = w => s[1] = "tool"
    BY <1>0, <1>1 DEF Working, OfCall, pastVars
  <2> QED BY <1>0, <1>4, <1>8, <1>9, <2>1, <2>2 DEF Working, pastVars
<1> QED BY <1>7, <1>10

\* Away from the tool events, and while they wait, the calls cut off stay known.
LEMMA CuttingKept ==
  ASSUME TInv, \/ root' # "tools"
               \/ UNCHANGED <<turn, root, buffer, pending>> /\ broken \subseteq broken'
  PROVE  Cutting'
<1>1. CASE root' # "tools"
  BY <1>1 DEF Cutting
<1>2. CASE UNCHANGED <<turn, root, buffer, pending>> /\ broken \subseteq broken'
  <2>1. Cut(buffer)' = Cut(buffer) /\ Tool(pending)' = Tool(pending)
    BY <1>2 DEF Cut, Unmatched, Tool
  <2> QED BY <1>2, <2>1 DEF TInv, Cutting
<1> QED BY <1>1, <1>2

\* A step that writes no artifact keeps what is stored.
LEMMA StoredKept ==
  ASSUME TInv, UNCHANGED <<at, slot, files, bytes, manifest, refs>>
  PROVE  Stored'
BY DEF TInv, Stored, Writing, Item

\* A step of the loop keeps the types of what it leaves alone.
LEMMA RestTyped ==
  ASSUME TypeOK, UNCHANGED <<call, at, slot, files, bytes, manifest, refs>>
  PROVE  TypeCall' /\ TypeSlot' /\ TypeArt'
BY TypeParts DEF TypeCall, TypeSlot, TypeArt

\* A step of the loop leaves the calls, the slots and the artifacts alone.
LEMMA RootTyped ==
  ASSUME TypeOK, TypeLog', length' >= length, TypeRoot', TypeRuns',
         UNCHANGED <<summary, view, call, at, slot, files, bytes, manifest, refs>>
  PROVE  TypeOK'
<1>1. TypeRead'
  BY ReadKept DEF TypeLog
<1> QED BY <1>1, RestTyped, TypeJoin

\* A step of a slot leaves the loop and the call alone.
LEMMA SlotTyped ==
  ASSUME TypeOK, TypeLog', length' >= length, TypeSlot', TypeArt', TypeRuns',
         UNCHANGED <<summary, rootVars, view, callVars>>
  PROVE  TypeOK'
<1>1. TypeRead'
  BY ReadKept DEF TypeLog
<1>2. TypeRoot' /\ TypeCall'
  BY TypeParts DEF rootVars, callVars, TypeRoot, TypeCall
<1> QED BY <1>1, <1>2, TypeJoin

-----------------------------------------------------------------------------
(* The loop of the root run *)

\* A refused run leaves everything as it is, its span open.
LEMMA RefusedKept == TInv /\ Refused => TInv'
<1> SUFFICES ASSUME TInv, Refused PROVE TInv'
  OBVIOUS
<1>0. /\ TypeOK /\ Log /\ Looping /\ Fresh /\ Serving /\ OpenOnly /\ Summed
      /\ TypeRoot /\ TypeCall /\ TypeLog /\ TypeRead
  BY TypeParts DEF TInv
<1>1. Log' /\ TypeLog' /\ length' = length
  BY <1>0 DEF Refused, logVars, Log, TypeLog
<1>2. TypeOK'
  <2>1. TypeRoot'
    BY <1>0 DEF Refused, TypeRoot
  <2>2. TypeRuns'
    BY <1>0, TypeParts DEF Refused, TypeRuns, pastVars
  <2> QED BY <1>0, <1>1, <2>1, <2>2, RootTyped DEF Refused, TypeLog, callVars, artVars
<1>3. Looping'
  BY <1>0 DEF Refused, logVars, Looping, Open, InTurn
<1>4. Fresh'
  BY <1>0 DEF Refused, logVars, Fresh
<1>5. Serving' /\ Working'
  <2>1. call # "none" => Beside'
    BY <1>0, TurnIn DEF Refused, logVars, Serving, Beside, Ahead, Behind,
       callVars, pastVars
  <2> QED BY <2>1, NotOfCall, ServedKept DEF Refused, logVars, callVars, pastVars
<1>6. OpenOnly'
  BY <1>0 DEF Refused, logVars, OpenOnly, Here, There, Model, Run, callVars, pastVars,
     OpenRoot, OpenCall, Tool
<1>7. Summed'
  BY <1>0 DEF Refused, logVars, Summed, pastVars
<1>8. Stored'
  BY StoredKept DEF Refused, artVars, callVars
<1>9. Cutting'
  BY CuttingKept DEF Refused
<1> QED BY <1>1, <1>2, <1>3, <1>4, <1>5, <1>6, <1>7, <1>8, <1>9 DEF TInv

\* The loop opens the model span of its turn.
LEMMA SendModelKept == TInv /\ SendModel => TInv'
<1> SUFFICES ASSUME TInv, SendModel PROVE TInv'
  OBVIOUS
<1>0. /\ TypeOK /\ Log /\ Looping /\ Fresh /\ Serving /\ OpenOnly /\ Summed
      /\ TypeRoot /\ TypeCall /\ TypeLog /\ TypeRead
  BY TypeParts DEF TInv
<1>1. Log' /\ TypeLog' /\ length' = length + 1
  <2>1. Here("model") \in Spans /\ RootRun \in started
    BY <1>0, SpanIn, TurnIn DEF SendModel, Log, Here
  <2> QED BY <1>0, <2>1, LogStart DEF SendModel
<1>2. TypeOK'
  <2>1. TypeRoot'
    BY <1>0 DEF SendModel, TypeRoot
  <2>2. TypeRuns'
    BY <1>0, TypeParts DEF SendModel, Start, TypeRuns, pastVars
  <2> QED BY <1>0, <1>1, <2>1, <2>2, RootTyped DEF SendModel, TypeLog, callVars, artVars
<1>3. Looping'
  <2>1. Here("model") \notin started
    <3>1. Here("model")[2] = turn /\ root = "turn"
      BY DEF SendModel, Here
    <3>2. \A s \in started : s[2] \in Nat /\ s[2] < turn
      BY <1>0, <3>1, TurnIn DEF Fresh
    <3> QED BY <1>0, <3>1, <3>2, TurnIn
  <2>2. ends[Here("model")] = 0
    BY <1>0, <2>1, SpanIn, TurnIn DEF SendModel, Log, Here
  <2> QED BY <1>0, <2>2 DEF SendModel, Start, Looping, Open, Here
<1>4. Fresh'
  BY <1>0, LogAssumption DEF SendModel, Start, Fresh, Here, TypeRoot
<1>5. Serving' /\ Working'
  <2>1. call # "none" => Beside'
    BY <1>0, TurnIn DEF SendModel, Start, Serving, Beside, Ahead, Behind,
       callVars, pastVars
  <2>2. \A s \in Spans : s # Here("model") => ends'[s] = ends[s]
    BY <1>0 DEF SendModel, Start, TypeLog
  <2> QED BY <2>1, <2>2, NotOfCall, ServedKept DEF SendModel, Start, callVars, pastVars
<1>6. OpenOnly'
  BY <1>0 DEF SendModel, Start, OpenOnly, Here, There, Model, Run, callVars, pastVars, OpenRoot,
     OpenCall, Tool
<1>7. Summed'
  BY <1>0 DEF SendModel, Start, Summed, TypeLog, pastVars, Replaced, There
<1>8. Stored'
  BY StoredKept DEF SendModel, Start, artVars, callVars
<1>9. Cutting'
  BY CuttingKept DEF SendModel, pastVars
<1> QED BY <1>1, <1>2, <1>3, <1>4, <1>5, <1>6, <1>7, <1>8, <1>9 DEF TInv

\* The reply ends the model span.
LEMMA ModelRepliesKept == TInv /\ ModelReplies => TInv'
<1> SUFFICES ASSUME TInv, ModelReplies PROVE TInv'
  OBVIOUS
<1>0. /\ TypeOK /\ Log /\ Looping /\ Fresh /\ Serving /\ OpenOnly /\ Summed
      /\ TypeRoot /\ TypeCall /\ TypeLog /\ TypeRead
  BY TypeParts DEF TInv
<1>1. Log' /\ TypeLog' /\ length' = length + 1
  <2>1. Here("model") \in Spans /\ Open(Here("model"))
    BY <1>0 DEF ModelReplies, Looping, Open, TypeLog
  <2> QED BY <1>0, <2>1, LogEnd DEF ModelReplies
<1>2. TypeOK'
  <2>1. TypeRoot'
    BY <1>0 DEF ModelReplies, TypeRoot
  <2>2. TypeRuns'
    BY <1>0, TypeParts DEF ModelReplies, End, TypeRuns, pastVars
  <2> QED BY <1>0, <1>1, <2>1, <2>2, RootTyped DEF ModelReplies, TypeLog, callVars, artVars
<1>3. Looping'
  BY <1>0 DEF ModelReplies, End, Looping, Open, Here, InTurn, RootRun
<1>4. Fresh'
  BY <1>0 DEF ModelReplies, End, Fresh, Here
<1>5. Serving' /\ Working'
  <2>1. call # "none" => Beside'
    BY <1>0, TurnIn DEF ModelReplies, End, Serving, Beside, Ahead, Behind,
       callVars, pastVars
  <2>2. \A s \in Spans : s # Here("model") => ends'[s] = ends[s]
    BY <1>0 DEF ModelReplies, End, TypeLog
  <2> QED BY <2>1, <2>2, NotOfCall, ServedKept DEF ModelReplies, End, callVars, pastVars
<1>6. OpenOnly'
  BY <1>0 DEF ModelReplies, End, OpenOnly, There, Model, Run, TypeLog, callVars, pastVars,
     OpenRoot, OpenCall, Tool
<1>7. Summed'
  BY <1>0 DEF ModelReplies, End, Summed, TypeLog, pastVars, Replaced, There
<1>8. Stored'
  BY StoredKept DEF ModelReplies, End, artVars, callVars
<1>9. Cutting'
  BY CuttingKept DEF ModelReplies, pastVars
<1> QED BY <1>1, <1>2, <1>3, <1>4, <1>5, <1>6, <1>7, <1>8, <1>9 DEF TInv

\* A completion that fails ends its span or leaves it open, and leads to the abort.
LEMMA ModelFailsKept == TInv /\ ModelFails => TInv'
<1> SUFFICES ASSUME TInv, ModelFails PROVE TInv'
  OBVIOUS
<1>0. /\ TypeOK /\ Log /\ Looping /\ Fresh /\ Serving /\ OpenOnly /\ Summed
      /\ TypeRoot /\ TypeCall /\ TypeLog /\ TypeRead
  BY TypeParts DEF TInv
<1>1. Log' /\ TypeLog' /\ length' \in Nat /\ length' >= length
  <2>0. length \in Nat
    BY <1>0 DEF TypeLog
  <2>1. CASE End(Here("model"))
    <3>1. Here("model") \in Spans /\ Open(Here("model"))
      BY <1>0 DEF ModelFails, Looping, Open, TypeLog
    <3> QED BY <1>0, <2>0, <2>1, <3>1, LogEnd
  <2>2. CASE UNCHANGED logVars
    BY <1>0, <2>2 DEF logVars, Log, TypeLog
  <2> QED BY <2>1, <2>2 DEF ModelFails
<1>2. TypeOK'
  <2>1. TypeRoot'
    BY <1>0 DEF ModelFails, TypeRoot
  <2>2. TypeRuns'
    BY <1>0, TypeParts DEF ModelFails, TypeRuns, pastVars
  <2> QED BY <1>0, <1>1, <2>1, <2>2, RootTyped DEF ModelFails, callVars, artVars
<1>3. Looping'
  BY <1>0 DEF ModelFails, End, logVars, Looping, Open, Here, InTurn, RootRun, TypeLog
<1>4. Fresh'
  BY <1>0 DEF ModelFails, End, logVars, Fresh
<1>5. Serving' /\ Working'
  <2>1. call # "none" => Beside'
    BY <1>0, TurnIn DEF ModelFails, End, logVars, Serving, Beside, Ahead, Behind,
       callVars, pastVars
  <2>2. \A s \in Spans : s # Here("model") => ends'[s] = ends[s]
    BY <1>0 DEF ModelFails, End, logVars, TypeLog
  <2> QED BY <2>1, <2>2, NotOfCall, ServedKept DEF ModelFails, End, logVars, callVars, pastVars
<1>6. OpenOnly'
  BY <1>0 DEF ModelFails, End, logVars, OpenOnly, Here, There, Model, Run, TypeLog, callVars,
     pastVars, OpenRoot, OpenCall, Tool
<1>7. Summed'
  BY <1>0 DEF ModelFails, End, logVars, Summed, TypeLog, pastVars, Replaced, There
<1>8. Stored'
  BY StoredKept DEF ModelFails, artVars, callVars
<1>9. Cutting'
  BY CuttingKept DEF ModelFails, pastVars
<1> QED BY <1>1, <1>2, <1>3, <1>4, <1>5, <1>6, <1>7, <1>8, <1>9 DEF TInv

\* A reply without code is an event, and ends the turn or the run.
LEMMA ParseErrorKept == TInv /\ ParseError => TInv'
<1> SUFFICES ASSUME TInv, ParseError PROVE TInv'
  OBVIOUS
<1>0. /\ TypeOK /\ Log /\ Looping /\ Fresh /\ Serving /\ OpenOnly /\ Summed
      /\ TypeRoot /\ TypeCall /\ TypeLog /\ TypeRead
  BY TypeParts DEF TInv
<1>1. Log' /\ TypeLog' /\ length' = length + 1
  BY <1>0, LogEvent DEF ParseError
<1>2. TypeOK'
  <2>1. TypeRoot'
    BY <1>0, TurnIn DEF ParseError, TypeRoot, Looping, InTurn
  <2>2. TypeRuns'
    BY <1>0, TypeParts DEF ParseError, Event, TypeRuns, pastVars
  <2> QED BY <1>0, <2>1, <2>2, RootTyped DEF ParseError, Event, TypeLog, callVars, artVars
<1>3. Looping'
  BY <1>0 DEF ParseError, Event, Looping, Open, InTurn
<1>4. Fresh'
  BY <1>0, TurnIn DEF ParseError, Event, Fresh
<1>5. Serving' /\ Working'
  <2>1. call # "none" => Beside'
    BY <1>0, TurnIn DEF ParseError, Event, Serving, Beside, Ahead, Behind,
       callVars, pastVars
  <2>2. \A s \in Spans : s # RootRun => ends'[s] = ends[s]
    BY <1>0 DEF ParseError, Event, TypeLog
  <2> QED BY <2>1, <2>2, NotOfCall, ServedKept DEF ParseError, Event, callVars, pastVars
<1>6. OpenOnly'
  BY <1>0 DEF ParseError, Event, OpenOnly, There, Model, Run, callVars, pastVars, OpenRoot,
     OpenCall, Tool
<1>7. Summed'
  BY <1>0 DEF ParseError, Event, Summed, TypeLog, pastVars, Replaced, There
<1>8. Stored'
  BY StoredKept DEF ParseError, Event, artVars, callVars
<1>9. Cutting'
  BY CuttingKept DEF ParseError, pastVars
<1> QED BY <1>1, <1>2, <1>3, <1>4, <1>5, <1>6, <1>7, <1>8, <1>9 DEF TInv

\* The loop opens the span of the cell.
LEMMA StartCellKept == TInv /\ StartCell => TInv'
<1> SUFFICES ASSUME TInv, StartCell PROVE TInv'
  OBVIOUS
<1>0. /\ TypeOK /\ Log /\ Looping /\ Fresh /\ Serving /\ OpenOnly /\ Summed
      /\ TypeRoot /\ TypeCall /\ TypeLog /\ TypeRead
  BY TypeParts DEF TInv
<1>1. Log' /\ TypeLog' /\ length' = length + 1
  <2>1. Here("cell") \in Spans /\ RootRun \in started
    BY <1>0, SpanIn, TurnIn DEF StartCell, Looping, Log, InTurn, Here
  <2> QED BY <1>0, <2>1, LogStart DEF StartCell
<1>2. TypeOK'
  <2>1. TypeRoot'
    BY <1>0 DEF StartCell, TypeRoot
  <2>2. TypeRuns'
    BY <1>0, TypeParts DEF StartCell, Start, TypeRuns, pastVars
  <2> QED BY <1>0, <1>1, <2>1, <2>2, RootTyped DEF StartCell, TypeLog, callVars, artVars
<1>3. Looping'
  <2>1. Here("cell") \notin started
    BY <1>0, TurnIn DEF StartCell, Fresh, Here
  <2>2. ends[Here("cell")] = 0
    BY <1>0, <2>1, SpanIn, TurnIn DEF StartCell, Log, Looping, InTurn, Here
  <2> QED BY <1>0, <2>2 DEF StartCell, Start, Looping, Open, Here, InTurn
<1>4. Fresh'
  BY <1>0, TurnIn, LogAssumption DEF StartCell, Start, Fresh, Here
<1>5. Serving' /\ Working'
  <2>1. call # "none" => Beside'
    BY <1>0, TurnIn DEF StartCell, Start, Serving, Beside, Ahead, Behind,
       callVars, pastVars
  <2>2. \A s \in Spans : s # Here("cell") => ends'[s] = ends[s]
    BY <1>0 DEF StartCell, Start, TypeLog
  <2> QED BY <2>1, <2>2, NotOfCall, ServedKept DEF StartCell, Start, callVars, pastVars
<1>6. OpenOnly'
  BY <1>0 DEF StartCell, Start, OpenOnly, Here, There, Model, Run, callVars, pastVars, OpenRoot,
     OpenCall, Tool
<1>7. Summed'
  BY <1>0 DEF StartCell, Start, Summed, TypeLog, pastVars, Replaced, There
<1>8. Stored'
  BY StoredKept DEF StartCell, Start, artVars, callVars
<1>9. Cutting'
  BY CuttingKept DEF StartCell, pastVars
<1> QED BY <1>1, <1>2, <1>3, <1>4, <1>5, <1>6, <1>7, <1>8, <1>9 DEF TInv

\* A cell returns with the tool records of its namespace, none in the log yet.
LEMMA CellReturnsKept == TInv /\ CellReturns => TInv'
<1> SUFFICES ASSUME TInv, CellReturns PROVE TInv'
  OBVIOUS
<1>0. /\ TypeOK /\ Log /\ Looping /\ Fresh /\ Serving /\ OpenOnly /\ Summed
      /\ TypeRoot /\ TypeCall /\ TypeLog /\ TypeRead
  BY TypeParts DEF TInv
<1>1. Log' /\ TypeLog' /\ length' = length
  BY <1>0 DEF CellReturns, logVars, Log, TypeLog
<1>2. TypeOK'
  <2>1. TypeRoot'
    BY <1>0, BuffersIn DEF CellReturns, TypeRoot
  <2>2. TypeRuns'
    <3>1. Cut(buffer') \subseteq Spans
      <4> SUFFICES ASSUME NEW i \in 1 .. Len(buffer')
                   PROVE  Tool(Len(buffer') + 1 - i) \in Spans
        BY DEF Cut, Unmatched
      <4>1. buffer' \in Seq({"start", "end"}) /\ Len(buffer') =< 4
        BY BuffersIn DEF CellReturns
      <4>2. Len(buffer') \in Nat
        BY <4>1
      <4>3. Len(buffer') + 1 - i \in Tools
        BY <4>1, <4>2 DEF Tools
      <4> QED BY <1>0, <4>3, SpanIn, TurnIn DEF CellReturns, Looping, InTurn, Tool
    <3> QED BY <1>0, <3>1, TypeParts DEF CellReturns, TypeRuns
  <2> QED BY <1>0, <2>1, <2>2, RootTyped DEF CellReturns, logVars, TypeLog, callVars, artVars
<1>3. Looping'
  BY <1>0, BuffersIn DEF CellReturns, logVars, Looping, Open, Here, InTurn
<1>4. Fresh'
  BY <1>0 DEF CellReturns, logVars, Fresh, TypeRoot
<1>5. Serving' /\ Working'
  <2>1. call # "none" => Beside'
    BY <1>0, TurnIn DEF CellReturns, logVars, Serving, Beside, Ahead, Behind,
       callVars, pastVars
  <2>2. \A s \in Spans : s # RootRun => ends'[s] = ends[s]
    BY <1>0 DEF CellReturns, logVars, TypeLog
  <2> QED BY <2>1, <2>2, NotOfCall, ServedKept DEF CellReturns, logVars, callVars, pastVars
<1>6. OpenOnly'
  BY <1>0 DEF CellReturns, logVars, OpenOnly, Here, There, Model, Run, callVars, pastVars,
     OpenRoot, OpenCall, Tool
<1>7. Summed'
  BY <1>0 DEF CellReturns, logVars, Summed, pastVars, Replaced, There
<1>8. Stored'
  BY StoredKept DEF CellReturns, logVars, artVars, callVars
<1>9. Cutting'
  <2>1. Cut(buffer)' = Cut(buffer')
    BY DEF CellReturns, Cut, Unmatched, Tool
  <2> QED BY <2>1 DEF CellReturns, Cutting
<1> QED BY <1>1, <1>2, <1>3, <1>4, <1>5, <1>6, <1>7, <1>8, <1>9 DEF TInv

\* A cell that raises ends its span, and leads to the abort.
LEMMA CellRaisesKept == TInv /\ CellRaises => TInv'
<1> SUFFICES ASSUME TInv, CellRaises PROVE TInv'
  OBVIOUS
<1>0. /\ TypeOK /\ Log /\ Looping /\ Fresh /\ Serving /\ OpenOnly /\ Summed
      /\ TypeRoot /\ TypeCall /\ TypeLog /\ TypeRead
  BY TypeParts DEF TInv
<1>1. Log' /\ TypeLog' /\ length' = length + 1
  <2>1. Here("cell") \in Spans /\ Open(Here("cell"))
    BY <1>0 DEF CellRaises, Looping, Open, TypeLog
  <2> QED BY <1>0, <2>1, LogEnd DEF CellRaises
<1>2. TypeOK'
  <2>1. TypeRoot'
    BY <1>0 DEF CellRaises, TypeRoot
  <2>2. TypeRuns'
    BY <1>0, TypeParts DEF CellRaises, End, TypeRuns, pastVars
  <2> QED BY <1>0, <1>1, <2>1, <2>2, RootTyped DEF CellRaises, TypeLog, callVars, artVars
<1>3. Looping'
  BY <1>0 DEF CellRaises, End, Looping, Open, Here, InTurn, RootRun
<1>4. Fresh'
  BY <1>0 DEF CellRaises, End, Fresh
<1>5. Serving' /\ Working'
  <2>1. call # "none" => Beside'
    BY <1>0, TurnIn DEF CellRaises, End, Serving, Beside, Ahead, Behind,
       callVars, pastVars
  <2>2. \A s \in Spans : s # Here("cell") => ends'[s] = ends[s]
    BY <1>0 DEF CellRaises, End, TypeLog
  <2> QED BY <2>1, <2>2, NotOfCall, ServedKept DEF CellRaises, End, callVars, pastVars
<1>6. OpenOnly'
  BY <1>0 DEF CellRaises, End, OpenOnly, There, Model, Run, TypeLog, callVars, pastVars,
     OpenRoot, OpenCall, Tool
<1>7. Summed'
  BY <1>0 DEF CellRaises, End, Summed, TypeLog, pastVars, Replaced, There
<1>8. Stored'
  BY StoredKept DEF CellRaises, End, artVars, callVars
<1>9. Cutting'
  BY CuttingKept DEF CellRaises, pastVars
<1> QED BY <1>1, <1>2, <1>3, <1>4, <1>5, <1>6, <1>7, <1>8, <1>9 DEF TInv

\* The calls that the rest of the events cuts off are among those of the whole.
LEMMA CutTail ==
  ASSUME NEW b \in Seq({"start", "end"}), b # << >>
  PROVE  Cut(Tail(b)) \subseteq Cut(b)
<1>1. /\ Len(b) \in Nat /\ Len(Tail(b)) \in Nat /\ Len(Tail(b)) = Len(b) - 1
      /\ \A n \in 1 .. Len(Tail(b)) : Tail(b)[n] = b[n + 1]
  OBVIOUS
<1>2. \A i \in Unmatched(Tail(b)) : i + 1 \in Unmatched(b)
  <2> SUFFICES ASSUME NEW i \in Unmatched(Tail(b)) PROVE i + 1 \in Unmatched(b)
    OBVIOUS
  <2>1. i \in 1 .. Len(Tail(b)) /\ b[i + 1] = "start" /\ i + 1 \in 1 .. Len(b)
    BY <1>1 DEF Unmatched
  <2>2. ASSUME i + 1 < Len(b) PROVE b[(i + 1) + 1] = "start"
    <3>1. i + 1 \in 1 .. Len(Tail(b)) /\ Tail(b)[i + 1] = "start"
      BY <1>1, <2>1, <2>2 DEF Unmatched
    <3> QED BY <1>1, <3>1
  <2> QED BY <2>1, <2>2 DEF Unmatched
<1>3. \A i \in Unmatched(Tail(b)) : Len(Tail(b)) + 1 - i = Len(b) + 1 - (i + 1)
  <2>1. \A i \in Unmatched(Tail(b)) : i \in Int
    BY <1>1 DEF Unmatched
  <2> QED BY <1>1, <2>1
<1>4. \A x \in Cut(Tail(b)) : \E i \in Unmatched(Tail(b)) : x = Tool(Len(Tail(b)) + 1 - i)
  BY DEF Cut
<1>5. \A i \in Unmatched(b) : Tool(Len(b) + 1 - i) \in Cut(b)
  BY DEF Cut
<1>6. ASSUME NEW x \in Cut(Tail(b)) PROVE x \in Cut(b)
  <2>1. PICK i \in Unmatched(Tail(b)) : x = Tool(Len(Tail(b)) + 1 - i)
    BY <1>4
  <2>2. i + 1 \in Unmatched(b) /\ Len(Tail(b)) + 1 - i = Len(b) + 1 - (i + 1)
    BY <1>2, <1>3
  <2> QED BY <1>5, <2>1, <2>2
<1> QED BY <1>6

\* A sequence with an element is not the empty one.
LEMMA NotEmpty == \A s \in Seq({"start", "end"}) : Len(s) >= 1 => s # << >>
  OBVIOUS

\* A start whose end does not come next is cut off.
LEMMA CutHead ==
  ASSUME NEW b \in Seq({"start", "end"}), b # << >>, Head(b) = "start"
  PROVE  Tool(Len(b)) \in Cut(b) \/ (Tail(b) # << >> /\ Head(Tail(b)) = "end")
<1>1. Len(b) \in Nat /\ Len(b) >= 1 /\ b[1] = "start" /\ Len(Tail(b)) = Len(b) - 1
  OBVIOUS
<1>2. CASE Len(b) = 1 \/ b[2] = "start"
  <2>1. 1 \in Unmatched(b)
    BY <1>1, <1>2 DEF Unmatched
  <2>2. Len(b) + 1 - 1 = Len(b)
    BY <1>1
  <2> QED BY <2>1, <2>2 DEF Cut
<1>3. CASE Len(b) > 1 /\ b[2] # "start"
  <2>1. b[2] \in {"start", "end"}
    <3>1. 2 \in 1 .. Len(b)
      BY <1>1, <1>3
    <3>2. \A n \in 1 .. Len(b) : b[n] \in {"start", "end"}
      OBVIOUS
    <3> QED BY <3>1, <3>2
  <2>2. Tail(b) # << >> /\ Tail(b)[1] = b[2]
    <3>1. Len(Tail(b)) >= 1
      BY <1>1, <1>3
    <3>2. \A n \in 1 .. Len(Tail(b)) : Tail(b)[n] = b[n + 1]
      OBVIOUS
    <3>3. 1 \in 1 .. Len(Tail(b))
      BY <1>1, <3>1
    <3>5. Tail(b) \in Seq({"start", "end"})
      OBVIOUS
    <3>6. Tail(b) # << >>
      BY <3>1, <3>5, NotEmpty
    <3>4. Tail(b)[1] = b[1 + 1] /\ 1 + 1 = 2
      BY <3>2, <3>3
    <3> QED BY <3>4, <3>6
  <2>3. Head(Tail(b)) = Tail(b)[1]
    BY <2>2
  <2> QED BY <1>3, <2>1, <2>2, <2>3
<1> QED BY <1>1, <1>2, <1>3

\* The tool records are written one by one, each span once.
LEMMA RecordToolKept == ASSUME TInv, RecordTool PROVE TInv'
<1>0. /\ TypeOK /\ Log /\ Looping /\ Fresh /\ Serving /\ Working /\ OpenOnly /\ Summed
      /\ TypeRoot /\ TypeCall /\ TypeLog /\ TypeRead /\ root = "tools" /\ turn =< MaxTurns
      /\ Open(Here("cell")) /\ Open(RootRun) /\ Here("cell") \in started
  BY TypeParts DEF TInv, RecordTool, Looping, InTurn, Open
<1>a. PICK here \in Tools : /\ here = Len(buffer) /\ Tail(buffer) \in Seq({"start", "end"})
                            /\ Len(Tail(buffer)) < here
  <2>1. buffer \in Seq({"start", "end"}) /\ buffer # << >> /\ Len(buffer) =< 4
    BY <1>0 DEF RecordTool, TypeRoot, Looping
  <2>2. Len(buffer) \in Nat /\ Len(buffer) > 0
    BY <2>1
  <2>3. Tail(buffer) \in Seq({"start", "end"}) /\ Len(Tail(buffer)) = Len(buffer) - 1
    BY <2>1
  <2>4. Len(buffer) \in Tools
    <3>1. \A n \in Nat : n > 0 /\ n =< 4 => n \in Tools
      BY DEF Tools
    <3> QED BY <2>1, <2>2, <3>1
  <2>5. \A n \in Nat : n - 1 < n
    OBVIOUS
  <2> QED BY <2>2, <2>3, <2>4, <2>5
<1>b. Tool(here) \in Spans /\ Tool(here) \notin started /\ ends[Tool(here)] = 0
  <2>1. Tool(here) \in Spans
    BY <1>0, TurnIn, SpanIn DEF Tool
  <2>2. Tool(here)[1] = "tool" /\ Tool(here)[2] = turn /\ Tool(here)[3] = here
    BY DEF Tool
  <2>3. Tool(here) \notin started
    <3>1. ~(here > here)
      BY DEF Tools
    <3> QED BY <1>0, <1>a, <2>2, <3>1 DEF Fresh
  <2> QED BY <1>0, <2>1, <2>3 DEF Log
<1>c. /\ UNCHANGED <<summary, turn, root, view, callVars, slot, artVars, refs>>
      /\ UNCHANGED <<aborted, broken, left>> /\ buffer' = Tail(buffer)
  BY DEF RecordTool, pastVars
<1>d. \/ Head(buffer) = "start" /\ Start(Tool(here), Here("cell")) /\ pending' = here
      \/ pending # 0 /\ End(Tool(pending)) /\ pending' = 0
      \/ /\ length' = length + 2 /\ started' = started \cup {Tool(here)}
         /\ ends' = [ends EXCEPT ![Tool(here)] = ends[Tool(here)] + 1]
         /\ faults' = faults /\ pending = 0 /\ pending' = 0
  BY <1>0, <1>a DEF RecordTool
<1>e. \E k \in Tools : /\ started' = started \cup {Tool(k)}
                       /\ \A s \in Spans : s # Tool(k) => ends'[s] = ends[s]
                       /\ k = here \/ Tool(k) \in started
  <2>1. CASE pending # 0 /\ End(Tool(pending))
    BY <1>0, <2>1 DEF End, Looping, TypeRoot, Open
  <2> QED BY <1>0, <1>d, <2>1 DEF Start, TypeLog
<1>1. Log' /\ TypeLog' /\ length' \in Nat /\ length' >= length
  <2>0. length \in Nat
    BY <1>0 DEF TypeLog
  <2>1. CASE Start(Tool(here), Here("cell"))
    BY <1>0, <1>b, <2>0, <2>1, LogStart
  <2>2. CASE pending # 0 /\ End(Tool(pending))
    <3>1. Open(Tool(pending)) /\ Tool(pending) \in Spans
      BY <1>0, <2>2 DEF Looping, TypeLog, Open
    <3> QED BY <1>0, <2>0, <2>2, <3>1, LogEnd
  <2>3. CASE /\ length' = length + 2 /\ started' = started \cup {Tool(here)}
             /\ ends' = [ends EXCEPT ![Tool(here)] = ends[Tool(here)] + 1]
             /\ faults' = faults
    <3>1. \A s \in Spans : ends'[s] = IF s = Tool(here) THEN 1 ELSE ends[s]
      BY <1>0, <1>b, <2>3 DEF TypeLog
    <3>2. TypeLog'
      BY <1>0, <1>b, <2>3 DEF TypeLog
    <3>3. Log'
      BY <1>0, <2>3, <3>1 DEF Log
    <3> QED BY <2>0, <2>3, <3>2, <3>3
  <2> QED BY <1>d, <2>1, <2>2, <2>3
<1>2. TypeOK'
  <2>1. TypeRead'
    BY <1>0, <1>1, <1>c, ReadKept
  <2>2. TypeRoot'
    BY <1>0, <1>a, <1>c, <1>d DEF TypeRoot
  <2>3. TypeCall' /\ TypeSlot' /\ TypeArt'
    BY <1>0, <1>c, RestTyped DEF callVars, artVars
  <2>4. TypeRuns'
    BY <1>0, <1>c, TypeParts DEF TypeRuns, pastVars
  <2> QED BY <1>1, <2>1, <2>2, <2>3, <2>4, TypeJoin
<1>3. Looping'
  <2>1. Open(RootRun)' /\ Open(Here("cell"))' /\ Here("cell")' = Here("cell")
    BY <1>0, <1>c, <1>e DEF Open, RootRun, Here, Tool, TypeLog
  <2>2. pending' # 0 => /\ Tool(here) \in started' /\ ends'[Tool(here)] = 0
                        /\ pending' = here
    BY <1>b, <1>d DEF Start
  <2>3. Len(buffer') < here /\ here =< 4 /\ Len(buffer') \in Nat
    BY <1>a, <1>c DEF Tools
  <2>4. pending' # 0 => Open(Tool(pending))'
    BY <1>c, <2>2 DEF Open, Tool
  <2>5. pending' # 0 => pending' > Len(buffer')
    BY <2>2, <2>3 DEF Tools
  <2>6. Len(buffer') =< 4
    BY <2>3 DEF Tools
  <2> QED BY <1>0, <1>c, <2>1, <2>4, <2>5 DEF Looping
<1>4. Fresh'
  <2>1. \A s \in started' : s \in started \/ s = <<"tool", turn, here>>
    BY <1>e DEF Tool
  <2>2. Len(buffer') < here /\ Len(buffer') \in Nat /\ turn \in Nat
    BY <1>0, <1>a, <1>c, TurnIn
  <2>3. \A s \in started : s[1] = "tool" => s[3] \in Tools
    BY <1>0, TurnIn, SpanOf
  <2>4. \A s \in started : s \in started'
    BY <1>e
  <2> QED BY <1>0, <1>c, <2>1, <2>2, <2>3, <2>4 DEF Fresh, Tools
<1>5. Serving' /\ Working'
  <2>1. call # "none" => Beside'
    BY <1>0, <1>c, TurnIn DEF Serving, Beside, Ahead, Behind, callVars
  <2>2. PICK k \in Tools : /\ started' = started \cup {Tool(k)}
                           /\ \A s \in Spans : s # Tool(k) => ends'[s] = ends[s]
    BY <1>e
  <2> QED BY <1>c, <2>1, <2>2, NotOfCall, ServedKept DEF callVars
<1>6. OpenOnly'
  <2> DEFINE S == {Tool(k) : k \in Tools}
  <2>1. \A s \in started : ends[s] = 0 =>
          \/ s \in aborted \cup broken \/ s = RootRun \/ s = Here("cell") \/ OpenCall(s)
          \/ s = Tool(pending) /\ pending # 0
    BY <1>0 DEF OpenOnly, OpenRoot
  <2>2. \A s : OpenCall(s) <=> OpenCall(s)'
    BY <1>c DEF OpenCall, There, Model, Run, callVars
  <2>3. Here("cell")' = Here("cell") /\ \A k : Tool(k)' = Tool(k)
    BY <1>c DEF Here, Tool
  <2>4. \A s \in started' : ends'[s] = 0 =>
          \/ s \in aborted \cup broken \/ s = RootRun \/ s = Here("cell") \/ OpenCall(s)
          \/ pending' # 0 /\ s = Tool(pending')
    <3>1. CASE Head(buffer) = "start" /\ Start(Tool(here), Here("cell")) /\ pending' = here
      <4>1. pending # 0 => Tool(pending) \in broken
        BY <1>0, <3>1 DEF TInv, Cutting
      <4>2. here # 0
        BY DEF Tools
      <4> QED BY <2>1, <3>1, <4>1, <4>2 DEF Start
    <3>2. CASE pending # 0 /\ End(Tool(pending)) /\ pending' = 0
      <4>1. /\ started' = started /\ Tool(pending) \in Spans
            /\ ends'[Tool(pending)] = ends[Tool(pending)] + 1 /\ ends[Tool(pending)] = 0
            /\ \A s \in Spans : s # Tool(pending) => ends'[s] = ends[s]
        BY <1>0, <3>2 DEF End, Looping, TypeLog, Open
      <4>2. \A s \in started : s \in Spans
        BY <1>0 DEF TypeLog
      <4> QED BY <2>1, <4>1, <4>2
    <3>3. CASE /\ started' = started \cup {Tool(here)} /\ pending = 0
               /\ ends' = [ends EXCEPT ![Tool(here)] = ends[Tool(here)] + 1]
      <4>1. /\ ends'[Tool(here)] = 1
            /\ \A s \in Spans : s # Tool(here) => ends'[s] = ends[s]
        BY <1>0, <1>b, <3>3 DEF TypeLog
      <4>2. \A s \in started : s \in Spans
        BY <1>0 DEF TypeLog
      <4> QED BY <2>1, <3>3, <4>1, <4>2
    <3> QED BY <1>d, <3>1, <3>2, <3>3
  <2>5. \A s : s \in aborted \cup broken <=> s \in aborted' \cup broken'
    BY <1>c
  <2> QED BY <1>0, <1>c, <2>2, <2>3, <2>4, <2>5 DEF OpenOnly, OpenRoot
<1>7. Summed'
  BY <1>0, <1>1, <1>c DEF Summed, TypeLog, pastVars, Replaced, There
<1>8. Stored'
  BY <1>c, StoredKept DEF artVars, callVars
<1>9. Cutting'
  <2>1. buffer \in Seq({"start", "end"}) /\ buffer # << >> /\ Cut(buffer) \subseteq broken
    BY <1>0 DEF RecordTool, TypeRoot, TInv, Cutting
  <2>2. \A k : Tool(k)' = Tool(k)
    BY <1>c DEF Tool
  <2>3. Cut(buffer)' \subseteq broken'
    BY <1>c, <2>1, <2>2, CutTail DEF Cut, Unmatched
  <2>5. pending' # 0 => Head(buffer) = "start" /\ pending' = here
    BY <1>d
  <2> QED BY <1>a, <1>c, <2>1, <2>2, <2>3, <2>5, CutHead DEF Cutting
<1> QED BY <1>1, <1>2, <1>3, <1>4, <1>5, <1>6, <1>7, <1>8, <1>9 DEF TInv

\* The cell's span ends when its records are written.
LEMMA EndCellKept == TInv /\ EndCell => TInv'
<1> SUFFICES ASSUME TInv, EndCell PROVE TInv'
  OBVIOUS
<1>0. /\ TypeOK /\ Log /\ Looping /\ Fresh /\ Serving /\ OpenOnly /\ Summed
      /\ TypeRoot /\ TypeCall /\ TypeLog /\ TypeRead
  BY TypeParts DEF TInv
<1>1. Log' /\ TypeLog' /\ length' = length + 1
  <2>1. Here("cell") \in Spans /\ Open(Here("cell"))
    BY <1>0 DEF EndCell, Looping, Open, TypeLog
  <2> QED BY <1>0, <2>1, LogEnd DEF EndCell
<1>2. TypeOK'
  <2>1. TypeRoot'
    BY <1>0, TurnIn DEF EndCell, TypeRoot, Looping, InTurn
  <2>2. TypeRuns'
    BY <1>0, TypeParts DEF EndCell, End, TypeRuns, pastVars
  <2> QED BY <1>0, <1>1, <2>1, <2>2, RootTyped DEF EndCell, TypeLog, callVars, artVars
<1>3. Looping'
  BY <1>0 DEF EndCell, End, Looping, Open, Here, InTurn, RootRun
<1>4. Fresh'
  BY <1>0, TurnIn DEF EndCell, End, Fresh
<1>5. Serving' /\ Working'
  <2>1. call # "none" => Beside'
    BY <1>0, TurnIn DEF EndCell, End, Serving, Beside, Ahead, Behind,
       callVars, pastVars
  <2>2. \A s \in Spans : s # Here("cell") => ends'[s] = ends[s]
    BY <1>0 DEF EndCell, End, TypeLog
  <2> QED BY <2>1, <2>2, NotOfCall, ServedKept DEF EndCell, End, callVars, pastVars
<1>6. OpenOnly'
  <2>1. pending # 0 => Tool(pending) \in broken
    BY DEF EndCell, TInv, Cutting
  <2>2. /\ started' = started /\ ends'[Here("cell")] # 0
        /\ \A s \in started : s # Here("cell") => ends'[s] = ends[s]
    BY <1>0 DEF EndCell, End, Looping, Open, TypeLog
  <2>3. \A s : OpenCall(s) => OpenCall(s)'
    BY DEF EndCell, OpenCall, There, Model, Run, callVars
  <2>4. \A s : OpenRoot(s) /\ s # Here("cell") => OpenRoot(s)'
    BY <2>1 DEF EndCell, OpenRoot, pastVars
  <2> QED BY <1>0, <2>2, <2>3, <2>4 DEF OpenOnly
<1>7. Summed'
  BY <1>0 DEF EndCell, End, Summed, TypeLog, pastVars, Replaced, There
<1>8. Stored'
  BY StoredKept DEF EndCell, End, artVars, callVars
<1>9. Cutting'
  BY CuttingKept DEF EndCell, pastVars
<1> QED BY <1>1, <1>2, <1>3, <1>4, <1>5, <1>6, <1>7, <1>8, <1>9 DEF TInv

\* The root's run ends.
LEMMA FinishKept == TInv /\ Finish => TInv'
<1> SUFFICES ASSUME TInv, Finish PROVE TInv'
  OBVIOUS
<1>0. /\ TypeOK /\ Log /\ Looping /\ Fresh /\ Serving /\ OpenOnly /\ Summed
      /\ TypeRoot /\ TypeCall /\ TypeLog /\ TypeRead
  BY TypeParts DEF TInv
<1>1. Log' /\ TypeLog' /\ length' = length + 1
  <2>1. RootRun \in Spans /\ Open(RootRun)
    BY <1>0 DEF Finish, Looping, Open, TypeLog
  <2> QED BY <1>0, <2>1, LogEnd DEF Finish
<1>2. TypeOK'
  <2>1. TypeRoot'
    BY <1>0 DEF Finish, TypeRoot
  <2>2. TypeRuns'
    BY <1>0, TypeParts DEF Finish, End, TypeRuns, pastVars
  <2> QED BY <1>0, <1>1, <2>1, <2>2, RootTyped DEF Finish, TypeLog, callVars, artVars
<1>3. Looping'
  BY DEF Finish, Looping, InTurn
<1>4. Fresh'
  BY <1>0 DEF Finish, End, Fresh
<1>5. Serving' /\ Working'
  <2>1. call # "none" => Beside'
    BY <1>0, TurnIn DEF Finish, End, Serving, Beside, Ahead, Behind,
       callVars, pastVars
  <2>2. \A s \in Spans : s # RootRun => ends'[s] = ends[s]
    BY <1>0 DEF Finish, End, TypeLog
  <2> QED BY <2>1, <2>2, NotOfCall, ServedKept DEF Finish, End, callVars, pastVars
<1>6. OpenOnly'
  BY <1>0 DEF Finish, End, OpenOnly, There, Model, Run, TypeLog, callVars, pastVars, OpenRoot,
     OpenCall, Tool
<1>7. Summed'
  BY <1>0 DEF Finish, End, Summed, TypeLog, pastVars, Replaced, There
<1>8. Stored'
  BY StoredKept DEF Finish, End, artVars, callVars
<1>9. Cutting'
  BY CuttingKept DEF Finish, pastVars
<1> QED BY <1>1, <1>2, <1>3, <1>4, <1>5, <1>6, <1>7, <1>8, <1>9 DEF TInv

\* The abort is an event; the root's run stays open.
LEMMA AbortKept == TInv /\ Abort => TInv'
<1> SUFFICES ASSUME TInv, Abort PROVE TInv'
  OBVIOUS
<1>0. /\ TypeOK /\ Log /\ Looping /\ Fresh /\ Serving /\ OpenOnly /\ Summed
      /\ TypeRoot /\ TypeCall /\ TypeLog /\ TypeRead
  BY TypeParts DEF TInv
<1>1. Log' /\ TypeLog' /\ length' = length + 1
  BY <1>0, LogEvent DEF Abort
<1>2. TypeOK'
  <2>1. TypeRoot'
    BY <1>0 DEF Abort, TypeRoot
  <2>2. TypeRuns'
    BY <1>0, TypeParts DEF Abort, TypeRuns, TypeLog, Log, pastVars
  <2> QED BY <1>0, <2>1, <2>2, RootTyped DEF Abort, Event, TypeLog, callVars, artVars
<1>3. Looping'
  BY <1>0 DEF Abort, Event, Looping, Open, InTurn
<1>4. Fresh'
  BY <1>0 DEF Abort, Event, Fresh
<1>5. Serving' /\ Working'
  <2>1. call # "none" => Beside'
    BY <1>0, TurnIn DEF Abort, Event, Serving, Beside, Ahead, Behind,
       callVars, pastVars
  <2>2. \A s \in Spans : s # RootRun => ends'[s] = ends[s]
    BY <1>0 DEF Abort, Event, TypeLog
  <2> QED BY <2>1, <2>2, NotOfCall, ServedKept DEF Abort, Event, callVars, pastVars
<1>6. OpenOnly'
  BY <1>0 DEF Abort, Event, OpenOnly, Here, There, Model, Run, callVars, pastVars, OpenRoot,
     OpenCall, Tool
<1>7. Summed'
  BY <1>0 DEF Abort, Event, Summed, TypeLog, pastVars, Replaced, There
<1>8. Stored'
  BY StoredKept DEF Abort, Event, artVars, callVars
<1>9. Cutting'
  BY CuttingKept DEF Abort, pastVars
<1> QED BY <1>1, <1>2, <1>3, <1>4, <1>5, <1>6, <1>7, <1>8, <1>9 DEF TInv

\* The log is read for the summary.
LEMMA ReadForSummaryKept == TInv /\ ReadForSummary => TInv'
<1> SUFFICES ASSUME TInv, ReadForSummary PROVE TInv'
  OBVIOUS
<1>0. /\ TypeOK /\ Log /\ Looping /\ Fresh /\ Serving /\ OpenOnly /\ Summed
      /\ TypeRoot /\ TypeCall /\ TypeLog /\ TypeRead
  BY TypeParts DEF TInv
<1>1. Log' /\ TypeLog' /\ length' = length
  BY <1>0 DEF ReadForSummary, logVars, Log, TypeLog
<1>2. TypeOK'
  <2>1. TypeRead'
    BY <1>0 DEF ReadForSummary, ReadLog, logVars, TypeRead, TypeLog
  <2>2. TypeRoot'
    BY <1>0 DEF ReadForSummary, rootVars, TypeRoot
  <2>3. TypeCall' /\ TypeSlot' /\ TypeArt'
    BY <1>0, RestTyped DEF ReadForSummary, callVars, artVars
  <2>4. TypeRuns'
    BY <1>0, TypeParts DEF ReadForSummary, TypeRuns, pastVars
  <2> QED BY <1>1, <2>1, <2>2, <2>3, <2>4, TypeJoin
<1>3. Looping'
  BY <1>0 DEF ReadForSummary, logVars, rootVars, Looping, Open
<1>4. Fresh'
  BY <1>0 DEF ReadForSummary, logVars, rootVars, Fresh
<1>5. Serving' /\ Working'
  <2>1. call # "none" => Beside'
    BY <1>0, TurnIn DEF ReadForSummary, logVars, rootVars, Serving, Beside, Ahead, Behind,
       callVars, pastVars
  <2>2. \A s \in Spans : s # RootRun => ends'[s] = ends[s]
    BY <1>0 DEF ReadForSummary, logVars, rootVars, TypeLog
  <2> QED BY <2>1, <2>2, NotOfCall, ServedKept DEF ReadForSummary, logVars, rootVars, callVars,
     pastVars
<1>6. OpenOnly'
  BY <1>0 DEF ReadForSummary, logVars, rootVars, OpenOnly, Here, There, Model, Run, callVars,
     pastVars, OpenRoot, OpenCall, Tool
<1>7. Summed'
  BY <1>0 DEF ReadForSummary, ReadLog, logVars, rootVars, Summed, pastVars, Replaced, There
<1>8. Stored'
  BY StoredKept DEF ReadForSummary, artVars, callVars
<1>9. Cutting'
  BY CuttingKept DEF ReadForSummary, rootVars, pastVars
<1> QED BY <1>1, <1>2, <1>3, <1>4, <1>5, <1>6, <1>7, <1>8, <1>9 DEF TInv

\* The summary is of the log that was read, which nobody has added to.
LEMMA RootSummaryKept == TInv /\ RootSummary => TInv'
<1> SUFFICES ASSUME TInv, RootSummary PROVE TInv'
  OBVIOUS
<1>0. /\ TypeOK /\ Log /\ Looping /\ Fresh /\ Serving /\ OpenOnly /\ Summed
      /\ TypeRoot /\ TypeCall /\ TypeLog /\ TypeRead
  BY TypeParts DEF TInv
<1>1. Log' /\ TypeLog' /\ length' = length
  BY <1>0 DEF RootSummary, logVars, Log, TypeLog
<1>2. TypeOK'
  <2>1. TypeRead'
    BY <1>0 DEF RootSummary, WriteSummary, logVars, TypeRead, TypeLog
  <2>2. TypeRoot'
    BY <1>0 DEF RootSummary, TypeRoot
  <2>3. TypeCall' /\ TypeSlot' /\ TypeArt'
    BY <1>0, RestTyped DEF RootSummary, callVars, artVars
  <2>4. TypeRuns'
    BY <1>0, TypeParts DEF RootSummary, TypeRuns, pastVars
  <2> QED BY <1>1, <2>1, <2>2, <2>3, <2>4, TypeJoin
<1>3. Looping'
  BY <1>0 DEF RootSummary, logVars, Looping, Open, InTurn
<1>4. Fresh'
  BY <1>0 DEF RootSummary, logVars, Fresh
<1>5. Serving' /\ Working'
  <2>1. call # "none" => Beside'
    BY <1>0, TurnIn DEF RootSummary, logVars, Serving, Beside, Ahead, Behind,
       callVars, pastVars
  <2>2. \A s \in Spans : s # RootRun => ends'[s] = ends[s]
    BY <1>0 DEF RootSummary, logVars, TypeLog
  <2> QED BY <2>1, <2>2, NotOfCall, ServedKept DEF RootSummary, logVars, callVars, pastVars
<1>6. OpenOnly'
  BY <1>0 DEF RootSummary, logVars, OpenOnly, Here, There, Model, Run, callVars, pastVars,
     OpenRoot, OpenCall, Tool
<1>7. Summed'
  BY <1>0 DEF RootSummary, WriteSummary, logVars, Summed, pastVars, Replaced, There
<1>8. Stored'
  BY StoredKept DEF RootSummary, artVars, callVars
<1>9. Cutting'
  BY CuttingKept DEF RootSummary, pastVars
<1> QED BY <1>1, <1>2, <1>3, <1>4, <1>5, <1>6, <1>7, <1>8, <1>9 DEF TInv

-----------------------------------------------------------------------------
(* The slots *)

Pcs == {"idle", "start", "turn", "model", "write", "read", "list", "capture", "ran", "abort",
        "partial", "summary", "done"}

Work == [pc : Pcs, kind : {"leaf", "child"}, next : 1..3,
         kept : SUBSET Texts, seen : SUBSET Items]

\* A step of w on its slot leaves the others alone.
LEMMA SlotIs ==
  ASSUME TypeSlot, NEW w \in Slots, NEW r \in Work, slot' = [slot EXCEPT ![w] = r]
  PROVE  /\ TypeSlot' /\ \A u \in Slots : u # w => slot'[u] = slot[u]
         /\ slot'[w] = r
<1>1. TypeSlot'
  BY DEF TypeSlot, Pcs, Work
<1> QED BY <1>1 DEF TypeSlot

\* A slot moves on, and keeps what it has.
LEMMA GotoIs ==
  ASSUME TypeSlot, NEW w \in Slots, NEW pc \in Pcs, Goto(w, pc)
  PROVE  /\ TypeSlot' /\ \A u \in Slots : u # w => slot'[u] = slot[u]
         /\ slot'[w].pc = pc /\ slot'[w].kind = slot[w].kind /\ slot'[w].next = slot[w].next
         /\ slot'[w].kept = slot[w].kept /\ slot'[w].seen = slot[w].seen
<1>1. slot[w] \in Work
  BY DEF TypeSlot, Pcs, Work
<1>2. slot' = [slot EXCEPT ![w] = [slot[w] EXCEPT !.pc = pc]]
  BY DEF Goto
<1>3. [slot[w] EXCEPT !.pc = pc] \in Work
  BY <1>1 DEF Work
<1>4. /\ TypeSlot' /\ \A u \in Slots : u # w => slot'[u] = slot[u]
      /\ slot'[w] = [slot[w] EXCEPT !.pc = pc]
  BY <1>2, <1>3, SlotIs
<1> QED BY <1>1, <1>4 DEF Work

\* A slot in work serves a call, whose span is open.
LEMMA InWork ==
  ASSUME TypeOK, Serving, NEW w \in Slots, slot[w].pc \in Busy
  PROVE  /\ call \in {"single", "batch"} /\ Beside /\ at \in Turns
         /\ at \in Nat /\ turn \in Nat
         /\ Opened \in started /\ There("callback", Root) \in started
<1>1. call \in {"single", "batch"}
  BY DEF Serving, pastVars
<1>2. Beside
  BY <1>1 DEF Serving, pastVars
<1>3. at \in Turns /\ at \in Nat /\ turn \in Nat
  BY TypeParts, TurnIn DEF TypeCall
<1> QED BY <1>1, <1>2, <1>3 DEF Serving, Opened, Open, pastVars

\* The loop does not see what the slots do: their spans are not its own.
LEMMA LoopingKept ==
  ASSUME TInv, NEW x, UNCHANGED <<turn, root, buffer, pending>>,
         x[1] \in {"callback", "batch"} \/ (x[1] # "tool" /\ x[3] \in Slots),
         started \subseteq started', \A s \in Spans : s # x => ends'[s] = ends[s]
  PROVE  Looping'
<1>0. Looping /\ TypeOK /\ TypeLog
  BY TypeParts DEF TInv
<1>1. \A s \in started : s \in Spans
  BY <1>0 DEF TypeLog
<1>2. RootRun # x /\ Here("model") # x /\ Here("cell") # x /\ Tool(pending) # x
  BY LogAssumption DEF RootRun, Here, Tool
<1> QED BY <1>0, <1>1, <1>2 DEF Looping, Open, Here, Tool

\* A capture that has seen room and not yet counted its artifact is a writer.
LEMMA Writers ==
  /\ IsFiniteSet(Writing) /\ Cardinality(Writing) \in Nat /\ Cardinality(Slots) \in Nat
  /\ \A W \in SUBSET Slots :
       IsFiniteSet(W) /\ Cardinality(W) \in Nat /\ Cardinality(W) =< Cardinality(Slots)
<1>1. Writing \subseteq Slots
  BY DEF Writing
<1> QED BY <1>1, FS_Subset, FS_CardinalityType, LogAssumption

\* A step of a thread that is not about to write, and does not start to.
LEMMA SameWriters ==
  ASSUME NEW w \in Slots, slot[w].pc # "write", slot'[w].pc # "write",
         \A u \in Slots : u # w => slot'[u] = slot[u]
  PROVE  Writing' = Writing
BY DEF Writing

-----------------------------------------------------------------------------
(* The calls *)

\* A call starts its slots from nothing.
LEMMA LaunchIs ==
  ASSUME NEW S, Launch(S)
  PROVE  /\ TypeSlot'
         /\ \A s \in Slots : /\ slot'[s].pc \in {"idle", "start"} /\ slot'[s].kept = {}
                             /\ slot'[s].seen = {}
<1>1. Idle \in Work /\ Idle.pc = "idle" /\ Idle.kept = {} /\ Idle.seen = {}
  BY DEF Idle, Work, Pcs
<1>2. \A k \in {"leaf", "child"} :
        LET r == [Idle EXCEPT !.pc = "start", !.kind = k] IN
        r \in Work /\ r.pc = "start" /\ r.kept = {} /\ r.seen = {}
  BY <1>1 DEF Work, Pcs
<1>3. slot' \in [Slots -> {Idle} \cup
                   {[Idle EXCEPT !.pc = "start", !.kind = k] : k \in {"leaf", "child"}}]
  BY DEF Launch, Launched
<1>4. \A s \in Slots : /\ slot'[s] \in Work
                       /\ slot'[s].pc \in {"idle", "start"} /\ slot'[s].kept = {}
                       /\ slot'[s].seen = {}
  <2> SUFFICES ASSUME NEW s \in Slots
               PROVE  /\ slot'[s] \in Work
                      /\ slot'[s].pc \in {"idle", "start"} /\ slot'[s].kept = {}
                      /\ slot'[s].seen = {}
    OBVIOUS
  <2>1. \/ slot'[s] = Idle
        \/ \E k \in {"leaf", "child"} : slot'[s] = [Idle EXCEPT !.pc = "start", !.kind = k]
    BY <1>3
  <2> QED BY <1>1, <1>2, <2>1
<1>5. TypeSlot'
  BY <1>3, <1>4 DEF TypeSlot, Work, Pcs
<1> QED BY <1>4, <1>5

\* Between calls nothing is being captured.
LEMMA QuietSlots ==
  ASSUME TInv, call \notin {"single", "batch"}
  PROVE  /\ \A s \in Slots : slot[s].pc \notin Busy /\ slot[s].kept = {}
         /\ Writing = {}
<1>1. \A s \in Slots : slot[s].pc \notin Busy
  BY DEF TInv, Serving, pastVars
<1> QED BY <1>1 DEF TInv, Stored, Busy, Writing

\* A call is launched with nothing kept and nothing to be written.
LEMMA StoredLaunch ==
  ASSUME TInv, call \notin {"single", "batch"}, NEW S, Launch(S),
         UNCHANGED <<files, bytes, manifest, refs>>
  PROVE  Stored'
<1>1. Writing = {} /\ Writing' = {}
  BY LaunchIs, QuietSlots DEF Writing
<1>2. \A s \in Slots : /\ slot'[s].pc \in {"idle", "start"} /\ slot'[s].kept = {}
                       /\ slot'[s].seen = {}
  BY LaunchIs
<1> QED BY <1>1, <1>2 DEF TInv, Stored

\* Nothing of a call that was not made in this turn is in the log.
LEMMA NoCallYet ==
  ASSUME TInv, Here("callback") \notin started
  PROVE  \A s \in started : s[2] = turn => s[1] # "batch" /\ (s[1] = "tool" \/ s[3] \notin Slots)
BY DEF TInv, Fresh, Here

\* A call opens its span under the cell of the turn.
LEMMA CallOpens ==
  ASSUME TInv, MayCall, Start(Here("callback"), Here("cell")), at' = turn,
         UNCHANGED <<rootVars, pastVars>>,
         call' \in {"single", "opening"}, UNCHANGED <<summary, view>>
  PROVE  /\ Log' /\ TypeLog' /\ TypeRead' /\ TypeRoot' /\ TypeCall' /\ TypeRuns'
         /\ Looping' /\ Cutting' /\ Fresh' /\ Summed' /\ OpenOnly'
         /\ Open(There("callback", Root))' /\ at' \in 1 .. MaxTurns /\ Beside'
<1>0. /\ TypeOK /\ Log /\ Looping /\ Fresh /\ Serving /\ OpenOnly /\ Summed
      /\ TypeRoot /\ TypeCall /\ TypeLog /\ root = "cell" /\ call = "none"
  BY TypeParts DEF TInv, MayCall
<1>a. turn \in Turns /\ turn \in 1 .. MaxTurns /\ turn \in Nat
  BY <1>0, TurnIn, LogAssumption DEF Looping, InTurn
<1>b. Here("callback") \in Spans /\ Here("callback") \notin started /\ ends[Here("callback")] = 0
  BY <1>0, <1>a, SpanIn DEF MayCall, Here, Log
<1>1. Log' /\ TypeLog' /\ length' = length + 1
  <2>1. Here("cell") \in started
    BY <1>0 DEF Looping, Open
  <2> QED BY <1>0, <1>b, <2>1, LogStart
<1>2. TypeRead'
  BY <1>0, <1>1, ReadKept DEF TypeLog
<1>3. TypeRoot' /\ TypeCall' /\ TypeRuns'
  BY <1>0, <1>a, TypeParts DEF rootVars, TypeRoot, TypeCall, TypeRuns, pastVars
<1>4. Looping'
  <2>1. Here("callback")[1] = "callback"
    BY DEF Here
  <2> QED BY <2>1, LoopingKept DEF Start, rootVars
<1>5. Fresh'
  <2>1. \A s \in started : s[2] \in Nat
    BY <1>0, TurnIn
  <2>2. Here("callback") = <<"callback", turn, Root>> /\ Root \notin Slots
    BY LogAssumption DEF Here
  <2> QED BY <1>0, <1>a, <2>2 DEF Start, rootVars, Fresh
<1>6. Summed'
  BY <1>0, <1>1 DEF Summed, rootVars, TypeLog, pastVars, Replaced, There
<1>7. There("callback", Root)' = Here("callback") /\ Open(There("callback", Root))'
  BY <1>b DEF Start, There, Here, Open
<1>8. OpenOnly'
  <2>1. \A s \in Slots : slot[s].pc \notin Busy
    BY <1>0, QuietSlots
  <2>2. \A s \in started : ends[s] = 0 =>
           \/ s \in aborted \cup broken \/ s = RootRun \/ s = Here("cell")
    BY <1>0, <2>1 DEF OpenOnly, Busy, Capturing, pastVars, OpenRoot, OpenCall, Tool
  <2>3. Here("cell")' = Here("cell")
    BY DEF Here, rootVars
  <2> QED BY <1>0, <1>7, <2>2, <2>3 DEF OpenOnly, Start, rootVars, pastVars, OpenRoot, OpenCall,
     Tool
<1>10. Beside'
  BY <1>0, <1>a DEF Beside, Ahead, Behind, rootVars
<1>9. Cutting'
  BY CuttingKept DEF rootVars, pastVars
<1> QED BY <1>0, <1>a, <1>1, <1>2, <1>3, <1>4, <1>5, <1>6, <1>7, <1>8, <1>9, <1>10 DEF rootVars

\* A single call launches one slot.
LEMMA StartSingleKept == ASSUME TInv, StartSingle PROVE TInv'
<1>0. PICK s \in Slots : Launch({s})
  BY DEF StartSingle
<1>1. /\ MayCall /\ Start(Here("callback"), Here("cell")) /\ at' = turn /\ call' = "single"
      /\ UNCHANGED <<rootVars, pastVars>> /\ UNCHANGED <<summary, view>>
      /\ UNCHANGED <<files, bytes, manifest, refs>> /\ call = "none"
      /\ Here("callback") \notin started
  BY DEF StartSingle, MayCall, artVars
<1>2. /\ Log' /\ TypeLog' /\ TypeRead' /\ TypeRoot' /\ TypeCall' /\ TypeRuns'
      /\ Looping' /\ Cutting' /\ Fresh' /\ Summed' /\ OpenOnly'
      /\ Open(There("callback", Root))' /\ at' \in 1 .. MaxTurns /\ Beside'
  BY <1>1, CallOpens
<1>3. TypeOK'
  <2>1. TypeSlot'
    BY <1>0, LaunchIs
  <2>2. TypeArt'
    BY <1>1, TypeParts DEF TInv, TypeArt
  <2> QED BY <1>2, <2>1, <2>2, TypeJoin
<1>4. Serving'
  BY <1>1, <1>2 DEF Serving, rootVars
<1>5. Working'
  <2>1. \A w \in Slots : slot'[w].pc \in {"idle", "start"}
    BY <1>0, LaunchIs
  <2>2. \A x \in started' : \A w \in Slots : x[2] = at' /\ x[3] = w => x[1] = "tool"
    BY <1>1, NoCallYet, LogAssumption DEF Start, Here
  <2> QED BY <2>1, <2>2 DEF Working, Capturing, pastVars
<1>6. Stored'
  BY <1>0, <1>1, StoredLaunch
<1> QED BY <1>2, <1>3, <1>4, <1>5, <1>6 DEF TInv

\* A batch opens its span before its slots.
LEMMA StartBatchKept == ASSUME TInv, StartBatch PROVE TInv'
<1>1. CASE MayCall /\ call' = "opening"
  <2>1. /\ MayCall /\ Start(Here("callback"), Here("cell")) /\ at' = turn /\ call' = "opening"
        /\ UNCHANGED <<rootVars, pastVars>> /\ UNCHANGED <<summary, view>>
        /\ UNCHANGED <<files, bytes, manifest, refs, slot>> /\ call = "none"
        /\ Here("callback") \notin started
    BY <1>1 DEF StartBatch, MayCall, artVars
  <2>2. /\ Log' /\ TypeLog' /\ TypeRead' /\ TypeRoot' /\ TypeCall' /\ TypeRuns'
        /\ Looping' /\ Cutting' /\ Fresh' /\ Summed' /\ OpenOnly'
        /\ Open(There("callback", Root))' /\ at' \in 1 .. MaxTurns /\ Beside'
    BY <2>1, CallOpens
  <2>3. TypeOK'
    <3>1. TypeSlot' /\ TypeArt'
      BY <2>1, TypeParts DEF TInv, TypeArt, TypeSlot
    <3> QED BY <2>2, <3>1, TypeJoin
  <2>q. /\ \A s \in Slots : slot[s].pc \notin Busy /\ slot[s].kept = {}
        /\ Writing = {}
    BY <2>1, QuietSlots
  <2>4. Serving'
    <3>1. \A x \in started' : x[2] = at' => x[1] # "batch" /\ (x[1] = "tool" \/ x[3] \notin Slots)
      BY <2>1, NoCallYet, LogAssumption DEF Start, Here
    <3> QED BY <2>1, <2>2, <2>q, <3>1 DEF Serving, rootVars
  <2>5. Working'
    BY <2>1, <2>q DEF Working, Busy, Capturing, pastVars
  <2>6. Stored'
    <3>1. Writing' = Writing
      BY <2>1 DEF Writing
    <3> QED BY <2>1, <2>q, <3>1 DEF TInv, Stored, Busy
  <2> QED BY <2>2, <2>3, <2>4, <2>5, <2>6 DEF TInv
<1>2. CASE call = "opening" /\ call' = "batch"
  <2>0. /\ TypeOK /\ Log /\ Looping /\ Fresh /\ Serving /\ OpenOnly /\ Summed
        /\ TypeRoot /\ TypeCall /\ TypeLog /\ TypeArt /\ TypeRuns
    BY TypeParts DEF TInv
  <2>1. /\ Start(There("batch", Root), There("callback", Root)) /\ Launch(Slots)
        /\ UNCHANGED <<at, rootVars, pastVars, summary, view, files, bytes, manifest, refs>>
    BY <1>2 DEF StartBatch, MayCall, artVars
  <2>2. /\ Beside /\ at \in Turns /\ at \in 1 .. MaxTurns /\ Open(There("callback", Root))
        /\ \A s \in started : s[2] = at => s[1] # "batch" /\ (s[1] = "tool" \/ s[3] \notin Slots)
    BY <1>2, <2>0 DEF Serving, TypeCall, pastVars
  <2>3. There("batch", Root) \in Spans /\ There("batch", Root) = <<"batch", at, Root>>
    BY <2>2, SpanIn DEF There
  <2>4. There("batch", Root) \notin started /\ ends[There("batch", Root)] = 0
    BY <2>0, <2>2, <2>3 DEF Log
  <2>5. Log' /\ TypeLog' /\ length' = length + 1
    BY <2>0, <2>1, <2>2, <2>3, LogStart DEF Open
  <2>6. TypeOK'
    <3>1. TypeRead'
      BY <2>0, <2>1, <2>5, ReadKept DEF TypeLog
    <3>2. TypeRoot' /\ TypeCall' /\ TypeArt' /\ TypeRuns'
      BY <1>2, <2>0, <2>1 DEF rootVars, TypeRoot, TypeCall, TypeArt, TypeRuns, pastVars
    <3>3. TypeSlot'
      BY <2>1, LaunchIs
    <3> QED BY <2>5, <3>1, <3>2, <3>3, TypeJoin
  <2>7. Looping'
    <3>1. There("batch", Root)[1] = "batch"
      BY DEF There
    <3> QED BY <2>1, <3>1, LoopingKept DEF Start, rootVars
  <2>8. Fresh'
    <3>1. \A s \in started : s[2] \in Nat
      BY <2>0, TurnIn
    <3>2. <<"callback", at, Root>> \in started /\ turn \in Nat
      BY <2>0, <2>2, TurnIn DEF Open, There
    <3> QED BY <2>0, <2>1, <2>3, <3>2 DEF Start, rootVars, Fresh, Here
  <2>9. Serving'
    <3>1. Open(There("callback", Root))' /\ Open(There("batch", Root))'
      BY <2>1, <2>2, <2>4 DEF Start, Open, There
    <3> QED BY <1>2, <2>1, <2>2, <3>1
         DEF Serving, Beside, Ahead, Behind, rootVars, pastVars
  <2>10. Working'
    <3>1. \A w \in Slots : slot'[w].pc \in {"idle", "start"}
      BY <2>1, LaunchIs
    <3>2. \A x \in started' : \A w \in Slots : x[2] = at' /\ x[3] = w => x[1] = "tool"
      BY <2>1, <2>2, <2>3, LogAssumption DEF Start
    <3> QED BY <3>1, <3>2 DEF Working, Capturing, pastVars
  <2>11. OpenOnly'
    <3>1. \A s \in Slots : slot[s].pc \notin Busy
      BY <1>2, QuietSlots
    <3>2. \A s \in started : ends[s] = 0 => OpenRoot(s) \/ s = There("callback", Root)
      BY <1>2, <2>0, <3>1 DEF OpenOnly, OpenCall, Busy, Capturing
    <3>3. /\ There("callback", Root)' = There("callback", Root)
          /\ There("batch", Root)' = There("batch", Root)
      BY <2>1 DEF There
    <3>4. \A s : OpenRoot(s) => OpenRoot(s)'
      BY <2>1 DEF OpenRoot, Here, Tool, rootVars, pastVars
    <3> QED BY <1>2, <2>1, <3>2, <3>3, <3>4 DEF OpenOnly, OpenCall, Start
  <2>12. Summed'
    BY <2>0, <2>1, <2>2, <2>5
       DEF Summed, Beside, Behind, rootVars, TypeLog, pastVars, Replaced, There
  <2>13. Stored'
    BY <1>2, <2>1, StoredLaunch
  <2>14. Cutting'
    BY <2>1, CuttingKept DEF rootVars, pastVars
  <2> QED BY <2>5, <2>6, <2>7, <2>8, <2>9, <2>10, <2>11, <2>12, <2>13, <2>14 DEF TInv
<1> QED BY <1>1, <1>2 DEF StartBatch

\* The call's spans end when its slots are done.
LEMMA EndCallKept == ASSUME TInv, EndCall PROVE TInv'
<1>0. /\ TypeOK /\ Log /\ Looping /\ Fresh /\ Serving /\ OpenOnly /\ Summed
      /\ TypeRoot /\ TypeCall /\ TypeLog /\ TypeArt /\ TypeRuns /\ TypeSlot
  BY TypeParts DEF TInv
<1>1. /\ UNCHANGED <<at, slot, rootVars, pastVars, summary, view, files, bytes, manifest, refs>>
      /\ call # "none" /\ call' \in {"closing", "none"} /\ call # "opening"
  BY DEF EndCall, artVars
<1>2. PICK x \in started :
         /\ End(x) /\ Open(x)
         /\ \/ x = There("batch", Root) /\ call = "batch" /\ call' = "closing"
            \/ x = There("callback", Root) /\ call \in {"closing", "single"} /\ call' = "none"
  BY <1>0 DEF EndCall, Serving, Open, pastVars
<1>3. \A s \in Slots : slot[s].pc \notin Busy
  BY <1>0 DEF EndCall, Taken, Serving, Busy, pastVars
<1>x. x \in Spans /\ x[1] \in {"callback", "batch"}
  BY <1>0, <1>2 DEF TypeLog, There
<1>4. Log' /\ TypeLog' /\ length' = length + 1
  BY <1>0, <1>2, <1>x, LogEnd
<1>5. TypeOK'
  <2>1. TypeRead'
    BY <1>0, <1>1, <1>4, ReadKept DEF TypeLog
  <2>2. TypeRoot' /\ TypeCall' /\ TypeArt' /\ TypeRuns' /\ TypeSlot'
    BY <1>0, <1>1 DEF rootVars, TypeRoot, TypeCall, TypeArt, TypeRuns, TypeSlot, pastVars
  <2> QED BY <1>4, <2>1, <2>2, TypeJoin
<1>6. Looping'
  <2>1. started \subseteq started' /\ \A s \in Spans : s # x => ends'[s] = ends[s]
    BY <1>0, <1>2 DEF End, TypeLog
  <2> QED BY <1>1, <1>x, <2>1, LoopingKept DEF rootVars
<1>7. Fresh'
  BY <1>0, <1>1, <1>2 DEF End, rootVars, Fresh, Here
<1>8. Serving'
  <2>1. call' = "closing" => Open(There("callback", Root))'
    BY <1>0, <1>1, <1>2 DEF End, Serving, Open, There, pastVars
  <2> QED BY <1>0, <1>1, <1>3, <2>1 DEF Serving, Beside, Ahead, Behind, rootVars, pastVars
<1>9. Working'
  BY <1>1, <1>3 DEF Working, Busy, Capturing, pastVars
<1>10. OpenOnly'
  <2>1. \A s \in started : ends[s] = 0 =>
           \/ OpenRoot(s) \/ s = There("callback", Root)
           \/ s = There("batch", Root) /\ call = "batch"
    BY <1>0, <1>3 DEF OpenOnly, OpenCall, Busy, Capturing
  <2>2. There("callback", Root)' = There("callback", Root)
    BY <1>1 DEF There
  <2>3. started' = started /\ ends'[x] # 0 /\ \A s \in started : s # x => ends'[s] = ends[s]
    BY <1>0, <1>2 DEF End, TypeLog
  <2>4. \A s : OpenRoot(s) => OpenRoot(s)'
    BY <1>1 DEF OpenRoot, Here, Tool, rootVars, pastVars
  <2> QED BY <1>1, <1>2, <2>1, <2>2, <2>3, <2>4 DEF OpenOnly, OpenCall
<1>11. Summed'
  BY <1>0, <1>1, <1>4
     DEF Summed, Serving, Beside, Behind, rootVars, TypeLog, pastVars, Replaced, There
<1>12. Stored'
  BY <1>1, StoredKept
<1>13. Cutting'
  BY <1>1, CuttingKept DEF rootVars, pastVars
<1> QED BY <1>4, <1>5, <1>6, <1>7, <1>8, <1>9, <1>10, <1>11, <1>12, <1>13 DEF TInv

-----------------------------------------------------------------------------
(* The steps of a slot *)

\* A refused prompt ends the slot.
LEMMA SlotRefusedKept == ASSUME TInv, NEW w \in Slots, SlotRefused(w) PROVE TInv'
<1>0. /\ TypeOK /\ Log /\ Looping /\ Fresh /\ Serving /\ Working /\ OpenOnly
      /\ Summed /\ Stored /\ TypeRoot /\ TypeCall /\ TypeLog /\ TypeSlot
  BY TypeParts DEF TInv
<1>b. /\ call \in {"single", "batch"} /\ Beside /\ at \in Turns
      /\ at \in Nat /\ turn \in Nat
      /\ Opened \in started /\ There("callback", Root) \in started
  <2>1. slot[w].pc \in Busy
    BY DEF SlotRefused, Busy
  <2> QED BY <1>0, <2>1, InWork
<1>s. /\ TypeSlot' /\ (\A u \in Slots : u # w => slot'[u] = slot[u])
      /\ slot'[w].pc = "done"
      /\ slot'[w].kind = slot[w].kind /\ slot'[w].next = slot[w].next
      /\ slot'[w].kept = slot[w].kept /\ slot'[w].seen = slot[w].seen
  BY <1>0, GotoIs DEF SlotRefused, Pcs
<1>1. Log' /\ TypeLog' /\ length' = length
  BY <1>0 DEF SlotRefused, logVars, Log, TypeLog
<1>2. TypeOK'
  <2>1. TypeArt' /\ TypeRuns'
    BY <1>0, TypeParts DEF SlotRefused, artVars, TypeArt, TypeRuns, pastVars
  <2> QED BY <1>0, <1>1, <1>s, <2>1, SlotTyped DEF SlotRefused, elsewhere, TypeLog
<1>3. Looping'
  BY <1>0 DEF SlotRefused, elsewhere, rootVars, logVars, Looping, Open, Here, Tool
<1>4. Fresh'
  BY <1>0 DEF SlotRefused, elsewhere, rootVars, logVars, Fresh, Here
<1>5. Serving'
  BY <1>0, <1>b DEF SlotRefused, elsewhere, rootVars, callVars, logVars, Serving, Open, There,
     pastVars, Beside, Ahead, Behind
<1>6. Working'
  BY <1>0, <1>s DEF SlotRefused, elsewhere, callVars, logVars, Working, Open, There, Model, Run,
     Capturing, pastVars
<1>7. OpenOnly'
  BY <1>0, <1>s DEF SlotRefused, elsewhere, rootVars, callVars, logVars, OpenOnly, Here, There,
     Model, Run, Capturing, pastVars, OpenRoot, OpenCall, Tool
<1>8. Summed'
  BY <1>0, <1>b, <1>1 DEF SlotRefused, elsewhere, rootVars, Summed, pastVars, Replaced, There,
     callVars, Beside, Behind
<1>9. Stored'
  BY <1>0, <1>s, SameWriters DEF SlotRefused, elsewhere, callVars, artVars, Stored, Item
<1>10. Cutting'
  BY CuttingKept DEF SlotRefused, elsewhere, rootVars, pastVars
<1> QED BY <1>1, <1>2, <1>3, <1>4, <1>5, <1>6, <1>7, <1>8, <1>9, <1>10 DEF TInv

\* A slot opens the span of a leaf, or the run of a child.
LEMMA SlotStartsKept == ASSUME TInv, NEW w \in Slots, SlotStarts(w) PROVE TInv'
<1>0. /\ TypeOK /\ Log /\ Looping /\ Fresh /\ Serving /\ Working /\ OpenOnly
      /\ Summed /\ Stored /\ TypeRoot /\ TypeCall /\ TypeLog /\ TypeSlot
  BY TypeParts DEF TInv
<1>b. /\ call \in {"single", "batch"} /\ Beside /\ at \in Turns
      /\ at \in Nat /\ turn \in Nat
      /\ Opened \in started /\ There("callback", Root) \in started
  <2>1. slot[w].pc \in Busy
    BY DEF SlotStarts, Busy
  <2> QED BY <1>0, <2>1, InWork
<1>s. /\ TypeSlot' /\ (\A u \in Slots : u # w => slot'[u] = slot[u])
      /\ slot'[w].pc = IF slot[w].kind = "leaf" THEN "model" ELSE "turn"
      /\ slot'[w].kind = slot[w].kind /\ slot'[w].next = slot[w].next
      /\ slot'[w].kept = slot[w].kept /\ slot'[w].seen = slot[w].seen
  <2>1. Goto(w, IF slot[w].kind = "leaf" THEN "model" ELSE "turn")
    BY DEF SlotStarts
  <2> QED BY <1>0, <2>1, GotoIs DEF Pcs
<1>x. PICK x \in Spans : /\ Start(x, Opened) /\ x[3] = w
                         /\ x[1] # "tool" /\ x[1] # "batch" /\ x[2] = at
                      /\ x = IF slot[w].kind = "leaf" THEN Model(w) ELSE Run(w)
  BY <1>b, SpanIn DEF SlotStarts, Model, Run, There
<1>1. Log' /\ TypeLog' /\ length' = length + 1
  BY <1>0, <1>b, <1>x, LogStart
<1>2. TypeOK'
  <2>1. TypeArt' /\ TypeRuns'
    BY <1>0, TypeParts DEF SlotStarts, artVars, TypeArt, TypeRuns, pastVars
  <2> QED BY <1>0, <1>1, <1>s, <2>1, SlotTyped DEF SlotStarts, elsewhere, TypeLog
<1>3. Looping'
  BY <1>x, LoopingKept DEF SlotStarts, Start, elsewhere, rootVars
<1>4. Fresh'
  <2>1. PICK y : /\ started' = started \cup {y} /\ y[1] # "tool" /\ y[1] # "batch"
                 /\ y[2] = at /\ y[3] = w
    BY <1>0, <1>x DEF SlotStarts, Start, Model, Working, There
  <2>2. <<"callback", at, Root>> \in started
    BY <1>b DEF There
  <2>3. Here("model")' = Here("model") /\ UNCHANGED <<turn, root, buffer>>
    BY DEF SlotStarts, elsewhere, rootVars, Here
  <2>4. at =< turn /\ (root \in {"turn", "model", "code", "prose"} => at < turn)
    BY <1>b DEF Beside, Ahead
  <2> QED BY <1>0, <1>b, <2>1, <2>2, <2>3, <2>4 DEF Fresh, Here
<1>5. Serving'
  BY <1>0, <1>b DEF SlotStarts, Start, elsewhere, rootVars, callVars, Serving, Open, There,
     pastVars, Beside, Ahead, Behind
<1>6. Working'
  <2>0. /\ UNCHANGED <<at, call, aborted>> /\ started' = started \cup {x} /\ ends' = ends
        /\ slot[w].pc = "start"
    BY <1>x DEF SlotStarts, Start, elsewhere, callVars, pastVars
  <2>1. x \notin started /\ ends[x] = 0
    BY <1>0, <1>x, <2>0 DEF Working, Log, pastVars
  <2>2. Open(x)' /\ \A s : Open(s) => s \in started' /\ ends'[s] = 0
    BY <2>0, <2>1 DEF Open
  <2>3. \A u \in Slots :
          /\ Model(u)' = There(IF slot'[u].kind = "leaf" THEN "leaf" ELSE "model", u)
          /\ Run(u)' = Run(u)
          /\ u # w => x # There("model", u)
    BY <1>x, <2>0 DEF Model, Run, There
  <2>4. \A u \in Slots : u # w => Model(u)' = Model(u)
    BY <1>s, <2>0 DEF Model, There
  <2>5. CASE slot[w].kind = "leaf"
    <3>1. Model(w)' = x /\ slot'[w].pc = "model"
      BY <1>x, <1>s, <2>0, <2>5 DEF Model, There
    <3> QED BY <1>0, <1>s, <2>0, <2>2, <2>3, <2>4, <3>1 DEF Working, Open, There, pastVars
  <2>6. CASE slot[w].kind = "child"
    <3>1. Run(w)' = x /\ slot'[w].pc = "turn"
      BY <1>x, <1>s, <2>0, <2>6 DEF Run, There
    <3>2. There("model", w) \notin started'
      BY <1>0, <1>x, <2>0, <2>6 DEF Working, There, Run, pastVars
    <3> QED BY <1>0, <1>s, <1>x, <2>0, <2>2, <2>3, <2>4, <2>6, <3>2 DEF Working, Open, There,
       Capturing, pastVars
  <2> QED BY <1>0, <2>5, <2>6 DEF TypeSlot
<1>7. OpenOnly'
  <2>0. /\ UNCHANGED <<turn, root, at, call, aborted, broken, pending>>
        /\ started' = started \cup {x}
        /\ ends' = ends
        /\ slot[w].pc = "start"
    BY <1>x DEF SlotStarts, Start, elsewhere, callVars, rootVars, pastVars
  <2>1. \A u \in Slots : Model(u)' = Model(u) /\ Run(u)' = Run(u) /\ slot'[u].kind = slot[u].kind
    BY <1>s, <2>0 DEF Model, Run, There
  <2>2. \A u \in Slots :
          slot[u].pc \in Capturing \cup {"turn", "ran", "abort"} => slot'[u].pc = slot[u].pc
    BY <1>s, <2>0 DEF Capturing
  <2>3. \/ x = Model(w) /\ slot'[w].pc \in Capturing
        \/ x = Run(w) /\ slot[w].kind = "child" /\ slot'[w].pc = "turn"
    BY <1>0, <1>x, <1>s DEF TypeSlot, Capturing
  <2> QED BY <1>0, <2>0, <2>1, <2>2, <2>3 DEF OpenOnly, Here, There, pastVars, OpenRoot,
     OpenCall, Tool
<1>8. Summed'
  BY <1>0, <1>b DEF SlotStarts, Start, elsewhere, rootVars, Summed, TypeLog, pastVars, Replaced,
     There, callVars, Beside, Behind
<1>9. Stored'
  BY <1>0, <1>s, SameWriters DEF SlotStarts, elsewhere, callVars, artVars, Stored, Item
<1>10. Cutting'
  BY CuttingKept DEF SlotStarts, elsewhere, rootVars, pastVars
<1> QED BY <1>1, <1>2, <1>3, <1>4, <1>5, <1>6, <1>7, <1>8, <1>9, <1>10 DEF TInv

\* A step of a call that a cell left behind does not touch what Summed reads.
LEMMA SummedBeside ==
  ASSUME Summed, root \in {"complete", "finished"} => left, length' > 0,
         UNCHANGED <<root, view, left, summary, at, aborted>>
  PROVE  Summed'
BY DEF Summed, Replaced, There

\* A child opens its model span.
LEMMA ChildSendsKept == ASSUME TInv, NEW w \in Slots, ChildSends(w) PROVE TInv'
<1>0. /\ TypeOK /\ Log /\ Looping /\ Fresh /\ Serving /\ Working /\ OpenOnly
      /\ Summed /\ Stored /\ TypeRoot /\ TypeCall /\ TypeLog /\ TypeSlot
  BY TypeParts DEF TInv
<1>b. /\ call \in {"single", "batch"} /\ Beside /\ at \in Turns
      /\ at \in Nat /\ turn \in Nat
      /\ Opened \in started /\ There("callback", Root) \in started
  <2>1. slot[w].pc \in Busy
    BY DEF ChildSends, Busy
  <2> QED BY <1>0, <2>1, InWork
<1>s. /\ TypeSlot' /\ (\A u \in Slots : u # w => slot'[u] = slot[u])
      /\ slot'[w].pc = "model"
      /\ slot'[w].kind = slot[w].kind /\ slot'[w].next = slot[w].next
      /\ slot'[w].kept = slot[w].kept /\ slot'[w].seen = slot[w].seen
  BY <1>0, GotoIs DEF ChildSends, Pcs
<1>1. Log' /\ TypeLog' /\ length' = length + 1
  <2>1. Model(w) \in Spans /\ Run(w) \in started
    BY <1>0, <1>b, SpanIn DEF ChildSends, Working, There, Model, Run, Open, pastVars
  <2> QED BY <1>0, <2>1, LogStart DEF ChildSends
<1>2. TypeOK'
  <2>1. TypeArt' /\ TypeRuns'
    BY <1>0, TypeParts DEF ChildSends, artVars, TypeArt, TypeRuns, pastVars
  <2> QED BY <1>0, <1>1, <1>s, <2>1, SlotTyped DEF ChildSends, elsewhere, TypeLog
<1>3. Looping'
  <2>1. Model(w)[1] # "tool" /\ Model(w)[3] = w
    BY DEF There, Model, Run
  <2> QED BY <2>1, LoopingKept DEF ChildSends, Start, elsewhere, rootVars
<1>4. Fresh'
  <2>1. PICK y : /\ started' = started \cup {y} /\ y[1] # "tool" /\ y[1] # "batch"
                 /\ y[2] = at /\ y[3] = w
    <3>1. started' = started \cup {Model(w)}
      BY DEF ChildSends, Start
    <3>2. /\ Model(w)[1] # "tool" /\ Model(w)[1] # "batch"
          /\ Model(w)[2] = at /\ Model(w)[3] = w
      BY DEF Model, There
    <3> QED BY <3>1, <3>2
  <2>2. <<"callback", at, Root>> \in started
    BY <1>b DEF There
  <2>3. Here("model")' = Here("model") /\ UNCHANGED <<turn, root, buffer>>
    BY DEF ChildSends, elsewhere, rootVars, Here
  <2>4. at =< turn /\ (root \in {"turn", "model", "code", "prose"} => at < turn)
    BY <1>b DEF Beside, Ahead
  <2> QED BY <1>0, <1>b, <2>1, <2>2, <2>3, <2>4 DEF Fresh, Here
<1>5. Serving'
  BY <1>0, <1>b DEF ChildSends, Start, elsewhere, rootVars, callVars, Serving, Open, There,
     pastVars, Beside, Ahead, Behind
<1>6. Working'
  <2>1. Model(w) = There("model", w) /\ slot[w].kind = "child"
    BY <1>0 DEF ChildSends, Working, Model, pastVars
  <2>2. ends[Model(w)] = 0
    BY <1>0, <1>b, <2>1, SpanIn DEF ChildSends, Working, Log, There, pastVars
  <2>3. Open(Model(w))' /\ Open(Run(w))'
    BY <1>0, <1>s, <2>1, <2>2 DEF ChildSends, Start, elsewhere, callVars, Working, Open, There,
       Model, Run, pastVars
  <2>4. \A u \in Slots :
          u # w => There("model", u) # Model(w) /\ Run(u) # Model(w) /\ Model(w)[3] # u
    BY DEF Model, Run, There
  <2> QED BY <1>0, <1>s, <2>3 DEF ChildSends, Start, elsewhere, callVars, Working, Open, There,
     Model, Run, pastVars
<1>7. OpenOnly'
  BY <1>0, <1>s DEF ChildSends, Start, elsewhere, rootVars, callVars, OpenOnly, Here, There,
     Model, Run, Capturing, pastVars, OpenRoot, OpenCall, Tool
<1>8. Summed'
  <2>1. length' > 0 /\ UNCHANGED <<root, view, left, summary, at, aborted>>
    BY <1>0 DEF ChildSends, Start, elsewhere, rootVars, callVars, Summed, TypeLog, pastVars
  <2> QED BY <1>0, <1>b, <2>1, SummedBeside DEF Beside, Behind
<1>9. Stored'
  BY <1>0, <1>s, SameWriters DEF ChildSends, elsewhere, callVars, artVars, Stored, Item
<1>10. Cutting'
  BY CuttingKept DEF ChildSends, elsewhere, rootVars, pastVars
<1> QED BY <1>1, <1>2, <1>3, <1>4, <1>5, <1>6, <1>7, <1>8, <1>9, <1>10 DEF TInv

\* A refused child is done, and leaves its run open.
LEMMA ChildRefusedKept == ASSUME TInv, NEW w \in Slots, ChildRefused(w) PROVE TInv'
<1>0. /\ TypeOK /\ Log /\ Looping /\ Fresh /\ Serving /\ Working /\ OpenOnly
      /\ Summed /\ Stored /\ TypeRoot /\ TypeCall /\ TypeLog /\ TypeSlot
  BY TypeParts DEF TInv
<1>b. /\ call \in {"single", "batch"} /\ Beside /\ at \in Turns
      /\ at \in Nat /\ turn \in Nat
      /\ Opened \in started /\ There("callback", Root) \in started
  <2>1. slot[w].pc \in Busy
    BY DEF ChildRefused, Busy
  <2> QED BY <1>0, <2>1, InWork
<1>s. /\ TypeSlot' /\ (\A u \in Slots : u # w => slot'[u] = slot[u])
      /\ slot'[w].pc = "done"
      /\ slot'[w].kind = slot[w].kind /\ slot'[w].next = slot[w].next
      /\ slot'[w].kept = slot[w].kept /\ slot'[w].seen = slot[w].seen
  BY <1>0, GotoIs DEF ChildRefused, Pcs
<1>1. Log' /\ TypeLog' /\ length' = length
  BY <1>0 DEF ChildRefused, logVars, Log, TypeLog
<1>2. TypeOK'
  <2>1. TypeArt'
    BY <1>0, TypeParts DEF ChildRefused, artVars, TypeArt
  <2>2. TypeRuns'
    BY <1>0, <1>b, SpanIn, TypeParts DEF ChildRefused, TypeRuns, Run, There
  <2> QED BY <1>0, <1>1, <1>s, <2>1, <2>2, SlotTyped DEF ChildRefused, elsewhere, TypeLog
<1>3. Looping'
  BY <1>0 DEF ChildRefused, elsewhere, rootVars, logVars, Looping, Open, Here, Tool
<1>4. Fresh'
  BY <1>0 DEF ChildRefused, elsewhere, rootVars, logVars, Fresh, Here
<1>5. Serving'
  BY <1>0, <1>b DEF ChildRefused, elsewhere, rootVars, callVars, logVars, Serving, Open, There,
     Beside, Ahead, Behind
<1>6. Working'
  BY <1>0, <1>s DEF ChildRefused, elsewhere, callVars, logVars, Working, Open, There, Model, Run,
     Capturing
<1>7. OpenOnly'
  BY <1>0, <1>s DEF ChildRefused, elsewhere, rootVars, callVars, logVars, OpenOnly, Here, There,
     Model, Run, Capturing, OpenRoot, OpenCall, Tool
<1>8. Summed'
  BY <1>0, <1>b, <1>1 DEF ChildRefused, elsewhere, rootVars, Summed, Replaced, There, callVars,
     Beside, Behind
<1>9. Stored'
  BY <1>0, <1>s, SameWriters DEF ChildRefused, elsewhere, callVars, artVars, Stored, Item
<1>10. Cutting'
  BY CuttingKept DEF ChildRefused, elsewhere, rootVars
<1> QED BY <1>1, <1>2, <1>3, <1>4, <1>5, <1>6, <1>7, <1>8, <1>9, <1>10 DEF TInv

\* A failed completion ends its span or breaks off in it, and a child aborts.
LEMMA SlotModelFailsKept == ASSUME TInv, NEW w \in Slots, SlotModelFails(w) PROVE TInv'
<1>0. /\ TypeOK /\ Log /\ Looping /\ Fresh /\ Serving /\ Working /\ OpenOnly
      /\ Summed /\ Stored /\ TypeRoot /\ TypeCall /\ TypeLog /\ TypeSlot
  BY TypeParts DEF TInv
<1>b. /\ call \in {"single", "batch"} /\ Beside /\ at \in Turns
      /\ at \in Nat /\ turn \in Nat
      /\ Opened \in started /\ There("callback", Root) \in started
  <2>1. slot[w].pc \in Busy
    BY DEF SlotModelFails, Busy
  <2> QED BY <1>0, <2>1, InWork
<1>s. /\ TypeSlot' /\ (\A u \in Slots : u # w => slot'[u] = slot[u])
      /\ slot'[w].pc = IF slot[w].kind = "leaf" THEN "done" ELSE "abort"
      /\ slot'[w].kind = slot[w].kind /\ slot'[w].next = slot[w].next
      /\ slot'[w].kept = slot[w].kept /\ slot'[w].seen = slot[w].seen
  BY <1>0, GotoIs DEF SlotModelFails, Pcs
<1>m. /\ Model(w) \in Spans /\ Open(Model(w))
      /\ \/ End(Model(w)) /\ UNCHANGED broken
         \/ UNCHANGED logVars /\ broken' = broken \cup {Model(w)}
  BY <1>0 DEF SlotModelFails, Working, Capturing, Open, TypeLog
<1>1. Log' /\ TypeLog' /\ length' \in Nat /\ length' >= length
  <2>0. length \in Nat
    BY <1>0 DEF TypeLog
  <2>1. CASE End(Model(w))
    BY <1>0, <1>m, <2>0, <2>1, LogEnd
  <2>2. CASE UNCHANGED logVars
    BY <1>0, <2>0, <2>2 DEF logVars, Log, TypeLog
  <2> QED BY <1>m, <2>1, <2>2
<1>2. TypeOK'
  <2>1. TypeArt' /\ TypeRuns'
    BY <1>0, <1>m, TypeParts DEF SlotModelFails, artVars, TypeArt, TypeRuns
  <2> QED BY <1>0, <1>1, <1>s, <2>1, SlotTyped DEF SlotModelFails, elsewhere, TypeLog
<1>e. /\ started' = started /\ \A s \in Spans : s # Model(w) => ends'[s] = ends[s]
      /\ ends'[Model(w)] # 0 \/ Model(w) \in broken'
      /\ UNCHANGED <<summary, turn, root, buffer, pending, view, call, at, aborted, left>>
      /\ broken \subseteq broken'
  BY <1>0, <1>m DEF SlotModelFails, End, logVars, elsewhere, rootVars, callVars, TypeLog, Open
<1>3. Looping'
  <2>1. Model(w)[1] # "tool" /\ Model(w)[3] = w
    BY DEF There, Model
  <2> QED BY <1>e, <2>1, LoopingKept
<1>4. Fresh'
  BY <1>0, <1>e DEF Fresh, Here
<1>5. Serving'
  <2>1. There("callback", Root) # Model(w) /\ There("batch", Root) # Model(w)
    BY DEF There, Model
  <2>2. \A s \in started : s \in Spans
    BY <1>0 DEF TypeLog
  <2>3. /\ There("callback", Root)' = There("callback", Root)
        /\ There("batch", Root)' = There("batch", Root)
    BY <1>e DEF There
  <2> QED BY <1>0, <1>b, <1>e, <2>1, <2>2, <2>3 DEF Serving, Open, Beside, Ahead, Behind
<1>6. Working'
  <2>1. \A u \in Slots : u # w => Model(u) # Model(w)
    BY DEF There, Model
  <2>2. \A u \in Slots : Run(u) # Model(w)
    BY DEF There, Model, Run
  <2>3. \A u \in Slots : /\ Model(u)' = Model(u) /\ Run(u)' = Run(u)
                         /\ There("model", u)' = There("model", u)
    BY <1>s, <1>e DEF There, Model, Run
  <2>4. \A s \in started : s \in Spans
    BY <1>0 DEF TypeLog
  <2>5. slot[w].kind \in {"leaf", "child"} /\ slot[w].pc \in Capturing
    BY <1>0 DEF SlotModelFails, TypeSlot, Capturing
  <2>6. \A u \in Slots : /\ u # w /\ Open(Model(u)) => Open(Model(u))'
                         /\ Open(Run(u)) => Open(Run(u))'
    BY <1>e, <2>1, <2>2, <2>3, <2>4 DEF Open
  <2> QED BY <1>0, <1>s, <1>e, <2>3, <2>5, <2>6 DEF Working, Capturing
<1>7. OpenOnly'
  <2>1. \A s : OpenRoot(s) => OpenRoot(s)'
    BY <1>e DEF OpenRoot, Here, Tool
  <2>2. \A s : OpenCall(s) /\ s # Model(w) => OpenCall(s)'
    <3>1. \A u \in Slots : /\ Model(u)' = Model(u) /\ Run(u)' = Run(u)
                           /\ slot'[u].kind = slot[u].kind
      BY <1>s, <1>e DEF There, Model, Run
    <3>2. \A u \in Slots : u # w => slot'[u].pc = slot[u].pc
      BY <1>s
    <3>3. slot[w].kind = "child" => slot'[w].pc = "abort"
      BY <1>s
    <3> QED BY <1>e, <3>1, <3>2, <3>3 DEF OpenCall, There
  <2>3. \A s \in started : s \in Spans
    BY <1>0 DEF TypeLog
  <2>4. Model(w) \in broken' => OpenRoot(Model(w))'
    <3>1. Model(w)' = Model(w)
      BY <1>s, <1>e DEF Model, There
    <3> QED BY <3>1 DEF OpenRoot
  <2>5. Model(w)' = Model(w)
    BY <1>s, <1>e DEF Model, There
  <2> QED BY <1>0, <1>e, <2>1, <2>2, <2>3, <2>4, <2>5 DEF OpenOnly, OpenRoot
<1>8. Summed'
  BY <1>0, <1>1, <1>b, <1>e DEF Summed, Replaced, There, Beside, Behind, TypeLog, callVars
<1>9. Stored'
  BY <1>0, <1>s, <1>e, SameWriters DEF SlotModelFails, artVars, Stored, Item
<1>10. Cutting'
  BY <1>e, CuttingKept
<1> QED BY <1>1, <1>2, <1>3, <1>4, <1>5, <1>6, <1>7, <1>8, <1>9, <1>10 DEF TInv

\* A text is captured only below the cap, beside the writers counted already.
LEMMA CaptureStartsKept == ASSUME TInv, NEW w \in Slots, CaptureStarts(w) PROVE TInv'
<1>0. /\ TypeOK /\ Log /\ Looping /\ Fresh /\ Serving /\ Working /\ OpenOnly
      /\ Summed /\ Stored /\ TypeRoot /\ TypeCall /\ TypeLog /\ TypeSlot
  BY TypeParts DEF TInv
<1>b. /\ call \in {"single", "batch"} /\ Beside /\ at \in Turns
      /\ at \in Nat /\ turn \in Nat
      /\ Opened \in started /\ There("callback", Root) \in started
  <2>1. slot[w].pc \in Busy
    BY DEF CaptureStarts, Busy
  <2> QED BY <1>0, <2>1, InWork
<1>s. /\ TypeSlot' /\ (\A u \in Slots : u # w => slot'[u] = slot[u])
      /\ slot'[w].kind = slot[w].kind /\ slot'[w].kept = slot[w].kept
      /\ slot'[w].seen = slot[w].seen
      /\ \/ CapLeft /\ slot'[w].pc = "write" /\ slot'[w].next = slot[w].next
         \/ slot'[w].pc = "capture" /\ slot'[w].next = slot[w].next + 1
  <2>0. slot[w] \in Work
    BY <1>0 DEF TypeSlot, Work, Pcs
  <2>1. CASE CapLeft
    BY <1>0, <2>1, GotoIs DEF CaptureStarts, Pcs
  <2>2. CASE ~CapLeft
    <3>1. slot' = [slot EXCEPT ![w] =
                     [slot[w] EXCEPT !.pc = "capture", !.next = slot[w].next + 1]]
      BY <1>0, <2>2 DEF CaptureStarts, TypeSlot
    <3>a. slot[w].next + 1 \in 1 .. 3
      BY DEF CaptureStarts, Texts
    <3>2. [slot[w] EXCEPT !.pc = "capture", !.next = slot[w].next + 1] \in Work
      BY <2>0, <3>a DEF Work, Pcs
    <3>3. /\ TypeSlot' /\ \A u \in Slots : u # w => slot'[u] = slot[u]
          /\ slot'[w] = [slot[w] EXCEPT !.pc = "capture", !.next = slot[w].next + 1]
      BY <1>0, <3>1, <3>2, SlotIs
    <3> QED BY <2>0, <3>3 DEF Work
  <2> QED BY <2>1, <2>2
<1>1. Log' /\ TypeLog' /\ length' = length
  BY <1>0 DEF CaptureStarts, logVars, Log, TypeLog
<1>2. TypeOK'
  <2>1. TypeArt' /\ TypeRuns'
    BY <1>0, TypeParts DEF CaptureStarts, artVars, TypeArt, TypeRuns, pastVars
  <2> QED BY <1>0, <1>1, <1>s, <2>1, SlotTyped DEF CaptureStarts, elsewhere, TypeLog
<1>3. Looping'
  BY <1>0 DEF CaptureStarts, elsewhere, rootVars, logVars, Looping, Open, Here, Tool
<1>4. Fresh'
  BY <1>0 DEF CaptureStarts, elsewhere, rootVars, logVars, Fresh, Here
<1>5. Serving'
  BY <1>0, <1>b DEF CaptureStarts, elsewhere, rootVars, callVars, logVars, Serving, Open, There,
     pastVars, Beside, Ahead, Behind
<1>6. Working'
  BY <1>0, <1>s DEF CaptureStarts, elsewhere, callVars, logVars, Working, Open, There, Model,
     Run, Capturing, pastVars
<1>7. OpenOnly'
  BY <1>0, <1>s DEF CaptureStarts, elsewhere, rootVars, callVars, logVars, OpenOnly, Here,
     There, Model, Run, Capturing, pastVars, OpenRoot, OpenCall, Tool
<1>8. Summed'
  BY <1>0, <1>b, <1>1 DEF CaptureStarts, elsewhere, rootVars, Summed, pastVars, Replaced, There,
     callVars, Beside, Behind
<1>9. Stored'
  <2>1. UNCHANGED <<at, refs, manifest, files, bytes>>
    BY DEF CaptureStarts, elsewhere, callVars, artVars
  <2>2. bytes' + Cardinality(Writing') < Cap + Cardinality(Slots)
    <3>1. CASE CapLeft
      <4>1. Writing' \subseteq Slots
        BY DEF Writing
      <4>2. Cardinality(Writing') \in Nat /\ Cardinality(Writing') =< Cardinality(Slots)
        BY <4>1, Writers
      <4> QED BY <2>1, <3>1, <4>2, Writers, LogAssumption, TypeParts, <1>0 DEF CapLeft, TypeArt
    <3>2. CASE ~CapLeft
      <4>1. Writing' = Writing
        BY <1>s, <3>2, SameWriters DEF CaptureStarts
      <4> QED BY <1>0, <2>1, <4>1 DEF Stored
    <3> QED BY <3>1, <3>2
  <2>3. \A u \in Slots : u # w => Item(u)' = Item(u)
    BY <1>s, <2>1 DEF Item
  <2>4. slot'[w].pc = "write" => slot'[w].next \in Texts
    BY <1>s DEF CaptureStarts
  <2>5. slot'[w].pc \in {"write", "capture"}
    BY <1>s
  <2> QED BY <1>0, <1>s, <2>1, <2>2, <2>3, <2>4 DEF Stored
<1>10. Cutting'
  BY CuttingKept DEF CaptureStarts, elsewhere, rootVars, pastVars
<1> QED BY <1>1, <1>2, <1>3, <1>4, <1>5, <1>6, <1>7, <1>8, <1>9, <1>10 DEF TInv

\* A writer counts its text in the bytes.
LEMMA WriteArtifactKept == ASSUME TInv, NEW w \in Slots, WriteArtifact(w) PROVE TInv'
<1>0. /\ TypeOK /\ Log /\ Looping /\ Fresh /\ Serving /\ Working /\ OpenOnly
      /\ Summed /\ Stored /\ TypeRoot /\ TypeCall /\ TypeLog /\ TypeSlot
  BY TypeParts DEF TInv
<1>b. /\ call \in {"single", "batch"} /\ Beside /\ at \in Turns
      /\ at \in Nat /\ turn \in Nat
      /\ Opened \in started /\ There("callback", Root) \in started
  <2>1. slot[w].pc \in Busy
    BY DEF WriteArtifact, Busy
  <2> QED BY <1>0, <2>1, InWork
<1>s. /\ TypeSlot' /\ (\A u \in Slots : u # w => slot'[u] = slot[u])
      /\ slot'[w].pc = "read"
      /\ slot'[w].kind = slot[w].kind /\ slot'[w].next = slot[w].next
      /\ slot'[w].kept = slot[w].kept /\ slot'[w].seen = slot[w].seen
  BY <1>0, GotoIs DEF WriteArtifact, Pcs
<1>1. Log' /\ TypeLog' /\ length' = length
  BY <1>0 DEF WriteArtifact, logVars, Log, TypeLog
<1>2. TypeOK'
  <2>1. TypeArt' /\ TypeRuns'
    <3>1. TypeArt'
      BY <1>0, <1>b, TypeParts DEF WriteArtifact, TypeArt, Item, Items, Stored
    <3>2. TypeRuns'
      BY <1>0, TypeParts DEF WriteArtifact, TypeRuns, pastVars
    <3> QED BY <3>1, <3>2
  <2> QED BY <1>0, <1>1, <1>s, <2>1, SlotTyped DEF WriteArtifact, elsewhere, TypeLog
<1>3. Looping'
  BY <1>0 DEF WriteArtifact, elsewhere, rootVars, logVars, Looping, Open, Here, Tool
<1>4. Fresh'
  BY <1>0 DEF WriteArtifact, elsewhere, rootVars, logVars, Fresh, Here
<1>5. Serving'
  BY <1>0, <1>b DEF WriteArtifact, elsewhere, rootVars, callVars, logVars, Serving, Open, There,
     pastVars, Beside, Ahead, Behind
<1>6. Working'
  BY <1>0, <1>s DEF WriteArtifact, elsewhere, callVars, logVars, Working, Open, There, Model,
     Run, Capturing, pastVars
<1>7. OpenOnly'
  BY <1>0, <1>s DEF WriteArtifact, elsewhere, rootVars, callVars, logVars, OpenOnly, Here,
     There, Model, Run, Capturing, pastVars, OpenRoot, OpenCall, Tool
<1>8. Summed'
  BY <1>0, <1>b, <1>1 DEF WriteArtifact, elsewhere, rootVars, Summed, pastVars, Replaced, There,
     callVars, Beside, Behind
<1>9. Stored'
  <2>1. /\ files \subseteq files' /\ Item(w) \in files' /\ bytes' = bytes + 1
        /\ UNCHANGED <<at, refs, manifest>>
    BY DEF WriteArtifact, elsewhere, callVars
  <2>2. bytes' + Cardinality(Writing') < Cap + Cardinality(Slots)
    <3>1. Writing' = Writing \ {w} /\ w \in Writing
      BY <1>s DEF WriteArtifact, Writing
    <3>2. Cardinality(Writing') = Cardinality(Writing) - 1
      BY <3>1, Writers, FS_RemoveElement
    <3> QED BY <1>0, <2>1, <3>2, Writers, TypeParts DEF Stored, TypeArt
  <2>3. \A u \in Slots : u # w => Item(u)' = Item(u)
    BY <1>s, <2>1 DEF Item
  <2>4. Item(w)' = Item(w) /\ slot[w].next \in Texts
    BY <1>0, <1>s, <2>1 DEF Item, WriteArtifact, Stored
  <2>5. slot'[w].pc = "read" /\ slot[w].pc = "write"
    BY <1>s DEF WriteArtifact
  <2> QED BY <1>0, <1>s, <2>1, <2>2, <2>3, <2>4 DEF Stored
<1>10. Cutting'
  BY CuttingKept DEF WriteArtifact, elsewhere, rootVars, pastVars
<1> QED BY <1>1, <1>2, <1>3, <1>4, <1>5, <1>6, <1>7, <1>8, <1>9, <1>10 DEF TInv

\* The manifest is read, of files that were written.
LEMMA ReadManifestKept == ASSUME TInv, NEW w \in Slots, ReadManifest(w) PROVE TInv'
<1>0. /\ TypeOK /\ Log /\ Looping /\ Fresh /\ Serving /\ Working /\ OpenOnly
      /\ Summed /\ Stored /\ TypeRoot /\ TypeCall /\ TypeLog /\ TypeSlot
  BY TypeParts DEF TInv
<1>b. /\ call \in {"single", "batch"} /\ Beside /\ at \in Turns
      /\ at \in Nat /\ turn \in Nat
      /\ Opened \in started /\ There("callback", Root) \in started
  <2>1. slot[w].pc \in Busy
    BY DEF ReadManifest, Busy
  <2> QED BY <1>0, <2>1, InWork
<1>s. /\ TypeSlot' /\ (\A u \in Slots : u # w => slot'[u] = slot[u])
      /\ slot'[w].kind = slot[w].kind /\ slot'[w].next = slot[w].next
      /\ slot'[w].kept = slot[w].kept /\ slot'[w].pc = "list" /\ slot'[w].seen \subseteq manifest
  <2>0. slot[w] \in Work
    BY <1>0 DEF TypeSlot, Work, Pcs
  <2>1. PICK seen \in {manifest, {}} : slot' = [slot EXCEPT ![w].pc = "list", ![w].seen = seen]
    BY DEF ReadManifest
  <2>2. slot' = [slot EXCEPT ![w] = [slot[w] EXCEPT !.pc = "list", !.seen = seen]]
    BY <1>0, <2>1 DEF TypeSlot
  <2>3. [slot[w] EXCEPT !.pc = "list", !.seen = seen] \in Work
    BY <2>0, TypeParts, <1>0 DEF Work, Pcs, TypeArt
  <2>4. /\ TypeSlot' /\ \A u \in Slots : u # w => slot'[u] = slot[u]
        /\ slot'[w] = [slot[w] EXCEPT !.pc = "list", !.seen = seen]
    BY <1>0, <2>2, <2>3, SlotIs
  <2> QED BY <2>0, <2>4 DEF Work
<1>1. Log' /\ TypeLog' /\ length' = length
  BY <1>0 DEF ReadManifest, logVars, Log, TypeLog
<1>2. TypeOK'
  <2>1. TypeArt' /\ TypeRuns'
    BY <1>0, TypeParts DEF ReadManifest, artVars, TypeArt, TypeRuns, pastVars
  <2> QED BY <1>0, <1>1, <1>s, <2>1, SlotTyped DEF ReadManifest, elsewhere, TypeLog
<1>3. Looping'
  BY <1>0 DEF ReadManifest, elsewhere, rootVars, logVars, Looping, Open, Here, Tool
<1>4. Fresh'
  BY <1>0 DEF ReadManifest, elsewhere, rootVars, logVars, Fresh, Here
<1>5. Serving'
  BY <1>0, <1>b DEF ReadManifest, elsewhere, rootVars, callVars, logVars, Serving, Open, There,
     pastVars, Beside, Ahead, Behind
<1>6. Working'
  BY <1>0 DEF ReadManifest, elsewhere, callVars, logVars, Working, Open, There, Model, Run,
     Capturing, TypeSlot, pastVars
<1>7. OpenOnly'
  <2>1. \A u \in Slots : Model(u)' = Model(u) /\ Run(u)' = Run(u) /\ slot'[u].kind = slot[u].kind
    BY <1>s DEF ReadManifest, elsewhere, callVars, Model, Run, There
  <2>2. \A u \in Slots : \/ slot'[u].pc = slot[u].pc
                         \/ {slot[u].pc, slot'[u].pc} \subseteq Capturing
    BY <1>s DEF ReadManifest, Capturing
  <2>3. UNCHANGED <<turn, root, at, call, aborted, broken, pending, started, ends>>
    BY DEF ReadManifest, elsewhere, rootVars, callVars, logVars, pastVars
  <2> QED BY <1>0, <2>1, <2>2, <2>3 DEF OpenOnly, Here, There, pastVars, OpenRoot, OpenCall,
     Tool
<1>8. Summed'
  BY <1>0, <1>b, <1>1 DEF ReadManifest, elsewhere, rootVars, Summed, pastVars, Replaced, There,
     callVars, Beside, Behind
<1>9. Stored'
  BY <1>0, <1>s, SameWriters DEF ReadManifest, elsewhere, callVars, artVars, Stored, Item
<1>10. Cutting'
  BY CuttingKept DEF ReadManifest, elsewhere, rootVars, pastVars
<1> QED BY <1>1, <1>2, <1>3, <1>4, <1>5, <1>6, <1>7, <1>8, <1>9, <1>10 DEF TInv

\* The manifest that is stored may forget an item, and names no other.
LEMMA WriteManifestKept == ASSUME TInv, NEW w \in Slots, WriteManifest(w) PROVE TInv'
<1>0. /\ TypeOK /\ Log /\ Looping /\ Fresh /\ Serving /\ Working /\ OpenOnly
      /\ Summed /\ Stored /\ TypeRoot /\ TypeCall /\ TypeLog /\ TypeSlot
  BY TypeParts DEF TInv
<1>b. /\ call \in {"single", "batch"} /\ Beside /\ at \in Turns
      /\ at \in Nat /\ turn \in Nat
      /\ Opened \in started /\ There("callback", Root) \in started
  <2>1. slot[w].pc \in Busy
    BY DEF WriteManifest, Busy
  <2> QED BY <1>0, <2>1, InWork
<1>s. /\ TypeSlot' /\ (\A u \in Slots : u # w => slot'[u] = slot[u])
      /\ slot'[w].kind = slot[w].kind /\ slot'[w].next = slot[w].next + 1
      /\ slot'[w].kept = slot[w].kept \cup {slot[w].next} /\ slot'[w].pc = "capture"
      /\ slot'[w].seen = {}
  <2>0. slot[w] \in Work
    BY <1>0 DEF TypeSlot, Work, Pcs
  <2> DEFINE n == slot[w].next + 1
              K == slot[w].kept \cup {slot[w].next}
              r == [slot[w] EXCEPT !.pc = "capture", !.next = n, !.seen = {}, !.kept = K]
  <2>a. slot[w].next \in Texts
    BY <1>0 DEF WriteManifest, Stored
  <2>b. n \in 1 .. 3
    BY <2>a DEF Texts
  <2>c. K \in SUBSET Texts
    BY <2>0, <2>a DEF Work
  <2>1. slot' = [slot EXCEPT ![w] = r]
    BY Zenon DEF WriteManifest
  <2> HIDE DEF n, K
  <2>2. /\ r \in Work /\ r.pc = "capture" /\ r.kind = slot[w].kind
        /\ r.next = n /\ r.seen = {} /\ r.kept = K
    BY <2>0, <2>b, <2>c DEF Work, Pcs
  <2> HIDE DEF r
  <2>3. /\ TypeSlot' /\ \A u \in Slots : u # w => slot'[u] = slot[u]
        /\ slot'[w] = r
    BY <1>0, <2>1, <2>2, SlotIs
  <2> QED BY <2>2, <2>3 DEF n, K
<1>1. Log' /\ TypeLog' /\ length' = length
  BY <1>0 DEF WriteManifest, logVars, Log, TypeLog
<1>2. TypeOK'
  <2>1. TypeArt' /\ TypeRuns'
    <3>1. TypeArt'
      BY <1>0, TypeParts DEF WriteManifest, TypeArt, Stored
    <3>2. TypeRuns'
      BY <1>0, TypeParts DEF WriteManifest, TypeRuns, pastVars
    <3> QED BY <3>1, <3>2
  <2> QED BY <1>0, <1>1, <1>s, <2>1, SlotTyped DEF WriteManifest, elsewhere, TypeLog
<1>3. Looping'
  BY <1>0 DEF WriteManifest, elsewhere, rootVars, logVars, Looping, Open, Here, Tool
<1>4. Fresh'
  BY <1>0 DEF WriteManifest, elsewhere, rootVars, logVars, Fresh, Here
<1>5. Serving'
  BY <1>0, <1>b DEF WriteManifest, elsewhere, rootVars, callVars, logVars, Serving, Open, There,
     pastVars, Beside, Ahead, Behind
<1>6. Working'
  BY <1>0 DEF WriteManifest, elsewhere, callVars, logVars, Working, Open, There, Model, Run,
     Capturing, pastVars
<1>7. OpenOnly'
  BY <1>0 DEF WriteManifest, elsewhere, rootVars, callVars, logVars, OpenOnly, Here, There,
     Model, Run, Capturing, pastVars, OpenRoot, OpenCall, Tool
<1>8. Summed'
  BY <1>0, <1>b, <1>1 DEF WriteManifest, elsewhere, rootVars, Summed, pastVars, Replaced, There,
     callVars, Beside, Behind
<1>9. Stored'
  <2>1. slot[w].seen \subseteq files /\ Item(w) \in files /\ slot[w].next \in Texts
    BY <1>0 DEF WriteManifest, Stored
  <2>2. refs' \cup manifest' \subseteq files'
    BY <1>0, <2>1 DEF WriteManifest, Stored
  <2>3. Writing' = Writing
    BY <1>s, SameWriters DEF WriteManifest
  <2>4. \A k \in slot'[w].kept : <<at, w, k>> \in files
    BY <1>0, <1>s, <2>1 DEF Stored, Item
  <2> QED BY <1>0, <2>2, <2>3, <2>4 DEF WriteManifest, elsewhere, callVars, Stored, Item
<1>10. Cutting'
  BY CuttingKept DEF WriteManifest, elsewhere, rootVars, pastVars
<1> QED BY <1>1, <1>2, <1>3, <1>4, <1>5, <1>6, <1>7, <1>8, <1>9, <1>10 DEF TInv

\* The reply ends the model span and refers to what was captured.
LEMMA SlotRepliesKept == ASSUME TInv, NEW w \in Slots, SlotReplies(w) PROVE TInv'
<1>0. /\ TypeOK /\ Log /\ Looping /\ Fresh /\ Serving /\ Working /\ OpenOnly
      /\ Summed /\ Stored /\ TypeRoot /\ TypeCall /\ TypeLog /\ TypeSlot
  BY TypeParts DEF TInv
<1>b. /\ call \in {"single", "batch"} /\ Beside /\ at \in Turns
      /\ at \in Nat /\ turn \in Nat
      /\ Opened \in started /\ There("callback", Root) \in started
  <2>1. slot[w].pc \in Busy
    BY DEF SlotReplies, Busy
  <2> QED BY <1>0, <2>1, InWork
<1>s. /\ TypeSlot' /\ (\A u \in Slots : u # w => slot'[u] = slot[u])
      /\ slot'[w].pc = IF slot[w].kind = "leaf" THEN "done" ELSE "ran"
      /\ slot'[w].kind = slot[w].kind
      /\ slot'[w].next = 1 /\ slot'[w].kept = {} /\ slot'[w].seen = {}
  <2>0. slot[w] \in Work
    BY <1>0 DEF TypeSlot, Work, Pcs
  <2> DEFINE p == IF slot[w].kind = "leaf" THEN "done" ELSE "ran"
              r == [Idle EXCEPT !.kind = slot[w].kind, !.pc = p]
  <2>1. slot' = [slot EXCEPT ![w] = r]
    BY Zenon DEF SlotReplies
  <2>a. p \in Pcs /\ slot[w].kind \in {"leaf", "child"}
    BY <2>0 DEF Work, Pcs
  <2> HIDE DEF p
  <2>b. r.pc = p /\ r.kind = slot[w].kind /\ r.next = 1 /\ r.seen = {} /\ r.kept = {}
    BY DEF Idle
  <2>2. r \in Work
    <3>1. Idle \in Work
      BY DEF Idle, Work, Pcs
    <3> QED BY <2>a, <3>1 DEF Work
  <2> HIDE DEF r
  <2>3. /\ TypeSlot' /\ \A u \in Slots : u # w => slot'[u] = slot[u]
        /\ slot'[w] = r
    BY <1>0, <2>1, <2>2, SlotIs
  <2> QED BY <2>b, <2>3 DEF p
<1>1. Log' /\ TypeLog' /\ length' = length + 1
  <2>1. Model(w) \in Spans /\ Open(Model(w))
    BY <1>0 DEF SlotReplies, Working, Capturing, Open, TypeLog, pastVars
  <2> QED BY <1>0, <2>1, LogEnd DEF SlotReplies
<1>2. TypeOK'
  <2>1. TypeArt' /\ TypeRuns'
    <3>1. TypeArt'
      <4>1. \A k \in slot[w].kept : <<at, w, k>> \in files
        BY <1>0 DEF Stored
      <4>2. refs' \subseteq Items
        BY <1>0, <4>1, TypeParts DEF SlotReplies, TypeArt
      <4> QED BY <1>0, <4>2, TypeParts DEF SlotReplies, artVars, TypeArt
    <3>2. TypeRuns'
      BY <1>0, TypeParts DEF SlotReplies, End, TypeRuns, pastVars
    <3> QED BY <3>1, <3>2
  <2> QED BY <1>0, <1>1, <1>s, <2>1, SlotTyped DEF SlotReplies, elsewhere, TypeLog
<1>3. Looping'
  <2>1. Model(w)[1] # "tool" /\ Model(w)[3] = w
    BY DEF There, Model, Run
  <2> QED BY <2>1, LoopingKept DEF SlotReplies, End, elsewhere, rootVars
<1>4. Fresh'
  BY <1>0 DEF SlotReplies, End, elsewhere, rootVars, Fresh, Here
<1>5. Serving'
  BY <1>0, <1>b DEF SlotReplies, End, elsewhere, rootVars, callVars, Serving, Open, There, Model,
     pastVars, Beside, Ahead, Behind
<1>6. Working'
  BY <1>0 DEF SlotReplies, End, elsewhere, callVars, Working, Open, There, Model, Run,
     Capturing, TypeSlot, pastVars
<1>7. OpenOnly'
  BY <1>0 DEF SlotReplies, End, elsewhere, rootVars, callVars, OpenOnly, Here, There, Model,
     Run, TypeLog, pastVars, OpenRoot, OpenCall, Tool
<1>8. Summed'
  BY <1>0, <1>b DEF SlotReplies, End, elsewhere, rootVars, Summed, TypeLog, pastVars, Replaced,
     There, callVars, Beside, Behind
<1>9. Stored'
  <2>1. \A k \in slot[w].kept : <<at, w, k>> \in files
    BY <1>0 DEF Stored
  <2>2. refs' \cup manifest' \subseteq files'
    BY <1>0, <2>1 DEF SlotReplies, artVars, Stored
  <2>3. Writing' = Writing
    BY <1>s, SameWriters DEF SlotReplies
  <2> QED BY <1>0, <1>s, <2>2, <2>3 DEF SlotReplies, elsewhere, callVars, artVars, Stored, Item
<1>10. Cutting'
  BY CuttingKept DEF SlotReplies, elsewhere, rootVars, pastVars
<1> QED BY <1>1, <1>2, <1>3, <1>4, <1>5, <1>6, <1>7, <1>8, <1>9, <1>10 DEF TInv

\* The child's run ends.
LEMMA ChildEndsKept == ASSUME TInv, NEW w \in Slots, ChildEnds(w) PROVE TInv'
<1>0. /\ TypeOK /\ Log /\ Looping /\ Fresh /\ Serving /\ Working /\ OpenOnly
      /\ Summed /\ Stored /\ TypeRoot /\ TypeCall /\ TypeLog /\ TypeSlot
  BY TypeParts DEF TInv
<1>b. /\ call \in {"single", "batch"} /\ Beside /\ at \in Turns
      /\ at \in Nat /\ turn \in Nat
      /\ Opened \in started /\ There("callback", Root) \in started
  <2>1. slot[w].pc \in Busy
    BY DEF ChildEnds, Busy
  <2> QED BY <1>0, <2>1, InWork
<1>s. /\ TypeSlot' /\ (\A u \in Slots : u # w => slot'[u] = slot[u])
      /\ slot'[w].pc = "done"
      /\ slot'[w].kind = slot[w].kind /\ slot'[w].next = slot[w].next
      /\ slot'[w].kept = slot[w].kept /\ slot'[w].seen = slot[w].seen
  BY <1>0, GotoIs DEF ChildEnds, Pcs
<1>1. Log' /\ TypeLog' /\ length' = length + 1
  <2>1. Run(w) \in Spans /\ Open(Run(w))
    BY <1>0 DEF ChildEnds, Working, Open, TypeLog, pastVars
  <2> QED BY <1>0, <2>1, LogEnd DEF ChildEnds
<1>2. TypeOK'
  <2>1. TypeArt' /\ TypeRuns'
    BY <1>0, TypeParts DEF ChildEnds, artVars, TypeArt, TypeRuns, pastVars
  <2> QED BY <1>0, <1>1, <1>s, <2>1, SlotTyped DEF ChildEnds, elsewhere, TypeLog
<1>3. Looping'
  <2>1. Run(w)[1] # "tool" /\ Run(w)[3] = w
    BY DEF There, Model, Run
  <2> QED BY <2>1, LoopingKept DEF ChildEnds, End, elsewhere, rootVars
<1>4. Fresh'
  BY <1>0 DEF ChildEnds, End, elsewhere, rootVars, Fresh, Here
<1>5. Serving'
  BY <1>0, <1>b DEF ChildEnds, End, elsewhere, rootVars, callVars, Serving, Open, There, Run,
     pastVars, Beside, Ahead, Behind
<1>6. Working'
  BY <1>0, <1>s DEF ChildEnds, End, elsewhere, callVars, Working, Open, There, Model, Run,
     Capturing, pastVars
<1>7. OpenOnly'
  BY <1>0, <1>s DEF ChildEnds, End, elsewhere, rootVars, callVars, OpenOnly, Here, There, Model,
     Run, Capturing, TypeLog, pastVars, OpenRoot, OpenCall, Tool
<1>8. Summed'
  BY <1>0, <1>b DEF ChildEnds, End, elsewhere, rootVars, Summed, TypeLog, pastVars, Replaced,
     There, callVars, Beside, Behind
<1>9. Stored'
  BY <1>0, <1>s, SameWriters DEF ChildEnds, elsewhere, callVars, artVars, Stored, Item
<1>10. Cutting'
  BY CuttingKept DEF ChildEnds, elsewhere, rootVars, pastVars
<1> QED BY <1>1, <1>2, <1>3, <1>4, <1>5, <1>6, <1>7, <1>8, <1>9, <1>10 DEF TInv

\* A child that aborts leaves its run open.
LEMMA ChildAbortsKept == ASSUME TInv, NEW w \in Slots, ChildAborts(w) PROVE TInv'
<1>0. /\ TypeOK /\ Log /\ Looping /\ Fresh /\ Serving /\ Working /\ OpenOnly
      /\ Summed /\ Stored /\ TypeRoot /\ TypeCall /\ TypeLog /\ TypeSlot
  BY TypeParts DEF TInv
<1>b. /\ call \in {"single", "batch"} /\ Beside /\ at \in Turns
      /\ at \in Nat /\ turn \in Nat
      /\ Opened \in started /\ There("callback", Root) \in started
  <2>1. slot[w].pc \in Busy
    BY DEF ChildAborts, Busy
  <2> QED BY <1>0, <2>1, InWork
<1>s. /\ TypeSlot' /\ (\A u \in Slots : u # w => slot'[u] = slot[u])
      /\ slot'[w].pc = "partial"
      /\ slot'[w].kind = slot[w].kind /\ slot'[w].next = slot[w].next
      /\ slot'[w].kept = slot[w].kept /\ slot'[w].seen = slot[w].seen
  BY <1>0, GotoIs DEF ChildAborts, Pcs
<1>1. Log' /\ TypeLog' /\ length' = length + 1
  BY <1>0, LogEvent DEF ChildAborts
<1>2. TypeOK'
  <2>1. TypeArt' /\ TypeRuns'
    <3>1. TypeArt'
      BY <1>0, TypeParts DEF ChildAborts, artVars, TypeArt
    <3>2. TypeRuns'
      BY <1>0, <1>b, SpanIn, TypeParts DEF ChildAborts, TypeRuns, Run, There, pastVars
    <3> QED BY <3>1, <3>2
  <2> QED BY <1>0, <1>s, <2>1, SlotTyped DEF ChildAborts, Event, elsewhere, TypeLog
<1>3. Looping'
  BY <1>0 DEF ChildAborts, Event, elsewhere, rootVars, Looping, Open, Here, Tool
<1>4. Fresh'
  BY <1>0 DEF ChildAborts, Event, elsewhere, rootVars, Fresh, Here
<1>5. Serving'
  BY <1>0, <1>b DEF ChildAborts, Event, elsewhere, rootVars, callVars, Serving, Open, There,
     pastVars, Beside, Ahead, Behind
<1>6. Working'
  BY <1>0, <1>s DEF ChildAborts, Event, elsewhere, callVars, Working, Open, There, Model, Run,
     Capturing, pastVars
<1>7. OpenOnly'
  BY <1>0, <1>s DEF ChildAborts, Event, elsewhere, rootVars, callVars, OpenOnly, Here, There,
     Model, Run, Capturing, pastVars, OpenRoot, OpenCall, Tool
<1>8. Summed'
  <2>1. Replaced => Replaced'
    BY DEF ChildAborts, elsewhere, callVars, Replaced, There
  <2> QED BY <1>0, <1>b, <1>1, <2>1
       DEF ChildAborts, elsewhere, rootVars, callVars, Summed, TypeLog, Beside, Behind
<1>9. Stored'
  BY <1>0, <1>s, SameWriters DEF ChildAborts, elsewhere, callVars, artVars, Stored, Item
<1>10. Cutting'
  BY CuttingKept DEF ChildAborts, elsewhere, rootVars, pastVars
<1> QED BY <1>1, <1>2, <1>3, <1>4, <1>5, <1>6, <1>7, <1>8, <1>9, <1>10 DEF TInv

\* A child reads the log for its own summary.
LEMMA ChildReadsLogKept == ASSUME TInv, NEW w \in Slots, ChildReadsLog(w) PROVE TInv'
<1>0. /\ TypeOK /\ Log /\ Looping /\ Fresh /\ Serving /\ Working /\ OpenOnly
      /\ Summed /\ Stored /\ TypeRoot /\ TypeCall /\ TypeLog /\ TypeSlot
  BY TypeParts DEF TInv
<1>b. /\ call \in {"single", "batch"} /\ Beside /\ at \in Turns
      /\ at \in Nat /\ turn \in Nat
      /\ Opened \in started /\ There("callback", Root) \in started
  <2>1. slot[w].pc \in Busy
    BY DEF ChildReadsLog, Busy
  <2> QED BY <1>0, <2>1, InWork
<1>s. /\ TypeSlot' /\ (\A u \in Slots : u # w => slot'[u] = slot[u])
      /\ slot'[w].pc = "summary"
      /\ slot'[w].kind = slot[w].kind /\ slot'[w].next = slot[w].next
      /\ slot'[w].kept = slot[w].kept /\ slot'[w].seen = slot[w].seen
  BY <1>0, GotoIs DEF ChildReadsLog, Pcs
<1>1. Log' /\ TypeLog' /\ length' = length
  BY <1>0 DEF ChildReadsLog, logVars, Log, TypeLog
<1>2. TypeOK'
  <2>1. TypeRead'
    BY <1>0, TypeParts DEF ChildReadsLog, ReadLog, logVars, TypeRead, TypeLog
  <2>2. TypeRoot' /\ TypeCall'
    BY <1>0 DEF ChildReadsLog, rootVars, callVars, TypeRoot, TypeCall
  <2>3. TypeArt'
    BY <1>0, TypeParts DEF ChildReadsLog, artVars, TypeArt
  <2>4. TypeRuns'
    BY <1>0, TypeParts DEF ChildReadsLog, TypeRuns, pastVars
  <2> QED BY <1>1, <1>s, <2>1, <2>2, <2>3, <2>4, TypeJoin
<1>3. Looping'
  BY <1>0 DEF ChildReadsLog, rootVars, logVars, Looping, Open, Here, Tool
<1>4. Fresh'
  BY <1>0 DEF ChildReadsLog, rootVars, logVars, Fresh, Here
<1>5. Serving'
  BY <1>0, <1>b DEF ChildReadsLog, rootVars, callVars, logVars, Serving, Open, There, pastVars,
     Beside, Ahead, Behind
<1>6. Working'
  BY <1>0, <1>s DEF ChildReadsLog, callVars, logVars, Working, Open, There, Model, Run,
     Capturing, pastVars
<1>7. OpenOnly'
  BY <1>0, <1>s DEF ChildReadsLog, rootVars, callVars, logVars, OpenOnly, Here, There, Model,
     Run, Capturing, pastVars, OpenRoot, OpenCall, Tool
<1>8. Summed'
  BY <1>0, <1>b, LogAssumption DEF ChildReadsLog, ReadLog, logVars, rootVars, Summed, pastVars,
     Replaced, There, callVars, Beside, Behind
<1>9. Stored'
  BY <1>0, <1>s, SameWriters DEF ChildReadsLog, callVars, artVars, Stored, Item
<1>10. Cutting'
  BY CuttingKept DEF ChildReadsLog, elsewhere, rootVars, pastVars
<1> QED BY <1>1, <1>2, <1>3, <1>4, <1>5, <1>6, <1>7, <1>8, <1>9, <1>10 DEF TInv

\* The summary of a child is not that of the root.
LEMMA ChildSummaryKept == ASSUME TInv, NEW w \in Slots, ChildSummary(w) PROVE TInv'
<1>0. /\ TypeOK /\ Log /\ Looping /\ Fresh /\ Serving /\ Working /\ OpenOnly
      /\ Summed /\ Stored /\ TypeRoot /\ TypeCall /\ TypeLog /\ TypeSlot
  BY TypeParts DEF TInv
<1>b. /\ call \in {"single", "batch"} /\ Beside /\ at \in Turns
      /\ at \in Nat /\ turn \in Nat
      /\ Opened \in started /\ There("callback", Root) \in started
  <2>1. slot[w].pc \in Busy
    BY DEF ChildSummary, Busy
  <2> QED BY <1>0, <2>1, InWork
<1>s. /\ TypeSlot' /\ (\A u \in Slots : u # w => slot'[u] = slot[u])
      /\ slot'[w].pc = "done"
      /\ slot'[w].kind = slot[w].kind /\ slot'[w].next = slot[w].next
      /\ slot'[w].kept = slot[w].kept /\ slot'[w].seen = slot[w].seen
  BY <1>0, GotoIs DEF ChildSummary, Pcs
<1>1. Log' /\ TypeLog' /\ length' = length
  BY <1>0 DEF ChildSummary, logVars, Log, TypeLog
<1>2. TypeOK'
  <2>1. TypeRead'
    BY <1>0, TypeParts DEF ChildSummary, WriteSummary, logVars, TypeRead, TypeLog
  <2>2. TypeRoot' /\ TypeCall'
    BY <1>0 DEF ChildSummary, rootVars, callVars, TypeRoot, TypeCall
  <2>3. TypeArt'
    BY <1>0, TypeParts DEF ChildSummary, artVars, TypeArt
  <2>4. TypeRuns'
    BY <1>0, TypeParts DEF ChildSummary, TypeRuns, pastVars
  <2> QED BY <1>1, <1>s, <2>1, <2>2, <2>3, <2>4, TypeJoin
<1>3. Looping'
  BY <1>0 DEF ChildSummary, rootVars, logVars, Looping, Open, Here, Tool
<1>4. Fresh'
  BY <1>0 DEF ChildSummary, rootVars, logVars, Fresh, Here
<1>5. Serving'
  BY <1>0, <1>b DEF ChildSummary, rootVars, callVars, logVars, Serving, Open, There, pastVars,
     Beside, Ahead, Behind
<1>6. Working'
  BY <1>0, <1>s DEF ChildSummary, callVars, logVars, Working, Open, There, Model, Run,
     Capturing, pastVars
<1>7. OpenOnly'
  BY <1>0, <1>s DEF ChildSummary, rootVars, callVars, logVars, OpenOnly, Here, There, Model,
     Run, Capturing, pastVars, OpenRoot, OpenCall, Tool
<1>8. Summed'
  <2>1. view'[Root] = view[Root]
    BY <1>0, TypeParts, LogAssumption DEF ChildSummary, WriteSummary, TypeRead
  <2>2. Run(w) \in aborted
    BY <1>0 DEF ChildSummary, Working
  <2>3. Replaced'
    BY <2>2 DEF ChildSummary, Replaced, Run, There, callVars, pastVars
  <2> QED BY <1>0, <1>b, <1>1, <2>1, <2>3
       DEF ChildSummary, rootVars, callVars, pastVars, Summed, Beside, Behind
<1>9. Stored'
  BY <1>0, <1>s, SameWriters DEF ChildSummary, callVars, artVars, Stored, Item
<1>10. Cutting'
  BY CuttingKept DEF ChildSummary, elsewhere, rootVars, pastVars
<1> QED BY <1>1, <1>2, <1>3, <1>4, <1>5, <1>6, <1>7, <1>8, <1>9, <1>10 DEF TInv

-----------------------------------------------------------------------------
(* The invariant, and what follows from it *)

\* The log starts with the run of the root.
LEMMA InitHolds == Init => TInv
<1> SUFFICES ASSUME Init PROVE TInv
  OBVIOUS
<1>1. Root \notin Slots /\ 0 \in Turns /\ \A n \in Turns : n \in Nat
  BY LogAssumption DEF Turns
<1>2. RootRun \in Spans /\ RootRun[1] = "run" /\ RootRun[2] = 0 /\ RootRun[3] = Root
  BY <1>1, SpanIn DEF RootRun
<1>3. \A s \in Slots : slot[s] = Idle /\ Idle \in Work
  BY DEF Init, Idle, Work, Pcs
<1>4. TypeOK
  <2>1. TypeLog
    BY <1>2 DEF Init, TypeLog
  <2>2. TypeRead
    BY DEF Init, TypeRead
  <2>3. TypeRoot /\ TypeCall
    BY <1>1, LogAssumption DEF Init, TypeRoot, TypeCall
  <2>4. TypeSlot
    BY <1>3 DEF Init, TypeSlot, Work, Pcs
  <2>5. TypeArt /\ TypeRuns
    BY DEF Init, TypeArt, TypeRuns, pastVars
  <2> QED BY <2>1, <2>2, <2>3, <2>4, <2>5, TypeParts
<1>5. Log
  BY DEF Init, Log
<1>6. Looping
  BY <1>2 DEF Init, Looping, InTurn, Open
<1>c. Cutting
  BY DEF Init, Cutting
<1>7. Fresh
  BY <1>1, <1>2 DEF Init, Fresh
<1>8. Serving /\ Working
  BY DEF Init, Serving, Working, Busy, Capturing, Idle, pastVars
<1>9. OpenOnly /\ Summed
  BY DEF Init, OpenOnly, Summed, pastVars, OpenRoot, OpenCall, Tool, Replaced, There
<1>10. Stored
  <2>1. Writing = {}
    BY <1>3 DEF Writing, Idle
  <2>2. Cardinality(Slots) \in Nat /\ Cardinality(Slots) > 0
    BY LogAssumption, FS_CardinalityType, FS_EmptySet
  <2>3. bytes + Cardinality(Writing) < Cap + Cardinality(Slots)
    BY <2>1, <2>2, FS_EmptySet, LogAssumption DEF Init
  <2> QED BY <1>3, <2>3 DEF Init, Stored, Idle
<1> QED BY <1>4, <1>5, <1>6, <1>c, <1>7, <1>8, <1>9, <1>10 DEF TInv

\* Every step keeps the invariant.
LEMMA StepHolds == TInv /\ [Next]_vars => TInv'
<1> SUFFICES ASSUME TInv, [Next]_vars PROVE TInv'
  OBVIOUS
<1>1. CASE UNCHANGED vars
  <2>1. TypeOK' /\ Log' /\ Looping' /\ Fresh'
    BY <1>1 DEF TInv, vars, logVars, rootVars, callVars, artVars, pastVars, TypeOK, Log,
       Looping, Fresh, Open, Here, Tool
  <2>2. Serving' /\ Working'
    BY <1>1 DEF TInv, vars, logVars, rootVars, callVars, Serving, Working, Open, There, Model,
       Run, pastVars, Beside
  <2>3. OpenOnly' /\ Summed'
    BY <1>1 DEF TInv, vars, logVars, rootVars, callVars, OpenOnly, Summed, Here, There, Model,
       Run, pastVars, OpenRoot, OpenCall, Tool, Replaced
  <2>5. Cutting'
    BY <1>1, CuttingKept DEF vars, rootVars, pastVars
  <2>4. Stored'
    BY <1>1, StoredKept DEF vars, callVars, artVars
  <2> QED BY <2>1, <2>2, <2>3, <2>4, <2>5 DEF TInv
<1>2. CASE \/ Refused \/ SendModel \/ ModelReplies \/ ModelFails \/ ParseError
           \/ StartCell \/ CellReturns \/ CellRaises \/ RecordTool \/ EndCell \/ Finish \/ Abort
           \/ ReadForSummary \/ RootSummary
  BY <1>2, RefusedKept, SendModelKept, ModelRepliesKept, ModelFailsKept, ParseErrorKept,
     StartCellKept, CellReturnsKept, CellRaisesKept, RecordToolKept, EndCellKept, FinishKept,
     AbortKept, ReadForSummaryKept, RootSummaryKept
<1>3. CASE StartSingle \/ StartBatch \/ EndCall
  BY <1>3, StartSingleKept, StartBatchKept, EndCallKept
<1>4. ASSUME NEW w \in Slots,
             \/ SlotRefused(w) \/ SlotStarts(w) \/ ChildSends(w)
             \/ ChildRefused(w) \/ SlotModelFails(w)
             \/ CaptureStarts(w) \/ WriteArtifact(w) \/ ReadManifest(w)
             \/ WriteManifest(w) \/ SlotReplies(w)
             \/ ChildEnds(w) \/ ChildAborts(w) \/ ChildReadsLog(w) \/ ChildSummary(w)
      PROVE  TInv'
  BY <1>4, SlotRefusedKept, SlotStartsKept, ChildSendsKept, ChildRefusedKept, SlotModelFailsKept,
     CaptureStartsKept, WriteArtifactKept, ReadManifestKept, WriteManifestKept, SlotRepliesKept,
     ChildEndsKept, ChildAbortsKept, ChildReadsLogKept, ChildSummaryKept
<1> QED BY <1>1, <1>2, <1>3, <1>4 DEF Next

\* The invariant holds throughout: a log whose spans are opened and closed in
\* order, whoever writes it.
THEOREM Inductive == Spec => []TInv
BY InitHolds, StepHolds, PTL DEF Spec

\* Every variable keeps its type.
THEOREM TypeCorrect == Spec => []TypeOK
<1>1. TInv => TypeOK
  BY DEF TInv
<1> QED BY <1>1, Inductive, PTL

\* validate_trace finds nothing in the log, at any moment: no span under a
\* parent that is not there yet, no end of a span that has not started.
THEOREM LogIsValid == Spec => []TraceValid
<1>1. TInv => TraceValid
  BY DEF TInv, Log, TraceValid
<1> QED BY <1>1, Inductive, PTL

\* No span ends twice; once the run has answered, what is open was aborted, is
\* where something broke off, or belongs to a call that is still served.
THEOREM SpansAreClosed == Spec => []SpansClosed
<1>1. TInv => SpansClosed
  <2> SUFFICES ASSUME TInv PROVE SpansClosed
    OBVIOUS
  <2>1. EndsOnce
    <3>1. \A s \in Spans : ends[s] \in {0, 1}
      BY DEF TInv, Log
    <3> QED BY <3>1 DEF EndsOnce
  <2>2. ASSUME root = "finished", NEW s \in started, ends[s] = 0
        PROVE  s \in aborted \cup broken \/ (call # "none" /\ s \in Served)
    <3>1. OpenRoot(s) \/ OpenCall(s)
      BY <2>2 DEF TInv, OpenOnly
    <3>2. CASE OpenRoot(s)
      BY <2>2, <3>2 DEF OpenRoot
    <3>3. CASE OpenCall(s)
      <4>1. s \in Spans
        BY TypeParts DEF TInv, TypeLog
      <4>2. s \in Served
        BY <3>3, <4>1 DEF OpenCall, Served, There, Model, Run
      <4>3. call # "none"
        BY <3>3 DEF TInv, Serving, OpenCall, Busy, Capturing
      <4> QED BY <4>2, <4>3
    <3> QED BY <3>1, <3>2, <3>3
  <2>3. OpenIsInterrupted
    BY <2>2 DEF OpenIsInterrupted
  <2> QED BY <2>1, <2>3 DEF SpansClosed
<1> QED BY <1>1, Inductive, PTL

\* The summary of a run that answered is complete and made from the whole log:
\* no child and no late thread writes to either after it.  If its last cell left
\* a call behind, only a child of that call that aborted replaces the summary.
THEOREM SummaryIsFinal == Spec => []SummaryFinal
<1>1. TInv => SummaryFinal
  BY DEF TInv, Summed, SummaryFinal, Replaced
<1> QED BY <1>1, Inductive, PTL

\* What the log and the manifest name is stored, and the cap on artifacts is
\* passed by less than one item for each thread.
THEOREM ArtifactsAreKept == Spec => []ArtifactsKept
<1>1. TInv => ArtifactsKept
  <2> SUFFICES ASSUME TInv PROVE ArtifactsKept
    OBVIOUS
  <2>1. NamedIsStored
    BY DEF TInv, Stored, NamedIsStored
  <2>2. bytes + Cardinality(Writing) < Cap + Cardinality(Slots) /\ bytes \in Nat
    BY TypeParts DEF TInv, Stored, TypeArt
  <2>3. CapOvershoot
    BY <2>2, Writers, LogAssumption DEF CapOvershoot
  <2> QED BY <2>1, <2>3 DEF ArtifactsKept
<1> QED BY <1>1, Inductive, PTL
=============================================================================
