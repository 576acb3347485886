---------------------------- MODULE CellProtocol ----------------------------
(***************************************************************************)
(* One session of a DockerEnv: the host sends cells over one socket, the   *)
(* REPL server in the container runs each in a namespace that lives on, a  *)
(* SIGALRM timer ends a cell that computes too long and is paused while a  *)
(* thread of the cell waits for the host, and every such wait is a         *)
(* connection of its own, served by a thread of the host's callback server *)
(* whose handler keeps the current cell in one shared field.               *)
(*                                                                         *)
(* Time is counted in ticks of the timer; a tick is long compared with two *)
(* adjacent calls, so none falls between getitimer and setitimer.  A cell  *)
(* may start threads, and run_cell waits for none of them: a thread that   *)
(* is left goes on between the cells and beside those that follow.         *)
(***************************************************************************)
EXTENDS Integers, FiniteSets

CONSTANTS Main,       \* the thread that runs a cell, the one signals reach
          Workers,    \* the threads a cell may start
          Limit,      \* ticks a cell may compute: cell_timeout_s
          MaxCells,   \* bound on the cells of a run
          MaxCalls,   \* bound on the host calls of a run
          MaxErrors    \* max_consecutive_errors

ASSUME CellAssumption ==
  /\ Main \notin Workers
  /\ Limit \in Nat \ {0} /\ MaxErrors \in Nat \ {0}
  /\ MaxCells \in Nat /\ MaxCalls \in Nat

Threads == {Main} \cup Workers
Cells == 0..MaxCells            \* 0 is "no cell"
Calls == 0..MaxCalls            \* 0 is "no call"
NotText == -1                   \* a value that is not a str

VARIABLES
  host,      \* "boot", "idle", "waiting" for a cell, "done", or "failed"
  capped,    \* whether the run has a time limit, so that the host's wait has
  errors,    \* consecutive cells that reported an error
  context,   \* RuntimeHandler._cell_span_id, shared by all connections
  sent,      \* cells sent so far: the number of the last one
  server,    \* "boot", "idle", "taking", "run", "raise"; "gone" when its main
             \* thread is over and the connection closed, "dead" as a process
  span,      \* RpcHandler.cell_span_id: the cell that calls are sent for
  final,     \* ns["_rlm_final"]: the cell whose text it is
  answer,    \* the dict ns["answer"]: [ready, value], a cell or NotText
  owner,     \* owner[t]: the cell that started thread t, 0 for none
  alarm,     \* ticks until SIGALRM, 0 when the timer is off
  waits,     \* waits[t]: the call that thread t is making
  saved,     \* saved[t]: `remaining` of the pause_alarm that t is in
  call,      \* call[c]: [cell, span, stage], the connection of call c
  made,      \* calls made so far: the number of the last one
  reply,     \* the frame on its way to the host: [cell, final, error]
  result,    \* the cell whose text the run returned
  \* history, read by properties only
  used,      \* ticks the current cell computed under the timer
  shared,    \* two threads were in a call at once in the current cell, or
             \* one was when it began
  fired,     \* the timer of the current cell ran out
  orphaned,  \* a call was left by its caller and is still served
  outlived,  \* a thread was in a call, or acted, after its cell had ended
  booked     \* [cell, under]: a call of cell, and the cell it is recorded under

vars == <<host, capped, errors, context, sent, server, span, final, answer,
          owner, alarm, waits, saved, call, made, reply, result, used, shared,
          fired, orphaned, outlived, booked>>

hostVars  == <<host, capped, errors, sent, result>>
nsVars    == <<span, final, answer, owner>>
timerVars == <<alarm, saved, used>>
callVars  == <<waits, call, made>>
ghosts    == <<shared, fired, orphaned, outlived>>

Free     == [cell |-> 0, span |-> 0, stage |-> "free"]
NoReply  == [cell |-> 0, final |-> 0, error |-> FALSE]
Served   == {"sent", "set"}   \* the host's thread has still to answer
Answered == {"ok", "cut"}     \* a frame to read; the frame above the limit

Init == /\ host = "boot" /\ server = "boot" /\ capped \in BOOLEAN
        /\ errors = 0 /\ context = 0 /\ sent = 0 /\ made = 0 /\ result = 0
        /\ span = 0 /\ final = 0 /\ answer = [ready |-> FALSE, value |-> 0]
        /\ owner = [t \in Workers |-> 0] /\ alarm = 0 /\ used = 0
        /\ waits = [t \in Threads |-> 0] /\ saved = [t \in Threads |-> 0]
        /\ call = [c \in Calls |-> Free]
        /\ reply = NoReply
        /\ shared = FALSE /\ fired = FALSE /\ orphaned = FALSE /\ outlived = FALSE
        /\ booked = {}

InCell == server \in {"run", "raise"}
Busy(t) == waits[t] # 0

\* Thread t runs code: the main thread that of the cell, a worker that of the
\* cell it was started by, which may be over.
Acts(t) == ~Busy(t) /\ IF t = Main THEN server = "run"
                       ELSE owner[t] # 0 /\ server \notin {"boot", "dead"}
CellOf(t) == IF t = Main THEN sent ELSE owner[t]
Late(t) == outlived \/ ~InCell \/ CellOf(t) # sent

\* The calls, once the threads in Q have closed their connections: the host
\* goes on with those it has not answered.
Hangup(Q) == [c \in Calls |-> IF c # 0 /\ call[c].stage \notin Served
                                 /\ \E t \in Q : waits[t] = c
                              THEN Free ELSE call[c]]
Abandons(Q) == \E t \in Q : Busy(t) /\ call[waits[t]].stage \in Served

-----------------------------------------------------------------------------
(* The host *)

\* The container is started, its socket awaited, init sent and acknowledged.
Boot == /\ host = "boot"
        /\ host' = "idle" /\ server' = "idle"
        /\ UNCHANGED <<capped, errors, sent, result, context, nsVars, timerVars,
                       callVars, ghosts, reply, booked>>

\* The server's process ends, with its threads.  The connections the host is
\* serving live on, in daemon threads.
Killed ==
  /\ server' = "dead" /\ alarm' = 0
  /\ waits' = [t \in Threads |-> 0] /\ saved' = [t \in Threads |-> 0]
  /\ orphaned' = (orphaned \/ Abandons(Threads)) /\ call' = Hangup(Threads)

\* close(): the container goes.
Shutdown == Killed /\ reply' = NoReply

\* A run that fails closes its session.
Fails == /\ host' = "failed" /\ Shutdown
         /\ UNCHANGED <<capped, errors, sent, result, context, nsVars, used, made,
                        shared, fired, outlived, booked>>

\* Any failure on the way to the acknowledgement closes what was started.
BootFails == host = "boot" /\ Fails

\* execute: the cell's span becomes the callback context, the frame is sent.
Execute == /\ host = "idle" /\ server = "idle" /\ sent < MaxCells
           /\ host' = "waiting" /\ sent' = sent + 1 /\ context' = sent + 1
           /\ server' = "taking"
           /\ UNCHANGED <<capped, errors, result, nsVars, timerVars, callVars,
                          ghosts, reply, booked>>

\* The run stops asking: its budget of iterations or of time is spent.
GiveUp == host = "idle" /\ Fails

\* The wait for the frame has a limit only when the run has one.
HostWaitExpires == host = "waiting" /\ capped /\ Fails

\* The server read a frame above the limit, or wrote one: read_msg raises on
\* the side that reads, and the session ends there.
FrameRefused == /\ host = "waiting"
                /\ server = "taking" \/ reply.cell # 0
                /\ Fails

\* The server is gone: the write of the next frame, or the read of the one the
\* host waits for, raises.
ConnectionLost == /\ host \in {"idle", "waiting"}
                  /\ server \in {"gone", "dead"} /\ reply = NoReply
                  /\ Fails

\* The loop reads an observation: an error counts first, then a final answers.
TooManyErrors == reply.error /\ errors + 1 >= MaxErrors
\* Mutant: the text of a cell that failed is not taken.
AnswersIfClean == ~reply.error /\ reply.final # 0
Answers == ~TooManyErrors /\ reply.final # 0
Observe ==
  /\ host = "waiting" /\ reply.cell # 0
  /\ errors' = IF reply.error THEN errors + 1 ELSE 0
  /\ \/ /\ TooManyErrors
        /\ host' = "failed" /\ Shutdown /\ UNCHANGED result
     \/ /\ Answers
        /\ host' = "done" /\ Shutdown /\ result' = reply.final
     \/ /\ ~TooManyErrors /\ ~Answers
        /\ host' = "idle" /\ reply' = NoReply
        /\ UNCHANGED <<server, alarm, waits, saved, call, orphaned, result>>
  /\ UNCHANGED <<capped, sent, context, nsVars, used, made, shared,
                 fired, outlived, booked>>

-----------------------------------------------------------------------------
(* The cell *)

\* Mutant: the span of the first cell is kept.
StartCellKeepsSpan ==
  /\ server = "taking"
  /\ server' = "run" /\ alarm' = Limit /\ used' = 0
  /\ span' = IF span = 0 THEN sent ELSE span
  /\ shared' = (\E t \in Threads : Busy(t)) /\ fired' = FALSE
  /\ UNCHANGED <<hostVars, context, final, answer, owner, saved, callVars,
                 orphaned, outlived, reply, booked>>

\* The server notes the cell's span; run_cell arms the timer, starts the code.
StartCell == /\ server = "taking"
             /\ server' = "run" /\ span' = sent /\ alarm' = Limit /\ used' = 0
             /\ shared' = (\E t \in Threads : Busy(t)) /\ fired' = FALSE
             /\ UNCHANGED <<hostVars, context, final, answer, owner, saved, callVars,
                            orphaned, outlived, reply, booked>>

\* The cell starts a thread.
StartThread(t) ==
  /\ Acts(Main) /\ ~Busy(t) /\ owner[t] # sent
  /\ owner' = [owner EXCEPT ![t] = sent]
  /\ UNCHANGED <<hostVars, context, server, span, final, answer, timerVars,
                 callVars, ghosts, reply, booked>>

\* FINAL: the text is kept in the namespace and in the answer dict.
CallFinal(t) ==
  /\ Acts(t)
  /\ final' = CellOf(t) /\ answer' = [ready |-> TRUE, value |-> CellOf(t)]
  /\ outlived' = Late(t)
  /\ UNCHANGED <<hostVars, context, server, span, owner, timerVars, callVars,
                 shared, fired, orphaned, reply, booked>>

\* The code sets answer["ready"], with a text or with something else.
SetAnswer(t) ==
  /\ Acts(t)
  /\ \E v \in {CellOf(t), NotText} : answer' = [ready |-> TRUE, value |-> v]
  /\ outlived' = Late(t)
  /\ UNCHANGED <<hostVars, context, server, span, final, owner, timerVars,
                 callVars, shared, fired, orphaned, reply, booked>>

\* The code raises: a bad name, FINAL of a dict, an exception of its own.
Raise == /\ Acts(Main)
         /\ server' = "raise"
         /\ UNCHANGED <<hostVars, context, nsVars, timerVars, callVars, ghosts,
                        reply, booked>>

\* The code catches what was raised in it, the timer's TimeoutError included.
Catch == /\ server = "raise"
         /\ server' = "run"
         /\ UNCHANGED <<hostVars, context, nsVars, timerVars, callVars, ghosts,
                        reply, booked>>

\* What run_cell reports: the FINAL text, else the answer when it is ready; an
\* answer that is not a text is an error.
Reported(raised) ==
  LET bad == final = 0 /\ answer.ready /\ answer.value = NotText
  IN  [cell  |-> sent,
       final |-> IF final # 0 THEN final
                 ELSE IF answer.ready /\ ~bad THEN answer.value ELSE 0,
       error |-> raised \/ bad]

\* The code of the main thread is over and the timer switched off; the threads
\* the cell started are not waited for.
LeaveCell == /\ ~Busy(Main) /\ alarm' = 0
             /\ outlived' = (outlived \/ \E t \in Workers : Busy(t))
             /\ UNCHANGED <<hostVars, context, nsVars, saved, used, callVars,
                            shared, fired, orphaned, booked>>

\* The observation is sent.
EndCell == /\ InCell /\ LeaveCell
           /\ server' = "idle" /\ reply' = Reported(server = "raise")

\* The code raises SystemExit, or another exception run_cell does not catch:
\* serve closes the connection, and its process waits for the threads.
Exit == /\ server = "run" /\ LeaveCell
        /\ server' = "gone" /\ UNCHANGED reply

\* At 0 TimeoutError is raised in the main thread, wherever it is.  In a host
\* call the way out passes pause_alarm, which arms the timer again with what
\* it had saved, and the connection is closed.
TimeOut ==
  /\ server' = "raise" /\ fired' = TRUE
  /\ alarm' = saved[Main]
  /\ saved' = [saved EXCEPT ![Main] = 0]
  /\ waits' = [waits EXCEPT ![Main] = 0]
  /\ orphaned' = (orphaned \/ Abandons({Main})) /\ call' = Hangup({Main})

\* The timer runs.  Outside a cell its signal has the default action: it ends
\* the process, unless that is the first of its container, where it is dropped.
Tick ==
  /\ alarm > 0
  /\ \A t \in Threads : Busy(t) => call[waits[t]].stage # "got"
  /\ used' = IF InCell THEN used + 1 ELSE used
  /\ \/ /\ alarm > 1 \/ ~InCell
        /\ alarm' = alarm - 1
        /\ UNCHANGED <<server, saved, waits, call, orphaned, fired>>
     \/ alarm = 1 /\ InCell /\ TimeOut
     \/ alarm = 1 /\ ~InCell /\ Killed /\ UNCHANGED fired
  /\ UNCHANGED <<hostVars, context, nsVars, made, shared, outlived, reply, booked>>

-----------------------------------------------------------------------------
(* A call of the cell to the host: RpcHandler._call *)

\* Connect, and read the timer.
BeginCall(t) ==
  /\ Acts(t) /\ made < MaxCalls
  /\ made' = made + 1
  /\ waits' = [waits EXCEPT ![t] = made + 1]
  /\ saved' = [saved EXCEPT ![t] = alarm]
  /\ call' = [call EXCEPT ![made + 1] = [cell |-> CellOf(t), span |-> span, stage |-> "got"]]
  /\ shared' = (shared \/ \E u \in Threads : Busy(u)) /\ outlived' = Late(t)
  /\ UNCHANGED <<hostVars, context, server, nsVars, alarm, used, fired,
                 orphaned, reply, booked>>

\* Switch the timer off, and send the request.
PauseTimer(t) ==
  /\ Busy(t) /\ call[waits[t]].stage = "got"
  /\ alarm' = 0
  /\ call' = [call EXCEPT ![waits[t]].stage = "sent"]
  /\ UNCHANGED <<hostVars, context, server, nsVars, saved, used, waits, made,
                 ghosts, reply, booked>>

\* The caller has its answer, an error text, or an exception: the connection
\* was closed on a frame above the limit.  The timer gets back what was saved.
\*   Mutants: the limit anew; after an answer only.
RearmedFull(t)  == IF saved[t] > 0 THEN Limit ELSE alarm
RearmedAfterAnswer(t) ==
  IF saved[t] > 0 /\ call[waits[t]].stage = "ok" THEN saved[t] ELSE alarm
Rearmed(t) == IF saved[t] > 0 THEN saved[t] ELSE alarm
CallReturns(t) ==
  /\ Busy(t) /\ call[waits[t]].stage \in Answered
  /\ alarm' = Rearmed(t)
  /\ saved' = [saved EXCEPT ![t] = 0]
  /\ waits' = [waits EXCEPT ![t] = 0]
  /\ call' = [call EXCEPT ![waits[t]] = Free]
  /\ server' = IF t = Main /\ call[waits[t]].stage = "cut" THEN "raise" ELSE server
  /\ UNCHANGED <<hostVars, context, nsVars, used, made, ghosts, reply, booked>>

-----------------------------------------------------------------------------
(* The host's thread of a connection: CallbackServer._serve_request *)

\* A connection the caller has closed is closed on this side when it is done.
After(c, stage) == IF \E t \in Threads : waits[t] = c
                   THEN [call EXCEPT ![c].stage = stage]
                   ELSE [call EXCEPT ![c] = Free]

\* Mutant: the connection of a refused request is not closed.
ReadRequestLeavesOpen(c) ==
  /\ call[c].stage = "sent"
  /\ \/ /\ call' = [call EXCEPT ![c].stage = "set"]
        /\ context' = call[c].span
     \/ /\ call' = [call EXCEPT ![c].stage = "free"]
        /\ UNCHANGED context
  /\ UNCHANGED <<hostVars, server, nsVars, timerVars, waits, made, ghosts,
                 reply, booked>>

\* The request is read and its cell becomes the handler's; a request above the
\* limit ends the thread, and the connection with it.
ReadRequest(c) ==
  /\ call[c].stage = "sent"
  /\ \/ /\ call' = [call EXCEPT ![c].stage = "set"]
        /\ context' = call[c].span
     \/ /\ call' = After(c, "cut")
        /\ UNCHANGED context
  /\ UNCHANGED <<hostVars, server, nsVars, timerVars, waits, made, ghosts,
                 reply, booked>>

\* The handler's method reads the field, works, and the answer is sent: a
\* value or the text of an exception, or a frame the caller refuses to read.
Handle(c) ==
  /\ call[c].stage = "set"
  /\ booked' = booked \cup {[cell |-> call[c].cell, under |-> context]}
  /\ \E stage \in Answered : call' = After(c, stage)
  /\ UNCHANGED <<hostVars, context, server, nsVars, timerVars, waits, made,
                 ghosts, reply>>

Next ==
  \/ Boot \/ BootFails \/ Execute \/ GiveUp \/ HostWaitExpires \/ FrameRefused
  \/ ConnectionLost \/ Observe
  \/ StartCell \/ Raise \/ Catch \/ EndCell \/ Exit \/ Tick
  \/ \E t \in Workers : StartThread(t)
  \/ \E t \in Threads : \/ CallFinal(t) \/ SetAnswer(t)
                        \/ BeginCall(t) \/ PauseTimer(t) \/ CallReturns(t)
  \/ \E c \in Calls : ReadRequest(c) \/ Handle(c)

\* The timer runs, the server and the host's threads work, what is raised in
\* the code propagates; the code itself owes nothing, nor does the model.
Fairness ==
  /\ WF_vars(StartCell) /\ WF_vars(Tick) /\ WF_vars(Observe)
  /\ WF_vars(server = "raise" /\ (EndCell \/ Catch))
  /\ \A t \in Threads : WF_vars(PauseTimer(t)) /\ WF_vars(CallReturns(t))
  /\ \A c \in Calls : WF_vars(ReadRequest(c)) /\ WF_vars(Handle(c))
  /\ WF_vars(HostWaitExpires) /\ WF_vars(ConnectionLost)

Spec == Init /\ [][Next]_vars /\ Fairness

-----------------------------------------------------------------------------
Stages == {"free", "got"} \cup Served \cup Answered

TypeOK ==
  /\ host \in {"boot", "idle", "waiting", "done", "failed"}
  /\ server \in {"boot", "idle", "taking", "run", "raise", "gone", "dead"}
  /\ capped \in BOOLEAN /\ shared \in BOOLEAN /\ fired \in BOOLEAN
  /\ orphaned \in BOOLEAN /\ outlived \in BOOLEAN
  /\ errors \in 0..MaxErrors /\ made \in Calls /\ used \in Nat
  /\ {context, sent, span, final, result} \subseteq Cells
  /\ answer \in [ready : BOOLEAN, value : Cells \cup {NotText}]
  /\ owner \in [Workers -> Cells] /\ alarm \in 0..Limit
  /\ waits \in [Threads -> Calls] /\ saved \in [Threads -> 0..Limit]
  /\ call \in [Calls -> [cell : Cells, span : Cells, stage : Stages]]
  /\ reply \in [cell : Cells, final : Cells, error : BOOLEAN]
  /\ booked \subseteq [cell : Cells, under : Cells]

\* The timer is on outside a cell, where its signal would end the server
\* (run_cell puts the default handler back), only after a thread was in a call
\* when its cell ended: on its way out of it pause_alarm arms the timer.
AlarmOnlyInCell == alarm > 0 => InCell \/ outlived

\* A cell computes for its limit and no longer: what it used and what is left
\* add up, over all its calls and those of threads left by earlier cells, as
\* long as they are made one at a time and none was open when it began.
TimeKept == InCell /\ ~shared =>
  /\ \A t \in Threads : saved[t] > 0 => used + saved[t] = Limit
  /\ (\A t \in Threads : saved[t] = 0) => used + alarm = Limit

\* The timer is what limits a cell: it is on for no other purpose, and what it
\* was set to is neither lost nor renewed.
TimerRight == AlarmOnlyInCell /\ TimeKept

\* The answer of the run is the text of the cell that ran last: FINAL stays in
\* the namespace, and is never reported for a later cell unless a thread acted
\* after its cell.
AnswerOfLastCell == result # 0 => result = sent \/ outlived

\* A call is recorded under the cell that made it, although every connection
\* writes the same field, as long as no call has been left by its caller and
\* no thread went on after its cell.
BookedUnderItsCell == orphaned \/ outlived \/ \A b \in booked : b.under = b.cell

\* Every call of a thread ends: with an answer or with an exception.
CallsSettle == \A t \in Threads : Busy(t) ~> ~Busy(t)

\* Every cell ends: the host has its observation or gives up, unless the cell
\* goes on after it caught its own TimeoutError and the run has no time limit,
\* or its threads called at the same time and lost the timer between them.
CellsEnd ==
  (host = "waiting") ~>
    (host # "waiting" \/ (~capped /\ (shared \/ (fired /\ server = "run"))))

\* docs/repl.md:96 "That timer is paused for the duration of `llm_query` /
\* `rlm_query`": two threads break it, the first answer arms it for both.
PausedDuringCalls ==
  \A t \in Threads : Busy(t) /\ call[waits[t]].stage # "got" => alarm = 0

-----------------------------------------------------------------------------
(* The inductive strengthening of the invariants above *)

\* Where the host is determines where the server is, and who holds the frame.
Control ==
  /\ server \in {"boot", "dead"} => alarm = 0
  /\ host = "boot" => server = "boot" /\ reply = NoReply
  /\ host = "idle" => server \in {"idle", "dead"} /\ reply = NoReply
  /\ host = "waiting" =>
       /\ sent > 0
       /\ \/ server \in {"taking", "run", "raise", "gone", "dead"} /\ reply = NoReply
          \/ server \in {"idle", "dead"} /\ reply.cell = sent
  /\ host \in {"done", "failed"} => server = "dead" /\ reply = NoReply
  /\ host \notin {"done", "failed"} => errors < MaxErrors
  /\ result # 0 => host = "done" /\ AnswerOfLastCell

\* Nothing in the namespace speaks for a later cell than the one that said it.
Silent == final = 0 /\ (answer.ready => answer.value = NotText)
Speaking == ~outlived =>
  /\ host \in {"boot", "idle"} \/ server = "taking" => Silent
  /\ host = "waiting" =>
       final \in {0, sent} /\ (answer.ready => answer.value \in {NotText, sent})
  /\ reply.cell # 0 =>
       reply.final \in {0, sent} /\ (reply.final = 0 => Silent)

\* A thread waits for a call of its own; until one goes on after its cell, of
\* the cell that runs.
Calling ==
  /\ call[0].stage = "free"
  /\ InCell => span = sent
  /\ Busy(Main) => InCell
  /\ \A t \in Threads : saved[t] > 0 => Busy(t)
  /\ \A t \in Threads : Busy(t) =>
       /\ server \notin {"boot", "dead"} /\ waits[t] =< made
       /\ ~outlived => /\ InCell
                       /\ call[waits[t]].cell = sent /\ call[waits[t]].span = sent
  /\ \A t, u \in Threads : Busy(t) /\ waits[t] = waits[u] => t = u

\* One thread at a time either has the timer's value or has turned it off.
Timing ==
  /\ TimerRight
  /\ InCell /\ ~shared => \A t, u \in Threads : Busy(t) /\ Busy(u) => t = u
  /\ InCell /\ ~shared => \A t \in Threads : Busy(t) =>
       alarm = IF call[waits[t]].stage = "got" THEN saved[t] ELSE 0

\* As long as no call is left behind and no thread goes on after its cell,
\* what is served was asked by the cell.
Booking ==
  ~orphaned /\ ~outlived =>
    /\ host = "waiting" => context = sent
    /\ \A c \in Calls : call[c].stage \in Served => \E t \in Threads : waits[t] = c
    /\ BookedUnderItsCell

IInv == TypeOK /\ Control /\ Speaking /\ Calling /\ Timing /\ Booking
=============================================================================
