------------------------- MODULE CellProtocol_proofs -------------------------
(***************************************************************************)
(* The invariants of a REPL session, for every number of cells, calls and  *)
(* threads.  The strengthening says where host and server can be together  *)
(* (Control), for which cell the namespace may speak (Speaking), who waits *)
(* for which call (Calling), where the timer's value is (Timing) and whose *)
(* the callback context is (Booking).                                      *)
(***************************************************************************)
EXTENDS CellProtocol, TLAPS

\* The bounds of the model are numbers.
LEMMA Bounds == /\ Main \notin Workers /\ Main \in Threads
                /\ Limit \in Nat /\ Limit > 0 /\ MaxErrors \in Nat /\ MaxErrors > 0
                /\ MaxCells \in Nat /\ MaxCalls \in Nat
  BY CellAssumption DEF Threads

\* While a cell runs, the host waits for it and no frame is under way.
LEMMA Running == ASSUME Control, TypeOK, InCell
                 PROVE  host = "waiting" /\ reply = NoReply /\ sent > 0
  BY DEF Control, TypeOK, InCell

\* As long as no thread has acted late, whoever acts is of the cell that runs.
LEMMA LateStep ==
  ASSUME TypeOK, NEW t \in Threads, outlived' = Late(t)
  PROVE  /\ outlived' \in BOOLEAN /\ (outlived => outlived')
         /\ ~outlived' => InCell /\ CellOf(t) = sent
  BY DEF Late, TypeOK

\* A session starts with nothing said, nothing asked and the timer off.
LEMMA Start == Init => IInv
<1> SUFFICES ASSUME Init PROVE IInv  OBVIOUS
<1> USE Bounds DEF Init, NoReply, Free
<1>1. TypeOK
  <2>1. 0 \in Cells /\ 0 \in Calls /\ 0 \in 0..Limit /\ 0 \in 0..MaxErrors
    BY DEF Cells, Calls
  <2>2. Free \in [cell : Cells, span : Cells, stage : Stages]
    BY <2>1 DEF Stages
  <2>3. call \in [Calls -> [cell : Cells, span : Cells, stage : Stages]]
    BY <2>2
  <2>4. /\ waits \in [Threads -> Calls] /\ saved \in [Threads -> 0..Limit]
        /\ owner \in [Workers -> Cells]
    BY <2>1
  <2> QED  BY <2>1, <2>3, <2>4 DEF TypeOK
<1>2. Control /\ Speaking
  BY DEF Control, Speaking, Silent, AnswerOfLastCell
<1>3. Calling
  BY DEF Calling, InCell, Busy, Calls
<1>4. Timing
  BY DEF Timing, TimerRight, AlarmOnlyInCell, TimeKept, InCell, Busy
<1>5. Booking
  BY DEF Booking, BookedUnderItsCell, Served, Calls
<1> QED  BY <1>1, <1>2, <1>3, <1>4, <1>5 DEF IInv

\* When the server's process ends nobody waits for a call any more; one the
\* host is still serving is then left by its caller.
LEMMA KilledStep ==
  ASSUME IInv, Killed, host' = "waiting" => host = "waiting",
         UNCHANGED <<sent, context, nsVars, made, shared, outlived, booked>>
  PROVE  /\ Calling' /\ Timing' /\ Booking'
         /\ waits' \in [Threads -> Calls] /\ saved' \in [Threads -> 0..Limit]
         /\ call' \in [Calls -> [cell : Cells, span : Cells, stage : Stages]]
         /\ alarm' \in 0..Limit /\ orphaned' \in BOOLEAN
<1> USE Bounds DEF IInv, Killed, nsVars
<1>1. /\ waits' \in [Threads -> Calls] /\ saved' \in [Threads -> 0..Limit]
      /\ call' \in [Calls -> [cell : Cells, span : Cells, stage : Stages]]
      /\ alarm' \in 0..Limit /\ orphaned' \in BOOLEAN
  BY DEF TypeOK, Hangup, Free, Stages, Cells, Calls
<1>2. Calling'
  BY DEF Calling, InCell, Busy, TypeOK, Hangup, Free, Calls
<1>3. Timing'
  BY DEF Timing, TimerRight, AlarmOnlyInCell, TimeKept, InCell
<1>4. Booking'
  <2> SUFFICES ASSUME ~orphaned', ~outlived' PROVE Booking'  BY DEF Booking
  <2>1. ~orphaned /\ ~Abandons(Threads) /\ ~outlived
    BY DEF TypeOK
  <2>2. ASSUME NEW c \in Calls, call'[c].stage \in Served PROVE FALSE
    <3>1. call[c].stage \in Served
      BY <2>2 DEF Hangup, Free, Served
    <3>2. PICK t \in Threads : waits[t] = c
      BY <2>1, <3>1 DEF Booking
    <3> QED  BY <2>1, <3>1, <3>2 DEF Abandons, Busy, Calling, Served
  <2>3. BookedUnderItsCell' /\ (host' = "waiting" => context' = sent')
    BY <2>1 DEF Booking, BookedUnderItsCell
  <2> QED  BY <2>2, <2>3 DEF Booking
<1> QED  BY <1>1, <1>2, <1>3, <1>4

\* However a session is closed, what it had booked and returned stays right.
LEMMA Closing ==
  ASSUME IInv, Shutdown, host' \in {"done", "failed"}, errors' \in 0..MaxErrors,
         result' \in Cells,
         result' # 0 => host' = "done" /\ (result' = sent \/ outlived),
         UNCHANGED <<capped, sent, context, nsVars, used, made, shared, fired,
                     outlived, booked>>
  PROVE  IInv'
<1>1. /\ Calling' /\ Timing' /\ Booking'
      /\ waits' \in [Threads -> Calls] /\ saved' \in [Threads -> 0..Limit]
      /\ call' \in [Calls -> [cell : Cells, span : Cells, stage : Stages]]
      /\ alarm' \in 0..Limit /\ orphaned' \in BOOLEAN
  BY KilledStep DEF Shutdown
<1>2. TypeOK'
  <2>1. reply' \in [cell : Cells, final : Cells, error : BOOLEAN] /\ server' = "dead"
    BY Bounds DEF Shutdown, Killed, NoReply, Cells
  <2>2. UNCHANGED <<capped, sent, context, span, final, answer, owner, used, made,
                    shared, fired, outlived, booked>>
    BY DEF nsVars
  <2> QED  BY <1>1, <2>1, <2>2 DEF IInv, TypeOK
<1>3. Control' /\ Speaking'
  BY DEF IInv, Shutdown, Killed, nsVars, Control, Speaking, NoReply, Silent,
         AnswerOfLastCell
<1> QED  BY <1>1, <1>2, <1>3 DEF IInv

\* The host reads an observation: the run goes on, only if nothing was said.
LEMMA ObserveStep == IInv /\ Observe => IInv'
<1> SUFFICES ASSUME IInv, Observe PROVE IInv'  OBVIOUS
<1> USE Bounds
<1>1. /\ host = "waiting" /\ reply.cell # 0 /\ server \in {"idle", "dead"}
      /\ reply.cell = sent
  BY DEF Observe, IInv, Control, NoReply
<1>2. errors' \in 0..MaxErrors /\ (errors' < MaxErrors \/ TooManyErrors)
  <2>1. errors < MaxErrors /\ errors \in Nat
    BY <1>1 DEF IInv, Control, TypeOK
  <2> QED  BY <2>1 DEF Observe, TooManyErrors
<1>3. CASE TooManyErrors
  <2>1. ~Answers /\ Shutdown /\ host' = "failed" /\ UNCHANGED result
    BY <1>3 DEF Observe, Answers
  <2>2. result = 0
    BY <1>1 DEF IInv, Control
  <2> QED  BY <1>2, <2>1, <2>2, Closing DEF Observe, IInv, TypeOK, Cells
<1>4. CASE Answers
  <2>1. Shutdown /\ host' = "done" /\ result' = reply.final
    BY <1>4 DEF Observe, Answers
  <2>2. (reply.final = sent \/ outlived) /\ reply.final \in Cells
    BY <1>1, <1>4 DEF Answers, IInv, Speaking, TypeOK
  <2> QED  BY <1>2, <2>1, <2>2, Closing DEF Observe
<1>5. CASE ~TooManyErrors /\ ~Answers
  <2>1. /\ host' = "idle" /\ reply' = NoReply
        /\ UNCHANGED <<server, alarm, waits, saved, call, orphaned, result>>
        /\ UNCHANGED <<capped, sent, context, nsVars, used, made, shared, fired,
                       outlived, booked>>
    BY <1>5 DEF Observe, Answers
  <2>2. outlived \/ Silent
    BY <1>1, <1>5 DEF Answers, IInv, Speaking
  <2> USE DEF IInv, nsVars
  <2>3. TypeOK'
    BY <1>2, <2>1 DEF TypeOK, NoReply, Cells
  <2>4. Control'
    BY <1>1, <1>2, <1>5, <2>1 DEF Control, AnswerOfLastCell
  <2>5. Speaking'
    BY <1>1, <2>1, <2>2 DEF Speaking, NoReply, Silent
  <2>6. Calling' /\ Timing'
    BY <2>1 DEF Calling, Timing, TimerRight, AlarmOnlyInCell, TimeKept, InCell, Busy
  <2>7. Booking'
    BY <2>1 DEF Booking, BookedUnderItsCell
  <2> QED  BY <2>3, <2>4, <2>5, <2>6, <2>7
<1> QED  BY <1>3, <1>4, <1>5

\* The other steps of the host: the session is opened, a cell is sent, or the
\* session is closed without an observation.
LEMMA HostStep ==
  IInv /\ (\/ Boot \/ BootFails \/ Execute \/ GiveUp \/ HostWaitExpires
           \/ FrameRefused \/ ConnectionLost)
    => IInv'
<1> SUFFICES ASSUME IInv, \/ Boot \/ BootFails \/ Execute \/ GiveUp
                          \/ HostWaitExpires \/ FrameRefused \/ ConnectionLost
             PROVE  IInv'
  OBVIOUS
<1> USE Bounds
<1>1. CASE BootFails \/ GiveUp \/ HostWaitExpires \/ FrameRefused \/ ConnectionLost
  <2>1. Fails /\ host \in {"boot", "idle", "waiting"}
    BY <1>1 DEF BootFails, GiveUp, HostWaitExpires, FrameRefused, ConnectionLost
  <2>2. /\ result = 0 /\ errors \in 0..MaxErrors
        /\ Shutdown /\ host' = "failed" /\ UNCHANGED <<errors, result>>
        /\ UNCHANGED <<capped, sent, context, nsVars, used, made, shared, fired,
                       outlived, booked>>
    BY <2>1 DEF Fails, IInv, Control, TypeOK
  <2> QED  BY <2>1, <2>2, Closing DEF Cells
<1>2. CASE Boot \/ Execute
  <2> USE <1>2 DEF Boot, Execute, IInv, nsVars, timerVars, callVars, ghosts
  <2>1. ~InCell /\ ~InCell' /\ server # "dead"
    BY DEF Control, InCell
  <2>2. TypeOK'
    BY DEF TypeOK, Cells
  <2>3. Control' /\ Speaking'
    BY DEF Control, Speaking, NoReply, Silent, TypeOK, Cells, AnswerOfLastCell
  <2>4. Calling' /\ Timing'
    <3>1. \A t \in Threads : Busy(t) => server # "boot"
      BY DEF Calling
    <3> QED  BY <2>1, <3>1 DEF Calling, Timing, TimerRight, AlarmOnlyInCell, TimeKept, Busy
  <2>5. Booking'
    BY DEF Booking, BookedUnderItsCell
  <2> QED  BY <2>2, <2>3, <2>4, <2>5
<1> QED  BY <1>1, <1>2

\* The code of a cell raises, or catches what was raised; it starts a thread.
LEMMA QuietStep ==
  IInv /\ (Raise \/ Catch \/ \E t \in Workers : StartThread(t)) => IInv'
<1> SUFFICES ASSUME IInv, Raise \/ Catch \/ \E t \in Workers : StartThread(t)
             PROVE  IInv'
  OBVIOUS
<1> USE Bounds DEF IInv, hostVars, nsVars, timerVars, callVars, ghosts
<1>1. InCell /\ InCell' /\ host = "waiting" /\ reply = NoReply /\ sent \in Cells
  BY Running DEF Raise, Catch, StartThread, Acts, InCell, TypeOK
<1>2. /\ UNCHANGED <<host, capped, errors, sent, result, context, span, alarm,
                     saved, used, waits, call, made, shared, fired, orphaned,
                     outlived, final, answer, reply, booked>>
      /\ server' \in {"run", "raise"}
  BY DEF Raise, Catch, StartThread, Acts
<1>3. owner' \in [Workers -> Cells]
  BY <1>1 DEF Raise, Catch, StartThread, TypeOK
<1>4. TypeOK'
  BY <1>2, <1>3 DEF TypeOK
<1>5. Control' /\ Speaking'
  BY <1>1, <1>2 DEF Control, Speaking, NoReply, Silent, AnswerOfLastCell
<1>6. Calling' /\ Timing'
  BY <1>1, <1>2 DEF Calling, Timing, TimerRight, AlarmOnlyInCell, TimeKept, Busy
<1>7. Booking'
  BY <1>2 DEF Booking, BookedUnderItsCell
<1> QED  BY <1>4, <1>5, <1>6, <1>7

\* A thread says something; after its cell, that is noted.
LEMMA SpeakStep ==
  ASSUME IInv, NEW t \in Threads, CallFinal(t) \/ SetAnswer(t) PROVE IInv'
<1> USE Bounds DEF IInv, hostVars, timerVars, callVars
<1>1. /\ UNCHANGED <<host, capped, errors, sent, result, context, server, span,
                     owner, alarm, saved, used, waits, call, made, shared, fired,
                     orphaned, reply, booked>>
      /\ outlived' = Late(t)
      /\ final' \in {final, CellOf(t)}
      /\ \E v \in {CellOf(t), NotText} : answer' = [ready |-> TRUE, value |-> v]
  BY DEF CallFinal, SetAnswer
<1>2. /\ outlived' \in BOOLEAN /\ (outlived => outlived')
      /\ ~outlived' => InCell /\ CellOf(t) = sent
  BY <1>1, LateStep
<1>3. CellOf(t) \in Cells
  BY DEF CellOf, TypeOK, Threads
<1>4. TypeOK'
  <2>1. answer' \in [ready : BOOLEAN, value : Cells \cup {NotText}]
    BY <1>1, <1>3
  <2>2. final' \in Cells
    BY <1>1, <1>3 DEF TypeOK
  <2> QED  BY <1>1, <1>2, <2>1, <2>2 DEF TypeOK
<1>5. Control'
  BY <1>1, <1>2 DEF Control, AnswerOfLastCell
<1>6. Speaking'
  <2> SUFFICES ASSUME ~outlived' PROVE Speaking'  BY DEF Speaking
  <2>1. host = "waiting" /\ reply = NoReply /\ InCell /\ CellOf(t) = sent /\ ~outlived
    BY <1>2, Running
  <2> QED  BY <1>1, <2>1 DEF Speaking, NoReply, InCell
<1>7. Calling'
  BY <1>1, <1>2 DEF Calling, InCell, Busy
<1>8. Timing'
  BY <1>1, <1>2 DEF Timing, TimerRight, AlarmOnlyInCell, TimeKept, InCell, Busy
<1>9. Booking'
  BY <1>1, <1>2 DEF Booking, BookedUnderItsCell
<1> QED  BY <1>4, <1>5, <1>6, <1>7, <1>8, <1>9

\* A cell begins with a full timer; if nobody is in a call, nobody holds a
\* value of it.
LEMMA StartCellStep == IInv /\ StartCell => IInv'
<1> SUFFICES ASSUME IInv, StartCell PROVE IInv'  OBVIOUS
<1> USE Bounds DEF IInv, StartCell, hostVars, callVars
<1>1. host = "waiting" /\ ~InCell /\ InCell' /\ reply = NoReply
  BY DEF Control, InCell, TypeOK
<1>2. ~shared' => \A t \in Threads : ~Busy(t) /\ saved[t] = 0
  BY DEF Calling, TypeOK
<1>3. TypeOK'
  <2>1. span' \in Cells /\ alarm' \in 0..Limit /\ used' \in Nat /\ shared' \in BOOLEAN
    BY DEF TypeOK
  <2> QED  BY <2>1 DEF TypeOK
<1>4. Control' /\ Speaking'
  BY <1>1 DEF Control, Speaking, Silent, NoReply, AnswerOfLastCell
<1>5. Calling'
  BY <1>1 DEF Calling, Busy
<1>6. Timing'
  BY <1>1, <1>2 DEF Timing, TimerRight, AlarmOnlyInCell, TimeKept, Busy
<1>7. Booking'
  BY DEF Booking, BookedUnderItsCell
<1> QED  BY <1>3, <1>4, <1>5, <1>6, <1>7

\* However a cell ends, its timer is off and the main thread in no call.
LEMMA LeaveStep ==
  ASSUME IInv, InCell, LeaveCell, server' \in {"idle", "gone"}
  PROVE  Calling' /\ Timing' /\ Booking' /\ outlived' \in BOOLEAN /\ alarm' \in 0..Limit
<1> USE Bounds DEF IInv, LeaveCell, hostVars, nsVars, callVars
<1>1. ~InCell' /\ outlived' \in BOOLEAN /\ (outlived => outlived') /\ alarm' = 0
  BY DEF InCell, TypeOK
<1>2. \A t \in Threads : Busy(t)' => Busy(t) /\ t # Main /\ outlived'
  BY DEF Busy, Threads
<1>3. Calling'
  <2>1. ~Busy(Main)' /\ \A t \in Threads : saved'[t] > 0 => Busy(t)'
    BY <1>2 DEF Calling, Busy
  <2>2. \A t \in Threads : Busy(t)' =>
          server' \notin {"boot", "dead"} /\ waits'[t] =< made' /\ outlived'
    BY <1>2 DEF Calling
  <2> QED  BY <1>1, <2>1, <2>2 DEF Calling, Busy
<1>4. Timing'
  BY <1>1 DEF Timing, TimerRight, AlarmOnlyInCell, TimeKept
<1>5. Booking'
  BY <1>1 DEF Booking, BookedUnderItsCell
<1> QED  BY <1>1, <1>3, <1>4, <1>5

\* A cell ends: it reports what it said itself, or takes the server with it.
LEMMA EndCellStep == IInv /\ (EndCell \/ Exit) => IInv'
<1> SUFFICES ASSUME IInv, EndCell \/ Exit PROVE IInv'  OBVIOUS
<1> USE Bounds DEF IInv, EndCell, Exit, LeaveCell, hostVars, nsVars, callVars
<1>1. host = "waiting" /\ InCell /\ ~InCell' /\ sent > 0 /\ sent \in Cells /\ reply = NoReply
  BY Running DEF InCell, TypeOK
<1>2. Calling' /\ Timing' /\ Booking' /\ outlived' \in BOOLEAN /\ alarm' \in 0..Limit
  BY <1>1, LeaveStep
<1>3. CASE EndCell
  <2>1. /\ reply'.cell = sent
        /\ reply' \in [cell : Cells, final : Cells, error : BOOLEAN]
    BY <1>1, <1>3 DEF Reported, TypeOK, Cells, NotText
  <2>2. ~outlived' => /\ reply'.final \in {0, sent}
                      /\ reply'.final = 0 => Silent
    BY <1>1, <1>3 DEF Reported, Speaking, Silent, TypeOK, Cells, NotText
  <2>3. TypeOK'
    BY <1>2, <1>3, <2>1 DEF TypeOK
  <2>4. Control'
    BY <1>1, <1>3, <2>1 DEF Control, AnswerOfLastCell
  <2>5. Speaking'
    BY <1>1, <1>3, <2>2 DEF Speaking, Silent
  <2> QED  BY <1>2, <2>3, <2>4, <2>5
<1>4. CASE Exit
  <2>1. TypeOK'
    BY <1>2, <1>4 DEF TypeOK
  <2>2. Control' /\ Speaking'
    BY <1>1, <1>4 DEF Control, Speaking, Silent, NoReply, AnswerOfLastCell
  <2> QED  BY <1>2, <2>1, <2>2
<1> QED  BY <1>3, <1>4

\* The timer of a cell that makes one call at a time runs outside calls only.
LEMMA OffInCalls ==
  ASSUME IInv, InCell, ~shared, NEW t \in Threads, Busy(t), call[waits[t]].stage # "got"
  PROVE  alarm = 0
BY DEF IInv, Timing

\* A tick; the last one takes the main thread out of the call it is in, and
\* outside a cell may end the server.
LEMMA TickStep == IInv /\ Tick => IInv'
<1> SUFFICES ASSUME IInv, Tick PROVE IInv'  OBVIOUS
<1> USE Bounds DEF IInv, Tick, hostVars, nsVars
<1>1. /\ alarm \in 1..Limit /\ used \in Nat /\ used' \in Nat
      /\ (InCell => host = "waiting" /\ reply = NoReply)
  BY Running DEF TypeOK
<1>2. InCell /\ ~shared => \A t \in Threads : ~Busy(t) /\ saved[t] = 0
  BY <1>1, OffInCalls DEF Calling, TypeOK
<1>3. CASE alarm > 1 \/ ~InCell
  <2>0. CASE UNCHANGED server
    <3> USE <1>3, <2>0
    <3>0. /\ alarm' = alarm - 1 /\ alarm' \in 0..Limit
          /\ UNCHANGED <<saved, waits, call, orphaned, fired>>
      BY <1>1 DEF TimeOut, Killed, InCell, TypeOK, Control
    <3>1. TypeOK'
      BY <1>1, <3>0 DEF TypeOK
    <3>2. Control' /\ Speaking' /\ Calling'
      BY <1>1, <3>0 DEF Control, Speaking, Silent, Calling, Busy, InCell, AnswerOfLastCell
    <3>3. Timing'
      BY <1>1, <1>2, <3>0 DEF Timing, TimerRight, AlarmOnlyInCell, TimeKept, Busy, InCell
    <3>4. Booking'
      BY <3>0 DEF Booking, BookedUnderItsCell
    <3> QED  BY <3>1, <3>2, <3>3, <3>4
  <2>1. CASE server' # server
    <3>1. ~InCell /\ Killed /\ UNCHANGED fired
      BY <1>1, <1>3, <2>1
    <3>2. /\ Calling' /\ Timing' /\ Booking'
          /\ waits' \in [Threads -> Calls] /\ saved' \in [Threads -> 0..Limit]
          /\ call' \in [Calls -> [cell : Cells, span : Cells, stage : Stages]]
          /\ alarm' \in 0..Limit /\ orphaned' \in BOOLEAN
      BY <3>1, KilledStep
    <3>3. host # "boot" /\ server \in {"idle", "taking", "gone"} /\ server' = "dead"
      BY <1>1, <3>1 DEF InCell, TypeOK, Control, Killed
    <3>4. TypeOK'
      BY <1>1, <3>1, <3>2, <3>3 DEF TypeOK
    <3>5. Control' /\ Speaking'
      BY <3>1, <3>2, <3>3 DEF Control, Speaking, Silent, AnswerOfLastCell, Killed
    <3> QED  BY <3>2, <3>4, <3>5
  <2> QED  BY <2>0, <2>1
<1>4. CASE alarm = 1 /\ InCell /\ TimeOut
  <2> USE <1>4 DEF TimeOut
  <2>0. InCell'
    BY DEF InCell
  <2>1. TypeOK'
    <3>1. alarm' \in 0..Limit /\ used' \in Nat /\ fired' /\ orphaned' \in BOOLEAN
      BY <1>1 DEF TypeOK, Abandons
    <3>2. waits' \in [Threads -> Calls] /\ saved' \in [Threads -> 0..Limit]
      <4>1. /\ waits \in [Threads -> Calls] /\ saved \in [Threads -> 0..Limit]
            /\ 0 \in Calls /\ 0 \in 0..Limit
        BY DEF TypeOK, Calls
      <4> QED  BY <4>1
    <3>3. call' \in [Calls -> [cell : Cells, span : Cells, stage : Stages]]
      BY DEF TypeOK, Hangup, Free, Stages, Cells
    <3> QED  BY <3>1, <3>2, <3>3 DEF TypeOK
  <2>2. Control' /\ Speaking'
    BY <1>1 DEF Control, Speaking, Silent, InCell, NoReply, AnswerOfLastCell
  <2>3. ASSUME NEW t \in Threads, Busy(t)'
        PROVE  t # Main /\ Busy(t) /\ call'[waits[t]] = call[waits[t]]
    <3>1. t # Main /\ Busy(t) /\ waits[t] \in Calls
      BY <2>3 DEF Busy, TypeOK
    <3>2. waits[t] # waits[Main]
      BY <3>1 DEF Calling
    <3> QED  BY <3>1, <3>2 DEF Hangup
  <2>4. Calling'
    <3>1. call'[0].stage = "free" /\ ~Busy(Main)'
      BY DEF Calling, Hangup, Calls, Busy, TypeOK
    <3>2. \A t \in Threads : saved'[t] > 0 => Busy(t)'
      BY DEF Calling, Busy, TypeOK
    <3>3. \A t, u \in Threads : Busy(t)' /\ waits'[t] = waits'[u] => t = u
      BY <2>3 DEF Calling, Busy, TypeOK
    <3>4. \A t \in Threads : Busy(t)' =>
            /\ waits'[t] =< made
            /\ ~outlived => call'[waits'[t]].cell = sent /\ call'[waits'[t]].span = sent
      BY <2>3 DEF Calling, TypeOK
    <3> QED  BY <1>1, <2>0, <3>1, <3>2, <3>3, <3>4 DEF Calling, InCell
  <2>5. Timing'
    <3>1. TimerRight'
      BY <1>1, <1>2, <2>0 DEF Timing, TimerRight, AlarmOnlyInCell, TimeKept, TypeOK
    <3>2. ~shared => \A t \in Threads : ~Busy(t)'
      BY <1>2, <2>3
    <3> QED  BY <3>1, <3>2 DEF Timing
  <2>6. Booking'
    <3> SUFFICES ASSUME ~orphaned', ~outlived PROVE Booking'  BY DEF Booking
    <3>1. ~orphaned /\ ~Abandons({Main})
      BY DEF TypeOK
    <3>2. ASSUME NEW c \in Calls, call'[c].stage \in Served
          PROVE  \E t \in Threads : waits'[t] = c
      <4>1. call[c].stage \in Served /\ c # 0
        BY <3>2 DEF Hangup, Free, Served, Calling
      <4>2. PICK t \in Threads : waits[t] = c
        BY <3>1, <4>1 DEF Booking
      <4>3. t # Main
        BY <3>1, <4>1, <4>2 DEF Abandons, Busy
      <4> QED  BY <4>2, <4>3 DEF TypeOK
    <3> QED  BY <3>1, <3>2 DEF Booking, BookedUnderItsCell
  <2> QED  BY <2>1, <2>2, <2>4, <2>5, <2>6
<1> QED  BY <1>3, <1>4
\* A call begins: it is the newest, of the cell that runs, and takes down the
\* timer's value.
LEMMA BeginCallStep == ASSUME IInv, NEW t \in Threads, BeginCall(t) PROVE IInv'
<1> USE Bounds DEF IInv, BeginCall, hostVars, nsVars
<1> DEFINE c == made + 1
           new == [cell |-> CellOf(t), span |-> span, stage |-> "got"]
<1>1. /\ InCell' = InCell /\ (InCell => host = "waiting" /\ reply = NoReply)
      /\ c \in Calls /\ c # 0 /\ waits[t] = 0 /\ server \notin {"boot", "dead"}
      /\ t = Main => InCell
      /\ CellOf(t) \in Cells /\ span \in Cells /\ alarm \in 0..Limit
  BY Running DEF InCell, Calls, Busy, Acts, CellOf, Threads, TypeOK
<1>2. /\ waits' = [waits EXCEPT ![t] = c] /\ saved' = [saved EXCEPT ![t] = alarm]
      /\ call' = [call EXCEPT ![c] = new]
  OBVIOUS
<1>3. /\ outlived' \in BOOLEAN /\ (outlived => outlived')
      /\ ~outlived' => InCell /\ CellOf(t) = sent /\ span = sent /\ ~outlived
  BY LateStep DEF Calling, TypeOK
<1>4. TypeOK'
  <2>1. new \in [cell : Cells, span : Cells, stage : Stages]
    BY <1>1 DEF Stages
  <2>2. /\ waits' \in [Threads -> Calls] /\ saved' \in [Threads -> 0..Limit]
        /\ call' \in [Calls -> [cell : Cells, span : Cells, stage : Stages]]
    BY <1>1, <1>2, <2>1 DEF TypeOK
  <2> QED  BY <1>1, <1>3, <2>2 DEF TypeOK
<1>5. Control' /\ Speaking'
  BY <1>1, <1>3 DEF Control, Speaking, Silent, NoReply, AnswerOfLastCell
<1>6. \A u \in Threads : u # t =>
        /\ waits'[u] = waits[u] /\ saved'[u] = saved[u] /\ Busy(u)' = Busy(u)
        /\ Busy(u) => waits[u] =< made /\ waits[u] \in Calls /\ call'[waits[u]] = call[waits[u]]
  BY <1>1, <1>2 DEF TypeOK, Busy, Calling, Calls
<1>7. Busy(t)' /\ waits'[t] = c /\ saved'[t] = alarm /\ call'[c] = new
  BY <1>1, <1>2 DEF TypeOK, Busy
<1>8. Calling'
  <2>1. call'[0].stage = "free"
    BY <1>1, <1>2 DEF Calling, TypeOK, Calls
  <2>2. \A u \in Threads : saved'[u] > 0 => Busy(u)'
    BY <1>6, <1>7 DEF Calling
  <2>3. \A u \in Threads : Busy(u)' =>
          /\ server' \notin {"boot", "dead"} /\ waits'[u] =< made'
          /\ ~outlived' => /\ InCell
                           /\ call'[waits'[u]].cell = sent /\ call'[waits'[u]].span = sent
    BY <1>1, <1>3, <1>6, <1>7 DEF Calling, TypeOK, Calls
  <2>4. \A u, w \in Threads : Busy(u)' /\ waits'[u] = waits'[w] => u = w
    <3>1. \A u \in Threads : u # t => waits'[u] # c
      BY <1>1, <1>6 DEF Busy, TypeOK, Calls
    <3> QED  BY <1>6, <1>7, <3>1 DEF Calling, Busy
  <2>5. Busy(Main)' => InCell
    BY <1>1, <1>6 DEF Calling
  <2> QED  BY <1>1, <2>1, <2>2, <2>3, <2>4, <2>5 DEF Calling
<1>9. Timing'
  <2>1. ~shared' => ~shared /\ \A u \in Threads : ~Busy(u) /\ saved[u] = 0
    <3>1. \A u \in Threads : ~Busy(u) => saved[u] = 0
      BY DEF Calling, TypeOK
    <3>2. shared' = (shared \/ \E u \in Threads : Busy(u))
      OBVIOUS
    <3> QED  BY <3>1, <3>2, Zenon
  <2>2. InCell /\ ~shared' => used + alarm = Limit
    BY <2>1 DEF Timing, TimerRight, TimeKept
  <2>3. ~shared' => \A u \in Threads : u # t => ~Busy(u)' /\ saved'[u] = 0
    BY <1>6, <2>1
  <2>4. AlarmOnlyInCell'
    BY <1>1, <1>3 DEF Timing, TimerRight, AlarmOnlyInCell
  <2>5. TimeKept'
    BY <1>1, <1>7, <2>2, <2>3 DEF TimeKept, TypeOK
  <2> QED  BY <1>1, <1>7, <2>3, <2>4, <2>5 DEF Timing, TimerRight
<1>10. Booking'
  <2> SUFFICES ASSUME ~orphaned, ~outlived' PROVE Booking'  BY DEF Booking
  <2>1. ASSUME NEW d \in Calls, call'[d].stage \in Served
        PROVE  \E u \in Threads : waits'[u] = d
    <3>1. d # c /\ call[d].stage \in Served
      BY <1>1, <1>2, <1>7, <2>1 DEF Served, TypeOK
    <3>2. d # 0
      BY <3>1 DEF Calling, Served
    <3>3. PICK u \in Threads : waits[u] = d
      BY <1>3, <3>1 DEF Booking
    <3> QED  BY <1>1, <1>6, <3>2, <3>3
  <2> QED  BY <1>3, <2>1 DEF Booking, BookedUnderItsCell
<1> QED  BY <1>4, <1>5, <1>8, <1>9, <1>10

\* The timer is switched off by the one thread that holds its value.
LEMMA PauseTimerStep == ASSUME IInv, NEW t \in Threads, PauseTimer(t) PROVE IInv'
<1> USE Bounds DEF IInv, PauseTimer, hostVars, nsVars, ghosts
<1>1. /\ InCell' = InCell /\ server \notin {"boot", "dead"}
      /\ waits[t] \in Calls /\ waits[t] # 0
  BY DEF Calling, TypeOK, InCell, Busy
<1>2. /\ call' \in [Calls -> [cell : Cells, span : Cells, stage : Stages]]
      /\ \A d \in Calls : /\ call'[d].cell = call[d].cell /\ call'[d].span = call[d].span
                          /\ d # waits[t] => call'[d].stage = call[d].stage
      /\ call'[waits[t]].stage = "sent"
  <2>1. call \in [Calls -> [cell : Cells, span : Cells, stage : Stages]] /\ "sent" \in Stages
    BY DEF TypeOK, Stages, Served
  <2> QED  BY <1>1, <2>1
<1>3. TypeOK'
  <2>1. alarm' \in 0..Limit
    OBVIOUS
  <2> QED  BY <1>2, <2>1 DEF TypeOK
<1>4. Control' /\ Speaking'
  BY DEF Control, Speaking, Silent, AnswerOfLastCell
<1>5. Calling'
  BY <1>1, <1>2 DEF Calling, Busy, TypeOK, Calls
<1>6. Timing'
  <2>1. InCell /\ ~shared => /\ alarm = saved[t]
                             /\ \A u \in Threads : u # t => ~Busy(u) /\ saved[u] = 0
    BY DEF Timing, Calling, TypeOK
  <2>2. TimerRight'
    BY <1>1, <2>1 DEF Timing, TimerRight, AlarmOnlyInCell, TimeKept
  <2>3. InCell /\ ~shared => \A u \in Threads : Busy(u) => u = t
    BY <2>1
  <2> QED  BY <1>1, <1>2, <2>2, <2>3 DEF Timing, Busy
<1>7. Booking'
  BY <1>2 DEF Booking, BookedUnderItsCell
<1> QED  BY <1>3, <1>4, <1>5, <1>6, <1>7

\* A call ends: the timer gets back what the call had taken down.
LEMMA CallReturnsStep == ASSUME IInv, NEW t \in Threads, CallReturns(t) PROVE IInv'
<1> USE Bounds DEF IInv, CallReturns, hostVars, nsVars, ghosts
<1>1. /\ InCell' = InCell /\ (InCell => host = "waiting" /\ reply = NoReply)
      /\ waits[t] \in Calls /\ waits[t] # 0 /\ call[waits[t]].stage # "got"
      /\ server \notin {"boot", "dead"} /\ (server' = server \/ InCell)
      /\ server' \notin {"boot", "dead"}
  BY Running DEF Calling, TypeOK, InCell, Busy, Answered
<1>2. /\ waits' = [waits EXCEPT ![t] = 0] /\ saved' = [saved EXCEPT ![t] = 0]
      /\ call' = [call EXCEPT ![waits[t]] = Free]
  OBVIOUS
<1>3. TypeOK'
  <2>1. Free \in [cell : Cells, span : Cells, stage : Stages] /\ 0 \in Calls /\ 0 \in 0..Limit
    BY DEF Free, Stages, Cells, Calls
  <2>2. /\ waits' \in [Threads -> Calls] /\ saved' \in [Threads -> 0..Limit]
        /\ call' \in [Calls -> [cell : Cells, span : Cells, stage : Stages]]
    BY <1>1, <1>2, <2>1 DEF TypeOK
  <2>3. alarm' \in 0..Limit
    BY DEF Rearmed, TypeOK
  <2> QED  BY <2>2, <2>3 DEF TypeOK
<1>4. Control' /\ Speaking'
  BY <1>1 DEF Control, Speaking, Silent, NoReply, InCell, AnswerOfLastCell
<1>5. /\ ~Busy(t)' /\ saved'[t] = 0
      /\ \A u \in Threads : u # t =>
           /\ waits'[u] = waits[u] /\ saved'[u] = saved[u] /\ Busy(u)' = Busy(u)
           /\ Busy(u) => waits[u] \in Calls /\ call'[waits[u]] = call[waits[u]]
  BY <1>1, <1>2 DEF TypeOK, Busy, Calling
<1>6. Calling'
  <2>1. call'[0].stage = "free"
    BY <1>1, <1>2 DEF Calling, TypeOK, Calls
  <2>2. \A u \in Threads : saved'[u] > 0 => Busy(u)'
    BY <1>5 DEF Calling
  <2>3. \A u \in Threads : Busy(u)' =>
          /\ waits'[u] =< made
          /\ ~outlived => /\ InCell
                          /\ call'[waits'[u]].cell = sent /\ call'[waits'[u]].span = sent
    BY <1>5 DEF Calling
  <2>4. \A u, w \in Threads : Busy(u)' /\ waits'[u] = waits'[w] => u = w
    BY <1>5 DEF Calling, Busy
  <2>5. Busy(Main)' => InCell
    BY <1>5 DEF Calling
  <2> QED  BY <1>1, <2>1, <2>2, <2>3, <2>4, <2>5 DEF Calling
<1>7. Timing'
  <2>1. InCell /\ ~shared => /\ alarm = 0
                             /\ \A u \in Threads : u # t => ~Busy(u) /\ saved[u] = 0
    BY <1>1 DEF Timing, Calling, TypeOK
  <2>2. InCell /\ ~shared => used + alarm' = Limit
    BY <1>1, <2>1 DEF Timing, TimerRight, TimeKept, TypeOK, Rearmed
  <2>3. InCell /\ ~shared => \A u \in Threads : ~Busy(u)' /\ saved'[u] = 0
    BY <1>5, <2>1
  <2>4. InCell \/ outlived
    BY DEF Calling
  <2>5. TimerRight'
    BY <1>1, <2>2, <2>3, <2>4 DEF TimerRight, AlarmOnlyInCell, TimeKept
  <2> QED  BY <1>1, <2>3, <2>5 DEF Timing
<1>8. Booking'
  <2> SUFFICES ASSUME ~orphaned, ~outlived PROVE Booking'  BY DEF Booking
  <2>1. ASSUME NEW d \in Calls, call'[d].stage \in Served
        PROVE  \E u \in Threads : waits'[u] = d
    <3>1. d # waits[t] /\ call[d].stage \in Served
      BY <1>1, <1>2, <2>1 DEF Served, TypeOK, Free
    <3>2. PICK u \in Threads : waits[u] = d
      BY <3>1 DEF Booking
    <3> QED  BY <1>5, <3>1, <3>2
  <2> QED  BY <2>1 DEF Booking, BookedUnderItsCell
<1> QED  BY <1>3, <1>4, <1>6, <1>7, <1>8

\* What the host's thread does to a call: it moves its stage on, and closes
\* the connection only when no thread waits for it.
LEMMA AfterStep ==
  ASSUME IInv, NEW c \in Calls, call[c].stage \in Served, NEW stage \in Answered,
         call' = After(c, stage), UNCHANGED waits
  PROVE  /\ call' \in [Calls -> [cell : Cells, span : Cells, stage : Stages]]
         /\ \A d \in Calls : call'[d].stage \in Served => call[d].stage \in Served
         /\ call'[0] = call[0]
         /\ \A t \in Threads : Busy(t) =>
              /\ waits[t] \in Calls
              /\ call'[waits[t]].cell = call[waits[t]].cell
              /\ call'[waits[t]].span = call[waits[t]].span
              /\ call'[waits[t]].stage = "got" <=> call[waits[t]].stage = "got"
<1> USE Bounds DEF IInv
<1>1. /\ call \in [Calls -> [cell : Cells, span : Cells, stage : Stages]]
      /\ stage \in Stages /\ Free \in [cell : Cells, span : Cells, stage : Stages]
  BY DEF TypeOK, Stages, Free, Cells
<1>2. c # 0 /\ 0 \in Calls
  BY DEF Calling, Served, Calls
<1>3. CASE \E t \in Threads : waits[t] = c
  <2>1. call' = [call EXCEPT ![c].stage = stage]
    BY <1>3 DEF After
  <2> QED  BY <1>1, <1>2, <2>1 DEF TypeOK, Served, Answered
<1>4. CASE ~\E t \in Threads : waits[t] = c
  <2>1. call' = [call EXCEPT ![c] = Free]
    BY <1>4 DEF After
  <2> QED  BY <1>1, <1>2, <1>4, <2>1 DEF TypeOK, Served, Free
<1> QED  BY <1>3, <1>4

\* The context is written for a call of the cell that runs, as long as no
\* call has been left behind.
LEMMA ReadRequestStep == ASSUME IInv, NEW c \in Calls, ReadRequest(c) PROVE IInv'
<1> USE Bounds DEF IInv, ReadRequest, hostVars, nsVars, timerVars, ghosts
<1>1. call[c].stage \in Served /\ call[c].stage # "got" /\ call[c].span \in Cells
  BY DEF Served, TypeOK
<1>2. ~orphaned /\ ~outlived => \E t \in Threads : waits[t] = c /\ Busy(t)
  BY <1>1 DEF Booking, Busy, Calling, Served
<1>3. /\ call' \in [Calls -> [cell : Cells, span : Cells, stage : Stages]]
      /\ \A d \in Calls : call'[d].stage \in Served => call[d].stage \in Served
      /\ call'[0] = call[0]
      /\ \A t \in Threads : Busy(t) =>
           /\ waits[t] \in Calls
           /\ call'[waits[t]].cell = call[waits[t]].cell
           /\ call'[waits[t]].span = call[waits[t]].span
           /\ call'[waits[t]].stage = "got" <=> call[waits[t]].stage = "got"
  <2>1. CASE call' = [call EXCEPT ![c].stage = "set"]
    <3>1. call \in [Calls -> [cell : Cells, span : Cells, stage : Stages]] /\ "set" \in Stages
      BY DEF TypeOK, Stages, Served
    <3>2. c # 0 /\ 0 \in Calls
      BY DEF Calling, Calls
    <3> QED  BY <1>1, <2>1, <3>1, <3>2 DEF TypeOK
  <2>2. CASE call' = After(c, "cut")
    <3>1. "cut" \in Answered
      BY DEF Answered
    <3> QED  BY <1>1, <2>2, <3>1, AfterStep
  <2> QED  BY <2>1, <2>2
<1>4. context' \in {context, call[c].span}
  OBVIOUS
<1>5. TypeOK'
  <2>1. context' \in Cells
    BY <1>1, <1>4 DEF TypeOK
  <2> QED  BY <1>3, <2>1 DEF TypeOK
<1>6. Control' /\ Speaking'
  BY DEF Control, Speaking, Silent, AnswerOfLastCell
<1>7. Calling' /\ Timing'
  BY <1>3 DEF Calling, Timing, TimerRight, AlarmOnlyInCell, TimeKept, InCell, Busy
<1>8. Booking'
  <2> SUFFICES ASSUME ~orphaned, ~outlived PROVE Booking'  BY DEF Booking
  <2>1. PICK t \in Threads : waits[t] = c /\ Busy(t)
    BY <1>2
  <2>2. host = "waiting" => context' = sent
    BY <1>4, <2>1 DEF Calling, Booking
  <2>3. \A d \in Calls : call'[d].stage \in Served => \E u \in Threads : waits[u] = d
    BY <1>3 DEF Booking
  <2> QED  BY <2>2, <2>3 DEF Booking, BookedUnderItsCell
<1> QED  BY <1>5, <1>6, <1>7, <1>8

\* So what the handler records is recorded under the cell that asked.
LEMMA HandleStep == ASSUME IInv, NEW c \in Calls, Handle(c) PROVE IInv'
<1> USE Bounds DEF IInv, Handle, hostVars, nsVars, timerVars, ghosts
<1>1. call[c].stage \in Served /\ call[c].cell \in Cells /\ context \in Cells
  BY DEF Served, TypeOK
<1>2. /\ call' \in [Calls -> [cell : Cells, span : Cells, stage : Stages]]
      /\ \A d \in Calls : call'[d].stage \in Served => call[d].stage \in Served
      /\ call'[0] = call[0]
      /\ \A t \in Threads : Busy(t) =>
           /\ waits[t] \in Calls
           /\ call'[waits[t]].cell = call[waits[t]].cell
           /\ call'[waits[t]].span = call[waits[t]].span
           /\ call'[waits[t]].stage = "got" <=> call[waits[t]].stage = "got"
  BY <1>1, AfterStep
<1>3. TypeOK'
  <2>1. booked' \subseteq [cell : Cells, under : Cells]
    BY <1>1 DEF TypeOK
  <2> QED  BY <1>2, <2>1 DEF TypeOK
<1>4. Control' /\ Speaking'
  BY DEF Control, Speaking, Silent, AnswerOfLastCell
<1>5. Calling' /\ Timing'
  BY <1>2 DEF Calling, Timing, TimerRight, AlarmOnlyInCell, TimeKept, InCell, Busy
<1>6. Booking'
  <2> SUFFICES ASSUME ~orphaned, ~outlived PROVE Booking'  BY DEF Booking
  <2>1. PICK t \in Threads : waits[t] = c /\ Busy(t)
    BY <1>1 DEF Booking, Busy, Calling, Served
  <2>2. call[c].cell = sent /\ context = sent
    BY <2>1, Running DEF Calling, Booking
  <2>3. BookedUnderItsCell'
    BY <2>2 DEF Booking, BookedUnderItsCell
  <2>4. \A d \in Calls : call'[d].stage \in Served => \E u \in Threads : waits[u] = d
    BY <1>2 DEF Booking
  <2> QED  BY <2>3, <2>4 DEF Booking
<1> QED  BY <1>3, <1>4, <1>5, <1>6

\* Every step of a session keeps the strengthened invariant.
THEOREM Inductive == IInv /\ [Next]_vars => IInv'
<1> SUFFICES ASSUME IInv, [Next]_vars PROVE IInv'  OBVIOUS
<1>1. ASSUME NEW t \in Threads, \/ CallFinal(t) \/ SetAnswer(t)
                                \/ BeginCall(t) \/ PauseTimer(t) \/ CallReturns(t)
      PROVE  IInv'
  BY <1>1, SpeakStep, BeginCallStep, PauseTimerStep, CallReturnsStep
<1>2. ASSUME NEW c \in Calls, ReadRequest(c) \/ Handle(c) PROVE IInv'
  BY <1>2, ReadRequestStep, HandleStep
<1>3. CASE UNCHANGED vars
  <2>1. TypeOK' /\ Control' /\ Speaking'
    BY <1>3 DEF vars, IInv, TypeOK, Control, Speaking, Silent, AnswerOfLastCell
  <2>2. Calling' /\ Timing' /\ Booking'
    BY <1>3 DEF vars, IInv, Calling, Timing, TimerRight, AlarmOnlyInCell,
                TimeKept, InCell, Busy, Booking, BookedUnderItsCell
  <2> QED  BY <2>1, <2>2 DEF IInv
<1> QED
  BY <1>1, <1>2, <1>3, HostStep, ObserveStep, QuietStep, StartCellStep,
     EndCellStep, TickStep
  DEF Next

\* The strengthened invariant holds in every state of a session.
THEOREM Invariant == Spec => []IInv
  BY Start, Inductive, PTL DEF Spec

\* The variables keep their types.
THEOREM TypeCorrect == Spec => []TypeOK
  BY Invariant, PTL DEF IInv

\* run_cell, pause_alarm: the timer is on outside a cell only after a thread
\* went on beyond its cell, and what a cell used and what is left add up over
\* all its calls, made one at a time.
THEOREM Timer == Spec => []TimerRight
<1>1. IInv => TimerRight
  BY DEF IInv, Timing
<1> QED  BY <1>1, Invariant, PTL

\* The text a run returns is the one the last cell it ran gave it, unless a
\* thread acted after its cell.
THEOREM LastAnswer == Spec => []AnswerOfLastCell
<1>1. IInv => AnswerOfLastCell
  BY DEF IInv, Control, AnswerOfLastCell
<1> QED  BY <1>1, Invariant, PTL

\* The one context field records every call under the cell that made it, as
\* long as no call was left by its caller and no thread went on after its cell.
THEOREM Booked == Spec => []BookedUnderItsCell
<1>1. IInv => BookedUnderItsCell
  BY DEF IInv, Booking, BookedUnderItsCell
<1> QED  BY <1>1, Invariant, PTL
=============================================================================
