-------------------------- MODULE RuntimeLoop_proofs --------------------------
(***************************************************************************)
(* Proofs about RuntimeLoop for any iteration bound, error limit, window   *)
(* of the history and set of cells.                                        *)
(*                                                                         *)
(* The argument: the counters stay below their limits while the loop goes  *)
(* on (Counting), so every abort leaves them within their types; where     *)
(* run() is determines what it holds and what it has written (Holding,     *)
(* Ending); each turn appends one assistant and one user message, whatever *)
(* its reply was, and compaction changes neither their number nor their    *)
(* roles (HistShape).  PastInv, which leans on all this, says what the     *)
(* window, the error counter and the stall guard know of past turns.       *)
(***************************************************************************)
EXTENDS RuntimeLoop, SequenceTheorems, TLAPS

Messages == [role : {"system", "user", "assistant"}, text : Texts \cup {"stub"}]

\* compact_parent_hist rewrites messages in place: it neither adds, drops nor
\* reorders one, and it keeps their roles.
LEMMA CompactKeepsRoles ==
  ASSUME NEW h \in Seq(Messages)
  PROVE  /\ Compact(h) \in Seq(Messages)
         /\ Len(Compact(h)) = Len(h)
         /\ \A k \in 1 .. Len(h) : Compact(h)[k].role = h[k].role
<1>1. CASE Len(h) < 4
  BY <1>1 DEF Compact
<1>2. CASE ~(Len(h) < 4)
  <2> DEFINE f == [k \in 1 .. Len(h) |->
                     IF 2 < k /\ k =< Len(h) - 2 * KeepRecent /\ h[k].text = "full"
                       THEN [h[k] EXCEPT !.text = "stub"]
                       ELSE h[k]]
  <2>1. Compact(h) = f
    BY <1>2 DEF Compact
  <2>2. \A k \in 1 .. Len(h) : h[k] \in Messages
    OBVIOUS
  <2>3. \A k \in 1 .. Len(h) : f[k] \in Messages /\ f[k].role = h[k].role
    BY <2>2 DEF Messages
  <2>4. f \in [1 .. Len(h) -> Messages] /\ Len(h) \in Nat
    BY <2>3
  <2>5. f \in Seq(Messages)
    BY <2>4, SeqDef
  <2>6. DOMAIN f = 1 .. Len(f) /\ Len(f) \in Nat
    BY <2>5, LenProperties
  <2>7. Len(f) = Len(h)
    BY <2>4, <2>6
  <2> QED BY <2>1, <2>3, <2>5, <2>7
<1> QED BY <1>1, <1>2

\* The system message and the query.
LEMMA InitIInv == Init => IInv
<1> SUFFICES ASSUME Init PROVE IInv
  OBVIOUS
<1>1. hist \in Seq(Messages) /\ Len(hist) = 2
  BY DEF Init, Message, Messages, Texts
<1>2. TypeOK
  <2>1. planned \in BOOLEAN /\ root \in BOOLEAN
    BY DEF Init
  <2>2. workspace \in {"given", "temp", "removed"}
    BY DEF Init
  <2>3. cells \in Seq(Codes) /\ bad \in Seq(BOOLEAN)
    BY DEF Init
  <2>4. runSpan \in SpanStates
    BY DEF Init, SpanStates
  <2>5. /\ turn \in 0 .. MaxIterations /\ consecErr \in 0 .. MaxErrors
        /\ identical \in 0 .. 2 /\ lastCode \in Replies
    BY LoopAssumption DEF Init, Replies
  <2>6. /\ pc = "boot" /\ env = "none" /\ modelSpan \in SpanStates
        /\ cellSpan \in SpanStates /\ summary = "none" /\ report \in BOOLEAN
        /\ outcome = "none"
    BY DEF Init, SpanStates
  <2> QED BY <1>1, <2>1, <2>2, <2>3, <2>4, <2>5, <2>6 DEF TypeOK, Messages
<1>3. Counting /\ Holding /\ Ending
  BY LoopAssumption DEF Init, Counting, Holding, Ending, InLoop
<1>4. HistShape
  BY <1>1 DEF Init, HistShape
<1> QED BY <1>2, <1>3, <1>4 DEF IInv

------------------------------------------------------------------------------
(* Each step keeps the invariant: first where it leaves the control, then  *)
(* the history, then the types of the rest.                                *)

\* The counters, what is held and what was written.
LEMMA ControlStep ==
  ASSUME TypeOK, Counting, Holding, Ending, [Next]_vars
  PROVE  Counting' /\ Holding' /\ Ending'
<1> USE LoopAssumption
    DEF Counting, Holding, Ending, InLoop, Refuse, Abort, EndTurn,
        control, resources, spans, artifacts, past
<1>1. CASE UNCHANGED vars
  BY <1>1 DEF vars
<1>2. CASE Boot
  BY <1>2 DEF Boot
<1>3. CASE Prelude
  BY <1>3 DEF Prelude
<1>4. CASE Startup
  BY <1>4 DEF Startup
<1>5. CASE StartupFails
  BY <1>5 DEF StartupFails
<1>6. CASE TopAborts
  BY <1>6 DEF TopAborts
<1>7. CASE Send
  BY <1>7 DEF Send
<1>8. CASE ModelFails \/ RecordRaises
  BY <1>8 DEF ModelFails, RecordRaises
<1>9. ASSUME NEW reply \in Texts, ParseError(reply)
      PROVE  Counting' /\ Holding' /\ Ending'
  BY <1>9 DEF ParseError, TypeOK
<1>10. ASSUME NEW code \in Codes, RunCell(code)
       PROVE  Counting' /\ Holding' /\ Ending'
  BY <1>10 DEF RunCell, TypeOK
<1>11. CASE CellRaises
  BY <1>11 DEF CellRaises
<1>12. ASSUME NEW error \in BOOLEAN, NEW final \in BOOLEAN,
              NEW shown \in Texts, CellReturns(error, final, shown)
       PROVE  Counting' /\ Holding' /\ Ending'
  BY <1>12 DEF CellReturns, TypeOK
<1>13. CASE Close
  BY <1>13 DEF Close, TypeOK
<1>14. CASE Finish
  BY <1>14 DEF Finish
<1> QED BY <1>1, <1>2, <1>3, <1>4, <1>5, <1>6, <1>7, <1>8, <1>9, <1>10, <1>11, <1>12,
           <1>13, <1>14 DEF Next

\* compact_parent_hist and the appends of a turn: one assistant and one user
\* message more, the older ones in their places.
LEMMA HistStep ==
  ASSUME TypeOK, Counting, HistShape, Ending, [Next]_vars
  PROVE  hist' \in Seq(Messages) /\ HistShape'
<1>0. /\ hist \in Seq(Messages) /\ Len(hist) \in Nat
      /\ turn \in Nat
      /\ \A role \in {"user", "assistant"}, text \in Texts :
           Message(role, text) \in Messages /\ Message(role, text).role = role
      /\ \A code : CellText(code) \in Texts
      /\ "full" \in Texts
  BY DEF TypeOK, Messages, Message, CellText, Texts
<1>1. CASE hist' = hist /\ turn' = turn /\ (pc' = pc \/ pc' \in {"closing", "finish", "done"})
  BY <1>0, <1>1 DEF HistShape
<1>2. CASE Boot \/ Prelude \/ Startup \/ StartupFails
  <2>1. /\ hist' = hist /\ turn' = turn
        /\ pc \in {"boot", "prelude", "startup"}
        /\ pc' \in {"prelude", "startup", "top", "done"}
    BY <1>2 DEF Boot, Prelude, Startup, StartupFails, Refuse, control
  <2>2. turn' = 0 /\ Len(hist') = 2
    BY <2>1 DEF HistShape
  <2> QED BY <1>0, <2>1, <2>2 DEF HistShape
<1>3. CASE Send
  BY <1>0, <1>3 DEF Send, HistShape
<1>4. ASSUME NEW reply \in Texts, ParseError(reply)
      PROVE  hist' \in Seq(Messages) /\ HistShape'
  <2> DEFINE Assistant == Message("assistant", reply)
             User      == Message("user", "full")
             h == hist \o <<Assistant, User>>
  <2>1. /\ h \in Seq(Messages) /\ Len(h) = Len(hist) + 2
        /\ \A k \in 1 .. Len(h) :
             h[k] = IF k =< Len(hist) THEN hist[k]
                    ELSE IF k = Len(hist) + 1 THEN Assistant ELSE User
    BY <1>0
  <2>2. Len(hist) = 2 * turn
    BY <1>4 DEF ParseError, HistShape
  <2>3. \A k \in 3 .. Len(h) : h[k].role = IF k % 2 = 1 THEN "assistant" ELSE "user"
    <3>1. Assistant.role = "assistant" /\ User.role = "user"
      BY <1>0
    <3> HIDE DEF Assistant, User, h
    <3> QED BY <1>0, <2>1, <2>2, <3>1 DEF HistShape
  <2>4. CASE hist' = h /\ pc' = "closing"
    BY <2>1, <2>3, <2>4 DEF HistShape
  <2>5. CASE hist' = Compact(h) /\ pc' = "top"
    <3>1. /\ Compact(h) \in Seq(Messages) /\ Len(Compact(h)) = Len(h)
          /\ \A k \in 1 .. Len(h) : Compact(h)[k].role = h[k].role
      BY <2>1, CompactKeepsRoles
    <3>2. turn' = turn
      BY <1>4 DEF ParseError
    <3> HIDE DEF h
    <3>3. Len(hist') = 2 * turn' + 2
      BY <1>0, <2>1, <2>2, <2>5, <3>1, <3>2
    <3>4. \A k \in 3 .. Len(hist') :
            hist'[k].role = IF k % 2 = 1 THEN "assistant" ELSE "user"
      BY <2>1, <2>3, <2>5, <3>1
    <3> QED BY <2>5, <3>1, <3>3, <3>4 DEF HistShape
  <2> QED BY <1>4, <2>4, <2>5 DEF ParseError, Abort, EndTurn
<1>5. ASSUME NEW code \in Codes, RunCell(code)
      PROVE  hist' \in Seq(Messages) /\ HistShape'
  <2> DEFINE Assistant == Message("assistant", CellText(code))
  <2>1. /\ hist' = Append(hist, Assistant) /\ turn' = turn
        /\ pc' \in {"cell", "closing"} /\ Len(hist) = 2 * turn /\ turn >= 1
    BY <1>5 DEF RunCell, Abort, HistShape
  <2>2. /\ hist' \in Seq(Messages) /\ Len(hist') = Len(hist) + 1
        /\ \A k \in 1 .. Len(hist') : hist'[k] = IF k =< Len(hist) THEN hist[k] ELSE Assistant
    BY <1>0, <2>1
  <2>3. \A k \in 3 .. Len(hist') :
          hist'[k].role = IF k % 2 = 1 THEN "assistant" ELSE "user"
    BY <1>0, <2>1, <2>2 DEF HistShape
  <2> QED BY <2>1, <2>2, <2>3 DEF HistShape
<1>6. ASSUME NEW error \in BOOLEAN, NEW final \in BOOLEAN,
             NEW shown \in Texts, CellReturns(error, final, shown)
      PROVE  hist' \in Seq(Messages) /\ HistShape'
  <2> DEFINE User == Message("user", shown)
             h    == Append(hist, User)
  <2>1. CASE hist' = hist /\ pc' = "closing"
    BY <1>0, <2>1 DEF HistShape
  <2>2. CASE hist' = Compact(h) /\ pc' = "top"
    <3>1. turn' = turn /\ Len(hist) = 2 * turn + 1
      BY <1>6 DEF CellReturns, HistShape
    <3>2. /\ h \in Seq(Messages) /\ Len(h) = Len(hist) + 1
          /\ \A k \in 1 .. Len(h) : h[k] = IF k =< Len(hist) THEN hist[k] ELSE User
      BY <1>0
    <3>3. \A k \in 3 .. Len(h) : h[k].role = IF k % 2 = 1 THEN "assistant" ELSE "user"
      BY <1>0, <3>1, <3>2 DEF HistShape
    <3>4. /\ Compact(h) \in Seq(Messages) /\ Len(Compact(h)) = Len(h)
          /\ \A k \in 1 .. Len(h) : Compact(h)[k].role = h[k].role
      BY <3>2, CompactKeepsRoles
    <3> HIDE DEF h
    <3> QED BY <1>0, <2>2, <3>1, <3>2, <3>3, <3>4 DEF HistShape
  <2> QED BY <1>6, <2>1, <2>2 DEF CellReturns, Abort, EndTurn
<1>7. CASE TopAborts \/ ModelFails \/ RecordRaises \/ CellRaises \/ Close \/ Finish
  BY <1>1, <1>7 DEF TopAborts, ModelFails, RecordRaises, CellRaises, Close, Finish, Abort,
                    control
<1>8. CASE UNCHANGED vars
  BY <1>1, <1>8 DEF vars, control
<1> QED BY <1>2, <1>3, <1>4, <1>5, <1>6, <1>7, <1>8 DEF Next

\* The counters stop at their limits and everything else stays in its range.
LEMMA TypeStep ==
  ASSUME TypeOK, Counting, Ending, hist' \in Seq(Messages), [Next]_vars
  PROVE  TypeOK'
<1> USE LoopAssumption
    DEF TypeOK, Counting, Ending, InLoop, SpanStates, Replies, Refuse, Abort, EndTurn,
        Messages, control, resources, spans, artifacts, past
<1>1. CASE UNCHANGED vars
  BY <1>1 DEF vars
<1>2. CASE Boot
  BY <1>2 DEF Boot
<1>3. CASE Prelude
  BY <1>3 DEF Prelude
<1>4. CASE Startup \/ StartupFails
  BY <1>4 DEF Startup, StartupFails
<1>5. CASE TopAborts \/ Send
  BY <1>5 DEF TopAborts, Send
<1>6. CASE ModelFails \/ RecordRaises \/ CellRaises
  BY <1>6 DEF ModelFails, RecordRaises, CellRaises
<1>7. ASSUME NEW reply \in Texts, ParseError(reply)
      PROVE  TypeOK'
  <2>1. bad' \in Seq(BOOLEAN) /\ consecErr' \in 0 .. MaxErrors
    BY <1>7 DEF ParseError
  <2> QED BY <1>7, <2>1 DEF ParseError
<1>8. ASSUME NEW code \in Codes, RunCell(code)
      PROVE  TypeOK'
  <2>1. identical' \in 0 .. 2 /\ (cells' = cells \/ cells' = Append(cells, code))
    BY <1>8 DEF RunCell
  <2>2. cells' \in Seq(Codes)
    <3> HIDE DEF Replies, Messages
    <3>1. cells \in Seq(Codes) /\ code \in Codes
      OBVIOUS
    <3>2. Append(cells, code) \in Seq(Codes)
      BY <3>1, AppendProperties
    <3> QED BY <2>1, <3>1, <3>2
  <2> QED BY <1>8, <2>1, <2>2 DEF RunCell
<1>9. ASSUME NEW error \in BOOLEAN, NEW final \in BOOLEAN,
             NEW shown \in Texts, CellReturns(error, final, shown)
      PROVE  TypeOK'
  <2>1. bad' \in Seq(BOOLEAN) /\ consecErr' \in 0 .. MaxErrors
    BY <1>9 DEF CellReturns
  <2> QED BY <1>9, <2>1 DEF CellReturns
<1>10. CASE Close
  BY <1>10 DEF Close
<1>11. CASE Finish
  BY <1>11 DEF Finish
<1> QED BY <1>1, <1>2, <1>3, <1>4, <1>5, <1>6, <1>7, <1>8, <1>9, <1>10, <1>11 DEF Next

\* The loop's bookkeeping holds in every run.
THEOREM Inductive == Spec => []IInv
<1>1. IInv /\ [Next]_vars => IInv'
  <2> SUFFICES ASSUME IInv, [Next]_vars PROVE IInv'
    OBVIOUS
  <2>1. TypeOK /\ Counting /\ Holding /\ Ending /\ HistShape
    BY DEF IInv
  <2>2. hist' \in Seq(Messages) /\ HistShape'
    BY <2>1, HistStep
  <2>3. Counting' /\ Holding' /\ Ending'
    BY <2>1, ControlStep
  <2>4. TypeOK'
    BY <2>1, <2>2, TypeStep
  <2> QED BY <2>2, <2>3, <2>4 DEF IInv
<1> QED BY <1>1, InitIInv, PTL DEF Spec

------------------------------------------------------------------------------
(* The second invariant: what the counters and the messages say about the  *)
(* turns that are over.                                                    *)

\* Compaction makes stubs of the old messages that do not look like one, and
\* touches no other message.
LEMMA CompactStubs ==
  ASSUME NEW h \in Seq(Messages), Len(h) >= 4
  PROVE  \A k \in 1 .. Len(h) :
           Compact(h)[k].text = IF Old(k, h) /\ h[k].text = "full" THEN "stub" ELSE h[k].text
<1> DEFINE f == [k \in 1 .. Len(h) |->
                   IF Old(k, h) /\ h[k].text = "full"
                     THEN [h[k] EXCEPT !.text = "stub"]
                     ELSE h[k]]
<1>0. Len(h) \in Nat /\ ~(Len(h) < 4)
  OBVIOUS
<1>1. Compact(h) = f
  BY <1>0 DEF Compact, Old
<1>2. \A k \in 1 .. Len(h) : h[k] \in Messages
  OBVIOUS
<1>3. ASSUME NEW k \in 1 .. Len(h)
      PROVE  f[k].text = IF Old(k, h) /\ h[k].text = "full" THEN "stub" ELSE h[k].text
  <2>1. CASE Old(k, h) /\ h[k].text = "full"
    <3>1. f[k] = [h[k] EXCEPT !.text = "stub"]
      BY <2>1
    <3>2. f[k].text = "stub"
      BY <1>2, <3>1 DEF Messages
    <3> QED BY <2>1, <3>2
  <2>2. CASE ~(Old(k, h) /\ h[k].text = "full")
    <3>1. f[k] = h[k]
      BY <2>2
    <3> QED BY <2>2, <3>1
  <2> QED BY <2>1, <2>2
<1> QED BY <1>1, <1>3

\* A turn adds a pair and compaction moves the window by a pair.
LEMMA StubStep ==
  ASSUME TypeOK, HistShape, StubShape, Ending, [Next]_vars
  PROVE  StubShape'
<1>0. /\ hist \in Seq(Messages) /\ Len(hist) \in Nat /\ turn \in Nat
      /\ \A role \in {"user", "assistant"}, text \in Texts :
           Message(role, text) \in Messages /\ Message(role, text).text # "stub"
      /\ \A code : CellText(code) \in Texts
      /\ "full" \in Texts
      /\ KeepRecent \in Nat \ {0}
  BY LoopAssumption DEF TypeOK, Messages, Message, CellText, Texts
<1>1. CASE hist' = hist /\ (pc' = pc \/ pc' \in {"closing", "finish", "done"})
  BY <1>1 DEF StubShape
<1>2. CASE Boot \/ Prelude \/ Startup \/ StartupFails \/ Send
  <2>1. /\ hist' = hist
        /\ pc \in {"boot", "prelude", "startup", "top"}
        /\ pc' \in {"prelude", "startup", "top", "model", "done"}
    BY <1>2 DEF Boot, Prelude, Startup, StartupFails, Send, Refuse, control
  <2> QED BY <2>1 DEF StubShape
<1>3. ASSUME NEW reply \in Texts, ParseError(reply)
      PROVE  StubShape'
  <2> DEFINE Assistant == Message("assistant", reply)
             User      == Message("user", "full")
             h == hist \o <<Assistant, User>>
  <2>1. CASE pc' = "closing"
    BY <2>1 DEF StubShape
  <2>2. CASE hist' = Compact(h) /\ pc' = "top"
    <3>1. pc = "model" /\ Len(hist) >= 2
      BY <1>0, <1>3 DEF ParseError, HistShape, Ending, TypeOK
    <3>2. /\ h \in Seq(Messages) /\ Len(h) = Len(hist) + 2
          /\ \A k \in 1 .. Len(h) :
               h[k] = IF k =< Len(hist) THEN hist[k]
                      ELSE IF k = Len(hist) + 1 THEN Assistant ELSE User
      BY <1>0
    <3>3. \A k \in 1 .. Len(h) :
            h[k].text # (IF 2 < k /\ k =< Len(h) - 2 - 2 * KeepRecent
                           THEN "full" ELSE "stub")
      BY <1>0, <3>1, <3>2 DEF StubShape, Old
    <3>4. /\ Len(Compact(h)) = Len(h)
          /\ \A k \in 1 .. Len(h) :
               Compact(h)[k].text =
                 IF Old(k, h) /\ h[k].text = "full" THEN "stub" ELSE h[k].text
      <4> HIDE DEF h
      <4>1. Len(h) >= 4
        BY <1>0, <3>1, <3>2
      <4> QED BY <3>2, <4>1, CompactKeepsRoles, CompactStubs
    <3> HIDE DEF h
    <3> QED BY <1>0, <2>2, <3>2, <3>3, <3>4 DEF StubShape, Old
  <2> QED BY <1>3, <2>1, <2>2 DEF ParseError, Abort, EndTurn
<1>4. ASSUME NEW code \in Codes, RunCell(code)
      PROVE  StubShape'
  <2> DEFINE Assistant == Message("assistant", CellText(code))
  <2>1. hist' = Append(hist, Assistant) /\ pc = "model" /\ pc' \in {"cell", "closing"}
    BY <1>4 DEF RunCell, Abort
  <2>2. /\ Len(hist') = Len(hist) + 1
        /\ \A k \in 1 .. Len(hist') : hist'[k] = IF k =< Len(hist) THEN hist[k] ELSE Assistant
    BY <1>0, <2>1
  <2> QED BY <1>0, <2>1, <2>2 DEF StubShape, Old
<1>5. ASSUME NEW error \in BOOLEAN, NEW final \in BOOLEAN,
             NEW shown \in Texts, CellReturns(error, final, shown)
      PROVE  StubShape'
  <2> DEFINE User == Message("user", shown)
             h    == Append(hist, User)
  <2>1. CASE pc' = "closing"
    BY <2>1 DEF StubShape
  <2>2. CASE hist' = Compact(h) /\ pc' = "top"
    <3>1. pc = "cell" /\ Len(hist) >= 3
      BY <1>0, <1>5 DEF CellReturns, HistShape
    <3>2. /\ h \in Seq(Messages) /\ Len(h) = Len(hist) + 1
          /\ \A k \in 1 .. Len(h) : h[k] = IF k =< Len(hist) THEN hist[k] ELSE User
      BY <1>0
    <3>3. \A k \in 1 .. Len(h) :
            h[k].text # (IF 2 < k /\ k =< Len(h) - 2 - 2 * KeepRecent
                           THEN "full" ELSE "stub")
      BY <1>0, <3>1, <3>2 DEF StubShape, Old
    <3>4. /\ Len(Compact(h)) = Len(h)
          /\ \A k \in 1 .. Len(h) :
               Compact(h)[k].text =
                 IF Old(k, h) /\ h[k].text = "full" THEN "stub" ELSE h[k].text
      <4> HIDE DEF h
      <4>1. Len(h) >= 4
        BY <1>0, <3>1, <3>2
      <4> QED BY <3>2, <4>1, CompactKeepsRoles, CompactStubs
    <3> HIDE DEF h
    <3> QED BY <1>0, <2>2, <3>2, <3>3, <3>4 DEF StubShape, Old
  <2> QED BY <1>5, <2>1, <2>2 DEF CellReturns, Abort, EndTurn
<1>6. CASE TopAborts \/ ModelFails \/ RecordRaises \/ CellRaises \/ Close \/ Finish
  BY <1>1, <1>6 DEF TopAborts, ModelFails, RecordRaises, CellRaises, Close, Finish, Abort,
                    control
<1>7. CASE UNCHANGED vars
  BY <1>1, <1>7 DEF vars, control
<1> QED BY <1>2, <1>3, <1>4, <1>5, <1>6, <1>7 DEF Next

\* Every failed turn is counted, and a good cell starts again.
LEMMA ErrorStep ==
  ASSUME TypeOK, Ending, ErrorRun, [Next]_vars
  PROVE  ErrorRun'
<1> DEFINE Counted == <<consecErr, bad>>
<1>0. bad \in Seq(BOOLEAN) /\ Len(bad) \in Nat /\ consecErr \in Nat
  BY LoopAssumption DEF TypeOK
<1>1. CASE Counted' = Counted /\ (outcome' = outcome \/ outcome' # "none")
  BY <1>1 DEF ErrorRun
<1>2. ASSUME NEW error \in BOOLEAN, bad' = Append(bad, error),
             consecErr' = IF error THEN consecErr + 1 ELSE 0, outcome = "none"
      PROVE  ErrorRun'
  <2>1. /\ Len(bad') = Len(bad) + 1
        /\ \A k \in 1 .. Len(bad') : bad'[k] = IF k =< Len(bad) THEN bad[k] ELSE error
    BY <1>0, <1>2
  <2>2. CASE error
    BY <1>0, <1>2, <2>1, <2>2 DEF ErrorRun
  <2>3. CASE ~error
    BY <1>0, <1>2, <2>1, <2>3 DEF ErrorRun
  <2> QED BY <2>2, <2>3
<1>3. ASSUME NEW reply \in Texts, ParseError(reply)
      PROVE  ErrorRun'
  BY <1>2, <1>3 DEF ParseError, Ending, InLoop
<1>4. ASSUME NEW error \in BOOLEAN, NEW final \in BOOLEAN,
             NEW shown \in Texts, CellReturns(error, final, shown)
      PROVE  ErrorRun'
  BY <1>2, <1>4 DEF CellReturns, Ending, InLoop
<1>5. CASE \E code \in Codes : RunCell(code)
  BY <1>1, <1>5 DEF RunCell, Abort
<1>6. CASE Boot \/ Prelude \/ Startup \/ StartupFails \/ Send
  BY <1>1, <1>6 DEF Boot, Prelude, Startup, StartupFails, Send, Refuse, control, past
<1>7. CASE TopAborts \/ ModelFails \/ RecordRaises \/ CellRaises \/ Close \/ Finish
  BY <1>1, <1>7 DEF TopAborts, ModelFails, RecordRaises, CellRaises, Close, Finish, Abort,
                    control, past
<1>8. CASE UNCHANGED vars
  BY <1>1, <1>8 DEF vars, control, past
<1> QED BY <1>3, <1>4, <1>5, <1>6, <1>7, <1>8 DEF Next

\* A cell is executed a second time, and then aborts the run.
LEMMA CellStep ==
  ASSUME TypeOK, Ending, CellRun, [Next]_vars
  PROVE  CellRun'
<1> DEFINE Remembered == <<cells, identical, lastCode>>
<1>0. cells \in Seq(Codes) /\ Len(cells) \in Nat /\ identical \in 0 .. 2
  BY DEF TypeOK
<1>1. CASE Remembered' = Remembered /\ (outcome' = outcome \/ outcome' # "none")
  BY <1>1 DEF CellRun, NoThirdIdenticalCell
<1>2. ASSUME NEW code \in Codes, RunCell(code)
      PROVE  CellRun'
  <2> DEFINE repeats == IF code = lastCode THEN identical + 1 ELSE 0
  <2>1. CASE repeats >= 2
    BY <1>2, <2>1 DEF RunCell, Abort, CellRun, NoThirdIdenticalCell
  <2>2. CASE ~(repeats >= 2)
    <3>1. /\ cells' = Append(cells, code) /\ lastCode' = code /\ identical' = repeats
          /\ outcome = "none" /\ outcome' = "none"
      BY <1>2, <2>2 DEF RunCell, Ending, InLoop
    <3>2. /\ Len(cells') = Len(cells) + 1
          /\ \A k \in 1 .. Len(cells') : cells'[k] = IF k =< Len(cells) THEN cells[k] ELSE code
      BY <1>0, <3>1
    <3>3. Len(cells) >= 1 /\ identical' = 0 => cells[Len(cells)] # code
      BY <1>0, <3>1 DEF CellRun
    <3>4. Len(cells) >= 2 /\ cells[Len(cells)] = code =>
            cells[Len(cells) - 1] # cells[Len(cells)]
      BY <1>0, <2>2, <3>1 DEF CellRun
    <3>5. NoThirdIdenticalCell'
      <4> SUFFICES ASSUME NEW k \in 1 .. Len(cells') - 2
                   PROVE  ~(cells'[k] = cells'[k + 1] /\ cells'[k + 1] = cells'[k + 2])
        BY DEF NoThirdIdenticalCell
      <4>1. CASE k =< Len(cells) - 2
        BY <1>0, <3>2, <4>1 DEF CellRun, NoThirdIdenticalCell
      <4>2. CASE k = Len(cells) - 1
        BY <1>0, <3>2, <3>4, <4>2
      <4> QED BY <1>0, <3>2, <4>1, <4>2
    <3> QED BY <1>0, <3>1, <3>2, <3>3, <3>5 DEF CellRun
  <2> QED BY <2>1, <2>2
<1>3. CASE \/ \E reply \in Texts : ParseError(reply)
           \/ \E error, final \in BOOLEAN, shown \in Texts : CellReturns(error, final, shown)
  BY <1>1, <1>3 DEF ParseError, CellReturns, Abort, EndTurn, Ending, InLoop
<1>4. CASE Boot \/ Prelude \/ Startup \/ StartupFails \/ Send
  BY <1>1, <1>4 DEF Boot, Prelude, Startup, StartupFails, Send, Refuse, control, past
<1>5. CASE TopAborts \/ ModelFails \/ RecordRaises \/ CellRaises \/ Close \/ Finish
  BY <1>1, <1>5 DEF TopAborts, ModelFails, RecordRaises, CellRaises, Close, Finish, Abort,
                    control, past
<1>6. CASE UNCHANGED vars
  BY <1>1, <1>6 DEF vars, control, past
<1> QED BY <1>2, <1>3, <1>4, <1>5, <1>6 DEF Next

\* The counters and the messages are true of the past in every run.
THEOREM Past == Spec => []PastInv
<1>1. Init => PastInv
  <2> SUFFICES ASSUME Init PROVE PastInv
    OBVIOUS
  <2>1. Len(hist) = 2 /\ \A k \in 1 .. 2 : hist[k].text # "stub"
    BY DEF Init, Message
  <2>2. StubShape
    BY <2>1, LoopAssumption DEF Init, StubShape, Old
  <2>3. ErrorRun /\ CellRun
    BY DEF Init, ErrorRun, CellRun, NoThirdIdenticalCell
  <2> QED BY <2>2, <2>3 DEF PastInv
<1>2. IInv /\ PastInv /\ [Next]_vars => PastInv'
  BY StubStep, ErrorStep, CellStep DEF IInv, PastInv
<1> QED BY <1>1, <1>2, Inductive, PTL DEF Spec

------------------------------------------------------------------------------
\* Types, the counters within their limits.
THEOREM TypeCorrect == Spec => []TypeOK
  BY Inductive, PTL DEF IInv

\* What is sent is a conversation in which nothing old is in full but what
\* imitates a stub, for any window.
THEOREM WellFormed == Spec => []HistWellFormed
<1>1. IInv /\ PastInv => HistWellFormed
  <2> SUFFICES ASSUME IInv, PastInv, pc = "top" PROVE HistWellFormed
    BY DEF HistWellFormed, HistAlternates, HistCompacted
  <2>1. HistAlternates
    BY DEF IInv, TypeOK, HistShape, HistAlternates
  <2>2. DOMAIN hist = 1 .. Len(hist)
    BY DEF IInv, TypeOK
  <2> QED BY <2>1, <2>2 DEF PastInv, StubShape, HistWellFormed, HistCompacted
<1> QED BY <1>1, Inductive, Past, PTL

\* The counter tells exactly the failed turns since the last good cell.
THEOREM ErrorsCounted == Spec => []ErrorsInARow
<1>1. IInv /\ PastInv => ErrorsInARow
  <2> SUFFICES ASSUME IInv, PastInv, pc \in {"top", "model"} PROVE ErrorsInARow
    BY DEF ErrorsInARow
  <2>1. consecErr < MaxErrors /\ ErrorRun /\ outcome = "none"
    BY DEF IInv, Counting, Ending, InLoop, PastInv
  <2>2. Len(bad) \in Nat /\ consecErr \in Nat
    BY LoopAssumption DEF IInv, TypeOK
  <2>3. ASSUME NEW k \in 1 .. Len(bad)
        PROVE  (k > Len(bad) - consecErr) <=> (\A j \in k .. Len(bad) : bad[j])
    BY <2>1, <2>2, <2>3 DEF ErrorRun
  <2> QED BY <2>1, <2>3 DEF ErrorsInARow
<1> QED BY <1>1, Inductive, Past, PTL

\* The stall guard lets no cell be executed three times in succession.
THEOREM NoThird == Spec => []NoThirdIdenticalCell
  BY Past, PTL DEF PastInv, CellRun

\* No way out of run() keeps an environment, or the temporary workspace of an
\* environment that was built; the root's trace summary says "complete"
\* exactly of an answered run.
THEOREM Left == Spec => []SessionLeft
<1>1. IInv => EnvReleased
  BY DEF IInv, TypeOK, Holding, EnvReleased
<1>2. IInv => SummaryTellsOutcome
  <2> SUFFICES ASSUME IInv, pc = "done", root
               PROVE  (summary = "complete") <=> (outcome = "answered")
    BY DEF SummaryTellsOutcome
  <2> QED BY DEF IInv, Ending
<1> QED BY <1>1, <1>2, Inductive, PTL DEF SessionLeft

------------------------------------------------------------------------------
\* Each step of run() is a step of the contract or invisible in it.
LEMMA ContractStep ==
  ASSUME IInv, [Next]_vars
  PROVE  [Contract!Next]_(Contract!contractVars)
<1> USE DEF Contract!Next, Contract!Send, Contract!Act, Contract!Observe, Contract!Fail,
            Contract!contractVars, Phase, Refuse, Abort, EndTurn,
            control, resources, spans, artifacts, past
<1>0. TypeOK /\ Ending
  BY DEF IInv
<1>1. CASE UNCHANGED vars
  BY <1>1 DEF vars
<1>2. CASE Boot
  BY <1>0, <1>2 DEF Boot, Ending, InLoop
<1>3. CASE Prelude
  BY <1>0, <1>3 DEF Prelude, Ending, InLoop
<1>4. CASE Startup \/ StartupFails
  BY <1>0, <1>4 DEF Startup, StartupFails, Ending, InLoop
<1>5. CASE TopAborts
  BY <1>0, <1>5 DEF TopAborts, Ending, InLoop
<1>6. CASE Send
  BY <1>0, <1>6 DEF Send, Ending, InLoop
<1>7. CASE ModelFails \/ RecordRaises \/ CellRaises
  BY <1>0, <1>7 DEF ModelFails, RecordRaises, CellRaises, Ending, InLoop
<1>8. ASSUME NEW reply \in Texts, ParseError(reply)
      PROVE  [Contract!Next]_(Contract!contractVars)
  BY <1>0, <1>8 DEF ParseError, Ending, InLoop
<1>9. ASSUME NEW code \in Codes, RunCell(code)
      PROVE  [Contract!Next]_(Contract!contractVars)
  BY <1>0, <1>9 DEF RunCell, Ending, InLoop
<1>10. ASSUME NEW error \in BOOLEAN, NEW final \in BOOLEAN,
              NEW shown \in Texts, CellReturns(error, final, shown)
       PROVE  [Contract!Next]_(Contract!contractVars)
  BY <1>0, <1>10 DEF CellReturns, Ending, InLoop
<1>11. CASE Close
  BY <1>0, <1>11 DEF Close, Ending, InLoop
<1>12. CASE Finish
  BY <1>0, <1>12 DEF Finish, Ending, InLoop
<1> QED BY <1>1, <1>2, <1>3, <1>4, <1>5, <1>6, <1>7, <1>8, <1>9, <1>10, <1>11, <1>12
        DEF Next

\* Runtime.run implements LoopContract.
THEOREM Implements == Spec => KeepsContract
<1>1. Init => Contract!Init
  BY DEF Init, Contract!Init, Phase
<1> QED BY <1>1, ContractStep, Inductive, PTL DEF Spec, KeepsContract, Contract!Spec
=============================================================================
