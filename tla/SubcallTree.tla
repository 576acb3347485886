----------------------------- MODULE SubcallTree -----------------------------
(***************************************************************************)
(* The tree of runtimes of one session and the money they account for.    *)
(*                                                                         *)
(* Every runtime alternates between its own loop and the callbacks its     *)
(* current cell makes.  A callback is a leaf (one completion on the leaf   *)
(* model) or a child (a runtime of its own with an inherited budget).  The *)
(* slots of a batch run on a thread pool of the runtime that made it, so   *)
(* several of them check, reply, lock and charge one Budget concurrently.  *)
(*                                                                         *)
(* A node is either the root runtime or a call; a call whose child was     *)
(* launched is a runtime as well.  Amounts are whole units of cost; the    *)
(* token counters are charged exactly like spent_usd and are left out.     *)
(***************************************************************************)
EXTENDS Integers, FiniteSets, Functions

CONSTANTS
  Root,            \* the runtime of the session
  Calls,           \* identities of the callbacks, each used at most once
  Nobody,          \* the owner of an unused call, the holder of a free lock
  MaxUsd,          \* max_budget_usd of the session
  Costs,           \* what one completion may cost
  Timed,           \* is max_timeout_s set?
  MaxDepth,        \* max_depth
  MaxConcurrent,   \* max_concurrent_subcalls
  MaxIterations    \* max_iterations

ASSUME SubcallAssumption ==
  /\ Root \notin Calls /\ IsFiniteSet(Calls)
  /\ Nobody \notin Calls \cup {Root}
  /\ MaxUsd \in Nat
  /\ Costs \subseteq Nat /\ \E m \in Costs : \A k \in Costs : k =< m
  /\ Timed \in BOOLEAN
  /\ MaxDepth \in Nat
  /\ MaxConcurrent \in Nat \ {0}
  /\ MaxIterations \in Nat \ {0}

Nodes == Calls \cup {Root}

Phases == {"none", "turn", "model", "cell", "answered", "failed"}

Stages == {"free", "queued", "sent", "replied", "checked", "running",
           "folding", "locked", "done"}

VARIABLES
  run,         \* phase of each runtime's loop
  turns,       \* the loop index i of each runtime
  depth,       \* Runtime.depth
  cap,         \* Budget.max_usd
  spent,       \* Budget.spent_usd
  iterations,  \* Budget.iterations
  subcalls,    \* Budget.subcalls
  late,        \* runtimes whose Budget.deadline has passed
  lock,        \* holder of each runtime's _budget_lock
  stage,       \* where each call is in leaf_complete / child_rlm
  owner,       \* the runtime whose cell made the call
  kind,        \* "leaf" or "child"
  bill,        \* cost of the completion the call holds
  seen,        \* spent_usd as the lock holder loaded it
  result,      \* what the call returned
  billed       \* total of all completions of the session (history variable)

loopVars    == <<run, turns, depth>>
budgetVars  == <<cap, spent, iterations, subcalls>>
callVars    == <<stage, owner, kind, bill, seen, result>>
vars == <<loopVars, budgetVars, late, lock, callVars, billed>>

------------------------------------------------------------------------------
(* Readings of the state.                                                  *)

\* Mutant of Exhausted: off by one at the cap.
ExhaustedAboveCap(n) == n \in late \/ spent[n] > cap[n]

\* Budget.check raises: the deadline first, then the money.
Exhausted(n) == n \in late \/ spent[n] >= cap[n]

\* Budget.remaining_usd, clamped at zero.
Remaining(n) == IF cap[n] > spent[n] THEN cap[n] - spent[n] ELSE 0

CallsOf(n) == {c \in Calls : owner[c] = n}

\* Callbacks made by the runtime's cell and not answered yet.
Outstanding(n) == {c \in CallsOf(n) : stage[c] # "done"}

\* Those of them a worker thread of the pool is executing.
Active(n) == {c \in Outstanding(n) : stage[c] # "queued"}

------------------------------------------------------------------------------
Init ==
  /\ run        = [n \in Nodes |-> IF n = Root THEN "turn" ELSE "none"]
  /\ turns      = [n \in Nodes |-> 0]
  /\ depth      = [n \in Nodes |-> 0]
  /\ cap        = [n \in Nodes |-> IF n = Root THEN MaxUsd ELSE 0]
  /\ spent      = [n \in Nodes |-> 0]
  /\ iterations = [n \in Nodes |-> 0]
  /\ subcalls   = [n \in Nodes |-> 0]
  /\ late       = {}
  /\ lock       = [n \in Nodes |-> Nobody]
  /\ stage      = [c \in Calls |-> "free"]
  /\ owner      = [c \in Calls |-> Nobody]
  /\ kind       = [c \in Calls |-> "leaf"]
  /\ bill       = [c \in Calls |-> 0]
  /\ seen       = [c \in Calls |-> 0]
  /\ result     = [c \in Calls |-> "none"]
  /\ billed     = 0

------------------------------------------------------------------------------
(* The loop of one runtime.                                                *)

Enter(n, phase) == run' = [run EXCEPT ![n] = phase]

\* Anything the loop raises, between cells or on the result of one: limits,
\* the prompt guard, a failed completion, repeated errors.
LoopAbort(n) ==
  /\ run[n] \in {"turn", "model", "cell"}
  /\ Outstanding(n) = {}
  /\ Enter(n, "failed")
  /\ UNCHANGED <<turns, depth, budgetVars, late, lock, callVars, billed>>

\* Mutant of StartTurn: one turn too many.
StartTurnOneMore(n) ==
  /\ run[n] = "turn"
  /\ turns[n] =< MaxIterations
  /\ ~Exhausted(n)
  /\ Enter(n, "model")
  /\ turns' = [turns EXCEPT ![n] = @ + 1]
  /\ UNCHANGED <<depth, budgetVars, late, lock, callVars, billed>>

\* The next iteration passes budget.check and sends the history.
StartTurn(n) ==
  /\ run[n] = "turn"
  /\ turns[n] < MaxIterations
  /\ ~Exhausted(n)
  /\ Enter(n, "model")
  /\ turns' = [turns EXCEPT ![n] = @ + 1]
  /\ UNCHANGED <<depth, budgetVars, late, lock, callVars, billed>>

\* The completion is charged without the lock; record raises when it
\* exhausts the budget, and then the iteration is not counted.
RecordTurn(n) ==
  /\ run[n] = "model"
  /\ \E cost \in Costs :
       /\ spent' = [spent EXCEPT ![n] = @ + cost]
       /\ billed' = billed + cost
  /\ IF n \in late \/ spent'[n] >= cap[n]
       THEN /\ Enter(n, "failed")
            /\ UNCHANGED iterations
       ELSE /\ Enter(n, "cell")
            /\ iterations' = [iterations EXCEPT ![n] = @ + 1]
  /\ UNCHANGED <<turns, depth, cap, subcalls, late, lock, callVars>>

\* The cell returns an observation without a final answer, or the reply had
\* no code to run.
NextTurn(n) ==
  /\ run[n] = "cell"
  /\ Outstanding(n) = {}
  /\ Enter(n, "turn")
  /\ UNCHANGED <<turns, depth, budgetVars, late, lock, callVars, billed>>

\* Mutant of Answer: does not wait for the callbacks of the cell.
AnswerEarly(n) ==
  /\ run[n] = "cell"
  /\ Enter(n, "answered")
  /\ UNCHANGED <<turns, depth, budgetVars, late, lock, callVars, billed>>

\* The cell returns with FINAL set: the run completes with its usage.
Answer(n) ==
  /\ run[n] = "cell"
  /\ Outstanding(n) = {}
  /\ Enter(n, "answered")
  /\ UNCHANGED <<turns, depth, budgetVars, late, lock, callVars, billed>>

\* The host stops waiting for the cell: the run aborts although callbacks of
\* the cell may still be executing on the host.  The wait is the session
\* timeout and starts after the run did, so the deadline has passed.
HostWaitExpires(n) ==
  /\ run[n] = "cell"
  /\ n \in late
  /\ Enter(n, "failed")
  /\ UNCHANGED <<turns, depth, budgetVars, late, lock, callVars, billed>>

\* The container of a runtime dies in the middle of a cell: the connection
\* ends, and again callbacks may be in flight.
ContainerDies(n) ==
  /\ run[n] = "cell"
  /\ Enter(n, "failed")
  /\ UNCHANGED <<turns, depth, budgetVars, late, lock, callVars, billed>>

\* The deadline of a runtime passes; a child computes its own from what is
\* left of its parent's, a moment later.
DeadlinePasses(n) ==
  /\ Timed
  /\ run[n] \in {"turn", "model", "cell"}
  /\ n \notin late
  /\ n # Root => owner[n] \in late
  /\ late' = late \cup {n}
  /\ UNCHANGED <<loopVars, budgetVars, lock, callVars, billed>>

------------------------------------------------------------------------------
(* Callbacks.                                                              *)

Move(c, s) == stage' = [stage EXCEPT ![c] = s]

Return(c, value) ==
  /\ Move(c, "done")
  /\ result' = [result EXCEPT ![c] = value]

\* A cell makes a callback: one prompt, or a batch whose prompts are all
\* submitted to the pool.  It waits for the answers before it goes on.
Submit(n, batch, k) ==
  /\ run[n] = "cell"
  /\ Outstanding(n) = {}
  /\ batch # {}
  /\ \A c \in batch : stage[c] = "free"
  /\ stage' = [c \in Calls |-> IF c \in batch THEN "queued" ELSE stage[c]]
  /\ owner' = [c \in Calls |-> IF c \in batch THEN n ELSE owner[c]]
  /\ kind'  = [c \in Calls |-> IF c \in batch THEN k ELSE kind[c]]
  /\ UNCHANGED <<loopVars, budgetVars, late, lock, bill, seen, result, billed>>

\* Mutant of Taken: one pool for the whole tree.
TakenSharedPool(c) ==
  /\ stage[c] = "queued"
  /\ Cardinality(UNION {Active(n) : n \in Nodes}) < MaxConcurrent

\* A worker is available to take the call from its runtime's pool.
Taken(c) ==
  /\ stage[c] = "queued"
  /\ Cardinality(Active(owner[c])) < MaxConcurrent

\* The callback finds the budget exhausted and answers with an error text.
Refuse(c) ==
  /\ Taken(c)
  /\ Exhausted(owner[c])
  /\ Return(c, "error")
  /\ UNCHANGED <<loopVars, budgetVars, late, lock, owner, kind, bill, seen, billed>>

\* The prompt guard refuses the prompt of a leaf, or of a child at the cap.
RefusePrompt(c) ==
  /\ Taken(c)
  /\ ~Exhausted(owner[c])
  /\ kind[c] = "leaf" \/ depth[owner[c]] + 1 > MaxDepth
  /\ Return(c, "error")
  /\ UNCHANGED <<loopVars, budgetVars, late, lock, owner, kind, bill, seen, billed>>

\* A leaf, or a child beyond the depth cap that degrades to one, is sent.
SendLeaf(c) ==
  /\ Taken(c)
  /\ ~Exhausted(owner[c])
  /\ kind[c] = "leaf" \/ depth[owner[c]] + 1 > MaxDepth
  /\ Move(c, "sent")
  /\ kind' = [kind EXCEPT ![c] = "leaf"]
  /\ UNCHANGED <<loopVars, budgetVars, late, lock, owner, bill, seen, result, billed>>

\* The completion of a leaf arrives.
Reply(c) ==
  /\ stage[c] = "sent"
  /\ \E cost \in Costs :
       /\ bill' = [bill EXCEPT ![c] = cost]
       /\ billed' = billed + cost
  /\ Move(c, "replied")
  /\ UNCHANGED <<loopVars, budgetVars, late, lock, owner, kind, seen, result>>

\* The completion of a leaf fails: an error text, nothing charged.
ReplyFails(c) ==
  /\ stage[c] = "sent"
  /\ Return(c, "error")
  /\ UNCHANGED <<loopVars, budgetVars, late, lock, owner, kind, bill, seen, billed>>

\* Mutant of Acquire: no lock is taken.
AcquireUnlocked(c) ==
  /\ stage[c] \in {"replied", "folding"}
  /\ seen' = [seen EXCEPT ![c] = spent[owner[c]]]
  /\ Move(c, "locked")
  /\ UNCHANGED <<loopVars, budgetVars, late, lock, owner, kind, bill, result, billed>>

\* Enter the critical section and load spent_usd.
Acquire(c) ==
  /\ stage[c] \in {"replied", "folding"}
  /\ lock[owner[c]] = Nobody
  /\ lock' = [lock EXCEPT ![owner[c]] = c]
  /\ seen' = [seen EXCEPT ![c] = spent[owner[c]]]
  /\ Move(c, "locked")
  /\ UNCHANGED <<loopVars, budgetVars, late, owner, kind, bill, result, billed>>

\* Store the charge of a leaf.  The check inside record may raise: then the
\* answer is lost and the subcall is not counted.
ChargeLeaf(c) ==
  LET n == owner[c]
      total == seen[c] + bill[c]
      raises == n \in late \/ total >= cap[n]
  IN /\ stage[c] = "locked"
     /\ kind[c] = "leaf"
     /\ spent' = [spent EXCEPT ![n] = total]
     /\ subcalls' = IF raises THEN subcalls ELSE [subcalls EXCEPT ![n] = @ + 1]
     /\ lock' = [lock EXCEPT ![n] = Nobody]
     /\ Return(c, IF raises THEN "raised" ELSE "text")
     /\ UNCHANGED <<loopVars, cap, iterations, late, owner, kind, bill, seen, billed>>

\* A child passes budget.check below the depth cap.
CheckChild(c) ==
  /\ Taken(c)
  /\ kind[c] = "child"
  /\ ~Exhausted(owner[c])
  /\ depth[owner[c]] + 1 =< MaxDepth
  /\ Move(c, "checked")
  /\ UNCHANGED <<loopVars, budgetVars, late, lock, owner, kind, bill, seen, result, billed>>

\* Budget.inherit and the child's runtime: what is left now, not what was
\* left at the check.
Inherit(c) ==
  LET n == owner[c]
  IN /\ stage[c] = "checked"
     /\ n \notin late
     /\ cap' = [cap EXCEPT ![c] = Remaining(n)]
     /\ depth' = [depth EXCEPT ![c] = depth[n] + 1]
     /\ Enter(c, "turn")
     /\ Move(c, "running")
     /\ UNCHANGED <<turns, spent, iterations, subcalls, late, lock, owner, kind,
                    bill, seen, result, billed>>

\* Building the child raises: its targets are invalid, or the deadline passed
\* since the check and Config rejects the timeout of zero that is left.
LaunchRaises(c) ==
  /\ stage[c] = "checked"
  /\ Return(c, "raised")
  /\ UNCHANGED <<loopVars, budgetVars, late, lock, owner, kind, bill, seen, billed>>

\* The child's run raised: an error text, nothing folded.
ChildFails(c) ==
  /\ stage[c] = "running"
  /\ run[c] = "failed"
  /\ Return(c, "error")
  /\ UNCHANGED <<loopVars, budgetVars, late, lock, owner, kind, bill, seen, billed>>

\* The child's run completed: its account is to be folded.
ChildReturns(c) ==
  /\ stage[c] = "running"
  /\ run[c] = "answered"
  /\ Move(c, "folding")
  /\ UNCHANGED <<loopVars, budgetVars, late, lock, owner, kind, bill, seen, result, billed>>

\* Mutants of FoldChild: one never releases the lock, one counts the child but
\* not its money.
FoldChildKeepsLock(c) ==
  LET n == owner[c]
  IN /\ stage[c] = "locked"
     /\ kind[c] = "child"
     /\ spent' = [spent EXCEPT ![n] = seen[c] + spent[c]]
     /\ subcalls' = [subcalls EXCEPT ![n] = @ + 1 + subcalls[c]]
     /\ iterations' = [iterations EXCEPT ![n] = @ + iterations[c]]
     /\ Return(c, "text")
     /\ UNCHANGED <<loopVars, cap, late, lock, owner, kind, bill, seen, billed>>

FoldChildUncharged(c) ==
  LET n == owner[c]
  IN /\ stage[c] = "locked"
     /\ kind[c] = "child"
     /\ subcalls' = [subcalls EXCEPT ![n] = @ + 1 + subcalls[c]]
     /\ iterations' = [iterations EXCEPT ![n] = @ + iterations[c]]
     /\ lock' = [lock EXCEPT ![n] = Nobody]
     /\ Return(c, "text")
     /\ UNCHANGED <<loopVars, cap, spent, late, owner, kind, bill, seen, billed>>

\* Store the fold of a completed child; nothing is checked afterwards.
FoldChild(c) ==
  LET n == owner[c]
  IN /\ stage[c] = "locked"
     /\ kind[c] = "child"
     /\ spent' = [spent EXCEPT ![n] = seen[c] + spent[c]]
     /\ subcalls' = [subcalls EXCEPT ![n] = @ + 1 + subcalls[c]]
     /\ iterations' = [iterations EXCEPT ![n] = @ + iterations[c]]
     /\ lock' = [lock EXCEPT ![n] = Nobody]
     /\ Return(c, "text")
     /\ UNCHANGED <<loopVars, cap, late, owner, kind, bill, seen, billed>>

------------------------------------------------------------------------------
Loop(n) == StartTurn(n) \/ RecordTurn(n) \/ NextTurn(n) \/ Answer(n) \/ LoopAbort(n)

Worker(c) ==
  \/ Refuse(c) \/ RefusePrompt(c) \/ SendLeaf(c) \/ Reply(c) \/ ReplyFails(c)
  \/ Acquire(c) \/ ChargeLeaf(c) \/ CheckChild(c) \/ Inherit(c) \/ LaunchRaises(c)
  \/ ChildFails(c) \/ ChildReturns(c) \/ FoldChild(c)

Next ==
  \/ \E n \in Nodes : Loop(n) \/ HostWaitExpires(n) \/ ContainerDies(n) \/ DeadlinePasses(n)
  \/ \E n \in Nodes, batch \in SUBSET Calls, k \in {"leaf", "child"} : Submit(n, batch, k)
  \/ \E c \in Calls : Worker(c)

Spec == Init /\ [][Next]_vars

\* Threads are scheduled, completions return or time out in the client, and a
\* cell ends (its local code runs under an alarm).
Fairness ==
  /\ \A n \in Nodes : WF_vars(Loop(n))
  /\ \A c \in Calls : WF_vars(Worker(c))

FairSpec == Spec /\ Fairness

------------------------------------------------------------------------------
(* Properties.                                                             *)

\* Every variable ranges over what the code can put there; in particular no
\* inherited cap is negative.
TypeOK ==
  /\ run        \in [Nodes -> Phases]
  /\ turns      \in [Nodes -> 0 .. MaxIterations]
  /\ depth      \in [Nodes -> 0 .. MaxDepth]
  /\ cap        \in [Nodes -> Nat]
  /\ spent      \in [Nodes -> Nat]
  /\ iterations \in [Nodes -> Nat]
  /\ subcalls   \in [Nodes -> Nat]
  /\ late       \subseteq Nodes
  /\ lock       \in [Nodes -> Calls \cup {Nobody}]
  /\ stage      \in [Calls -> Stages]
  /\ owner      \in [Calls -> Nodes \cup {Nobody}]
  /\ kind       \in [Calls -> {"leaf", "child"}]
  /\ bill       \in [Calls -> Nat]
  /\ seen       \in [Calls -> Nat]
  /\ result     \in [Calls -> {"none", "text", "error", "raised"}]
  /\ billed     \in Nat

\* The charge of Runtime.run (outside _budget_lock) is safe: while a loop is
\* between cells no callback of that runtime exists that could be inside the
\* critical section of leaf_complete or child_rlm.
LoopAlone ==
  \A n \in Nodes : run[n] \in {"none", "turn", "model"} => Outstanding(n) = {}

\* No lost update: an account is never lowered by a worker that stores over
\* somebody else's charge, in leaf_complete, child_rlm or the loop.
SpentOnlyGrows == [][\A n \in Nodes : spent'[n] >= spent[n]]_vars

\* Usage is final: once a run has answered, no late worker changes the spend,
\* subcalls or iterations that its Completion reported and its parent folded.
UsageIsFinal ==
  [][\A n \in Nodes : run[n] = "answered" =>
       /\ spent'[n] = spent[n]
       /\ subcalls'[n] = subcalls[n]
       /\ iterations'[n] = iterations[n]]_vars

\* Accounts whose money is not also part of their parent's account.
Folded(c) == stage[c] = "done" /\ run[c] = "answered"
Unfolded  == {Root} \cup {c \in Calls : ~Folded(c)}
Uncharged == {c \in Calls : kind[c] = "leaf" /\ stage[c] \in {"replied", "locked"}}

\* Conservation: every completion of the session is in exactly one account,
\* or in the hands of a worker about to charge it.  A failed child keeps what
\* it spent; a completed one is folded once.
Conservation ==
  billed = SumFunctionOnSet(spent, Unfolded) + SumFunctionOnSet(bill, Uncharged)

\* W^d * (r - 1 + W * M): what a runtime at distance d from the depth cap can
\* spend on a cap of r with W workers and completions that cost at most M.
Power(b, e) == LET p[i \in 0 .. e] == IF i = 0 THEN 1 ELSE b * p[i - 1] IN p[e]
Limit(d, r, m) ==
  IF r = 0 THEN 0 ELSE Power(MaxConcurrent, d) * (r - 1 + MaxConcurrent * m)

\* The budget is a bound up to concurrency: a check that several workers pass
\* together, or a remainder several children inherit together, is multiplied
\* by the pool size at each level and by no more.
OverspendBounded ==
  \A n \in Nodes : run[n] # "none" =>
    spent[n] =< Limit(MaxDepth - depth[n], cap[n],
                      CHOOSE m \in Costs : \A k \in Costs : k =< m)

\* What one runtime of the tree is to its caller; a call is no runtime yet
\* until it inherits a budget.
Phase(n) == IF run[n] = "none" THEN "turn" ELSE run[n]

Contract(n) == INSTANCE LoopContract WITH phase <- Phase(n), taken <- turns[n]

\* Every runtime of the tree, from its start, keeps the contract of
\* LoopContract, however its steps interleave with the callbacks of the others.
AllKeepContract ==
  [][\A n \in Nodes : [Contract(n)!Next]_<<Phase(n), turns[n]>>]_vars

\* Every callback is answered, whatever the other runtimes of the tree wait
\* for: nested batches have pools of their own and cannot starve each other.
CallsAnswered == \A c \in Calls : stage[c] = "queued" ~> stage[c] = "done"

\* The session ends.
SessionEnds == <>(run[Root] \in {"answered", "failed"})

------------------------------------------------------------------------------
(* The inductive strengthening of the invariants above.                    *)

\* A call belongs to a started runtime from the moment it is made.
Owned == \A c \in Calls :
  stage[c] # "free" => owner[c] \in Nodes /\ run[owner[c]] # "none"

\* A call is no runtime before it inherits a budget.
NotYetRun == \A c \in Calls :
  stage[c] \in {"free", "queued", "sent", "replied", "checked"} => run[c] = "none"

\* A child about to inherit is below the depth cap.
BelowCap == \A c \in Calls :
  stage[c] = "checked" => depth[owner[c]] + 1 =< MaxDepth

\* Only a cell, or the abort of one, leaves callbacks unanswered.
Quiet == \A c \in Calls : \A n \in Nodes :
  owner[c] = n /\ stage[c] # "done" => run[n] \in {"cell", "failed"}

\* Inside the critical section means holding the owner's lock.
LockHeld == \A c \in Calls : stage[c] = "locked" => lock[owner[c]] = c

\* What was loaded under the lock is what the account still holds.
SeenCurrent == \A c \in Calls : stage[c] = "locked" => seen[c] = spent[owner[c]]

\* The accounting discipline as a whole: workers hold their runtime's lock
\* while they charge, and nothing else writes what they loaded.
IInv == TypeOK /\ Owned /\ NotYetRun /\ BelowCap /\ Quiet /\ LockHeld /\ SeenCurrent
=============================================================================
