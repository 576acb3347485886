-------------------------- MODULE SubcallTree_proofs --------------------------
(***************************************************************************)
(* Proofs about SubcallTree for any set of calls, any cap, any costs and   *)
(* any pool size.                                                          *)
(*                                                                         *)
(* The argument: a callback exists only under a runtime that is in a cell  *)
(* or was aborted in one (Quiet), so the loop, which charges without the   *)
(* lock, never runs beside a worker; a worker inside the critical section  *)
(* is the recorded holder of the lock (LockHeld), so what it loaded is     *)
(* still what the account holds when it stores (SeenCurrent).              *)
(*                                                                         *)
(* On it stand the two properties about money.  Conservation needs what    *)
(* the stage of a call says of its kind and its run (Settled); the bound   *)
(* on overspending needs what calls that passed budget.check may still     *)
(* add (Bounded).  Sums over accounts are cardinalities of sets of units,  *)
(* and what is defined by recursion is settled by the least number at      *)
(* which it would fail.                                                    *)
(***************************************************************************)
EXTENDS SubcallTree, FiniteSetTheorems, WellFoundedInduction, TLAPS

------------------------------------------------------------------------------
\* The accounts are fresh and no call is made.
LEMMA InitIInv == Init => IInv
  BY SubcallAssumption
     DEF Init, IInv, TypeOK, Owned, NotYetRun, BelowCap, Quiet, LockHeld, SeenCurrent,
         Nodes, Phases, Stages

\* A step of the loop, or the host giving up on a cell.
LEMMA LoopStep ==
  ASSUME IInv, NEW n \in Nodes,
         \/ StartTurn(n) \/ RecordTurn(n) \/ NextTurn(n) \/ Answer(n) \/ LoopAbort(n)
         \/ HostWaitExpires(n) \/ ContainerDies(n) \/ DeadlinePasses(n)
  PROVE  IInv'
<1> USE SubcallAssumption DEF IInv, TypeOK, Owned, NotYetRun, BelowCap, Quiet, LockHeld,
        SeenCurrent, Nodes, Phases, Stages, Enter, loopVars, budgetVars, callVars
<1>1. CASE StartTurn(n)
  BY <1>1 DEF StartTurn
<1>2. CASE RecordTurn(n)
  BY <1>2 DEF RecordTurn
<1>3. CASE NextTurn(n)
  BY <1>3 DEF NextTurn, Outstanding, CallsOf
<1>4. CASE Answer(n)
  BY <1>4 DEF Answer, Outstanding, CallsOf
<1>5. CASE LoopAbort(n)
  BY <1>5 DEF LoopAbort
<1>6. CASE HostWaitExpires(n)
  BY <1>6 DEF HostWaitExpires
<1>7. CASE ContainerDies(n)
  BY <1>7 DEF ContainerDies
<1>8. CASE DeadlinePasses(n)
  BY <1>8 DEF DeadlinePasses
<1> QED BY <1>1, <1>2, <1>3, <1>4, <1>5, <1>6, <1>7, <1>8

\* A cell makes a callback.
LEMMA SubmitStep ==
  ASSUME IInv, NEW n \in Nodes, NEW batch \in SUBSET Calls, NEW k \in {"leaf", "child"},
         Submit(n, batch, k)
  PROVE  IInv'
  BY SubcallAssumption
     DEF IInv, TypeOK, Owned, NotYetRun, BelowCap, Quiet, LockHeld, SeenCurrent, Nodes,
         Phases, Stages, loopVars, budgetVars, Submit

\* A step of a worker thread.
LEMMA WorkerStep ==
  ASSUME IInv, NEW c \in Calls, Worker(c)
  PROVE  IInv'
<1> USE SubcallAssumption DEF IInv, TypeOK, Owned, NotYetRun, BelowCap, Quiet, LockHeld,
        SeenCurrent, Nodes, Phases, Stages, Enter, Move, Return, Taken,
        loopVars, budgetVars, callVars
<1>1. CASE Refuse(c)
  BY <1>1 DEF Refuse
<1>2. CASE RefusePrompt(c)
  BY <1>2 DEF RefusePrompt
<1>3. CASE SendLeaf(c)
  BY <1>3 DEF SendLeaf
<1>4. CASE Reply(c)
  BY <1>4 DEF Reply
<1>5. CASE ReplyFails(c)
  BY <1>5 DEF ReplyFails
<1>6. CASE Acquire(c)
  BY <1>6 DEF Acquire
<1>7. CASE ChargeLeaf(c)
  BY <1>7 DEF ChargeLeaf
<1>8. CASE CheckChild(c)
  BY <1>8 DEF CheckChild
<1>9. CASE Inherit(c)
  BY <1>9 DEF Inherit, Remaining
<1>10. CASE LaunchRaises(c)
  BY <1>10 DEF LaunchRaises
<1>11. CASE ChildFails(c)
  BY <1>11 DEF ChildFails
<1>12. CASE ChildReturns(c)
  BY <1>12 DEF ChildReturns
<1>13. CASE FoldChild(c)
  BY <1>13 DEF FoldChild
<1> QED BY <1>1, <1>2, <1>3, <1>4, <1>5, <1>6, <1>7, <1>8, <1>9, <1>10, <1>11, <1>12,
           <1>13 DEF Worker

\* Every step keeps the discipline.
LEMMA NextIInv == IInv /\ [Next]_vars => IInv'
<1>1. CASE UNCHANGED vars
  BY <1>1 DEF vars, loopVars, budgetVars, callVars, IInv, TypeOK, Owned, NotYetRun,
              BelowCap, Quiet, LockHeld, SeenCurrent
<1>2. CASE Next
  BY <1>2, LoopStep, SubmitStep, WorkerStep DEF Next, Loop
<1> QED BY <1>1, <1>2

\* The accounting discipline holds in every session.
THEOREM Inductive == Spec => []IInv
  BY InitIInv, NextIInv, PTL DEF Spec

\* Every variable keeps its type, whatever the tree of calls.
THEOREM TypeCorrect == Spec => []TypeOK
  BY Inductive, PTL DEF IInv

\* The unlocked charge of the loop never meets a worker of the same runtime.
THEOREM LoopIsAlone == Spec => []LoopAlone
<1>1. IInv => LoopAlone
  BY DEF IInv, Quiet, LoopAlone, Outstanding, CallsOf, Nodes
<1> QED BY <1>1, Inductive, PTL

\* Only two kinds of step write an account: the loop of its runtime, in a
\* model phase, and the worker that holds its lock.  Neither lowers it.
LEMMA ChargeStep ==
  ASSUME IInv, [Next]_vars, NEW n \in Nodes
  PROVE  /\ spent'[n] >= spent[n]
         /\ run[n] = "answered" =>
              /\ spent'[n] = spent[n]
              /\ subcalls'[n] = subcalls[n]
              /\ iterations'[n] = iterations[n]
<1> USE DEF IInv, TypeOK, Quiet, SeenCurrent, Nodes, Enter, Move, Return,
            loopVars, budgetVars, callVars
<1>1. CASE UNCHANGED vars
  BY <1>1 DEF vars
<1>2. ASSUME NEW m \in Nodes,
             Loop(m) \/ HostWaitExpires(m) \/ ContainerDies(m) \/ DeadlinePasses(m)
      PROVE  /\ spent'[n] >= spent[n]
             /\ run[n] = "answered" =>
                  /\ spent'[n] = spent[n]
                  /\ subcalls'[n] = subcalls[n]
                  /\ iterations'[n] = iterations[n]
  <2>1. CASE RecordTurn(m)
    BY <2>1, SubcallAssumption DEF RecordTurn
  <2>2. CASE ~RecordTurn(m)
    BY <1>2, <2>2 DEF Loop, StartTurn, NextTurn, Answer, LoopAbort, HostWaitExpires,
                      ContainerDies, DeadlinePasses
  <2> QED BY <2>1, <2>2
<1>3. CASE \E m \in Nodes, batch \in SUBSET Calls, k \in {"leaf", "child"} :
             Submit(m, batch, k)
  BY <1>3 DEF Submit
<1>4. ASSUME NEW c \in Calls, Worker(c)
      PROVE  /\ spent'[n] >= spent[n]
             /\ run[n] = "answered" =>
                  /\ spent'[n] = spent[n]
                  /\ subcalls'[n] = subcalls[n]
                  /\ iterations'[n] = iterations[n]
  <2>1. CASE ChargeLeaf(c)
    BY <2>1 DEF ChargeLeaf
  <2>2. CASE FoldChild(c)
    BY <2>2 DEF FoldChild
  <2>3. CASE ~ChargeLeaf(c) /\ ~FoldChild(c)
    BY <1>4, <2>3 DEF Worker, Refuse, RefusePrompt, SendLeaf, Reply, ReplyFails, Acquire,
                      CheckChild, Inherit, LaunchRaises, ChildFails, ChildReturns
  <2> QED BY <2>1, <2>2, <2>3
<1> QED BY <1>1, <1>2, <1>3, <1>4 DEF Next

\* No account is ever lowered: no worker stores over another's charge.
THEOREM NoLostUpdate == Spec => SpentOnlyGrows
<1>1. IInv /\ [Next]_vars => [\A n \in Nodes : spent'[n] >= spent[n]]_vars
  BY ChargeStep
<1> QED BY <1>1, Inductive, PTL DEF Spec, SpentOnlyGrows

\* The usage a completed run reported is the usage its parent folds.
THEOREM FinalUsage == Spec => UsageIsFinal
<1>1. IInv /\ [Next]_vars =>
        [\A n \in Nodes : run[n] = "answered" =>
           /\ spent'[n] = spent[n]
           /\ subcalls'[n] = subcalls[n]
           /\ iterations'[n] = iterations[n]]_vars
  BY ChargeStep
<1> QED BY <1>1, Inductive, PTL DEF Spec, UsageIsFinal

------------------------------------------------------------------------------
\* A step of the session is, for each runtime, a step of its contract or none
\* of its business.  A call becomes a runtime when it inherits, in the phase
\* the contract begins with.
LEMMA ContractStep ==
  ASSUME IInv, [Next]_vars, NEW n \in Nodes
  PROVE  [Contract(n)!Next]_<<Phase(n), turns[n]>>
<1> USE DEF IInv, TypeOK, NotYetRun, Nodes, Phases, Enter, Move, Return, Phase,
            loopVars, budgetVars, callVars
<1>1. CASE UNCHANGED vars
  BY <1>1 DEF vars
<1>2. ASSUME NEW m \in Nodes,
             Loop(m) \/ HostWaitExpires(m) \/ ContainerDies(m) \/ DeadlinePasses(m)
      PROVE  [Contract(n)!Next]_<<Phase(n), turns[n]>>
  <2> USE DEF Contract!Next, Contract!Send, Contract!Act, Contract!Observe, Contract!Fail
  <2>1. CASE StartTurn(m)
    BY <2>1 DEF StartTurn
  <2>2. CASE RecordTurn(m)
    BY <2>2 DEF RecordTurn
  <2>3. CASE NextTurn(m) \/ Answer(m)
    BY <2>3 DEF NextTurn, Answer
  <2>4. CASE LoopAbort(m) \/ HostWaitExpires(m) \/ ContainerDies(m)
    BY <2>4 DEF LoopAbort, HostWaitExpires, ContainerDies
  <2>5. CASE DeadlinePasses(m)
    BY <2>5 DEF DeadlinePasses
  <2> QED BY <1>2, <2>1, <2>2, <2>3, <2>4, <2>5 DEF Loop
<1>3. CASE \E m \in Nodes, batch \in SUBSET Calls, k \in {"leaf", "child"} :
             Submit(m, batch, k)
  BY <1>3 DEF Submit
<1>4. ASSUME NEW c \in Calls, Worker(c)
      PROVE  [Contract(n)!Next]_<<Phase(n), turns[n]>>
  <2>1. CASE Inherit(c)
    BY <2>1 DEF Inherit
  <2>2. CASE ~Inherit(c)
    BY <1>4, <2>2 DEF Worker, Refuse, RefusePrompt, SendLeaf, Reply, ReplyFails, Acquire,
                      ChargeLeaf, CheckChild, LaunchRaises, ChildFails, ChildReturns,
                      FoldChild
  <2> QED BY <2>1, <2>2
<1> QED BY <1>1, <1>2, <1>3, <1>4 DEF Next

\* Every runtime of the tree implements LoopContract step by step.
THEOREM EachKeepsContract == Spec => AllKeepContract
<1>1. IInv /\ [Next]_vars =>
        [\A n \in Nodes : [Contract(n)!Next]_<<Phase(n), turns[n]>>]_vars
  BY ContractStep
<1> QED BY <1>1, Inductive, PTL DEF Spec, AllKeepContract

\* The session's root runtime, seen from completion(), is a LoopContract.
THEOREM RootImplements == Spec => Contract(Root)!Spec
<1>1. Init => Contract(Root)!Init
  BY DEF Init, Contract!Init, Phase, Nodes
<1>2. IInv /\ [Next]_vars => [Contract(Root)!Next]_(Contract(Root)!contractVars)
  BY ContractStep DEF Nodes, Contract!contractVars
<1> QED BY <1>1, <1>2, Inductive, PTL DEF Spec, Contract!Spec

------------------------------------------------------------------------------
(* Sums.  The sum of an account function over a finite set is the number   *)
(* of its units, so the laws of cardinality are the laws of sums.          *)

\* A set of numbers that is not empty has a least element.
LEMMA Least ==
  ASSUME NEW S, S \subseteq Nat, S # {}
  PROVE  \E n \in S : \A m \in S : ~(m < n)
<1>1. IsWellFoundedOn(OpToRel(<, Nat), Nat)
  BY NatLessThanWellFounded
<1>2. \E x \in S : \A y \in S : ~ (<<y, x>> \in OpToRel(<, Nat))
  BY <1>1, WFMin
<1> QED  BY <1>2 DEF OpToRel

\* The units of the accounts in S: an account of n has n of them.
Units(f, S) == {u \in S \X Nat : 1 =< u[2] /\ u[2] =< f[u[1]]}

\* The units of one number are as many as the number says.
LEMMA UnitsOfOne ==
  ASSUME NEW f, NEW x, f[x] \in Nat
  PROVE  IsFiniteSet(Units(f, {x})) /\ Cardinality(Units(f, {x})) = f[x]
<1> DEFINE g == [i \in 1 .. f[x] |-> <<x, i>>]
<1>1. Units(f, {x}) = {<<x, i>> : i \in 1 .. f[x]}
  BY DEF Units
<1>2. g \in Bijection(1 .. f[x], Units(f, {x}))
  <2>1. g \in [1 .. f[x] -> Units(f, {x})] /\ \A i \in 1 .. f[x] : g[i] = <<x, i>>
    BY <1>1
  <2>2. \A i, j \in 1 .. f[x] : g[i] = g[j] => i = j
    BY <2>1
  <2>3. \A u \in Units(f, {x}) : \E i \in 1 .. f[x] : g[i] = u
    BY <1>1, <2>1
  <2> HIDE DEF g
  <2> QED BY <2>1, <2>2, <2>3 DEF Bijection, Injection, Surjection, IsInjective
<1>3. ExistsBijection(1 .. f[x], Units(f, {x}))
  BY <1>2 DEF ExistsBijection
<1>4. IsFiniteSet(1 .. f[x]) /\ Cardinality(1 .. f[x]) = f[x]
  BY FS_Interval
<1> QED BY <1>3, <1>4, FS_Bijection

\* The units of finitely many numbers are finitely many.
LEMMA UnitsFinite ==
  ASSUME NEW f, NEW S, IsFiniteSet(S), \A x \in S : f[x] \in Nat
  PROVE  IsFiniteSet(Units(f, S))
<1> DEFINE T == {Units(f, {x}) : x \in S}
           g == [x \in S |-> Units(f, {x})]
<1>1. g \in Surjection(S, T)
  BY DEF Surjection
<1>2. IsFiniteSet(T)
  BY <1>1, FS_Surjection
<1>3. \A U \in T : IsFiniteSet(U)
  BY UnitsOfOne
<1>4. Units(f, S) = UNION T
  <2>1. \A u \in S \X Nat : u = <<u[1], u[2]>> /\ u[1] \in S
    OBVIOUS
  <2>2. \A x \in S : \A u :
          u \in Units(f, {x}) <=> u \in S \X Nat /\ u[1] = x /\ 1 =< u[2] /\ u[2] =< f[x]
    BY DEF Units
  <2> QED BY <2>1, <2>2 DEF Units
<1> HIDE DEF T
<1> QED BY <1>2, <1>3, <1>4, FS_UNION

\* The units of two sets of numbers add up.
LEMMA UnitsSplit ==
  ASSUME NEW f, NEW S, NEW T, IsFiniteSet(S), IsFiniteSet(T), S \cap T = {},
         \A x \in S \cup T : f[x] \in Nat
  PROVE  Cardinality(Units(f, S \cup T)) = Cardinality(Units(f, S)) + Cardinality(Units(f, T))
<1>1. Units(f, S \cup T) = Units(f, S) \cup Units(f, T)
  BY DEF Units
<1>2. Units(f, S) \cap Units(f, T) = {}
  BY DEF Units
<1>3. IsFiniteSet(Units(f, S)) /\ IsFiniteSet(Units(f, T))
  BY UnitsFinite
<1>4. Cardinality(Units(f, S)) \in Nat /\ Cardinality(Units(f, T)) \in Nat
  BY <1>3, FS_CardinalityType
<1>5. Cardinality(Units(f, S) \cup Units(f, T)) =
        Cardinality(Units(f, S)) + Cardinality(Units(f, T))
          - Cardinality(Units(f, S) \cap Units(f, T))
  BY <1>3, FS_Union
<1>6. Cardinality(Units(f, S) \cap Units(f, T)) = 0
  BY <1>2, FS_EmptySet
<1>7. Cardinality(Units(f, S \cup T)) = Cardinality(Units(f, S) \cup Units(f, T))
  BY <1>1
<1>8. \A a, b, c, d \in Nat : a = b + c - d /\ d = 0 => a = b + c
  OBVIOUS
<1>9. Cardinality(Units(f, S) \cup Units(f, T)) \in Nat
  BY <1>3, FS_Union, FS_CardinalityType
<1> QED BY <1>4, <1>5, <1>6, <1>7, <1>8, <1>9

\* What the fold of the library does, step by step.
Rest(f, g, T) == IF T = {} THEN 0 ELSE f[CHOOSE x \in T : TRUE] + g[T \ {CHOOSE x \in T : TRUE}]

\* The fold of the library as one equation.
LEMMA SumIs ==
  ASSUME NEW f, NEW S
  PROVE  SumFunctionOnSet(f, S) = (CHOOSE g : g = [T \in SUBSET S |-> Rest(f, g, T)])[S]
BY DEF SumFunctionOnSet, FoldFunctionOnSet, MapThenFoldSet, Rest

\* A sum is the number of its units.
LEMMA SumIsCount ==
  ASSUME NEW f, NEW S, IsFiniteSet(S), \A x \in S : f[x] \in Nat
  PROVE  SumFunctionOnSet(f, S) = Cardinality(Units(f, S))
<1> DEFINE Sol(g) == g = [T \in SUBSET S |-> Rest(f, g, T)]
           h == [T \in SUBSET S |-> Cardinality(Units(f, T))]
           sum == CHOOSE g : Sol(g)
<1>1. \A T \in SUBSET S : IsFiniteSet(T) /\ Cardinality(T) \in Nat
  BY FS_Subset, FS_CardinalityType
<1>2. Units(f, {}) = {} /\ Cardinality({}) = 0
  BY FS_EmptySet DEF Units
<1>3. \A T \in SUBSET S : \A x \in T :
        Cardinality(Units(f, T)) = f[x] + Cardinality(Units(f, T \ {x}))
  <2> SUFFICES ASSUME NEW T \in SUBSET S, NEW x \in T
               PROVE  Cardinality(Units(f, T)) = f[x] + Cardinality(Units(f, T \ {x}))
    OBVIOUS
  <2>1. T = {x} \cup (T \ {x}) /\ {x} \cap (T \ {x}) = {}
    OBVIOUS
  <2>2. IsFiniteSet({x}) /\ IsFiniteSet(T \ {x})
    BY <1>1, FS_Singleton
  <2>3. Cardinality(Units(f, {x} \cup (T \ {x}))) =
          Cardinality(Units(f, {x})) + Cardinality(Units(f, T \ {x}))
    BY <2>1, <2>2, UnitsSplit
  <2>4. Cardinality(Units(f, {x})) = f[x]
    BY UnitsOfOne
  <2> QED BY <2>1, <2>3, <2>4
<1>4. \A T \in SUBSET S : T # {} => (CHOOSE x \in T : TRUE) \in T
  OBVIOUS
<1>5. \A T \in SUBSET S : h[T] = Rest(f, h, T)
  <2> SUFFICES ASSUME NEW T \in SUBSET S PROVE h[T] = Rest(f, h, T)
    OBVIOUS
  <2>1. CASE T = {}
    BY <1>2, <2>1 DEF Rest
  <2>2. CASE T # {}
    <3>1. PICK x \in T : x = CHOOSE y \in T : TRUE
      BY <2>2
    <3>2. h[T] = f[x] + h[T \ {x}]
      BY <1>3
    <3> QED BY <2>2, <3>1, <3>2 DEF Rest
  <2> QED BY <2>1, <2>2
<1>6. Sol(h)
  BY <1>5
<1> HIDE DEF h
<1>7. Sol(sum)
  BY <1>6
<1>8. \A T \in SUBSET S : sum[T] = Rest(f, sum, T)
  BY <1>7
<1> HIDE DEF sum, Sol
<1>9. \A T \in SUBSET S : sum[T] = h[T]
  <2> DEFINE B == {T \in SUBSET S : sum[T] # h[T]}
             D == {Cardinality(T) : T \in B}
  <2> SUFFICES ASSUME B # {} PROVE FALSE
    OBVIOUS
  <2>1. D \subseteq Nat /\ D # {}
    BY <1>1
  <2>2. PICK n \in D : \A m \in D : ~(m < n)
    BY <2>1, Least
  <2>3. PICK T \in B : Cardinality(T) = n
    OBVIOUS
  <2>4. T # {}
    BY <1>5, <1>8 DEF Rest
  <2>5. PICK x \in T : x = CHOOSE y \in T : TRUE
    BY <2>4
  <2>6. T \ {x} \in SUBSET S /\ Cardinality(T \ {x}) = n - 1 /\ n \in Nat
    BY <1>1, <2>3, FS_RemoveElement
  <2>7. sum[T \ {x}] = h[T \ {x}]
    <3>1. n - 1 < n /\ (T \ {x} \in B => n - 1 \in D)
      BY <2>6
    <3> QED BY <2>2, <2>6, <3>1
  <2>8. sum[T] = h[T]
    <3>1. sum[T] = f[x] + sum[T \ {x}]
      BY <1>8, <2>4, <2>5 DEF Rest
    <3>2. h[T] = f[x] + h[T \ {x}]
      BY <1>5, <2>4, <2>5 DEF Rest
    <3> QED BY <2>7, <3>1, <3>2
  <2> QED BY <2>8
<1>10. SumFunctionOnSet(f, S) = sum[S]
  BY SumIs DEF sum, Sol
<1> QED BY <1>9, <1>10 DEF h

\* A sum of naturals is a natural.
LEMMA SumType ==
  ASSUME NEW f, NEW S, IsFiniteSet(S), \A x \in S : f[x] \in Nat
  PROVE  SumFunctionOnSet(f, S) \in Nat
BY SumIsCount, UnitsFinite, FS_CardinalityType

\* Functions that agree on a set have the same sum over it.
LEMMA SumSame ==
  ASSUME NEW f, NEW g, NEW S, IsFiniteSet(S), \A x \in S : f[x] \in Nat,
         \A x \in S : g[x] = f[x]
  PROVE  SumFunctionOnSet(g, S) = SumFunctionOnSet(f, S)
<1>1. Units(g, S) = Units(f, S)
  BY DEF Units
<1> QED BY <1>1, SumIsCount

\* One more account.
LEMMA SumAdd ==
  ASSUME NEW f, NEW S, NEW x, IsFiniteSet(S), x \notin S, \A y \in S \cup {x} : f[y] \in Nat
  PROVE  SumFunctionOnSet(f, S \cup {x}) = SumFunctionOnSet(f, S) + f[x]
<1>1. IsFiniteSet({x}) /\ IsFiniteSet(S \cup {x})
  BY FS_Singleton, FS_AddElement
<1>2. Cardinality(Units(f, S \cup {x})) = Cardinality(Units(f, S)) + Cardinality(Units(f, {x}))
  BY <1>1, UnitsSplit
<1>3. Cardinality(Units(f, {x})) = f[x]
  BY UnitsOfOne
<1>4. SumFunctionOnSet(f, S \cup {x}) = Cardinality(Units(f, S \cup {x}))
  BY <1>1, SumIsCount
<1>5. SumFunctionOnSet(f, S) = Cardinality(Units(f, S))
  BY SumIsCount
<1> QED BY <1>2, <1>3, <1>4, <1>5

\* One account less.
LEMMA SumRemove ==
  ASSUME NEW f, NEW S, NEW x \in S, IsFiniteSet(S), \A y \in S : f[y] \in Nat
  PROVE  SumFunctionOnSet(f, S) = SumFunctionOnSet(f, S \ {x}) + f[x]
<1>1. S = (S \ {x}) \cup {x} /\ IsFiniteSet(S \ {x})
  BY FS_Subset
<1>2. SumFunctionOnSet(f, (S \ {x}) \cup {x}) = SumFunctionOnSet(f, S \ {x}) + f[x]
  BY <1>1, SumAdd
<1> QED BY <1>1, <1>2

\* One account charged.
LEMMA SumCharge ==
  ASSUME NEW f, NEW g, NEW S, NEW x \in S, NEW d \in Nat, IsFiniteSet(S),
         \A y \in S : f[y] \in Nat, g[x] = f[x] + d, \A y \in S : y # x => g[y] = f[y]
  PROVE  SumFunctionOnSet(g, S) = SumFunctionOnSet(f, S) + d
<1>1. \A y \in S : g[y] \in Nat
  OBVIOUS
<1>2. IsFiniteSet(S \ {x})
  BY FS_Subset
<1>3. SumFunctionOnSet(g, S \ {x}) = SumFunctionOnSet(f, S \ {x})
  BY <1>2, SumSame
<1>4. SumFunctionOnSet(f, S \ {x}) \in Nat
  BY <1>2, SumType
<1>5. SumFunctionOnSet(g, S) = SumFunctionOnSet(g, S \ {x}) + g[x]
  BY <1>1, SumRemove
<1>6. SumFunctionOnSet(f, S) = SumFunctionOnSet(f, S \ {x}) + f[x]
  BY SumRemove
<1>7. f[x] \in Nat
  OBVIOUS
<1> QED BY <1>3, <1>4, <1>5, <1>6, <1>7

------------------------------------------------------------------------------
(* Conservation.  It is inductive with what the stage of a call says of its *)
(* kind and of its run: an answered child is folded before the call is done.*)

Settled == \A c \in Calls :
  /\ stage[c] \in {"sent", "replied"} => kind[c] = "leaf"
  /\ stage[c] \in {"checked", "running", "folding"} => kind[c] = "child"
  /\ stage[c] = "folding" => run[c] = "answered"
  /\ stage[c] = "locked" => run[c] = IF kind[c] = "child" THEN "answered" ELSE "none"
  /\ run[c] \in {"turn", "model", "cell"} => stage[c] = "running"

Account == IInv /\ Settled /\ Conservation

\* Nothing is spent and nothing is held at the start.
LEMMA InitAccount == Init => Account
<1> SUFFICES ASSUME Init PROVE Settled /\ Conservation
  BY InitIInv DEF Account
<1> USE SubcallAssumption DEF Init, Nodes
<1>1. Settled
  BY DEF Settled
<1>2. Uncharged = {} /\ Unfolded = Nodes
  BY DEF Uncharged, Unfolded, Folded
<1>3. \A n \in Nodes : spent[n] = 0
  OBVIOUS
<1>4. IsFiniteSet(Nodes) /\ IsFiniteSet({})
  BY FS_Singleton, FS_Union, FS_EmptySet
<1>5. Units(spent, Nodes) = {} /\ Units(bill, {}) = {}
  BY <1>3 DEF Units
<1>6. SumFunctionOnSet(spent, Nodes) = 0 /\ SumFunctionOnSet(bill, {}) = 0
  BY <1>3, <1>4, <1>5, SumIsCount, FS_EmptySet
<1> QED BY <1>1, <1>2, <1>6 DEF Conservation

\* Each step keeps what the stage of a call says of its kind and its run.
LEMMA SettledStep ==
  ASSUME IInv, Settled, [Next]_vars
  PROVE  Settled'
<1> USE SubcallAssumption DEF IInv, TypeOK, NotYetRun, Settled, Nodes, Phases, Stages,
        Enter, Move, Return, Taken, loopVars, budgetVars, callVars
<1>1. CASE UNCHANGED vars
  BY <1>1 DEF vars
<1>2. ASSUME NEW n \in Nodes,
             Loop(n) \/ HostWaitExpires(n) \/ ContainerDies(n) \/ DeadlinePasses(n)
      PROVE  Settled'
  <2>1. CASE StartTurn(n)
    BY <2>1 DEF StartTurn
  <2>2. CASE RecordTurn(n)
    BY <2>2 DEF RecordTurn
  <2>3. CASE NextTurn(n)
    BY <2>3 DEF NextTurn
  <2>4. CASE Answer(n)
    BY <2>4 DEF Answer
  <2>5. CASE LoopAbort(n)
    BY <2>5 DEF LoopAbort
  <2>6. CASE HostWaitExpires(n) \/ ContainerDies(n)
    BY <2>6 DEF HostWaitExpires, ContainerDies
  <2>7. CASE DeadlinePasses(n)
    BY <2>7 DEF DeadlinePasses
  <2> QED BY <1>2, <2>1, <2>2, <2>3, <2>4, <2>5, <2>6, <2>7 DEF Loop
<1>3. ASSUME NEW n \in Nodes, NEW batch \in SUBSET Calls, NEW k \in {"leaf", "child"},
             Submit(n, batch, k)
      PROVE  Settled'
  BY <1>3 DEF Submit
<1>4. ASSUME NEW c \in Calls, Worker(c)
      PROVE  Settled'
  <2>1. CASE Refuse(c) \/ RefusePrompt(c) \/ ReplyFails(c)
    BY <2>1 DEF Refuse, RefusePrompt, ReplyFails
  <2>2. CASE SendLeaf(c)
    BY <2>2 DEF SendLeaf
  <2>3. CASE Reply(c)
    BY <2>3 DEF Reply
  <2>4. CASE Acquire(c)
    BY <2>4 DEF Acquire
  <2>5. CASE ChargeLeaf(c)
    BY <2>5 DEF ChargeLeaf
  <2>6. CASE CheckChild(c)
    BY <2>6 DEF CheckChild
  <2>7. CASE Inherit(c)
    BY <2>7 DEF Inherit
  <2>8. CASE LaunchRaises(c)
    BY <2>8 DEF LaunchRaises
  <2>9. CASE ChildFails(c)
    BY <2>9 DEF ChildFails
  <2>10. CASE ChildReturns(c)
    BY <2>10 DEF ChildReturns
  <2>11. CASE FoldChild(c)
    BY <2>11 DEF FoldChild
  <2> QED BY <1>4, <2>1, <2>2, <2>3, <2>4, <2>5, <2>6, <2>7, <2>8, <2>9, <2>10, <2>11
          DEF Worker
<1> QED BY <1>1, <1>2, <1>3, <1>4 DEF Next

\* The accounts that are summed are finitely many, and each holds a number.
LEMMA Summable ==
  ASSUME IInv
  PROVE  /\ IsFiniteSet(Unfolded) /\ IsFiniteSet(Uncharged)
         /\ Unfolded \subseteq Nodes /\ Uncharged \subseteq Calls
         /\ \A n \in Nodes : spent[n] \in Nat
         /\ \A c \in Calls : bill[c] \in Nat
         /\ billed \in Nat
<1>1. IsFiniteSet(Calls) /\ IsFiniteSet(Nodes)
  BY SubcallAssumption, FS_Singleton, FS_Union DEF Nodes
<1>2. Unfolded \subseteq Nodes /\ Uncharged \subseteq Calls
  BY DEF Unfolded, Uncharged, Nodes
<1>3. IsFiniteSet(Unfolded) /\ IsFiniteSet(Uncharged)
  BY <1>1, <1>2, FS_Subset
<1> QED BY <1>2, <1>3 DEF IInv, TypeOK

\* A step that moves no money and keeps the sets that are summed.
LEMMA Idle ==
  ASSUME Conservation, UNCHANGED <<spent, bill, billed>>,
         Unfolded' = Unfolded, Uncharged' = Uncharged
  PROVE  Conservation'
<1>1. Conservation' <=>
        billed' = SumFunctionOnSet(spent', Unfolded') + SumFunctionOnSet(bill', Uncharged')
  BY DEF Conservation
<1> QED BY <1>1 DEF Conservation

\* The loop charges its completion to an account that is not folded yet.
LEMMA RecordTurnConserves ==
  ASSUME Account, NEW n \in Nodes, RecordTurn(n)
  PROVE  Conservation'
<1> USE SubcallAssumption DEF Account
<1>1. PICK cost \in Costs : spent' = [spent EXCEPT ![n] = @ + cost] /\ billed' = billed + cost
  BY DEF RecordTurn
<1>2. cost \in Nat
  OBVIOUS
<1>3. Uncharged' = Uncharged /\ bill' = bill
  BY DEF RecordTurn, callVars, Uncharged
<1>4. Unfolded' = Unfolded /\ n \in Unfolded
  BY DEF RecordTurn, callVars, Enter, Unfolded, Folded, IInv, TypeOK, Nodes
<1>5. spent'[n] = spent[n] + cost /\ \A m \in Unfolded : m # n => spent'[m] = spent[m]
  BY <1>1, Summable DEF IInv, TypeOK
<1> DEFINE now == spent'
<1>6. now[n] = spent[n] + cost /\ \A m \in Unfolded : m # n => now[m] = spent[m]
  BY <1>5
<1>7. \A m \in Unfolded : spent[m] \in Nat
  BY Summable
<1>8. IsFiniteSet(Unfolded)
  BY Summable
<1> HIDE DEF now
<1>9. SumFunctionOnSet(now, Unfolded) = SumFunctionOnSet(spent, Unfolded) + cost
  BY <1>2, <1>4, <1>6, <1>7, <1>8, SumCharge
<1>10. SumFunctionOnSet(spent, Unfolded) \in Nat /\ SumFunctionOnSet(bill, Uncharged) \in Nat
  BY Summable, SumType
<1>11. billed' = SumFunctionOnSet(now, Unfolded) + SumFunctionOnSet(bill, Uncharged)
  BY <1>1, <1>2, <1>9, <1>10 DEF Conservation
<1> QED BY <1>3, <1>4, <1>11 DEF Conservation, now

\* A completion that arrives is in the hands of the worker.
LEMMA ReplyConserves ==
  ASSUME Account, NEW c \in Calls, Reply(c)
  PROVE  Conservation'
<1> USE SubcallAssumption DEF Account
<1>1. PICK cost \in Costs : bill' = [bill EXCEPT ![c] = cost] /\ billed' = billed + cost
  BY DEF Reply
<1>2. cost \in Nat
  OBVIOUS
<1>3. Unfolded' = Unfolded /\ spent' = spent
  BY DEF Reply, Move, loopVars, budgetVars, Unfolded, Folded, IInv, TypeOK
<1>4. c \notin Uncharged /\ Uncharged' = Uncharged \cup {c}
  BY DEF Reply, Move, Uncharged, IInv, TypeOK, Settled
<1> DEFINE held == bill'
<1>5. /\ held[c] = cost /\ \A x \in Uncharged : held[x] = bill[x]
      /\ \A x \in Uncharged \cup {c} : held[x] \in Nat
  BY <1>1, <1>2, <1>4, Summable DEF IInv, TypeOK
<1>6. IsFiniteSet(Uncharged) /\ \A x \in Uncharged : bill[x] \in Nat
  BY Summable
<1> HIDE DEF held
<1>7. SumFunctionOnSet(held, Uncharged) = SumFunctionOnSet(bill, Uncharged)
  BY <1>5, <1>6, SumSame
<1>8. SumFunctionOnSet(held, Uncharged \cup {c}) = SumFunctionOnSet(held, Uncharged) + held[c]
  BY <1>4, <1>5, <1>6, SumAdd
<1>9. SumFunctionOnSet(spent, Unfolded) \in Nat /\ SumFunctionOnSet(bill, Uncharged) \in Nat
  BY Summable, SumType
<1>10. billed' = SumFunctionOnSet(spent, Unfolded) + SumFunctionOnSet(held, Uncharged \cup {c})
  BY <1>1, <1>2, <1>5, <1>7, <1>8, <1>9 DEF Conservation
<1> QED BY <1>3, <1>4, <1>10 DEF Conservation, held

\* The worker hands it to the account of the runtime that made the call.
LEMMA ChargeLeafConserves ==
  ASSUME Account, NEW c \in Calls, ChargeLeaf(c)
  PROVE  Conservation'
<1> USE SubcallAssumption DEF Account
<1> DEFINE n == owner[c]
<1>1. n \in Nodes /\ run[n] \in {"cell", "failed"}
  BY DEF ChargeLeaf, IInv, TypeOK, Owned, Quiet
<1>2. spent' = [spent EXCEPT ![n] = spent[n] + bill[c]]
  BY DEF ChargeLeaf, IInv, SeenCurrent
<1>3. Unfolded' = Unfolded /\ n \in Unfolded
  <2>1. \A x \in Calls : Folded(x)' <=> Folded(x)
    BY DEF ChargeLeaf, Return, Move, loopVars, Folded, IInv, TypeOK, Settled
  <2> QED BY <1>1, <2>1 DEF Unfolded, Folded, Nodes
<1>4. c \in Uncharged /\ Uncharged' = Uncharged \ {c} /\ bill' = bill /\ billed' = billed
  BY DEF ChargeLeaf, Return, Move, Uncharged, IInv, TypeOK
<1> DEFINE now == spent'
<1>5. now[n] = spent[n] + bill[c] /\ \A m \in Unfolded : m # n => now[m] = spent[m]
  BY <1>1, <1>2, Summable DEF IInv, TypeOK
<1>6. bill[c] \in Nat /\ IsFiniteSet(Unfolded) /\ \A m \in Unfolded : spent[m] \in Nat
  BY Summable
<1>7. IsFiniteSet(Uncharged) /\ \A x \in Uncharged : bill[x] \in Nat
  BY Summable
<1> HIDE DEF now, n
<1>8. SumFunctionOnSet(now, Unfolded) = SumFunctionOnSet(spent, Unfolded) + bill[c]
  BY <1>3, <1>5, <1>6, SumCharge
<1>9. SumFunctionOnSet(bill, Uncharged) = SumFunctionOnSet(bill, Uncharged \ {c}) + bill[c]
  BY <1>4, <1>7, SumRemove
<1>10. IsFiniteSet(Uncharged \ {c})
  BY <1>7, FS_Subset
<1>11. /\ SumFunctionOnSet(spent, Unfolded) \in Nat
       /\ SumFunctionOnSet(bill, Uncharged \ {c}) \in Nat
  BY <1>6, <1>7, <1>10, SumType
<1>12. billed = SumFunctionOnSet(now, Unfolded) + SumFunctionOnSet(bill, Uncharged \ {c})
  BY <1>6, <1>8, <1>9, <1>11 DEF Conservation
<1> QED BY <1>3, <1>4, <1>12 DEF Conservation, now

\* The account of an answered child leaves the sum as its parent takes it over.
LEMMA FoldChildConserves ==
  ASSUME Account, NEW c \in Calls, FoldChild(c)
  PROVE  Conservation'
<1> USE SubcallAssumption DEF Account
<1> DEFINE n == owner[c]
<1>1. n \in Nodes /\ run[n] \in {"cell", "failed"} /\ run[c] = "answered" /\ n # c
  BY DEF FoldChild, IInv, TypeOK, Owned, Quiet, Settled
<1>2. spent' = [spent EXCEPT ![n] = spent[n] + spent[c]]
  BY DEF FoldChild, IInv, SeenCurrent
<1>3. c \in Unfolded /\ Unfolded' = Unfolded \ {c} /\ n \in Unfolded \ {c}
  <2>1. \A x \in Calls : Folded(x)' <=> Folded(x) \/ x = c
    BY <1>1 DEF FoldChild, Return, Move, loopVars, Folded, IInv, TypeOK
  <2>2. ~Folded(c) /\ (n \in Calls => ~Folded(n)) /\ c # Root
    BY <1>1 DEF FoldChild, Folded
  <2> QED BY <1>1, <2>1, <2>2 DEF Unfolded, Nodes
<1>4. Uncharged' = Uncharged /\ bill' = bill /\ billed' = billed
  BY DEF FoldChild, Return, Move, Uncharged, IInv, TypeOK
<1> DEFINE now == spent'
           rest == Unfolded \ {c}
<1>5. now[n] = spent[n] + spent[c] /\ \A m \in rest : m # n => now[m] = spent[m]
  BY <1>1, <1>2, Summable DEF IInv, TypeOK
<1>6. spent[c] \in Nat /\ IsFiniteSet(Unfolded) /\ \A m \in Unfolded : spent[m] \in Nat
  BY <1>3, Summable
<1>7. IsFiniteSet(rest) /\ (\A m \in rest : spent[m] \in Nat) /\ n \in rest
  BY <1>3, <1>6, FS_Subset
<1>8. IsFiniteSet(Uncharged) /\ \A x \in Uncharged : bill[x] \in Nat
  BY Summable
<1>9. SumFunctionOnSet(spent, Unfolded) = SumFunctionOnSet(spent, rest) + spent[c]
  BY <1>3, <1>6, SumRemove
<1> HIDE DEF now, n, rest
<1>10. SumFunctionOnSet(now, rest) = SumFunctionOnSet(spent, rest) + spent[c]
  BY <1>5, <1>6, <1>7, SumCharge
<1>11. SumFunctionOnSet(bill, Uncharged) \in Nat
  BY <1>8, SumType
<1>12. billed = SumFunctionOnSet(now, rest) + SumFunctionOnSet(bill, Uncharged)
  BY <1>9, <1>10 DEF Conservation
<1> QED BY <1>3, <1>4, <1>12 DEF Conservation, now, rest

\* Every other step moves no money.
LEMMA ConservationStep ==
  ASSUME Account, [Next]_vars
  PROVE  Conservation'
<1> USE SubcallAssumption DEF Account
<1>1. CASE UNCHANGED vars
  BY <1>1, Idle DEF vars, loopVars, budgetVars, callVars, Unfolded, Folded, Uncharged
<1>2. ASSUME NEW n \in Nodes,
             Loop(n) \/ HostWaitExpires(n) \/ ContainerDies(n) \/ DeadlinePasses(n)
      PROVE  Conservation'
  <2> USE DEF Enter, callVars, budgetVars
  <2>1. CASE RecordTurn(n)
    BY <2>1, RecordTurnConserves
  <2>2. CASE ~RecordTurn(n)
    <3>1. UNCHANGED <<spent, bill, billed, stage, kind>>
      BY <1>2, <2>2 DEF Loop, StartTurn, NextTurn, Answer, LoopAbort, HostWaitExpires,
                        ContainerDies, DeadlinePasses
    <3>2. \A x \in Calls : stage[x] = "done" => run'[x] = run[x]
      <4>1. \A x \in Calls : stage[x] = "done" => run[x] \notin {"turn", "model", "cell"}
        BY DEF Settled
      <4>2. run[n] \in {"turn", "model", "cell"} \/ run' = run
        BY <1>2, <2>2 DEF Loop, StartTurn, NextTurn, Answer, LoopAbort, HostWaitExpires,
                          ContainerDies, DeadlinePasses, loopVars
      <4>3. \A x \in Calls : x # n => run'[x] = run[x]
        <5>1. run' = run \/ \E p \in Phases : run' = [run EXCEPT ![n] = p]
          BY <1>2, <2>2 DEF Loop, StartTurn, NextTurn, Answer, LoopAbort, HostWaitExpires,
                            ContainerDies, DeadlinePasses, loopVars, Phases
        <5> QED BY <5>1 DEF IInv, TypeOK, Nodes
      <4> QED BY <4>1, <4>2, <4>3
    <3>3. Unfolded' = Unfolded /\ Uncharged' = Uncharged
      BY <3>1, <3>2 DEF Unfolded, Folded, Uncharged
    <3> QED BY <3>1, <3>3, Idle
  <2> QED BY <2>1, <2>2
<1>3. ASSUME NEW n \in Nodes, NEW batch \in SUBSET Calls, NEW k \in {"leaf", "child"},
             Submit(n, batch, k)
      PROVE  Conservation'
  <2>1. UNCHANGED <<spent, bill, billed, run>>
    BY <1>3 DEF Submit, loopVars, budgetVars
  <2>2. Unfolded' = Unfolded
    BY <1>3, <2>1 DEF Submit, Unfolded, Folded
  <2>3. Uncharged' = Uncharged
    BY <1>3 DEF Submit, Uncharged
  <2> QED BY <2>1, <2>2, <2>3, Idle
<1>4. ASSUME NEW c \in Calls, Worker(c)
      PROVE  Conservation'
  <2>1. CASE Reply(c)
    BY <2>1, ReplyConserves
  <2>2. CASE ChargeLeaf(c)
    BY <2>2, ChargeLeafConserves
  <2>3. CASE FoldChild(c)
    BY <2>3, FoldChildConserves
  <2>4. CASE ~Reply(c) /\ ~ChargeLeaf(c) /\ ~FoldChild(c)
    <3> USE DEF Move, Return, Enter, loopVars, budgetVars, callVars
    <3>1. UNCHANGED <<spent, bill, billed>>
      BY <1>4, <2>4 DEF Worker, Refuse, RefusePrompt, SendLeaf, ReplyFails, Acquire,
                        CheckChild, Inherit, LaunchRaises, ChildFails, ChildReturns
    <3>2. Uncharged' = Uncharged
      BY <1>4, <2>4 DEF Worker, Refuse, RefusePrompt, SendLeaf, ReplyFails, Acquire,
                        CheckChild, Inherit, LaunchRaises, ChildFails, ChildReturns,
                        Taken, Uncharged, IInv, TypeOK, Settled
    <3>3. Unfolded' = Unfolded
      <4>1. \A x \in Calls : Folded(x)' <=> Folded(x)
        <5> USE DEF Taken, Folded, IInv, TypeOK, Settled, NotYetRun, Nodes
        <5>1. CASE Refuse(c) \/ RefusePrompt(c) \/ ReplyFails(c) \/ LaunchRaises(c)
          BY <5>1 DEF Refuse, RefusePrompt, ReplyFails, LaunchRaises
        <5>2. CASE SendLeaf(c) \/ Acquire(c) \/ CheckChild(c) \/ ChildReturns(c)
          BY <5>2 DEF SendLeaf, Acquire, CheckChild, ChildReturns
        <5>3. CASE Inherit(c)
          BY <5>3 DEF Inherit
        <5>4. CASE ChildFails(c)
          BY <5>4 DEF ChildFails
        <5> QED BY <1>4, <2>4, <5>1, <5>2, <5>3, <5>4 DEF Worker
      <4> QED BY <4>1 DEF Unfolded
    <3> QED BY <3>1, <3>2, <3>3, Idle
  <2> QED BY <2>1, <2>2, <2>3, <2>4
<1> QED BY <1>1, <1>2, <1>3, <1>4 DEF Next

\* No money of a session is lost or counted twice: what its completions cost
\* is in one account, or held by the worker about to charge it.
THEOREM NoMoneyLost == Spec => []Conservation
<1>1. Account /\ [Next]_vars => Account'
  BY NextIInv, SettledStep, ConservationStep DEF Account
<1>2. Account => Conservation
  BY DEF Account
<1> QED BY InitAccount, <1>1, <1>2, PTL DEF Spec

------------------------------------------------------------------------------
(* The bound on overspending.  A call that has passed budget.check is a     *)
(* claim on its runtime's account: what it can still add to it.  What is    *)
(* spent and what is claimed stay within the limit together: a claim made   *)
(* below the cap fits beside the claims of the other workers of the pool.   *)

\* The most a completion costs.
Dearest == CHOOSE m \in Costs : \A k \in Costs : k =< m

Claim == [c \in Calls |->
  IF kind[c] = "leaf" THEN Dearest
  ELSE IF stage[c] = "checked"
    THEN Limit(MaxDepth - (depth[owner[c]] + 1), Remaining(owner[c]), Dearest)
    ELSE Limit(MaxDepth - depth[c], cap[c], Dearest)]

Claimants(n) == {c \in Calls : owner[c] = n /\ stage[c] \notin {"free", "queued", "done"}}

Fits(n) ==
  /\ run[n] = "none" => spent[n] = 0
  /\ run[n] = "model" => spent[n] < cap[n]
  /\ run[n] # "none" =>
       spent[n] + SumFunctionOnSet(Claim, Claimants(n))
         =< Limit(MaxDepth - depth[n], cap[n], Dearest)

\* What a claim stands for is what will be charged or folded.
Claimed(c) ==
  /\ kind[c] = "leaf" /\ stage[c] \in {"replied", "locked"} => bill[c] =< Dearest
  /\ kind[c] = "child" /\ stage[c] \in {"running", "folding", "locked"} =>
       depth[c] = depth[owner[c]] + 1 /\ cap[c] =< cap[owner[c]]

Bounded == (\A n \in Nodes : Fits(n)) /\ (\A c \in Calls : Claimed(c))

------------------------------------------------------------------------------
(* The laws of Power and Limit.                                             *)

\* The table of powers of b up to e.
Powers(b, e, p) == p = [i \in 0 .. e |-> IF i = 0 THEN 1 ELSE b * p[i - 1]]

\* The recursion behind Power has a solution.
LEMMA PowersExist ==
  ASSUME NEW b \in Nat, NEW e \in Nat
  PROVE  \E p : Powers(b, e, p)
<1> DEFINE B == {k \in Nat : ~ \E p : Powers(b, k, p)}
<1>1. SUFFICES ASSUME B # {} PROVE FALSE
  OBVIOUS
<1>2. PICK k \in B : \A m \in B : ~(m < k)
  BY <1>1, Least
<1>3. k # 0
  <2>1. Powers(b, 0, [i \in 0 .. 0 |-> 1])
    BY DEF Powers
  <2> QED BY <2>1
<1>4. k - 1 \in Nat /\ k - 1 \notin B
  BY <1>2, <1>3
<1>5. PICK p : Powers(b, k - 1, p)
  BY <1>4
<1> DEFINE q == [i \in 0 .. k |-> IF i = k THEN b * p[k - 1] ELSE p[i]]
<1>6. \A i \in 0 .. k : q[i] = IF i = 0 THEN 1 ELSE b * q[i - 1]
  <2> SUFFICES ASSUME NEW i \in 0 .. k PROVE q[i] = IF i = 0 THEN 1 ELSE b * q[i - 1]
    OBVIOUS
  <2>1. CASE i = k
    BY <1>3, <1>4, <2>1
  <2>2. CASE i # k
    <3>1. i \in 0 .. (k - 1) /\ p[i] = IF i = 0 THEN 1 ELSE b * p[i - 1]
      BY <1>4, <1>5, <2>2 DEF Powers
    <3>2. i # 0 => i - 1 \in 0 .. k /\ i - 1 # k
      BY <2>2
    <3> QED BY <2>2, <3>1, <3>2
  <2> QED BY <2>1, <2>2
<1>7. Powers(b, k, q)
  <2>1. q = [i \in 0 .. k |-> q[i]]
    OBVIOUS
  <2> HIDE DEF q
  <2> QED BY <1>6, <2>1 DEF Powers
<1> QED BY <1>2, <1>7

\* Solutions agree where both are defined.
LEMMA PowersAgree ==
  ASSUME NEW b \in Nat, NEW d \in Nat, NEW e \in Nat, NEW p, NEW q,
         Powers(b, d, p), Powers(b, e, q), d =< e
  PROVE  \A i \in 0 .. d : p[i] = q[i]
<1>1. \A i \in 0 .. d : p[i] = IF i = 0 THEN 1 ELSE b * p[i - 1]
  BY DEF Powers
<1>2. \A i \in 0 .. e : q[i] = IF i = 0 THEN 1 ELSE b * q[i - 1]
  BY DEF Powers
<1> DEFINE B == {k \in 0 .. d : p[k] # q[k]}
<1>3. SUFFICES ASSUME B # {} PROVE FALSE
  OBVIOUS
<1>4. PICK k \in B : \A m \in B : ~(m < k)
  <2>1. B \subseteq Nat
    OBVIOUS
  <2> HIDE DEF B
  <2> QED BY <1>3, <2>1, Least
<1>5. k # 0
  BY <1>1, <1>2
<1>6. k - 1 \in 0 .. d /\ k - 1 \notin B
  BY <1>4, <1>5
<1>7. p[k - 1] = q[k - 1]
  BY <1>6
<1> QED BY <1>1, <1>2, <1>5, <1>7

\* So Power is repeated multiplication.
LEMMA PowerLaws ==
  ASSUME NEW b \in Nat \ {0}
  PROVE  /\ Power(b, 0) = 1
         /\ \A e \in Nat : Power(b, e + 1) = b * Power(b, e)
<1> DEFINE P(e) == CHOOSE p : Powers(b, e, p)
<1>1. \A e \in Nat : Powers(b, e, P(e)) /\ Power(b, e) = P(e)[e]
  BY PowersExist DEF Powers, Power
<1> HIDE DEF P
<1>2. Power(b, 0) = 1
  BY <1>1 DEF Powers
<1>3. ASSUME NEW e \in Nat PROVE Power(b, e + 1) = b * Power(b, e)
  <2>1. Power(b, e + 1) = b * P(e + 1)[e]
    BY <1>1 DEF Powers
  <2>2. P(e)[e] = P(e + 1)[e]
    BY <1>1, PowersAgree
  <2> QED BY <1>1, <2>1, <2>2
<1> QED BY <1>2, <1>3

\* A power of a positive number is positive.
LEMMA PowerType ==
  ASSUME NEW b \in Nat \ {0}, NEW e \in Nat
  PROVE  Power(b, e) \in Nat \ {0}
<1> DEFINE B == {k \in Nat : Power(b, k) \notin Nat \ {0}}
<1>1. SUFFICES ASSUME B # {} PROVE FALSE
  OBVIOUS
<1>2. PICK k \in B : \A m \in B : ~(m < k)
  BY <1>1, Least
<1>3. k # 0
  BY PowerLaws
<1>4. k - 1 \in Nat /\ k - 1 \notin B /\ k = (k - 1) + 1
  BY <1>2, <1>3
<1>5. Power(b, k) = b * Power(b, k - 1)
  BY <1>4, PowerLaws
<1>6. \A x, y \in Nat \ {0} : x * y \in Nat \ {0}
  OBVIOUS
<1> QED BY <1>4, <1>5, <1>6

\* Products of naturals.
LEMMA Times ==
  ASSUME NEW a \in Nat \ {0}, NEW x \in Nat, NEW y \in Nat
  PROVE  /\ a * x \in Nat /\ a * x >= x
         /\ x =< y => a * x =< a * y
         /\ a * (x + y) = a * x + a * y
OBVIOUS

\* With a cap of r, what is left of the limit when r - 1 is spent.
LEMMA LimitIs ==
  ASSUME NEW d \in Nat, NEW r \in Nat \ {0}, NEW m \in Nat
  PROVE  /\ MaxConcurrent * m \in Nat /\ MaxConcurrent * m >= m
         /\ Power(MaxConcurrent, d) \in Nat \ {0}
         /\ Limit(d, r, m) = Power(MaxConcurrent, d) * (r - 1 + MaxConcurrent * m)
         /\ r - 1 + MaxConcurrent * m \in Nat
         /\ Limit(d, r, m) \in Nat
<1>1. MaxConcurrent * m \in Nat /\ MaxConcurrent * m >= m
  BY SubcallAssumption, Times
<1>2. Power(MaxConcurrent, d) \in Nat \ {0}
  BY SubcallAssumption, PowerType
<1>3. r - 1 + MaxConcurrent * m \in Nat
  BY <1>1
<1>4. Limit(d, r, m) = Power(MaxConcurrent, d) * (r - 1 + MaxConcurrent * m)
  BY DEF Limit
<1> QED BY <1>1, <1>2, <1>3, <1>4, Times

\* A limit is a natural.
LEMMA LimitType ==
  ASSUME NEW d \in Nat, NEW r \in Nat, NEW m \in Nat
  PROVE  Limit(d, r, m) \in Nat
<1>1. CASE r = 0
  BY <1>1 DEF Limit
<1>2. CASE r # 0
  BY <1>2, LimitIs
<1> QED BY <1>1, <1>2

\* A larger cap has a larger limit.
LEMMA LimitGrows ==
  ASSUME NEW d \in Nat, NEW r \in Nat, NEW s \in Nat, NEW m \in Nat, r =< s
  PROVE  Limit(d, r, m) =< Limit(d, s, m)
<1>1. CASE r = 0
  BY <1>1, LimitType DEF Limit
<1>2. CASE r # 0
  <2>1. s \in Nat \ {0} /\ r \in Nat \ {0}
    BY <1>2
  <2>2. PICK x \in Nat : x = r - 1 + MaxConcurrent * m
    BY <2>1, LimitIs
  <2>3. PICK y \in Nat : y = s - 1 + MaxConcurrent * m
    BY <2>1, LimitIs
  <2>4. x =< y
    BY <2>1, <2>2, <2>3, LimitIs
  <2> QED BY <2>1, <2>2, <2>3, <2>4, LimitIs, Times
<1> QED BY <1>1, <1>2

\* Below the cap one completion fits.
LEMMA LimitTurn ==
  ASSUME NEW d \in Nat, NEW r \in Nat, NEW m \in Nat, NEW s \in Nat, NEW k \in Nat,
         s < r, k =< m
  PROVE  s + k =< Limit(d, r, m)
<1>1. r \in Nat \ {0}
  OBVIOUS
<1>2. PICK w \in Nat : w = MaxConcurrent * m
  BY LimitIs, <1>1
<1>3. w >= m
  BY LimitIs, <1>1, <1>2
<1>4. r - 1 + w =< Limit(d, r, m) /\ Limit(d, r, m) \in Nat
  <2>1. PICK q \in Nat : q = r - 1 + w
    BY <1>1
  <2>2. PICK p \in Nat \ {0} : p = Power(MaxConcurrent, d)
    BY <1>1, LimitIs
  <2>3. Limit(d, r, m) = p * q
    BY <1>1, <1>2, <2>1, <2>2, LimitIs
  <2> QED BY <2>1, <2>2, <2>3, Times
<1> QED BY <1>1, <1>3, <1>4

\* At the depth cap it fits beside those of the other workers.
LEMMA LimitLeaf ==
  ASSUME NEW r \in Nat, NEW m \in Nat, NEW s \in Nat, NEW k \in Nat, s < r, k < MaxConcurrent
  PROVE  s + k * m + m =< Limit(0, r, m)
<1>1. r \in Nat \ {0} /\ MaxConcurrent \in Nat
  BY SubcallAssumption
<1>2. Limit(0, r, m) = r - 1 + MaxConcurrent * m
  <2>1. Power(MaxConcurrent, 0) = 1
    BY SubcallAssumption, PowerLaws
  <2>2. \A x \in Nat : 1 * x = x
    OBVIOUS
  <2> QED BY <1>1, <2>1, <2>2, LimitIs
<1>3. PICK j \in Nat : MaxConcurrent = k + 1 + j
  <2>1. MaxConcurrent - k - 1 \in Nat
    BY <1>1
  <2> QED BY <1>1, <2>1
<1>4. MaxConcurrent * m = k * m + m + j * m /\ k * m \in Nat /\ j * m \in Nat
  BY <1>3
<1> HIDE DEF Limit
<1>5. PICK x \in Nat : x = k * m
  BY <1>4
<1>6. PICK y \in Nat : y = j * m
  BY <1>4
<1>7. Limit(0, r, m) = r - 1 + (x + m + y)
  BY <1>2, <1>4, <1>5, <1>6
<1> QED BY <1>1, <1>5, <1>7

\* Above it the claims of a pool add up to the limit of the level above.
LEMMA LimitPool ==
  ASSUME NEW d \in Nat, NEW r \in Nat \ {0}, NEW m \in Nat, NEW k \in Nat, k < MaxConcurrent
  PROVE  k * Limit(d, r, m) + Limit(d, r, m) =< Limit(d + 1, r, m)
<1>1. MaxConcurrent \in Nat \ {0}
  BY SubcallAssumption
<1>2. PICK q \in Nat : q = r - 1 + MaxConcurrent * m
  BY LimitIs
<1>3. PICK p \in Nat \ {0} : p = Power(MaxConcurrent, d)
  BY LimitIs
<1>4. Limit(d, r, m) = p * q /\ Limit(d + 1, r, m) = (MaxConcurrent * p) * q
  <2>1. Power(MaxConcurrent, d + 1) = MaxConcurrent * p
    BY <1>1, <1>3, PowerLaws
  <2>2. Limit(d, r, m) = p * q
    BY <1>2, <1>3, LimitIs
  <2>3. Limit(d + 1, r, m) = Power(MaxConcurrent, d + 1) * q
    BY <1>2, LimitIs
  <2> QED BY <2>1, <2>2, <2>3
<1>5. PICK j \in Nat : MaxConcurrent = k + 1 + j
  <2>1. MaxConcurrent - k - 1 \in Nat
    BY <1>1
  <2> QED BY <1>1, <2>1
<1>6. PICK x \in Nat : x = p * q
  BY <1>3, Times
<1>7. (MaxConcurrent * p) * q = MaxConcurrent * x
  BY <1>1, <1>6
<1>8. (k + 1 + j) * x = k * x + x + j * x /\ k * x \in Nat /\ j * x \in Nat
  OBVIOUS
<1>9. k * x + x =< (k + 1 + j) * x
  BY <1>8
<1> QED BY <1>4, <1>5, <1>6, <1>7, <1>9

\* A child inherits what is left: it can add no more than that beyond the limit
\* of a child that inherits all.
LEMMA LimitChild ==
  ASSUME NEW d \in Nat, NEW r \in Nat, NEW m \in Nat, NEW s \in Nat, s < r
  PROVE  s + Limit(d, r - s, m) =< Limit(d, r, m)
<1>1. r \in Nat \ {0} /\ r - s \in Nat \ {0}
  OBVIOUS
<1>2. PICK w \in Nat : w = MaxConcurrent * m
  BY LimitIs, <1>1
<1>3. PICK p \in Nat \ {0} : p = Power(MaxConcurrent, d)
  BY LimitIs, <1>1
<1>4. PICK x \in Nat : x = r - s - 1 + w
  BY <1>1
<1>5. Limit(d, r - s, m) = p * x
  BY <1>1, <1>2, <1>3, <1>4, LimitIs
<1>6. Limit(d, r, m) = p * (x + s)
  BY <1>1, <1>2, <1>3, <1>4, LimitIs
<1>7. p * (x + s) = p * x + p * s /\ p * s >= s /\ p * x \in Nat /\ p * s \in Nat
  BY Times
<1> QED BY <1>5, <1>6, <1>7

------------------------------------------------------------------------------
(* Sums that are compared.                                                  *)

\* A sum of less over less is less.
LEMMA SumLess ==
  ASSUME NEW f, NEW g, NEW S, NEW T \in SUBSET S, IsFiniteSet(S), \A x \in S : f[x] \in Nat,
         \A x \in T : g[x] \in Nat /\ g[x] =< f[x]
  PROVE  SumFunctionOnSet(g, T) =< SumFunctionOnSet(f, S)
<1>1. Units(g, T) \subseteq Units(f, S)
  BY DEF Units
<1>2. IsFiniteSet(T) /\ IsFiniteSet(Units(f, S))
  BY FS_Subset, UnitsFinite
<1>3. Cardinality(Units(g, T)) =< Cardinality(Units(f, S))
  BY <1>1, <1>2, FS_Subset
<1> QED BY <1>2, <1>3, SumIsCount

\* A charge to the account that left the sum.
LEMMA SumLeaves ==
  ASSUME NEW f, NEW g, NEW S, NEW c \in S, NEW d \in Nat, IsFiniteSet(S),
         \A x \in S : f[x] \in Nat, d =< f[c],
         \A x \in S \ {c} : g[x] \in Nat /\ g[x] =< f[x]
  PROVE  d + SumFunctionOnSet(g, S \ {c}) =< SumFunctionOnSet(f, S)
<1>1. IsFiniteSet(S \ {c})
  BY FS_Subset
<1>2. SumFunctionOnSet(f, S) = SumFunctionOnSet(f, S \ {c}) + f[c]
  BY SumRemove
<1>3. SumFunctionOnSet(g, S \ {c}) =< SumFunctionOnSet(f, S \ {c})
  BY <1>1, SumLess
<1>4. SumFunctionOnSet(g, S \ {c}) \in Nat /\ SumFunctionOnSet(f, S \ {c}) \in Nat /\ f[c] \in Nat
  BY <1>1, SumType
<1> QED BY <1>2, <1>3, <1>4

\* Accounts of at most b each.
LEMMA SumAtMost ==
  ASSUME NEW f, NEW S, NEW b \in Nat, IsFiniteSet(S), \A x \in S : f[x] \in Nat /\ f[x] =< b
  PROVE  SumFunctionOnSet(f, S) =< Cardinality(S) * b
<1>1. Units(f, S) \subseteq S \X (1 .. b)
  BY DEF Units
<1>2. IsFiniteSet(1 .. b) /\ Cardinality(1 .. b) = b
  BY FS_Interval
<1>3. /\ IsFiniteSet(S \X (1 .. b))
      /\ Cardinality(S \X (1 .. b)) = Cardinality(S) * Cardinality(1 .. b)
  BY <1>2, FS_Product
<1>4. Cardinality(Units(f, S)) =< Cardinality(S \X (1 .. b))
  BY <1>1, <1>3, FS_Subset
<1> QED BY <1>2, <1>3, <1>4, SumIsCount

------------------------------------------------------------------------------
(* Claims.                                                                  *)

\* The dearest completion is at least as dear as every other.
LEMMA DearestIs == Dearest \in Nat /\ \A k \in Costs : k =< Dearest
  BY SubcallAssumption DEF Dearest

\* Claims are naturals, of finitely many calls.
LEMMA ClaimType ==
  ASSUME IInv, Settled
  PROVE  /\ \A c \in Calls : Claim[c] \in Nat
         /\ \A n \in Nodes : IsFiniteSet(Claimants(n)) /\ Claimants(n) \subseteq Calls
<1>1. ASSUME NEW c \in Calls PROVE Claim[c] \in Nat
  <2>1. CASE kind[c] = "leaf"
    BY <2>1, DearestIs DEF Claim
  <2>2. CASE kind[c] # "leaf" /\ stage[c] = "checked"
    <3>1. owner[c] \in Nodes /\ depth[owner[c]] + 1 =< MaxDepth
      BY <2>2, SubcallAssumption DEF IInv, Owned, BelowCap
    <3>2. MaxDepth - (depth[owner[c]] + 1) \in Nat /\ Remaining(owner[c]) \in Nat
      BY <3>1, SubcallAssumption DEF IInv, TypeOK, Remaining
    <3> QED BY <2>2, <3>2, DearestIs, LimitType DEF Claim
  <2>3. CASE kind[c] # "leaf" /\ stage[c] # "checked"
    <3>1. MaxDepth - depth[c] \in Nat /\ cap[c] \in Nat
      BY SubcallAssumption DEF IInv, TypeOK, Nodes
    <3> QED BY <2>3, <3>1, DearestIs, LimitType DEF Claim
  <2> QED BY <2>1, <2>2, <2>3
<1>2. \A n \in Nodes : IsFiniteSet(Claimants(n)) /\ Claimants(n) \subseteq Calls
  BY SubcallAssumption, FS_Subset DEF Claimants
<1> QED BY <1>1, <1>2

\* The same of the next state.
LEMMA ClaimTypeNext ==
  ASSUME IInv', Settled'
  PROVE  \A c \in Calls : Claim'[c] \in Nat
<1> SUFFICES ASSUME NEW c \in Calls PROVE Claim'[c] \in Nat
  OBVIOUS
<1>1. CASE kind'[c] = "leaf"
  BY <1>1, DearestIs DEF Claim
<1>2. CASE kind'[c] # "leaf" /\ stage'[c] = "checked"
  <2>1. owner'[c] \in Nodes /\ depth'[owner'[c]] + 1 =< MaxDepth
    BY <1>2, SubcallAssumption DEF IInv, Owned, BelowCap
  <2>2. MaxDepth - (depth'[owner'[c]] + 1) \in Nat /\ Remaining(owner[c])' \in Nat
    BY <2>1, SubcallAssumption DEF IInv, TypeOK, Remaining
  <2> QED BY <1>2, <2>2, DearestIs, LimitType DEF Claim
<1>3. CASE kind'[c] # "leaf" /\ stage'[c] # "checked"
  <2>1. MaxDepth - depth'[c] \in Nat /\ cap'[c] \in Nat
    BY SubcallAssumption DEF IInv, TypeOK, Nodes
  <2> QED BY <1>3, <2>1, DearestIs, LimitType DEF Claim
<1> QED BY <1>1, <1>2, <1>3

\* No claim on an account exceeds what a child that inherits all could spend;
\* at the depth cap there are only leaves.
LEMMA ClaimsAtMost ==
  ASSUME IInv, Settled, Bounded, NEW n \in Nodes, cap[n] # 0
  PROVE  /\ depth[n] = MaxDepth => \A c \in Claimants(n) : Claim[c] =< Dearest
         /\ depth[n] # MaxDepth => \A c \in Claimants(n) :
              Claim[c] =< Limit(MaxDepth - (depth[n] + 1), cap[n], Dearest)
<1>1. depth[n] \in 0 .. MaxDepth /\ cap[n] \in Nat \ {0} /\ MaxDepth \in Nat
  BY SubcallAssumption DEF IInv, TypeOK
<1>2. ASSUME NEW c \in Claimants(n), kind[c] # "leaf"
      PROVE  depth[n] # MaxDepth /\ Claim[c] =< Limit(MaxDepth - (depth[n] + 1), cap[n], Dearest)
  <2>1. c \in Calls /\ owner[c] = n /\ c \in Nodes
    BY DEF Claimants, Nodes
  <2>2. CASE stage[c] = "checked"
    <3>1. depth[n] + 1 =< MaxDepth
      BY <2>1, <2>2 DEF IInv, BelowCap
    <3>2. Remaining(n) \in Nat /\ Remaining(n) =< cap[n]
      BY <1>1 DEF Remaining, IInv, TypeOK
    <3>3. Claim[c] = Limit(MaxDepth - (depth[n] + 1), Remaining(n), Dearest)
      BY <1>2, <2>1, <2>2 DEF Claim
    <3>4. MaxDepth - (depth[n] + 1) \in Nat
      BY <1>1, <3>1
    <3> QED BY <1>1, <3>1, <3>2, <3>3, <3>4, LimitGrows, DearestIs
  <2>3. CASE stage[c] # "checked"
    <3>1. stage[c] \in {"running", "folding", "locked"} /\ kind[c] = "child"
      BY <1>2, <2>1, <2>3 DEF Claimants, Settled, IInv, TypeOK, Stages
    <3>2. /\ depth[c] = depth[n] + 1 /\ cap[c] =< cap[n]
          /\ depth[c] \in 0 .. MaxDepth /\ cap[c] \in Nat
      BY <2>1, <3>1 DEF Bounded, Claimed, IInv, TypeOK
    <3>3. Claim[c] = Limit(MaxDepth - (depth[n] + 1), cap[c], Dearest)
      BY <1>2, <2>1, <2>3, <3>2 DEF Claim
    <3>4. MaxDepth - (depth[n] + 1) \in Nat
      BY <1>1, <3>2
    <3> QED BY <1>1, <3>2, <3>3, <3>4, LimitGrows, DearestIs
  <2> QED BY <2>2, <2>3
<1>3. ASSUME NEW c \in Claimants(n), kind[c] = "leaf" PROVE Claim[c] = Dearest
  BY <1>3 DEF Claim, Claimants
<1>4. depth[n] # MaxDepth => Dearest =< Limit(MaxDepth - (depth[n] + 1), cap[n], Dearest)
  <2> SUFFICES ASSUME depth[n] # MaxDepth
               PROVE  Dearest =< Limit(MaxDepth - (depth[n] + 1), cap[n], Dearest)
    OBVIOUS
  <2>1. MaxDepth - (depth[n] + 1) \in Nat
    BY <1>1
  <2>2. 0 + Dearest =< Limit(MaxDepth - (depth[n] + 1), cap[n], Dearest)
    <3>1. Dearest =< Dearest /\ 0 < cap[n] /\ 0 \in Nat /\ cap[n] \in Nat
      BY <1>1, DearestIs
    <3> QED BY <2>1, <3>1, LimitTurn, DearestIs
  <2>3. 0 + Dearest = Dearest
    BY DearestIs
  <2> QED BY <2>2, <2>3
<1>5. Dearest =< Dearest
  BY DearestIs
<1> QED BY <1>2, <1>3, <1>4, <1>5

\* What a step leaves alone of an account.
Untouched(n) ==
  /\ cap'[n] = cap[n] /\ depth'[n] = depth[n]
  /\ run'[n] = "none" <=> run[n] = "none"
  /\ run'[n] = "model" => spent'[n] < cap[n]

\* Claims may be given up.
LEMMA FitsKept ==
  ASSUME IInv, Settled, IInv', Settled', NEW n \in Nodes, Fits(n), Untouched(n),
         spent'[n] = spent[n],
         Claimants(n)' \subseteq Claimants(n), \A c \in Claimants(n)' : Claim'[c] =< Claim[c]
  PROVE  Fits(n)'
<1> DEFINE T == Claimants(n)'
           g == Claim'
<1>1. T \in SUBSET Claimants(n) /\ \A c \in T : g[c] \in Nat /\ g[c] =< Claim[c]
  BY ClaimType, ClaimTypeNext
<1>2. IsFiniteSet(Claimants(n)) /\ \A c \in Claimants(n) : Claim[c] \in Nat
  BY ClaimType
<1>3. IsFiniteSet(T)
  BY <1>1, <1>2, FS_Subset
<1> HIDE DEF T, g
<1>4. SumFunctionOnSet(g, T) =< SumFunctionOnSet(Claim, Claimants(n))
  BY <1>1, <1>2, SumLess
<1>5. SumFunctionOnSet(g, T) \in Nat
  BY <1>1, <1>3, SumType
<1>6. SumFunctionOnSet(Claim, Claimants(n)) \in Nat
  BY <1>2, SumType
<1>7. run[n] # "none" =>
        spent[n] + SumFunctionOnSet(g, T) =< Limit(MaxDepth - depth[n], cap[n], Dearest)
  <2>1. spent[n] \in Nat
    BY DEF IInv, TypeOK
  <2>2. Limit(MaxDepth - depth[n], cap[n], Dearest) \in Nat
    <3>1. MaxDepth - depth[n] \in Nat /\ cap[n] \in Nat
      BY SubcallAssumption DEF IInv, TypeOK
    <3> QED BY <3>1, LimitType, DearestIs
  <2> QED BY <1>4, <1>5, <1>6, <2>1, <2>2 DEF Fits
<1> QED BY <1>7 DEF Fits, Untouched, T, g

\* A claim may be paid.
LEMMA FitsPaid ==
  ASSUME IInv, Settled, IInv', Settled', NEW n \in Nodes, Fits(n), Untouched(n),
         NEW c \in Claimants(n), NEW d \in Nat, d =< Claim[c], spent'[n] = spent[n] + d,
         run[n] \notin {"none", "model"},
         Claimants(n)' = Claimants(n) \ {c},
         \A x \in Claimants(n) \ {c} : Claim'[x] =< Claim[x]
  PROVE  Fits(n)'
<1> DEFINE T == Claimants(n) \ {c}
           g == Claim'
<1>1. \A x \in T : g[x] \in Nat /\ g[x] =< Claim[x]
  BY ClaimType, ClaimTypeNext
<1>2. IsFiniteSet(Claimants(n)) /\ \A x \in Claimants(n) : Claim[x] \in Nat
  BY ClaimType
<1>3. IsFiniteSet(T)
  BY <1>2, FS_Subset
<1> HIDE DEF g
<1>4. d + SumFunctionOnSet(g, T) =< SumFunctionOnSet(Claim, Claimants(n))
  BY <1>1, <1>2, SumLeaves
<1> HIDE DEF T
<1>5. SumFunctionOnSet(g, T) \in Nat
  BY <1>1, <1>3, SumType
<1>6. SumFunctionOnSet(Claim, Claimants(n)) \in Nat
  BY <1>2, SumType
<1>7. spent[n] + d + SumFunctionOnSet(g, T) =< Limit(MaxDepth - depth[n], cap[n], Dearest)
  <2>1. spent[n] \in Nat
    BY DEF IInv, TypeOK
  <2>2. Limit(MaxDepth - depth[n], cap[n], Dearest) \in Nat
    <3>1. MaxDepth - depth[n] \in Nat /\ cap[n] \in Nat
      BY SubcallAssumption DEF IInv, TypeOK
    <3> QED BY <3>1, LimitType, DearestIs
  <2> QED BY <1>4, <1>5, <1>6, <2>1, <2>2 DEF Fits
<1> QED BY <1>7 DEF Fits, Untouched, T, g

\* A claim may be made below the cap by a worker of the pool.
LEMMA FitsGranted ==
  ASSUME IInv, Settled, Bounded, IInv', Settled', NEW n \in Nodes, Untouched(n),
         NEW c \in Calls, c \notin Claimants(n), spent'[n] = spent[n], spent[n] < cap[n],
         run[n] \notin {"none", "model"}, Cardinality(Claimants(n)) < MaxConcurrent,
         Claimants(n)' = Claimants(n) \cup {c},
         \A x \in Claimants(n) : Claim'[x] = Claim[x],
         \/ Claim'[c] = Dearest
         \/ /\ depth[n] # MaxDepth
            /\ Claim'[c] = Limit(MaxDepth - (depth[n] + 1), cap[n] - spent[n], Dearest)
  PROVE  Fits(n)'
<1> DEFINE S == Claimants(n)
           g == Claim'
<1>0. /\ depth[n] \in 0 .. MaxDepth /\ cap[n] \in Nat \ {0} /\ MaxDepth \in Nat
      /\ spent[n] \in Nat /\ MaxConcurrent \in Nat
  BY SubcallAssumption DEF IInv, TypeOK
<1>1. (\A x \in S : g[x] = Claim[x]) /\ \A x \in S \cup {c} : g[x] \in Nat
  BY ClaimType, ClaimTypeNext
<1>2. IsFiniteSet(S) /\ \A x \in S : Claim[x] \in Nat
  BY ClaimType
<1>3. c \notin S /\ Cardinality(S) < MaxConcurrent /\ Cardinality(S) \in Nat
  BY <1>2, FS_CardinalityType
<1> HIDE DEF g
<1>4. SumFunctionOnSet(g, S) = SumFunctionOnSet(Claim, S)
  BY <1>1, <1>2, SumSame
<1>5. SumFunctionOnSet(g, S \cup {c}) = SumFunctionOnSet(g, S) + g[c]
  BY <1>1, <1>2, <1>3, SumAdd, ZenonT(20)
<1>6. SumFunctionOnSet(Claim, S) \in Nat /\ g[c] \in Nat
  BY <1>1, <1>2, SumType
<1>7. spent[n] + (SumFunctionOnSet(Claim, S) + g[c])
        =< Limit(MaxDepth - depth[n], cap[n], Dearest)
  <2>1. CASE depth[n] = MaxDepth
    <3>1. \A x \in S : Claim[x] \in Nat /\ Claim[x] =< Dearest
      BY <1>0, <1>2, <2>1, ClaimsAtMost
    <3> HIDE DEF S
    <3>2. SumFunctionOnSet(Claim, S) =< Cardinality(S) * Dearest
      BY <1>2, <3>1, SumAtMost, DearestIs
    <3>3. spent[n] + Cardinality(S) * Dearest + Dearest =< Limit(0, cap[n], Dearest)
      BY <1>0, <1>3, LimitLeaf, DearestIs
    <3>4. g[c] = Dearest /\ MaxDepth - depth[n] = 0
      BY <1>0, <2>1 DEF g
    <3>5. Limit(0, cap[n], Dearest) \in Nat
      BY <1>0, LimitType, DearestIs
    <3>6. PICK y \in Nat : y = Cardinality(S) * Dearest
      BY <1>3, DearestIs
    <3> QED BY <1>0, <1>6, <3>2, <3>3, <3>4, <3>5, <3>6, DearestIs
  <2>2. CASE depth[n] # MaxDepth
    <3>1. PICK d \in Nat : d = MaxDepth - (depth[n] + 1)
      BY <1>0, <2>2
    <3>2. PICK b \in Nat : b = Limit(d, cap[n], Dearest)
      BY <1>0, <3>1, LimitType, DearestIs
    <3>3. \A x \in S : Claim[x] \in Nat /\ Claim[x] =< b
      BY <1>0, <1>2, <2>2, <3>1, <3>2, ClaimsAtMost
    <3> HIDE DEF S
    <3>4. SumFunctionOnSet(Claim, S) =< Cardinality(S) * b
      BY <1>2, <3>2, <3>3, SumAtMost
    <3>5. Cardinality(S) * b + b =< Limit(d + 1, cap[n], Dearest)
      BY <1>0, <1>3, <3>1, <3>2, LimitPool, DearestIs
    <3>6. spent[n] + g[c] =< b
      <4>1. CASE g[c] = Dearest
        <5>1. Dearest =< Dearest
          BY DearestIs
        <5>2. spent[n] + Dearest =< Limit(d, cap[n], Dearest)
          BY <1>0, <3>1, <5>1, LimitTurn, DearestIs
        <5> QED BY <3>2, <4>1, <5>2
      <4>2. CASE g[c] # Dearest
        <5>1. g[c] = Limit(d, cap[n] - spent[n], Dearest)
          BY <3>1, <4>2 DEF g
        <5>2. spent[n] + Limit(d, cap[n] - spent[n], Dearest) =< Limit(d, cap[n], Dearest)
          BY <1>0, <3>1, LimitChild, DearestIs
        <5> QED BY <3>2, <5>1, <5>2
      <4> QED BY <4>1, <4>2
    <3>7. d + 1 = MaxDepth - depth[n]
      BY <1>0, <3>1
    <3>8. Limit(d + 1, cap[n], Dearest) \in Nat
      <4>1. d + 1 \in Nat /\ cap[n] \in Nat
        BY <1>0, <3>1
      <4> QED BY <4>1, LimitType, DearestIs
    <3>9. PICK y \in Nat : y = Cardinality(S) * b
      BY <1>3, <3>2
    <3> QED BY <1>0, <1>6, <3>2, <3>4, <3>5, <3>6, <3>7, <3>8, <3>9
  <2> QED BY <2>1, <2>2
<1>8. Fits(n)' <=>
        spent[n] + SumFunctionOnSet(g, S \cup {c}) =< Limit(MaxDepth - depth[n], cap[n], Dearest)
  BY DEF Fits, Untouched, g
<1> QED BY <1>4, <1>5, <1>7, <1>8

\* A claim depends on its call and on the account it is made on.
LEMMA ClaimSame ==
  ASSUME NEW n \in Nodes, NEW c \in Claimants(n), kind'[c] = kind[c], owner'[c] = owner[c],
         stage'[c] = "checked" <=> stage[c] = "checked",
         depth'[n] = depth[n], cap'[n] = cap[n], spent'[n] = spent[n],
         depth'[c] = depth[c], cap'[c] = cap[c]
  PROVE  Claim'[c] = Claim[c]
BY DEF Claim, Claimants, Remaining

\* It shrinks when the account is charged.
LEMMA ClaimLess ==
  ASSUME IInv, IInv', Settled, NEW n \in Nodes, NEW c \in Claimants(n), kind'[c] = kind[c],
         owner'[c] = owner[c], stage'[c] = stage[c],
         depth'[n] = depth[n], cap'[n] = cap[n], spent'[n] >= spent[n],
         depth'[c] = depth[c], cap'[c] = cap[c]
  PROVE  Claim'[c] =< Claim[c]
<1>1. c \in Calls /\ owner[c] = n /\ Claim[c] \in Nat
  BY ClaimType DEF Claimants
<1>2. CASE kind[c] # "leaf" /\ stage[c] = "checked"
  <2> DEFINE d == MaxDepth - (depth[n] + 1)
             r == Remaining(n)'
  <2>1. d \in Nat
    BY <1>1, <1>2, SubcallAssumption DEF IInv, TypeOK, BelowCap
  <2>2. r \in Nat /\ Remaining(n) \in Nat /\ r =< Remaining(n)
    BY DEF IInv, TypeOK, Remaining
  <2>3. Claim[c] = Limit(d, Remaining(n), Dearest) /\ Claim'[c] = Limit(d, r, Dearest)
    BY <1>1, <1>2 DEF Claim
  <2> HIDE DEF d, r
  <2> QED BY <2>1, <2>2, <2>3, LimitGrows, DearestIs
<1>3. CASE ~(kind[c] # "leaf" /\ stage[c] = "checked")
  <2>1. Claim'[c] = Claim[c]
    BY <1>1, <1>3 DEF Claim
  <2> QED BY <1>1, <2>1
<1> QED BY <1>2, <1>3

\* A step that charges nobody and makes no claim.
LEMMA FitsIdle ==
  ASSUME IInv, Settled, Bounded, IInv', Settled', NEW n \in Nodes,
         spent'[n] = spent[n], cap'[n] = cap[n], depth'[n] = depth[n],
         run'[n] = "none" <=> run[n] = "none",
         run'[n] = "model" => spent[n] < cap[n],
         Claimants(n)' \subseteq Claimants(n),
         \A c \in Claimants(n)' : /\ kind'[c] = kind[c] /\ owner'[c] = owner[c]
                                  /\ stage'[c] = "checked" <=> stage[c] = "checked"
                                  /\ depth'[c] = depth[c] /\ cap'[c] = cap[c]
  PROVE  Fits(n)'
<1>1. Fits(n) /\ Untouched(n)
  BY DEF Bounded, Untouched
<1>2. \A c \in Claimants(n)' : Claim'[c] = Claim[c] /\ Claim[c] \in Nat
  BY ClaimSame, ClaimType
<1>3. \A c \in Claimants(n)' : Claim'[c] =< Claim[c]
  BY <1>2
<1> QED BY <1>1, <1>3, FitsKept

\* A runtime that is not in a cell, nor was aborted in one, has no claims on it.
LEMMA NoClaims ==
  ASSUME IInv, NEW n \in Nodes, run[n] \notin {"cell", "failed"}
  PROVE  Claimants(n) = {}
BY DEF IInv, Quiet, Claimants

\* Steps of the loop.
LEMMA LoopFits ==
  ASSUME IInv, Settled, Bounded, IInv', Settled', NEW n \in Nodes, NEW m \in Nodes,
         Loop(m) \/ HostWaitExpires(m) \/ ContainerDies(m) \/ DeadlinePasses(m)
  PROVE  Fits(n)'
<1> USE DEF Enter, callVars, budgetVars, loopVars
<1>1. UNCHANGED <<cap, depth, stage, owner, kind>>
  BY DEF Loop, StartTurn, RecordTurn, NextTurn, Answer, LoopAbort, HostWaitExpires,
         ContainerDies, DeadlinePasses
<1>2. Claimants(n)' = Claimants(n)
  BY <1>1 DEF Claimants
<1>3. ASSUME RecordTurn(m) PROVE Fits(n)'
  <2>1. PICK cost \in Costs : spent' = [spent EXCEPT ![m] = @ + cost]
    BY <1>3 DEF RecordTurn
  <2>2. run[m] = "model" /\ run'[m] \in {"cell", "failed"} /\ (n # m => run'[n] = run[n])
    BY <1>3 DEF RecordTurn, IInv, TypeOK
  <2>3. CASE n = m
    <3>1. Claimants(n)' = {}
      BY <1>2, <2>2, <2>3, NoClaims
    <3>2. spent[n] < cap[n] /\ spent[n] \in Nat /\ cap[n] \in Nat /\ MaxDepth - depth[n] \in Nat
      BY <2>2, <2>3, SubcallAssumption DEF Bounded, Fits, IInv, TypeOK
    <3>3. cost \in Nat /\ cost =< Dearest
      BY DearestIs, SubcallAssumption
    <3>4. spent[n] + cost =< Limit(MaxDepth - depth[n], cap[n], Dearest)
      BY <3>2, <3>3, DearestIs, LimitTurn
    <3> DEFINE g == Claim'
    <3>5. SumFunctionOnSet(g, {}) = 0
      <4> HIDE DEF g
      <4>1. IsFiniteSet({}) /\ Units(g, {}) = {} /\ Cardinality({}) = 0
        BY FS_EmptySet DEF Units
      <4> QED BY <4>1, SumIsCount
    <3>6. spent'[n] = spent[n] + cost
      BY <2>1, <2>3 DEF IInv, TypeOK
    <3>7. spent'[n] + 0 = spent[n] + cost
      BY <3>2, <3>3, <3>6
    <3> QED BY <1>1, <2>2, <2>3, <3>1, <3>4, <3>5, <3>7 DEF Fits, g
  <2>4. CASE n # m
    <3>1. spent'[n] = spent[n] /\ (run[n] = "model" => spent[n] < cap[n])
      BY <2>1, <2>4 DEF IInv, TypeOK, Bounded, Fits
    <3> QED BY <1>1, <1>2, <2>2, <2>4, <3>1, FitsIdle
  <2> QED BY <2>3, <2>4
<1>4. ASSUME ~RecordTurn(m) PROVE Fits(n)'
  <2>1. spent' = spent
    BY <1>4 DEF Loop, StartTurn, NextTurn, Answer, LoopAbort, HostWaitExpires,
                ContainerDies, DeadlinePasses
  <2>2. run'[n] = "none" <=> run[n] = "none"
    BY <1>4 DEF Loop, StartTurn, NextTurn, Answer, LoopAbort, HostWaitExpires,
                ContainerDies, DeadlinePasses, IInv, TypeOK
  <2>3. run'[n] = "model" => spent[n] < cap[n]
    <3>1. run[n] = "model" => spent[n] < cap[n]
      BY DEF Bounded, Fits
    <3>2. CASE StartTurn(m)
      BY <3>1, <3>2 DEF StartTurn, Exhausted, IInv, TypeOK
    <3>3. CASE ~StartTurn(m)
      BY <1>4, <3>1, <3>3 DEF Loop, NextTurn, Answer, LoopAbort, HostWaitExpires,
                              ContainerDies, DeadlinePasses, IInv, TypeOK
    <3> QED BY <3>2, <3>3
  <2> QED BY <1>1, <1>2, <2>1, <2>2, <2>3, FitsIdle
<1> QED BY <1>3, <1>4

\* A cell makes calls: they claim nothing before they pass the check.
LEMMA SubmitFits ==
  ASSUME IInv, Settled, Bounded, IInv', Settled', NEW n \in Nodes, NEW m \in Nodes,
         NEW batch \in SUBSET Calls, NEW k \in {"leaf", "child"}, Submit(m, batch, k)
  PROVE  Fits(n)'
<1>1. UNCHANGED <<run, spent, cap, depth>>
  BY DEF Submit, loopVars, budgetVars
<1>2. /\ Claimants(n)' \subseteq Claimants(n)
      /\ \A c \in Claimants(n)' : c \notin batch
  BY DEF Submit, Claimants
<1>3. \A c \in Calls \ batch : kind'[c] = kind[c] /\ owner'[c] = owner[c] /\ stage'[c] = stage[c]
  BY DEF Submit
<1>4. run'[n] = "model" => spent[n] < cap[n]
  BY <1>1 DEF Bounded, Fits
<1>5. \A c \in Claimants(n)' : c \in Calls
  BY DEF Claimants
<1> QED BY <1>1, <1>2, <1>3, <1>4, <1>5, FitsIdle

\* A worker that charges nothing and makes no claim.
LEMMA QuietWorkerFits ==
  ASSUME IInv, Settled, Bounded, IInv', Settled', NEW n \in Nodes, NEW c \in Calls,
         \/ Refuse(c) \/ RefusePrompt(c) \/ Reply(c) \/ ReplyFails(c) \/ Acquire(c)
         \/ LaunchRaises(c) \/ ChildFails(c) \/ ChildReturns(c)
  PROVE  Fits(n)'
<1> USE DEF Refuse, RefusePrompt, Reply, ReplyFails, Acquire, LaunchRaises, ChildFails,
            ChildReturns, Taken, Move, Return, loopVars, budgetVars
<1>1. UNCHANGED <<run, spent, cap, depth, owner, kind>>
  OBVIOUS
<1>2. \E s \in Stages : stage' = [stage EXCEPT ![c] = s]
                        /\ (stage[c] \in {"free", "queued", "done"} => s = "done")
                        /\ s # "checked" /\ (stage[c] = "checked" => s = "done")
  BY DEF Stages
<1>3. Claimants(n)' \subseteq Claimants(n)
  BY <1>1, <1>2 DEF Claimants, IInv, TypeOK
<1>4. \A x \in Claimants(n)' : stage'[x] = "checked" <=> stage[x] = "checked"
  BY <1>2 DEF Claimants, IInv, TypeOK
<1>5. run'[n] = "model" => spent[n] < cap[n]
  BY <1>1 DEF Bounded, Fits
<1> QED BY <1>1, <1>3, <1>4, <1>5, FitsIdle

\* A worker takes a call and passes the check: one more claim on its runtime.
LEMMA GrantFits ==
  ASSUME IInv, Settled, Bounded, IInv', Settled', NEW n \in Nodes, NEW c \in Calls,
         SendLeaf(c) \/ CheckChild(c)
  PROVE  Fits(n)'
<1> USE DEF Move, loopVars, budgetVars
<1> DEFINE o == owner[c]
<1>1. UNCHANGED <<run, spent, cap, depth, owner>>
  BY DEF SendLeaf, CheckChild
<1>2. PICK s \in {"sent", "checked"} : stage' = [stage EXCEPT ![c] = s]
  BY DEF SendLeaf, CheckChild
<1>3. \A x \in Calls \ {c} : kind'[x] = kind[x] /\ stage'[x] = stage[x]
  BY <1>2 DEF SendLeaf, CheckChild, IInv, TypeOK
<1>4. stage[c] = "queued" /\ stage'[c] = s /\ o \in Nodes /\ run[o] \in {"cell", "failed"}
  BY <1>2 DEF SendLeaf, CheckChild, Taken, IInv, TypeOK, Owned, Quiet
<1>5. run'[n] = "model" => spent'[n] < cap[n]
  BY <1>1 DEF Bounded, Fits
<1>6. CASE n # o
  <2>1. Claimants(n)' = Claimants(n) /\ c \notin Claimants(n)
    BY <1>1, <1>3, <1>4, <1>6 DEF Claimants
  <2>2. \A x \in Claimants(n)' : x \in Calls \ {c}
    BY <2>1 DEF Claimants
  <2> QED BY <1>1, <1>3, <1>5, <2>1, <2>2, FitsIdle
<1>7. CASE n = o
  <2>1. c \notin Claimants(n) /\ Claimants(n)' = Claimants(n) \cup {c}
    BY <1>1, <1>3, <1>4, <1>7 DEF Claimants
  <2>2. Untouched(n)
    BY <1>1, <1>5 DEF Untouched
  <2>3. Cardinality(Claimants(n)) < MaxConcurrent
    <3>1. Claimants(n) \subseteq Active(n)
      BY DEF Claimants, Active, Outstanding, CallsOf
    <3>2. IsFiniteSet(Active(n))
      BY SubcallAssumption, FS_Subset DEF Active, Outstanding, CallsOf
    <3>3. Cardinality(Claimants(n)) =< Cardinality(Active(n))
      BY <3>1, <3>2, FS_Subset
    <3>4. Cardinality(Active(n)) < MaxConcurrent
      BY <1>7 DEF SendLeaf, CheckChild, Taken
    <3>5. Cardinality(Active(n)) \in Nat /\ Cardinality(Claimants(n)) \in Nat
      BY <3>2, <3>1, FS_Subset, FS_CardinalityType
    <3> QED BY <3>3, <3>4, <3>5, SubcallAssumption
  <2>4. spent[n] < cap[n]
    BY <1>7 DEF SendLeaf, CheckChild, Exhausted, IInv, TypeOK
  <2>5. \A x \in Claimants(n) : Claim'[x] = Claim[x]
    <3>1. \A x \in Claimants(n) : x \in Calls \ {c}
      BY <2>1 DEF Claimants
    <3> QED BY <1>1, <1>3, <3>1, ClaimSame
  <2>6. \/ Claim'[c] = Dearest
        \/ /\ depth[n] # MaxDepth
           /\ Claim'[c] = Limit(MaxDepth - (depth[n] + 1), cap[n] - spent[n], Dearest)
    <3>1. CASE SendLeaf(c)
      <4>1. kind'[c] = "leaf"
        BY <3>1 DEF SendLeaf, IInv, TypeOK
      <4> QED BY <4>1 DEF Claim
    <3>2. CASE CheckChild(c)
      <4>1. kind'[c] = "child" /\ stage'[c] = "checked" /\ owner'[c] = n
            /\ depth[n] + 1 =< MaxDepth
        BY <1>1, <1>7, <3>2 DEF CheckChild, IInv, TypeOK
      <4>2. Remaining(n)' = cap[n] - spent[n]
        BY <1>1, <2>4 DEF Remaining, IInv, TypeOK
      <4>3. depth[n] # MaxDepth
        BY <4>1, SubcallAssumption DEF IInv, TypeOK
      <4>4. Claim'[c] = Limit(MaxDepth - (depth'[n] + 1), Remaining(n)', Dearest)
        BY <4>1 DEF Claim
      <4> QED BY <1>1, <4>2, <4>3, <4>4
    <3> QED BY <3>1, <3>2
  <2>7. run[n] \notin {"none", "model"} /\ spent'[n] = spent[n]
    BY <1>1, <1>4, <1>7
  <2> QED BY <2>1, <2>2, <2>3, <2>4, <2>5, <2>6, <2>7, FitsGranted
<1> QED BY <1>6, <1>7

\* A worker pays for its call: the claim becomes money spent.
LEMMA PayFits ==
  ASSUME IInv, Settled, Bounded, IInv', Settled', NEW n \in Nodes, NEW c \in Calls,
         ChargeLeaf(c) \/ FoldChild(c)
  PROVE  Fits(n)'
<1> USE DEF Move, Return, loopVars
<1> DEFINE o == owner[c]
<1>1. UNCHANGED <<run, cap, depth, owner, kind>>
  BY DEF ChargeLeaf, FoldChild
<1>2. stage[c] = "locked" /\ stage' = [stage EXCEPT ![c] = "done"]
  BY DEF ChargeLeaf, FoldChild
<1>3. o \in Nodes /\ run[o] \in {"cell", "failed"} /\ seen[c] = spent[o]
  BY <1>2 DEF IInv, TypeOK, Owned, Quiet, SeenCurrent
<1>4. PICK d \in Nat : d =< Claim[c] /\ spent' = [spent EXCEPT ![o] = spent[o] + d]
  <2>1. CASE ChargeLeaf(c)
    <3>1. bill[c] \in Nat /\ bill[c] =< Claim[c]
      BY <2>1 DEF ChargeLeaf, Bounded, Claimed, Claim, IInv, TypeOK
    <3>2. spent' = [spent EXCEPT ![o] = spent[o] + bill[c]]
      BY <1>3, <2>1 DEF ChargeLeaf
    <3> QED BY <3>1, <3>2
  <2>2. CASE FoldChild(c)
    <3>1. kind[c] = "child" /\ run[c] = "answered" /\ c \in Nodes /\ spent[c] \in Nat
      BY <1>2, <2>2 DEF FoldChild, Settled, Nodes, IInv, TypeOK
    <3>2. Claim[c] = Limit(MaxDepth - depth[c], cap[c], Dearest)
      BY <1>2, <3>1 DEF Claim
    <3>3. spent[c] + SumFunctionOnSet(Claim, Claimants(c)) =< Claim[c]
      BY <3>1, <3>2 DEF Bounded, Fits
    <3>4. SumFunctionOnSet(Claim, Claimants(c)) \in Nat /\ Claim[c] \in Nat
      BY <3>1, ClaimType, SumType
    <3>5. spent[c] =< Claim[c]
      BY <3>1, <3>3, <3>4
    <3>6. spent' = [spent EXCEPT ![o] = spent[o] + spent[c]]
      BY <1>3, <2>2 DEF FoldChild
    <3> QED BY <3>1, <3>5, <3>6
  <2> QED BY <2>1, <2>2
<1>5. \A x \in Calls \ {c} : stage'[x] = stage[x]
  BY <1>2 DEF IInv, TypeOK
<1>6. stage'[c] = "done"
  BY <1>2 DEF IInv, TypeOK
<1>7. CASE n # o
  <2>1. spent'[n] = spent[n]
    BY <1>4, <1>7 DEF IInv, TypeOK
  <2>2. Claimants(n)' = Claimants(n) /\ \A x \in Claimants(n)' : x \in Calls \ {c}
    BY <1>1, <1>5, <1>7 DEF Claimants
  <2>3. run'[n] = "model" => spent[n] < cap[n]
    BY <1>1 DEF Bounded, Fits
  <2> QED BY <1>1, <1>5, <2>1, <2>2, <2>3, FitsIdle
<1>8. CASE n = o
  <2>1. spent'[n] = spent[n] + d
    BY <1>3, <1>4, <1>8 DEF IInv, TypeOK
  <2>2. c \in Claimants(n) /\ Claimants(n)' = Claimants(n) \ {c}
    BY <1>1, <1>2, <1>5, <1>6, <1>8 DEF Claimants
  <2>3. \A x \in Claimants(n) \ {c} : Claim'[x] =< Claim[x]
    <3>1. spent'[n] >= spent[n]
      BY <2>1 DEF IInv, TypeOK
    <3>2. \A x \in Claimants(n) \ {c} : x \in Calls \ {c}
      BY DEF Claimants
    <3> QED BY <1>1, <1>5, <3>1, <3>2, ClaimLess
  <2>4. run[n] \notin {"none", "model"}
    BY <1>3, <1>8
  <2>5. Fits(n) /\ Untouched(n)
    BY <1>1, <2>4 DEF Bounded, Untouched
  <2> QED BY <1>4, <2>1, <2>2, <2>3, <2>4, <2>5, FitsPaid
<1> QED BY <1>7, <1>8

\* A child starts: its account is empty, and its claim is what it inherits.
LEMMA InheritFits ==
  ASSUME IInv, Settled, Bounded, IInv', Settled', NEW n \in Nodes, NEW c \in Calls, Inherit(c)
  PROVE  Fits(n)'
<1> USE DEF Inherit, Move, Enter
<1> DEFINE o == owner[c]
<1>1. UNCHANGED <<spent, owner, kind>>
  OBVIOUS
<1>2. /\ stage[c] = "checked" /\ run[c] = "none" /\ kind[c] = "child" /\ c \in Nodes
      /\ o \in Nodes /\ run[o] \in {"cell", "failed"} /\ o # c
  BY DEF IInv, TypeOK, Owned, Quiet, NotYetRun, Settled, Nodes
<1>3. \A x \in Nodes \ {c} : run'[x] = run[x] /\ cap'[x] = cap[x] /\ depth'[x] = depth[x]
  BY DEF IInv, TypeOK
<1>4. /\ run'[c] = "turn" /\ cap'[c] = Remaining(o) /\ depth'[c] = depth[o] + 1
      /\ stage'[c] = "running"
  BY <1>2 DEF IInv, TypeOK
<1>5. \A x \in Calls \ {c} : stage'[x] = stage[x]
  BY DEF IInv, TypeOK
<1>6. CASE n = c
  <2>1. Claimants(n) = {}
    BY <1>2, <1>6, NoClaims
  <2>2. Claimants(n)' = {}
    BY <1>1, <1>2, <1>5, <1>6, <2>1 DEF Claimants
  <2>3. spent'[n] = 0
    BY <1>1, <1>2, <1>6 DEF Bounded, Fits
  <2> DEFINE g == Claim'
  <2>4. SumFunctionOnSet(g, {}) = 0
    <3> HIDE DEF g
    <3>1. IsFiniteSet({}) /\ Units(g, {}) = {} /\ Cardinality({}) = 0
      BY FS_EmptySet DEF Units
    <3> QED BY <3>1, SumIsCount
  <2>5. PICK d \in Nat : d = MaxDepth - depth'[n]
    BY SubcallAssumption DEF IInv, TypeOK
  <2>6. PICK r \in Nat : r = cap'[n]
    BY DEF IInv, TypeOK
  <2>7. 0 =< Limit(d, r, Dearest)
    BY LimitType, DearestIs
  <2> QED BY <1>4, <1>6, <2>2, <2>3, <2>4, <2>5, <2>6, <2>7 DEF Fits, g
<1>7. CASE n # c
  <2>1. Claimants(n)' = Claimants(n)
    BY <1>1, <1>2, <1>4, <1>5 DEF Claimants
  <2>2. \A x \in Claimants(n)' : Claim'[x] =< Claim[x]
    <3> SUFFICES ASSUME NEW x \in Claimants(n) PROVE Claim'[x] =< Claim[x]
      BY <2>1
    <3>1. x \in Calls /\ owner[x] = n /\ Claim[x] \in Nat
      BY ClaimType DEF Claimants
    <3>2. CASE x = c
      <4>1. Claim[c] = Limit(MaxDepth - (depth[o] + 1), Remaining(o), Dearest)
        BY <1>2 DEF Claim
      <4>2. Claim'[c] = Limit(MaxDepth - depth'[c], cap'[c], Dearest)
        BY <1>1, <1>2, <1>4 DEF Claim
      <4> QED BY <1>4, <3>1, <3>2, <4>1, <4>2
    <3>3. CASE x # c
      <4>1. Claim'[x] = Claim[x]
        BY <1>1, <1>3, <1>5, <1>7, <3>1, <3>3, ClaimSame DEF Nodes
      <4> QED BY <3>1, <4>1
    <3> QED BY <3>2, <3>3
  <2>3. Fits(n) /\ Untouched(n) /\ spent'[n] = spent[n]
    BY <1>1, <1>3, <1>7 DEF Bounded, Fits, Untouched
  <2>4. Claimants(n)' \subseteq Claimants(n)
    BY <2>1
  <2> QED BY <2>2, <2>3, <2>4, FitsKept
<1> QED BY <1>6, <1>7

\* What a claim stands for is set when the reply comes and when the child starts.
LEMMA ClaimedStep ==
  ASSUME IInv, Settled, Bounded, [Next]_vars, NEW x \in Calls
  PROVE  Claimed(x)'
<1> USE SubcallAssumption DEF IInv, TypeOK, Settled, Bounded, Claimed, Nodes, Stages,
        Enter, Move, Return, Taken, loopVars, budgetVars, callVars
<1>1. CASE UNCHANGED vars
  BY <1>1 DEF vars
<1>2. ASSUME NEW n \in Nodes,
             Loop(n) \/ HostWaitExpires(n) \/ ContainerDies(n) \/ DeadlinePasses(n)
      PROVE  Claimed(x)'
  BY <1>2 DEF Loop, StartTurn, RecordTurn, NextTurn, Answer, LoopAbort, HostWaitExpires,
              ContainerDies, DeadlinePasses
<1>3. ASSUME NEW n \in Nodes, NEW batch \in SUBSET Calls, NEW k \in {"leaf", "child"},
             Submit(n, batch, k)
      PROVE  Claimed(x)'
  BY <1>3 DEF Submit
<1>4. ASSUME NEW c \in Calls, Worker(c)
      PROVE  Claimed(x)'
  <2>1. CASE Refuse(c) \/ RefusePrompt(c) \/ ReplyFails(c) \/ LaunchRaises(c) \/ ChildFails(c)
    BY <2>1 DEF Refuse, RefusePrompt, ReplyFails, LaunchRaises, ChildFails
  <2>2. CASE SendLeaf(c)
    BY <2>2 DEF SendLeaf
  <2>3. CASE Reply(c)
    BY <2>3, DearestIs DEF Reply
  <2>4. CASE Acquire(c)
    BY <2>4 DEF Acquire
  <2>5. CASE ChargeLeaf(c)
    BY <2>5 DEF ChargeLeaf
  <2>6. CASE CheckChild(c)
    BY <2>6 DEF CheckChild
  <2>7. CASE Inherit(c)
    <3>1. owner[c] \in Nodes /\ owner[c] # c /\ (stage[x] # "done" => owner[x] # c)
      BY <2>7 DEF Inherit, Owned, Quiet, NotYetRun
    <3>2. Remaining(owner[c]) =< cap[owner[c]]
      BY <3>1 DEF Remaining
    <3> QED BY <2>7, <3>1, <3>2 DEF Inherit
  <2>8. CASE ChildReturns(c)
    BY <2>8 DEF ChildReturns
  <2>9. CASE FoldChild(c)
    BY <2>9 DEF FoldChild
  <2> QED BY <1>4, <2>1, <2>2, <2>3, <2>4, <2>5, <2>6, <2>7, <2>8, <2>9 DEF Worker
<1> QED BY <1>1, <1>2, <1>3, <1>4 DEF Next

\* Every step keeps spending and claims of a runtime within its limit.
LEMMA FitsStep ==
  ASSUME IInv, Settled, Bounded, IInv', Settled', [Next]_vars, NEW n \in Nodes
  PROVE  Fits(n)'
<1>1. CASE UNCHANGED vars
  <2>1. UNCHANGED <<run, spent, cap, depth, stage, owner, kind>>
    BY <1>1 DEF vars, loopVars, budgetVars, callVars
  <2>2. Claimants(n)' = Claimants(n)
    BY <2>1 DEF Claimants
  <2>3. run'[n] = "model" => spent[n] < cap[n]
    BY <2>1 DEF Bounded, Fits
  <2> QED BY <2>1, <2>2, <2>3, FitsIdle
<1>2. ASSUME NEW c \in Calls, Worker(c) PROVE Fits(n)'
  BY <1>2, QuietWorkerFits, GrantFits, PayFits, InheritFits DEF Worker
<1> QED BY <1>1, <1>2, LoopFits, SubmitFits DEF Next

\* At the start nothing is spent or claimed.
LEMMA InitBounded == Init => Bounded
<1> SUFFICES ASSUME Init PROVE Bounded
  OBVIOUS
<1>1. IInv /\ Settled
  BY InitAccount DEF Account
<1>2. ASSUME NEW c \in Calls PROVE Claimed(c)
  BY DEF Init, Claimed
<1>3. ASSUME NEW n \in Nodes PROVE Fits(n)
  <2>1. Claimants(n) = {}
    BY DEF Init, Claimants
  <2>2. SumFunctionOnSet(Claim, {}) = 0
    <3>1. IsFiniteSet({}) /\ Units(Claim, {}) = {} /\ Cardinality({}) = 0
      BY FS_EmptySet DEF Units
    <3> QED BY <3>1, SumIsCount
  <2>3. spent[n] = 0 /\ run[n] # "model"
    BY DEF Init
  <2>4. Limit(MaxDepth - depth[n], cap[n], Dearest) \in Nat
    <3>1. MaxDepth - depth[n] \in Nat /\ cap[n] \in Nat
      BY <1>1, SubcallAssumption DEF IInv, TypeOK
    <3> QED BY <3>1, LimitType, DearestIs
  <2> QED BY <2>1, <2>2, <2>3, <2>4 DEF Fits
<1> QED BY <1>2, <1>3 DEF Bounded

\* Concurrency multiplies the budget by the pool size at each level of the tree
\* and by no more.
THEOREM OverspendIsBounded == Spec => []OverspendBounded
<1>1. Init => IInv /\ Settled /\ Bounded
  BY InitAccount, InitBounded DEF Account
<1>2. (IInv /\ Settled /\ Bounded) /\ [Next]_vars => (IInv /\ Settled /\ Bounded)'
  <2> SUFFICES ASSUME IInv, Settled, Bounded, [Next]_vars PROVE (IInv /\ Settled /\ Bounded)'
    OBVIOUS
  <2>1. IInv' /\ Settled'
    BY NextIInv, SettledStep
  <2> QED BY <2>1, ClaimedStep, FitsStep DEF Bounded
<1>3. IInv /\ Settled /\ Bounded => OverspendBounded
  <2> SUFFICES ASSUME IInv, Settled, Bounded, NEW n \in Nodes, run[n] # "none"
               PROVE  spent[n] =< Limit(MaxDepth - depth[n], cap[n], Dearest)
    BY DEF OverspendBounded, Dearest
  <2>1. spent[n] + SumFunctionOnSet(Claim, Claimants(n))
          =< Limit(MaxDepth - depth[n], cap[n], Dearest)
    BY DEF Bounded, Fits
  <2>2. SumFunctionOnSet(Claim, Claimants(n)) \in Nat
    BY ClaimType, SumType
  <2>3. spent[n] \in Nat
    BY DEF IInv, TypeOK
  <2>4. Limit(MaxDepth - depth[n], cap[n], Dearest) \in Nat
    <3>1. MaxDepth - depth[n] \in Nat /\ cap[n] \in Nat
      BY SubcallAssumption DEF IInv, TypeOK
    <3> QED BY <3>1, LimitType, DearestIs
  <2> QED BY <2>1, <2>2, <2>3, <2>4
<1> QED BY <1>1, <1>2, <1>3, PTL DEF Spec
==============================================================================
