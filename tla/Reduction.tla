----------------------------- MODULE Reduction -----------------------------
(***************************************************************************)
(* The reduction of planned findings to the one text the report is         *)
(* rendered from: in rounds, the texts are packed in batches, a leaf       *)
(* summarises each batch, and its summaries are the texts of the next      *)
(* round, until one text within the target is left or a round changes      *)
(* nothing.  What PlannedWork does in its step Reduce.                     *)
(*                                                                         *)
(* A text is its size, the findings that can be read in it, and a shade    *)
(* that tells two texts with the same content apart.  Sizes are tokens and *)
(* add up.                                                                 *)
(***************************************************************************)
EXTENDS Integers, Sequences, Packing

CONSTANTS N,        \* bound on the findings
          Sizes,    \* sizes of findings
          Longest,  \* the size summaries are truncated to
          Targets,  \* values of reduction_target_tokens
          Calls     \* leaf calls the budget may still pay for

ASSUME ReductionAssumption ==
  /\ N \in Nat /\ Longest \in Nat \ {0}
  /\ Sizes \subseteq Nat \ {0} /\ Targets \subseteq Nat \ {0} /\ Calls \subseteq Nat

Findings == 1..N
Shades   == {0, 1}
Texts    == [size : 1..Longest, covers : SUBSET Findings, shade : Shades]
NoCap    == -1                                    \* a run without a budget
Error    == [size |-> 1, covers |-> {}, shade |-> 0]

VARIABLES
  pc,       \* "round": at the loop's test; "batch"; "done"; "raised"
  target,   \* reduction_target_tokens
  left,     \* leaf calls until the budget is exhausted, or NoCap
  current,  \* the texts of the round
  next,     \* the summaries so far
  total,    \* how many findings there were
  lossy     \* history: a leaf failed, or a summary was truncated

vars == <<pc, target, left, current, next, total, lossy>>

\* Without findings one text says so; it covers nothing.
Init == /\ pc = "round" /\ target \in Targets /\ left \in Calls \cup {NoCap}
        /\ next = << >> /\ lossy = FALSE
        /\ total \in 0..N
        /\ \E size \in [Findings -> Sizes] :
             current = IF total = 0 THEN << [Error EXCEPT !.shade = 1] >>
                       ELSE [k \in 1..total |->
                               [size |-> size[k], covers |-> {k}, shade |-> 0]]

Weights == [k \in DOMAIN current |-> current[k].size]
Batches == Groups(Weights, target)
Batch(b) == Members(Weights, target, b)

\* The test of the loop.
MustReduce == Len(current) > 1 \/ Weights[1] > target
StartRound == /\ pc = "round" /\ MustReduce
              /\ pc' = "batch" /\ next' = << >>
              /\ UNCHANGED <<target, left, current, total, lossy>>
Stop == /\ pc = "round" /\ ~MustReduce
        /\ pc' = "done"
        /\ UNCHANGED <<target, left, current, next, total, lossy>>

-----------------------------------------------------------------------------
(* A batch: one leaf call *)

Here == Batch(Len(next) + 1)
More == pc = "batch" /\ Len(next) + 1 \in Batches
Read == UNION {current[k].covers : k \in Here}
Append1(text) == next' = Append(next, text)

\* The summary keeps what the batch says.
Summarise ==
  /\ More /\ left # 0
  /\ \E text \in Texts : text.covers = Read /\ Append1(text)
  /\ left' = IF left = NoCap THEN NoCap ELSE left - 1
  /\ UNCHANGED <<pc, target, current, total, lossy>>

\* A summary that is too long is cut off, and may lose the rest.
Truncate ==
  /\ More /\ left # 0
  /\ \E text \in Texts : /\ text.size = Longest /\ text.covers \subseteq Read
                         /\ Append1(text)
  /\ left' = IF left = NoCap THEN NoCap ELSE left - 1
  /\ lossy' = TRUE
  /\ UNCHANGED <<pc, target, current, total>>

\* The budget is exhausted, or the call fails: its error text is the summary.
Fail ==
  /\ More
  /\ Append1(Error)
  /\ lossy' = TRUE
  /\ UNCHANGED <<pc, target, left, current, total>>

\* The charge for the call exhausts the budget, and raises.
ChargeRaises ==
  /\ More /\ left = 1
  /\ pc' = "raised"
  /\ UNCHANGED <<target, left, current, next, total, lossy>>

-----------------------------------------------------------------------------
\* Mutant: the last batch is left out.
EndRoundEarly ==
  /\ pc = "batch" /\ next # << >> /\ Len(next) + 2 \notin Batches
  /\ pc' = IF next = current THEN "done" ELSE "round"
  /\ current' = next
  /\ UNCHANGED <<target, left, next, total, lossy>>

\* Mutant: a round that changed nothing is followed by another.
EndRoundAgain ==
  /\ pc = "batch" /\ Len(next) + 1 \notin Batches
  /\ pc' = "round"
  /\ current' = next
  /\ UNCHANGED <<target, left, next, total, lossy>>

\* The end of a round; one that changed nothing ends the loop.
EndRound == /\ pc = "batch" /\ Len(next) + 1 \notin Batches
            /\ pc' = IF next = current THEN "done" ELSE "round"
            /\ current' = next
            /\ UNCHANGED <<target, left, next, total, lossy>>

Next == StartRound \/ Stop \/ Summarise \/ Truncate \/ Fail \/ ChargeRaises \/ EndRound

Spec == Init /\ [][Next]_vars /\ WF_vars(Next)

-----------------------------------------------------------------------------
TypeOK ==
  /\ pc \in {"round", "batch", "done", "raised"}
  /\ target \in Targets /\ left \in Nat \cup {NoCap} /\ total \in 0..N
  /\ lossy \in BOOLEAN
  /\ current \in Seq([size : Sizes \cup 1..Longest, covers : SUBSET Findings, shade : Shades])
  /\ next \in Seq(Texts)

\* Two summaries fit in one batch.
Roomy == target >= 2 * Longest

\* The text the report is rendered from says what all the findings say, when
\* no leaf failed and no summary was cut.
NothingDropped == pc = "done" /\ Roomy /\ ~lossy => current[1].covers = 1..total

\* The rounds come to an end, in a run with a budget or with room in a batch.
RoundsEnd == (Roomy \/ left # NoCap) ~> pc \in {"done", "raised"}
=============================================================================
