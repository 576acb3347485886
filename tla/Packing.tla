------------------------------- MODULE Packing -------------------------------
(***************************************************************************)
(* The greedy cut both the planner shards and the reduction batches are    *)
(* made by: items are taken in order, and an item that would bring a group *)
(* that is not empty above the target opens the next one.                  *)
(*                                                                         *)
(* Weights are tokens; the target is what the fixed part of the prompt     *)
(* leaves.                                                                 *)
(***************************************************************************)
EXTENDS Naturals, Sequences

\* Mutant of Cut: a group is closed when it is over the target, not before.
CutAfter(w, target) ==
  LET cut[k \in DOMAIN w] ==
        IF k = 1
          THEN [group |-> 1, load |-> w[1]]
          ELSE IF cut[k - 1].load > target
            THEN [group |-> cut[k - 1].group + 1, load |-> w[k]]
            ELSE [group |-> cut[k - 1].group, load |-> cut[k - 1].load + w[k]]
  IN cut

\* The group of each item, and what the group weighs up to that item.
Cut(w, target) ==
  LET cut[k \in DOMAIN w] ==
        IF k = 1
          THEN [group |-> 1, load |-> w[1]]
          ELSE IF cut[k - 1].load + w[k] > target
            THEN [group |-> cut[k - 1].group + 1, load |-> w[k]]
            ELSE [group |-> cut[k - 1].group, load |-> cut[k - 1].load + w[k]]
  IN cut

Groups(w, target) == {Cut(w, target)[k].group : k \in DOMAIN w}

Members(w, target, g) == {k \in DOMAIN w : Cut(w, target)[k].group = g}

Weigh(w, items) ==
  LET sum[k \in 0 .. Len(w)] ==
        IF k = 0 THEN 0 ELSE sum[k - 1] + IF k \in items THEN w[k] ELSE 0
  IN sum[Len(w)]

\* What a cut is for: consecutive groups, each one item or within the target,
\* and none that could have taken the first item of the next.
CutFits(w, target) ==
  LET first(g) == CHOOSE k \in Members(w, target, g) :
                    \A j \in Members(w, target, g) : k =< j
  IN /\ \A j, k \in DOMAIN w : j < k => Cut(w, target)[j].group =< Cut(w, target)[k].group
     /\ \A g \in Groups(w, target) :
          /\ \A h \in 1 .. g : h \in Groups(w, target)
          /\ \/ \E k \in DOMAIN w : Members(w, target, g) = {k}
             \/ Weigh(w, Members(w, target, g)) =< target
          /\ g + 1 \in Groups(w, target) =>
               Weigh(w, Members(w, target, g)) + w[first(g + 1)] > target
=============================================================================
