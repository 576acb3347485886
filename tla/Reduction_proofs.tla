--------------------------- MODULE Reduction_proofs ---------------------------
(***************************************************************************)
(* The greedy cut, for every sequence of weights and every target, and the *)
(* rounds of the reduction, whose batches it makes.                        *)
(*                                                                         *)
(* Induction is over sets of numbers, from the fact that the order of the  *)
(* naturals is well founded: a set that is not empty has a least element.  *)
(*                                                                         *)
(* The reduction drops nothing because the batches of a round are numbered *)
(* without a gap, so its end is the end of the texts; and because a round  *)
(* that changed nothing has one text: with two or more, each would have    *)
(* had a batch of its own, and two summaries fit in one.                   *)
(***************************************************************************)
EXTENDS Reduction, SequenceTheorems, WellFoundedInduction, TLAPS

\* A set of numbers that is not empty has a least element.
LEMMA Least ==
  ASSUME NEW S, S \subseteq Nat, S # {}
  PROVE  \E n \in S : \A m \in S : ~(m < n)
<1>1. IsWellFoundedOn(OpToRel(<, Nat), Nat)
  BY NatLessThanWellFounded
<1>2. \E x \in S : \A y \in S : ~ (<<y, x>> \in OpToRel(<, Nat))
  BY <1>1, WFMin
<1> QED  BY <1>2 DEF OpToRel

\* Induction from zero.
LEMMA Induct ==
  ASSUME NEW S, 0 \in S, \A n \in Nat : n \in S => n + 1 \in S
  PROVE  Nat \subseteq S
<1> SUFFICES ASSUME Nat \ S # {} PROVE FALSE  OBVIOUS
<1>1. PICK n \in Nat \ S : \A m \in Nat \ S : ~(m < n)
  BY Least
<1>2. n - 1 \in Nat /\ n - 1 \in S
  BY <1>1
<1> QED  BY <1>1, <1>2

\* One step of the cut: the group of item k, given those of the items before.
CutAt(f, w, room, k) ==
  IF k = 1 THEN [group |-> 1, load |-> w[1]]
  ELSE IF f[k - 1].load + w[k] > room
         THEN [group |-> f[k - 1].group + 1, load |-> w[k]]
         ELSE [group |-> f[k - 1].group, load |-> f[k - 1].load + w[k]]

Place == [group : Nat, load : Nat]

\* A step leads from places to a place.
LEMMA CutAtType ==
  ASSUME NEW f, NEW w, NEW room \in Nat, NEW k \in Nat, w[1] \in Nat, w[k] \in Nat,
         k # 1 => f[k - 1] \in Place
  PROVE  CutAt(f, w, room, k) \in Place
<1>1. CASE k = 1
  BY <1>1 DEF CutAt, Place
<1>2. CASE k # 1
  <2>1. PICK p \in Place : p = f[k - 1]
    BY <1>2
  <2>2. p.group + 1 \in Nat /\ p.load + w[k] \in Nat /\ p.group \in Nat
    BY <2>1 DEF Place
  <2> QED  BY <1>2, <2>1, <2>2 DEF CutAt, Place
<1> QED  BY <1>1, <1>2

\* The recursion of Cut has a solution.
LEMMA CutExists ==
  ASSUME NEW n \in Nat, NEW w \in [1 .. n -> Nat], NEW room \in Nat
  PROVE  \E f \in [1 .. n -> Place] : \A k \in 1 .. n : f[k] = CutAt(f, w, room, k)
<1> DEFINE Solved(m) == \E f \in [1 .. m -> Place] :
                           \A k \in 1 .. m : f[k] = CutAt(f, w, room, k)
           S == {m \in Nat : m =< n => Solved(m)}
<1>1. 0 \in S
  <2> DEFINE f == [k \in 1 .. 0 |-> [group |-> 0, load |-> 0]]
  <2>1. f \in [1 .. 0 -> Place] /\ \A k \in 1 .. 0 : f[k] = CutAt(f, w, room, k)
    OBVIOUS
  <2> HIDE DEF f
  <2>2. Solved(0)
    BY <2>1
  <2> QED  BY <2>2
<1>2. ASSUME NEW m \in Nat, m \in S PROVE m + 1 \in S
  <2> SUFFICES ASSUME m + 1 =< n PROVE Solved(m + 1)
    OBVIOUS
  <2>1. PICK f \in [1 .. m -> Place] : \A k \in 1 .. m : f[k] = CutAt(f, w, room, k)
    BY <1>2
  <2> DEFINE g == [k \in 1 .. m + 1 |-> IF k =< m THEN f[k] ELSE CutAt(f, w, room, m + 1)]
  <2>2. CutAt(f, w, room, m + 1) \in Place
    <3>1. w[m + 1] \in Nat /\ w[1] \in Nat
      OBVIOUS
    <3>2. m + 1 # 1 => f[m + 1 - 1] \in Place
      OBVIOUS
    <3> QED  BY <3>1, <3>2, CutAtType, SMTT(20)
  <2>3. g \in [1 .. m + 1 -> Place]
    BY <2>2
  <2>4. ASSUME NEW k \in 1 .. m + 1 PROVE g[k] = CutAt(g, w, room, k)
    <3>1. k # 1 => g[k - 1] = f[k - 1]
      OBVIOUS
    <3>2. CutAt(g, w, room, k) = CutAt(f, w, room, k)
      BY <3>1 DEF CutAt
    <3> QED  BY <2>1, <3>2
  <2> QED  BY <2>3, <2>4
<1> HIDE DEF S
<1>3. n \in S
  BY <1>1, <1>2, Induct
<1> QED  BY <1>3 DEF S

\* So Cut is what its equation says.
LEMMA CutIs ==
  ASSUME NEW n \in Nat, NEW w \in [1 .. n -> Nat], NEW room \in Nat
  PROVE  /\ Cut(w, room) \in [1 .. n -> Place]
         /\ \A k \in 1 .. n : Cut(w, room)[k] = CutAt(Cut(w, room), w, room, k)
<1> DEFINE Sol(f) == f = [k \in DOMAIN w |-> CutAt(f, w, room, k)]
<1>1. PICK f \in [1 .. n -> Place] : \A k \in 1 .. n : f[k] = CutAt(f, w, room, k)
  BY CutExists
<1>2. DOMAIN w = 1 .. n
  OBVIOUS
<1>3. Sol(f)
  BY <1>1, <1>2
<1>4. Cut(w, room) = CHOOSE g : Sol(g)
  BY DEF Cut, CutAt
<1>5. Cut(w, room) = [k \in 1 .. n |-> CutAt(Cut(w, room), w, room, k)]
  BY <1>2, <1>3, <1>4
<1>6. \A k \in 1 .. n : Cut(w, room)[k] = CutAt(Cut(w, room), w, room, k)
  BY <1>5
<1> DEFINE S == {k \in Nat : k \in 1 .. n => Cut(w, room)[k] \in Place}
<1>7. ASSUME NEW k \in Nat, k \in S PROVE k + 1 \in S
  <2> SUFFICES ASSUME k + 1 \in 1 .. n PROVE Cut(w, room)[k + 1] \in Place
    OBVIOUS
  <2>1. PICK j \in 1 .. n : j = k + 1
    OBVIOUS
  <2>2. w[j] \in Nat /\ w[1] \in Nat /\ j \in Nat
    OBVIOUS
  <2>3. j # 1 => Cut(w, room)[j - 1] \in Place
    BY <1>7, <2>1
  <2> HIDE DEF S
  <2>4. CutAt(Cut(w, room), w, room, j) \in Place
    BY <2>2, <2>3, CutAtType
  <2> QED  BY <1>6, <2>1, <2>4
<1>8. 0 \in S
  OBVIOUS
<1> HIDE DEF S
<1>9. Nat \subseteq S
  BY <1>7, <1>8, Induct
<1>10. \A k \in 1 .. n : Cut(w, room)[k] \in Place
  BY <1>9 DEF S
<1> QED  BY <1>5, <1>6, <1>10

GroupOf(w, room, k) == Cut(w, room)[k].group
LoadOf(w, room, k) == Cut(w, room)[k].load

\* The cut goes on in the same group, or opens the next one.
LEMMA CutSteps ==
  ASSUME NEW n \in Nat, NEW w \in [1 .. n -> Nat], NEW room \in Nat
  PROVE  /\ n # 0 => GroupOf(w, room, 1) = 1 /\ LoadOf(w, room, 1) = w[1]
         /\ \A k \in 1 .. n : GroupOf(w, room, k) \in Nat /\ LoadOf(w, room, k) \in Nat
         /\ \A k \in 1 .. n - 1 :
              \/ /\ LoadOf(w, room, k) + w[k + 1] > room
                 /\ GroupOf(w, room, k + 1) = GroupOf(w, room, k) + 1
                 /\ LoadOf(w, room, k + 1) = w[k + 1]
              \/ /\ LoadOf(w, room, k) + w[k + 1] =< room
                 /\ GroupOf(w, room, k + 1) = GroupOf(w, room, k)
                 /\ LoadOf(w, room, k + 1) = LoadOf(w, room, k) + w[k + 1]
<1> DEFINE cut == Cut(w, room)
<1> USE DEF GroupOf, LoadOf
<1>1. cut \in [1 .. n -> Place] /\ \A k \in 1 .. n : cut[k] = CutAt(cut, w, room, k)
  BY CutIs
<1> HIDE DEF cut
<1>2. n # 0 => cut[1].group = 1 /\ cut[1].load = w[1]
  BY <1>1 DEF CutAt
<1>3. \A k \in 1 .. n : cut[k].group \in Nat /\ cut[k].load \in Nat /\ w[k] \in Nat
  BY <1>1 DEF Place
<1>4. ASSUME NEW k \in 1 .. n - 1
      PROVE  \/ /\ cut[k].load + w[k + 1] > room
                /\ cut[k + 1].group = cut[k].group + 1 /\ cut[k + 1].load = w[k + 1]
             \/ /\ cut[k].load + w[k + 1] =< room
                /\ cut[k + 1].group = cut[k].group
                /\ cut[k + 1].load = cut[k].load + w[k + 1]
  <2>1. cut[k + 1] = CutAt(cut, w, room, k + 1) /\ k + 1 # 1 /\ k + 1 - 1 = k
    BY <1>1
  <2>2. /\ cut[k].load \in Nat /\ w[k + 1] \in Nat
        /\ \/ cut[k].load + w[k + 1] > room
           \/ cut[k].load + w[k + 1] =< room
    BY <1>3
  <2>3. CASE cut[k].load + w[k + 1] > room
    BY <2>1, <2>3 DEF CutAt
  <2>4. CASE cut[k].load + w[k + 1] =< room
    <3>1. ~(cut[k].load + w[k + 1] > room)
      BY <2>2, <2>4
    <3> QED  BY <2>1, <2>4, <3>1 DEF CutAt
  <2> QED  BY <2>2, <2>3, <2>4
<1> QED  BY <1>2, <1>3, <1>4 DEF cut

\* Groups are numbered from one, in the order of the items, without a gap.
THEOREM GroupsConsecutive ==
  ASSUME NEW n \in Nat, NEW w \in [1 .. n -> Nat], NEW room \in Nat
  PROVE  /\ \A j, k \in 1 .. n : j < k => Cut(w, room)[j].group =< Cut(w, room)[k].group
         /\ Groups(w, room) \subseteq Nat \ {0}
         /\ \A g \in Groups(w, room) : 1 .. g \subseteq Groups(w, room)
<1> DEFINE group(k) == GroupOf(w, room, k)
<1>1. /\ n # 0 => group(1) = 1
      /\ \A k \in 1 .. n : group(k) \in Nat
      /\ \A k \in 1 .. n - 1 : group(k + 1) \in {group(k), group(k) + 1}
  BY CutSteps
<1>2. Groups(w, room) = {group(k) : k \in 1 .. n}
  BY DEF Groups, GroupOf
<1> HIDE DEF group
<1> DEFINE S == {k \in Nat : k \in 1 .. n =>
                   /\ \A j \in 1 .. k : group(j) =< group(k)
                   /\ group(k) > 0
                   /\ \A h \in 1 .. group(k) : \E j \in 1 .. n : group(j) = h}
<1>3. 0 \in S
  OBVIOUS
<1>4. ASSUME NEW k \in Nat, k \in S PROVE k + 1 \in S
  <2> SUFFICES ASSUME k + 1 \in 1 .. n
               PROVE  /\ \A j \in 1 .. k + 1 : group(j) =< group(k + 1)
                      /\ group(k + 1) > 0
                      /\ \A h \in 1 .. group(k + 1) : \E j \in 1 .. n : group(j) = h
    OBVIOUS
  <2>1. CASE k = 0
    BY <1>1, <2>1
  <2>2. CASE k # 0
    <3>1. /\ k \in 1 .. n - 1 /\ \A j \in 1 .. k : group(j) =< group(k)
          /\ group(k) > 0
          /\ \A h \in 1 .. group(k) : \E j \in 1 .. n : group(j) = h
      BY <1>4, <2>2
    <3>2. group(k + 1) \in {group(k), group(k) + 1} /\ group(k) \in Nat
      BY <1>1, <3>1
    <3>3. ASSUME NEW j \in 1 .. k + 1 PROVE group(j) =< group(k + 1)
      BY <1>1, <3>1, <3>2
    <3>4. ASSUME NEW h \in 1 .. group(k + 1) PROVE \E j \in 1 .. n : group(j) = h
      <4>1. h \in 1 .. group(k) \/ h = group(k + 1)
        BY <3>2
      <4> QED  BY <3>1, <4>1
    <3> QED  BY <3>1, <3>2, <3>3, <3>4
  <2> QED  BY <2>1, <2>2
<1> HIDE DEF S
<1>5. Nat \subseteq S
  BY <1>3, <1>4, Induct
<1>6. \A k \in 1 .. n :
        /\ \A j \in 1 .. k : group(j) =< group(k)
        /\ group(k) > 0
        /\ \A h \in 1 .. group(k) : \E j \in 1 .. n : group(j) = h
  BY <1>5 DEF S
<1>7. \A j, k \in 1 .. n : j < k => group(j) =< group(k)
  BY <1>6
<1>8. Groups(w, room) \subseteq Nat \ {0}
  BY <1>1, <1>2, <1>6
<1>9. \A g \in Groups(w, room) : 1 .. g \subseteq Groups(w, room)
  BY <1>2, <1>6
<1> QED  BY <1>7, <1>8, <1>9 DEF group, GroupOf

\* So the groups are 1 .. m, and there are no more of them than items.
LEMMA GroupsCount ==
  ASSUME NEW n \in Nat, NEW w \in [1 .. n -> Nat], NEW room \in Nat
  PROVE  \E m \in 0 .. n : Groups(w, room) = 1 .. m
<1> DEFINE group(k) == GroupOf(w, room, k)
           G == Groups(w, room)
<1>1. /\ n # 0 => group(1) = 1
      /\ \A k \in 1 .. n : group(k) \in Nat
      /\ \A k \in 1 .. n - 1 : group(k + 1) \in {group(k), group(k) + 1}
  BY CutSteps
<1>2. /\ \A j, k \in 1 .. n : j < k => group(j) =< group(k)
      /\ \A g \in G : 1 .. g \subseteq G
      /\ G \subseteq Nat \ {0}
  BY GroupsConsecutive DEF GroupOf
<1>3. G = {group(k) : k \in 1 .. n}
  BY DEF Groups, GroupOf
<1> HIDE DEF group, G
<1> DEFINE S == {k \in Nat : k \in 1 .. n => group(k) =< k}
<1>4. 0 \in S
  OBVIOUS
<1>5. ASSUME NEW k \in Nat, k \in S PROVE k + 1 \in S
  <2> SUFFICES ASSUME k + 1 \in 1 .. n PROVE group(k + 1) =< k + 1
    OBVIOUS
  <2>1. CASE k = 0
    BY <1>1, <2>1
  <2>2. CASE k # 0
    <3>1. k \in 1 .. n - 1 /\ k \in 1 .. n
      BY <2>2
    <3>2. group(k) \in Nat /\ group(k + 1) \in {group(k), group(k) + 1}
      BY <1>1, <3>1
    <3>3. group(k) =< k
      BY <1>5, <3>1
    <3> QED  BY <3>2, <3>3
  <2> QED  BY <2>1, <2>2
<1> HIDE DEF S
<1>6. Nat \subseteq S
  BY <1>4, <1>5, Induct
<1>7. CASE n = 0
  <2>1. G = 1 .. 0
    BY <1>3, <1>7
  <2> QED  BY <2>1 DEF G
<1>8. CASE n # 0
  <2>1. n \in 1 .. n
    BY <1>8
  <2>2. group(n) =< n /\ group(n) \in G /\ group(n) \in Nat
    BY <1>1, <1>3, <1>6, <2>1 DEF S
  <2>3. ASSUME NEW g \in G PROVE g \in 1 .. group(n)
    <3>1. PICK k \in 1 .. n : g = group(k)
      BY <1>3
    <3>2. k = n \/ k < n
      OBVIOUS
    <3>3. g =< group(n) /\ g \in Nat \ {0}
      BY <1>2, <2>1, <2>2, <3>1, <3>2
    <3> QED  BY <2>2, <3>3
  <2>4. G = 1 .. group(n)
    BY <1>2, <2>2, <2>3
  <2> QED  BY <2>2, <2>4 DEF G
<1> QED  BY <1>7, <1>8

\* The weight of some items among the first k.
SumAt(f, w, items, k) == IF k = 0 THEN 0 ELSE f[k - 1] + IF k \in items THEN w[k] ELSE 0
Sums(w, items) ==
  CHOOSE f : f = [k \in 0 .. Len(w) |-> SumAt(f, w, items, k)]

\* The recursion of Weigh has a solution.
LEMMA SumExists ==
  ASSUME NEW n \in Nat, NEW w \in [1 .. n -> Nat], NEW items
  PROVE  \E f \in [0 .. n -> Nat] : \A k \in 0 .. n : f[k] = SumAt(f, w, items, k)
<1> DEFINE Solved(m) == \E f \in [0 .. m -> Nat] : \A k \in 0 .. m : f[k] = SumAt(f, w, items, k)
           S == {m \in Nat : m =< n => Solved(m)}
<1>1. 0 \in S
  <2> DEFINE f == [k \in 0 .. 0 |-> 0]
  <2>1. f \in [0 .. 0 -> Nat] /\ \A k \in 0 .. 0 : f[k] = SumAt(f, w, items, k)
    BY DEF SumAt
  <2> HIDE DEF f
  <2>2. Solved(0)
    BY <2>1
  <2> QED  BY <2>2
<1>2. ASSUME NEW m \in Nat, m \in S PROVE m + 1 \in S
  <2> SUFFICES ASSUME m + 1 =< n PROVE Solved(m + 1)
    OBVIOUS
  <2>1. PICK f \in [0 .. m -> Nat] : \A k \in 0 .. m : f[k] = SumAt(f, w, items, k)
    BY <1>2
  <2> DEFINE g == [k \in 0 .. m + 1 |-> IF k =< m THEN f[k] ELSE SumAt(f, w, items, m + 1)]
  <2>2. SumAt(f, w, items, m + 1) \in Nat
    <3>1. w[m + 1] \in Nat /\ f[m + 1 - 1] \in Nat
      OBVIOUS
    <3> QED  BY <3>1 DEF SumAt
  <2>3. g \in [0 .. m + 1 -> Nat]
    BY <2>2
  <2>4. ASSUME NEW k \in 0 .. m + 1 PROVE g[k] = SumAt(g, w, items, k)
    <3>1. k # 0 => g[k - 1] = f[k - 1]
      OBVIOUS
    <3>2. SumAt(g, w, items, k) = SumAt(f, w, items, k)
      BY <3>1 DEF SumAt
    <3> QED  BY <2>1, <3>2
  <2> QED  BY <2>3, <2>4
<1> HIDE DEF S
<1>3. n \in S
  BY <1>1, <1>2, Induct
<1> QED  BY <1>3 DEF S

\* So Weigh is the last of the sums, and each sum adds one item to the one before.
LEMMA SumsAre ==
  ASSUME NEW n \in Nat, NEW w \in [1 .. n -> Nat], NEW items
  PROVE  /\ Weigh(w, items) = Sums(w, items)[n]
         /\ Sums(w, items)[0] = 0
         /\ \A k \in 1 .. n : Sums(w, items)[k] = SumAt(Sums(w, items), w, items, k)
<1> DEFINE Sol(f) == f = [k \in 0 .. Len(w) |-> SumAt(f, w, items, k)]
<1>1. PICK f \in [0 .. n -> Nat] : \A k \in 0 .. n : f[k] = SumAt(f, w, items, k)
  BY SumExists, SMTT(20)
<1>2. Len(w) = n
  OBVIOUS
<1>3. Sol(f)
  BY <1>1, <1>2
<1>4. Sums(w, items) = CHOOSE g : Sol(g)
  BY DEF Sums
<1>5. Sums(w, items) = [k \in 0 .. n |-> SumAt(Sums(w, items), w, items, k)]
  BY <1>2, <1>3, <1>4
<1>6. Weigh(w, items) = Sums(w, items)[n]
  BY <1>2 DEF Weigh, Sums, SumAt
<1>7. \A k \in 0 .. n : Sums(w, items)[k] = SumAt(Sums(w, items), w, items, k)
  BY <1>5
<1> QED  BY <1>6, <1>7 DEF SumAt

\* What the items of group g weigh among the first k: nothing before the group,
\* and in it what the cut has in hand.
LEMMA LoadIsSum ==
  ASSUME NEW n \in Nat, NEW w \in [1 .. n -> Nat], NEW room \in Nat, NEW g \in Nat \ {0}
  PROVE  \A k \in 1 .. n :
           /\ GroupOf(w, room, k) < g => Sums(w, Members(w, room, g))[k] = 0
           /\ GroupOf(w, room, k) = g =>
                Sums(w, Members(w, room, g))[k] = LoadOf(w, room, k)
<1> DEFINE group(k) == GroupOf(w, room, k)
           load(k) == LoadOf(w, room, k)
           M == Members(w, room, g)
           sum(k) == Sums(w, M)[k]
<1>1. /\ n # 0 => group(1) = 1 /\ load(1) = w[1]
      /\ \A k \in 1 .. n : group(k) \in Nat /\ load(k) \in Nat
      /\ \A k \in 1 .. n - 1 :
           \/ group(k + 1) = group(k) + 1 /\ load(k + 1) = w[k + 1]
           \/ group(k + 1) = group(k) /\ load(k + 1) = load(k) + w[k + 1]
  BY CutSteps, ZenonT(20)
<1>2. \A k \in 1 .. n : k \in M <=> group(k) = g
  BY DEF Members, GroupOf
<1>3. /\ sum(0) = 0
      /\ \A k \in 1 .. n : sum(k) = sum(k - 1) + IF k \in M THEN w[k] ELSE 0
  <2>1. ASSUME NEW k \in 1 .. n
        PROVE  sum(k) = sum(k - 1) + IF k \in M THEN w[k] ELSE 0
    <3>1. Sums(w, M)[k] = SumAt(Sums(w, M), w, M, k)
      BY SumsAre
    <3> QED  BY <3>1 DEF SumAt
  <2>2. sum(0) = 0
    BY SumsAre
  <2> QED  BY <2>1, <2>2
<1> HIDE DEF group, load, M, sum
<1> DEFINE S == {k \in Nat : k \in 1 .. n =>
                   /\ group(k) < g => sum(k) = 0
                   /\ group(k) = g => sum(k) = load(k)}
<1>4. 0 \in S
  OBVIOUS
<1>5. ASSUME NEW k \in Nat, k \in S PROVE k + 1 \in S
  <2> SUFFICES ASSUME k + 1 \in 1 .. n
               PROVE  /\ group(k + 1) < g => sum(k + 1) = 0
                      /\ group(k + 1) = g => sum(k + 1) = load(k + 1)
    OBVIOUS
  <2>1. sum(k + 1) = sum(k) + IF group(k + 1) = g THEN w[k + 1] ELSE 0
    BY <1>2, <1>3
  <2>2. w[k + 1] \in Nat /\ group(k + 1) \in Nat
    BY <1>1
  <2>3. CASE k = 0
    BY <1>1, <1>3, <2>1, <2>2, <2>3
  <2>4. CASE k # 0
    <3>0. k \in 1 .. n - 1 /\ k \in 1 .. n
      BY <2>4
    <3>1. /\ k \in 1 .. n - 1 /\ group(k) \in Nat /\ load(k) \in Nat
          /\ group(k) < g => sum(k) = 0
          /\ group(k) = g => sum(k) = load(k)
      BY <1>1, <1>5, <3>0
    <3>2. \/ group(k + 1) = group(k) + 1 /\ load(k + 1) = w[k + 1]
          \/ group(k + 1) = group(k) /\ load(k + 1) = load(k) + w[k + 1]
      BY <1>1, <3>1
    <3> QED  BY <2>1, <2>2, <3>1, <3>2
  <2> QED  BY <2>3, <2>4
<1> HIDE DEF S
<1>6. Nat \subseteq S
  BY <1>4, <1>5, Induct
<1>7. \A k \in 1 .. n : /\ group(k) < g => sum(k) = 0
                        /\ group(k) = g => sum(k) = load(k)
  BY <1>6 DEF S
<1> QED  BY <1>7 DEF group, load, sum, M

\* Every group has a last item; what the cut has in hand there is what the group weighs.
LEMMA LastOfGroup ==
  ASSUME NEW n \in Nat, NEW w \in [1 .. n -> Nat], NEW room \in Nat,
         NEW g \in Groups(w, room)
  PROVE  \E l \in 1 .. n :
           /\ GroupOf(w, room, l) = g
           /\ \A k \in 1 .. n : k > l => GroupOf(w, room, k) > g
           /\ l # n => GroupOf(w, room, l + 1) = g + 1
           /\ Weigh(w, Members(w, room, g)) = LoadOf(w, room, l)
<1> DEFINE group(k) == GroupOf(w, room, k)
           load(k) == LoadOf(w, room, k)
           M == Members(w, room, g)
           sum(k) == Sums(w, M)[k]
<1>1. /\ \A k \in 1 .. n : group(k) \in Nat /\ load(k) \in Nat
      /\ \A k \in 1 .. n - 1 : group(k + 1) \in {group(k), group(k) + 1}
  BY CutSteps
<1>2. /\ \A j, k \in 1 .. n : j < k => group(j) =< group(k)
      /\ g \in Nat \ {0}
  BY GroupsConsecutive DEF GroupOf
<1>3. PICK k0 \in 1 .. n : group(k0) = g
  BY DEF Groups, GroupOf
<1>4. \A k \in 1 .. n : k \in M <=> group(k) = g
  BY DEF Members, GroupOf
<1>5. /\ Weigh(w, M) = sum(n)
      /\ \A k \in 1 .. n : sum(k) = sum(k - 1) + IF k \in M THEN w[k] ELSE 0
  <2>1. ASSUME NEW k \in 1 .. n
        PROVE  sum(k) = sum(k - 1) + IF k \in M THEN w[k] ELSE 0
    <3>1. Sums(w, M)[k] = SumAt(Sums(w, M), w, M, k)
      BY SumsAre
    <3> QED  BY <3>1 DEF SumAt
  <2>2. Weigh(w, M) = sum(n)
    BY SumsAre
  <2> QED  BY <2>1, <2>2
<1>6. \A k \in 1 .. n : group(k) = g => sum(k) = load(k)
  BY <1>2, LoadIsSum
<1> HIDE DEF group, load, M, sum
<1>7. PICK l \in 1 .. n : group(l) = g /\ (l # n => group(l + 1) # g)
  <2> SUFFICES ASSUME \A l \in 1 .. n : group(l) = g => l # n /\ group(l + 1) = g
               PROVE  FALSE
    OBVIOUS
  <2> DEFINE S == {k \in Nat : k0 + k \in 1 .. n /\ group(k0 + k) = g}
  <2>1. 0 \in S
    BY <1>3
  <2>2. ASSUME NEW k \in Nat, k \in S PROVE k + 1 \in S
    <3>1. k0 + k \in 1 .. n /\ k0 + k # n /\ group(k0 + k + 1) = g
      BY <2>2
    <3>2. k0 + k + 1 = k0 + (k + 1) /\ k0 + (k + 1) \in 1 .. n
      BY <3>1
    <3> QED  BY <3>1, <3>2
  <2> HIDE DEF S
  <2>3. n \in S
    BY <2>1, <2>2, Induct
  <2> QED  BY <2>3 DEF S
<1>8. l # n => l \in 1 .. n - 1 /\ l + 1 \in 1 .. n /\ group(l + 1) = g + 1
  BY <1>1, <1>7
<1>9. ASSUME NEW k \in 1 .. n, k > l PROVE group(k) > g
  <2>1. group(l + 1) = g + 1 /\ l + 1 \in 1 .. n /\ (k = l + 1 \/ l + 1 < k)
    BY <1>8, <1>9
  <2>2. group(k) \in Nat /\ group(l + 1) =< group(k)
    BY <1>1, <1>2, <2>1
  <2> QED  BY <1>2, <2>1, <2>2
<1>10. sum(n) = load(l)
  <2> DEFINE S == {k \in Nat : l + k \in 1 .. n => sum(l + k) = load(l)}
  <2>1. 0 \in S
    BY <1>6, <1>7
  <2>2. ASSUME NEW k \in Nat, k \in S PROVE k + 1 \in S
    <3> SUFFICES ASSUME l + (k + 1) \in 1 .. n PROVE sum(l + (k + 1)) = load(l)
      OBVIOUS
    <3>1. PICK j \in 1 .. n : j = l + (k + 1)
      OBVIOUS
    <3>2. j > l /\ j - 1 = l + k /\ l + k \in 1 .. n
      BY <3>1
    <3>3. sum(j - 1) = load(l)
      BY <2>2, <3>2
    <3>4. j \notin M
      BY <1>2, <1>4, <1>9, <3>2
    <3>5. sum(j) = load(l) + 0
      BY <1>5, <3>3, <3>4
    <3> QED  BY <1>1, <3>1, <3>5
  <2> HIDE DEF S
  <2>3. n - l \in S
    <3>1. Nat \subseteq S
      BY <2>1, <2>2, Induct
    <3> QED  BY <3>1
  <2>4. l + (n - l) = n
    OBVIOUS
  <2> QED  BY <2>3, <2>4 DEF S
<1> QED  BY <1>5, <1>7, <1>8, <1>9, <1>10 DEF group, load, M, sum

\* What the cut has in hand is within the target, or is one item.
LEMMA LoadFits ==
  ASSUME NEW n \in Nat, NEW w \in [1 .. n -> Nat], NEW room \in Nat, NEW k \in 1 .. n
  PROVE  \/ LoadOf(w, room, k) =< room
         \/ k = 1
         \/ GroupOf(w, room, k - 1) < GroupOf(w, room, k)
<1> SUFFICES ASSUME k # 1
             PROVE  \/ LoadOf(w, room, k) =< room
                    \/ GroupOf(w, room, k - 1) < GroupOf(w, room, k)
  OBVIOUS
<1>1. PICK j \in 1 .. n - 1 : k = j + 1
  OBVIOUS
<1>2. \/ LoadOf(w, room, j + 1) = LoadOf(w, room, j) + w[j + 1]
         /\ LoadOf(w, room, j) + w[j + 1] =< room
      \/ GroupOf(w, room, j + 1) = GroupOf(w, room, j) + 1
  BY CutSteps
<1>3. GroupOf(w, room, j) \in Nat /\ j = k - 1
  BY <1>1, CutSteps
<1> QED  BY <1>1, <1>2, <1>3

\* Every cut fits: whatever the weights and the target, the groups are consecutive,
\* each is one item or within the target, and none could have taken the item the
\* next one starts with (the shard loop of plan_units, the batch loop of reduce).
THEOREM CutAlwaysFits ==
  ASSUME NEW n \in Nat, NEW w \in [1 .. n -> Nat], NEW room \in Nat
  PROVE  CutFits(w, room)
<1> DEFINE group(k) == GroupOf(w, room, k)
           load(k) == LoadOf(w, room, k)
           M(g) == Members(w, room, g)
           weight(g) == Weigh(w, M(g))
           first(g) == CHOOSE k \in M(g) : \A j \in M(g) : k =< j
           G == Groups(w, room)
<1>1. /\ \A j, k \in 1 .. n : j < k => group(j) =< group(k)
      /\ G \subseteq Nat \ {0}
      /\ \A g \in G : \A h \in 1 .. g : h \in G
  BY GroupsConsecutive DEF GroupOf
<1>2. DOMAIN w = 1 .. n /\ \A k \in 1 .. n : group(k) \in Nat /\ load(k) \in Nat
  BY CutSteps
<1>3. \A g \in G, k \in 1 .. n : k \in M(g) <=> group(k) = g
  BY DEF Members, GroupOf
<1>4. \A g \in G : M(g) \subseteq 1 .. n
  BY DEF Members
<1>5. \A k \in 1 .. n - 1 : \/ load(k) + w[k + 1] > room
                            \/ group(k + 1) = group(k)
  BY CutSteps
<1>6. \A k \in 1 .. n : load(k) =< room \/ k = 1 \/ group(k - 1) < group(k)
  BY LoadFits
<1>7. \A g \in G : \E l \in 1 .. n :
        /\ group(l) = g
        /\ \A k \in 1 .. n : k > l => group(k) > g
        /\ l # n => group(l + 1) = g + 1
        /\ weight(g) = load(l)
  BY LastOfGroup
<1>8. \A g \in G : \E k \in 1 .. n : group(k) = g
  BY DEF Groups, GroupOf
<1> HIDE DEF group, load, M, weight, G
<1>9. ASSUME NEW g \in G
      PROVE  /\ (\E k \in 1 .. n : M(g) = {k}) \/ weight(g) =< room
             /\ g + 1 \in G => weight(g) + w[first(g + 1)] > room
  <2>1. PICK l \in 1 .. n : /\ group(l) = g
                            /\ \A k \in 1 .. n : k > l => group(k) > g
                            /\ l # n => group(l + 1) = g + 1
                            /\ weight(g) = load(l)
    BY <1>7
  <2>2. g \in Nat \ {0}
    BY <1>1
  <2>3. ASSUME ~ (load(l) =< room) PROVE M(g) = {l}
    <3>1. l = 1 \/ group(l - 1) < g
      BY <1>6, <2>1, <2>3
    <3>2. ASSUME NEW k \in 1 .. n, group(k) = g PROVE k = l
      <4>1. ~ (k > l)
        BY <2>1, <2>2, <3>2
      <4>2. ~ (k < l)
        <5> SUFFICES ASSUME k < l PROVE FALSE
          OBVIOUS
        <5>1. PICK m \in 1 .. n : m = l - 1
          OBVIOUS
        <5>2. group(m) < g /\ group(m) \in Nat /\ (k = m \/ k < m)
          BY <1>2, <3>1, <5>1
        <5> QED  BY <1>1, <2>2, <3>2, <5>2
      <4> QED  BY <4>1, <4>2
    <3> QED  BY <1>3, <1>4, <2>1, <3>2
  <2>4. ASSUME g + 1 \in G PROVE weight(g) + w[first(g + 1)] > room
    <3>1. PICK k \in 1 .. n : group(k) = g + 1
      BY <1>8, <2>4
    <3>2. l # n
      <4> SUFFICES ASSUME l = n PROVE FALSE
        OBVIOUS
      <4>1. k = l \/ k < l
        OBVIOUS
      <4>2. group(k) =< g
        BY <1>1, <2>1, <2>2, <3>1, <4>1
      <4> QED  BY <2>2, <3>1, <4>2
    <3>3. l \in 1 .. n - 1 /\ l + 1 \in 1 .. n /\ group(l + 1) = g + 1
      BY <2>1, <3>2
    <3>4. l + 1 \in M(g + 1)
      BY <1>3, <2>4, <3>3
    <3>5. ASSUME NEW j \in M(g + 1) PROVE l + 1 =< j
      <4>1. j \in 1 .. n /\ group(j) = g + 1
        BY <1>3, <1>4, <2>4
      <4>2. ~ (j =< l)
        <5> SUFFICES ASSUME j =< l PROVE FALSE
          OBVIOUS
        <5>1. group(j) =< g
          BY <1>1, <2>1, <2>2, <4>1
        <5> QED  BY <2>2, <4>1, <5>1
      <4> QED  BY <4>1, <4>2
    <3>6. first(g + 1) = l + 1
      <4>1. first(g + 1) \in M(g + 1) /\ \A j \in M(g + 1) : first(g + 1) =< j
        BY <3>4, <3>5
      <4>2. first(g + 1) =< l + 1 /\ l + 1 =< first(g + 1) /\ first(g + 1) \in Nat
        <5> HIDE DEF first
        <5> QED  BY <1>4, <2>4, <3>4, <3>5, <4>1
      <4> HIDE DEF first
      <4> QED  BY <4>2
    <3>7. load(l) + w[l + 1] > room
      BY <1>5, <2>1, <2>2, <3>3
    <3> HIDE DEF first
    <3> QED  BY <2>1, <3>6, <3>7
  <2> QED  BY <2>1, <2>3, <2>4
<1> QED  BY <1>1, <1>2, <1>9 DEF CutFits, group, weight, M, G, GroupOf

-----------------------------------------------------------------------------
(* The reduction.                                                          *)

Said(texts) == UNION {texts[k].covers : k \in DOMAIN texts}

\* Between rounds and in one, the texts of the round say what all findings say.
Kept == ~lossy => Said(current) = 1..total

\* The summaries so far are of the first batches, and say what these say.
Summed ==
  pc = "batch" =>
    /\ 1 .. Len(next) \subseteq Batches
    /\ ~lossy => \A b \in 1 .. Len(next) :
         next[b].covers = UNION {current[k].covers : k \in Batch(b)}

\* With room for two summaries the loop does not end on more than one text.
Ended == pc = "done" /\ Roomy => Len(current) = 1

RInv == TypeOK /\ current # << >> /\ Kept /\ Summed /\ Ended

Reads == [size : Sizes \cup 1..Longest, covers : SUBSET Findings, shade : Shades]

\* The items of the cut of a round.
LEMMA RoundFacts ==
  ASSUME TypeOK, current # << >>
  PROVE  /\ Len(current) \in Nat \ {0} /\ DOMAIN current = 1 .. Len(current)
         /\ Weights \in [1 .. Len(current) -> Nat]
         /\ target \in Nat /\ Longest \in Nat
         /\ \A k \in DOMAIN current : current[k] \in Reads
         /\ Len(next) \in Nat /\ DOMAIN next = 1 .. Len(next)
         /\ \A k \in DOMAIN next : next[k] \in Texts
<1>1. /\ current \in Seq(Reads) /\ next \in Seq(Texts) /\ target \in Nat
      /\ Longest \in Nat /\ Sizes \subseteq Nat
  BY ReductionAssumption DEF TypeOK, Reads
<1>2. Len(current) \in Nat \ {0} /\ DOMAIN current = 1 .. Len(current)
  BY <1>1, EmptySeq, LenProperties
<1>3. \A k \in DOMAIN current : current[k] \in Reads
  BY <1>1, <1>2, ElementOfSeq
<1>4. \A k \in DOMAIN current : current[k].size \in Nat
  <2>1. Sizes \cup 1..Longest \subseteq Nat
    BY <1>1
  <2>2. \A text \in Reads : text.size \in Sizes \cup 1..Longest
    BY DEF Reads
  <2> QED  BY <1>3, <2>1, <2>2
<1>5. /\ Len(next) \in Nat /\ DOMAIN next = 1 .. Len(next)
      /\ \A k \in DOMAIN next : next[k] \in Texts
  BY <1>1, ElementOfSeq, LenProperties
<1> QED  BY <1>1, <1>2, <1>3, <1>4, <1>5 DEF Weights

\* Every text of the round is in a batch.
LEMMA InBatch ==
  ASSUME NEW k \in DOMAIN current
  PROVE  \E b \in Batches : k \in Batch(b)
<1>1. DOMAIN Weights = DOMAIN current
  BY DEF Weights
<1> QED  BY <1>1 DEF Batches, Batch, Groups, Members

\* A cut that puts every item in a group of its own could not put the first
\* two together.
LEMMA AllAlone ==
  ASSUME NEW n \in Nat \ {0, 1}, NEW w \in [1 .. n -> Nat], NEW t \in Nat,
         Groups(w, t) = 1 .. n
  PROVE  w[1] + w[2] > t
<1> DEFINE group(k) == GroupOf(w, t, k)
           S == {k \in Nat : k + 1 \in 1 .. n => group(k + 1) =< k + 1}
           R == {k \in Nat : k + 2 \in 1 .. n => group(k + 2) =< k + 1}
<1>1. /\ group(1) = 1 /\ LoadOf(w, t, 1) = w[1]
      /\ \A k \in 1 .. n : group(k) \in Nat
      /\ \A k \in 1 .. n - 1 :
           \/ /\ LoadOf(w, t, k) + w[k + 1] > t
              /\ group(k + 1) = group(k) + 1
           \/ group(k + 1) = group(k)
  BY CutSteps
<1> HIDE DEF group
<1>2. SUFFICES ASSUME group(2) = group(1) PROVE FALSE
  BY <1>1
<1>3. R = Nat
  <2>1. 0 \in R
    BY <1>1, <1>2
  <2>2. ASSUME NEW k \in Nat, k \in R PROVE k + 1 \in R
    <3>1. CASE k + 3 \in 1 .. n
      <4>1. k + 2 \in 1 .. n - 1 /\ (k + 2) + 1 = k + 3 /\ (k + 1) + 2 = k + 3
        BY <3>1
      <4>2. group(k + 3) =< group(k + 2) + 1
        BY <1>1, <4>1
      <4>3. group(k + 2) =< k + 1 /\ group(k + 2) \in Nat /\ group(k + 3) \in Nat
        BY <1>1, <2>2, <3>1, <4>1
      <4> QED  BY <4>1, <4>2, <4>3
    <3>2. CASE k + 3 \notin 1 .. n
      <4>1. (k + 1) + 2 = k + 3
        OBVIOUS
      <4> QED  BY <3>2, <4>1
    <3> QED  BY <3>1, <3>2
  <2> HIDE DEF R
  <2>3. Nat \subseteq R
    BY <2>1, <2>2, Induct
  <2> QED  BY <2>3 DEF R
<1>4. \A k \in 1 .. n : group(k) < n
  <2>1. ASSUME NEW k \in 1 .. n PROVE group(k) < n
    <3>1. CASE k = 1
      BY <1>1, <3>1
    <3>2. CASE k # 1
      <4>1. k - 2 \in Nat /\ (k - 2) + 2 = k /\ (k - 2) + 1 = k - 1
        BY <3>2
      <4>2. group(k) =< k - 1
        BY <1>3, <4>1
      <4> QED  BY <1>1, <4>2
    <3> QED  BY <3>1, <3>2
  <2> QED  BY <2>1
<1>5. \A g \in Groups(w, t) : \E k \in 1 .. n : g = group(k)
  <2>1. DOMAIN w = 1 .. n
    OBVIOUS
  <2> QED  BY <2>1 DEF Groups, group, GroupOf
<1>6. PICK k \in 1 .. n : n = group(k)
  <2>1. n \in Groups(w, t)
    OBVIOUS
  <2> QED  BY <1>5, <2>1
<1> QED  BY <1>1, <1>4, <1>6

\* At the start the texts are the findings, or the one text that there is none.
LEMMA RInit == Init => RInv
<1> SUFFICES ASSUME Init PROVE RInv
  OBVIOUS
<1>0. /\ total \in Nat /\ N \in Nat /\ total =< N
      /\ Longest \in Nat \ {0} /\ Sizes \subseteq Nat \ {0}
  BY ReductionAssumption DEF Init
<1>1. current \in Seq(Reads) /\ current # << >> /\ Said(current) = 1 .. total
  <2>1. PICK size \in [Findings -> Sizes] :
          current = IF total = 0 THEN << [Error EXCEPT !.shade = 1] >>
                    ELSE [k \in 1..total |-> [size |-> size[k], covers |-> {k}, shade |-> 0]]
    BY DEF Init
  <2>2. CASE total = 0
    <3>1. current = << [size |-> 1, covers |-> {}, shade |-> 1] >>
      BY <2>1, <2>2 DEF Error
    <3>2. [size |-> 1, covers |-> {}, shade |-> 1] \in Reads
      BY <1>0 DEF Reads, Shades
    <3>3. Said(current) = {}
      BY <3>1 DEF Said
    <3> QED  BY <2>2, <3>1, <3>2, <3>3
  <2>3. CASE total # 0
    <3> DEFINE text(k) == [size |-> size[k], covers |-> {k}, shade |-> 0]
    <3>1. current = [k \in 1..total |-> text(k)]
      BY <2>1, <2>3, SMTT(20)
    <3>2. ASSUME NEW k \in 1..total PROVE text(k) \in Reads
      <4>1. k \in 1..N
        BY <1>0
      <4>2. size[k] \in Sizes \cup 1..Longest /\ {k} \in SUBSET Findings
        BY <2>1, <4>1 DEF Findings
      <4>3. 0 \in Shades
        BY DEF Shades
      <4> QED  BY <4>2, <4>3 DEF Reads
    <3>3. \A k \in 1..total : text(k).covers = {k}
      OBVIOUS
    <3> HIDE DEF text
    <3>4. current \in Seq(Reads) /\ DOMAIN current = 1..total
      BY <1>0, <3>1, <3>2
    <3>5. current # << >>
      BY <1>0, <2>3, <3>4
    <3>6. Said(current) = 1..total
      BY <3>1, <3>3, <3>4 DEF Said
    <3> QED  BY <3>4, <3>5, <3>6
  <2> QED  BY <2>2, <2>3
<1>2. TypeOK
  <2>1. next \in Seq(Texts)
    BY DEF Init
  <2>2. /\ pc = "round" /\ target \in Targets /\ left \in Nat \cup {NoCap}
        /\ total \in 0..N /\ lossy = FALSE
    BY ReductionAssumption DEF Init
  <2> QED  BY <1>1, <2>1, <2>2 DEF TypeOK, Reads
<1>3. Kept /\ Summed /\ Ended
  BY <1>1 DEF Init, Kept, Summed, Ended
<1> QED  BY <1>1, <1>2, <1>3 DEF RInv

\* A batch gets its summary.
LEMMA BatchStep ==
  ASSUME RInv, More, NEW text \in Texts, Append1(text),
         UNCHANGED <<pc, target, current, total>>,
         left' \in Nat \cup {NoCap}, lossy' \in BOOLEAN,
         lossy => lossy', lossy' \/ text.covers = Read
  PROVE  RInv'
<1>0. TypeOK /\ current # << >> /\ Kept /\ Summed /\ Ended /\ pc = "batch"
  BY DEF RInv, More
<1>1. next \in Seq(Texts) /\ Len(next) \in Nat
  BY <1>0, LenProperties DEF TypeOK
<1>2. /\ next' \in Seq(Texts) /\ Len(next') = Len(next) + 1
      /\ \A b \in 1 .. Len(next) : next'[b] = next[b]
      /\ next'[Len(next) + 1] = text
  BY <1>1, AppendProperties DEF Append1
<1>3. TypeOK'
  BY <1>0, <1>2 DEF TypeOK
<1>4. Kept'
  BY <1>0 DEF Kept, TypeOK
<1>5. Summed'
  <2>1. \A b : Batch(b)' = Batch(b) /\ Batches' = Batches
    BY DEF Batch, Batches, Weights
  <2>2. 1 .. Len(next') \subseteq Batches
    BY <1>0, <1>1, <1>2 DEF Summed, More
  <2>3. ASSUME ~lossy', NEW b \in 1 .. Len(next')
        PROVE  next'[b].covers = UNION {current[k].covers : k \in Batch(b)}
    <3>1. CASE b = Len(next) + 1
      BY <1>2, <2>3, <3>1 DEF Read, Here
    <3>2. CASE b # Len(next) + 1
      <4>1. b \in 1 .. Len(next)
        BY <1>1, <1>2, <3>2
      <4>2. ~lossy
        BY <2>3
      <4> QED  BY <1>0, <1>2, <4>1, <4>2 DEF Summed
    <3> QED  BY <3>1, <3>2
  <2> QED  BY <2>1, <2>2, <2>3 DEF Summed
<1>6. Ended'
  BY <1>0 DEF Ended
<1> QED  BY <1>0, <1>3, <1>4, <1>5, <1>6 DEF RInv

\* The summaries of all batches say what the texts said.
LEMMA EndRoundStep == RInv /\ EndRound => RInv'
<1> SUFFICES ASSUME RInv, EndRound PROVE RInv'
  OBVIOUS
<1>0. /\ TypeOK /\ current # << >> /\ Kept /\ Summed /\ pc = "batch"
      /\ Len(next) + 1 \notin Batches
      /\ pc' = (IF next = current THEN "done" ELSE "round")
      /\ current' = next /\ next' = next /\ total' = total
      /\ lossy' = lossy /\ target' = target /\ left' = left
  BY DEF RInv, EndRound
<1> DEFINE n == Len(current)
<1>1. /\ n \in Nat \ {0} /\ DOMAIN current = 1 .. n
      /\ Weights \in [1 .. n -> Nat] /\ target \in Nat /\ Longest \in Nat
      /\ Len(next) \in Nat /\ DOMAIN next = 1 .. Len(next)
      /\ \A k \in DOMAIN next : next[k] \in Texts
  BY <1>0, RoundFacts
<1>2. Batches = 1 .. Len(next)
  <2>1. PICK m \in 0 .. n : Batches = 1 .. m
    BY <1>1, GroupsCount DEF Batches
  <2>2. 1 .. Len(next) \subseteq 1 .. m /\ Len(next) + 1 \notin 1 .. m
    BY <1>0, <2>1 DEF Summed
  <2>3. Len(next) =< m
    <3>1. Len(next) = 0 \/ Len(next) \in 1 .. Len(next)
      BY <1>1
    <3> QED  BY <2>2, <3>1
  <2>4. ~(Len(next) + 1 =< m)
    BY <1>1, <2>2
  <2>5. m \in Nat /\ Len(next) \in Nat
    BY <1>1
  <2>6. m = Len(next)
    BY <2>3, <2>4, <2>5
  <2> QED  BY <2>1, <2>6
<1>3. next # << >>
  <2>0. 1 \in DOMAIN current
    BY <1>1
  <2>1. PICK b \in Batches : 1 \in Batch(b)
    BY <2>0, InBatch
  <2>2. b \in 1 .. Len(next)
    BY <1>2, <2>1
  <2>3. CASE next = << >>
    BY <1>1, <2>2, <2>3
  <2> QED  BY <2>3
<1>4. TypeOK'
  <2>1. next \in Seq(Texts)
    BY <1>0 DEF TypeOK
  <2>2. Texts \subseteq Reads
    BY DEF Texts, Reads
  <2>3. next \in Seq(Reads)
    BY <2>1, <2>2, SeqMonotonic
  <2> QED  BY <1>0, <2>3 DEF TypeOK, Reads
<1>5. Kept'
  <2> SUFFICES ASSUME ~lossy PROVE Said(next) = 1..total
    BY <1>0 DEF Kept
  <2>1. \A b \in 1 .. Len(next) :
          next[b].covers = UNION {current[k].covers : k \in Batch(b)}
    BY <1>0 DEF Summed
  <2>2. Said(next) \subseteq Said(current)
    <3>1. \A b : Batch(b) \subseteq DOMAIN current
      BY DEF Batch, Members, Weights
    <3> QED  BY <1>1, <2>1, <3>1 DEF Said
  <2>3. Said(current) \subseteq Said(next)
    BY <1>1, <1>2, <2>1, InBatch DEF Said
  <2> QED  BY <1>0, <2>2, <2>3 DEF Kept
<1>6. Summed'
  BY <1>0 DEF Summed
<1>7. Ended'
  <2> SUFFICES ASSUME next = current, target >= 2 * Longest, n # 1 PROVE FALSE
    BY <1>0 DEF Ended, Roomy
  <2>1. n \in Nat \ {0, 1} /\ Groups(Weights, target) = 1 .. n
    BY <1>1, <1>2 DEF Batches
  <2>2. Weights[1] + Weights[2] > target
    BY <1>1, <2>1, AllAlone
  <2>3. \A k \in 1 .. n : Weights[k] =< Longest /\ Weights[k] \in Nat
    BY <1>1 DEF Weights, Texts
  <2> QED  BY <1>1, <2>1, <2>2, <2>3
<1> QED  BY <1>0, <1>3, <1>4, <1>5, <1>6, <1>7 DEF RInv

\* Every step keeps the invariant.
LEMMA RNext == RInv /\ [Next]_vars => RInv'
<1> SUFFICES ASSUME RInv, [Next]_vars PROVE RInv'
  OBVIOUS
<1>0. TypeOK /\ current # << >> /\ Kept /\ Summed /\ Ended
  BY DEF RInv
<1>1. /\ \A text \in Texts : text.covers \in SUBSET Findings
      /\ Error \in Texts
  BY ReductionAssumption DEF Texts, Error, Shades
<1>2. CASE StartRound
  <2>1. << >> \in Seq(Texts) /\ Len(<< >>) = 0
    BY EmptySeq
  <2>2. TypeOK'
    BY <1>0, <1>2, <2>1 DEF StartRound, TypeOK
  <2> QED  BY <1>0, <1>2, <2>1, <2>2 DEF RInv, StartRound, Kept, Summed, Ended
<1>3. CASE Stop
  <2>1. Len(current) = 1
    BY <1>0, <1>3, RoundFacts DEF Stop, MustReduce
  <2> QED  BY <1>0, <1>3, <2>1 DEF RInv, Stop, TypeOK, Kept, Summed, Ended
<1>4. CASE Summarise
  <2>1. left' \in Nat \cup {NoCap} /\ lossy \in BOOLEAN /\ lossy' = lossy
    BY <1>0, <1>4 DEF Summarise, TypeOK, NoCap
  <2>2. PICK text \in Texts : text.covers = Read /\ Append1(text)
    BY <1>4 DEF Summarise
  <2> QED  BY <1>4, <2>1, <2>2, BatchStep DEF Summarise
<1>5. CASE Truncate
  <2>1. left' \in Nat \cup {NoCap} /\ lossy' = TRUE
    BY <1>0, <1>5 DEF Truncate, TypeOK, NoCap
  <2>2. PICK text \in Texts : Append1(text)
    BY <1>5 DEF Truncate
  <2> QED  BY <1>5, <2>1, <2>2, BatchStep DEF Truncate
<1>6. CASE Fail
  <2>1. left' \in Nat \cup {NoCap} /\ lossy' = TRUE
    BY <1>0, <1>6 DEF Fail, TypeOK
  <2> QED  BY <1>1, <1>6, <2>1, BatchStep DEF Fail
<1>7. CASE ChargeRaises
  BY <1>0, <1>7 DEF RInv, ChargeRaises, TypeOK, Kept, Summed, Ended
<1>8. CASE EndRound
  BY <1>8, EndRoundStep
<1>9. CASE UNCHANGED vars
  <2>1. \A b : Batch(b)' = Batch(b) /\ Batches' = Batches
    BY <1>9 DEF Batch, Batches, Weights, vars
  <2> QED  BY <1>0, <1>9, <2>1 DEF RInv, vars, TypeOK, Kept, Summed, Ended, Roomy
<1> QED  BY <1>2, <1>3, <1>4, <1>5, <1>6, <1>7, <1>8, <1>9 DEF Next

\* What the reduction holds between its calls, for any findings and any target.
THEOREM Inductive == Spec => []RInv
BY RInit, RNext, PTL DEF Spec

\* Every variable keeps its type.
THEOREM TypeCorrect == Spec => []TypeOK
<1>1. RInv => TypeOK
  BY DEF RInv
<1> QED  BY <1>1, Inductive, PTL

\* The text the report is rendered from says what all the findings say, when
\* no leaf failed, no summary was cut and two summaries fit in a batch.
THEOREM AllSaid == Spec => []NothingDropped
<1>1. RInv => NothingDropped
  <2> SUFFICES ASSUME RInv, pc = "done", Roomy, ~lossy PROVE current[1].covers = 1..total
    BY DEF NothingDropped
  <2>1. Len(current) = 1 /\ DOMAIN current = 1 .. Len(current) /\ Said(current) = 1..total
    BY RoundFacts DEF RInv, Ended, Kept
  <2>2. Said(current) = current[1].covers
    BY <2>1 DEF Said
  <2> QED  BY <2>1, <2>2
<1> QED  BY <1>1, Inductive, PTL
=============================================================================
