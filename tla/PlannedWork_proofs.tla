-------------------------- MODULE PlannedWork_proofs --------------------------
(***************************************************************************)
(* Proofs about PlannedWork for any census, any weights and any limits.    *)
(*                                                                         *)
(* The argument: a record belongs to one shard and a shard has at most one *)
(* accepted plan (PlansOK), so a record has one position in the waves.     *)
(* What is behind the position of the execution has an outcome in the      *)
(* coverage, and what is ahead is still as planned (Told); so no step      *)
(* works a record twice, and the summary can be read off the coverage.     *)
(* PInv is inductive; that PlannedWork implements CoverageLedger is shown  *)
(* from it step by step.                                                   *)
(***************************************************************************)
EXTENDS PlannedWork, FiniteSetTheorems, SequenceTheorems, TLAPS

\* The cut of the shards is also the cut of the reduction's batches, and its
\* theorems stand beside those of the reduction.  They mention neither constants
\* nor variables of Reduction, so any that satisfy its assumption will do.
Cuts == INSTANCE Reduction_proofs WITH
          N <- 0, Sizes <- {}, Longest <- 1, Targets <- {}, Calls <- {},
          target <- 0, left <- 0, current <- << >>, next <- << >>, total <- 0, lossy <- FALSE

\* What ReductionAssumption says of these constants.
CutsAssumption ==
  /\ 0 \in Nat /\ 1 \in Nat \ {0}
  /\ {} \subseteq Nat \ {0} /\ {} \subseteq Nat \ {0} /\ {} \subseteq Nat

\* A set of numbers that is not empty has a least element.
LEMMA Least ==
  ASSUME NEW S, S \subseteq Nat, S # {}
  PROVE  \E n \in S : \A m \in S : ~(m < n)
<1>1. CutsAssumption
  BY DEF CutsAssumption
<1> QED  BY <1>1, Cuts!Least, Zenon DEF CutsAssumption

\* The cut makes groups one to m, and at most one for each item.
LEMMA GroupsCount ==
  ASSUME NEW n \in Nat, NEW w \in [1 .. n -> Nat], NEW room \in Nat
  PROVE  \E m \in 0 .. n : Groups(w, room) = 1 .. m
<1>1. CutsAssumption
  BY DEF CutsAssumption
<1>2. Cut(w, room) = Cuts!Cut(w, room)
  BY DEF Cut, Cuts!Cut
<1>3. Groups(w, room) = Cuts!Groups(w, room)
  BY <1>2, Zenon DEF Groups, Cuts!Groups
<1>4. \E m \in 0 .. n : Cuts!Groups(w, room) = 1 .. m
  BY <1>1, Cuts!GroupsCount, Zenon DEF CutsAssumption
<1> QED  BY <1>3, <1>4

\* Groups of any cut are consecutive, within the target or single items, and
\* none could have taken the next item.
LEMMA CutAlwaysFits ==
  ASSUME NEW n \in Nat, NEW w \in [1 .. n -> Nat], NEW room \in Nat
  PROVE  CutFits(w, room)
<1>1. CutsAssumption
  BY DEF CutsAssumption
<1>2. Cut(w, room) = Cuts!Cut(w, room)
  BY DEF Cut, Cuts!Cut
<1>3. Groups(w, room) = Cuts!Groups(w, room)
  BY <1>2, Zenon DEF Groups, Cuts!Groups
<1>4. \A g : Members(w, room, g) = Cuts!Members(w, room, g)
  BY <1>2, Zenon DEF Members, Cuts!Members
<1>5. \A items : Weigh(w, items) = Cuts!Weigh(w, items)
  BY DEF Weigh, Cuts!Weigh
<1>6. Cuts!CutFits(w, room)
  BY <1>1, Cuts!CutAlwaysFits, Zenon DEF CutsAssumption
<1> QED  BY <1>2, <1>3, <1>4, <1>5, <1>6 DEF CutFits, Cuts!CutFits

Wave    == [shard : Nat, items : Seq(Records)]
CovLine == [record : Records, status : Statuses]

\* The position of the execution is past record r.
BehindAt(ws, w, i, r) ==
  \E k \in DOMAIN ws : \E j \in DOMAIN ws[k].items :
    ws[k].items[j] = r /\ (k < w \/ (k = w /\ j < i))

Behind(r) == BehindAt(waves, wave, item, r)

Outcomes == {"executed", "failed", "skipped_budget", "skipped_timeout"}

Typed ==
  /\ pc \in {"scope", "plan", "work", "call", "sent", "summary", "render", "done", "raised"}
  /\ arch \in Architectures
  /\ weight \in [Records -> Weights]
  /\ large \subseteq Records
  /\ shard \in 1 .. ShardCount + 1
  /\ waves \in Seq(Wave)
  /\ coverage \in Seq(CovLine)
  /\ wave \in 1 .. Len(waves) + 1 /\ item \in Nat \ {0}
  /\ usd \in BOOLEAN /\ late \in BOOLEAN
  /\ findings \in Seq(Records)
  /\ summary \in {"none", "complete", "incomplete"}
  /\ view \in {"none", "domain", "targets", "findings"}
  /\ started \subseteq Records /\ stopped \in BOOLEAN

\* An accepted plan lists records of its shard, each once, and no shard has two plans.
PlansOK ==
  /\ \A k \in DOMAIN waves :
       /\ waves[k].shard \in Nat \ {0} /\ waves[k].shard < shard
       /\ \A i \in DOMAIN waves[k].items : waves[k].items[i] \in ShardRecords(waves[k].shard)
       /\ \A i, j \in DOMAIN waves[k].items : waves[k].items[i] = waves[k].items[j] => i = j
  /\ \A j, k \in DOMAIN waves : waves[j].shard = waves[k].shard => j = k

\* Where the execution is, and what that says of the rest of the state.
Phases ==
  /\ pc = "scope" => waves = <<>>
  /\ pc \in {"scope", "plan"} =>
       /\ coverage = <<>> /\ findings = <<>> /\ started = {} /\ ~stopped
       /\ wave = 1 /\ item = 1
  /\ pc \notin {"scope", "done"} => arch # "direct"
  /\ pc \in {"call", "sent"} =>
       wave =< Len(waves) /\ item =< Len(Items) /\ ~usd /\ ~stopped
  /\ stopped => Exhausted
  /\ pc = "sent" => Current \in started
  /\ pc \in {"summary", "render"} => wave = Len(waves) + 1
  /\ pc \notin {"scope", "plan", "done"} => waves # <<>>
  /\ pc = "summary" => arch = "planned_waves"
  /\ summary # "none" => pc \in {"render", "done"} /\ arch = "planned_waves"

Views ==
  /\ pc # "done" => view = "none"
  /\ pc = "done" /\ waves # <<>> => view = "findings"
  /\ view = "domain" /\ arch = "planned" => Records = {}

\* Findings are those of records the execution is past, each once.
Found ==
  /\ \A k \in DOMAIN findings : Behind(findings[k])
  /\ \A j, k \in DOMAIN findings : findings[j] = findings[k] => j = k
  /\ started \subseteq Selected

\* The census has been planned and its coverage written.
Planning == arch = "planned_waves" /\ pc \notin {"scope", "plan"}

\* A record the execution is past has an outcome; the others are as planned.
Told ==
  /\ \A r \in Records :
       /\ Behind(r) => Latest(r) \in Outcomes
       /\ ~Behind(r) => Latest(r) = IF Planning THEN PlanStatus(r) ELSE "unseen"
       /\ Latest(r) = "executed" => r \in started
  /\ stopped => \E r \in Records : Behind(r) /\ Latest(r) \in Skipped
  /\ summary = "complete" =>
       ~stopped /\ \A s \in 1 .. ShardCount : \E k \in DOMAIN waves : waves[k].shard = s

PInv == Typed /\ PlansOK /\ Phases /\ Views /\ Found /\ Told

------------------------------------------------------------------------------
(* Lines of coverage.                                                      *)

\* What coverage c says last about record r.
LatestIn(c, r) ==
  LET lines == {k \in DOMAIN c : c[k].record = r}
  IN IF lines = {} THEN "unseen"
     ELSE c[CHOOSE k \in lines : \A j \in lines : j =< k].status

\* Latest before and after a step, as a function of the coverage.
LEMMA LatestNow ==
  ASSUME NEW r
  PROVE  Latest(r) = LatestIn(coverage, r) /\ Latest(r)' = LatestIn(coverage', r)
BY DEF Latest, LatestIn

\* A set of numbers with a bound has a greatest element.
LEMMA Greatest ==
  ASSUME NEW n \in Nat, NEW S, S \subseteq 1 .. n, S # {}
  PROVE  \E m \in S : \A j \in S : j =< m
<1> DEFINE T == {n - j : j \in S}
<1>0. PICK s \in S : TRUE
  OBVIOUS
<1>1. T \subseteq Nat /\ n - s \in T
  OBVIOUS
<1> HIDE DEF T
<1>2. PICK t \in T : \A u \in T : ~(u < t)
  BY <1>1, Least
<1>3. PICK m \in S : t = n - m
  BY DEF T
<1>4. ASSUME NEW j \in S PROVE j =< m
  <2>1. n - j \in T
    BY DEF T
  <2>2. ~(n - j < n - m)
    BY <1>2, <1>3, <2>1
  <2> QED  BY <2>2
<1> QED  BY <1>4

\* The last line about a record is the one that counts.
LEMMA LatestIs ==
  ASSUME NEW n \in Nat, NEW c, DOMAIN c = 1 .. n, NEW r, NEW m \in 1 .. n,
         c[m].record = r, \A j \in 1 .. n : c[j].record = r => j =< m
  PROVE  LatestIn(c, r) = c[m].status
<1> DEFINE lines == {k \in DOMAIN c : c[k].record = r}
           last == CHOOSE k \in lines : \A j \in lines : j =< k
<1>1. m \in lines /\ \A j \in lines : j =< m /\ j \in 1 .. n
  OBVIOUS
<1> HIDE DEF lines
<1>2. last \in lines /\ \A j \in lines : j =< last
  BY <1>1
<1>3. last =< m /\ m =< last /\ last \in 1 .. n
  BY <1>1, <1>2
<1> HIDE DEF last
<1>4. last = m
  BY <1>3
<1> QED  BY <1>1, <1>4 DEF LatestIn, lines, last

\* A record of which the coverage has no line is unseen.
LEMMA LatestNone ==
  ASSUME NEW c, NEW r, \A j \in DOMAIN c : c[j].record # r
  PROVE  LatestIn(c, r) = "unseen"
BY DEF LatestIn

\* Lines of one status are written at the end.
LEMMA LatestExtended ==
  ASSUME NEW c \in Seq(CovLine), NEW d \in Seq(CovLine), NEW status,
         \A k \in DOMAIN d : d[k].status = status, NEW r
  PROVE  /\ (\E k \in DOMAIN d : d[k].record = r) => LatestIn(c \o d, r) = status
         /\ (\A k \in DOMAIN d : d[k].record # r) => LatestIn(c \o d, r) = LatestIn(c, r)
<1> DEFINE e == c \o d
<1>0. Len(c) \in Nat /\ Len(d) \in Nat
  BY LenProperties
<1>1. /\ Len(c) \in Nat /\ DOMAIN c = 1 .. Len(c)
      /\ Len(d) \in Nat /\ DOMAIN d = 1 .. Len(d)
  BY LenProperties
<1>2. /\ DOMAIN e = 1 .. Len(c) + Len(d)
      /\ \A k \in 1 .. Len(c) + Len(d) : e[k] = IF k =< Len(c) THEN c[k] ELSE d[k - Len(c)]
  OBVIOUS
<1> HIDE DEF e
<1>3. CASE \E k \in DOMAIN d : d[k].record = r
  <2> DEFINE S == {k \in 1 .. Len(d) : d[k].record = r}
  <2>1. S \subseteq 1 .. Len(d) /\ S # {}
    BY <1>1, <1>3
  <2> HIDE DEF S
  <2>2. PICK m \in S : \A j \in S : j =< m
    BY <1>1, <2>1, Greatest
  <2>3. m \in 1 .. Len(d) /\ d[m].record = r
    BY DEF S
  <2>4. PICK x \in 1 .. Len(c) + Len(d) : x = Len(c) + m
    BY <1>1, <2>3
  <2>5. e[x] = d[m]
    <3>1. ~(x =< Len(c)) /\ x - Len(c) = m
      BY <1>1, <2>3, <2>4
    <3> QED  BY <1>2, <3>1
  <2>6. ASSUME NEW j \in 1 .. Len(c) + Len(d), e[j].record = r PROVE j =< x
    <3>1. CASE j =< Len(c)
      BY <1>1, <2>3, <2>4, <3>1
    <3>2. CASE ~(j =< Len(c))
      <4>0. j - Len(c) \in 1 .. Len(d)
        BY <1>0, <3>2
      <4>1. PICK y \in 1 .. Len(d) : y = j - Len(c)
        BY <4>0
      <4>2. d[y].record = r
        BY <1>2, <2>6, <3>2, <4>1
      <4>3. y =< m
        BY <2>2, <4>2 DEF S
      <4> QED  BY <1>1, <2>3, <2>4, <4>1, <4>3
    <3> QED  BY <3>1, <3>2
  <2>7. LatestIn(e, r) = e[x].status
    <3>1. Len(c) + Len(d) \in Nat
      BY <1>1
    <3> QED  BY <1>2, <2>3, <2>5, <2>6, <3>1, LatestIs, ZenonT(20)
  <2>8. d[m].status = status
    BY <1>1, <2>3
  <2> QED  BY <1>3, <2>5, <2>7, <2>8 DEF e
<1>4. CASE \A k \in DOMAIN d : d[k].record # r
  <2>1. ASSUME NEW j \in 1 .. Len(c) + Len(d), e[j].record = r
        PROVE  j \in 1 .. Len(c) /\ e[j] = c[j]
    <3>1. CASE j =< Len(c)
      BY <1>1, <1>2, <3>1
    <3>2. CASE ~(j =< Len(c))
      <4>0. j - Len(c) \in 1 .. Len(d)
        BY <1>0, <3>2
      <4>1. PICK y \in 1 .. Len(d) : y = j - Len(c)
        BY <4>0
      <4> QED  BY <1>1, <1>2, <1>4, <2>1, <3>2, <4>1
    <3> QED  BY <3>1, <3>2
  <2>2. CASE \A k \in 1 .. Len(c) : c[k].record # r
    <3>1. LatestIn(c, r) = "unseen"
      BY <1>1, <2>2, LatestNone
    <3>2. \A j \in DOMAIN e : e[j].record # r
      BY <1>2, <2>1, <2>2
    <3>3. LatestIn(e, r) = "unseen"
      BY <3>2, LatestNone
    <3> QED  BY <1>4, <3>1, <3>3 DEF e
  <2>3. CASE \E k \in 1 .. Len(c) : c[k].record = r
    <3> DEFINE S == {k \in 1 .. Len(c) : c[k].record = r}
    <3>1. S \subseteq 1 .. Len(c) /\ S # {}
      BY <2>3
    <3> HIDE DEF S
    <3>2. PICK m \in S : \A j \in S : j =< m
      BY <1>1, <3>1, Greatest
    <3>3. /\ m \in 1 .. Len(c) /\ c[m].record = r
          /\ \A j \in 1 .. Len(c) : c[j].record = r => j =< m
      BY <3>2 DEF S
    <3>4. LatestIn(c, r) = c[m].status
      BY <1>1, <3>3, LatestIs
    <3>5. m \in 1 .. Len(c) + Len(d) /\ e[m] = c[m] /\ Len(c) + Len(d) \in Nat
      BY <1>1, <1>2, <3>3
    <3>6. \A j \in 1 .. Len(c) + Len(d) : e[j].record = r => j =< m
      BY <2>1, <3>3
    <3>7. LatestIn(e, r) = e[m].status
      BY <1>2, <3>3, <3>5, <3>6, LatestIs
    <3> QED  BY <1>4, <3>4, <3>5, <3>7 DEF e
  <2> QED  BY <2>2, <2>3
<1> QED  BY <1>3, <1>4

------------------------------------------------------------------------------
(* Shards and positions.                                                   *)

\* The weights are a sequence of numbers, so what is proved of every cut
\* holds of the shards.
LEMMA ShardFacts ==
  ASSUME weight \in [Records -> Weights]
  PROVE  /\ N \in Nat /\ ShardTarget \in Nat /\ weight \in [1 .. N -> Nat]
         /\ ShardCount \in Nat /\ ShardCount =< N + 1
         /\ arch # "planned" => Groups(weight, ShardTarget) = 1 .. ShardCount
         /\ \A s : ShardRecords(s) \subseteq Records
<1>1. N \in Nat /\ ShardTarget \in Nat /\ weight \in [1 .. N -> Nat]
  BY PlannedAssumption DEF Records
<1>2. PICK m \in 0 .. N : Groups(weight, ShardTarget) = 1 .. m
  BY <1>1, GroupsCount
<1>3. Cardinality(1 .. m) = m
  <2>1. 1 \in Int /\ m \in Int /\ (IF 1 > m THEN 0 ELSE m - 1 + 1) = m
    BY <1>1
  <2> QED  BY <2>1, FS_Interval
<1>4. ShardCount \in Nat /\ ShardCount =< N + 1
  BY <1>1, <1>2, <1>3 DEF ShardCount
<1>5. arch # "planned" => Groups(weight, ShardTarget) = 1 .. ShardCount
  BY <1>2, <1>3 DEF ShardCount
<1>6. \A s : ShardRecords(s) \subseteq Records
  BY DEF ShardRecords, Members, Records
<1> QED  BY <1>1, <1>4, <1>5, <1>6

\* A record is in its own shard only, so it is listed by one plan, at one place.
LEMMA OnePosition ==
  ASSUME Typed, PlansOK,
         NEW k \in DOMAIN waves, NEW i \in DOMAIN waves[k].items,
         NEW x \in DOMAIN waves, NEW j \in DOMAIN waves[x].items,
         waves[k].items[i] = waves[x].items[j]
  PROVE  k = x /\ i = j
<1>1. /\ waves[k].shard \in Nat \ {0} /\ waves[k].shard < shard
      /\ waves[x].shard \in Nat \ {0} /\ waves[x].shard < shard
      /\ waves[k].items[i] \in ShardRecords(waves[k].shard)
      /\ waves[x].items[j] \in ShardRecords(waves[x].shard)
  BY DEF PlansOK
<1>2. waves[k].shard = waves[x].shard
  <2>1. CASE arch = "planned"
    <3>1. shard \in 1 .. 2
      BY <2>1 DEF Typed, ShardCount
    <3> QED  BY <1>1, <3>1
  <2>2. CASE arch # "planned"
    BY <1>1, <2>2 DEF ShardRecords, Members
  <2> QED  BY <2>1, <2>2
<1>3. k = x
  BY <1>2 DEF PlansOK
<1> QED  BY <1>3 DEF PlansOK

\* Waves are finite sequences of records.
LEMMA WaveFacts ==
  ASSUME Typed, NEW k \in DOMAIN waves
  PROVE  /\ waves[k].items \in Seq(Records)
         /\ DOMAIN waves = 1 .. Len(waves) /\ Len(waves) \in Nat
         /\ Len(waves[k].items) \in Nat
         /\ DOMAIN waves[k].items = 1 .. Len(waves[k].items)
<1>1. waves \in Seq(Wave) /\ DOMAIN waves = 1 .. Len(waves) /\ Len(waves) \in Nat
  BY LenProperties DEF Typed
<1>2. waves[k] \in Wave
  BY <1>1, ElementOfSeq
<1>3. waves[k].items \in Seq(Records)
  BY <1>2 DEF Wave
<1> QED  BY <1>1, <1>3, LenProperties

\* Selected has the records of all positions.
LEMMA SelectedIs ==
  ASSUME NEW r
  PROVE  r \in Selected <=> \E k \in DOMAIN waves : \E j \in DOMAIN waves[k].items :
                              waves[k].items[j] = r
  BY DEF Selected, ToSet

\* What is behind the position was selected.
LEMMA BehindIsSelected == ASSUME NEW r, Behind(r) PROVE r \in Selected
  BY SelectedIs DEF Behind, BehindAt

\* Only records are selected.
LEMMA SelectedAreRecords == ASSUME Typed PROVE Selected \subseteq Records
  <1> SUFFICES ASSUME NEW r \in Selected PROVE r \in Records
    OBVIOUS
  <1>1. PICK k \in DOMAIN waves : \E j \in DOMAIN waves[k].items : waves[k].items[j] = r
    BY SelectedIs
  <1>2. PICK j \in 1 .. Len(waves[k].items) : waves[k].items[j] = r
    BY <1>1, WaveFacts
  <1> QED  BY <1>2, WaveFacts, ElementOfSeq

\* What is at the position or after it is not behind it.
LEMMA AheadNotBehind ==
  ASSUME Typed, PlansOK, wave =< Len(waves), NEW j \in 1 .. Len(Items), item =< j
  PROVE  /\ ~Behind(Items[j]) /\ Items[j] \in Records /\ Items[j] \in Selected
         /\ wave \in DOMAIN waves /\ j \in DOMAIN Items
<1>1. wave \in DOMAIN waves /\ item \in Nat
  BY LenProperties DEF Typed
<1>2. j \in DOMAIN Items /\ j \in Nat
  BY <1>1, WaveFacts DEF Items
<1>3. ASSUME Behind(Items[j]) PROVE FALSE
  <2>1. PICK k \in DOMAIN waves : \E i \in DOMAIN waves[k].items :
          waves[k].items[i] = Items[j] /\ (k < wave \/ (k = wave /\ i < item))
    BY <1>3 DEF Behind, BehindAt
  <2>2. PICK i \in DOMAIN waves[k].items :
          waves[k].items[i] = Items[j] /\ (k < wave \/ (k = wave /\ i < item))
    BY <2>1
  <2>3. k = wave /\ i = j
    BY <1>1, <1>2, <2>2, OnePosition DEF Items
  <2>4. wave \in Nat
    BY DEF Typed
  <2> QED  BY <1>1, <1>2, <2>2, <2>3, <2>4
<1>4. Items[j] \in Selected
  BY <1>1, <1>2, SelectedIs DEF Items
<1>5. Items[j] \in Records
  BY <1>4, SelectedAreRecords
<1> QED  BY <1>1, <1>2, <1>3, <1>4, <1>5

\* The position moves on within a wave.
LEMMA BehindMoves ==
  ASSUME Typed, wave =< Len(waves), NEW i \in Nat, item =< i, NEW r
  PROVE  BehindAt(waves, wave, i, r) <=>
           Behind(r) \/ \E j \in 1 .. Len(Items) : item =< j /\ j < i /\ Items[j] = r
<1>1. wave \in DOMAIN waves /\ wave \in Nat /\ item \in Nat
  BY LenProperties DEF Typed
<1>2. DOMAIN Items = 1 .. Len(Items) /\ Len(Items) \in Nat
  BY <1>1, WaveFacts DEF Items
<1>3. ASSUME BehindAt(waves, wave, i, r)
      PROVE  Behind(r) \/ \E j \in 1 .. Len(Items) : item =< j /\ j < i /\ Items[j] = r
  <2>1. PICK k \in DOMAIN waves : \E j \in DOMAIN waves[k].items :
          waves[k].items[j] = r /\ (k < wave \/ (k = wave /\ j < i))
    BY <1>3 DEF BehindAt
  <2>2. PICK j \in DOMAIN waves[k].items :
          waves[k].items[j] = r /\ (k < wave \/ (k = wave /\ j < i))
    BY <2>1
  <2>3. CASE k < wave \/ (k = wave /\ j < item)
    BY <2>2, <2>3 DEF Behind, BehindAt
  <2>4. CASE k = wave /\ ~(j < item) /\ j < i
    <3>1. j \in 1 .. Len(Items) /\ Items[j] = r
      BY <1>2, <2>2, <2>4 DEF Items
    <3>2. item =< j
      BY <1>1, <2>4, <3>1
    <3> QED  BY <2>4, <3>1, <3>2
  <2> QED  BY <2>2, <2>3, <2>4
<1>4. ASSUME Behind(r) PROVE BehindAt(waves, wave, i, r)
  <2>1. PICK k \in DOMAIN waves : \E j \in DOMAIN waves[k].items :
          waves[k].items[j] = r /\ (k < wave \/ (k = wave /\ j < item))
    BY <1>4 DEF Behind, BehindAt
  <2>2. PICK j \in DOMAIN waves[k].items :
          waves[k].items[j] = r /\ (k < wave \/ (k = wave /\ j < item))
    BY <2>1
  <2>3. k = wave /\ j < item => j < i
    <3>1. k = wave => j \in 1 .. Len(Items)
      BY <1>2, <2>2 DEF Items
    <3> QED  BY <1>1, <3>1
  <2> QED  BY <2>2, <2>3 DEF BehindAt
<1>5. ASSUME NEW j \in 1 .. Len(Items), j < i, Items[j] = r PROVE BehindAt(waves, wave, i, r)
  BY <1>1, <1>2, <1>5 DEF BehindAt, Items
<1> QED  BY <1>3, <1>4, <1>5

\* The next wave is begun after the last record of this one.
LEMMA BehindWave ==
  ASSUME Typed, wave =< Len(waves), item > Len(Items), NEW r
  PROVE  BehindAt(waves, wave + 1, 1, r) <=> Behind(r)
<1>1. wave \in DOMAIN waves /\ wave \in Nat /\ item \in Nat
  BY LenProperties DEF Typed
<1>2. DOMAIN Items = 1 .. Len(Items) /\ Len(Items) \in Nat
  BY <1>1, WaveFacts DEF Items
<1>3. DOMAIN waves = 1 .. Len(waves) /\ Len(waves) \in Nat
  BY <1>1, WaveFacts
<1>4. ASSUME NEW k \in DOMAIN waves, NEW j \in DOMAIN waves[k].items
      PROVE  k < wave + 1 \/ (k = wave + 1 /\ j < 1) <=> k < wave \/ (k = wave /\ j < item)
  <2>1. k \in Nat
    BY <1>3
  <2>2. j \in Nat \ {0}
    BY WaveFacts
  <2>3. k = wave => j \in 1 .. Len(Items)
    BY <1>2 DEF Items
  <2> QED  BY <1>1, <1>2, <2>1, <2>2, <2>3
<1> QED  BY <1>4 DEF Behind, BehindAt

\* When the waves are over, every selected record is behind.
LEMMA BehindAll ==
  ASSUME Typed, wave = Len(waves) + 1, NEW r \in Selected
  PROVE  Behind(r)
<1>1. PICK k \in DOMAIN waves : \E j \in DOMAIN waves[k].items : waves[k].items[j] = r
  BY SelectedIs
<1>2. k \in 1 .. Len(waves) /\ Len(waves) \in Nat
  BY WaveFacts
<1>3. k < wave
  BY <1>2
<1> QED  BY <1>1, <1>3 DEF Behind, BehindAt

\* A planned record has been given to a plan, or its shard has been given none.
LEMMA StatusFacts ==
  ASSUME Typed, PlansOK, arch = "planned_waves", NEW r \in Records
  PROVE  /\ PlanStatus(r) \in {"selected", "not_selected", "unplannable"}
         /\ r \in Selected <=> PlanStatus(r) = "selected"
         /\ (\A k \in DOMAIN waves : waves[k].shard # Cut(weight, ShardTarget)[r].group)
              => PlanStatus(r) = "unplannable"
<1> DEFINE s == Cut(weight, ShardTarget)[r].group
           accepted == {k \in DOMAIN waves : waves[k].shard = s}
<1>1. ASSUME NEW k \in DOMAIN waves, NEW j \in DOMAIN waves[k].items, waves[k].items[j] = r
      PROVE  k \in accepted
  BY <1>1 DEF PlansOK, ShardRecords, Members
<1>2. r \in Selected <=> \E k \in accepted : r \in ToSet(waves[k].items)
  BY <1>1, SelectedIs DEF ToSet
<1>3. PlanStatus(r) = IF accepted = {} THEN "unplannable"
                      ELSE IF \E k \in accepted : r \in ToSet(waves[k].items) THEN "selected"
                      ELSE "not_selected"
  BY DEF PlanStatus
<1>4. (\A k \in DOMAIN waves : waves[k].shard # s) => accepted = {}
  OBVIOUS
<1> HIDE DEF accepted
<1> QED  BY <1>2, <1>3, <1>4

------------------------------------------------------------------------------
(* The inductive invariant.                                                *)

\* No plan is made yet.
LEMMA PInit == Init => PInv
<1> SUFFICES ASSUME Init PROVE PInv
  OBVIOUS
<1>1. weight \in [Records -> Weights]
  BY DEF Init
<1>2. ShardCount \in Nat
  BY <1>1, ShardFacts
<1>3. Typed
  <2>1. <<>> \in Seq(Wave) /\ <<>> \in Seq(CovLine) /\ <<>> \in Seq(Records) /\ Len(<<>>) = 0
    BY EmptySeq
  <2>2. shard \in 1 .. ShardCount + 1 /\ wave \in 1 .. Len(waves) + 1 /\ item \in Nat \ {0}
    BY <1>2, <2>1 DEF Init
  <2> QED  BY <2>1, <2>2 DEF Init, Typed
<1>4. PlansOK /\ Phases /\ Views
  BY DEF Init, PlansOK, Phases, Views, Exhausted
<1>5. Found
  BY DEF Init, Found
<1>6. Told
  <2>1. ASSUME NEW r \in Records PROVE Latest(r) = "unseen" /\ ~Behind(r)
    <3>1. LatestIn(coverage, r) = "unseen"
      BY LatestNone DEF Init
    <3> QED  BY <3>1 DEF Init, Latest, LatestIn, Behind, BehindAt
  <2> QED  BY <2>1 DEF Told, Init, Planning
<1> QED  BY <1>3, <1>4, <1>5, <1>6 DEF PInv

\* What no step of the execution disturbs.
LEMMA SamePlans ==
  ASSUME Typed, PlansOK, UNCHANGED <<inputs, waves>>, shard' \in Nat, shard =< shard'
  PROVE  PlansOK'
<1>1. \A s : ShardRecords(s)' = ShardRecords(s)
  BY DEF ShardRecords, inputs
<1>2. shard \in Nat
  BY ShardFacts DEF Typed
<1>3. \A x \in Nat : x < shard => x < shard'
  BY <1>2
<1> QED  BY <1>1, <1>3 DEF PlansOK

\* The shards depend on the inputs only.
LEMMA SameCount ==
  ASSUME UNCHANGED inputs
  PROVE  ShardCount' = ShardCount
BY DEF ShardCount, inputs

\* A step that neither moves nor tells keeps what was told.
LEMMA SameTold ==
  ASSUME Told, UNCHANGED <<inputs, waves, coverage, wave, item, started, stopped, summary>>,
         Planning' = Planning
  PROVE  Told'
<1>1. ShardCount' = ShardCount
  BY SameCount
<1>2. \A r : Behind(r)' = Behind(r)
  BY DEF Behind
<1>3. \A r : Latest(r)' = Latest(r)
  BY DEF Latest
<1>4. \A r : PlanStatus(r)' = PlanStatus(r)
  BY DEF PlanStatus, inputs
<1> QED  BY <1>1, <1>2, <1>3, <1>4 DEF Told

\* A step that neither moves nor finds keeps what was found.
LEMMA SameFound ==
  ASSUME Found, UNCHANGED <<waves, wave, item, findings, started>>
  PROVE  Found'
BY DEF Found, Behind, Selected

\* A direct session shows the whole domain and is done; the others plan.
LEMMA BuildScopeStep ==
  ASSUME PInv, BuildScope PROVE PInv'
<1> USE DEF BuildScope, plan, work, budget
<1>0. Typed /\ PlansOK /\ Phases /\ Views /\ Found /\ Told /\ ShardCount' = ShardCount
  BY SameCount DEF PInv
<1>1. Typed'
  BY <1>0 DEF Typed, inputs
<1>2. PlansOK'
  BY <1>0, SamePlans, ShardFacts DEF Typed
<1>3. Phases'
  BY <1>0 DEF Phases, Typed, inputs, Architectures, Items, Current, Exhausted
<1>4. Views'
  BY <1>0 DEF Views, Phases, inputs
<1>5. Found'
  BY <1>0, SameFound
<1>6. Planning' = Planning
  BY DEF Planning, inputs
<1>7. Told'
  BY <1>0, <1>6, SameTold
<1> QED  BY <1>1, <1>2, <1>3, <1>4, <1>5, <1>7 DEF PInv

\* A rejected plan leaves its shard without one.
LEMMA PlanRejectedStep ==
  ASSUME PInv, PlanRejected PROVE PInv'
<1> USE DEF PlanRejected, work
<1>0. Typed /\ PlansOK /\ Phases /\ Views /\ Found /\ Told /\ ShardCount' = ShardCount
      /\ ShardCount \in Nat
  BY SameCount, ShardFacts DEF PInv, Typed
<1>1. Typed'
  <2>1. shard' \in 1 .. ShardCount' + 1 /\ usd' \in BOOLEAN
    BY <1>0 DEF Typed
  <2> QED  BY <1>0, <2>1 DEF Typed, inputs
<1>2. PlansOK'
  BY <1>0, SamePlans DEF Typed
<1>3. Phases'
  BY <1>0 DEF Phases, inputs
<1>4. Views'
  BY <1>0 DEF Views, inputs
<1>5. Found'
  BY <1>0, SameFound
<1>6. Planning' = Planning
  BY DEF Planning, inputs
<1>7. Told'
  BY <1>0, <1>6, SameTold
<1> QED  BY <1>1, <1>2, <1>3, <1>4, <1>5, <1>7 DEF PInv

\* An accepted plan selects records of its shard, each once.
LEMMA PlanAcceptedStep ==
  ASSUME PInv, NEW reply \in BoundedSeq(Selections, MaxSelected), PlanAccepted(reply)
  PROVE  PInv'
<1> DEFINE new == [shard |-> shard, items |-> [k \in DOMAIN reply |-> reply[k].record]]
<1>0. Typed /\ PlansOK /\ Phases /\ Views /\ Found /\ Told /\ ShardCount' = ShardCount
      /\ ShardCount \in Nat /\ \A s : ShardRecords(s)' = ShardRecords(s)
  <2>1. UNCHANGED inputs
    BY DEF PlanAccepted
  <2>2. Typed /\ PlansOK /\ Phases /\ Views /\ Found /\ Told
    BY DEF PInv
  <2>3. ShardCount' = ShardCount /\ ShardCount \in Nat
    BY <2>1, <2>2, SameCount, ShardFacts DEF Typed
  <2>4. \A s : ShardRecords(s)' = ShardRecords(s)
    BY <2>1 DEF ShardRecords, inputs
  <2> QED  BY <2>2, <2>3, <2>4
<1>1. PICK m \in Nat : reply \in [1 .. m -> Selections]
  BY PlannedAssumption DEF BoundedSeq, SeqOf
<1>2. \A k \in 1 .. m : /\ reply[k].record \in ShardRecords(shard)
                        /\ \A j \in 1 .. k - 1 : reply[j].record # reply[k].record
  BY <1>1 DEF PlanAccepted, Valid
<1>3. \A k \in 1 .. m : reply[k].record \in Records
  BY <1>0, <1>2, ShardFacts DEF Typed
<1>4. /\ new.shard = shard /\ DOMAIN new.items = 1 .. m
      /\ \A k \in 1 .. m : new.items[k] = reply[k].record
      /\ new.items \in [1 .. m -> Records]
  BY <1>1, <1>3
<1>5. new \in Wave
  <2>1. new.items \in Seq(Records)
    BY <1>4
  <2>2. shard \in Nat
    BY <1>0 DEF Typed
  <2> QED  BY <2>1, <2>2 DEF Wave
<1>6. waves' = Append(waves, new) /\ shard' = shard + 1
  BY DEF PlanAccepted
<1>7. UNCHANGED <<pc, inputs, coverage, wave, item, findings, started, stopped, usd, late,
                  summary, view>> /\ pc = "plan" /\ shard =< ShardCount
  BY DEF PlanAccepted, work, budget
<1> HIDE DEF new
<1>8. /\ waves \in Seq(Wave) /\ Len(waves) \in Nat /\ DOMAIN waves = 1 .. Len(waves)
      /\ waves' \in Seq(Wave) /\ Len(waves') = Len(waves) + 1
      /\ DOMAIN waves' = 1 .. Len(waves) + 1
      /\ \A k \in 1 .. Len(waves) : waves'[k] = waves[k]
      /\ waves'[Len(waves) + 1] = new
  BY <1>0, <1>5, <1>6, LenProperties DEF Typed
<1>9. Typed'
  <2>1. shard' \in 1 .. ShardCount' + 1
    BY <1>0, <1>6, <1>7 DEF Typed
  <2>2. wave' \in 1 .. Len(waves') + 1
    BY <1>0, <1>7, <1>8 DEF Typed
  <2> QED  BY <1>0, <1>7, <1>8, <2>1, <2>2 DEF Typed, inputs
<1>10. PlansOK'
  <2>1. shard \in Nat /\ shard >= 1
    BY <1>0 DEF Typed
  <2>2. ASSUME NEW k \in 1 .. Len(waves) + 1
        PROVE  /\ waves'[k].shard \in Nat \ {0} /\ waves'[k].shard < shard'
               /\ \A i \in DOMAIN waves'[k].items :
                    waves'[k].items[i] \in ShardRecords(waves'[k].shard)
               /\ \A i, j \in DOMAIN waves'[k].items :
                    waves'[k].items[i] = waves'[k].items[j] => i = j
    <3>1. CASE k = Len(waves) + 1
      <4>1. waves'[k] = new
        BY <1>8, <3>1
      <4>2. \A i, j \in 1 .. m : new.items[i] = new.items[j] => i = j
        <5> SUFFICES ASSUME NEW i \in 1 .. m, NEW j \in 1 .. m, new.items[i] = new.items[j],
                            i # j
                     PROVE  FALSE
          OBVIOUS
        <5>1. CASE i < j
          <6>1. i \in 1 .. j - 1
            BY <5>1
          <6> QED  BY <1>2, <1>4, <6>1
        <5>2. CASE j < i
          <6>1. j \in 1 .. i - 1
            BY <5>2
          <6> QED  BY <1>2, <1>4, <6>1
        <5> QED  BY <5>1, <5>2
      <4>3. new.shard \in Nat \ {0} /\ new.shard < shard'
        BY <1>4, <1>6, <2>1
      <4> QED  BY <1>2, <1>4, <4>1, <4>2, <4>3
    <3>2. CASE k \in 1 .. Len(waves)
      <4>1. waves'[k] = waves[k] /\ k \in DOMAIN waves
        BY <1>8, <3>2
      <4>2. \A x \in Nat : x < shard => x < shard'
        BY <1>6, <2>1
      <4> QED  BY <1>0, <4>1, <4>2 DEF PlansOK
    <3> QED  BY <1>8, <3>1, <3>2
  <2>3. ASSUME NEW j \in 1 .. Len(waves) + 1, NEW k \in 1 .. Len(waves) + 1,
               waves'[j].shard = waves'[k].shard
        PROVE  j = k
    <3>1. \A x \in 1 .. Len(waves) : waves'[x].shard # shard
      BY <1>0, <1>8, <2>1 DEF PlansOK
    <3>2. waves'[Len(waves) + 1].shard = shard
      BY <1>4, <1>8
    <3>3. CASE j = Len(waves) + 1 \/ k = Len(waves) + 1
      BY <1>8, <2>3, <3>1, <3>2, <3>3
    <3>4. CASE j \in 1 .. Len(waves) /\ k \in 1 .. Len(waves)
      BY <1>0, <1>8, <2>3, <3>4 DEF PlansOK
    <3> QED  BY <1>8, <3>3, <3>4
  <2> QED  BY <1>0, <1>8, <2>2, <2>3 DEF PlansOK
<1>11. Phases'
  BY <1>0, <1>7 DEF Phases, inputs
<1>12. Views'
  BY <1>0, <1>7 DEF Views, inputs
<1>13. Found'
  BY <1>0, <1>7 DEF Found, Phases
<1>14. Told'
  <2>1. ASSUME NEW r \in Records PROVE ~Behind(r)' /\ ~Behind(r)
    <3>1. wave = 1 /\ item = 1 /\ wave' = 1 /\ item' = 1
      BY <1>0, <1>7 DEF Phases
    <3>2. ASSUME NEW k \in 1 .. Len(waves'), NEW j \in DOMAIN waves'[k].items
          PROVE  ~(k < 1 \/ (k = 1 /\ j < 1))
      <4>1. DOMAIN waves'[k].items = 1 .. Len(waves'[k].items)
        <5>1. waves'[k] \in Wave
          BY <1>8, ElementOfSeq
        <5> QED  BY <5>1, LenProperties DEF Wave
      <4> QED  BY <3>2, <4>1
    <3>3. ~Behind(r)'
      BY <1>8, <3>1, <3>2 DEF Behind, BehindAt
    <3>4. ~Behind(r)
      <4>1. \A k \in DOMAIN waves : \A j \in DOMAIN waves[k].items :
              ~(k < 1 \/ (k = 1 /\ j < 1))
        BY <1>0, WaveFacts
      <4> QED  BY <3>1, <4>1 DEF Behind, BehindAt
    <3> QED  BY <3>3, <3>4
  <2>2. \A r : Latest(r)' = Latest(r)
    BY <1>7 DEF Latest
  <2>3. ~Planning /\ ~Planning' /\ summary # "complete" /\ ~stopped
    BY <1>0, <1>7 DEF Phases, Planning
  <2> QED  BY <1>0, <1>7, <2>1, <2>2, <2>3 DEF Told
<1> QED  BY <1>9, <1>10, <1>11, <1>12, <1>13, <1>14 DEF PInv

\* The coverage gets its first line of every record.
LEMMA PreparedStep ==
  ASSUME PInv, Prepared
  PROVE  /\ PInv'
         /\ arch = "planned_waves" => \A r \in Records : Latest(r)' = PlanStatus(r)
         /\ arch # "planned_waves" => coverage' = coverage
<1> USE DEF Prepared, plan, work, budget
<1>0. /\ Typed /\ PlansOK /\ Phases /\ Views /\ Found /\ Told
      /\ ShardCount' = ShardCount /\ UNCHANGED <<inputs, waves>>
  BY SameCount DEF PInv
<1>1. UNCHANGED <<shard, wave, item, findings, started, stopped, usd, late, summary>>
  OBVIOUS
<1>2. arch # "planned" => coverage' = [r \in 1 .. N |-> Line(r, PlanStatus(r))]
  BY DEF Records
<1>3. arch = "planned" => coverage' = coverage
  OBVIOUS
<1>4. arch \in {"planned", "planned_waves"} /\ pc = "plan" /\ pc' \in {"work", "done"}
      /\ ~stopped /\ summary = "none" /\ coverage = <<>>
  BY <1>0 DEF Phases, Typed, Architectures
<1>5. \A r \in Records : /\ arch = "planned_waves" => Latest(r)' = PlanStatus(r)
                         /\ arch = "planned" => Latest(r)' = "unseen"
  <2>1. ASSUME NEW r \in Records, arch = "planned_waves" PROVE Latest(r)' = PlanStatus(r)
    <3> DEFINE c == [x \in 1 .. N |-> Line(x, PlanStatus(x))]
    <3>1. N \in Nat /\ DOMAIN c = 1 .. N /\ r \in 1 .. N
      BY PlannedAssumption DEF Records
    <3>2. \A j \in 1 .. N : c[j].record = j
      BY DEF Line
    <3>3. c[r].status = PlanStatus(r)
      BY <3>1 DEF Line
    <3>4. coverage' = c
      BY <1>2, <2>1
    <3> HIDE DEF c
    <3>5. c[r].record = r /\ \A j \in 1 .. N : c[j].record = r => j =< r
      <4>1. \A j \in 1 .. N : j = r => j =< r
        BY <3>1
      <4> QED  BY <3>1, <3>2, <4>1
    <3>6. LatestIn(c, r) = c[r].status
      BY <3>1, <3>5, LatestIs
    <3> QED  BY <3>3, <3>4, <3>6, LatestNow
  <2>2. ASSUME NEW r \in Records, arch = "planned" PROVE Latest(r)' = "unseen"
    <3>1. LatestIn(coverage', r) = "unseen"
      BY <1>3, <1>4, <2>2, LatestNone
    <3> QED  BY <3>1, LatestNow
  <2> QED  BY <2>1, <2>2
<1>6. Typed'
  <2>1. coverage' \in Seq(CovLine)
    <3>1. CASE arch = "planned"
      BY <1>0, <3>1 DEF Typed
    <3>2. CASE arch = "planned_waves"
      <4>1. \A r \in 1 .. N : Line(r, PlanStatus(r)) \in CovLine
        BY <1>0, <3>2, StatusFacts DEF Line, CovLine, Statuses, Records
      <4>2. N \in Nat
        BY PlannedAssumption
      <4>3. coverage' \in [1 .. N -> CovLine]
        BY <1>2, <3>2, <4>1
      <4> QED  BY <4>2, <4>3, SeqDef
    <3> QED  BY <1>4, <3>1, <3>2
  <2>2. view' \in {"none", "domain", "targets", "findings"}
    BY <1>0 DEF Typed
  <2> QED  BY <1>0, <1>1, <1>4, <2>1, <2>2 DEF Typed, inputs
<1>7. PlansOK'
  BY <1>0, SamePlans, ShardFacts DEF Typed
<1>8. Phases'
  BY <1>0, <1>4 DEF Phases, inputs, Exhausted
<1>9. Views'
  BY <1>0, <1>4 DEF Views, inputs
<1>10. Found'
  BY <1>0, SameFound
<1>11. Told'
  <2>1. Planning' <=> arch = "planned_waves"
    BY <1>0, <1>4 DEF Planning, inputs
  <2>2. \A r \in Records : ~Behind(r)'
    <3>1. ASSUME NEW r \in Records PROVE ~Behind(r)
      <4>1. wave = 1 /\ item = 1
        BY <1>0, <1>4 DEF Phases
      <4>2. \A k \in DOMAIN waves : \A j \in DOMAIN waves[k].items :
              ~(k < 1 \/ (k = 1 /\ j < 1))
        BY <1>0, WaveFacts
      <4> QED  BY <4>1, <4>2 DEF Behind, BehindAt
    <3> QED  BY <1>0, <1>1, <3>1 DEF Behind
  <2>3. \A r : PlanStatus(r)' = PlanStatus(r)
    BY <1>0 DEF PlanStatus, inputs
  <2>4. arch = "planned_waves" => \A r \in Records : PlanStatus(r) # "executed"
    BY <1>0, StatusFacts
  <2> QED  BY <1>1, <1>4, <1>5, <2>1, <2>2, <2>3, <2>4 DEF Told
<1> QED  BY <1>3, <1>4, <1>5, <1>6, <1>7, <1>8, <1>9, <1>10, <1>11 DEF PInv

\* A step that changes neither the plans nor the work nor what has been said.
LEMMA QuietStep ==
  ASSUME PInv, UNCHANGED <<inputs, plan, coverage, work, summary>>,
         Typed', Phases', Views', Planning' = Planning
  PROVE  PInv'
<1> USE DEF plan, work
<1>1. PlansOK'
  BY SamePlans, ShardFacts DEF PInv, Typed
<1>2. Found'
  BY SameFound DEF PInv
<1>3. Told'
  BY SameTold DEF PInv
<1> QED  BY <1>1, <1>2, <1>3 DEF PInv

\* The check passes: the record at the position is to be called next.
LEMMA TakeItemStep ==
  ASSUME PInv, TakeItem PROVE PInv'
<1> USE DEF TakeItem, plan, work, budget
<1>0. Typed /\ Phases /\ Views /\ ShardCount' = ShardCount
  BY SameCount DEF PInv
<1>1. Typed'
  BY <1>0 DEF Typed, inputs
<1>2. Phases'
  BY <1>0 DEF Phases, inputs, Exhausted, Items
<1>3. Views'
  BY <1>0 DEF Views, inputs
<1>4. Planning' = Planning
  BY DEF Planning, inputs
<1> QED  BY <1>1, <1>2, <1>3, <1>4, QuietStep

\* A call that raises ends the session where it is.
LEMMA CallRaisesStep ==
  ASSUME PInv, CallRaises PROVE PInv'
<1> USE DEF CallRaises, plan, work
<1>0. Typed /\ Phases /\ Views /\ ShardCount' = ShardCount
  BY SameCount DEF PInv
<1>1. Typed'
  BY <1>0 DEF Typed, inputs
<1>2. Phases'
  BY <1>0 DEF Phases, inputs, Exhausted, Items
<1>3. Views'
  BY <1>0 DEF Views, inputs
<1>4. Planning' = Planning
  BY DEF Planning, inputs
<1> QED  BY <1>1, <1>2, <1>3, <1>4, QuietStep

\* The findings are reduced.
LEMMA ReduceStep ==
  ASSUME PInv, Reduce PROVE PInv'
<1> USE DEF Reduce, plan, work
<1>0. Typed /\ Phases /\ Views /\ ShardCount' = ShardCount
  BY SameCount DEF PInv
<1>1. Typed'
  BY <1>0 DEF Typed, inputs
<1>2. Phases'
  <2>1. wave = Len(waves) + 1
    BY <1>0, LenProperties DEF Typed
  <2> QED  BY <1>0, <2>1 DEF Phases, inputs, Exhausted, Items
<1>3. Views'
  BY <1>0 DEF Views, inputs
<1>4. Planning' = Planning
  BY DEF Planning, inputs
<1> QED  BY <1>1, <1>2, <1>3, <1>4, QuietStep

\* What the REPL sees is rendered.
LEMMA RenderStep ==
  ASSUME PInv, Render PROVE PInv'
<1> USE DEF Render, plan, work, budget
<1>0. Typed /\ Phases /\ Views /\ ShardCount' = ShardCount
  BY SameCount DEF PInv
<1>1. Typed'
  BY <1>0 DEF Typed, inputs
<1>2. Phases'
  BY <1>0 DEF Phases, inputs, Exhausted, Items
<1>3. Views'
  BY <1>0 DEF Views, inputs
<1>4. Planning' = Planning
  BY DEF Planning, inputs
<1> QED  BY <1>1, <1>2, <1>3, <1>4, QuietStep

\* The deadline passes.
LEMMA TimePassesStep ==
  ASSUME PInv, TimePasses PROVE PInv'
<1> USE DEF TimePasses, plan, work
<1>0. Typed /\ Phases /\ Views /\ ShardCount' = ShardCount
  BY SameCount DEF PInv
<1>1. Typed'
  BY <1>0 DEF Typed, inputs
<1>2. Phases'
  BY <1>0 DEF Phases, inputs, Exhausted, Items, Current
<1>3. Views'
  BY <1>0 DEF Views, inputs
<1>4. Planning' = Planning
  BY DEF Planning, inputs
<1> QED  BY <1>1, <1>2, <1>3, <1>4, QuietStep

\* Some records get their outcome, and what is said of the others stays.
Settling ==
  \E done \in SUBSET Records :
    /\ \A r \in done : Latest(r) \in {"unseen", "selected"} /\ Latest(r)' \in Outcomes
    /\ \A r \in Records \ done : Latest(r)' = Latest(r)

\* The records from the position up to i.
Moved(i) == {Items[j] : j \in {x \in 1 .. Len(Items) : item =< x /\ x < i}}

\* Records get their outcome: what is said of the others stays, and these had none.
LEMMA Settled ==
  ASSUME Typed, PlansOK, Phases, Told, wave =< Len(waves), NEW i \in Nat, item =< i,
         NEW d \in Seq(CovLine), NEW status,
         \A k \in DOMAIN d : d[k].status = status,
         \A r : r \in Moved(i) <=> \E k \in DOMAIN d : d[k].record = r,
         coverage' = coverage \o d, item' = i, UNCHANGED <<inputs, waves, wave>>
  PROVE  /\ \A r : /\ r \in Moved(i) => Latest(r)' = status
                   /\ r \notin Moved(i) => Latest(r)' = Latest(r)
         /\ \A r : Behind(r)' <=> Behind(r) \/ r \in Moved(i)
         /\ Moved(i) \subseteq Records
         /\ \A r \in Moved(i) :
               ~Behind(r) /\ r \in Selected /\ Latest(r) \in {"unseen", "selected"}
<1>1. coverage \in Seq(CovLine)
  BY DEF Typed
<1>2. ASSUME NEW r
      PROVE  /\ r \in Moved(i) => Latest(r)' = status
             /\ r \notin Moved(i) => Latest(r)' = Latest(r)
  <2>1. /\ (\E k \in DOMAIN d : d[k].record = r) => LatestIn(coverage \o d, r) = status
        /\ (\A k \in DOMAIN d : d[k].record # r) =>
             LatestIn(coverage \o d, r) = LatestIn(coverage, r)
    BY <1>1, LatestExtended, SMTT(30)
  <2>2. Latest(r)' = LatestIn(coverage \o d, r) /\ Latest(r) = LatestIn(coverage, r)
    BY LatestNow
  <2> QED  BY <2>1, <2>2
<1>3. ASSUME NEW r PROVE Behind(r)' <=> Behind(r) \/ r \in Moved(i)
  <2>1. Behind(r)' <=> BehindAt(waves, wave, i, r)
    BY DEF Behind
  <2>2. (\E j \in 1 .. Len(Items) : item =< j /\ j < i /\ Items[j] = r) <=> r \in Moved(i)
    BY DEF Moved
  <2> QED  BY <2>1, <2>2, BehindMoves
<1>4. ASSUME NEW r \in Moved(i)
      PROVE  ~Behind(r) /\ r \in Selected /\ r \in Records /\ Latest(r) \in {"unseen", "selected"}
  <2>1. PICK j \in 1 .. Len(Items) : item =< j /\ Items[j] = r
    BY DEF Moved
  <2>2. ~Behind(r) /\ r \in Selected /\ r \in Records
    BY <2>1, AheadNotBehind
  <2>3. Latest(r) = IF Planning THEN PlanStatus(r) ELSE "unseen"
    BY <2>2 DEF Told
  <2>4. Planning => PlanStatus(r) = "selected"
    BY <2>2, StatusFacts DEF Planning
  <2> QED  BY <2>2, <2>3, <2>4
<1> QED  BY <1>2, <1>3, <1>4

\* So the coverage stays true, if "executed" is only said of a record that was started.
LEMMA SettledTold ==
  ASSUME Typed, PlansOK, Phases, Told, wave =< Len(waves), NEW i \in Nat, item =< i,
         NEW d \in Seq(CovLine), NEW status \in Outcomes,
         \A k \in DOMAIN d : d[k].status = status,
         \A r : r \in Moved(i) <=> \E k \in DOMAIN d : d[k].record = r,
         coverage' = coverage \o d, item' = i, UNCHANGED <<inputs, waves, wave, started>>,
         pc \in {"work", "call", "sent"}, pc' \in {"work", "call", "sent"}, summary' = summary,
         status = "executed" => Moved(i) \subseteq started,
         stopped' => stopped \/ (status \in Skipped /\ Moved(i) # {})
  PROVE  Told'
<1>1. /\ \A r : /\ r \in Moved(i) => Latest(r)' = status
                /\ r \notin Moved(i) => Latest(r)' = Latest(r)
      /\ \A r : Behind(r)' <=> Behind(r) \/ r \in Moved(i)
      /\ Moved(i) \subseteq Records
      /\ \A r \in Moved(i) : ~Behind(r)
  BY Settled
<1>2. \A r : PlanStatus(r)' = PlanStatus(r)
  BY DEF PlanStatus, inputs
<1>3. Planning' = Planning
  BY DEF Planning, inputs
<1>4. summary' = "none"
  BY DEF Phases, Typed
<1>5. ASSUME NEW r \in Records
      PROVE  /\ Behind(r)' => Latest(r)' \in Outcomes
             /\ ~Behind(r)' => Latest(r)' = IF Planning' THEN PlanStatus(r)' ELSE "unseen"
             /\ Latest(r)' = "executed" => r \in started'
  <2>1. /\ Behind(r) => Latest(r) \in Outcomes
        /\ ~Behind(r) => Latest(r) = IF Planning THEN PlanStatus(r) ELSE "unseen"
        /\ Latest(r) = "executed" => r \in started
    BY DEF Told
  <2>2. CASE r \in Moved(i)
    BY <1>1, <2>2
  <2>3. CASE r \notin Moved(i)
    BY <1>1, <1>2, <1>3, <2>1, <2>3
  <2> QED  BY <2>2, <2>3
<1>6. ASSUME stopped' PROVE \E r \in Records : Behind(r)' /\ Latest(r)' \in Skipped
  <2>1. CASE stopped
    <3>1. PICK r \in Records : Behind(r) /\ Latest(r) \in Skipped
      BY <2>1 DEF Told
    <3> QED  BY <1>1, <3>1
  <2>2. CASE status \in Skipped /\ Moved(i) # {}
    BY <1>1, <2>2
  <2> QED  BY <1>6, <2>1, <2>2
<1> QED  BY <1>4, <1>5, <1>6 DEF Told

\* The lines SkipRest writes are about the rest of the wave.
LEMMA SkipLines ==
  ASSUME Typed, wave =< Len(waves), item =< Len(Items), NEW status \in Statuses
  PROVE  LET d == [k \in 1 .. Len(Items) - item + 1 |-> Line(Items[item + k - 1], status)]
         IN /\ d \in Seq(CovLine)
            /\ \A k \in DOMAIN d : d[k].status = status
            /\ \A r : r \in Moved(Len(Items) + 1) <=> \E k \in DOMAIN d : d[k].record = r
<1> DEFINE d == [k \in 1 .. Len(Items) - item + 1 |-> Line(Items[item + k - 1], status)]
<1>1. wave \in DOMAIN waves /\ item \in Nat \ {0}
  BY LenProperties DEF Typed
<1>2. Items \in Seq(Records) /\ Len(Items) \in Nat
  BY <1>1, WaveFacts DEF Items
<1>3. PICK m \in Nat : m = Len(Items) - item + 1
  <2>1. \A l, x \in Nat : x =< l => l - x + 1 \in Nat
    OBVIOUS
  <2>2. Len(Items) - item + 1 \in Nat
    BY <1>1, <1>2, <2>1
  <2> QED  BY <2>2
<1>4. \A k \in 1 .. m : item + k - 1 \in 1 .. Len(Items)
  BY <1>1, <1>2, <1>3
<1>5. \A k \in 1 .. m : Items[item + k - 1] \in Records
  BY <1>2, <1>4, ElementOfSeq
<1>6. d = [k \in 1 .. m |-> Line(Items[item + k - 1], status)]
  BY <1>3
<1>7. d \in [1 .. m -> CovLine]
  BY <1>5, <1>6 DEF Line, CovLine
<1>8. \A k \in 1 .. m : d[k].status = status /\ d[k].record = Items[item + k - 1]
  BY <1>6 DEF Line
<1>9. DOMAIN d = 1 .. m
  BY <1>6
<1> HIDE DEF d
<1>10. d \in Seq(CovLine)
  BY <1>7, SeqDef
<1>11. ASSUME NEW r \in Moved(Len(Items) + 1) PROVE \E k \in DOMAIN d : d[k].record = r
  <2>1. PICK j \in 1 .. Len(Items) : item =< j /\ Items[j] = r
    BY DEF Moved
  <2>2. j - item + 1 \in 1 .. m /\ item + (j - item + 1) - 1 = j
    BY <1>1, <1>2, <1>3, <2>1
  <2> QED  BY <1>8, <1>9, <2>1, <2>2
<1>12. ASSUME NEW k \in DOMAIN d PROVE d[k].record \in Moved(Len(Items) + 1)
  <2>1. PICK j \in 1 .. Len(Items) : j = item + k - 1
    BY <1>4, <1>9
  <2>2. item =< j /\ j < Len(Items) + 1
    BY <1>1, <1>2, <1>9, <2>1
  <2> QED  BY <1>8, <1>9, <2>1, <2>2 DEF Moved
<1> QED  BY <1>8, <1>9, <1>10, <1>11, <1>12 DEF d

\* A check settles the rest of the wave as skipped.
LEMMA SkipRestStep ==
  ASSUME PInv, SkipRest PROVE PInv' /\ Settling
<1> USE DEF plan, budget
<1>0. /\ Typed /\ PlansOK /\ Phases /\ Views /\ Found /\ Told /\ ShardCount' = ShardCount
      /\ pc = "work" /\ wave =< Len(waves) /\ item =< Len(Items) /\ Exhausted
  BY SameCount DEF PInv, SkipRest
<1> DEFINE status == IF late THEN "skipped_timeout" ELSE "skipped_budget"
           d == [k \in 1 .. Len(Items) - item + 1 |-> Line(Items[item + k - 1], status)]
<1>1. status \in Skipped /\ status \in Statuses /\ status \in Outcomes /\ status # "executed"
  BY DEF Skipped, Statuses, Outcomes
<1>2. coverage' = coverage \o d
  BY DEF SkipRest
<1>3. wave \in DOMAIN waves /\ item \in Nat \ {0}
  BY <1>0, LenProperties DEF Typed
<1>4. Len(Items) \in Nat /\ item \in 1 .. Len(Items)
  BY <1>0, <1>3, WaveFacts DEF Items
<1> HIDE DEF status
<1>5. /\ d \in Seq(CovLine)
      /\ \A k \in DOMAIN d : d[k].status = status
      /\ \A r : r \in Moved(Len(Items) + 1) <=> \E k \in DOMAIN d : d[k].record = r
  BY <1>0, <1>1, SkipLines
<1> HIDE DEF d
<1>6. /\ item' = Len(Items) + 1 /\ stopped' = TRUE
      /\ UNCHANGED <<pc, inputs, shard, waves, wave, findings, started, usd, late, summary,
                     view>>
  BY DEF SkipRest
<1>7. PICK i \in Nat \ {0} : i = Len(Items) + 1 /\ item =< i
  BY <1>4
<1>7a. /\ item' = i /\ \A r : r \in Moved(i) <=> \E k \in DOMAIN d : d[k].record = r
       /\ UNCHANGED <<inputs, waves, wave>> /\ UNCHANGED <<inputs, waves, wave, started>>
  BY <1>5, <1>6, <1>7
<1>8. /\ \A r : Behind(r)' <=> Behind(r) \/ r \in Moved(i)
      /\ \A r \in Moved(i) : ~Behind(r) /\ r \in Selected /\ r \in Records
      /\ Settling
  <2>1. /\ \A r : /\ r \in Moved(i) => Latest(r)' = status
                  /\ r \notin Moved(i) => Latest(r)' = Latest(r)
        /\ \A r : Behind(r)' <=> Behind(r) \/ r \in Moved(i)
        /\ Moved(i) \subseteq Records
        /\ \A r \in Moved(i) :
               ~Behind(r) /\ r \in Selected /\ Latest(r) \in {"unseen", "selected"}
    BY <1>0, <1>2, <1>5, <1>7, <1>7a, Settled, ZenonT(40)
  <2>2. Settling
    BY <1>1, <2>1 DEF Settling
  <2> QED  BY <2>1, <2>2
<1>9. Typed'
  <2>1. coverage' \in Seq(CovLine)
    BY <1>0, <1>2, <1>5, ConcatProperties DEF Typed
  <2> QED  BY <1>0, <1>6, <1>7, <2>1 DEF Typed, inputs
<1>10. PlansOK'
  BY <1>0, <1>6, SamePlans, ShardFacts DEF Typed
<1>11. Phases'
  BY <1>0, <1>6 DEF Phases, inputs, Exhausted
<1>12. Views'
  BY <1>0, <1>6 DEF Views, inputs
<1>13. Found'
  BY <1>0, <1>6, <1>8 DEF Found, Selected
<1>14. Told'
  <2>1. Items[item] \in Moved(i)
    BY <1>3, <1>4, <1>7 DEF Moved
  <2>2. /\ pc' \in {"work", "call", "sent"} /\ summary' = summary
        /\ stopped' => stopped \/ (status \in Skipped /\ Moved(i) # {})
    BY <1>0, <1>1, <1>6, <2>1
  <2> QED  BY <1>0, <1>1, <1>2, <1>5, <1>7, <1>7a, <2>2, SettledTold, SMTT(20)
<1> QED  BY <1>8, <1>9, <1>10, <1>11, <1>12, <1>13, <1>14 DEF PInv

\* A call has come back, or was refused: its record gets a finding and an outcome.
LEMMA FindingStep ==
  ASSUME PInv, pc \in {"call", "sent"}, NEW text \in Texts, Finding(text),
         UNCHANGED <<inputs, plan, wave, started, stopped, late, summary, view>>,
         usd' \in BOOLEAN, text = "finding" => Current \in started
  PROVE  PInv' /\ Settling
<1>0. /\ Typed /\ PlansOK /\ Phases /\ Views /\ Found /\ Told /\ ShardCount' = ShardCount
      /\ wave =< Len(waves) /\ item =< Len(Items) /\ ~stopped
  BY SameCount DEF PInv, Phases
<1> DEFINE status == Classified(text)
           d == <<Line(Current, status)>>
<1>1. status \in Statuses /\ status \in Outcomes /\ (status = "executed" => text = "finding")
  BY DEF Classified, Texts, Statuses, Skipped, Outcomes
<1>2. wave \in DOMAIN waves /\ item \in Nat \ {0}
  BY <1>0, LenProperties DEF Typed
<1>3. Len(Items) \in Nat /\ item \in 1 .. Len(Items)
  BY <1>0, <1>2, WaveFacts DEF Items
<1>4. ~Behind(Current) /\ Current \in Records /\ Current \in Selected
  BY <1>0, <1>2, <1>3, AheadNotBehind DEF Current
<1>5. PICK i \in Nat \ {0} : i = item + 1 /\ item =< i
  BY <1>2
<1>6. Moved(i) = {Current}
  BY <1>2, <1>3, <1>5 DEF Moved, Current
<1> HIDE DEF status
<1>7. Line(Current, status) \in CovLine
  BY <1>1, <1>4 DEF Line, CovLine
<1>8. /\ d \in Seq(CovLine) /\ DOMAIN d = 1 .. 1 /\ d[1] = Line(Current, status)
  BY <1>7
<1>9. coverage' = coverage \o d
  <2>1. coverage' = Append(coverage, Line(Current, status))
    BY DEF Finding, status
  <2> QED  BY <1>0, <1>7, <2>1, AppendIsConcat DEF Typed
<1> HIDE DEF d
<1>10. /\ \A k \in DOMAIN d : d[k].status = status
       /\ \A r : r \in Moved(i) <=> \E k \in DOMAIN d : d[k].record = r
  <2>1. d[1].status = status /\ d[1].record = Current
    BY <1>8 DEF Line
  <2> QED  BY <1>6, <1>8, <2>1
<1>11. /\ item' = i /\ pc' = "work" /\ findings' = Append(findings, Current)
       /\ UNCHANGED <<inputs, waves, wave>> /\ UNCHANGED <<inputs, waves, wave, started>>
       /\ UNCHANGED <<shard, stopped, late, summary, view>>
  BY <1>5 DEF Finding, plan
<1>12. /\ \A r : /\ r \in Moved(i) => Latest(r)' = status
                 /\ r \notin Moved(i) => Latest(r)' = Latest(r)
       /\ \A r : Behind(r)' <=> Behind(r) \/ r \in Moved(i)
       /\ Moved(i) \subseteq Records
       /\ \A r \in Moved(i) :
               ~Behind(r) /\ r \in Selected /\ Latest(r) \in {"unseen", "selected"}
  <2>1. /\ Typed /\ PlansOK /\ Phases /\ Told /\ wave =< Len(waves)
        /\ i \in Nat /\ item =< i /\ d \in Seq(CovLine)
        /\ \A k \in DOMAIN d : d[k].status = status
        /\ \A r : r \in Moved(i) <=> \E k \in DOMAIN d : d[k].record = r
        /\ coverage' = coverage \o d /\ item' = i /\ UNCHANGED <<inputs, waves, wave>>
    BY <1>0, <1>5, <1>8, <1>9, <1>10, <1>11
  <2> QED  BY <2>1, Settled
<1>13. Typed'
  <2>1. coverage' \in Seq(CovLine)
    BY <1>0, <1>8, <1>9, ConcatProperties DEF Typed
  <2>2. findings' \in Seq(Records)
    BY <1>0, <1>4, <1>11, AppendProperties DEF Typed
  <2> QED  BY <1>0, <1>5, <1>11, <2>1, <2>2 DEF Typed, inputs
<1>14. PlansOK'
  BY <1>0, <1>11, SamePlans, ShardFacts DEF Typed
<1>15. Phases'
  BY <1>0, <1>11 DEF Phases, inputs, Exhausted
<1>16. Views'
  BY <1>0, <1>11 DEF Views, inputs
<1>17. Found'
  <2>1. /\ findings \in Seq(Records) /\ Len(findings) \in Nat
        /\ DOMAIN findings = 1 .. Len(findings)
    BY <1>0, LenProperties DEF Typed
  <2>2. /\ DOMAIN findings' = 1 .. Len(findings) + 1
        /\ \A k \in 1 .. Len(findings) : findings'[k] = findings[k]
        /\ findings'[Len(findings) + 1] = Current
    BY <1>4, <1>11, <2>1, AppendProperties
  <2>3. \A k \in 1 .. Len(findings) : Behind(findings[k]) /\ findings[k] # Current
    BY <1>0, <1>4, <2>1 DEF Found
  <2>4. ASSUME NEW k \in 1 .. Len(findings) + 1
        PROVE  BehindAt(waves', wave', item', findings'[k])
    <3>0. \A r : Behind(r) \/ r = Current => BehindAt(waves', wave', item', r)
      BY <1>6, <1>12 DEF Behind
    <3>1. CASE k \in 1 .. Len(findings)
      BY <2>2, <2>3, <3>0, <3>1
    <3>2. CASE k = Len(findings) + 1
      BY <2>2, <3>0, <3>2
    <3> QED  BY <2>1, <3>1, <3>2
  <2>5. ASSUME NEW j \in 1 .. Len(findings) + 1, NEW k \in 1 .. Len(findings) + 1,
               findings'[j] = findings'[k]
        PROVE  j = k
    <3>1. CASE j \in 1 .. Len(findings) /\ k \in 1 .. Len(findings)
      BY <1>0, <2>1, <2>2, <2>5, <3>1 DEF Found
    <3>2. CASE j = Len(findings) + 1 \/ k = Len(findings) + 1
      BY <2>1, <2>2, <2>3, <2>5, <3>2
    <3> QED  BY <2>1, <3>1, <3>2
  <2>6. started' \subseteq Selected'
    BY <1>0, <1>11 DEF Found, Selected
  <2> QED  BY <2>2, <2>4, <2>5, <2>6 DEF Found, Behind
<1>18. Told'
  <2>1. /\ pc \in {"work", "call", "sent"} /\ pc' \in {"work", "call", "sent"}
        /\ summary' = summary /\ (stopped' => stopped)
    BY <1>0, <1>11
  <2>2. status = "executed" => Moved(i) \subseteq started
    BY <1>1, <1>6
  <2>3. stopped' => stopped \/ (status \in Skipped /\ Moved(i) # {})
    BY <2>1
  <2>4. /\ Typed /\ PlansOK /\ Phases /\ Told /\ wave =< Len(waves)
        /\ i \in Nat /\ item =< i /\ d \in Seq(CovLine) /\ status \in Outcomes
        /\ \A k \in DOMAIN d : d[k].status = status
        /\ \A r : r \in Moved(i) <=> \E k \in DOMAIN d : d[k].record = r
        /\ coverage' = coverage \o d /\ item' = i /\ UNCHANGED <<inputs, waves, wave, started>>
    BY <1>0, <1>1, <1>5, <1>8, <1>9, <1>10, <1>11
  <2> QED  BY <2>1, <2>2, <2>3, <2>4, SettledTold
<1>19. Settling
  BY <1>1, <1>12 DEF Settling
<1> QED  BY <1>13, <1>14, <1>15, <1>16, <1>17, <1>18, <1>19 DEF PInv

\* A call that comes back, or is not sent, settles its record.
LEMMA CallStep ==
  ASSUME PInv, \/ CallRefused \/ CallUnsendable \/ \E text \in Texts : CallReturns(text)
  PROVE  PInv' /\ Settling
<1>0. usd \in BOOLEAN /\ (pc = "sent" => Current \in started)
  BY DEF PInv, Typed, Phases
<1>1. CASE CallRefused
  <2> DEFINE text == IF late THEN "timeout" ELSE "usd"
  <2>1. text \in Texts /\ text # "finding"
    BY DEF Texts
  <2>2. /\ Finding(text) /\ pc \in {"call", "sent"} /\ usd' \in BOOLEAN
        /\ UNCHANGED <<inputs, plan, wave, started, stopped, late, summary, view>>
    BY <1>0, <1>1 DEF CallRefused, budget
  <2> HIDE DEF text
  <2> QED  BY <2>1, <2>2, FindingStep
<1>2. CASE CallUnsendable
  <2>1. /\ Finding("error") /\ pc \in {"call", "sent"} /\ usd' \in BOOLEAN
        /\ UNCHANGED <<inputs, plan, wave, started, stopped, late, summary, view>>
    BY <1>0, <1>2 DEF CallUnsendable, budget
  <2>2. "error" \in Texts /\ "error" # "finding"
    BY DEF Texts
  <2> QED  BY <2>1, <2>2, FindingStep
<1>3. ASSUME NEW text \in Texts, CallReturns(text) PROVE PInv' /\ Settling
  <2>1. /\ Finding(text) /\ pc \in {"call", "sent"} /\ usd' \in BOOLEAN
        /\ UNCHANGED <<inputs, plan, wave, started, stopped, late, summary, view>>
    BY <1>0, <1>3 DEF CallReturns
  <2>2. Current \in started
    BY <1>0, <1>3 DEF CallReturns
  <2> QED  BY <2>1, <2>2, FindingStep
<1> QED  BY <1>1, <1>2, <1>3

\* A call is sent for the record at the position.
LEMMA CallStartsStep ==
  ASSUME PInv, CallStarts PROVE PInv'
<1> USE DEF CallStarts, plan, budget
<1>0. /\ Typed /\ PlansOK /\ Phases /\ Views /\ Found /\ Told /\ ShardCount' = ShardCount
      /\ wave =< Len(waves) /\ item =< Len(Items) /\ ~stopped /\ summary = "none"
  BY SameCount DEF PInv, Phases
<1>1. wave \in DOMAIN waves /\ item \in Nat \ {0}
  BY <1>0, LenProperties DEF Typed
<1>2. item \in 1 .. Len(Items) /\ item =< item
  BY <1>0, <1>1, WaveFacts DEF Items
<1>3. Current \in Records /\ Current \in Selected
  BY <1>0, <1>2, AheadNotBehind DEF Current
<1>4. Typed'
  BY <1>0, <1>3 DEF Typed, inputs
<1>5. PlansOK'
  BY <1>0, SamePlans, ShardFacts DEF Typed
<1>6. Phases'
  BY <1>0 DEF Phases, inputs, Exhausted, Items, Current
<1>7. Views'
  BY <1>0 DEF Views, inputs
<1>8. Found'
  BY <1>0, <1>3 DEF Found, Behind, Selected
<1>9. Told'
  <2>1. \A r : /\ Latest(r)' = Latest(r) /\ Behind(r)' = Behind(r)
               /\ PlanStatus(r)' = PlanStatus(r)
    BY DEF Latest, Behind, PlanStatus, inputs
  <2>2. Planning' = Planning
    BY DEF Planning, inputs
  <2> QED  BY <1>0, <2>1, <2>2 DEF Told
<1> QED  BY <1>4, <1>5, <1>6, <1>7, <1>8, <1>9 DEF PInv

\* The next wave begins, or the execution is over.
LEMMA EndWaveStep ==
  ASSUME PInv, EndWave PROVE PInv'
<1> USE DEF EndWave, plan, budget
<1>0. /\ Typed /\ PlansOK /\ Phases /\ Views /\ Found /\ Told /\ ShardCount' = ShardCount
      /\ wave =< Len(waves) /\ item > Len(Items) /\ summary = "none"
  BY SameCount DEF PInv, Phases
<1>1. \A r : Behind(r)' <=> Behind(r)
  BY <1>0, BehindWave DEF Behind
<1>2. Typed'
  <2>1. wave + 1 \in 1 .. Len(waves) + 1
    BY <1>0, LenProperties DEF Typed
  <2> QED  BY <1>0, <2>1 DEF Typed, inputs
<1>3. PlansOK'
  BY <1>0, SamePlans, ShardFacts DEF Typed
<1>4. Phases'
  BY <1>0 DEF Phases, inputs, Exhausted
<1>5. Views'
  BY <1>0 DEF Views, inputs
<1>6. Found'
  BY <1>0, <1>1 DEF Found, Selected
<1>7. Told'
  <2>1. \A r : Latest(r)' = Latest(r) /\ PlanStatus(r)' = PlanStatus(r)
    BY DEF Latest, PlanStatus, inputs
  <2>2. Planning' = Planning
    BY DEF Planning, inputs
  <2> QED  BY <1>0, <1>1, <2>1, <2>2 DEF Told
<1> QED  BY <1>2, <1>3, <1>4, <1>5, <1>6, <1>7 DEF PInv

\* The summary says complete only when nothing stopped the work.
LEMMA WriteSummaryStep ==
  ASSUME PInv, WriteSummary PROVE PInv'
<1> USE DEF WriteSummary, plan, work, budget
<1>0. /\ Typed /\ PlansOK /\ Phases /\ Views /\ Found /\ Told /\ ShardCount' = ShardCount
      /\ pc = "summary" /\ arch = "planned_waves" /\ wave = Len(waves) + 1 /\ summary = "none"
  BY SameCount DEF PInv, Phases
<1>1. Typed'
  BY <1>0 DEF Typed, inputs
<1>2. PlansOK'
  BY <1>0, SamePlans, ShardFacts DEF Typed
<1>3. Phases'
  BY <1>0 DEF Phases, inputs, Exhausted
<1>4. Views'
  BY <1>0 DEF Views, inputs
<1>5. Found'
  BY <1>0, SameFound
<1>6. ASSUME summary' = "complete"
      PROVE  ~stopped /\ \A s \in 1 .. ShardCount : \E k \in DOMAIN waves : waves[k].shard = s
  <2>1. \A r \in Records : Latest(r) \notin Skipped /\ Latest(r) # "unplannable"
    BY <1>6
  <2>2. ~stopped
    BY <1>0, <2>1 DEF Told
  <2>3. ASSUME NEW s \in 1 .. ShardCount, \A k \in DOMAIN waves : waves[k].shard # s PROVE FALSE
    <3>1. s \in Groups(weight, ShardTarget)
      BY <1>0, ShardFacts DEF Typed
    <3>2. PICK r \in Records : Cut(weight, ShardTarget)[r].group = s
      BY <1>0, <3>1 DEF Groups, Typed
    <3>3. PlanStatus(r) = "unplannable"
      BY <1>0, <2>3, <3>2, StatusFacts
    <3>4. ~Behind(r)
      BY <1>0, <3>3, StatusFacts, BehindIsSelected
    <3>5. Latest(r) = "unplannable"
      BY <1>0, <3>3, <3>4 DEF Told, Planning
    <3> QED  BY <2>1, <3>5
  <2> QED  BY <2>2, <2>3
<1>7. Told'
  <2>1. \A r : /\ Latest(r)' = Latest(r) /\ Behind(r)' = Behind(r)
               /\ PlanStatus(r)' = PlanStatus(r)
    BY DEF Latest, Behind, PlanStatus, inputs
  <2>2. Planning' = Planning
    BY <1>0 DEF Planning, inputs
  <2> QED  BY <1>0, <1>6, <2>1, <2>2 DEF Told
<1> QED  BY <1>1, <1>2, <1>3, <1>4, <1>5, <1>7 DEF PInv

------------------------------------------------------------------------------
(* Theorems.                                                               *)

\* Every step keeps the invariant.
LEMMA PNext ==
  ASSUME PInv, [Next]_vars
  PROVE  PInv'
<1>1. CASE UNCHANGED vars
  <2>1. UNCHANGED <<inputs, plan, coverage, work, summary>> /\ UNCHANGED <<pc, budget, view>>
    BY <1>1 DEF vars
  <2>2. ShardCount' = ShardCount
    BY <2>1, SameCount
  <2>3. Typed' /\ Phases' /\ Views' /\ Planning' = Planning
    BY <2>1, <2>2 DEF PInv, Typed, Phases, Views, Planning, inputs, plan, work, budget,
                      Exhausted, Current, Items
  <2> QED  BY <2>1, <2>3, QuietStep
<1>2. ASSUME NEW reply \in BoundedSeq(Selections, MaxSelected), PlanAccepted(reply) PROVE PInv'
  BY <1>2, PlanAcceptedStep
<1>3. ASSUME BuildScope \/ PlanRejected \/ Prepared PROVE PInv'
  BY <1>3, BuildScopeStep, PlanRejectedStep, PreparedStep
<1>4. ASSUME SkipRest \/ TakeItem \/ CallStarts \/ CallRaises PROVE PInv'
  BY <1>4, SkipRestStep, TakeItemStep, CallStartsStep, CallRaisesStep
<1>5. ASSUME CallRefused \/ CallUnsendable \/ \E text \in Texts : CallReturns(text) PROVE PInv'
  BY <1>5, CallStep
<1>6. ASSUME EndWave \/ Reduce \/ WriteSummary \/ Render \/ TimePasses PROVE PInv'
  BY <1>6, EndWaveStep, ReduceStep, WriteSummaryStep, RenderStep, TimePassesStep
<1> QED  BY <1>1, <1>2, <1>3, <1>4, <1>5, <1>6 DEF Next, Advance

\* Plans, position, findings and coverage stay consistent through preparation
\* and execution, for any census, any weights and any limits.
THEOREM Inductive == Spec => []PInv
  BY PInit, PNext, PTL DEF Spec

\* Every variable keeps its type, and the position never leaves the plans.
THEOREM TypeCorrect == Spec => []TypeOK
<1>1. PInv => TypeOK
  <2> SUFFICES ASSUME PInv PROVE TypeOK
    OBVIOUS
  <2>0. Typed /\ PlansOK /\ Phases
    BY DEF PInv
  <2>1. shard \in 1 .. N + 2 /\ N \in Nat /\ ShardCount \in Nat /\ ShardCount =< N + 1
    BY <2>0, ShardFacts DEF Typed
  <2>2. ASSUME NEW k \in DOMAIN waves
        PROVE  waves[k].shard \in 1 .. N + 1 /\ ToSet(waves[k].items) \subseteq Records
    <3>1. waves[k].shard \in Nat \ {0} /\ waves[k].shard < shard
      BY <2>0 DEF PlansOK
    <3>2. waves[k].shard \in 1 .. N + 1
      BY <2>1, <3>1
    <3>3. ToSet(waves[k].items) \subseteq Records
      <4>1. waves[k].items \in Seq(Records)
        BY <2>0, WaveFacts
      <4> QED  BY <4>1, LenProperties, ElementOfSeq DEF ToSet
    <3> QED  BY <3>2, <3>3
  <2>3. ASSUME NEW k \in DOMAIN coverage
        PROVE  coverage[k].record \in Records /\ coverage[k].status \in Statuses
    <3>1. coverage[k] \in CovLine
      BY <2>0, LenProperties, ElementOfSeq DEF Typed
    <3> QED  BY <3>1 DEF CovLine
  <2>4. ToSet(findings) \subseteq Records
    BY <2>0, LenProperties, ElementOfSeq DEF Typed, ToSet
  <2>5. ASSUME pc \in {"call", "sent"} PROVE wave =< Len(waves) /\ item \in 1 .. Len(Items)
    <3>1. wave =< Len(waves) /\ item =< Len(Items) /\ item \in Nat \ {0}
      BY <2>0, <2>5 DEF Phases, Typed
    <3>2. wave \in DOMAIN waves
      BY <2>0, <3>1, LenProperties DEF Typed
    <3>3. Len(Items) \in Nat
      BY <2>0, <3>2, WaveFacts DEF Items
    <3> QED  BY <3>1, <3>3
  <2> QED  BY <2>0, <2>1, <2>2, <2>3, <2>4, <2>5 DEF TypeOK, Typed
<1> QED  BY <1>1, Inductive, PTL

\* Whatever the records weigh, the planner's shards are consecutive, within the
\* target unless they are one record, and none is closed early.
THEOREM ShardsAlwaysFit == Spec => []ShardsFit
<1>1. PInv => ShardsFit
  BY ShardFacts, CutAlwaysFits DEF PInv, Typed, ShardsFit
<1> QED  BY <1>1, Inductive, PTL

\* No record is worked off twice, and none that no plan selected.
THEOREM Once == Spec => []WorkedOnce
<1>1. PInv => WorkedOnce
  <2> SUFFICES ASSUME PInv PROVE WorkedOnce
    OBVIOUS
  <2>1. Found
    BY DEF PInv
  <2>2. ToSet(findings) \subseteq Selected
    BY <2>1, BehindIsSelected DEF Found, ToSet
  <2> QED  BY <2>1, <2>2 DEF WorkedOnce, Found
<1> QED  BY <1>1, Inductive, PTL

\* coverage.jsonl leaves no record out, and what it says was executed was sent.
THEOREM CoverageIsTrue == Spec => []CoverageTrue
<1>1. PInv => CoverageTrue
  <2> SUFFICES ASSUME PInv PROVE CoverageTrue
    OBVIOUS
  <2>0. Typed /\ PlansOK /\ Phases /\ Told
    BY DEF PInv
  <2>1. ExecutedWasAsked
    BY <2>0 DEF Told, ExecutedWasAsked
  <2>2. ASSUME arch = "planned_waves", pc \notin {"scope", "plan"}, NEW r \in Records
        PROVE  /\ Latest(r) # "unseen"
               /\ pc \in {"summary", "render"} =>
                    Latest(r) \in IF r \in Selected THEN {"executed", "failed"} \cup Skipped
                                  ELSE {"not_selected", "unplannable"}
    <3>1. /\ PlanStatus(r) \in {"selected", "not_selected", "unplannable"}
          /\ r \in Selected <=> PlanStatus(r) = "selected"
      BY <2>0, <2>2, StatusFacts
    <3>2. /\ Behind(r) => Latest(r) \in Outcomes
          /\ ~Behind(r) => Latest(r) = PlanStatus(r)
      BY <2>0, <2>2 DEF Told, Planning
    <3>3. Behind(r) => r \in Selected
      BY BehindIsSelected
    <3>4. pc \in {"summary", "render"} /\ r \in Selected => Behind(r)
      BY <2>0, BehindAll DEF Phases
    <3> QED  BY <3>1, <3>2, <3>3, <3>4 DEF Outcomes, Skipped
  <2>3. Covered
    BY <2>2 DEF Covered
  <2> QED  BY <2>1, <2>3 DEF CoverageTrue
<1> QED  BY <1>1, Inductive, PTL

\* "complete" is only said of a session in which every shard was planned and
\* no check stopped the work.
THEOREM HonestSummary == Spec => []SummaryHonest
<1>1. PInv => SummaryHonest
  BY DEF PInv, Told, SummaryHonest
<1> QED  BY <1>1, Inductive, PTL

\* With an accepted plan the REPL sees the findings alone.
THEOREM Hidden == Spec => []SourceHidden
<1>1. PInv => SourceHidden
  BY DEF PInv, Views, SourceHidden
<1> QED  BY <1>1, Inductive, PTL

\* Once a check has skipped work nothing is sent any more.
THEOREM LaunchesStop == Spec => StopsLaunching
<1>1. PInv /\ [Next]_vars => [stopped => started' = started]_vars
  <2> SUFFICES ASSUME PInv, Next, stopped PROVE started' = started
    OBVIOUS
  <2>1. Exhausted
    BY DEF PInv, Phases
  <2> QED  BY <2>1 DEF Next, Advance, BuildScope, PlanAccepted, PlanRejected, Prepared, SkipRest,
              TakeItem, CallRefused, CallUnsendable, CallStarts, CallReturns, CallRaises,
              EndWave, Reduce, WriteSummary, Render, TimePasses, Finding, work
<1> QED  BY <1>1, Inductive, PTL DEF Spec, StopsLaunching

------------------------------------------------------------------------------
Legible ==
  \A r \in Records :
    Latest(r) \in {"selected", "not_selected", "unplannable"} \cup Outcomes \cup {"unseen"}

\* What is said of a record is its planning, an outcome or nothing.
LEMMA SaidType == PInv => Legible
<1> SUFFICES ASSUME PInv, NEW r \in Records
             PROVE  Latest(r) \in {"selected", "not_selected", "unplannable"} \cup Outcomes
                                    \cup {"unseen"}
  BY DEF Legible
<1>1. Planning => PlanStatus(r) \in {"selected", "not_selected", "unplannable"}
  BY StatusFacts DEF PInv, Planning
<1>2. Behind(r) => Latest(r) \in Outcomes
  BY DEF PInv, Told
<1>3. ~Behind(r) => (Latest(r) = PlanStatus(r) /\ Planning) \/ Latest(r) = "unseen"
  BY DEF PInv, Told
<1> QED  BY <1>1, <1>2, <1>3

\* Each step plans the census, gives some records their outcomes, or says nothing.
LEMMA LedgerStep ==
  ASSUME PInv, [Next]_vars
  PROVE  [Ledger!Next]_Said
<1> DEFINE planned == {"selected", "not_selected", "unplannable"}
           all == planned \cup Outcomes \cup {"unseen"}
<1>1. ASSUME coverage' = coverage PROVE Said' = Said
  <2>1. \A r : Latest(r)' = Latest(r)
    BY <1>1 DEF Latest
  <2> QED  BY <2>1 DEF Said
<1>2. \A r \in Records : Said[r] = Latest(r) /\ Said'[r] = Latest(r)'
  BY DEF Said
<1>3. \A r \in Records : Latest(r) \in all /\ Latest(r)' \in all
  <2>1. PInv /\ PInv'
    BY PNext
  <2>2. \A r \in Records : Latest(r) \in all
    BY <2>1, SaidType DEF Legible
  <2>3. Legible'
    BY <2>1, SaidType, PTL
  <2> QED  BY <2>2, <2>3 DEF Legible
<1>4. ASSUME Settling PROVE Ledger!Settle
  <2>1. PICK done \in SUBSET Records :
          /\ \A r \in done : Latest(r) \in {"unseen", "selected"} /\ Latest(r)' \in Outcomes
          /\ \A r \in Records \ done : Latest(r)' = Latest(r)
    BY <1>4 DEF Settling
  <2>2. \A r \in done : Said[r] \in {"unseen", "selected"}
    BY <1>2, <2>1
  <2>3. Said' \in [Records -> planned \cup Outcomes \cup {"unseen"}]
    BY <1>3 DEF Said
  <2>4. \A r \in Records : IF r \in done THEN Said'[r] \in Outcomes ELSE Said'[r] = Said[r]
    BY <1>2, <2>1
  <2> QED  BY <2>2, <2>3, <2>4 DEF Ledger!Settle, Ledger!Planned, Ledger!Outcomes, Outcomes
<1>5. ASSUME Prepared, arch = "planned_waves" PROVE Ledger!Plan
  <2>1. pc = "plan" /\ coverage = <<>>
    BY <1>5 DEF Prepared, PInv, Phases
  <2>2. \A r : Latest(r) = "unseen"
    BY <2>1, LatestNone, LatestNow
  <2>3. \A r \in Records : Latest(r)' \in planned
    BY <1>5, PreparedStep, StatusFacts DEF PInv
  <2>4. Said' \in [Records -> planned]
    BY <2>3 DEF Said
  <2> QED  BY <1>2, <2>2, <2>4 DEF Ledger!Plan, Ledger!Planned
<1>6. CASE SkipRest \/ CallRefused \/ CallUnsendable \/ \E text \in Texts : CallReturns(text)
  BY <1>4, <1>6, SkipRestStep, CallStep DEF Ledger!Next
<1>7. CASE Prepared
  BY <1>1, <1>5, <1>7, PreparedStep DEF Ledger!Next
<1>8. CASE coverage' = coverage
  BY <1>1, <1>8
<1>9. CASE \/ UNCHANGED vars
           \/ \E reply \in BoundedSeq(Selections, MaxSelected) : PlanAccepted(reply)
           \/ BuildScope \/ PlanRejected \/ TakeItem \/ CallStarts \/ CallRaises \/ EndWave
           \/ Reduce \/ WriteSummary \/ Render \/ TimePasses
  <2>1. coverage' = coverage
    BY <1>9 DEF vars, PlanAccepted, BuildScope, PlanRejected, TakeItem, CallStarts, CallRaises,
               EndWave, Reduce, WriteSummary, Render, TimePasses
  <2> QED  BY <1>8, <2>1
<1> QED  BY <1>6, <1>7, <1>9 DEF Next, Advance

\* The lines of coverage.jsonl tell a history CoverageLedger allows, for any
\* census: what has an outcome is never reopened or told differently.
THEOREM LedgerKept == Spec => KeepsLedger
<1>1. Init => Ledger!Init
  <2> SUFFICES ASSUME Init PROVE Ledger!Init
    OBVIOUS
  <2>1. \A r : Latest(r) = "unseen"
    BY LatestNone, LatestNow DEF Init
  <2> QED  BY <2>1 DEF Ledger!Init, Said
<1> QED  BY <1>1, LedgerStep, Inductive, PTL DEF Spec, KeepsLedger, Ledger!Spec
=============================================================================
