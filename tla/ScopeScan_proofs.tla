-------------------------- MODULE ScopeScan_proofs --------------------------
(***************************************************************************)
(* The scans of ScopeScan, for every input and every cap.                  *)
(*                                                                         *)
(* While no flag is set a scan has exactly the inventory of the items it   *)
(* visited.  The step that stops it early sets a flag, unless it is the    *)
(* scan of a repository that has filled its records cap; and the step that *)
(* builds the manifest drops records only under a flag.  A document always *)
(* gives a record, so a corpus scan that stopped has fewer records than    *)
(* the census.  There is one lemma per action.                             *)
(***************************************************************************)
EXTENDS ScopeScan, SequenceTheorems, WellFoundedInduction, TLAPS

\* Which scan it is, and what a record is.
Repo == input.domain = "repo"
Research == input.domain = "research"
Entry == [item : Nat, part : Nat]

\* Records come from the items visited.
Typed ==
  /\ input \in Inputs /\ caps \in CapSets
  /\ at \in 0 .. Len(Items) /\ paths \in 0 .. at /\ nodes \in Nat
  /\ records \in Seq([item : 1 .. at, part : Nat])
  /\ flags \subseteq Flags
  /\ state \in {"scanning", "collected", "built"}

\* Files and declarations are within their caps; a corpus counts its documents.
Counted ==
  /\ caps.paths # Uncapped => paths =< caps.paths
  /\ caps.nodes # Uncapped => nodes =< caps.nodes
  /\ Research => paths = at

\* A scan that goes on is within the cap; only a file record passes it.
Roomy ==
  caps.records # Uncapped =>
    /\ Research \/ state = "scanning" => Len(records) =< caps.records
    /\ Len(records) =< caps.records + 1

\* While no flag is set nothing was left out, except by a full repository scan.
Complete ==
  flags = {} =>
    /\ state = "scanning" => records = Inventory(input)[at]
    /\ state # "scanning" =>
         \/ records = Census(input)
         \/ Repo /\ Reached(caps.records, Len(records))

\* A corpus scan stops at its first flag, and then records are missing.
Short ==
  Research =>
    /\ state = "scanning" => flags = {}
    /\ flags # {} => Len(records) < Len(Census(input))

\* A manifest is within the metadata cap.
Manifested ==
  state = "built" /\ caps.metadata # Uncapped => Len(records) =< caps.metadata

\* The inductive invariant.
SInv == Typed /\ Ordered(records) /\ Counted /\ Roomy /\ Complete /\ Short /\ Manifested
-----------------------------------------------------------------------------
\* A set of numbers that is not empty has a least element.
LEMMA LeastNumber ==
  ASSUME NEW S, S \subseteq Nat, S # {}
  PROVE  \E n \in S : \A m \in S : ~(m < n)
<1>1. IsWellFoundedOn(OpToRel(<, Nat), Nat)
  BY NatLessThanWellFounded, Zenon
<1>2. \E x \in S : \A y \in S : ~ (<<y, x>> \in OpToRel(<, Nat))
  BY <1>1, WFMin, Zenon
<1> QED  BY <1>2 DEF OpToRel

\* Induction from zero.
LEMMA Induction ==
  ASSUME NEW S, 0 \in S, \A n \in Nat : n \in S => n + 1 \in S
  PROVE  Nat \subseteq S
<1> SUFFICES ASSUME Nat \ S # {} PROVE FALSE  OBVIOUS
<1>1. PICK n \in Nat \ S : \A m \in Nat \ S : ~(m < n)
  BY LeastNumber
<1>2. n - 1 \in Nat /\ n - 1 \in S
  BY <1>1
<1> QED  BY <1>1, <1>2

\* Joining sequences of entries gives a sequence of entries.
LEMMA ConcatIs ==
  ASSUME NEW S, NEW s \in Seq(S), NEW t \in Seq(S)
  PROVE  /\ s \o t \in Seq(S)
         /\ DOMAIN (s \o t) = 1 .. Len(s) + Len(t)
         /\ Len(s \o t) = Len(s) + Len(t)
         /\ \A i \in 1 .. Len(s) : (s \o t)[i] = s[i]
         /\ \A i \in Len(s) + 1 .. Len(s) + Len(t) : (s \o t)[i] = t[i - Len(s)]
<1>1. /\ s \o t \in Seq(S)
      /\ Len(s \o t) = Len(s) + Len(t)
      /\ \A i \in 1 .. Len(s) + Len(t) : (s \o t)[i] = IF i =< Len(s) THEN s[i] ELSE t[i - Len(s)]
  BY ConcatProperties
<1>2. Len(s) \in Nat /\ Len(t) \in Nat
  BY LenProperties
<1> QED  BY <1>1, <1>2, LenProperties

\* A prefix of a sequence, and the whole when it is no longer.
LEMMA KeepIs ==
  ASSUME NEW S, NEW s \in Seq(S), NEW n \in Nat
  PROVE  /\ Keep(s, n) \in Seq(S)
         /\ DOMAIN Keep(s, n) = 1 .. Len(Keep(s, n))
         /\ Len(Keep(s, n)) = IF n < Len(s) THEN n ELSE Len(s)
         /\ \A i \in 1 .. Len(Keep(s, n)) : Keep(s, n)[i] = s[i]
         /\ n >= Len(s) => Keep(s, n) = s
<1>1. Len(s) \in Nat /\ DOMAIN s = 1 .. Len(s) /\ \A i \in 1 .. Len(s) : s[i] \in S
  BY LenProperties, ElementOfSeq
<1>2. CASE n < Len(s)
  <2>1. /\ SubSeq(s, 1, n) \in Seq(S)
        /\ Len(SubSeq(s, 1, n)) = IF 1 =< n THEN n - 1 + 1 ELSE 0
        /\ \A i \in 1 .. n - 1 + 1 : SubSeq(s, 1, n)[i] = s[1 + i - 1]
    <3>1. \A i \in 1 .. n : s[i] \in S
      BY <1>1, <1>2
    <3> QED  BY <3>1, SubSeqProperties
  <2>2. DOMAIN SubSeq(s, 1, n) = 1 .. Len(SubSeq(s, 1, n))
    BY <2>1, LenProperties
  <2>3. Keep(s, n) = SubSeq(s, 1, n)
    BY <1>2 DEF Keep
  <2> HIDE DEF Keep
  <2> QED  BY <1>1, <1>2, <2>1, <2>2, <2>3
<1>3. CASE ~(n < Len(s))
  BY <1>1, <1>3 DEF Keep
<1> QED  BY <1>2, <1>3

\* The recursion of Prefixes has a solution.
LEMMA PrefixesExist ==
  ASSUME NEW n \in Nat, NEW g
  PROVE  \E f : f = [k \in 0 .. n |-> IF k = 0 THEN <<>> ELSE f[k - 1] \o g[k]]
<1> DEFINE Sol(f, m) == f = [k \in 0 .. m |-> IF k = 0 THEN <<>> ELSE f[k - 1] \o g[k]]
           S == {m \in Nat : \E f : Sol(f, m)}
<1>1. 0 \in S
  <2> DEFINE f == [k \in 0 .. 0 |-> <<>>]
  <2>1. f = [k \in 0 .. 0 |-> IF k = 0 THEN <<>> ELSE f[k - 1] \o g[k]]
    OBVIOUS
  <2> HIDE DEF f
  <2> QED  BY <2>1
<1>2. ASSUME NEW m \in Nat, m \in S PROVE m + 1 \in S
  <2>1. PICK f : f = [k \in 0 .. m |-> IF k = 0 THEN <<>> ELSE f[k - 1] \o g[k]]
    BY <1>2
  <2> DEFINE h == [k \in 0 .. m + 1 |-> IF k =< m THEN f[k] ELSE f[m] \o g[m + 1]]
  <2>2. ASSUME NEW k \in 0 .. m + 1
        PROVE  h[k] = IF k = 0 THEN <<>> ELSE h[k - 1] \o g[k]
    <3>1. CASE k = 0
      BY <2>1, <3>1
    <3>2. CASE k \in 1 .. m
      <4>1. h[k] = f[k] /\ h[k - 1] = f[k - 1]
        BY <3>2
      <4>2. \A i \in 0 .. m : f[i] = IF i = 0 THEN <<>> ELSE f[i - 1] \o g[i]
        BY <2>1, Zenon
      <4>3. k \in 0 .. m /\ k # 0
        BY <3>2
      <4> QED  BY <4>1, <4>2, <4>3, Zenon
    <3>3. CASE k = m + 1
      BY <3>3
    <3> QED  BY <3>1, <3>2, <3>3
  <2>3. h = [k \in 0 .. m + 1 |-> IF k = 0 THEN <<>> ELSE h[k - 1] \o g[k]]
    <3> HIDE DEF h
    <3>1. DOMAIN h = 0 .. m + 1 /\ h = [k \in 0 .. m + 1 |-> h[k]]
      BY DEF h
    <3> QED  BY <2>2, <3>1
  <2> HIDE DEF h
  <2> QED  BY <2>3
<1> HIDE DEF S
<1>3. n \in S
  BY <1>1, <1>2, Induction
<1> QED  BY <1>3 DEF S

\* So each prefix is the one before and the next sequence.
LEMMA PrefixesAre ==
  ASSUME NEW n \in Nat, NEW S, NEW g \in [1 .. n -> Seq(S)]
  PROVE  /\ Prefixes(g)[0] = <<>>
         /\ \A k \in 1 .. n : Prefixes(g)[k] = Prefixes(g)[k - 1] \o g[k]
         /\ \A k \in 0 .. n : Prefixes(g)[k] \in Seq(S)
<1> DEFINE Sol(f) == f = [k \in 0 .. n |-> IF k = 0 THEN <<>> ELSE f[k - 1] \o g[k]]
           p == Prefixes(g)
<1>1. Len(g) = n
  OBVIOUS
<1>2. p = CHOOSE f : Sol(f)
  BY <1>1 DEF Prefixes
<1>3. \E f : Sol(f)
  BY PrefixesExist, Zenon
<1>4. Sol(p)
  BY <1>2, <1>3, Zenon
<1>5. p = [k \in 0 .. n |-> IF k = 0 THEN <<>> ELSE p[k - 1] \o g[k]]
  BY <1>4
<1> HIDE DEF p
<1>6. p[0] = <<>> /\ \A k \in 1 .. n : p[k] = p[k - 1] \o g[k]
  <2>1. \A k \in 0 .. n : p[k] = IF k = 0 THEN <<>> ELSE p[k - 1] \o g[k]
    BY <1>5, Zenon
  <2>2. 0 \in 0 .. n /\ \A k \in 1 .. n : k \in 0 .. n /\ k # 0
    OBVIOUS
  <2> QED  BY <2>1, <2>2, Zenon
<1> DEFINE T == {k \in Nat : k =< n => p[k] \in Seq(S)}
<1>7. 0 \in T
  <2>1. <<>> \in Seq(S)
    BY EmptySeq
  <2> QED  BY <1>6, <2>1
<1>8. ASSUME NEW k \in Nat, k \in T PROVE k + 1 \in T
  <2> SUFFICES ASSUME k + 1 =< n PROVE p[k + 1] \in Seq(S)
    OBVIOUS
  <2>1. p[k] \in Seq(S) /\ g[k + 1] \in Seq(S)
    BY <1>8
  <2>2. p[k + 1] = p[k] \o g[k + 1]
    <3>1. PICK i \in 1 .. n : i = k + 1 /\ i - 1 = k
      OBVIOUS
    <3> HIDE DEF T
    <3>2. p[i] = p[i - 1] \o g[i]
      BY <1>6
    <3> QED  BY <3>1, <3>2, Zenon
  <2> HIDE DEF T
  <2>3. p[k] \o g[k + 1] \in Seq(S)
    BY <2>1, ConcatProperties
  <2> QED  BY <2>2, <2>3
<1> HIDE DEF T
<1>9. Nat \subseteq T
  BY <1>7, <1>8, Induction
<1>10. \A k \in 0 .. n : p[k] \in Seq(S)
  BY <1>9 DEF T
<1> QED  BY <1>6, <1>10 DEF p

\* Prefixes grow, and at every step if no sequence is empty.
LEMMA PrefixesGrow ==
  ASSUME NEW n \in Nat, NEW S, NEW g \in [1 .. n -> Seq(S)],
         \A k \in 1 .. n : Len(g[k]) > 0
  PROVE  \A j, k \in 0 .. n : j < k => Len(Prefixes(g)[j]) < Len(Prefixes(g)[k])
<1> DEFINE p == Prefixes(g)
<1>1. /\ \A k \in 1 .. n : p[k] = p[k - 1] \o g[k]
      /\ \A k \in 0 .. n : p[k] \in Seq(S)
  BY PrefixesAre
<1> HIDE DEF p
<1>2. ASSUME NEW k \in 1 .. n PROVE Len(p[k - 1]) < Len(p[k])
  <2>1. p[k - 1] \in Seq(S) /\ g[k] \in Seq(S)
    BY <1>1
  <2>2. Len(p[k - 1] \o g[k]) = Len(p[k - 1]) + Len(g[k])
    BY <2>1, ConcatProperties
  <2>3. Len(p[k - 1]) \in Nat /\ Len(g[k]) \in Nat
    BY <2>1, LenProperties
  <2> QED  BY <1>1, <2>2, <2>3
<1> DEFINE T == {k \in Nat : k =< n => \A j \in 0 .. n : j < k => Len(p[j]) < Len(p[k])}
<1>3. 0 \in T
  OBVIOUS
<1>4. ASSUME NEW k \in Nat, k \in T PROVE k + 1 \in T
  <2> SUFFICES ASSUME k + 1 =< n, NEW j \in 0 .. n, j < k + 1 PROVE Len(p[j]) < Len(p[k + 1])
    OBVIOUS
  <2>1. Len(p[k]) < Len(p[k + 1])
    <3>1. k + 1 \in 1 .. n /\ k + 1 - 1 = k
      OBVIOUS
    <3> HIDE DEF T
    <3> QED  BY <1>2, <3>1
  <2>2. Len(p[j]) \in Nat /\ Len(p[k]) \in Nat /\ Len(p[k + 1]) \in Nat
    <3>1. p[j] \in Seq(S) /\ p[k] \in Seq(S) /\ p[k + 1] \in Seq(S)
      BY <1>1
    <3> QED  BY <3>1, LenProperties
  <2>3. j = k \/ Len(p[j]) < Len(p[k])
    BY <1>4
  <2> HIDE DEF T
  <2> QED  BY <2>1, <2>2, <2>3
<1> HIDE DEF T
<1>5. Nat \subseteq T
  BY <1>3, <1>4, Induction
<1>6. \A j, k \in 0 .. n : j < k => Len(p[j]) < Len(p[k])
  BY <1>5 DEF T
<1> QED  BY <1>6 DEF p
-----------------------------------------------------------------------------
\* A sequence of members of a set is one of members of a larger set.
LEMMA SeqWider ==
  ASSUME NEW S, NEW T, S \subseteq T, NEW s \in Seq(S)
  PROVE  s \in Seq(T)
<1>1. Len(s) \in Nat /\ s \in [1 .. Len(s) -> S]
  BY LenProperties
<1>2. s \in [1 .. Len(s) -> T]
  BY <1>1
<1> QED  BY <1>1, <1>2

\* Two sequences in order stay so when all of the first come before the second.
LEMMA OrderedConcat ==
  ASSUME NEW S, NEW s \in Seq(S), NEW t \in Seq(S), Ordered(s), Ordered(t),
         \A j \in 1 .. Len(s), k \in 1 .. Len(t) : Before(s[j], t[k])
  PROVE  Ordered(s \o t)
<1> SUFFICES ASSUME NEW j \in DOMAIN (s \o t), NEW k \in DOMAIN (s \o t), j < k
             PROVE  Before((s \o t)[j], (s \o t)[k])
  BY DEF Ordered
<1>1. /\ DOMAIN (s \o t) = 1 .. Len(s) + Len(t)
      /\ \A i \in 1 .. Len(s) : (s \o t)[i] = s[i]
      /\ \A i \in Len(s) + 1 .. Len(s) + Len(t) : (s \o t)[i] = t[i - Len(s)]
  BY ConcatIs
<1>2. Len(s) \in Nat /\ Len(t) \in Nat /\ DOMAIN s = 1 .. Len(s) /\ DOMAIN t = 1 .. Len(t)
  BY LenProperties
<1>3. /\ \A a, b \in DOMAIN s : a < b => Before(s[a], s[b])
      /\ \A a, b \in DOMAIN t : a < b => Before(t[a], t[b])
  BY DEF Ordered
<1> DEFINE m == Len(s)  n == Len(t)  u == s \o t
<1> HIDE DEF m, n, u
<1>4. CASE k =< Len(s)
  <2>1. j \in DOMAIN s /\ k \in DOMAIN s
    BY <1>1, <1>2, <1>4
  <2>2. (s \o t)[j] = s[j] /\ (s \o t)[k] = s[k]
    BY <1>1, <1>2, <2>1
  <2> QED  BY <1>3, <2>1, <2>2
<1>5. CASE j =< Len(s) /\ k > Len(s)
  <2>1. j \in 1 .. Len(s) /\ k \in Len(s) + 1 .. Len(s) + Len(t) /\ k - Len(s) \in 1 .. Len(t)
    BY <1>1, <1>2, <1>5
  <2>2. (s \o t)[j] = s[j] /\ (s \o t)[k] = t[k - Len(s)]
    BY <1>1, <2>1
  <2> QED  BY <2>1, <2>2
<1>6. CASE j > Len(s)
  <2>1. /\ j \in Len(s) + 1 .. Len(s) + Len(t) /\ k \in Len(s) + 1 .. Len(s) + Len(t)
        /\ j - Len(s) \in 1 .. Len(t) /\ k - Len(s) \in 1 .. Len(t)
        /\ j - Len(s) < k - Len(s)
    BY <1>1, <1>2, <1>6
  <2>2. (s \o t)[j] = t[j - Len(s)] /\ (s \o t)[k] = t[k - Len(s)]
    BY <1>1, <2>1
  <2> QED  BY <1>2, <1>3, <2>1, <2>2
<1>7. j \in Int /\ k \in Int
  BY <1>1, <1>2
<1> QED  BY <1>2, <1>4, <1>5, <1>6, <1>7

\* A prefix is in order too.
LEMMA OrderedKeep ==
  ASSUME NEW S, NEW s \in Seq(S), Ordered(s), NEW n \in Nat
  PROVE  Ordered(Keep(s, n))
<1>1. /\ DOMAIN Keep(s, n) = 1 .. Len(Keep(s, n))
      /\ Len(Keep(s, n)) = IF n < Len(s) THEN n ELSE Len(s)
      /\ \A i \in 1 .. Len(Keep(s, n)) : Keep(s, n)[i] = s[i]
  BY KeepIs
<1>2. Len(s) \in Nat /\ DOMAIN s = 1 .. Len(s)
  BY LenProperties
<1>3. DOMAIN Keep(s, n) \subseteq DOMAIN s
  BY <1>1, <1>2
<1>4. \A a, b \in DOMAIN s : a < b => Before(s[a], s[b])
  BY DEF Ordered
<1>5. \A a, b \in DOMAIN Keep(s, n) : a < b => Before(Keep(s, n)[a], Keep(s, n)[b])
  BY <1>1, <1>3, <1>4
<1> QED  BY <1>5 DEF Ordered

\* At most one record is in order.
LEMMA OrderedSmall ==
  ASSUME NEW S, NEW e \in S
  PROVE  Ordered(<<>>) /\ Ordered(<<e>>) /\ <<>> \in Seq(S) /\ <<e>> \in Seq(S) /\ Len(<<e>>) = 1
BY DEF Ordered

\* The selected declarations of an item come in order, each once.
LEMMA DeclaredIs ==
  ASSUME NEW in, NEW i \in Nat, NEW n \in Nat
  PROVE  /\ Declared(in, i, n) \in Seq([item : {i}, part : 1 .. n])
         /\ Ordered(Declared(in, i, n))
         /\ n = 0 => Declared(in, i, n) = <<>>
<1> DEFINE g == [k \in 1 .. n |-> Selected(in, i, k)]
           p == Prefixes(g)
           E == [item : {i}, part : Nat]
<1>1. \A k \in 1 .. n : Selected(in, i, k) \in Seq([item : {i}, part : {k}])
  <2> SUFFICES ASSUME NEW k \in 1 .. n PROVE Selected(in, i, k) \in Seq([item : {i}, part : {k}])
    OBVIOUS
  <2>1. Record(i, k) \in [item : {i}, part : {k}]
    BY DEF Record
  <2> QED  BY <2>1, OrderedSmall DEF Selected
<1>2. g \in [1 .. n -> Seq(E)]
  <2> SUFFICES ASSUME NEW k \in 1 .. n PROVE Selected(in, i, k) \in Seq(E)
    OBVIOUS
  <2>1. [item : {i}, part : {k}] \subseteq E
    OBVIOUS
  <2>2. Selected(in, i, k) \in Seq([item : {i}, part : {k}])
    BY <1>1
  <2> HIDE DEF E
  <2> QED  BY <2>1, <2>2, SeqWider
<1>3. \A k \in 1 .. n : g[k] = Selected(in, i, k)
  OBVIOUS
<1> HIDE DEF g, E
<1>4. p[0] = <<>> /\ \A k \in 1 .. n : p[k] = p[k - 1] \o g[k]
  BY <1>2, PrefixesAre
<1> HIDE DEF p
<1> DEFINE T == {k \in Nat : k =< n => p[k] \in Seq([item : {i}, part : 1 .. k]) /\ Ordered(p[k])}
<1>5. 0 \in T
  <2>1. <<>> \in Seq([item : {i}, part : 1 .. 0])
    BY EmptySeq
  <2>2. Ordered(<<>>)
    BY DEF Ordered
  <2> QED  BY <1>4, <2>1, <2>2
<1>6. ASSUME NEW k \in Nat, k \in T PROVE k + 1 \in T
  <2> SUFFICES ASSUME k + 1 =< n
               PROVE  p[k + 1] \in Seq([item : {i}, part : 1 .. k + 1]) /\ Ordered(p[k + 1])
    OBVIOUS
  <2>1. p[k] \in Seq([item : {i}, part : 1 .. k]) /\ Ordered(p[k])
    BY <1>6
  <2> HIDE DEF T
  <2>2. PICK j \in 1 .. n : j = k + 1 /\ j - 1 = k
    OBVIOUS
  <2>3. p[j] = p[k] \o Selected(in, i, j)
    BY <1>3, <1>4, <2>2
  <2> DEFINE R == [item : {i}, part : 1 .. j]
  <2>4. [item : {i}, part : 1 .. k] \subseteq R /\ [item : {i}, part : {j}] \subseteq R
    BY <2>2
  <2>5. Selected(in, i, j) \in Seq([item : {i}, part : {j}])
    BY <1>1
  <2> HIDE DEF R
  <2>6. p[k] \in Seq(R) /\ Selected(in, i, j) \in Seq(R)
    BY <2>1, <2>4, <2>5, SeqWider
  <2>7. Ordered(Selected(in, i, j))
    BY OrderedSmall DEF Selected
  <2>8. \A a \in 1 .. Len(p[k]), b \in 1 .. Len(Selected(in, i, j)) :
          Before(p[k][a], Selected(in, i, j)[b])
    <3> SUFFICES ASSUME NEW a \in 1 .. Len(p[k]), NEW b \in 1 .. Len(Selected(in, i, j))
                 PROVE  Before(p[k][a], Selected(in, i, j)[b])
      OBVIOUS
    <3>1. p[k][a] \in [item : {i}, part : 1 .. k]
      BY <2>1, ElementOfSeq
    <3>2. Selected(in, i, j)[b] \in [item : {i}, part : {j}]
      BY <2>5, ElementOfSeq
    <3> QED  BY <2>2, <3>1, <3>2 DEF Before
  <2>9. p[j] \in Seq(R) /\ Ordered(p[j])
    BY <2>1, <2>3, <2>6, <2>7, <2>8, OrderedConcat, ConcatProperties
  <2> QED  BY <2>2, <2>9 DEF R
<1> HIDE DEF T
<1>7. n \in T
  BY <1>5, <1>6, Induction
<1>8. p[n] \in Seq([item : {i}, part : 1 .. n]) /\ Ordered(p[n])
  BY <1>7 DEF T
<1>9. Declared(in, i, n) = p[n]
  BY DEF Declared, p, g
<1> QED  BY <1>4, <1>8, <1>9

\* An item gives its records in order; a document gives at least one.
LEMMA AllOfIs ==
  ASSUME NEW in \in Inputs, NEW i \in 1 .. Len(in.items)
  PROVE  /\ AllOf(in, i) \in Seq([item : {i}, part : Nat])
         /\ Ordered(AllOf(in, i))
         /\ in.domain = "research" => Len(AllOf(in, i)) > 0
<1>1. /\ in.domain \in {"repo", "research"}
      /\ in.items \in Seq(Item)
      /\ in.domain = "research" => \A j \in DOMAIN in.items : in.items[j].parts > 0
  BY ScanAssumption
<1>2. in.items[i] \in Item /\ i \in DOMAIN in.items /\ i \in Nat
  BY <1>1, ElementOfSeq, LenProperties
<1>3. PICK n \in Nat : n = in.items[i].parts
  BY <1>2 DEF Item
<1> DEFINE E == [item : {i}, part : Nat]
<1>4. CASE in.domain = "research"
  <2> DEFINE s == [k \in 1 .. n |-> Record(i, k)]
  <2>1. AllOf(in, i) = s
    BY <1>3, <1>4 DEF AllOf
  <2>2. \A k \in 1 .. n : s[k] = [item |-> i, part |-> k]
    BY DEF Record
  <2>3. s \in [1 .. n -> E]
    BY DEF Record
  <2>4. s \in Seq(E) /\ Len(s) = n /\ DOMAIN s = 1 .. n
    BY <2>3
  <2> HIDE DEF s
  <2>5. Ordered(s)
    BY <2>2, <2>4 DEF Ordered, Before
  <2>6. n > 0
    BY <1>1, <1>2, <1>3, <1>4
  <2> QED  BY <2>1, <2>4, <2>5, <2>6
<1>5. CASE in.domain # "research"
  <2>1. Declared(in, i, n) \in Seq(E) /\ Ordered(Declared(in, i, n))
    <3>1. [item : {i}, part : 1 .. n] \subseteq E
      OBVIOUS
    <3>2. Declared(in, i, n) \in Seq([item : {i}, part : 1 .. n]) /\ Ordered(Declared(in, i, n))
      BY <1>2, DeclaredIs
    <3> HIDE DEF E
    <3> QED  BY <3>1, <3>2, SeqWider
  <2>2. Record(i, 0) \in E
    BY DEF Record
  <2> HIDE DEF E
  <2>3. /\ Ordered(<<>>) /\ Ordered(<<Record(i, 0)>>)
        /\ <<>> \in Seq(E) /\ <<Record(i, 0)>> \in Seq(E)
    BY <2>2, OrderedSmall
  <2>4. AllOf(in, i) \in {<<>>, <<Record(i, 0)>>, Declared(in, i, n)}
    BY <1>3, <1>5 DEF AllOf
  <2>5. AllOf(in, i) \in Seq(E) /\ Ordered(AllOf(in, i))
    BY <2>1, <2>3, <2>4, Zenon
  <2> QED  BY <1>5, <2>5 DEF E
<1> QED  BY <1>4, <1>5

\* The inventory grows item by item; that of a corpus at every document.
LEMMA InventoryIs ==
  ASSUME NEW in \in Inputs
  PROVE  /\ Len(in.items) \in Nat
         /\ Inventory(in)[0] = <<>>
         /\ \A i \in 1 .. Len(in.items) : Inventory(in)[i] = Inventory(in)[i - 1] \o AllOf(in, i)
         /\ \A i \in 0 .. Len(in.items) : Inventory(in)[i] \in Seq(Entry)
         /\ in.domain = "research" =>
              \A i, j \in 0 .. Len(in.items) :
                i < j => Len(Inventory(in)[i]) < Len(Inventory(in)[j])
<1>1. PICK n \in Nat : n = Len(in.items)
  <2>1. in.items \in Seq(Item)
    BY ScanAssumption
  <2> QED  BY <2>1, LenProperties
<1> DEFINE g == [i \in 1 .. n |-> AllOf(in, i)]
<1>2. g \in [1 .. n -> Seq(Entry)]
  <2> SUFFICES ASSUME NEW i \in 1 .. n PROVE AllOf(in, i) \in Seq(Entry)
    OBVIOUS
  <2>1. [item : {i}, part : Nat] \subseteq Entry
    BY DEF Entry
  <2>2. AllOf(in, i) \in Seq([item : {i}, part : Nat])
    BY <1>1, AllOfIs
  <2> QED  BY <2>1, <2>2, SeqWider
<1>3. \A i \in 1 .. n : g[i] = AllOf(in, i)
  OBVIOUS
<1>4. Inventory(in) = Prefixes(g)
  BY <1>1 DEF Inventory
<1> HIDE DEF g
<1>5. /\ Prefixes(g)[0] = <<>>
      /\ \A i \in 1 .. n : Prefixes(g)[i] = Prefixes(g)[i - 1] \o g[i]
      /\ \A i \in 0 .. n : Prefixes(g)[i] \in Seq(Entry)
  BY <1>2, PrefixesAre
<1>6. ASSUME in.domain = "research"
      PROVE  \A i, j \in 0 .. n : i < j => Len(Prefixes(g)[i]) < Len(Prefixes(g)[j])
  <2>1. \A i \in 1 .. n : Len(g[i]) > 0
    BY <1>1, <1>3, <1>6, AllOfIs
  <2> QED  BY <1>2, <2>1, PrefixesGrow
<1> QED  BY <1>1, <1>3, <1>4, <1>5, <1>6
-----------------------------------------------------------------------------
\* What the types of the constants say of the state.
LEMMA InputTyped ==
  ASSUME Typed
  PROVE  /\ input \in Inputs /\ input.domain \in {"repo", "research"} /\ Len(Items) \in Nat
         /\ at \in Nat /\ paths \in Nat /\ nodes \in Nat /\ Len(records) \in Nat
         /\ DOMAIN records = 1 .. Len(records)
         /\ \A i \in 1 .. Len(Items) : Items[i].parts \in Nat /\ Items[i] \in Item
         /\ caps.records \in Cap /\ caps.paths \in Cap /\ caps.nodes \in Cap
         /\ caps.metadata \in Cap /\ Uncapped \notin Nat
<1>1. input \in Inputs /\ input.domain \in {"repo", "research"} /\ input.items \in Seq(Item)
  BY ScanAssumption DEF Typed
<1>2. Len(Items) \in Nat /\ \A i \in 1 .. Len(Items) : Items[i] \in Item
  BY <1>1, LenProperties, ElementOfSeq DEF Items
<1>3. Len(records) \in Nat /\ DOMAIN records = 1 .. Len(records)
  BY LenProperties DEF Typed
<1>4. caps \in [records : Cap, paths : Cap, nodes : Cap, metadata : Cap] /\ Uncapped \notin Nat
  BY ScanAssumption DEF Typed
<1>5. at \in Nat /\ paths \in Nat /\ nodes \in Nat
  BY <1>2 DEF Typed
<1> QED  BY <1>1, <1>2, <1>3, <1>4, <1>5 DEF Item

\* The records of the next item come after those there are.
LEMMA Grown ==
  ASSUME Typed, Ordered(records),
         NEW new \in Seq([item : {at + 1}, part : Nat]), Ordered(new)
  PROVE  /\ records \o new \in Seq([item : 1 .. at + 1, part : Nat])
         /\ Ordered(records \o new)
         /\ Len(records \o new) = Len(records) + Len(new)
         /\ Len(new) \in Nat
<1> DEFINE R == [item : 1 .. at, part : Nat]  N == [item : {at + 1}, part : Nat]
           E == [item : 1 .. at + 1, part : Nat]
<1>1. at \in Nat
  BY InputTyped
<1>2. R \subseteq E /\ N \subseteq E
  BY <1>1
<1>3. records \in Seq(R) /\ new \in Seq(N)
  BY DEF Typed
<1>4. \A j \in 1 .. Len(records), k \in 1 .. Len(new) : Before(records[j], new[k])
  <2> SUFFICES ASSUME NEW j \in 1 .. Len(records), NEW k \in 1 .. Len(new)
               PROVE  Before(records[j], new[k])
    OBVIOUS
  <2>1. records[j] \in R
    BY <1>3, ElementOfSeq
  <2>2. new[k] \in N
    BY <1>3, ElementOfSeq
  <2>3. records[j].item \in 1 .. at /\ new[k].item = at + 1
    BY <2>1, <2>2
  <2>4. records[j].item \in Nat /\ records[j].item < at + 1
    BY <1>1, <2>3
  <2> QED  BY <2>3, <2>4 DEF Before
<1> HIDE DEF R, N, E
<1>5. records \in Seq(E) /\ new \in Seq(E)
  BY <1>2, <1>3, SeqWider
<1>6. Ordered(records \o new)
  BY <1>4, <1>5, OrderedConcat
<1> QED  BY <1>5, <1>6, ConcatProperties, LenProperties DEF E

\* Nothing has happened before the first item.
LEMMA InitHolds ==
  ASSUME Init
  PROVE  SInv
<1> USE DEF Init
<1>1. input \in Inputs /\ input.domain \in {"repo", "research"}
  BY ScanAssumption
<1>2. Len(Items) \in Nat /\ Inventory(input)[0] = <<>>
  BY <1>1, InventoryIs DEF Items
<1>3. records \in Seq([item : 1 .. at, part : Nat]) /\ Len(records) = 0
  BY EmptySeq
<1>4. Typed
  BY <1>2, <1>3 DEF Typed, Flags
<1>5. /\ caps.records \in Cap /\ caps.paths \in Cap /\ caps.nodes \in Cap
  BY <1>4, InputTyped
<1>6. Ordered(records)
  BY <1>3, LenProperties DEF Ordered
<1>7. Counted
  BY <1>5 DEF Counted, Cap
<1>8. Roomy
  BY <1>3, <1>5 DEF Roomy, Cap
<1>9. Complete /\ Short /\ Manifested
  BY <1>2 DEF Complete, Short, Manifested
<1> QED  BY <1>4, <1>6, <1>7, <1>8, <1>9 DEF SInv

\* The paths cap leaves an item out, and its flag is set.
LEMMA PathsFullHolds ==
  ASSUME SInv, PathsFull
  PROVE  SInv'
<1> USE DEF SInv, PathsFull
<1>1. Typed'
  BY DEF Typed, Flags, Items
<1>2. Counted' /\ Roomy' /\ Manifested'
  BY DEF Counted, Roomy, Manifested, Research
<1>3. Complete'
  BY DEF Complete
<1>4. Short'
  <2> SUFFICES ASSUME Research PROVE Len(records) < Len(Census(input))
    BY DEF Short, Research
  <2>1. records = Inventory(input)[at]
    BY DEF Complete, Short
  <2>2. at \in 0 .. Len(Items) /\ Len(Items) \in 0 .. Len(Items) /\ at < Len(Items)
    BY InputTyped DEF Typed
  <2>3. Len(Inventory(input)[at]) < Len(Inventory(input)[Len(Items)])
    BY <2>2, InputTyped, InventoryIs DEF Research, Items
  <2> QED  BY <2>1, <2>3 DEF Census, Items
<1>5. Ordered(records)'
  BY DEF Ordered
<1> QED  BY <1>1, <1>2, <1>3, <1>4, <1>5

\* An item that has nothing to give: nothing is added to the inventory either.
LEMMA NothingToGive ==
  ASSUME SInv, at < Len(Items), Repo, Items[at + 1].kind # "text"
  PROVE  Inventory(input)[at + 1] = Inventory(input)[at]
<1>1. PICK i \in 1 .. Len(input.items) : i = at + 1 /\ i - 1 = at
  BY InputTyped DEF SInv, Items
<1>2. AllOf(input, i) = <<>>
  BY <1>1 DEF AllOf, Items, Repo
<1>3. Inventory(input)[i] = Inventory(input)[i - 1] \o AllOf(input, i)
  BY InputTyped, InventoryIs DEF SInv
<1>4. Inventory(input)[i - 1] \in Seq(Entry)
  BY InputTyped, InventoryIs DEF SInv
<1> QED  BY <1>1, <1>2, <1>3, <1>4, ConcatEmptySeq

\* A file outside the question is passed over.
LEMMA PassFileHolds ==
  ASSUME SInv, PassFile
  PROVE  SInv'
<1> USE DEF SInv, PassFile, MayScan
<1>1. at \in Nat /\ Len(Items) \in Nat /\ paths \in Nat /\ at' = at + 1 /\ Repo
  BY InputTyped DEF Repo
<1>2. records' \in Seq([item : 1 .. at + 1, part : Nat])
  <2>1. [item : 1 .. at, part : Nat] \subseteq [item : 1 .. at + 1, part : Nat]
    BY <1>1
  <2> QED  BY <2>1, SeqWider DEF Typed
<1>3. Typed'
  BY <1>1, <1>2 DEF Typed, Items
<1>4. Counted' /\ Roomy' /\ Manifested' /\ Short'
  BY <1>1 DEF Counted, Roomy, Manifested, Short, Research, Repo
<1>5. Complete'
  BY <1>1, NothingToGive DEF Complete
<1>6. Ordered(records)'
  BY DEF Ordered
<1> QED  BY <1>3, <1>4, <1>5, <1>6

\* A file that cannot be read counts as a path.
LEMMA SkipUnreadableHolds ==
  ASSUME SInv, SkipUnreadable
  PROVE  SInv'
<1> USE DEF SInv, SkipUnreadable, MayScan
<1>1. at \in Nat /\ Len(Items) \in Nat /\ paths \in Nat /\ at' = at + 1 /\ Repo
  BY InputTyped DEF Repo
<1>2. records' \in Seq([item : 1 .. at + 1, part : Nat])
  <2>1. [item : 1 .. at, part : Nat] \subseteq [item : 1 .. at + 1, part : Nat]
    BY <1>1
  <2> QED  BY <2>1, SeqWider DEF Typed
<1>3. Typed'
  BY <1>1, <1>2 DEF Typed, Items
<1>4. Counted'
  BY <1>1, InputTyped DEF Counted, Research, Repo, Reached, Cap
<1>5. Roomy' /\ Manifested' /\ Short'
  BY <1>1 DEF Roomy, Manifested, Short, Research, Repo
<1>6. Complete'
  BY <1>1, NothingToGive DEF Complete
<1>7. Ordered(records)'
  BY DEF Ordered
<1> QED  BY <1>3, <1>4, <1>5, <1>6, <1>7

\* A document: either all its records fit, or the flag is set and some are
\* missing, so what there is is shorter than the inventory.
LEMMA ScanDocumentHolds ==
  ASSUME SInv, ScanDocument
  PROVE  SInv'
<1> USE DEF SInv, MayScan
<1> DEFINE all == AllOf(input, at + 1)
           room == IF caps.records = Uncapped THEN Len(all) ELSE caps.records - Len(records)
           new == Keep(all, room)
           N == [item : {at + 1}, part : Nat]
<1>1. /\ Research /\ at \in Nat /\ Len(Items) \in Nat /\ at < Len(Items) /\ Len(records) \in Nat
      /\ caps.records \in Cap /\ Uncapped \notin Nat /\ input \in Inputs /\ state = "scanning"
      /\ caps.paths \in Cap /\ flags = {} /\ paths = at
  BY InputTyped DEF ScanDocument, Research, Short, Counted
<1>2. /\ at' = at + 1 /\ paths' = paths + 1
      /\ input' = input /\ caps' = caps /\ nodes' = nodes
      /\ records' = records \o new
      /\ flags' = flags \cup (IF Len(all) > room THEN {"records"} ELSE {})
      /\ state' = IF Len(all) > room THEN "collected" ELSE state
  BY DEF ScanDocument
<1>3. all \in Seq(N) /\ Ordered(all) /\ Len(all) \in Nat
  <2>1. PICK i \in 1 .. Len(input.items) : i = at + 1
    BY <1>1 DEF Items
  <2>2. AllOf(input, i) \in Seq([item : {i}, part : Nat]) /\ Ordered(AllOf(input, i))
    BY <1>1, AllOfIs
  <2> QED  BY <2>1, <2>2, LenProperties
<1>4. room \in Nat /\ (caps.records # Uncapped => Len(records) + room = caps.records)
  BY <1>1, <1>3 DEF Roomy, Cap
<1> HIDE DEF all, room, N
<1>5. /\ new \in Seq(N) /\ Ordered(new)
      /\ Len(new) = IF room < Len(all) THEN room ELSE Len(all)
      /\ room >= Len(all) => new = all
  BY <1>3, <1>4, KeepIs, OrderedKeep
<1> HIDE DEF new
<1>6. /\ records' \in Seq([item : 1 .. at + 1, part : Nat])
      /\ Ordered(records')
      /\ Len(records') = Len(records) + Len(new)
  BY <1>2, <1>5, Grown DEF N
<1>7. Typed'
  BY <1>1, <1>2, <1>6 DEF Typed, Items, Flags
<1>8. Counted'
  BY <1>1, <1>2 DEF Counted, ScanDocument, Reached, Cap, Research
<1>9. Roomy'
  <2>1. Len(new) =< room
    BY <1>3, <1>4, <1>5
  <2>2. Len(new) \in Nat
    BY <1>3, <1>4, <1>5
  <2>3. caps.records # Uncapped => caps.records \in Nat /\ Len(records') =< caps.records
    BY <1>1, <1>4, <1>6, <2>1, <2>2 DEF Cap
  <2> QED  BY <1>2, <1>1, <1>4, <1>6, <2>1, <2>2, <2>3 DEF Roomy
<1>10. /\ records = Inventory(input)[at]
       /\ Inventory(input)[at + 1] = records \o all
       /\ Len(records \o all) = Len(records) + Len(all)
       /\ Len(records) + Len(all) =< Len(Census(input))
  <2>1. PICK i \in 1 .. Len(input.items) : i = at + 1 /\ i - 1 = at
    BY <1>1 DEF Items
  <2>2. records = Inventory(input)[at]
    BY <1>1 DEF Complete
  <2>3. Inventory(input)[i] = Inventory(input)[i - 1] \o AllOf(input, i)
    BY <1>1, InventoryIs
  <2>4. records \in Seq(Entry) /\ all \in Seq(Entry)
    <3>1. [item : 1 .. at, part : Nat] \subseteq Entry /\ N \subseteq Entry
      BY <1>1 DEF Entry, N
    <3> QED  BY <1>3, <3>1, SeqWider DEF Typed
  <2>5. Len(records \o all) = Len(records) + Len(all)
    BY <2>4, ConcatProperties
  <2>6. Inventory(input)[i] = records \o all
    BY <2>1, <2>2, <2>3 DEF all
  <2>7. Len(Inventory(input)[i]) =< Len(Census(input))
    <3>1. i = Len(input.items) \/ i < Len(input.items)
      BY <2>1
    <3>2. i \in 0 .. Len(input.items) /\ Len(input.items) \in 0 .. Len(input.items)
      BY <1>1, <2>1 DEF Items
    <3>3. i < Len(input.items) =>
            Len(Inventory(input)[i]) < Len(Inventory(input)[Len(input.items)])
      BY <1>1, <3>2, InventoryIs DEF Research
    <3>4. Len(Inventory(input)[i]) \in Nat /\ Len(Census(input)) \in Nat
      <4>1. Inventory(input)[i] \in Seq(Entry) /\ Census(input) \in Seq(Entry)
        BY <1>1, <3>2, InventoryIs DEF Census
      <4> QED  BY <4>1, LenProperties
    <3> QED  BY <3>1, <3>3, <3>4 DEF Census
  <2> QED  BY <2>1, <2>2, <2>5, <2>6, <2>7
<1>11. CASE Len(all) > room
  <2>1. flags' # {} /\ state' = "collected"
    BY <1>2, <1>11
  <2>2. Len(records') < Len(Census(input'))
    <3>1. Len(records') < Len(records) + Len(all)
      BY <1>1, <1>3, <1>4, <1>5, <1>6, <1>11
    <3>2. Len(Census(input)) \in Nat
      <4>1. Census(input) \in Seq(Entry)
        BY <1>1, InventoryIs DEF Census, Items
      <4> QED  BY <4>1, LenProperties
    <3>3. Len(records') \in Nat
      BY <1>6, LenProperties
    <3>4. Len(records) + Len(all) =< Len(Census(input)) /\ input' = input
      BY <1>2, <1>10
    <3> QED  BY <1>1, <1>3, <3>1, <3>2, <3>3, <3>4
  <2>3. Complete' /\ Short' /\ Manifested'
    BY <2>1, <2>2 DEF Complete, Short, Manifested
  <2> QED  BY <1>6, <1>7, <1>8, <1>9, <2>3
<1>12. CASE ~(Len(all) > room)
  <2>1. flags' = {} /\ state' = "scanning" /\ new = all
    BY <1>1, <1>2, <1>3, <1>4, <1>5, <1>12
  <2>2. Complete' /\ Short' /\ Manifested'
    BY <1>2, <1>10, <2>1 DEF Complete, Short, Manifested
  <2> QED  BY <1>6, <1>7, <1>8, <1>9, <2>2
<1> QED  BY <1>11, <1>12

\* When every item was visited the inventory is the census.
LEMMA ScanEndsHolds ==
  ASSUME SInv, ScanEnds
  PROVE  SInv'
<1> USE DEF SInv, ScanEnds
<1>1. Typed'
  BY DEF Typed, Items
<1>2. Counted' /\ Roomy' /\ Manifested' /\ Short'
  BY DEF Counted, Roomy, Manifested, Research, Short
<1>3. Complete'
  BY DEF Complete, Census, Items
<1>4. Ordered(records)'
  BY DEF Ordered
<1> QED  BY <1>1, <1>2, <1>3, <1>4

\* A prefix is kept: the whole, or a shorter one that is flagged.
LEMMA BuildHolds ==
  ASSUME SInv, Build
  PROVE  SInv'
<1> USE DEF SInv
<1> DEFINE R == [item : 1 .. at, part : Nat]
<1>1. /\ records \in Seq(R) /\ Len(records) \in Nat /\ caps.metadata \in Cap
      /\ Uncapped \notin Nat /\ caps.records \in Cap
  BY InputTyped DEF Typed
<1>2. /\ state = "collected" /\ state' = "built"
      /\ UNCHANGED <<input, caps, at, paths, nodes>>
      /\ records' = IF Reached(caps.metadata, Len(records))
                      THEN Keep(records, caps.metadata) ELSE records
      /\ flags' = IF Len(records') < Len(records) THEN flags \cup {"metadata_bytes"} ELSE flags
  BY DEF Build
<1> HIDE DEF R
<1>3. /\ records' \in Seq(R) /\ Ordered(records') /\ Len(records') \in Nat
      /\ Len(records') =< Len(records)
      /\ Len(records') = Len(records) => records' = records
      /\ caps.metadata # Uncapped => Len(records') =< caps.metadata
  <2>1. CASE Reached(caps.metadata, Len(records))
    <3>1. caps.metadata \in Nat /\ caps.metadata =< Len(records)
      BY <1>1, <2>1 DEF Reached, Cap
    <3>2. records' = Keep(records, caps.metadata)
      BY <1>2, <2>1
    <3>3. /\ records' \in Seq(R) /\ Ordered(records')
          /\ Len(records') = IF caps.metadata < Len(records) THEN caps.metadata ELSE Len(records)
          /\ caps.metadata >= Len(records) => records' = records
      BY <1>1, <3>1, <3>2, KeepIs, OrderedKeep
    <3> QED  BY <1>1, <3>1, <3>3
  <2>2. CASE ~Reached(caps.metadata, Len(records))
    BY <1>1, <1>2, <2>2 DEF Reached, Cap
  <2> QED  BY <2>1, <2>2
<1>4. Typed'
  <2>1. flags' \subseteq Flags
    BY <1>2 DEF Typed, Flags
  <2> QED  BY <1>2, <1>3, <2>1 DEF Typed, Items, R
<1>5. Counted'
  BY <1>2 DEF Counted, Research
<1>6. Roomy'
  BY <1>1, <1>2, <1>3 DEF Roomy, Research, Cap
<1>7. Complete'
  <2> SUFFICES ASSUME flags' = {}
               PROVE  records' = Census(input') \/ (Repo /\ Reached(caps.records, Len(records)))'
    BY <1>2 DEF Complete
  <2>1. flags = {} /\ ~(Len(records') < Len(records))
    BY <1>2
  <2>2. records' = records
    BY <1>1, <1>3, <2>1
  <2> QED  BY <1>2, <2>1, <2>2 DEF Complete, Repo, Reached
<1>8. Manifested'
  BY <1>2, <1>3 DEF Manifested
<1>9. Short'
  <2> SUFFICES ASSUME Research, flags' # {} PROVE Len(records') < Len(Census(input))
    BY <1>2 DEF Short, Research
  <2>1. Len(Census(input)) \in Nat
    <3>1. Census(input) \in Seq(Entry)
      BY InputTyped, InventoryIs DEF Census, Items
    <3> QED  BY <3>1, LenProperties
  <2>2. CASE flags # {}
    BY <1>1, <1>3, <2>1, <2>2 DEF Short
  <2>3. CASE flags = {}
    <3>1. Len(records') < Len(records)
      BY <1>2, <2>3
    <3>2. records = Census(input)
      BY <1>2, <2>3 DEF Complete, Repo, Research
    <3> QED  BY <3>1, <3>2
  <2> QED  BY <2>2, <2>3
<1> QED  BY <1>3, <1>4, <1>5, <1>6, <1>7, <1>8, <1>9

\* The declarations the walk of a file records: all of them, or up to the cap.
LEMMA VisitedIs ==
  ASSUME Typed, Counted, NEW n \in Nat
  PROVE  /\ Visited(n) \in Nat /\ Visited(n) =< n
         /\ caps.nodes # Uncapped => nodes + Visited(n) =< caps.nodes
<1>1. caps.nodes \in Cap /\ nodes \in Nat /\ Uncapped \notin Nat
  BY InputTyped
<1> QED  BY <1>1 DEF Visited, Counted, Cap

\* The records of a file that are kept: all of them, unless they fill the
\* manifest.  A manifest that was full takes one more.
LEMMA AppendedIs ==
  ASSUME Typed, Roomy, state = "scanning",
         NEW S, NEW found \in Seq(S), Ordered(found), NEW more,
         more = IF found = <<>> THEN <<>> ELSE Keep(found, Appended(found))
  PROVE  /\ more \in Seq(S) /\ Ordered(more)
         /\ caps.records # Uncapped => Len(records) + Len(more) =< caps.records + 1
         /\ caps.records # Uncapped /\ more = <<>> => Len(records) + Len(more) =< caps.records
         /\ \/ more = found
            \/ caps.records # Uncapped /\ Len(records) + Len(more) >= caps.records
<1>1. /\ caps.records \in Cap /\ Len(records) \in Nat /\ Uncapped \notin Nat
      /\ caps.records # Uncapped => Len(records) =< caps.records
  BY InputTyped DEF Roomy
<1>2. Len(found) \in Nat
  BY LenProperties
<1>3. CASE found = <<>>
  BY <1>1, <1>3, EmptySeq DEF Cap
<1>4. CASE found # <<>>
  <2>1. Len(found) > 0
    BY <1>2, <1>4, EmptySeq
  <2> DEFINE a == Appended(found)
  <2>2. /\ a \in Nat
        /\ \/ a = Len(found) /\ (caps.records # Uncapped => Len(records) + a =< caps.records)
           \/ /\ caps.records # Uncapped /\ caps.records \in Nat /\ a \in Nat \ {0}
              /\ Len(records) + a >= caps.records /\ Len(records) + a =< caps.records + 1
    BY <1>1, <1>2 DEF Appended, Cap
  <2> HIDE DEF a
  <2>3. /\ more \in Seq(S) /\ Ordered(more)
        /\ Len(more) = IF a < Len(found) THEN a ELSE Len(found)
        /\ a >= Len(found) => more = found
    BY <1>4, <2>2, KeepIs, OrderedKeep DEF a
  <2>4. more # <<>>
    <3>1. Len(more) > 0
      BY <1>2, <2>1, <2>2, <2>3
    <3> QED  BY <3>1, EmptySeq
  <2> QED  BY <1>1, <1>2, <2>2, <2>3, <2>4 DEF Cap
<1> QED  BY <1>3, <1>4

\* A file: what it adds to the records, and that without a flag it is all
\* there was, unless the manifest is full.
LEMMA ScanFileHolds ==
  ASSUME SInv, ScanFile
  PROVE  SInv'
<1> USE DEF SInv, MayScan
<1>1. /\ Repo /\ at \in Nat /\ Len(Items) \in Nat /\ at < Len(Items) /\ Len(records) \in Nat
      /\ caps.records \in Cap /\ Uncapped \notin Nat /\ input \in Inputs /\ state = "scanning"
      /\ caps.paths \in Cap /\ paths \in Nat /\ nodes \in Nat
  BY InputTyped DEF ScanFile, Repo
<1>2. PICK i \in 1 .. Len(input.items) : i = at + 1 /\ i - 1 = at
  BY <1>1 DEF Items
<1>3. PICK n \in Nat : n = Items[at + 1].parts /\ Items[i].parts = n
  BY <1>2, InputTyped DEF Items
<1> DEFINE seen == Visited(n)
           found == Declared(input, at + 1, seen)
           more == IF found = <<>> THEN <<>> ELSE Keep(found, Appended(found))
           after == records \o more
           full == Reached(caps.records, Len(after))
           whole == seen = 0 /\ ~input.filtered /\ ~full
           new == IF whole THEN <<Record(at + 1, 0)>> ELSE more
           N == [item : {at + 1}, part : Nat]
<1>4. /\ at' = at + 1 /\ paths' = paths + 1 /\ input' = input /\ caps' = caps
      /\ nodes' = nodes + seen
      /\ records' = IF whole THEN Append(after, Record(at + 1, 0)) ELSE after
      /\ flags' = flags \cup (IF seen < n THEN {"ast_nodes"} ELSE {})
                        \cup (IF full /\ more # <<>> THEN {"records"} ELSE {})
      /\ state' = IF full THEN "collected" ELSE state
  BY <1>3 DEF ScanFile
<1>5. /\ seen \in Nat /\ seen =< n
      /\ caps.nodes # Uncapped => nodes + seen =< caps.nodes
  BY VisitedIs
<1> HIDE DEF seen
<1>6. /\ found \in Seq(N) /\ Ordered(found)
      /\ seen = 0 => found = <<>>
  <2>1. /\ Declared(input, i, seen) \in Seq([item : {i}, part : 1 .. seen])
        /\ Ordered(Declared(input, i, seen))
        /\ seen = 0 => Declared(input, i, seen) = <<>>
    BY <1>5, DeclaredIs
  <2>2. [item : {i}, part : 1 .. seen] \subseteq N
    BY <1>2, <1>5
  <2> HIDE DEF N
  <2>3. Declared(input, i, seen) \in Seq(N)
    BY <2>1, <2>2, SeqWider
  <2> QED  BY <1>2, <2>1, <2>3
<1> HIDE DEF found
<1>7. /\ more \in Seq(N) /\ Ordered(more)
      /\ caps.records # Uncapped => Len(records) + Len(more) =< caps.records + 1
      /\ caps.records # Uncapped /\ more = <<>> => Len(records) + Len(more) =< caps.records
      /\ \/ more = found
         \/ caps.records # Uncapped /\ Len(records) + Len(more) >= caps.records
  <2> HIDE DEF N
  <2> QED  BY <1>1, <1>6, AppendedIs
<1>8. seen = 0 => more = <<>>
  BY <1>6
<1> HIDE DEF more
<1>9. Record(at + 1, 0) \in N
  BY <1>1 DEF Record
<1>10. /\ <<Record(at + 1, 0)>> \in Seq(N) /\ Ordered(<<Record(at + 1, 0)>>)
       /\ Len(<<Record(at + 1, 0)>>) = 1
  <2> HIDE DEF N
  <2> QED  BY <1>9, OrderedSmall
<1>11. /\ Len(after) = Len(records) + Len(more) /\ Len(more) \in Nat
       /\ Len(after) \in Nat
  BY <1>1, <1>7, Grown DEF N
<1>12. new \in Seq(N) /\ Ordered(new) /\ (whole => Len(new) = 1)
  BY <1>7, <1>10
<1>13. records' = records \o new
  <2>1. CASE ~whole
    BY <1>4, <2>1
  <2>2. CASE whole
    <3>1. after = records
      BY <1>8, <2>2, ConcatEmptySeq DEF Typed
    <3>2. Append(records, Record(at + 1, 0)) = records \o <<Record(at + 1, 0)>>
      <4>1. records \in Seq(Entry) /\ Record(at + 1, 0) \in Entry
        <5>1. [item : 1 .. at, part : Nat] \subseteq Entry
          BY <1>1 DEF Entry
        <5>2. records \in Seq(Entry)
          BY <5>1, SeqWider DEF Typed
        <5>3. Record(at + 1, 0) \in Entry
          BY <1>1 DEF Record, Entry
        <5> QED  BY <5>2, <5>3
      <4> QED  BY <4>1, AppendIsConcat
    <3> QED  BY <1>4, <2>2, <3>1, <3>2
  <2> QED  BY <2>1, <2>2
<1>14. full <=> caps.records # Uncapped /\ Len(records) + Len(more) >= caps.records
  BY <1>11 DEF Reached
<1> HIDE DEF full, after
<1>15. whole => more = <<>> /\ ~full
  BY <1>8
<1> HIDE DEF whole
<1>16. ~whole => new = more
  OBVIOUS
<1>17. whole => new = <<Record(at + 1, 0)>>
  OBVIOUS
<1> HIDE DEF new
<1>18. /\ records' \in Seq([item : 1 .. at + 1, part : Nat])
       /\ Ordered(records')
       /\ Len(records') = Len(records) + Len(new)
  BY <1>12, <1>13, Grown DEF N
<1>19. Typed'
  <2>1. flags' \subseteq Flags
    BY <1>4 DEF Typed, Flags
  <2>2. nodes' \in Nat /\ paths' \in 0 .. at'
    BY <1>1, <1>4, <1>5 DEF Typed
  <2>3. at' \in 0 .. Len(Items)'
    BY <1>1, <1>4 DEF Items
  <2>4. state' \in {"scanning", "collected", "built"}
    BY <1>1, <1>4
  <2> QED  BY <1>4, <1>18, <2>1, <2>2, <2>3, <2>4 DEF Typed
<1>20. Counted'
  <2>1. caps.paths # Uncapped => paths + 1 =< caps.paths
    BY <1>1 DEF ScanFile, Reached, Cap, Repo
  <2> QED  BY <1>1, <1>4, <1>5, <2>1 DEF Counted, Repo, Research
<1>21. Len(more) = 0 <=> more = <<>>
  BY <1>7, EmptySeq
<1>22. Roomy'
  <2> SUFFICES ASSUME caps.records # Uncapped
               PROVE  /\ state' = "scanning" => Len(records') =< caps.records
                      /\ Len(records') =< caps.records + 1
    BY <1>1, <1>4 DEF Roomy, Repo, Research
  <2>1. caps.records \in Nat
    BY <1>1 DEF Cap
  <2>2. CASE whole
    <3>1. Len(records') = Len(records) + 1 /\ Len(more) = 0 /\ ~full
      BY <1>12, <1>15, <1>18, <1>21, <2>2
    <3> QED  BY <1>1, <1>14, <2>1, <3>1
  <2>3. CASE ~whole
    <3>1. Len(records') = Len(records) + Len(more)
      BY <1>16, <1>18, <2>3
    <3>2. state' = "scanning" => ~full
      BY <1>4
    <3> QED  BY <1>1, <1>7, <1>11, <1>14, <2>1, <3>1, <3>2
  <2> QED  BY <2>2, <2>3
<1>23. Complete'
  <2> SUFFICES ASSUME flags' = {}
               PROVE  /\ ~full => records' = Inventory(input)[at + 1]
                      /\ full => Reached(caps.records, Len(records))'
    <3>1. Repo'
      BY <1>1, <1>4 DEF Repo
    <3>2. full => state' = "collected"
      BY <1>4
    <3>3. ~full => state' = "scanning"
      BY <1>1, <1>4
    <3>4. CASE full
      BY <3>1, <3>2, <3>4 DEF Complete
    <3>5. CASE ~full
      BY <1>4, <3>3, <3>5 DEF Complete
    <3> QED  BY <3>4, <3>5
  <2>1. flags = {} /\ seen = n
    <3>1. flags = {} /\ ~(seen < n)
      BY <1>4
    <3> QED  BY <1>5, <3>1
  <2>2. full => Reached(caps.records, Len(records))'
    <3> SUFFICES ASSUME full PROVE Reached(caps.records, Len(records))'
      OBVIOUS
    <3>1. ~whole
      BY <1>15
    <3> QED  BY <1>4, <1>14, <1>16, <1>18, <3>1 DEF Reached
  <2>3. ASSUME ~full PROVE records' = Inventory(input)[at + 1]
    <3>1. more = found
      BY <1>7, <1>14, <2>3
    <3>2. records = Inventory(input)[at]
      BY <1>1, <2>1 DEF Complete
    <3>3. Inventory(input)[i] = Inventory(input)[i - 1] \o AllOf(input, i)
      BY <1>1, InventoryIs
    <3>4. AllOf(input, i) = IF n = 0 /\ ~input.filtered THEN <<Record(i, 0)>>
                            ELSE Declared(input, i, n)
      <4>1. input.domain # "research" /\ input.items[i].kind = "text" /\ input.items[i].parts = n
        BY <1>2, <1>3 DEF ScanFile, Items
      <4> QED  BY <4>1 DEF AllOf
    <3>5. whole <=> n = 0 /\ ~input.filtered
      BY <2>1, <2>3 DEF whole
    <3>6. new = AllOf(input, i)
      BY <1>2, <1>16, <1>17, <2>1, <3>1, <3>4, <3>5 DEF found
    <3> QED  BY <1>2, <1>13, <3>2, <3>3, <3>6
  <2> QED  BY <2>2, <2>3
<1>24. Short' /\ Manifested'
  BY <1>1, <1>4 DEF Short, Manifested, Repo, Research
<1> QED  BY <1>18, <1>19, <1>20, <1>22, <1>23, <1>24
-----------------------------------------------------------------------------
\* Every step of a scan keeps the invariant.
LEMMA StepHolds ==
  ASSUME SInv, [Next]_vars
  PROVE  SInv'
<1>1. CASE PathsFull
  BY <1>1, PathsFullHolds
<1>2. CASE PassFile
  BY <1>2, PassFileHolds
<1>3. CASE SkipUnreadable
  BY <1>3, SkipUnreadableHolds
<1>4. CASE ScanFile
  BY <1>4, ScanFileHolds
<1>5. CASE ScanDocument
  BY <1>5, ScanDocumentHolds
<1>6. CASE ScanEnds
  BY <1>6, ScanEndsHolds
<1>7. CASE Build
  BY <1>7, BuildHolds
<1>8. CASE UNCHANGED vars
  BY <1>8 DEF vars, SInv, Typed, Ordered, Counted, Roomy, Complete, Short, Manifested, Items,
              Repo, Research, Reached
<1> QED  BY <1>1, <1>2, <1>3, <1>4, <1>5, <1>6, <1>7, <1>8 DEF Next

\* The inductive invariant holds of every state of every scan.
THEOREM ScanKeepsInvariant == Spec => []SInv
<1>1. Init => SInv
  BY InitHolds
<1>2. SInv /\ [Next]_vars => SInv'
  BY StepHolds
<1> QED  BY <1>1, <1>2, PTL DEF Spec

\* Whatever the files, the question and the caps, the records of a manifest
\* name distinct targets of the items, in their order: an identifier, which is
\* a position, means one target.
THEOREM IdentifiersMeanOneTarget == Spec => []ManifestWellFormed
<1>1. SInv => ManifestWellFormed
  <2> SUFFICES ASSUME SInv PROVE ManifestWellFormed
    OBVIOUS
  <2>1. at \in 0 .. Len(Items) /\ Len(Items) \in Nat
    BY InputTyped DEF SInv, Typed
  <2>2. records \in Seq([item : 1 .. Len(Items), part : Nat])
    <3>1. [item : 1 .. at, part : Nat] \subseteq [item : 1 .. Len(Items), part : Nat]
      BY <2>1
    <3> QED  BY <3>1, SeqWider DEF SInv, Typed
  <2> QED  BY <2>2 DEF SInv, Typed, ManifestWellFormed, TypeOK
<1> QED  BY <1>1, ScanKeepsInvariant, PTL

\* A manifest with no flag, of a scan that did not fill its records cap, is
\* all that an uncapped scan finds: nothing is left out in silence.
THEOREM NothingLeftOutInSilence == Spec => []UnflaggedIsComplete
<1>1. SInv => UnflaggedIsComplete
  BY DEF SInv, Complete, UnflaggedIsComplete
<1> QED  BY <1>1, ScanKeepsInvariant, PTL

\* The manifest of a corpus is flagged exactly when it is not the census.
THEOREM CorpusFlagsTellTheTruth == Spec => []CorpusFlagsExact
<1>1. SInv => CorpusFlagsExact
  <2> SUFFICES ASSUME SInv, state = "built", Research
               PROVE  flags = {} <=> records = Census(input)
    BY DEF CorpusFlagsExact, Research
  <2>1. flags = {} => records = Census(input)
    BY DEF SInv, Complete, Repo, Research
  <2>2. flags # {} => records # Census(input)
    <3>1. Len(records) \in Nat
      BY InputTyped DEF SInv
    <3> QED  BY <3>1 DEF SInv, Short
  <2> QED  BY <2>1, <2>2
<1> QED  BY <1>1, ScanKeepsInvariant, PTL

\* No count passes its cap, but for the one record by which the files of a
\* repository may pass theirs.
THEOREM CapsAreKept == Spec => []CapsKept
<1>1. SInv => CapsKept
  <2> SUFFICES ASSUME SInv PROVE CapsKept
    OBVIOUS
  <2>1. /\ input.domain \in {"repo", "research"} /\ caps.records \in Cap /\ Len(records) \in Nat
        /\ Uncapped \notin Nat
    BY InputTyped DEF SInv
  <2>2. caps.records # Uncapped =>
          Len(records) =< caps.records + IF input.domain = "repo" THEN 1 ELSE 0
    BY <2>1 DEF SInv, Roomy, Research, Cap
  <2> QED  BY <2>2 DEF SInv, Counted, Manifested, CapsKept
<1> QED  BY <1>1, ScanKeepsInvariant, PTL
=============================================================================
