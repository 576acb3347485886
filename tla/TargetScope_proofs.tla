------------------------- MODULE TargetScope_proofs -------------------------
(***************************************************************************)
(* What a runtime is shown stays inside its manifest, and manifests only   *)
(* narrow unless a call names other targets: for any documents, bounds,    *)
(* manifests and depth.                                                    *)
(***************************************************************************)
EXTENDS TargetScope, TLAPS

IInv ==
  /\ TypeOK
  /\ AnswersWithin
  /\ NarrowsUnlessNamed
  /\ ScopedStaysScoped

\* A line range that is let through, its end counted from the start, is in the
\* extent of the targets: reads clamp at both ends of the file.
LEMMA RepoReadWithin ==
  ASSUME NEW v \in View, NEW d \in Docs,
         NEW s \in Int \cup {None}, NEW e \in Int \cup {None},
         How(e) = "span", R!Allowed(v, d, s, e)
  PROVE  R!Span(d, s, e) \subseteq R!Extent(v, d)
<1> USE ScopeAssumption
<1> DEFINE n == Lines[d]
<1>1. n \in Nat
  OBVIOUS
<1> SUFFICES ASSUME NEW i \in R!Span(d, s, e), v # None
             PROVE  i \in R!Extent(v, d)
  BY DEF R!Span, R!Extent
<1>2. /\ i \in 1 .. n
      /\ s # None => s =< i
      /\ e # None => i =< e
  BY <1>1 DEF R!Span, R!Positions, R!Slice, R!Wrap, How
<1>3. PICK t \in v :
        /\ t.doc = d
        /\ R!Covers(t, IF s = None THEN 1 ELSE s, IF e = None THEN n ELSE e)
  BY DEF R!Allowed
<1>4. t.start \in Int \cup {None} /\ t.end \in Int \cup {None}
  BY DEF View, Target
<1>5. R!Covers(t, i, i)
  BY <1>1, <1>2, <1>3, <1>4 DEF R!Covers
<1> QED
  BY <1>2, <1>3, <1>5 DEF R!Extent, R!Positions

\* The same for half open ranges of characters, where a negative start selects
\* less than it was compared for.
LEMMA CorpusReadWithin ==
  ASSUME NEW v \in View, NEW d \in Docs,
         NEW s \in Int \cup {None}, NEW e \in Int \cup {None},
         How(e) = "span", C!Allowed(v, d, s, e)
  PROVE  C!Span(d, s, e) \subseteq C!Extent(v, d)
<1> USE ScopeAssumption
<1> DEFINE n == Chars[d]
<1>1. n \in Nat
  OBVIOUS
<1> SUFFICES ASSUME NEW i \in C!Span(d, s, e), v # None
             PROVE  i \in C!Extent(v, d)
  BY DEF C!Span, C!Extent, C!Slice, C!Positions
<1>2. /\ i \in 0 .. n - 1
      /\ s # None => s =< i
      /\ e # None => i + 1 =< e
  BY <1>1 DEF C!Span, C!Slice, C!Wrap, How
<1>3. PICK t \in v :
        /\ t.doc = d
        /\ C!Covers(t, IF s = None THEN 0 ELSE s, IF e = None THEN n ELSE e)
  BY DEF C!Allowed
<1>4. t.start \in Int \cup {None} /\ t.end \in Int \cup {None}
  BY DEF View, Target
<1>5. C!Covers(t, i, i + 1)
  BY <1>1, <1>2, <1>3, <1>4 DEF C!Covers
<1> QED
  BY <1>2, <1>3, <1>5 DEF C!Extent, C!Positions

\* Every read that is let through and whose end counts from the start.
LEMMA ReadWithin ==
  ASSUME NEW v \in View, NEW d \in Docs,
         NEW s \in Int \cup {None}, NEW e \in Int \cup {None},
         How(e) = "span", Allowed(v, d, s, e)
  PROVE  Span(d, s, e) \subseteq Extent(v, d)
BY RepoReadWithin, CorpusReadWithin DEF Allowed, Span, Extent

\* Whatever its bounds, a read that is let through shows nothing before the
\* start of the target that let it through.
LEMMA ReadFromStart ==
  ASSUME NEW v \in View, NEW d \in Docs,
         NEW s \in Int \cup {None}, NEW e \in Int \cup {None},
         Allowed(v, d, s, e), v # None
  PROVE  \A i \in Span(d, s, e) : FromStart(v, d, i)
<1> USE ScopeAssumption
<1> SUFFICES ASSUME NEW i \in Span(d, s, e)
             PROVE  \E t \in v : t.doc = d /\ (t.start # None => i >= t.start)
  BY DEF FromStart
<1>1. \A t \in v : t.start \in Int \cup {None}
  BY DEF View, Target
<1>2. Lines[d] \in Nat /\ Chars[d] \in Nat
  OBVIOUS
<1>3. CASE mode = "repo"
  <2>1. i \in 1 .. Lines[d] /\ (s # None => s =< i)
    BY <1>2, <1>3 DEF Span, R!Span, R!Positions, R!Slice, R!Wrap
  <2>2. PICK t \in v : t.doc = d /\ (t.start # None => (IF s = None THEN 1 ELSE s) >= t.start)
    BY <1>3 DEF Allowed, R!Allowed, R!Covers
  <2> QED
    BY <1>1, <2>1, <2>2
<1>4. CASE mode # "repo"
  <2>1. i \in 0 .. Chars[d] - 1 /\ (s # None => s =< i)
    BY <1>2, <1>4 DEF Span, C!Span, C!Slice, C!Wrap
  <2>2. PICK t \in v : t.doc = d /\ (t.start # None => (IF s = None THEN 0 ELSE s) >= t.start)
    BY <1>4 DEF Allowed, C!Allowed, C!Covers
  <2> QED
    BY <1>1, <2>1, <2>2
<1> QED
  BY <1>3, <1>4

\* Grep shows lines of the ranges, search the lines that start in them:
\* neither shows anything before a range.
LEMMA SearchFromStart ==
  ASSUME NEW v \in View, NEW d \in Docs, v # None
  PROVE  \A i \in Hits(v, d) : FromStart(v, d, i)
<1> USE ScopeAssumption
<1> SUFFICES ASSUME NEW i \in Hits(v, d)
             PROVE  \E t \in v : t.doc = d /\ (t.start # None => i >= t.start)
  BY DEF FromStart
<1>1. \A t \in v : t.start \in Int \cup {None}
  BY DEF View, Target
<1>2. CASE mode = "repo"
  BY <1>1, <1>2 DEF Hits, R!Hits, R!Extent, R!Covers
<1>3. CASE mode # "repo"
  <2>1. PICK a \in C!HitLines(v, d) : i \in C!Line(d, a)
    BY <1>3 DEF Hits, C!Hits
  <2>2. /\ a \in 0 .. Chars[d] - 1 /\ i \in 0 .. Chars[d] - 1 /\ a =< i
    BY <2>1 DEF C!HitLines, C!Extent, C!Positions, C!Line
  <2>3. PICK t \in v : t.doc = d /\ C!Covers(t, a, a + 1)
    BY <2>1 DEF C!HitLines, C!Extent
  <2>4. Chars[d] \in Nat
    OBVIOUS
  <2> QED
    BY <1>1, <2>2, <2>3, <2>4 DEF C!Covers
<1> QED
  BY <1>2, <1>3

\* The span that sends an ask to a child is what the child can reach: the
\* slice and the comparison with the bounds agree on targets that are taken.
LEMMA AskExact ==
  ASSUME NEW d \in Docs, NEW s \in Bounds, NEW e \in Bounds,
         Normal([doc |-> d, start |-> s, end |-> e])
  PROVE  \A f \in Docs :
           Extent({[doc |-> d, start |-> s, end |-> e]}, f) =
             [Unread EXCEPT ![d] = Span(d, s, e)][f]
<1> USE ScopeAssumption
<1> DEFINE t   == [doc |-> d, start |-> s, end |-> e]
           own == {t}
<1>1. own # None
  OBVIOUS
<1>2. /\ s \in Int \cup {None} /\ e \in Int \cup {None}
      /\ Lines[d] \in Nat /\ Chars[d] \in Nat
      /\ t.doc = d /\ t.start = s /\ t.end = e
  OBVIOUS
<1>3. ASSUME NEW f \in Docs, f # d
      PROVE  Extent(own, f) = {}
  BY <1>1, <1>3 DEF Extent, R!Extent, C!Extent
<1>4. Extent(own, d) = Span(d, s, e)
  <2>1. CASE mode = "repo"
    <3>1. (s # None => s >= 1) /\ (e # None => e >= 1)
      BY <1>2, <2>1 DEF Normal, R!Normal
    <3>2. \A i \in 1 .. Lines[d] :
            i \in R!Span(d, s, e) <=> ((s # None => s =< i) /\ (e # None => i =< e))
      BY <1>2, <3>1 DEF R!Span, R!Positions, R!Slice, R!Wrap
    <3>3. \A i \in 1 .. Lines[d] :
            i \in R!Extent(own, d) <=> ((s # None => s =< i) /\ (e # None => i =< e))
      BY <1>1, <1>2 DEF R!Extent, R!Positions, R!Covers
    <3>4. R!Span(d, s, e) \subseteq 1 .. Lines[d] /\ R!Extent(own, d) \subseteq 1 .. Lines[d]
      BY DEF R!Span, R!Extent, R!Positions
    <3>5. R!Span(d, s, e) = R!Extent(own, d)
      <4> HIDE DEF own
      <4> QED BY <3>2, <3>3, <3>4
    <3> QED
      BY <2>1, <3>5 DEF Extent, Span
  <2>2. CASE mode # "repo"
    <3>1. (s # None => s >= 0) /\ (e # None => e >= 0)
      BY <1>2, <2>2 DEF Normal, C!Normal
    <3>2. \A i \in 0 .. Chars[d] - 1 :
            i \in C!Span(d, s, e) <=> ((s # None => s =< i) /\ (e # None => i + 1 =< e))
      BY <1>2, <3>1 DEF C!Span, C!Slice, C!Wrap
    <3>3. \A i \in 0 .. Chars[d] - 1 :
            i \in C!Extent(own, d) <=> ((s # None => s =< i) /\ (e # None => i + 1 =< e))
      BY <1>1, <1>2 DEF C!Extent, C!Positions, C!Covers
    <3>4. /\ C!Span(d, s, e) \subseteq 0 .. Chars[d] - 1
          /\ C!Extent(own, d) \subseteq 0 .. Chars[d] - 1
      BY DEF C!Span, C!Slice, C!Extent, C!Positions
    <3>5. C!Span(d, s, e) = C!Extent(own, d)
      <4> HIDE DEF own
      <4> QED BY <3>2, <3>3, <3>4
    <3> QED
      BY <2>2, <3>5 DEF Extent, Span
  <2> QED
    BY <2>1, <2>2
<1> QED
  BY <1>3, <1>4 DEF Unread

\* The manifest an ask gives its child reaches no further than its own.
LEMMA AskNarrows ==
  ASSUME NEW v \in View, NEW d \in Docs,
         NEW s \in Bounds, NEW e \in Bounds,
         Allowed(v, d, s, e), Normal([doc |-> d, start |-> s, end |-> e])
  PROVE  Within({[doc |-> d, start |-> s, end |-> e]}, v)
<1> USE ScopeAssumption
<1> DEFINE own == {[doc |-> d, start |-> s, end |-> e]}
<1>1. own # None
  OBVIOUS
<1>2. ASSUME NEW f \in Docs, NEW i \in Extent(own, f)
      PROVE  i \in Extent(v, f)
  <2> SUFFICES ASSUME v # None
               PROVE  i \in Extent(v, f)
    BY <1>1, <1>2 DEF Extent, R!Extent, C!Extent
  <2>1. CASE mode = "repo"
    <3>1. f = d /\ i \in 1 .. Lines[d] /\ R!Covers([doc |-> d, start |-> s, end |-> e], i, i)
      BY <2>1 DEF Extent, R!Extent, R!Positions
    <3>2. PICK t \in v :
            /\ t.doc = d
            /\ R!Covers(t, IF s = None THEN 1 ELSE s, IF e = None THEN Lines[d] ELSE e)
      BY <2>1 DEF Allowed, R!Allowed
    <3>3. t.start \in Int \cup {None} /\ t.end \in Int \cup {None}
      BY DEF View, Target
    <3>4. R!Covers(t, i, i)
      BY <3>1, <3>2, <3>3 DEF R!Covers
    <3> QED
      BY <2>1, <3>1, <3>2, <3>4 DEF Extent, R!Extent, R!Positions
  <2>2. CASE mode # "repo"
    <3>1. /\ f = d /\ i \in 0 .. Chars[d] - 1
          /\ C!Covers([doc |-> d, start |-> s, end |-> e], i, i + 1)
      BY <2>2 DEF Extent, C!Extent, C!Positions
    <3>2. PICK t \in v :
            /\ t.doc = d
            /\ C!Covers(t, IF s = None THEN 0 ELSE s, IF e = None THEN Chars[d] ELSE e)
      BY <2>2 DEF Allowed, C!Allowed
    <3>3. t.start \in Int \cup {None} /\ t.end \in Int \cup {None}
      BY DEF View, Target
    <3>4. C!Covers(t, i, i + 1)
      BY <3>1, <3>2, <3>3 DEF C!Covers
    <3> QED
      BY <2>2, <3>1, <3>2, <3>4 DEF Extent, C!Extent, C!Positions
  <2> QED
    BY <2>1, <2>2
<1> QED
  BY <1>2 DEF Within

\* The types, with a name for each action that can break them.
LEMMA TypeStep ==
  TypeOK /\ [Next]_vars => TypeOK'
<1> USE ScopeAssumption
<1> SUFFICES ASSUME TypeOK, [Next]_vars PROVE TypeOK'
  OBVIOUS
<1>0. /\ Unread \in [Docs -> SUBSET Int]
      /\ \A d \in Docs, s, e \in Bounds :
           [Unread EXCEPT ![d] = Span(d, s, e)] \in [Docs -> SUBSET Int]
  BY DEF Unread, Span, R!Span, R!Positions, C!Span, C!Slice
<1>1. ASSUME NEW v \in View, NEW origin \in Origins, NEW read \in [Docs -> SUBSET Int],
             Launch(v, origin, read)
      PROVE  TypeOK'
  <2>1. stack[Len(stack)] \in Runtime
    BY DEF TypeOK
  <2>2. Clone(v) \in View
    BY <2>1 DEF Clone, Top, Runtime
  <2>3. [view |-> Clone(v), origin |-> origin, read |-> read] \in Runtime
    BY <2>2 DEF Runtime
  <2> QED
    BY <1>1, <2>3 DEF Launch, TypeOK, Nothing
<1>2. ASSUME NEW d, NEW s, NEW e, Read(d, s, e)
      PROVE  TypeOK'
  BY <1>2 DEF Read, TypeOK, Nothing, Shown, How
<1>3. ASSUME NEW d \in Docs, NEW s \in Bounds, NEW e \in Bounds, Ask(d, s, e)
      PROVE  TypeOK'
  <2>1. {[doc |-> d, start |-> s, end |-> e]} \in View
    BY DEF View, Target
  <2> QED
    BY <1>0, <1>1, <1>2, <1>3, <2>1 DEF Ask, Origins
<1>4. CASE Return
  BY <1>4 DEF Return, TypeOK, Nothing
<1>5. ASSUME NEW d, NEW match, Search(d, match)
      PROVE  TypeOK'
  BY <1>5 DEF Search, TypeOK, Nothing, Shown
<1>6. ASSUME NEW match, Glob(match)
      PROVE  TypeOK'
  BY <1>6 DEF Glob, TypeOK, Nothing, Shown
<1>7. CASE List
  BY <1>7 DEF List, TypeOK, Shown
<1>8. ASSUME NEW v \in Manifests, Explore(v)
      PROVE  TypeOK'
  BY <1>0, <1>1, <1>8 DEF Explore, View, Target, Origins
<1>9. CASE Query
  BY <1>0, <1>1, <1>9 DEF Query, View, Origins
<1>10. CASE UNCHANGED vars
  BY <1>10 DEF TypeOK, vars
<1> QED
  BY <1>2, <1>3, <1>4, <1>5, <1>6, <1>7, <1>8, <1>9, <1>10 DEF Next

\* What a read or a search shows comes from the targets, and with the reach
\* of a runtime within that of those above it also from theirs; a launch, a
\* return or a refusal shows nothing.
LEMMA AnswerStep ==
  TypeOK /\ AnswersWithin /\ NarrowsUnlessNamed /\ [Next]_vars => AnswersWithin'
<1> USE ScopeAssumption
<1> SUFFICES ASSUME TypeOK, AnswersWithin, NarrowsUnlessNamed, [Next]_vars
             PROVE  AnswersWithin'
  OBVIOUS
<1>1. Len(stack) \in Nat \ {0} /\ Top.view \in View
  <2>1. stack[Len(stack)] \in Runtime /\ Len(stack) \in Nat \ {0}
    BY DEF TypeOK
  <2> QED
    BY <2>1 DEF Top, Runtime
<1>2. ASSUME answer' = Nothing
      PROVE  AnswersWithin'
  BY <1>2 DEF AnswersWithin, Nothing
<1>3. ASSUME NEW d \in Docs, NEW s \in Bounds, NEW e \in Bounds, Read(d, s, e)
      PROVE  AnswersWithin'
  <2>1. CASE Allowed(Top.view, d, s, e) /\ How(e) = "span"
    <3>1. Span(d, s, e) \subseteq Extent(Top.view, d)
      BY <1>1, <2>1, ReadWithin
    <3>2. /\ answer' = Shown("span", d, Span(d, s, e))
          /\ stack' = stack /\ mode' = mode
      BY <1>3, <2>1 DEF Read
    <3>3. ASSUME NEW j \in 1 .. Len(stack), Unnamed(j, Len(stack))
          PROVE  Span(d, s, e) \subseteq Extent(stack[j].view, d)
      <4>1. CASE j = Len(stack)
        BY <3>1, <4>1 DEF Top
      <4>2. CASE j # Len(stack)
        <5>1. Len(stack) \in 2 .. Len(stack) /\ j \in 1 .. Len(stack) - 1
          BY <1>1, <4>2
        <5>2. Within(Top.view, stack[j].view)
          BY <3>3, <5>1 DEF NarrowsUnlessNamed, Top
        <5> QED
          BY <3>1, <5>2 DEF Within
      <4> QED
        BY <4>1, <4>2
    <3> QED
      BY <3>2, <3>3 DEF AnswersWithin, Shown, Extent, Unnamed
  <2>2. CASE Allowed(Top.view, d, s, e) /\ How(e) # "span"
    <3>1. answer' = Shown("back", d, Span(d, s, e)) /\ Top' = Top
      BY <1>3, <2>2 DEF Read, How, Top
    <3>2. Top.view # None => \A i \in Span(d, s, e) : FromStart(Top.view, d, i)
      BY <1>1, <2>2, ReadFromStart
    <3>3. answer'.how = "back" /\ answer'.doc = d /\ answer'.got = Span(d, s, e)
      BY <3>1 DEF Shown
    <3>4. answer'.how # "span"
      BY <3>3
    <3>5. \A i \in answer'.got :
            Top'.view # None => FromStart(Top'.view, answer'.doc, i)
      BY <3>1, <3>2, <3>3
    <3> QED
      BY <3>4, <3>5 DEF AnswersWithin
  <2>3. CASE ~Allowed(Top.view, d, s, e)
    BY <1>2, <1>3, <2>3 DEF Read
  <2> QED
    BY <2>1, <2>2, <2>3
<1>4. ASSUME NEW d \in Docs, NEW match, Search(d, match)
      PROVE  AnswersWithin'
  <2>1. CASE answer' = Nothing
    BY <1>2, <2>1
  <2>2. CASE answer' = Shown("hits", d, Hits(Top.view, d))
    <3>1. Top' = Top
      BY <1>4 DEF Search, Top
    <3>2. Top.view # None => \A i \in Hits(Top.view, d) : FromStart(Top.view, d, i)
      BY <1>1, SearchFromStart
    <3> QED
      BY <2>2, <3>1, <3>2 DEF AnswersWithin, Shown
  <2> QED
    BY <1>4, <2>1, <2>2 DEF Search
<1>5. CASE List \/ \E match \in SUBSET Docs : Glob(match)
  BY <1>2, <1>5 DEF List, Glob, AnswersWithin, Shown
<1>6. ASSUME NEW v, NEW origin, NEW read, Launch(v, origin, read)
      PROVE  AnswersWithin'
  BY <1>2, <1>6 DEF Launch
<1>7. ASSUME NEW d \in Docs, NEW s \in Bounds, NEW e \in Bounds, Ask(d, s, e)
      PROVE  AnswersWithin'
  BY <1>3, <1>6, <1>7 DEF Ask
<1>8. CASE Return
  BY <1>2, <1>8 DEF Return
<1>9. CASE UNCHANGED vars
  BY <1>9 DEF vars, AnswersWithin, Top, Extent, Unnamed
<1> QED
  BY <1>3, <1>4, <1>5, <1>6, <1>7, <1>8, <1>9 DEF Next, Explore, Query

\* A launch puts one manifest on the stack: that of the parent, the span of an
\* ask, or one that was named.
LEMMA StackStep ==
  TypeOK /\ NarrowsUnlessNamed /\ ScopedStaysScoped /\ [Next]_vars
    => NarrowsUnlessNamed' /\ ScopedStaysScoped'
<1> USE ScopeAssumption
<1> DEFINE Goal == NarrowsUnlessNamed /\ ScopedStaysScoped
<1> SUFFICES ASSUME TypeOK, Goal, [Next]_vars PROVE Goal'
  OBVIOUS
<1>1. /\ stack \in Seq(Runtime) /\ Len(stack) \in Nat \ {0}
      /\ stack[Len(stack)] \in Runtime /\ Top.view \in View
  <2>1. stack \in Seq(Runtime) /\ Len(stack) \in Nat \ {0}
    BY DEF TypeOK
  <2>2. stack[Len(stack)] \in Runtime
    BY <2>1
  <2> QED
    BY <2>1, <2>2 DEF Top, Runtime
<1>2. ASSUME UNCHANGED <<mode, stack>>
      PROVE  Goal'
  BY <1>2 DEF NarrowsUnlessNamed, ScopedStaysScoped, Within, Extent, Unnamed
<1>3. ASSUME NEW v \in View, NEW origin \in Origins, NEW read \in [Docs -> SUBSET Int],
             Launch(v, origin, read),
             origin # "named" => Within(Clone(v), Top.view),
             origin = "asked" => \A d \in Docs : Extent(Clone(v), d) = read[d]
      PROVE  Goal'
  <2> DEFINE new == [view |-> Clone(v), origin |-> origin, read |-> read]
  <2>1. CASE stack' = stack
    BY <1>2, <1>3, <2>1 DEF Launch
  <2>2. CASE stack' = Append(stack, new)
    <3>1. new \in Runtime
      BY <1>1 DEF Clone, Runtime, Top
    <3>2. /\ Len(stack') = Len(stack) + 1
          /\ stack'[Len(stack) + 1] = new
          /\ \A k \in 1 .. Len(stack) : stack'[k] = stack[k]
      BY <1>1, <2>2, <3>1
    <3>3. mode' = mode
      BY <1>3 DEF Launch
    <3>4. ASSUME NEW k \in 2 .. Len(stack'), NEW j \in 1 .. k - 1, Unnamed(j, k)'
          PROVE  Within(stack'[k].view, stack'[j].view)
      <4>1. CASE k = Len(stack) + 1
        <5>1. /\ stack'[k] = new /\ stack'[j] = stack[j] /\ j \in 1 .. Len(stack)
              /\ \A m \in j + 1 .. Len(stack) : m \in j + 1 .. k /\ stack'[m] = stack[m]
              /\ k \in j + 1 .. k
          BY <1>1, <3>2, <4>1
        <5>2. Within(Clone(v), Top.view) /\ Unnamed(j, Len(stack))
          BY <1>3, <3>4, <5>1 DEF Unnamed
        <5>3. CASE j = Len(stack)
          BY <5>1, <5>2, <5>3 DEF Top
        <5>4. CASE j # Len(stack)
          <6>1. Len(stack) \in 2 .. Len(stack) /\ j \in 1 .. Len(stack) - 1
            BY <1>1, <5>1, <5>4
          <6>2. Within(Top.view, stack[j].view)
            BY <5>2, <6>1 DEF NarrowsUnlessNamed, Top
          <6> QED
            BY <5>1, <5>2, <6>2 DEF Within
        <5> QED
          BY <5>3, <5>4
      <4>2. CASE k # Len(stack) + 1
        <5>0. /\ k \in 2 .. Len(stack) /\ j \in 1 .. k - 1
              /\ k \in 1 .. Len(stack) /\ j \in 1 .. Len(stack)
              /\ \A m \in j + 1 .. k : m \in 1 .. Len(stack)
          <6>1. k \in 2 .. Len(stack) + 1
            BY <3>2
          <6> HIDE DEF new, Goal
          <6> QED BY <1>1, <4>2, <6>1
        <5>1. /\ stack'[k] = stack[k] /\ stack'[j] = stack[j]
              /\ \A m \in j + 1 .. k : stack'[m] = stack[m]
          BY <3>2, <5>0
        <5>2. Unnamed(j, k)
          BY <3>4, <5>1 DEF Unnamed
        <5> QED
          BY <5>0, <5>1, <5>2 DEF NarrowsUnlessNamed
      <4> QED
        BY <4>1, <4>2
    <3>5. ASSUME NEW k \in 2 .. Len(stack')
          PROVE  /\ stack'[k].origin = "asked" =>
                      \A d \in Docs : Extent(stack'[k].view, d) = stack'[k].read[d]
                 /\ stack'[k - 1].view # None => stack'[k].view # None
      <4>1. CASE k = Len(stack) + 1
        <5>0. k - 1 = Len(stack) /\ Len(stack) \in 1 .. Len(stack)
          BY <1>1, <4>1
        <5>1. stack'[k] = new /\ stack'[k - 1] = Top
          BY <3>2, <4>1, <5>0 DEF Top
        <5>2. new.origin = origin /\ new.view = Clone(v) /\ new.read = read
          OBVIOUS
        <5>3. Top.view # None => Clone(v) # None
          BY DEF Clone
        <5> HIDE DEF new
        <5> QED
          BY <1>3, <5>1, <5>2, <5>3
      <4>2. CASE k # Len(stack) + 1
        <5>0. k \in 2 .. Len(stack) /\ k \in 1 .. Len(stack) /\ k - 1 \in 1 .. Len(stack)
          BY <1>1, <3>2, <4>2
        <5>1. /\ k \in 2 .. Len(stack)
              /\ stack'[k] = stack[k] /\ stack'[k - 1] = stack[k - 1]
          BY <3>2, <5>0
        <5>2. stack[k].origin = "asked" =>
                \A d \in Docs : Extent(stack[k].view, d) = stack[k].read[d]
          BY <5>1 DEF NarrowsUnlessNamed
        <5>3. stack[k - 1].view # None => stack[k].view # None
          BY <5>1 DEF ScopedStaysScoped
        <5> QED
          BY <5>1, <5>2, <5>3
      <4> QED
        BY <4>1, <4>2
    <3> QED
      BY <3>3, <3>4, <3>5 DEF NarrowsUnlessNamed, ScopedStaysScoped, Within, Extent
  <2> QED
    BY <1>3, <2>1, <2>2 DEF Launch
<1>4. ASSUME NEW d, NEW s, NEW e, Read(d, s, e)
      PROVE  Goal'
  BY <1>2, <1>4 DEF Read
<1>5. ASSUME NEW d \in Docs, NEW s \in Bounds, NEW e \in Bounds, Ask(d, s, e)
      PROVE  Goal'
  <2> DEFINE own  == {[doc |-> d, start |-> s, end |-> e]}
             read == [Unread EXCEPT ![d] = Span(d, s, e)]
  <2>1. CASE Allowed(Top.view, d, s, e) /\ Launch(own, "asked", read)
    <3>1. own \in View /\ Clone(own) = own
      BY DEF View, Target, Clone
    <3>2. CASE Normal([doc |-> d, start |-> s, end |-> e])
      <4>1. Within(own, Top.view)
        BY <1>1, <2>1, <3>2, AskNarrows
      <4>2. \A f \in Docs : Extent(own, f) = read[f]
        BY <3>2, AskExact
      <4>3. read \in [Docs -> SUBSET Int]
        BY DEF Unread, Span, R!Span, R!Positions, C!Span, C!Slice
      <4> HIDE DEF own, read
      <4> QED
        BY <1>3, <2>1, <3>1, <4>1, <4>2, <4>3 DEF Origins
    <3>3. CASE ~Normal([doc |-> d, start |-> s, end |-> e])
      <4>1. own # None
        OBVIOUS
      <4>2. stack' = stack /\ mode' = mode
        BY <2>1, <3>3, <4>1 DEF Launch
      <4> QED
        BY <1>2, <4>2
    <3> QED
      BY <3>2, <3>3
  <2>2. CASE Read(d, s, e)
    BY <1>4, <2>2
  <2> QED
    BY <1>5, <2>1, <2>2 DEF Ask
<1>6. ASSUME NEW v \in Manifests, Explore(v)
      PROVE  Goal'
  <2>1. Unread \in [Docs -> SUBSET Int]
    BY DEF Unread
  <2> QED
    BY <1>3, <1>6, <2>1 DEF Explore, View, Target, Origins
<1>7. CASE Query
  <2>1. None \in View /\ Within(Clone(None), Top.view) /\ Unread \in [Docs -> SUBSET Int]
    BY DEF View, Clone, Within, Unread
  <2> QED
    BY <1>3, <1>7, <2>1 DEF Query, Origins
<1>8. CASE Return
  <2>1. /\ mode' = mode
        /\ Len(stack') = Len(stack) - 1
        /\ \A k \in 1 .. Len(stack') : stack'[k] = stack[k]
    BY <1>1, <1>8 DEF Return
  <2>2. ASSUME NEW k \in 2 .. Len(stack')
        PROVE  /\ k \in 2 .. Len(stack) /\ stack'[k] = stack[k]
               /\ stack'[k - 1] = stack[k - 1]
               /\ \A j \in 1 .. k : stack'[j] = stack[j]
    <3>1. Len(stack') \in Nat /\ Len(stack') =< Len(stack)
      BY <1>1, <2>1
    <3> HIDE DEF Goal
    <3> QED BY <1>1, <2>1, <3>1
  <2>3. ASSUME NEW k \in 2 .. Len(stack'), NEW j \in 1 .. k - 1, Unnamed(j, k)'
        PROVE  Within(stack[k].view, stack[j].view)
    <3>1. k \in 2 .. Len(stack) /\ \A m \in j + 1 .. k : stack'[m] = stack[m]
      <4>1. \A m \in j + 1 .. k : m \in 1 .. k
        BY <2>3
      <4> QED
        BY <2>2, <4>1
    <3>2. Unnamed(j, k)
      BY <2>3, <3>1 DEF Unnamed
    <3> QED
      BY <2>3, <3>1, <3>2 DEF NarrowsUnlessNamed
  <2>4. ASSUME NEW k \in 2 .. Len(stack'), NEW j \in 1 .. k - 1, Unnamed(j, k)'
        PROVE  Within(stack[k].view, stack[j].view) /\ stack'[j] = stack[j]
    <3>1. j \in 1 .. k
      BY <2>4
    <3> QED
      BY <2>2, <2>3, <2>4, <3>1
  <2>5. ASSUME NEW k \in 2 .. Len(stack')
        PROVE  /\ stack'[k].origin = "asked" =>
                    \A d \in Docs : Extent(stack'[k].view, d) = stack'[k].read[d]
               /\ stack'[k - 1].view # None => stack'[k].view # None
    BY <2>2 DEF NarrowsUnlessNamed, ScopedStaysScoped
  <2>6. ScopedStaysScoped'
    BY <2>5 DEF ScopedStaysScoped
  <2>7. NarrowsUnlessNamed'
    BY <2>1, <2>2, <2>4, <2>5 DEF NarrowsUnlessNamed, Within, Extent
  <2> QED
    BY <2>6, <2>7
<1>9. CASE \E d \in Docs, match \in {None} \cup SUBSET Docs : Search(d, match)
  BY <1>2, <1>9 DEF Search
<1>10. CASE \E match \in SUBSET Docs : Glob(match)
  BY <1>2, <1>10 DEF Glob
<1>11. CASE List
  BY <1>2, <1>11 DEF List
<1>12. CASE UNCHANGED vars
  BY <1>2, <1>12 DEF vars
<1> QED
  BY <1>4, <1>5, <1>6, <1>7, <1>8, <1>9, <1>10, <1>11, <1>12 DEF Next

\* The manifest discipline is an invariant of every session.
THEOREM Inductive == Spec => []IInv
<1>1. Init => IInv
  <2> SUFFICES ASSUME Init PROVE IInv
    OBVIOUS
  <2>1. PICK v \in Manifests \cup {None} :
          stack = <<[view |-> v, origin |-> "api", read |-> Unread]>>
    BY DEF Init
  <2>2. v \in View
    BY ScopeAssumption DEF View, Target
  <2>3. [view |-> v, origin |-> "api", read |-> Unread] \in Runtime
    BY <2>2 DEF Runtime, Origins, Unread
  <2>4. Len(stack) = 1 /\ stack \in Seq(Runtime)
    BY <2>1, <2>3
  <2> QED
    BY <2>4, ScopeAssumption
    DEF Init, IInv, TypeOK, AnswersWithin, NarrowsUnlessNamed, ScopedStaysScoped, Nothing
<1>2. IInv /\ [Next]_vars => IInv'
  BY TypeStep, AnswerStep, StackStep DEF IInv
<1> QED
  BY <1>1, <1>2, PTL DEF Spec

\* The stack of runtimes has its type and never exceeds the depth cap.
THEOREM TypeCorrect == Spec => []TypeOK
<1>1. IInv => TypeOK
  BY DEF IInv
<1> QED
  BY <1>1, Inductive, PTL

\* A read whose end counts from the start shows nothing that the runtimes above
\* leave out, down from the last call that named targets; other reads and
\* searches show nothing before a range; for any documents and bounds.
THEOREM Contained == Spec => []AnswersWithin
<1>1. IInv => AnswersWithin
  BY DEF IInv
<1> QED
  BY <1>1, Inductive, PTL

\* Manifests only narrow on the way down, except where a call names targets, and
\* an ask hands on exactly what it read.
THEOREM Narrows == Spec => []NarrowsUnlessNamed
<1>1. IInv => NarrowsUnlessNamed
  BY DEF IInv
<1> QED
  BY <1>1, Inductive, PTL

\* No clone turns a manifest into the whole domain.
THEOREM StaysScoped == Spec => []ScopedStaysScoped
<1>1. IInv => ScopedStaysScoped
  BY DEF IInv
<1> QED
  BY <1>1, Inductive, PTL
=============================================================================
