----------------------------- MODULE TargetScope -----------------------------
(***************************************************************************)
(* What the runtimes of one ask or research session may see of the source. *)
(* A runtime's cells reach the source through a repo or corpus object that *)
(* carries a manifest of targets, or none.  The manifest of the root comes *)
(* from the api, that of a child from the call that launched it.  A cell   *)
(* waits for the child it launched, so the runtimes at work are a stack.   *)
(*                                                                         *)
(* Manifests travel by value: from the parent's callback to the host, from *)
(* the host to the container of the child.                                 *)
(***************************************************************************)
EXTENDS Integers, FiniteSets, Sequences

CONSTANTS Docs, Lines, Chars, Starts, None,
          Bounds,        \* the bounds cells pass
          Manifests,     \* the target lists cells and the planner name
          LeafChars,     \* the largest text a leaf is asked about
          MaxDepth

ASSUME ScopeAssumption ==
  /\ Lines \in [Docs -> Nat] /\ Chars \in [Docs -> Nat]
  /\ Starts \in [Docs -> SUBSET Nat]
  /\ None \notin Int
  /\ Bounds \subseteq Int \cup {None}
  /\ \A d \in Docs, s, e \in Bounds : {[doc |-> d, start |-> s, end |-> e]} # None
  /\ Manifests \subseteq SUBSET [doc : Docs, start : Int \cup {None}, end : Int \cup {None}]
  /\ LeafChars \in Nat /\ MaxDepth \in Nat

VARIABLES mode,          \* which domain the session has
          stack,         \* view of each runtime at work, how it was launched, and
                         \* what an ask had read then (history)
          answer         \* what the last operation showed to the top runtime

vars == <<mode, stack, answer>>

R == INSTANCE RepoView WITH Length <- Lines
C == INSTANCE CorpusView WITH Length <- Chars

Modes == {"repo", "research"}
Origins == {"api", "inherited", "asked", "named"}
Normal(t) == IF mode = "repo" THEN R!Normal(t) ELSE C!Normal(t)
Allowed(v, d, s, e) == IF mode = "repo" THEN R!Allowed(v, d, s, e) ELSE C!Allowed(v, d, s, e)
Span(d, s, e) == IF mode = "repo" THEN R!Span(d, s, e) ELSE C!Span(d, s, e)
Extent(v, d) == IF mode = "repo" THEN R!Extent(v, d) ELSE C!Extent(v, d)
Hits(v, d) == IF mode = "repo" THEN R!Hits(v, d) ELSE C!Hits(v, d)
Named(v) == IF mode = "repo" THEN R!Named(v) ELSE C!Named(v)

Target == [doc : Docs, start : Int \cup {None}, end : Int \cup {None}]
View == {None} \cup SUBSET Target
Runtime == [view : View, origin : Origins, read : [Docs -> SUBSET Int]]
Unread == [d \in Docs |-> {}]
Nothing == [how |-> "nothing", doc |-> None, got |-> {}]
Shown(how, d, got) == [how |-> how, doc |-> d, got |-> got]

Top == stack[Len(stack)]
Within(v, w) == \A d \in Docs : Extent(v, d) \subseteq Extent(w, d)

\* The api: the whole domain, or the fallback targets of a rejected plan.
Init ==
  /\ mode \in Modes
  /\ \E v \in Manifests \cup {None} :
       /\ v # None => v # {} /\ \A t \in v : Normal(t)
       /\ stack = <<[view |-> v, origin |-> "api", read |-> Unread]>>
  /\ answer = Nothing

\* A negative bound is compared as it is; as an end it then counts back from
\* the end of the text.
How(e) == IF e # None /\ e < 0 THEN "back" ELSE "span"

\* read, file_text, get and slice, and the reads behind measure and plan.
Read(d, s, e) ==
  /\ answer' = IF Allowed(Top.view, d, s, e)
                 THEN Shown(How(e), d, Span(d, s, e))
                 ELSE Nothing
  /\ UNCHANGED <<mode, stack>>

\* grep of the files that match, and search, which has no glob.
Search(d, match) ==
  /\ match # None => mode = "repo" /\ d \in match
  /\ answer' = IF match = None \/ R!GlobAllowed(Top.view, match)
                 THEN Shown("hits", d, Hits(Top.view, d))
                 ELSE Nothing
  /\ UNCHANGED <<mode, stack>>

\* glob, with a pattern that matches these files.
Glob(match) ==
  /\ mode = "repo"
  /\ answer' = IF R!GlobAllowed(Top.view, match)
                 THEN Shown("names", None, match \cap Named(Top.view))
                 ELSE Nothing
  /\ UNCHANGED <<mode, stack>>

\* tree, files and the catalog.
List ==
  /\ answer' = Shown("names", None, Named(Top.view))
  /\ UNCHANGED <<mode, stack>>

\* Mutant of Clone: an empty manifest is taken for none.
CloneFalsy(v) == IF v = None THEN Top.view ELSE IF v = {} THEN None ELSE v

\* The domain of a child: the manifest of the call, or that of the parent.
Clone(v) == IF v = None THEN Top.view ELSE v

\* child_rlm: a manifest the constructor refuses is an error text, and at the
\* depth cap the prompt goes to a leaf, without the source.
Launch(v, origin, read) ==
  /\ stack' = IF Len(stack) =< MaxDepth /\ (v # None => \A t \in v : Normal(t))
                THEN Append(stack, [view |-> Clone(v), origin |-> origin, read |-> read])
                ELSE stack
  /\ answer' = Nothing
  /\ UNCHANGED mode

\* explore, rlm_query with targets or with a question and a path.
Explore(v) == Launch(v, "named", Unread)

\* rlm_query with a text, each call of rlm_query_batched, explore on its own.
Query == Launch(None, "inherited", Unread)

\* Mutant of Ask: the child is told the span in words only.
AskUnscoped(d, s, e) ==
  LET large == Cardinality(Span(d, s, e)) > LeafChars
  IN \/ /\ Allowed(Top.view, d, s, e)
        /\ large
        /\ Launch({[doc |-> d, start |-> None, end |-> None]}, "asked",
                  [Unread EXCEPT ![d] = Span(d, s, e)])
     \/ /\ ~large \/ ~Allowed(Top.view, d, s, e)
        /\ Read(d, s, e)

\* ask: a text that fits is shown to a leaf, a larger one is left to a child
\* that gets the span as its manifest.
Ask(d, s, e) ==
  LET large == Cardinality(Span(d, s, e)) > LeafChars
  IN \/ /\ Allowed(Top.view, d, s, e)
        /\ large
        /\ Launch({[doc |-> d, start |-> s, end |-> e]}, "asked",
                  [Unread EXCEPT ![d] = Span(d, s, e)])
     \/ /\ ~large \/ ~Allowed(Top.view, d, s, e)
        /\ Read(d, s, e)

\* The child answers with a text and its parent goes on.
Return ==
  /\ Len(stack) > 1
  /\ stack' = SubSeq(stack, 1, Len(stack) - 1)
  /\ answer' = Nothing
  /\ UNCHANGED mode

Next ==
  \/ \E d \in Docs, s, e \in Bounds : Read(d, s, e) \/ Ask(d, s, e)
  \/ \E d \in Docs, match \in {None} \cup SUBSET Docs : Search(d, match)
  \/ \E match \in SUBSET Docs : Glob(match)
  \/ List
  \/ \E v \in Manifests : Explore(v)
  \/ Query
  \/ Return

Spec == Init /\ [][Next]_vars
-----------------------------------------------------------------------------
TypeOK ==
  /\ mode \in Modes
  /\ stack \in Seq(Runtime) /\ Len(stack) \in 1 .. MaxDepth + 1
  /\ answer.how \in {"nothing", "span", "back", "hits", "names"}

\* No call between runtime j and runtime k of the stack named targets.
Unnamed(j, k) == \A m \in j + 1 .. k : stack[m].origin # "named"

\* Position i of the text follows the start of a range.
FromStart(v, d, i) == \E t \in v : t.doc = d /\ (t.start # None => i >= t.start)

\* A runtime is shown nothing that a runtime above it could not see, up to the
\* last call that named targets, by a read whose end counts from the start of
\* the text, wherever its start counts from.  A read whose end counts back
\* from the end of the text passes the check of Repo.read, of Corpus.slice and
\* of the asks whatever the range ends at, and a search shows whole lines:
\* both can show what follows a range, but nothing before it and nothing of
\* another document.
AnswersWithin ==
  /\ answer.how = "span" =>
       \A j \in 1 .. Len(stack) :
         Unnamed(j, Len(stack)) => answer.got \subseteq Extent(stack[j].view, answer.doc)
  /\ answer.how \in {"back", "hits"} /\ Top.view # None =>
       \A i \in answer.got : FromStart(Top.view, answer.doc, i)

\* A runtime reaches no more than each runtime above it, up to the last call
\* that named targets (those replace what the caller had); and the child that
\* an ask launches reaches exactly the text that was found too large for a
\* leaf, though one is selected by a slice and the other by a comparison.
NarrowsUnlessNamed ==
  \A k \in 2 .. Len(stack) :
    /\ \A j \in 1 .. k - 1 :
         Unnamed(j, k) => Within(stack[k].view, stack[j].view)
    /\ stack[k].origin = "asked" =>
         \A d \in Docs : Extent(stack[k].view, d) = stack[k].read[d]

\* Below a runtime with a manifest there is no runtime without one: an empty
\* or an absent manifest in a call never stands for the whole domain.
ScopedStaysScoped ==
  \A k \in 2 .. Len(stack) : stack[k - 1].view # None => stack[k].view # None
=============================================================================
