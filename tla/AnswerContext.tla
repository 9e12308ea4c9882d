---------------------------- MODULE AnswerContext ----------------------------
(***************************************************************************)
(* What the language model is told with a question: the history of a       *)
(* method joined from versions and commits (app/ai/generation/             *)
(* history_context_builder.py), the compact context, and the smaller one   *)
(* it is asked with again after the provider found the first too large     *)
(* (context_builder.py).                                                   *)
(*                                                                         *)
(* A context is measured in characters: every item has ITEM_CHARS that are *)
(* never cut, code and differences have characters of their own.  Names    *)
(* and texts are not modelled.                                             *)
(***************************************************************************)
EXTENDS Naturals, FiniteSets, SequencesExt

CONSTANTS
    Methods, Versions, Commits,
    MethodOf,      \* MethodOf[v]: the method v is a version of
    CommitOrder,   \* the commits as _history_sort_key orders them
    CodeChars,     \* CodeChars[v]: the characters of the code of v
    DIFF_LINES,    \* the lines of the difference between two versions
    LINE_CHARS,    \* the characters of such a line
    ITEM_CHARS,    \* the characters of an item that are never cut
    CUT_SLACK,     \* what is cut off a code beyond the overage: 20 in the code
    FALLBACK_MAX_CONTEXT_CHARS, MIN_FALLBACK_CONTEXT_CHARS,
    None

ASSUME ContextAssumption ==
    /\ IsFiniteSet(Versions) /\ IsFiniteSet(Commits)
    /\ MethodOf \in [Versions -> Methods]
    /\ CommitOrder \in SetToSeqs(Commits)
    /\ CodeChars \in [Versions -> Nat]
    /\ {DIFF_LINES, LINE_CHARS, ITEM_CHARS, CUT_SLACK,
        FALLBACK_MAX_CONTEXT_CHARS, MIN_FALLBACK_CONTEXT_CHARS} \subseteq Nat \ {0}
    /\ None \notin Methods \cup Versions \cup Commits

\* The source as the number of its characters, the diff as that of its lines.
HistoryChangeContext ==
    [type : {"first_observed", "modified", "deleted"}, commit : Commits,
     version : Versions \cup {None}, source : Nat, diff : Nat]

Change(type, commit, version, source, diff) ==
    [type |-> type, commit |-> commit, version |-> version,
     source |-> source, diff |-> diff]

\* The change that made v, after the changes of its method before it.
Introduction(before, v, c) ==
    IF \E i \in DOMAIN before : before[i].type # "deleted"
    THEN Change("modified", c, v, CodeChars[v], DIFF_LINES)
    ELSE Change("first_observed", c, v, CodeChars[v], 0)

Deletion(c) == Change("deleted", c, None, 0, 0)

\* introduced_commit_by_version: a version that came back has an edge from every
\* commit that brought it in.  The edges have no order, and the last one of a
\* version is the one that is kept.
CommitByVersion(edges) ==
    LET introductions == {e \in edges : e[1] = "INTRODUCED_IN"}
    IN  {f \in [{e[2] : e \in introductions} -> Commits] :
            \A v \in DOMAIN f : <<"INTRODUCED_IN", v, f[v]>> \in introductions}

DeletingCommits(edges) == {e[3] : e \in {f \in edges : f[1] = "DELETED_IN"}}

\* HistoryContextBuilder.build, of the versions and deletions of one method:
\* the graph of an intent question has no others.  commitOf is the commit kept of
\* every version.  A commit introduces at most one version of a method, and a
\* deletion follows it.
History(edges, commitOf) ==
    LET introduced(c) == {v \in DOMAIN commitOf : commitOf[v] = c}
        deleted == IF DOMAIN commitOf = {} THEN {} ELSE DeletingCommits(edges)
        changes(before, c) ==
            before \o [i \in 1 .. Cardinality(introduced(c)) |->
                          Introduction(before, SetToSeq(introduced(c))[i], c)]
                   \o (IF c \in deleted THEN <<Deletion(c)>> ELSE <<>>)
    IN  FoldLeft(changes, <<>>, CommitOrder)

-----------------------------------------------------------------------------
(* LLMContextBuilder *)

\* Of the relations, all of one size, only the number matters.
AnswerGenerationContext ==
    [code : Seq([version : Versions, chars : Nat]), relations : Nat,
     history : Seq(HistoryChangeContext), evidence : Seq(Versions \cup Commits)]

\* _compact_code: the first hit of every method.
CompactCode(hits) ==
    LET add(code, v) ==
            IF \E i \in DOMAIN code : MethodOf[code[i].version] = MethodOf[v] THEN code
            ELSE Append(code, [version |-> v, chars |-> CodeChars[v]])
    IN  FoldLeft(add, <<>>, hits)

\* _RELATIONS_BY_INTENT, as far as the graph has them.
RelationsFor(kind) ==
    CASE kind \in {"flow", "impact"} -> {"CALLS"}
      [] kind = "intent"   -> {"INTRODUCED_IN", "DELETED_IN"}
      [] kind = "location" -> {"CALLS", "CONTAINS", "EXPOSES"}

\* build without a limit.
Context(kind, hits, edges, evidence, commitOf) ==
    [code      |-> CompactCode(hits),
     relations |-> Cardinality({e \in edges : e[1] \in RelationsFor(kind)}),
     history   |-> IF kind = "intent" THEN History(edges, commitOf) ELSE <<>>,
     evidence  |-> evidence]

\* _context_size
Size(c) ==
    LET code(n, item)   == n + ITEM_CHARS + item.chars
        change(n, item) == n + ITEM_CHARS + item.source + item.diff * LINE_CHARS
    IN  FoldLeft(code, 0, c.code) + FoldLeft(change, 0, c.history)
          + (c.relations + Len(c.evidence)) * ITEM_CHARS

\* What is removed first from a context that is too large.
WithoutLast(kind, c) ==
    IF kind = "intent"
    THEN IF c.relations > 0 THEN [c EXCEPT !.relations = @ - 1]
         ELSE IF c.code # <<>> THEN [c EXCEPT !.code = Front(@)]
         ELSE IF Len(c.evidence) > 1 THEN [c EXCEPT !.evidence = Front(@)]
         ELSE c
    ELSE IF c.history # <<>> THEN [c EXCEPT !.history = Front(@)]
         ELSE IF Len(c.evidence) > 1 THEN [c EXCEPT !.evidence = Front(@)]
         ELSE IF c.relations > 0 THEN [c EXCEPT !.relations = @ - 1]
         ELSE IF Len(c.code) > 1 THEN [c EXCEPT !.code = Front(@)]
         ELSE c

\* c after step(c) as often as it is too large, at most n times.
WhileTooLarge(step(_), c, n, max) ==
    FoldLeft(LAMBDA d, i : IF Size(d) > max THEN step(d) ELSE d, c, [i \in 1 .. n |-> i])

\* Mutant: the ellipsis is not counted.
CutExactly(chars, overage) ==
    IF chars > overage THEN chars - overage + 1 ELSE 0

\* The characters left of a text: an ellipsis is put where it is cut.
CutText(chars, overage) ==
    IF chars > overage + CUT_SLACK THEN chars - overage - CUT_SLACK + 1 ELSE 0

\* _truncate_last_code
TruncateLastCode(c, max) ==
    IF Size(c) =< max \/ c.code = <<>> THEN c
    ELSE [c EXCEPT !.code[Len(c.code)].chars = CutText(@, Size(c) - max)]

\* The source of the i-th change is cut, then lines of its difference go.
CutChange(c, i, max) ==
    LET cut  == IF c.history[i].version = None THEN c
                ELSE [c EXCEPT !.history[i].source = CutText(@, Size(c) - max)]
        pop(d) == IF d.history[i].diff = 0 THEN d ELSE [d EXCEPT !.history[i].diff = @ - 1]
    IN  IF Size(c) =< max THEN c ELSE WhileTooLarge(pop, cut, DIFF_LINES, max)

\* Mutant: the latest change goes first.
DropLatest(c) == IF Len(c.history) > 1 THEN [c EXCEPT !.history = Front(@)] ELSE c

DropOldest(c) == IF Len(c.history) > 1 THEN [c EXCEPT !.history = Tail(@)] ELSE c

\* _reduce_history_context
ReduceHistory(c, max) ==
    LET n == Len(c.history)
        cut == FoldLeft(LAMBDA d, i : CutChange(d, i, max), c, [i \in 1 .. n |-> i])
    IN  WhileTooLarge(DropOldest, cut, n, max)

\* _fit_budget
FitBudget(kind, c, max) ==
    LET items == Len(c.code) + c.relations + Len(c.history) + Len(c.evidence)
        fewer == WhileTooLarge(LAMBDA d : WithoutLast(kind, d), c, items, max)
    IN  ReduceHistory(TruncateLastCode(fewer, max), max)

\* build_fallback
FallbackBudget(size) ==
    LET half == IF size \div 2 > MIN_FALLBACK_CONTEXT_CHARS THEN size \div 2
                ELSE MIN_FALLBACK_CONTEXT_CHARS
    IN  IF half < FALLBACK_MAX_CONTEXT_CHARS THEN half ELSE FALLBACK_MAX_CONTEXT_CHARS

Fallback(kind, c) == FitBudget(kind, c, FallbackBudget(Size(c)))
=============================================================================
