-------------------------- MODULE QuestionAnswering --------------------------
(***************************************************************************)
(* One question in the Q&A pipeline (app/ai/rag/pipeline.py), node by      *)
(* node, on the code graph and the chunks of its repository, to which      *)
(* analyses add between any two nodes.                                     *)
(*                                                                         *)
(* A method is a Method node, a version one of its MethodVersion nodes and *)
(* the chunk of that version; texts, scores and prompts are not modelled:  *)
(* what the searches and the language models answer is free within what    *)
(* the nodes accept of it.  The repository has no pull requests, issues or  *)
(* relations between classes, which would only add nodes to the results.   *)
(***************************************************************************)
EXTENDS AnswerContext, CallFlow

CONSTANTS
    Classes,
    ClassOf,       \* ClassOf[m]: the class that contains m
    Endpoints,
    Exposed,       \* pairs <<m, p>>: method m handles endpoint p
    IntroducedIn,  \* pairs <<v, c>>: commit c brought the code v into its method
    DeletedIn,     \* pairs <<m, c>>: commit c deleted m
    Accessors,     \* methods with the name of a getter or setter
    SimpleBodies,  \* versions _is_trivial_method finds trivial: a name like
                   \* that of a getter or setter (get, is, set) and a simple body
    CallGraphs,    \* records [all, http, ambiguous] of calls <<version, method>>
                   \* and requests <<version, endpoint>>
    Questions,     \* the sets of methods whose name a question may contain
    Rankings,      \* the orders a question may rank the versions in
    Orders,        \* the orders methods and endpoints may come in
    Analyses,      \* records [commits, checkout]: the commits an analysis indexes up
                   \* to its head, and the versions the files have there
    MaxImports,    \* bound on the imports of chunks
    TOP_K, MAX_SELECTION_CANDIDATES, MAX_CALL_DEPTH,
    MAX_ENRICHED_CODE_CONTEXTS, MAX_RETRIES,
    MaxEvidence    \* _MAX_EVIDENCE_BY_QUESTION_KIND

QuestionKind == {"flow", "impact", "intent", "location"}

ASSUME QuestionAssumption ==
    /\ IsFiniteSet(Methods) /\ IsFiniteSet(Classes) /\ IsFiniteSet(Endpoints)
    /\ Methods \cap Versions = {} /\ (Methods \cup Versions) \cap Commits = {}
    /\ Endpoints \cap (Methods \cup Versions) = {}
    /\ \A n \in Methods \cup Versions \cup Endpoints : Priority[n] \in 0 .. 6
    /\ \A m \in Methods : {m} \cup {v \in Versions : MethodOf[v] = m} \subseteq Mentioned[m]
    /\ ClassOf \in [Methods -> Classes]
    /\ Exposed \subseteq Methods \X Endpoints
    /\ IntroducedIn \subseteq Versions \X Commits
    /\ DeletedIn \subseteq Methods \X Commits
    /\ Accessors \subseteq Methods
    /\ \A g \in CallGraphs : /\ g.all \subseteq Versions \X Methods
                             /\ g.http \subseteq Versions \X Endpoints
    /\ Analyses \subseteq [commits : SUBSET Commits, checkout : SUBSET Versions]
    /\ \A a \in Analyses : \A v \in a.checkout :
          \E c \in a.commits : <<v, c>> \in IntroducedIn
    /\ Rankings \subseteq Seq(Versions)
    /\ Orders \subseteq Seq(Methods \cup Endpoints)
    /\ \A order \in Orders : Methods \subseteq ToSet(order)
    /\ {TOP_K, MAX_SELECTION_CANDIDATES, MAX_CALL_DEPTH, MAX_RETRIES,
        MAX_ENRICHED_CODE_CONTEXTS, MaxImports} \subseteq Nat \ {0}
    /\ MaxEvidence \in [QuestionKind -> Nat \ {0}]
    /\ \A i, j \in IntroducedIn : MethodOf[i[1]] = MethodOf[j[1]] /\ i[2] = j[2] => i[1] = j[1]
    /\ None \notin {"no_evidence", "explicit_symbol_mismatch"}

VARIABLES
    calls,   \* one of CallGraphs: the calls of every version
    indexed, \* the commits whose history is in the graph
    chunk,   \* chunk[v]: the import that embedded v, 0 if there is no row
    qa       \* the QAState of the question

vars  == <<calls, indexed, chunk, qa>>
store == <<calls, indexed, chunk>>

\* The MethodVersion nodes: the files of a checkout have only versions that the
\* commits up to it brought in.
stored == {i[1] : i \in {j \in IntroducedIn : j[2] \in indexed}}

\* The fields of QAState the nodes hand on, and the context the language model
\* is asked with and the graph that is shown, None until there is one.
QAState == [pc : {"analyze", "resolve", "search", "select", "traverse", "enrich",
                  "fuse", "validate", "compose", "ask", "ask_again", "answered", "failed"},
            kind : QuestionKind, names : Questions, ranking : Rankings,
            symbols : SUBSET Versions, hits : Seq(Versions),
            target : Versions \cup {None},
            nodes : SUBSET (Methods \cup Versions \cup Classes \cup Commits \cup Endpoints),
            edges : SUBSET (STRING \X (Methods \cup Versions \cup Classes)
                                   \X (Methods \cup Versions \cup Commits \cup Endpoints)),
            enriched : Seq(Versions), evidence : Seq(Versions \cup Commits),
            context : AnswerGenerationContext \cup {None}, shown : [nodes : SUBSET STRING,
            edges : SUBSET (STRING \X STRING \X STRING)] \cup {None},
            retries : Nat, sufficient : BOOLEAN,
            reason : {None, "no_evidence", "explicit_symbol_mismatch"}]

\* run_qa_pipeline_state.  Until the analyzer has run the question has the
\* kind a missing one is taken for.
Asked(names, ranking) ==
    [pc |-> "analyze", kind |-> "location", names |-> names, ranking |-> ranking,
     symbols |-> {}, hits |-> <<>>, target |-> None, nodes |-> {}, edges |-> {},
     enriched |-> <<>>, evidence |-> <<>>, context |-> None, shown |-> None, retries |-> 0,
     sufficient |-> FALSE, reason |-> None]

\* The repository is ready: it has been analysed, with or without any code.
Init ==
    /\ calls \in CallGraphs
    /\ \E a \in Analyses \cup {[commits |-> {}, checkout |-> {}]} :
          /\ indexed = a.commits
          /\ chunk = [v \in Versions |-> IF v \in a.checkout THEN 1 ELSE 0]
    /\ \E names \in Questions, ranking \in Rankings : qa = Asked(names, ranking)

Embedded == {v \in Versions : chunk[v] > 0}

-----------------------------------------------------------------------------
(* An analysis of the repository going on *)

\* MethodHistoryIndexer: the versions and deletions of the commits are merged into
\* the graph.
StoreHistory(commits) ==
    /\ ~(commits \subseteq indexed)
    /\ indexed' = indexed \cup commits
    /\ UNCHANGED <<calls, chunk, qa>>

\* CodeChunkRepository.upsert_chunks: the versions of one checkout that have no row
\* yet, in one transaction, after the graph.
StoreChunks(checkout) ==
    LET import == 1 + Cardinality({chunk[v] : v \in Embedded}) IN
    /\ import =< MaxImports
    /\ checkout \subseteq stored /\ ~(checkout \subseteq Embedded)
    /\ chunk' = [v \in Versions |-> IF v \in checkout \ Embedded THEN import ELSE chunk[v]]
    /\ UNCHANGED <<calls, indexed, qa>>

-----------------------------------------------------------------------------
(* The code graph in Neo4j, and the traversals of it *)

\* An edge is <<type, source, target>>.
CallEdges     == {<<"CALLS", c[1], c[2]>> : c \in {d \in calls.all : d[1] \in stored}}
VersionEdges  == {<<"HAS_VERSION", MethodOf[v], v>> : v \in stored}
HistoryEdges  == {<<"INTRODUCED_IN", i[1], i[2]>> : i \in {j \in IntroducedIn : j[2] \in indexed}}
                     \cup {<<"DELETED_IN", d[1], d[2]>> :
                            d \in {e \in DeletedIn : /\ e[2] \in indexed
                                                     /\ \E v \in stored : MethodOf[v] = e[1]}}
ContainsEdges == {<<"CONTAINS", ClassOf[m], m>> : m \in {MethodOf[v] : v \in stored}}
ExposesEdges  == {<<"EXPOSES", x[1], x[2]>> : x \in {y \in Exposed : \E v \in stored : MethodOf[v] = y[1]}}

\* A request for an endpoint that nothing handles has no relationship.
HttpEdges == {<<"HTTP_CALLS", c[1], c[2]>> :
                 c \in {d \in calls.http : d[1] \in stored /\ \E x \in ExposesEdges : x[3] = d[2]}}

IsAmbiguousCall(e) == e[1] \in CallRelations /\ <<e[2], e[3]>> \in calls.ambiguous

\* The nodes at most n hops from s along the pairs in hops.
Within(hops, s, n) ==
    LET hop(reach, i) == reach \cup {h[2] : h \in {g \in hops : g[1] \in reach}}
    IN  FoldLeft(hop, {s}, [i \in 1 .. n |-> i])

Forward(edges)  == {<<e[2], e[3]>> : e \in edges}
Backward(edges) == {<<e[3], e[2]>> : e \in edges}

\* Mutant: a call is counted as one relationship.
CallsForwardHalf(v) ==
    LET edges == CallEdges \cup VersionEdges
        near  == Within(Forward(edges), v, MAX_CALL_DEPTH - 1)
        paths == {e \in edges : e[2] \in near}
    IN  IF paths = {} THEN {}
        ELSE paths \cup {e \in VersionEdges : e[3] = v}

\* What a method that handles an endpoint goes on to call, from each of its
\* versions that calls anything.
Downstream(m) ==
    LET edges == CallEdges \cup VersionEdges
        versions == {e \in VersionEdges : e[2] = m /\ \E c \in CallEdges : c[2] = e[3]}
        near(v) == Within(Forward(edges), v, 2 * MAX_CALL_DEPTH - 1)
    IN  versions \cup UNION {{f \in edges : f[2] \in near(e[3])} : e \in versions}

\* The relationships on the paths from v of at most 2 * MAX_CALL_DEPTH hops, and,
\* if there are any, the one from v's own method, the endpoints of that, and what
\* handles the requests on the paths.
CallsForward(v) ==
    LET edges == CallEdges \cup HttpEdges \cup VersionEdges
        near  == Within(Forward(edges), v, 2 * MAX_CALL_DEPTH - 1)
        paths == {e \in edges : e[2] \in near}
        handled == {x \in ExposesEdges : x[3] \in Ends(paths)}
    IN  IF paths = {} THEN {}
        ELSE paths \cup {e \in VersionEdges : e[3] = v}
             \cup {x \in ExposesEdges : x[2] = MethodOf[v]}
             \cup handled \cup UNION {Downstream(x[2]) : x \in handled}

\* Mutant: only the callers of the method itself are looked for.
CallsBackwardOnce(m) ==
    LET edges == CallEdges \cup VersionEdges
    IN  {e \in edges : e[3] \in Within(Backward(edges), m, 1)}

CallsBackward(m) ==
    LET edges == CallEdges \cup VersionEdges
    IN  {e \in edges : e[3] \in Within(Backward(edges), m, 2 * MAX_CALL_DEPTH - 1)}

\* Two hops of any relationship in any direction.
ShallowNeighborhood(m) ==
    LET edges == CallEdges \cup HttpEdges \cup ExposesEdges \cup VersionEdges
                   \cup HistoryEdges \cup ContainsEdges
        near  == Within(Forward(edges) \cup Backward(edges), m, 1)
    IN  {e \in edges : e[2] \in near \/ e[3] \in near}

ChangedByHistory(m) ==
    LET versions == {v \in stored : MethodOf[v] = m}
    IN  {e \in VersionEdges \cup HistoryEdges :
            \/ e[2] = m
            \/ e[1] = "INTRODUCED_IN" /\ e[2] \in versions}

\* _STRATEGY_BY_QUESTION_KIND, from the version or from its method.
Traversal(kind, v) ==
    CASE kind = "flow"     -> CallsForward(v)
      [] kind = "impact"   -> CallsBackward(MethodOf[v])
      [] kind = "intent"   -> ChangedByHistory(MethodOf[v])
      [] kind = "location" -> ShallowNeighborhood(MethodOf[v])

StartNode(kind, v) == IF kind = "flow" THEN v ELSE MethodOf[v]

\* _path_to_graph_dict: accessors are left out, except the start; a version is
\* known as an accessor's only by a HAS_VERSION relationship among the paths.
NodesOf(paths, start) ==
    LET ends == UNION {{e[2], e[3]} : e \in paths}
        isAccessor(n) == \/ n \in Accessors
                         \/ \E e \in paths : /\ e[1] = "HAS_VERSION"
                                             /\ e[3] = n /\ e[2] \in Accessors
    IN  {n \in ends : n = start \/ ~isAccessor(n)}

\* Mutant: the relationships of the nodes left out stay.
EdgesOfAll(paths, nodes) == {e \in paths : ~IsAmbiguousCall(e)}

EdgesOf(paths, nodes) ==
    {e \in paths : ~IsAmbiguousCall(e) /\ e[2] \in nodes /\ e[3] \in nodes}

-----------------------------------------------------------------------------
(* Lists *)

\* What is left of a list by a comprehension: SelectSeq for membership, as a fold,
\* because the provers know nothing of SelectSeq.
OnlyIn(seq, S) ==
    FoldLeft(LAMBDA kept, i : IF i \in S THEN Append(kept, i) ELSE kept, <<>>, seq)

Cut(seq, n) == SubSeq(seq, 1, IF Len(seq) < n THEN Len(seq) ELSE n)

-----------------------------------------------------------------------------
(* evidence_enricher: breadth first over the calls that are sure *)

\* One called method of a version at depth d.
Visit(edges, d, s, m) ==
    LET versions == {e[3] : e \in {f \in edges : f[1] = "HAS_VERSION" /\ f[2] = m}} IN
    IF m \in s.methods THEN s
    ELSE IF Cardinality(versions) # 1 \/ versions \subseteq s.versions
         THEN [s EXCEPT !.methods = @ \cup {m}]
         ELSE LET v == CHOOSE v \in versions : TRUE IN
              [queue    |-> Append(s.queue, <<v, d + 1>>),
               methods  |-> s.methods \cup {m},
               versions |-> s.versions \cup {v},
               ordered  |-> Append(s.ordered, v)]

\* One round of the loop: the head of the queue is expanded.
Expand(edges, order, s) ==
    LET v == Head(s.queue)[1]
        d == Head(s.queue)[2]
        called == OnlyIn(order, {e[3] : e \in {f \in edges : f[1] = "CALLS" /\ f[2] = v}})
        rest   == [s EXCEPT !.queue = Tail(@)]
    IN  IF d >= MAX_CALL_DEPTH THEN rest
        ELSE FoldLeft(LAMBDA t, m : Visit(edges, d, t, m), rest, called)

\* _bfs_version_ids.  order is the one the calls come in; no version is queued
\* twice, so the queue is empty after as many rounds as there are versions.
BfsVersions(edges, order, start) ==
    LET first == [queue |-> <<<<start, 0>>>>, methods |-> {},
                  versions |-> {start}, ordered |-> <<>>]
        round(s, i) == IF s.queue = <<>> THEN s ELSE Expand(edges, order, s)
    IN  FoldLeft(round, first, [i \in 1 .. Cardinality(Versions) |-> i]).ordered

-----------------------------------------------------------------------------
(* The nodes of the pipeline *)

Goto(pc, state) == qa' = [state EXCEPT !.pc = pc]

\* question_analyzer: the kind asked for, the classifier's, or location.
ClassifyQuestion(kind) ==
    /\ qa.pc = "analyze"
    /\ Goto("resolve", [qa EXCEPT !.kind = kind])
    /\ UNCHANGED store

\* entity_resolver: the newest chunk of every method that is named.
ResolveEntities ==
    LET named == {v \in Embedded : MethodOf[v] \in qa.names} IN
    /\ qa.pc = "resolve"
    /\ Goto("search", [qa EXCEPT !.symbols =
                          {v \in named : \A w \in named :
                              MethodOf[w] = MethodOf[v] => chunk[w] =< chunk[v]}])
    /\ UNCHANGED store

\* vector_retriever
SearchVectorEvidence ==
    /\ qa.pc = "search"
    /\ Goto("select", [qa EXCEPT !.hits =
                          Cut(OnlyIn(qa.ranking, Embedded), TOP_K)])
    /\ UNCHANGED store

\* Mutant: an exact symbol is looked for only when the vector search fails.
HitsFirst(v) ==
    IF qa.hits # <<>> THEN v \in ToSet(Cut(qa.hits, MAX_SELECTION_CANDIDATES))
    ELSE IF qa.symbols # {} THEN v \in qa.symbols
    ELSE v = None

\* TargetSelector.select: of the exact symbols the one with the best score,
\* the same one in every round; or a hit, by score, by the language model or
\* because that failed.
IsSelected(v) ==
    IF qa.symbols # {} THEN v \in qa.symbols /\ qa.target \in {None, v}
    ELSE IF qa.hits # <<>> THEN v \in ToSet(Cut(qa.hits, MAX_SELECTION_CANDIDATES))
    ELSE v = None

SelectTarget(v) ==
    /\ qa.pc = "select"
    /\ IsSelected(v)
    /\ Goto("traverse", [qa EXCEPT !.target = v])
    /\ UNCHANGED store

\* graph_retriever.  Without a target there are no hits either.
SearchGraphEvidence ==
    LET paths == IF qa.target = None THEN {} ELSE Traversal(qa.kind, qa.target)
        nodes == IF qa.target = None THEN {}
                 ELSE NodesOf(paths, StartNode(qa.kind, qa.target))
    IN  /\ qa.pc = "traverse"
        /\ Goto("enrich", [qa EXCEPT !.nodes = nodes, !.edges = EdgesOf(paths, nodes)])
        /\ UNCHANGED store

Enriched(order) ==
    IF qa.target = None THEN <<>>
    ELSE Cut(OnlyIn(BfsVersions(qa.edges, order, qa.target), Embedded \ SimpleBodies),
             MAX_ENRICHED_CODE_CONTEXTS)

\* evidence_enricher
EnrichCodeEvidence ==
    /\ qa.pc = "enrich"
    /\ \E order \in Orders :
          Goto("fuse", [qa EXCEPT !.enriched = Enriched(order)])
    /\ UNCHANGED store

\* Mutant: a hit has to be in the graph.
InGraphOnly(v) == {v, MethodOf[v]} \cap qa.nodes # {}

\* A hit is shown if it is the target, or its version or its method is in the
\* graph.
IsUserEvidenceCandidate(v) ==
    \/ {v, MethodOf[v]} \cap qa.nodes # {}
    \/ qa.target # None /\ (v = qa.target \/ MethodOf[v] = MethodOf[qa.target])

\* The nodes of the history an intent question is told: the commits, and the
\* versions unless they are an accessor's.
HistoryNodes ==
    IF qa.kind = "intent" THEN qa.nodes \cap (Versions \cup Commits) ELSE {}

\* The records may come in any order; in a record a version is followed by a commit
\* that introduced it.
IsHistoryOrder(items) ==
    \A i \in DOMAIN items :
        items[i] \in Versions =>
            \E j \in DOMAIN items : j =< i + 1 /\ <<items[i], items[j]>> \in IntroducedIn

HistoryOrders == {items \in SetToSeqs(HistoryNodes) : IsHistoryOrder(items)}

\* Mutant: what a hit and the calls lead to is shown twice.
KeepAll(items) == items

Deduplicate(items) ==
    FoldLeft(LAMBDA kept, i : IF Contains(kept, i) THEN kept ELSE Append(kept, i), <<>>, items)

Fused(history) ==
    LET shown == OnlyIn(qa.hits, {v \in Versions : IsUserEvidenceCandidate(v)}) \o qa.enriched
    IN  Cut(Deduplicate(shown \o history), MaxEvidence[qa.kind])

\* evidence_fusion
FuseEvidence ==
    /\ qa.pc = "fuse"
    /\ \E history \in HistoryOrders :
          Goto("validate", [qa EXCEPT !.evidence = Fused(history)])
    /\ UNCHANGED store

TargetMatches ==
    \/ qa.symbols = {}
    \/ qa.target # None /\ MethodOf[qa.target] \in {MethodOf[v] : v \in qa.symbols}

\* Mutant: the retry is not counted.
Uncounted ==
    [qa EXCEPT !.sufficient = qa.evidence # <<>> /\ TargetMatches,
               !.reason = IF qa.evidence = <<>> THEN "no_evidence"
                          ELSE IF ~TargetMatches THEN "explicit_symbol_mismatch"
                          ELSE None]

\* evidence_validator
Validated ==
    [qa EXCEPT !.retries = @ + 1,
               !.sufficient = qa.evidence # <<>> /\ TargetMatches,
               !.reason = IF qa.evidence = <<>> THEN "no_evidence"
                          ELSE IF ~TargetMatches THEN "explicit_symbol_mismatch"
                          ELSE None]

RouteAfterValidation(state) ==
    IF state.sufficient \/ state.retries >= MAX_RETRIES THEN "compose" ELSE "search"

ValidateEvidence ==
    /\ qa.pc = "validate"
    /\ Goto(RouteAfterValidation(Validated), Validated)
    /\ UNCHANGED store

\* response_composer: AnswerGenerator.generate builds the context ...
ComposeAnswer ==
    /\ qa.pc = "compose"
    /\ \E commitOf \in CommitByVersion(qa.edges) :
          Goto("ask", [qa EXCEPT !.context =
                          Context(qa.kind, qa.hits, qa.edges, qa.evidence, commitOf)])
    /\ UNCHANGED store

\* ... asks, and asks a second time if the provider found the first context
\* too large and there is a smaller one.
ProviderLimit ==
    /\ qa.pc = "ask"
    /\ \E smaller \in {Fallback(qa.kind, qa.context)} :
          IF Size(smaller) < Size(qa.context)
          THEN Goto("ask_again", [qa EXCEPT !.context = smaller])
          ELSE Goto("failed", qa)
    /\ UNCHANGED store

\* The answer is there; the graph that is shown with it is made.
Answered ==
    /\ qa.pc \in {"ask", "ask_again"}
    /\ \E order \in Orders :
          Goto("answered",
               [qa EXCEPT !.shown = GraphFrom(qa.kind, qa.nodes, qa.edges,
                              IF qa.target = None THEN None ELSE MethodOf[qa.target], order)])
    /\ UNCHANGED store

\* A node raises what its database or its language model raised, the last node
\* also after an empty answer and after a second limit.
NodeFails ==
    /\ qa.pc \notin {"answered", "failed"}
    /\ Goto("failed", qa)
    /\ UNCHANGED store

\* The next question starts from a state of its own.
AskAgain(names, ranking) ==
    /\ qa.pc \in {"answered", "failed"}
    /\ qa' = Asked(names, ranking)
    /\ UNCHANGED store

PipelineStep ==
    \/ \E kind \in QuestionKind : ClassifyQuestion(kind)
    \/ ResolveEntities \/ SearchVectorEvidence
    \/ \E v \in Versions \cup {None} : SelectTarget(v)
    \/ SearchGraphEvidence \/ EnrichCodeEvidence \/ FuseEvidence
    \/ ValidateEvidence \/ ComposeAnswer \/ ProviderLimit \/ Answered

Next ==
    \/ \E a \in Analyses : StoreHistory(a.commits) \/ StoreChunks(a.checkout)
    \/ PipelineStep
    \/ NodeFails
    \/ \E names \in Questions, ranking \in Rankings : AskAgain(names, ranking)

Spec == Init /\ [][Next]_vars

-----------------------------------------------------------------------------
(* Properties *)

\* The store and the state of the question keep their shape; what the answer
\* shows is bounded, without repetition.
QATypeOK ==
    /\ calls \in CallGraphs
    /\ Embedded \subseteq stored
    /\ chunk \in [Versions -> 0 .. MaxImports]
    /\ DOMAIN qa = DOMAIN Asked({}, <<>>)
    /\ qa.retries \in 0 .. MAX_RETRIES
    /\ qa.target \in Versions \cup {None}
    /\ qa.context = None \/ qa.context \in AnswerGenerationContext
    /\ Len(qa.hits) =< TOP_K
    /\ Len(qa.enriched) =< MAX_ENRICHED_CODE_CONTEXTS
    /\ Len(qa.evidence) =< MaxEvidence[qa.kind]
    /\ Cardinality(ToSet(qa.evidence)) = Len(qa.evidence)

Composed == qa.pc \in {"compose", "ask", "ask_again", "answered"}
Selected == qa.pc \in {"traverse", "enrich", "fuse", "validate"} \/ Composed

\* A question that names a stored method is answered about that method, in
\* every round, although the names are resolved only once: the validator never
\* has a mismatch to report.
NamedSymbolAnswered ==
    /\ Selected /\ qa.symbols # {} => qa.target \in qa.symbols
    /\ qa.reason # "explicit_symbol_mismatch"

\* A question that names no stored method is answered without evidence only
\* if its last search found no chunk at all.
NoEvidenceMeansNoChunk ==
    Composed /\ qa.symbols = {} /\ qa.evidence = <<>>
        => qa.hits = <<>>

\* Every code shown is a version of the target's method or its version or
\* method is among the nodes of the graph shown with it, also after a second
\* search.
EvidenceIsConnected ==
    qa.pc = "validate" \/ Composed =>
        \A v \in ToSet(qa.evidence) \cap Versions :
            \/ {v, MethodOf[v]} \cap qa.nodes # {}
            \/ qa.target # None /\ MethodOf[v] = MethodOf[qa.target]

\* The versions n calls or fewer from v, over calls that are sure to methods
\* with one version that are no accessors.
CalledWithin(v, n) ==
    LET sure(w, x) == /\ <<w, MethodOf[x]>> \in calls.all \ calls.ambiguous
                      /\ MethodOf[x] \notin Accessors
                      /\ {y \in stored : MethodOf[y] = MethodOf[x]} = {x}
    IN  Within({p \in stored \X stored : sure(p[1], p[2])}, v, n) \ {v}

\* The graph a flow question is given, bounded in relationships and without
\* accessors, holds all the search for code needs: it finds the versions
\* within MAX_CALL_DEPTH calls, neither more nor fewer.
FlowFindsCalledCode ==
    [][qa.pc = "traverse" /\ qa'.pc = "enrich" /\ qa.kind = "flow" /\ qa.target # None
          => \A edges \in {qa'.edges}, order \in Orders :
                ToSet(BfsVersions(edges, order, qa.target))
                    = CalledWithin(qa.target, MAX_CALL_DEPTH)]_vars

\* The nodes of the graph shown that can be reached from s along its edges.
Reachable(edges, s) == Within(Forward(edges), s, Cardinality(edges))

\* The method asked about, or its version when the method, an accessor, is left out.
AskedAbout == {qa.target, MethodOf[qa.target]}

\* No name that may be drawn is taken for that of the method asked about, and
\* whatever may be drawn is called from there or is an endpoint of it.  (Of too many
\* that handle one endpoint the picture has no place for all.)
NothingStray(edges) ==
    \E t \in AskedAbout \cap Ends(edges) :
        /\ Ends(edges) \cap Mentioned[MethodOf[qa.target]] \subseteq AskedAbout
        /\ \A n \in Ends(edges) :
              \/ n \in Reachable(edges, t)
              \/ /\ <<"HANDLED_BY", n, t>> \in edges
                 /\ Cardinality({e \in edges : e[2] = n}) < MAX_FLOW_NODES

\* The graph shown with an answer has both ends of its edges.  The picture of a
\* flow is a tree of no more than MAX_FLOW_NODES nodes, drawn from one of them, in
\* which a call is one that is sure; and the method asked about is in it, when all
\* that may be drawn is reached from there.
PictureHolds ==
    qa.pc = "answered" =>
        /\ Ends(qa.shown.edges) \subseteq qa.shown.nodes
        /\ qa.kind = "flow" /\ qa.shown.edges # {} =>
              LET drawn == qa.shown.edges
                  both  == drawn \cup {<<e[1], e[3], e[2]>> : e \in drawn} IN
              /\ Cardinality(qa.shown.nodes) = Cardinality(drawn) + 1
              /\ Cardinality(qa.shown.nodes) =< MAX_FLOW_NODES
              /\ \E r \in qa.shown.nodes : qa.shown.nodes \subseteq Reachable(both, r)
              /\ \A e \in drawn : e[1] \in CallRelations =>
                    \E v \in stored : /\ e[2] \in {v, MethodOf[v]}
                                     /\ <<v, e[3]>> \in (calls.all \cup calls.http) \ calls.ambiguous
              /\ NothingStray(Meaningful(qa.edges)) => AskedAbout \cap qa.shown.nodes # {}

\* The versions that call m, or a method one of whose versions calls m, and so
\* on, over n calls or fewer.
CallersWithin(m, n) ==
    LET hop == {<<c[2], MethodOf[c[1]]>> : c \in {d \in calls.all : d[1] \in stored}}
        called == Within(hop, m, n - 1)
    IN  {c[1] : c \in {d \in calls.all : d[1] \in stored /\ d[2] \in called}}

\* The graph an impact question is given has all the versions that reach the
\* target's method in MAX_CALL_DEPTH calls, but those of accessors.
ImpactFindsCallers ==
    [][qa.pc = "traverse" /\ qa'.pc = "enrich" /\ qa.kind = "impact" /\ qa.target # None
          => qa'.nodes \cap Versions =
                {v \in CallersWithin(MethodOf[qa.target], MAX_CALL_DEPTH) :
                    MethodOf[v] \notin Accessors}]_vars

\* Nothing is left in the context that may be removed or cut: of an intent
\* question one change without its code, of another one one code without its
\* text, and one evidence.
Irreducible(kind, c) ==
    /\ Len(c.evidence) =< 1 /\ c.relations = 0
    /\ kind = "intent" => /\ c.code = <<>> /\ Len(c.history) =< 1
                          /\ \A i \in DOMAIN c.history :
                                c.history[i].source = 0 /\ c.history[i].diff = 0
    /\ kind # "intent" => /\ c.history = <<>> /\ Len(c.code) =< 1
                          /\ \A i \in DOMAIN c.code : c.code[i].chars = 0

\* What is asked again is within its budget, unless nothing could be removed
\* any more; and it is asked again whenever that is possible.
FallbackFits ==
    [][qa.pc = "ask" => \E full \in {qa.context} : \E smaller \in {Fallback(qa.kind, full)} :
          /\ qa'.pc = "ask_again" =>
                \/ Size(qa'.context) =< FallbackBudget(Size(full))
                \/ Irreducible(qa.kind, qa'.context)
          /\ Size(full) > MIN_FALLBACK_CONTEXT_CHARS /\ ~Irreducible(qa.kind, full) =>
                Size(smaller) < Size(full)]_vars

\* However small the context, the language model is told the latest change of
\* the method an intent question is about, a deletion included, as far as its
\* versions have a commit that is kept; and of the code found for another question
\* the best hit.
LatestChangeTold ==
    qa.pc \in {"ask", "ask_again"} =>
        /\ qa.kind = "intent" /\ qa.nodes \cap Versions # {} =>
              \E commitOf \in CommitByVersion(qa.edges) :
                 LET told == {commitOf[v] : v \in DOMAIN commitOf} \cup DeletingCommits(qa.edges)
                 IN  /\ qa.context.history # <<>>
                     /\ Last(qa.context.history).commit = Last(OnlyIn(CommitOrder, told))
        /\ qa.kind # "intent" /\ qa.hits # <<>> =>
              qa.context.code # <<>> /\ qa.context.code[1].version = qa.hits[1]

\* What is told as the first observation of the method is the earliest of the
\* commits the graph has for its versions (prompts.py).
FirstObservedIsFirst ==
    qa.pc \in {"ask", "ask_again"} =>
        \A i \in DOMAIN qa.context.history :
            qa.context.history[i].type = "first_observed" =>
                LET introducing == {e[3] : e \in {f \in qa.edges : f[1] = "INTRODUCED_IN"}}
                IN  qa.context.history[i].commit = Head(OnlyIn(CommitOrder, introducing))

\* The nodes up to the validator, in the order of their edges.
Round == <<"search", "select", "traverse", "enrich", "fuse", "validate">>

\* How many steps of nodes may be left.
NodesLeft ==
    CASE qa.pc = "analyze" -> 5 + Len(Round) * MAX_RETRIES
      [] qa.pc = "resolve" -> 4 + Len(Round) * MAX_RETRIES
      [] qa.pc \in ToSet(Round) ->
            4 + Len(Round) * (MAX_RETRIES - qa.retries)
              - CHOOSE i \in DOMAIN Round : Round[i] = qa.pc
      [] qa.pc = "compose" -> 3 [] qa.pc = "ask" -> 2 [] qa.pc = "ask_again" -> 1
      [] OTHER -> 0

\* There is an end to searching again: every step leaves fewer steps to run
\* than there were, and never a negative number.
SearchingEnds ==
    [][qa.pc \notin {"answered", "failed"} /\ qa' # qa
          => NodesLeft' < NodesLeft /\ NodesLeft' >= 0]_vars
=============================================================================
