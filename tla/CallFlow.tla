-------------------------------- MODULE CallFlow --------------------------------
(***************************************************************************)
(* The graph that is shown with an answer (adapters/qa_response_adapter.py)*)
(* and the picture that is drawn of a flow (visualization/                 *)
(* call_flow_builder.py), from the nodes and edges of the traversal.       *)
(*                                                                         *)
(* An edge is <<type, source, target>>.  Names are known by what the       *)
(* builder looks for in them.  It goes through dicts and sets: order, a    *)
(* sequence of nodes, is the one that equals come in.                      *)
(***************************************************************************)
EXTENDS Naturals, FiniteSets, SequencesExt

CONSTANTS
    Priority,        \* Priority[n]: the score of the words in the name of n
    Mentioned,       \* Mentioned[m]: the nodes with the name of method m in theirs
    NamedAccessors,  \* nodes with a name that starts like that of a getter or
                     \* setter, "setup" included, and is none of security
    MAX_FLOW_NODES   \* _MAX_FLOW_NODES

ASSUME FlowAssumption == MAX_FLOW_NODES \in Nat \ {0}

Ends(edges) == UNION {{e[2], e[3]} : e \in edges}

\* _method_by_version: a version stands for its method, if that is in the graph.
MethodByVersion(edges, n) ==
    LET owners == {e[2] : e \in {f \in edges : f[1] = "HAS_VERSION" /\ f[3] = n}} IN
    IF owners = {} THEN n ELSE CHOOSE m \in owners : TRUE

CallRelations == {"CALLS", "HTTP_CALLS"}

\* _call_edges, from method to method or endpoint.
ProjectedCalls(edges) ==
    {<<e[1], MethodByVersion(edges, e[2]), MethodByVersion(edges, e[3])>> :
        e \in {f \in edges : f[1] \in CallRelations}}

\* _endpoint_edges: what handles an endpoint, when it calls or is called.
EndpointEdges(edges, connected) ==
    {<<"HANDLED_BY", e[3], e[2]>> : e \in {f \in edges : f[1] = "EXPOSES" /\ f[2] \in connected}}

\* What may be drawn: nothing that leads to an accessor.
Meaningful(edges) ==
    LET calls == ProjectedCalls(edges) IN
    IF calls = {} THEN {}
    ELSE {e \in calls \cup EndpointEdges(edges, Ends(calls)) : e[3] \notin NamedAccessors}

-----------------------------------------------------------------------------
(* _select_primary_path *)

Position(order, n) == IF Contains(order, n) THEN CHOOSE i \in DOMAIN order : order[i] = n ELSE 0

RootPriority(n, target) == Priority[n] + IF n \in Mentioned[target] THEN 10 ELSE 0

\* A node nothing leads to, if there is one: the one with the best name.
Root(edges, target, order) ==
    LET sources == {e[2] : e \in edges}
        uncalled == sources \ {e[3] : e \in edges}
        roots == IF uncalled = {} THEN sources ELSE uncalled
    IN  CHOOSE r \in roots : \A n \in roots \ {r} :
            \/ RootPriority(r, target) > RootPriority(n, target)
            \/ /\ RootPriority(r, target) = RootPriority(n, target)
               /\ Position(order, r) =< Position(order, n)

\* Where the edges lead from n, the best names first; from the method that handles
\* an endpoint also to the endpoint, after its requests.
Outgoing(edges, n, order) ==
    LET out == {<<e[3], e>> : e \in {f \in edges : f[2] = n}}
               \cup {<<e[2], e>> : e \in {f \in edges : f[1] = "HANDLED_BY" /\ f[3] = n}}
        before(p, q) == \/ Priority[p[1]] > Priority[q[1]]
                        \/ /\ Priority[p[1]] = Priority[q[1]]
                           /\ \/ Position(order, p[1]) < Position(order, q[1])
                              \/ /\ Position(order, p[1]) = Position(order, q[1])
                                 /\ p[2][1] = "HANDLED_BY" => q[2][1] = "HANDLED_BY"
    IN  CHOOSE s \in SetToSeqs(out) : \A i, j \in DOMAIN s : i < j => before(s[i], s[j])

\* Mutant: a node is drawn as often as it is called.
DrawAlways(s, p) ==
    IF Cardinality(s.nodes) >= MAX_FLOW_NODES THEN s
    ELSE [queue |-> Append(s.queue, p[1]), nodes |-> s.nodes \cup {p[1]},
          edges |-> s.edges \cup {p[2]}]

\* One edge: p is the node it leads to and the edge.
Draw(s, p) ==
    IF p[1] \in s.nodes \/ Cardinality(s.nodes) >= MAX_FLOW_NODES THEN s
    ELSE [queue |-> Append(s.queue, p[1]), nodes |-> s.nodes \cup {p[1]},
          edges |-> s.edges \cup {p[2]}]

\* Breadth first from the root; every node is in the queue once.
SelectPrimaryPath(edges, target, order) ==
    LET root  == Root(edges, target, order)
        first == [queue |-> <<root>>, nodes |-> {root}, edges |-> {}]
        round(s, i) == IF s.queue = <<>> THEN s
                       ELSE FoldLeft(Draw, [s EXCEPT !.queue = Tail(@)],
                                     Outgoing(edges, Head(s.queue), order))
    IN  FoldLeft(round, first, [i \in 1 .. MAX_FLOW_NODES |-> i]).edges

\* CallFlowBuilder.build; there may be nothing to draw.
Flow(edges, target, order) ==
    LET drawn == IF Meaningful(edges) = {} THEN {}
                 ELSE SelectPrimaryPath(Meaningful(edges), target, order)
    IN  IF \E e \in drawn : e[1] \in CallRelations THEN drawn ELSE {}

-----------------------------------------------------------------------------
(* _graph_from *)

FlowEdgeTypes == CallRelations \cup {"HANDLED_BY"}

\* _filtered_flow_graph, of a picture without nodes of its own.
FilteredFlow(edges) ==
    LET kept == {e \in edges : e[1] \in FlowEdgeTypes} IN [nodes |-> Ends(kept), edges |-> kept]

\* Of a flow the picture alone, of other questions, for which no builder is
\* registered, the graph of the traversal.
GraphFrom(kind, nodes, edges, target, order) ==
    IF kind = "flow" THEN FilteredFlow(Flow(edges, target, order))
    ELSE [nodes |-> nodes, edges |-> edges]
=============================================================================
