------------------------------- MODULE CodeGraph -------------------------------
(***************************************************************************)
(* The code graph of one GitHub repository in Neo4j: how the names in the  *)
(* parsed files become relations between methods, classes and endpoints,   *)
(* and what is left in the store when several analyses write it.           *)
(*                                                                         *)
(* An analysis of a branch saves one document for every commit after the   *)
(* checkpoint of the branch (MethodHistoryIndexer.index), which holds the  *)
(* files that the commit changed, and then one for the files of the        *)
(* checkout (CodeGraphImportService.import_repository).  Each document is  *)
(* resolved by itself (resolve_cross_file_references) and merged into the  *)
(* graph in one transaction (CodeGraphRepository.save).  The branches of a *)
(* repository have analyses of their own and share the graph.              *)
(*                                                                         *)
(* The commits, INTRODUCED_IN, DERIVED_FROM and DELETED_IN of the same     *)
(* documents are in MethodHistory.  A declaration is a record of what the  *)
(* parser hands over; a constructor is a method with the name it has in    *)
(* its key, and a receiver or a type is the name the source has for it.    *)
(***************************************************************************)
EXTENDS Naturals, Sequences, Identifiers

CONSTANTS
    Branches,      \* registrations of the repository, one for each branch
    Paths,         \* paths with a supported extension (parsers/registry)
    Excluded,      \* paths under node_modules, build, dist, ...
    LanguageOf,    \* LanguageOf[p]: the language of p's extension
    RouteKey,      \* RouteKey[r]: "VERB:path" with its parameters made equal,
                   \* None for a path that is not known statically
    Trees,         \* what a commit may hold: Trees[t][p] is a parsed file or None
    MaxCommits,    \* bound: MaxCommits[b] commits are pushed to branch b
    None

ASSUME GraphAssumption ==
    /\ Excluded \subseteq Paths
    /\ Trees \subseteq [Paths -> UNION {{t[p] : p \in Paths} : t \in Trees}]
    /\ MaxCommits \in [Branches -> Nat]

\* _build_imports_edges, _build_extends_edge, _build_implements_edges and
\* _build_manages_edge are what a class refers to others with.
ASSUME ReferenceAssumption ==
    \A t \in Trees, p \in Paths : t[p] # None =>
        \A c \in t[p].classes : \A ref \in c.references :
            ref.type \in {"IMPORTS", "EXTENDS", "IMPLEMENTS", "MANAGES"}

\* A class has a name, and its qualified name ends in it: extract_class_results and
\* what it is called in the other parsers.
ASSUME NamesAssumption ==
    \A t \in Trees, p \in Paths : t[p] # None =>
        /\ \A c \in t[p].classes : None \notin {c.name, c.qualified_name}
        /\ \A c, d \in t[p].classes : c.qualified_name = d.qualified_name => c.name = d.name

VARIABLES
    commits,    \* commits[b]: the trees pushed to branch b, oldest first
    indexed,    \* indexed[b]: commits up to history_indexed_sha of b
    run,        \* run[b]: the analysis of b
    nodes,      \* node keys in Neo4j
    lines,      \* <<version key, startLine>>: a property of the versions in Neo4j
    relations,  \* <<type, source key, target key>> in Neo4j
    ambiguous   \* the relations with the property ambiguous

graph == <<nodes, lines, relations, ambiguous>>
vars  == <<commits, indexed, run, nodes, lines, relations, ambiguous>>

Run == [pc : {"idle", "working", "finish"}, head : Nat, next : Nat \ {0}]

IdleRun == [pc |-> "idle", head |-> 0, next |-> 1]

Init ==
    /\ commits = [b \in Branches |-> <<>>]
    /\ indexed = [b \in Branches |-> 0]
    /\ run = [b \in Branches |-> IdleRun]
    /\ nodes = {} /\ lines = {} /\ relations = {} /\ ambiguous = {}

-----------------------------------------------------------------------------
(* The declarations in the files ps of the tree t; Identifiers has their keys *)

ClassesIn(t, ps) ==
    UNION {{[path |-> p, package |-> t[p].package, class |-> c] : c \in t[p].classes} :
              p \in {q \in ps : t[q] # None}}

MethodsIn(t, ps) ==
    UNION {{[path |-> d.path, class |-> d.class, method |-> m] : m \in d.class.methods} :
              d \in ClassesIn(t, ps)}

Exposing(ms) == {m \in ms : m.method.api_mapping # None}

NodesOf(t, ps) ==
    {FileKey(p) : p \in {q \in ps : t[q] # None}}
    \cup {PackageKey(d.package) : d \in {c \in ClassesIn(t, ps) : c.package # None}}
    \cup {ClassKey(d) : d \in ClassesIn(t, ps)}
    \cup {MethodKey(m) : m \in MethodsIn(t, ps)}
    \cup {VersionKey(m) : m \in MethodsIn(t, ps)}
    \cup {EndpointKey(m.method.api_mapping) : m \in Exposing(MethodsIn(t, ps))}

\* The line a version begins at is a property of its node and no part of its key.
LinesIn(t, ps) == {<<VersionKey(m), m.method.start_line>> : m \in MethodsIn(t, ps)}

-----------------------------------------------------------------------------
(* _map_file_document: the relations whose ends one file tells *)

Edge(type, source, target, several) ==
    [type |-> type, source |-> source, target |-> target, ambiguous |-> several]

StructureOf(t, ps) ==
    LET cs == ClassesIn(t, ps)
        ms == MethodsIn(t, ps)
    IN  {Edge("DECLARES", FileKey(d.path), ClassKey(d), FALSE) : d \in cs}
        \cup {Edge("CONTAINS", PackageKey(d.package), ClassKey(d), FALSE) :
                 d \in {c \in cs : c.package # None}}
        \cup {Edge("CONTAINS", ClassKey(m), MethodKey(m), FALSE) : m \in ms}
        \cup {Edge("HAS_VERSION", MethodKey(m), VersionKey(m), FALSE) : m \in ms}
        \cup {Edge("EXPOSES", MethodKey(m), EndpointKey(m.method.api_mapping), FALSE) :
                 m \in Exposing(ms)}

-----------------------------------------------------------------------------
(* resolve_cross_file_references: the others, found by name.  No candidate *)
(* makes the edge external, and save skips those.                          *)

\* node_language of the source of an edge.
EdgeLanguage(m) == LanguageOf[m.path]

\* _resolve_receiver_type: the class itself, the type of a field, or unknown.
ReceiverType(m, call) ==
    IF call.receiver = None THEN m.class.name
    ELSE IF call.receiver \in DOMAIN m.class.fields THEN m.class.fields[call.receiver]
    ELSE None

Named(d, type) == type \in {d.class.name, d.class.qualified_name}

\* Mutant: a receiver type that has no such method leaves nothing.
NarrowedOnly(candidates, type) == {c \in candidates : Named(c, type)}

\* Mutant: the type of the receiver is not used.
NotNarrowed(candidates, type) == candidates

\* The methods of the receiver's type if that leaves any, all of them if not.
Narrow(candidates, type) ==
    LET narrowed == {c \in candidates : Named(c, type)} IN
    IF type # None /\ narrowed # {} THEN narrowed ELSE candidates

CallCandidates(t, ps, m, call) ==
    Narrow({c \in MethodsIn(t, ps) : /\ LanguageOf[c.path] = EdgeLanguage(m)
                                     /\ c.method.name = call.name},
           ReceiverType(m, call))

\* The fully qualified name first, the simple name if there is no such class.
ClassCandidates(t, ps, d, ref) ==
    LET known == {c \in ClassesIn(t, ps) : LanguageOf[c.path] = EdgeLanguage(d)}
        exact == {c \in known : c.class.qualified_name = ref.name}
    IN  IF exact # {} THEN exact ELSE {c \in known : c.class.name = ref.simple}

\* One endpoint counts as often as there are methods that expose its route; the
\* language does not matter.
EndpointCandidates(t, ps, route) ==
    {m \in Exposing(MethodsIn(t, ps)) :
        RouteKey[route] # None /\ RouteKey[m.method.api_mapping] = RouteKey[route]}

Several(S) == \E x, y \in S : x # y

CallEdges(t, ps, m, call) ==
    LET found == CallCandidates(t, ps, m, call) IN
    {Edge("CALLS", VersionKey(m), MethodKey(c), Several(found)) : c \in found}

\* Mutant: the endpoint of the path as the client has it.
ClientPathEdges(t, ps, m, route) ==
    LET found == EndpointCandidates(t, ps, route) IN
    {Edge("HTTP_CALLS", VersionKey(m), EndpointKey(route), Several(found)) : c \in found}

HttpEdges(t, ps, m, route) ==
    LET found == EndpointCandidates(t, ps, route) IN
    {Edge("HTTP_CALLS", VersionKey(m), EndpointKey(c.method.api_mapping), Several(found)) :
        c \in found}

\* IMPORTS, EXTENDS, IMPLEMENTS and MANAGES of a class.
ClassEdges(t, ps, d, ref) ==
    LET found == ClassCandidates(t, ps, d, ref) IN
    {Edge(ref.type, ClassKey(d), ClassKey(c), Several(found)) : c \in found}

EdgesOf(t, ps) ==
    LET ofClass(d)  == UNION {ClassEdges(t, ps, d, ref) : ref \in d.class.references}
        ofMethod(m) == (UNION {CallEdges(t, ps, m, call) : call \in m.method.invoked_calls})
                       \cup (UNION {HttpEdges(t, ps, m, route) : route \in m.method.http_calls})
    IN  StructureOf(t, ps) \cup (UNION {ofClass(d) : d \in ClassesIn(t, ps)})
                           \cup (UNION {ofMethod(m) : m \in MethodsIn(t, ps)})

-----------------------------------------------------------------------------
(* CodeGraphRepository.save *)

Relation(e)  == <<e.type, e.source, e.target>>
Relations(E) == {Relation(e) : e \in E}
Flags(E)     == {Relation(e) : e \in {f \in E : f.ambiguous}}

\* SET relation += row.properties: a property that is there stays.
MergeFlags(E) == ambiguous \cup Flags(E)

\* Mutant: ON CREATE SET node += row.properties.
KeepProperties(L) == lines \cup {l \in L : \A k \in lines : k[1] # l[1]}

\* SET node += row.properties: a property that is there is overwritten.
SetProperties(L) == {l \in lines : \A k \in L : k[1] # l[1]} \cup L

\* _validate_nodes: nodes of one key have the same properties.
NoConflicts(t, ps) ==
    /\ \A c, d \in ClassesIn(t, ps) : ClassKey(c) = ClassKey(d) => c.class.fields = d.class.fields
    /\ \A m, n \in MethodsIn(t, ps) :
          /\ MethodKey(m) = MethodKey(n) => m.method.api_mapping = n.method.api_mapping
          /\ VersionKey(m) = VersionKey(n) => m.method.start_line = n.method.start_line

\* One transaction: MERGE the nodes, then the relations between stored nodes.
Save(t, ps) ==
    LET E == EdgesOf(t, ps) IN
    /\ NoConflicts(t, ps)
    /\ nodes' = nodes \cup NodesOf(t, ps)
    /\ lines' = SetProperties(LinesIn(t, ps))
    /\ relations' = relations \cup Relations(E)
    /\ ambiguous' = MergeFlags(E)

-----------------------------------------------------------------------------
(* Analyses *)

\* The developers push (external).
Push(b, t) ==
    /\ Len(commits[b]) < MaxCommits[b]
    /\ commits' = [commits EXCEPT ![b] = Append(@, t)]
    /\ UNCHANGED <<indexed, run, graph>>

\* The registration is deleted, which leaves the graph, and made again;
\* RepositoryLifecycle has the deletion in the middle of an analysis.
Reregister(b) ==
    /\ indexed[b] # 0
    /\ run[b].pc = "idle"
    /\ indexed' = [indexed EXCEPT ![b] = 0]
    /\ UNCHANGED <<commits, run, graph>>

\* The clone fixes the head and the checkpoint where the commits begin.
Start(b) ==
    /\ run[b].pc = "idle"
    /\ commits[b] # <<>>
    /\ run' = [run EXCEPT ![b] = [pc |-> "working", head |-> Len(commits[b]),
                                  next |-> indexed[b] + 1]]
    /\ UNCHANGED <<commits, indexed, graph>>

\* The files git shows as added or changed in the n-th commit; a deleted one is
\* not parsed.
Changed(b, n) ==
    LET t == commits[b][n] IN
    {p \in Paths : t[p] # None /\ (n = 1 \/ commits[b][n - 1][p] # t[p])}

\* One commit of MethodHistoryIndexer.index.
IndexCommit(b) ==
    LET n == run[b].next IN
    /\ run[b].pc = "working"
    /\ n <= run[b].head
    /\ Save(commits[b][n], Changed(b, n))
    /\ run' = [run EXCEPT ![b] = [@ EXCEPT !.next = n + 1]]
    /\ UNCHANGED <<commits, indexed>>

\* discover_source_files walks the checkout without the excluded directories.
Discovered(b, n) == {p \in Paths \ Excluded : commits[b][n][p] # None}

\* import_repository.
ImportSnapshot(b) ==
    LET n == run[b].head IN
    /\ run[b].pc = "working"
    /\ run[b].next = n + 1
    /\ Save(commits[b][n], Discovered(b, n))
    /\ run' = [run EXCEPT ![b] = [@ EXCEPT !.pc = "finish"]]
    /\ UNCHANGED <<commits, indexed>>

\* The checkpoint of the branch is committed after the chunks, together with the
\* GitHub id, which only one registration can have.
Finish(b) ==
    /\ run[b].pc = "finish"
    /\ \A c \in Branches \ {b} : indexed[c] = 0
    /\ indexed' = [indexed EXCEPT ![b] = run[b].head]
    /\ run' = [run EXCEPT ![b] = IdleRun]
    /\ UNCHANGED <<commits, graph>>

\* A stage raises, another registration has the GitHub id, or the process ends;
\* what was saved stays.
Fail(b) ==
    /\ run[b].pc # "idle"
    /\ run' = [run EXCEPT ![b] = IdleRun]
    /\ UNCHANGED <<commits, indexed, graph>>

Next ==
    \E b \in Branches :
        \/ \E t \in Trees : Push(b, t)
        \/ Reregister(b) \/ Start(b) \/ IndexCommit(b) \/ ImportSnapshot(b) \/ Finish(b) \/ Fail(b)

Spec == Init /\ [][Next]_vars

-----------------------------------------------------------------------------
(* Properties *)

\* An analysis stands between its checkpoint and the head it cloned.
RunsOK ==
    /\ commits \in [Branches -> Seq(Trees)]
    /\ indexed \in [Branches -> Nat]
    /\ run \in [Branches -> Run]
    /\ \A b \in Branches : /\ Len(commits[b]) <= MaxCommits[b]
                           /\ indexed[b] <= Len(commits[b])
                           /\ run[b].head <= Len(commits[b])
                           /\ run[b].pc # "idle" =>
                                 /\ run[b].head >= 1
                                 /\ indexed[b] < run[b].next /\ run[b].next <= run[b].head + 1

\* A relation joins two stored nodes, as _validate_edges demands.
RelationsJoinNodes ==
    /\ ambiguous \subseteq relations
    /\ \A r \in relations : r[2] \in nodes /\ r[3] \in nodes

\* A version has one startLine.
OneLine == \A k, l \in lines : k[1] = l[1] => k = l

\* Every variable keeps the shape the code gives it.
TypeOK == RunsOK /\ OneLine /\ RelationsJoinNodes

\* The commits whose checkout was imported by a finished analysis.
Imported(b) == IF indexed[b] = 0 THEN {} ELSE {commits[b][indexed[b]]}

Visible == Paths \ Excluded

\* No commit but the first n of b has the text of m at another line.
NotMoved(b, n, m) ==
    \A c \in Branches : \A k \in DOMAIN commits[c] :
        c # b \/ k > n =>
            \A x \in MethodsIn(commits[c][k], Paths) :
                VersionKey(x) = VersionKey(m) => x.method.start_line = m.method.start_line

\* The versions of an analysed checkout begin where the checkout has them, whichever
\* line the older commits of the branch had, and however often their analyses failed
\* and began again: the branch saves its commits in order and the checkout last.
\* Only a commit of another branch, or one after the checkpoint, can move them.
LinesHold ==
    \A b \in Branches : \A t \in Imported(b) : \A m \in MethodsIn(t, Visible) :
        NotMoved(b, indexed[b], m) =>
            {l[2] : l \in {k \in lines : k[1] = VersionKey(m)}} = {m.method.start_line}

\* No two methods of a checkout share a version key.  KeysApart of SourceFiles has
\* what the parsers promise of it: a Java method repeats another one's key only in a
\* method, an enum or an anonymous class; the text is a part of this key.
VersionsApart ==
    \A t \in Trees : \A m, n \in MethodsIn(t, Visible) : VersionKey(m) = VersionKey(n) => m = n

\* What a call means in the source language when one class of the project has
\* the name of the receiver's type: its methods of that name, or those it
\* inherits from the class it extends.
ReceiverClasses(t, m, call) ==
    {d \in ClassesIn(t, Visible) :
        LanguageOf[d.path] = LanguageOf[m.path] /\ Named(d, ReceiverType(m, call))}

OwnMethods(t, d, name) ==
    {c \in MethodsIn(t, Visible) : ClassKey(c) = ClassKey(d) /\ c.method.name = name}

Inherited(t, d, name) ==
    UNION {OwnMethods(t, c, name) :
              c \in {e \in ClassesIn(t, Visible) :
                        /\ LanguageOf[e.path] = LanguageOf[d.path]
                        /\ \E ref \in d.class.references :
                              ref.type = "EXTENDS" /\ Named(e, ref.name)}}

Meant(t, m, call) ==
    LET ds == ReceiverClasses(t, m, call) IN
    IF ds = {} \/ Several(ds) THEN {}
    ELSE UNION {LET own == OwnMethods(t, d, call.name) IN
                IF own # {} THEN own ELSE Inherited(t, d, call.name) : d \in ds}

\* After an analysis the graph has every method a call of the analysed checkout
\* means, and every endpoint one of its HTTP requests goes to, whatever the
\* other branches save and however the names are narrowed.
KnownTargetsStored ==
    \A b \in Branches : \A t \in Imported(b) : \A m \in MethodsIn(t, Visible) :
        /\ \A call \in m.method.invoked_calls : \A c \in Meant(t, m, call) :
              <<"CALLS", VersionKey(m), MethodKey(c)>> \in relations
        /\ \A route \in m.method.http_calls : \A c \in Exposing(MethodsIn(t, Visible)) :
              RouteKey[route] # None /\ RouteKey[c.method.api_mapping] = RouteKey[route] =>
                 LET e == EndpointKey(c.method.api_mapping) IN
                 /\ <<"HTTP_CALLS", VersionKey(m), e>> \in relations
                 /\ <<"EXPOSES", MethodKey(c), e>> \in relations

\* A checkout links a call whose receiver's class declares the method to that
\* class only, and for certain when there is one such method: namesakes in other
\* classes add nothing.
KnownReceiverExact ==
    \A b \in Branches : \A t \in Imported(b) : \A m \in MethodsIn(t, Visible) :
        \A call \in m.method.invoked_calls :
            LET ds  == ReceiverClasses(t, m, call)
                own == UNION {OwnMethods(t, d, call.name) : d \in ds}
                to  == {e \in EdgesOf(t, Visible) :
                           /\ e.type = "CALLS" /\ e.source = VersionKey(m)
                           /\ e.target[5] = call.name}
                alone == \A other \in m.method.invoked_calls :
                            other.name = call.name => other = call
            IN  own # {} /\ ~Several(ds) /\ alone =>
                    /\ {e.target : e \in to} = {MethodKey(c) : c \in own}
                    /\ \A e \in to : e.ambiguous = Several(own)

\* A call is never linked to a method in another language, although the graph of
\* a repository holds them all and the callers are MethodVersion nodes.
NoCallCrossesLanguages ==
    \A r \in relations : r[1] = "CALLS" => LanguageOf[r[2][2]] = LanguageOf[r[3][2]]

\* When every pushed commit is analysed, a call that is not marked ambiguous goes
\* to the one method the files of the project have for it in some commit: the
\* names are resolved over all files of the project (mappings.py, two stages).
CertainCallsHold ==
    (\A b \in Branches : run[b].pc = "idle" /\ indexed[b] = Len(commits[b])) =>
        \A r \in relations \ ambiguous : r[1] = "CALLS" =>
            \E b \in Branches : \E n \in DOMAIN commits[b] : \E ps \in {Paths, Visible} :
                \E e \in EdgesOf(commits[b][n], ps) : Relation(e) = r /\ ~e.ambiguous
=============================================================================
