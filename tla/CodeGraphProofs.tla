---------------------------- MODULE CodeGraphProofs ----------------------------
(***************************************************************************)
(* The shape of the code graph, and the languages of its calls, for every  *)
(* set of trees, branches and commits.  A save adds the relations of one   *)
(* document, so a property of every document (EdgeEnds, CallLanguage) is   *)
(* one of the store; it overwrites the lines of the document's versions,   *)
(* so they hold only as far as no later document has other ones.           *)
(***************************************************************************)
EXTENDS CodeGraph, TLAPS

\* A document relates only nodes it contains: every declaration, name and route
\* an edge leads to is one of the same files.
LEMMA EdgeEnds ==
    ASSUME NEW t, NEW ps, NEW e \in EdgesOf(t, ps)
    PROVE  e.source \in NodesOf(t, ps) /\ e.target \in NodesOf(t, ps)
<1> DEFINE cs == ClassesIn(t, ps)
           ms == MethodsIn(t, ps)
<1>1. \A d \in cs : /\ d.path \in {q \in ps : t[q] # None}
                    /\ ClassKey(d) \in NodesOf(t, ps)
                    /\ d.package # None => PackageKey(d.package) \in NodesOf(t, ps)
  BY DEF ClassesIn, NodesOf
<1>2. \A m \in ms : /\ MethodKey(m) \in NodesOf(t, ps)
                    /\ VersionKey(m) \in NodesOf(t, ps)
  BY DEF NodesOf
<1>3. \A m \in ms : \E d \in cs : ClassKey(m) = ClassKey(d)
  BY DEF MethodsIn, ClassKey
<1>4. \A m \in Exposing(ms) : m \in ms /\ EndpointKey(m.method.api_mapping) \in NodesOf(t, ps)
  BY DEF NodesOf, Exposing
<1>5. \A p \in {q \in ps : t[q] # None} : FileKey(p) \in NodesOf(t, ps)
  BY DEF NodesOf
<1>6. CASE e \in StructureOf(t, ps)
  <2>1. CASE \E d \in cs : e = Edge("DECLARES", FileKey(d.path), ClassKey(d), FALSE)
    BY <2>1, <1>1, <1>5 DEF Edge
  <2>2. CASE \E d \in cs : d.package # None /\ e = Edge("CONTAINS", PackageKey(d.package), ClassKey(d), FALSE)
    BY <2>2, <1>1 DEF Edge
  <2>3. CASE \E m \in ms : e = Edge("CONTAINS", ClassKey(m), MethodKey(m), FALSE)
    BY <2>3, <1>1, <1>2, <1>3 DEF Edge
  <2>4. CASE \E m \in ms : e = Edge("HAS_VERSION", MethodKey(m), VersionKey(m), FALSE)
    BY <2>4, <1>2 DEF Edge
  <2>5. CASE \E m \in Exposing(ms) :
                e = Edge("EXPOSES", MethodKey(m), EndpointKey(m.method.api_mapping), FALSE)
    BY <2>5, <1>2, <1>4 DEF Edge
  <2>6. QED BY <1>6, <2>1, <2>2, <2>3, <2>4, <2>5 DEF StructureOf
<1>7. CASE \E d \in cs : \E ref \in d.class.references : e \in ClassEdges(t, ps, d, ref)
  <2>1. PICK d \in cs : \E ref \in d.class.references : e \in ClassEdges(t, ps, d, ref)
    BY <1>7
  <2>2. PICK ref \in d.class.references : e \in ClassEdges(t, ps, d, ref)
    BY <2>1
  <2>3. PICK c \in ClassCandidates(t, ps, d, ref) :
            e = Edge(ref.type, ClassKey(d), ClassKey(c), Several(ClassCandidates(t, ps, d, ref)))
    BY <2>2 DEF ClassEdges
  <2>4. c \in cs
    BY DEF ClassCandidates
  <2>5. QED BY <2>3, <2>4, <1>1 DEF Edge
<1>8. CASE \E m \in ms : \E call \in m.method.invoked_calls : e \in CallEdges(t, ps, m, call)
  <2>1. PICK m \in ms : \E call \in m.method.invoked_calls : e \in CallEdges(t, ps, m, call)
    BY <1>8
  <2>2. PICK call \in m.method.invoked_calls : e \in CallEdges(t, ps, m, call)
    BY <2>1
  <2>3. PICK c \in CallCandidates(t, ps, m, call) :
            e = Edge("CALLS", VersionKey(m), MethodKey(c), Several(CallCandidates(t, ps, m, call)))
    BY <2>2 DEF CallEdges
  <2>4. c \in ms
    BY DEF CallCandidates, Narrow
  <2>5. QED BY <2>3, <2>4, <1>2 DEF Edge
<1>9. CASE \E m \in ms : \E route \in m.method.http_calls : e \in HttpEdges(t, ps, m, route)
  <2>1. PICK m \in ms : \E route \in m.method.http_calls : e \in HttpEdges(t, ps, m, route)
    BY <1>9
  <2>2. PICK route \in m.method.http_calls : e \in HttpEdges(t, ps, m, route)
    BY <2>1
  <2>3. PICK c \in EndpointCandidates(t, ps, route) :
            e = Edge("HTTP_CALLS", VersionKey(m), EndpointKey(c.method.api_mapping),
                     Several(EndpointCandidates(t, ps, route)))
    BY <2>2 DEF HttpEdges
  <2>4. c \in Exposing(ms)
    BY DEF EndpointCandidates
  <2>5. QED BY <2>3, <2>4, <1>2, <1>4 DEF Edge
<1>10. QED BY <1>6, <1>7, <1>8, <1>9 DEF EdgesOf

\* A call of a document stays within the language of its caller.
LEMMA CallLanguage ==
    ASSUME NEW t \in Trees, NEW ps \in SUBSET Paths,
           NEW e \in EdgesOf(t, ps), e.type = "CALLS"
    PROVE  LanguageOf[e.source[2]] = LanguageOf[e.target[2]]
<1>1. e \notin StructureOf(t, ps)
  BY DEF StructureOf, Edge
<1>2. ASSUME NEW d \in ClassesIn(t, ps), NEW ref \in d.class.references
      PROVE  e \notin ClassEdges(t, ps, d, ref)
  <2>1. PICK p \in {q \in ps : t[q] # None} : d.class \in t[p].classes
    BY DEF ClassesIn
  <2>2. ref.type # "CALLS"
    BY <2>1, ReferenceAssumption
  <2>3. QED BY <2>2 DEF ClassEdges, Edge
<1>3. ASSUME NEW m \in MethodsIn(t, ps), NEW route \in m.method.http_calls
      PROVE  e \notin HttpEdges(t, ps, m, route)
  BY DEF HttpEdges, Edge
<1>4. PICK m \in MethodsIn(t, ps) : \E call \in m.method.invoked_calls : e \in CallEdges(t, ps, m, call)
  BY <1>1, <1>2, <1>3 DEF EdgesOf
<1>5. PICK call \in m.method.invoked_calls : e \in CallEdges(t, ps, m, call)
  BY <1>4
<1>6. PICK c \in CallCandidates(t, ps, m, call) :
          e = Edge("CALLS", VersionKey(m), MethodKey(c), Several(CallCandidates(t, ps, m, call)))
  BY <1>5 DEF CallEdges
<1>7. LanguageOf[c.path] = LanguageOf[m.path]
  BY DEF CallCandidates, Narrow, EdgeLanguage
<1>8. e.source[2] = m.path /\ e.target[2] = c.path
  BY <1>6 DEF Edge, VersionKey, MethodKey
<1>9. QED BY <1>7, <1>8

\* Saving a document keeps the lines single, the relations between stored nodes and
\* the calls within their languages.
GraphOK == OneLine /\ RelationsJoinNodes /\ NoCallCrossesLanguages

LEMMA SaveKeepsGraph ==
    ASSUME GraphOK, NEW t \in Trees, NEW ps \in SUBSET Paths, Save(t, ps)
    PROVE  GraphOK'
<1> DEFINE E == EdgesOf(t, ps)
           L == LinesIn(t, ps)
<1>1. /\ nodes' = nodes \cup NodesOf(t, ps) /\ relations' = relations \cup Relations(E)
      /\ ambiguous' = ambiguous \cup Flags(E)
      /\ lines' = {l \in lines : \A k \in L : k[1] # l[1]} \cup L
  BY DEF Save, MergeFlags, SetProperties
<1>2. \A k, l \in L : k[1] = l[1] => k = l
  BY DEF Save, NoConflicts, LinesIn
<1> HIDE DEF L
<1>3. OneLine'
  BY <1>1, <1>2 DEF GraphOK, OneLine
<1>4. \A r \in Relations(E) : \E e \in E : r[1] = e.type /\ r[2] = e.source /\ r[3] = e.target
  BY DEF Relations, Relation
<1>5. \A e \in E : e.source \in NodesOf(t, ps) /\ e.target \in NodesOf(t, ps)
  BY EdgeEnds
<1>6. \A e \in E : e.type = "CALLS" => LanguageOf[e.source[2]] = LanguageOf[e.target[2]]
  BY CallLanguage
<1>7. Flags(E) \subseteq Relations(E)
  BY DEF Flags, Relations
<1> HIDE DEF E
<1>8. RelationsJoinNodes'
  BY <1>1, <1>4, <1>5, <1>7 DEF GraphOK, RelationsJoinNodes
<1>9. NoCallCrossesLanguages'
  <2>1. ASSUME NEW r \in Relations(E), r[1] = "CALLS"
        PROVE  LanguageOf[r[2][2]] = LanguageOf[r[3][2]]
    BY <1>4, <1>6, <2>1
  <2>2. QED BY <1>1, <2>1 DEF GraphOK, NoCallCrossesLanguages
<1>10. QED BY <1>3, <1>8, <1>9 DEF GraphOK

LEMMA RunFields ==
    ASSUME NEW r \in Run
    PROVE  r.head \in Nat /\ r.next \in Nat \ {0}
BY DEF Run

LEMMA BoundsAreNat == \A b \in Branches : MaxCommits[b] \in Nat
BY GraphAssumption

\* What RunsOK says of one branch.
LEMMA RunFacts ==
    ASSUME RunsOK, NEW b \in Branches
    PROVE  /\ commits[b] \in Seq(Trees) /\ Len(commits[b]) \in Nat
           /\ indexed[b] \in Nat /\ indexed[b] <= Len(commits[b])
           /\ Len(commits[b]) <= MaxCommits[b]
           /\ run[b] \in Run
           /\ run[b].head \in Nat /\ run[b].next \in Nat \ {0}
           /\ run[b].head <= Len(commits[b])
           /\ run[b].pc # "idle" => /\ run[b].head >= 1 /\ indexed[b] < run[b].next
                                    /\ run[b].next <= run[b].head + 1
<1>1. commits[b] \in Seq(Trees) /\ indexed[b] \in Nat /\ run[b] \in Run
  BY DEF RunsOK
<1>2. Len(commits[b]) \in Nat
  BY <1>1
<1>3. run[b].head \in Nat /\ run[b].next \in Nat \ {0}
  BY <1>1, RunFields
<1>4. QED BY <1>1, <1>2, <1>3 DEF RunsOK

\* An analysis reads only commits that were pushed.
LEMMA RunsStep ==
    ASSUME RunsOK, [Next]_vars
    PROVE  RunsOK'
<1>1. CASE UNCHANGED vars
  BY <1>1 DEF vars, RunsOK
<1>2. ASSUME NEW b \in Branches, NEW t \in Trees, Push(b, t)
      PROVE  RunsOK'
  <2>1. commits' = [commits EXCEPT ![b] = Append(commits[b], t)]
    BY <1>2 DEF Push
  <2>2. Append(commits[b], t) \in Seq(Trees) /\ Len(Append(commits[b], t)) = Len(commits[b]) + 1
    BY DEF RunsOK
  <2>3. Len(commits[b]) \in Nat /\ Len(commits[b]) < MaxCommits[b]
    BY <1>2 DEF RunsOK, Push
  <2> DEFINE longer == Append(commits[b], t)
  <2>4. commits' \in [Branches -> Seq(Trees)]
    BY <2>1, <2>2 DEF RunsOK
  <2>5. \A c \in Branches : commits'[c] = IF c = b THEN longer ELSE commits[c]
    BY <2>1 DEF RunsOK
  <2>6. UNCHANGED <<indexed, run>>
    BY <1>2 DEF Push, graph
  <2> HIDE DEF longer
  <2>7. ASSUME NEW c \in Branches
        PROVE  /\ Len(commits'[c]) <= MaxCommits[c]
               /\ Len(commits[c]) <= Len(commits'[c])
               /\ Len(commits[c]) \in Nat /\ Len(commits'[c]) \in Nat
    <3>1. Len(commits[c]) \in Nat /\ Len(commits[c]) <= MaxCommits[c] /\ MaxCommits[c] \in Nat
      BY RunFacts, BoundsAreNat
    <3>2. Len(longer) = Len(commits[b]) + 1
      BY <2>2 DEF longer
    <3>3. CASE c = b
      BY <3>1, <3>2, <3>3, <2>3, <2>5
    <3>4. CASE c # b
      BY <3>1, <3>4, <2>5
    <3>5. QED BY <3>3, <3>4
  <2>8. ASSUME NEW c \in Branches
        PROVE  /\ Len(commits'[c]) <= MaxCommits[c]
               /\ indexed[c] <= Len(commits'[c])
               /\ run[c].head <= Len(commits'[c])
               /\ run[c].pc # "idle" => /\ run[c].head >= 1 /\ indexed[c] < run[c].next
                                        /\ run[c].next <= run[c].head + 1
    BY <2>7, RunFacts
  <2>9. QED BY <2>4, <2>6, <2>8 DEF RunsOK
<1>3. ASSUME NEW b \in Branches, Start(b)
      PROVE  RunsOK'
  <2> DEFINE new == [pc |-> "working", head |-> Len(commits[b]), next |-> indexed[b] + 1]
  <2>1. run' = [run EXCEPT ![b] = new] /\ UNCHANGED <<commits, indexed>>
    BY <1>3 DEF Start, graph
  <2>2. commits[b] \in Seq(Trees) /\ commits[b] # <<>> /\ indexed[b] \in Nat
    BY <1>3 DEF Start, RunsOK
  <2>3. Len(commits[b]) \in Nat /\ Len(commits[b]) >= 1
    BY <2>2
  <2>4. new \in Run /\ new.head = Len(commits[b]) /\ new.next = indexed[b] + 1
    BY <2>2, <2>3 DEF Run
  <2> HIDE DEF new
  <2>5. run' \in [Branches -> Run] /\ \A c \in Branches : run'[c] = IF c = b THEN new ELSE run[c]
    BY <2>1, <2>4 DEF RunsOK
  <2>6. QED BY <2>1, <2>2, <2>3, <2>4, <2>5 DEF RunsOK
<1>4. ASSUME NEW b \in Branches, IndexCommit(b)
      PROVE  RunsOK'
  <2> DEFINE n == run[b].next
             new == [run[b] EXCEPT !.next = n + 1]
  <2>1. /\ run[b] \in Run /\ n \in Nat \ {0} /\ n <= run[b].head
        /\ run[b].head <= Len(commits[b]) /\ run[b].head \in Nat
    BY <1>4, RunFacts DEF IndexCommit
  <2>5. run' = [run EXCEPT ![b] = new] /\ UNCHANGED <<commits, indexed>>
    BY <1>4 DEF IndexCommit
  <2>6. /\ new \in Run /\ new.head = run[b].head /\ new.pc = run[b].pc
        /\ new.next = n + 1
    <3>1. n + 1 \in Nat \ {0}
      BY <2>1
    <3>2. QED BY <2>1, <3>1 DEF Run
  <2> HIDE DEF new
  <2>7. run' \in [Branches -> Run] /\ \A c \in Branches : run'[c] = IF c = b THEN new ELSE run[c]
    BY <2>5, <2>6 DEF RunsOK
  <2>8. QED BY <2>1, <2>5, <2>6, <2>7 DEF RunsOK
<1>5. ASSUME NEW b \in Branches, ImportSnapshot(b)
      PROVE  RunsOK'
  <2> DEFINE n == run[b].head
             new == [run[b] EXCEPT !.pc = "finish"]
  <2>1. run[b] \in Run /\ n \in Nat /\ n >= 1 /\ n <= Len(commits[b])
    BY <1>5, RunFacts DEF ImportSnapshot
  <2>5. run' = [run EXCEPT ![b] = new] /\ UNCHANGED <<commits, indexed>>
    BY <1>5 DEF ImportSnapshot
  <2>6. /\ new \in Run /\ new.head = run[b].head /\ new.next = run[b].next
        /\ run[b].pc # "idle"
    BY <1>5, <2>1 DEF Run, ImportSnapshot
  <2> HIDE DEF new
  <2>7. run' \in [Branches -> Run] /\ \A c \in Branches : run'[c] = IF c = b THEN new ELSE run[c]
    BY <2>5, <2>6 DEF RunsOK
  <2>8. QED BY <2>1, <2>5, <2>6, <2>7 DEF RunsOK
<1>6. ASSUME NEW b \in Branches, Finish(b)
      PROVE  RunsOK'
  <2>1. run[b].head \in Nat /\ run[b].head <= Len(commits[b])
    BY RunFacts
  <2>2. IdleRun \in Run /\ IdleRun.pc = "idle" /\ IdleRun.head = 0
    BY DEF IdleRun, Run
  <2>3. QED BY <1>6, <2>1, <2>2 DEF Finish, graph, RunsOK
<1>7. ASSUME NEW b \in Branches, Fail(b)
      PROVE  RunsOK'
  <2>1. IdleRun \in Run /\ IdleRun.pc = "idle" /\ IdleRun.head = 0
    BY DEF IdleRun, Run
  <2>2. Len(commits[b]) \in Nat
    BY DEF RunsOK
  <2>3. QED BY <1>7, <2>1, <2>2 DEF Fail, graph, RunsOK
<1>8. ASSUME NEW b \in Branches, Reregister(b)
      PROVE  RunsOK'
  <2>1. Len(commits[b]) \in Nat /\ 0 <= Len(commits[b])
    BY RunFacts
  <2>2. QED BY <1>8, <2>1 DEF Reregister, graph, RunsOK
<1>9. QED BY <1>1, <1>2, <1>3, <1>4, <1>5, <1>6, <1>7, <1>8 DEF Next

\* A save merges a pushed commit that was not saved before the checkpoint, or the
\* checkout of the head.
SavedNow(c, k, ps) ==
    /\ c \in Branches /\ k \in 1 .. Len(commits[c]) /\ ps \in SUBSET Paths
    /\ Save(commits[c][k], ps) /\ UNCHANGED <<commits, indexed>>
    /\ run[c].pc = "working" /\ k >= indexed[c]
    /\ k > indexed[c] \/ ps = Discovered(c, k)

LEMMA SavesPushed ==
    ASSUME RunsOK, [Next]_vars
    PROVE  UNCHANGED graph \/ \E c, k, ps : SavedNow(c, k, ps)
<1>1. ASSUME NEW c \in Branches, IndexCommit(c)
      PROVE  SavedNow(c, run[c].next, Changed(c, run[c].next))
  <2>1. run[c].next \in 1 .. Len(commits[c]) /\ run[c].next > indexed[c] /\ run[c].next >= indexed[c]
    BY <1>1, RunFacts DEF IndexCommit
  <2>2. Changed(c, run[c].next) \in SUBSET Paths
    BY DEF Changed
  <2>3. QED BY <1>1, <2>1, <2>2 DEF IndexCommit, SavedNow
<1>2. ASSUME NEW c \in Branches, ImportSnapshot(c)
      PROVE  SavedNow(c, run[c].head, Discovered(c, run[c].head))
  <2>1. run[c].head \in 1 .. Len(commits[c]) /\ run[c].head >= indexed[c]
    BY <1>2, RunFacts DEF ImportSnapshot
  <2>2. Discovered(c, run[c].head) \in SUBSET Paths
    BY DEF Discovered
  <2>3. QED BY <1>2, <2>1, <2>2 DEF ImportSnapshot, SavedNow
<1>3. QED
  BY <1>1, <1>2 DEF Next, vars, graph, Push, Reregister, Start, Finish, Fail

LEMMA GraphStep ==
    ASSUME RunsOK, GraphOK, [Next]_vars
    PROVE  GraphOK'
<1>1. CASE UNCHANGED graph
  BY <1>1 DEF graph, GraphOK, OneLine, RelationsJoinNodes, NoCallCrossesLanguages
<1>2. ASSUME NEW c, NEW k, NEW ps, SavedNow(c, k, ps)
      PROVE  GraphOK'
  <2>1. commits[c] \in Seq(Trees) /\ k \in 1 .. Len(commits[c])
    BY <1>2, RunFacts DEF SavedNow
  <2>2. commits[c][k] \in Trees /\ ps \in SUBSET Paths /\ Save(commits[c][k], ps)
    BY <1>2, <2>1 DEF SavedNow
  <2>3. QED BY <2>2, SaveKeepsGraph
<1>3. QED BY <1>1, <1>2, SavesPushed

LEMMA GraphCorrect == Spec => [](RunsOK /\ GraphOK)
<1>1. Init => RunsOK /\ GraphOK
  BY GraphAssumption
  DEF Init, RunsOK, IdleRun, Run, GraphOK, OneLine, RelationsJoinNodes, NoCallCrossesLanguages
<1>2. RunsOK /\ GraphOK /\ [Next]_vars => RunsOK' /\ GraphOK'
  BY RunsStep, GraphStep
<1>3. QED BY <1>1, <1>2, PTL DEF Spec

\* Every variable keeps its shape, and a relation always joins stored nodes.
THEOREM TypeCorrect == Spec => []TypeOK
<1>1. RunsOK /\ GraphOK => TypeOK
  BY DEF TypeOK, GraphOK
<1>2. QED BY <1>1, GraphCorrect, PTL

\* A stored call never leaves the language of its caller.
THEOREM CallsKeepLanguage == Spec => []NoCallCrossesLanguages
<1>1. RunsOK /\ GraphOK => NoCallCrossesLanguages
  BY DEF GraphOK
<1>2. QED BY <1>1, GraphCorrect, PTL
-----------------------------------------------------------------------------
(* What a finished analysis leaves in the graph *)

\* The relations of the checkout of b's n-th commit are stored, and the lines of its
\* versions where no other commit moves them.
Kept(b, n) ==
    /\ Relations(EdgesOf(commits[b][n], Discovered(b, n))) \subseteq relations
    /\ \A m \in MethodsIn(commits[b][n], Visible) :
          NotMoved(b, n, m) => <<VersionKey(m), m.method.start_line>> \in lines

\* The checkpoint of a branch moves only after the document of the checkout is
\* saved, and nothing takes that away, another registration of it included.
SnapshotsSaved ==
    \A b \in Branches : \A n \in 1 .. Len(commits[b]) :
        indexed[b] = n \/ (run[b].pc = "finish" /\ run[b].head = n) => Kept(b, n)

\* A push adds to the end of a branch.
LEMMA CommitsStay ==
    ASSUME RunsOK, [Next]_vars, NEW b \in Branches, NEW n \in 1 .. Len(commits[b])
    PROVE  n \in 1 .. Len(commits'[b]) /\ commits'[b][n] = commits[b][n]
<1>1. commits[b] \in Seq(Trees)
  BY DEF RunsOK
<1>2. CASE commits' = commits
  BY <1>2
<1>3. ASSUME NEW c \in Branches, NEW t \in Trees, Push(c, t)
      PROVE  n \in 1 .. Len(commits'[b]) /\ commits'[b][n] = commits[b][n]
  <2>1. commits'[b] = IF b = c THEN Append(commits[b], t) ELSE commits[b]
    BY <1>3 DEF Push, RunsOK
  <2>2. Append(commits[b], t)[n] = commits[b][n] /\ n \in 1 .. Len(Append(commits[b], t))
    BY <1>1
  <2>3. QED BY <2>1, <2>2
<1>4. QED
  BY <1>2, <1>3 DEF Next, vars, Reregister, Start, IndexCommit, ImportSnapshot, Finish, Fail

LEMMA MethodsOfMore ==
    ASSUME NEW t, NEW ps, NEW qs, ps \subseteq qs
    PROVE  MethodsIn(t, ps) \subseteq MethodsIn(t, qs)
<1>1. ClassesIn(t, ps) \subseteq ClassesIn(t, qs)
  BY DEF ClassesIn
<1>2. QED BY <1>1 DEF MethodsIn

\* The files that do not exist declare nothing.
LEMMA DiscoveredMethods ==
    ASSUME NEW b, NEW n
    PROVE  MethodsIn(commits[b][n], Discovered(b, n)) = MethodsIn(commits[b][n], Visible)
<1> DEFINE t == commits[b][n]
<1>1. {q \in Discovered(b, n) : t[q] # None} = {q \in Visible : t[q] # None}
  BY DEF Discovered, Visible
<1> HIDE DEF t
<1>2. ClassesIn(t, Discovered(b, n)) = ClassesIn(t, Visible)
  BY <1>1 DEF ClassesIn
<1>3. MethodsIn(t, Discovered(b, n)) = MethodsIn(t, Visible)
  BY <1>2 DEF MethodsIn
<1>4. QED BY <1>3 DEF t

\* A save leaves a line that no method of its document has elsewhere.
LEMMA LineStays ==
    ASSUME NEW t, NEW ps, Save(t, ps), NEW l \in lines,
           \A x \in MethodsIn(t, ps) : VersionKey(x) = l[1] => <<VersionKey(x), x.method.start_line>> = l
    PROVE  l \in lines'
<1>1. lines' = {k \in lines : \A j \in LinesIn(t, ps) : j[1] # k[1]} \cup LinesIn(t, ps)
  BY DEF Save, SetProperties
<1>2. CASE \A j \in LinesIn(t, ps) : j[1] # l[1]
  BY <1>1, <1>2
<1>3. CASE \E j \in LinesIn(t, ps) : j[1] = l[1]
  <2>1. PICK j \in LinesIn(t, ps) : j[1] = l[1]
    BY <1>3
  <2>2. PICK x \in MethodsIn(t, ps) : j = <<VersionKey(x), x.method.start_line>>
    BY DEF LinesIn
  <2>3. j = l
    BY <2>1, <2>2
  <2>4. QED BY <1>1, <2>3
<1>4. QED BY <1>2, <1>3

\* What an analysis left of its checkout stays, whatever is pushed and saved next.
LEMMA KeptStays ==
    ASSUME RunsOK, [Next]_vars, NEW b \in Branches, NEW n \in 1 .. Len(commits[b]), Kept(b, n),
           indexed[b] = n \/ (run[b].pc = "finish" /\ run[b].head = n)
    PROVE  Kept(b, n)'
<1> DEFINE t == commits[b][n]
<1>1. commits'[b][n] = t
  BY CommitsStay
<1>2. relations \subseteq relations'
  BY DEF Next, vars, Push, Reregister, Start, IndexCommit, ImportSnapshot, Finish, Fail, Save, graph
<1>3. Relations(EdgesOf(t, Discovered(b, n))) \subseteq relations
  BY DEF Kept
<1>4. Discovered(b, n)' = Discovered(b, n)
  BY <1>1 DEF Discovered
<1>5. (Relations(EdgesOf(commits[b][n], Discovered(b, n))) \subseteq relations)'
  BY <1>1, <1>2, <1>3, <1>4
<1>6. ASSUME NEW m \in MethodsIn(t, Visible), NotMoved(b, n, m)'
      PROVE  <<VersionKey(m), m.method.start_line>> \in lines'
  <2> DEFINE l == <<VersionKey(m), m.method.start_line>>
  <2>1. ASSUME NEW c \in Branches, NEW k \in 1 .. Len(commits[c]), c # b \/ k > n,
               NEW x \in MethodsIn(commits[c][k], Paths), VersionKey(x) = VersionKey(m)
        PROVE  x.method.start_line = m.method.start_line
    <3>1. k \in 1 .. Len(commits'[c]) /\ commits'[c][k] = commits[c][k]
      BY CommitsStay
    <3>2. commits'[c] \in Seq(Trees)
      BY RunsStep DEF RunsOK
    <3>3. k \in DOMAIN commits'[c]
      BY <3>1, <3>2
    <3>4. QED BY <1>6, <2>1, <3>1, <3>3 DEF NotMoved
  <2>2. l \in lines
    <3>1. \A c \in Branches : DOMAIN commits[c] = 1 .. Len(commits[c])
      BY RunFacts
    <3>2. NotMoved(b, n, m)
      BY <2>1, <3>1 DEF NotMoved
    <3>3. QED BY <3>2 DEF Kept
  <2>3. CASE UNCHANGED graph
    BY <2>2, <2>3 DEF graph
  <2>4. ASSUME NEW c, NEW k, NEW ps, SavedNow(c, k, ps)
        PROVE  l \in lines'
    <3>1. /\ c \in Branches /\ k \in 1 .. Len(commits[c]) /\ ps \subseteq Paths
          /\ Save(commits[c][k], ps) /\ run[c].pc = "working" /\ k >= indexed[c]
          /\ k > indexed[c] \/ ps = Discovered(c, k)
      BY <2>4 DEF SavedNow
    <3>2. CASE c # b \/ k > n
      <4>1. ASSUME NEW x \in MethodsIn(commits[c][k], ps), VersionKey(x) = l[1]
            PROVE  <<VersionKey(x), x.method.start_line>> = l
        <5>1. x \in MethodsIn(commits[c][k], Paths)
          BY <3>1, MethodsOfMore
        <5>2. x.method.start_line = m.method.start_line
          BY <2>1, <3>1, <3>2, <4>1, <5>1
        <5>3. QED BY <4>1, <5>2
      <4>2. QED BY <2>2, <3>1, <4>1, LineStays
    <3>3. CASE c = b /\ ~(k > n)
      <4>1. indexed[b] = n
        BY <3>1, <3>3
      <4>2. k = n /\ ps = Discovered(b, n)
        BY <3>1, <3>3, <4>1
      <4>3. m \in MethodsIn(t, ps)
        BY <4>2, DiscoveredMethods
      <4>4. l \in LinesIn(t, ps)
        BY <4>3 DEF LinesIn
      <4>5. LinesIn(t, ps) \subseteq lines'
        BY <3>1, <3>3, <4>2 DEF Save, SetProperties
      <4>6. QED BY <4>4, <4>5
    <3>4. QED BY <3>2, <3>3
  <2>5. QED BY <2>3, <2>4, SavesPushed
<1>7. QED BY <1>1, <1>5, <1>6 DEF Kept

\* The save of the checkout brings all of it.
LEMMA ImportKeeps ==
    ASSUME NEW b, ImportSnapshot(b), NEW n, n = run[b].head
    PROVE  Kept(b, n)'
<1> DEFINE t == commits[b][n]
<1>1. Save(t, Discovered(b, n)) /\ UNCHANGED commits
  BY DEF ImportSnapshot
<1>2. Discovered(b, n)' = Discovered(b, n)
  BY <1>1 DEF Discovered
<1>3. Relations(EdgesOf(t, Discovered(b, n))) \subseteq relations'
  BY <1>1 DEF Save
<1>4. ASSUME NEW m \in MethodsIn(t, Visible)
      PROVE  <<VersionKey(m), m.method.start_line>> \in lines'
  <2>1. m \in MethodsIn(t, Discovered(b, n))
    BY DiscoveredMethods
  <2>2. <<VersionKey(m), m.method.start_line>> \in LinesIn(t, Discovered(b, n))
    BY <2>1 DEF LinesIn
  <2>3. LinesIn(t, Discovered(b, n)) \subseteq lines'
    BY <1>1 DEF Save, SetProperties
  <2>4. QED BY <2>2, <2>3
<1>5. QED BY <1>1, <1>2, <1>3, <1>4 DEF Kept

LEMMA SnapshotStep ==
    ASSUME RunsOK, SnapshotsSaved, [Next]_vars
    PROVE  SnapshotsSaved'
<1> SUFFICES ASSUME NEW b \in Branches, NEW n \in 1 .. Len(commits'[b]),
                    indexed'[b] = n \/ (run'[b].pc = "finish" /\ run'[b].head = n)
             PROVE  Kept(b, n)'
  BY DEF SnapshotsSaved
<1>1. /\ indexed[b] \in Nat /\ indexed[b] <= Len(commits[b])
      /\ run[b] \in Run /\ run[b].head \in Nat /\ run[b].head <= Len(commits[b])
      /\ Len(commits[b]) \in Nat /\ n \in Nat /\ n >= 1
  <2>1. Len(commits'[b]) \in Nat
    BY RunsStep DEF RunsOK
  <2>2. QED BY <2>1, RunFacts
<1>2. CASE indexed[b] = n \/ (run[b].pc = "finish" /\ run[b].head = n)
  <2>1. n \in 1 .. Len(commits[b])
    BY <1>1, <1>2
  <2>2. QED BY <1>2, <2>1, KeptStays DEF SnapshotsSaved
<1>3. CASE ~(indexed[b] = n \/ (run[b].pc = "finish" /\ run[b].head = n))
  <2>1. ASSUME NEW c \in Branches, ImportSnapshot(c)
        PROVE  c = b /\ n = run[b].head
    BY <1>1, <1>3, <2>1 DEF ImportSnapshot, RunsOK, Run
  <2>2. ~ UNCHANGED vars
    BY <1>3 DEF vars
  <2>3. ASSUME NEW c \in Branches,
               \/ \E t \in Trees : Push(c, t)
               \/ Reregister(c) \/ Start(c) \/ IndexCommit(c) \/ Finish(c) \/ Fail(c)
        PROVE  FALSE
    <3>1. run \in [Branches -> Run] /\ indexed \in [Branches -> Nat]
      BY DEF RunsOK
    <3>2. CASE (\E t \in Trees : Push(c, t)) \/ Reregister(c)
      BY <1>1, <1>3, <3>1, <3>2 DEF Push, Reregister
    <3>3. CASE Start(c)
      BY <1>1, <1>3, <3>1, <3>3 DEF Start
    <3>4. CASE IndexCommit(c)
      <4>1. run'[b].pc = run[b].pc /\ run'[b].head = run[b].head /\ indexed' = indexed
        BY <3>1, <3>4 DEF IndexCommit, Run
      <4>2. QED BY <1>3, <4>1
    <3>5. CASE Finish(c)
      BY <1>1, <1>3, <3>1, <3>5 DEF Finish, IdleRun
    <3>6. CASE Fail(c)
      BY <1>1, <1>3, <3>1, <3>6 DEF Fail, IdleRun
    <3>7. QED BY <2>3, <3>2, <3>3, <3>4, <3>5, <3>6
  <2>4. PICK c \in Branches : ImportSnapshot(c)
    BY <2>2, <2>3 DEF Next
  <2>5. QED BY <2>1, <2>4, ImportKeeps
<1>4. QED BY <1>2, <1>3

\* What a document has of the files that are not excluded, when the files that do not
\* exist are left out.
LEMMA AbsentFilesAddNothing ==
    ASSUME NEW t, NEW ps
    PROVE  EdgesOf(t, {p \in ps : t[p] # None}) = EdgesOf(t, ps)
<1> DEFINE qs == {p \in ps : t[p] # None}
<1>1. ClassesIn(t, qs) = ClassesIn(t, ps)
  <2>1. {q \in qs : t[q] # None} = {q \in ps : t[q] # None}
    OBVIOUS
  <2>2. QED BY <2>1 DEF ClassesIn
<1>2. MethodsIn(t, qs) = MethodsIn(t, ps)
  BY <1>1 DEF MethodsIn
<1>3. StructureOf(t, qs) = StructureOf(t, ps)
  BY <1>1, <1>2 DEF StructureOf
<1>4. \A d, ref : ClassEdges(t, qs, d, ref) = ClassEdges(t, ps, d, ref)
  <2>1. \A d, ref : ClassCandidates(t, qs, d, ref) = ClassCandidates(t, ps, d, ref)
    BY <1>1 DEF ClassCandidates
  <2>2. QED BY <2>1 DEF ClassEdges
<1>5. \A m, call : CallEdges(t, qs, m, call) = CallEdges(t, ps, m, call)
  BY <1>2 DEF CallEdges, CallCandidates
<1>6. \A m, route : HttpEdges(t, qs, m, route) = HttpEdges(t, ps, m, route)
  BY <1>2 DEF HttpEdges, EndpointCandidates
<1> HIDE DEF qs
<1>7. EdgesOf(t, qs) = EdgesOf(t, ps)
  BY <1>1, <1>2, <1>3, <1>4, <1>5, <1>6 DEF EdgesOf
<1>8. QED BY <1>7 DEF qs

\* The relations of the analysed checkout are in the graph.
LEMMA ImportedRelations ==
    ASSUME RunsOK, SnapshotsSaved,
           NEW b \in Branches, NEW t \in Imported(b), NEW e \in EdgesOf(t, Visible)
    PROVE  Relation(e) \in relations /\ t \in Trees
<1>1. indexed[b] # 0 /\ t = commits[b][indexed[b]]
  BY DEF Imported
<1>2. indexed[b] \in 1 .. Len(commits[b]) /\ commits[b] \in Seq(Trees)
  BY <1>1, RunFacts
<1>3. Relations(EdgesOf(t, Discovered(b, indexed[b]))) \subseteq relations
  BY <1>1, <1>2 DEF SnapshotsSaved, Kept
<1>4. Discovered(b, indexed[b]) = {p \in Visible : t[p] # None}
  BY <1>1 DEF Discovered, Visible
<1>5. e \in EdgesOf(t, Discovered(b, indexed[b]))
  BY <1>4, AbsentFilesAddNothing
<1>6. QED BY <1>1, <1>2, <1>3, <1>5 DEF Relations

LEMMA MethodsClass ==
    ASSUME NEW t, NEW ps, NEW m \in MethodsIn(t, ps)
    PROVE  \E d \in ClassesIn(t, ps) : d.path = m.path /\ d.class = m.class /\ m.method \in d.class.methods
BY DEF MethodsIn

\* Classes with the same key have the same names.
LEMMA NamesOfKey ==
    ASSUME NEW t \in Trees, NEW c \in ClassesIn(t, Visible), NEW d \in ClassesIn(t, Visible),
           c.path = d.path, c.class.qualified_name = d.class.qualified_name, NEW type
    PROVE  Named(c, type) <=> Named(d, type)
<1>1. PICK p \in {q \in Visible : t[q] # None} : c.path = p /\ c.class \in t[p].classes
  BY DEF ClassesIn
<1>2. PICK q \in {r \in Visible : t[r] # None} : d.path = q /\ d.class \in t[q].classes
  BY DEF ClassesIn
<1>3. p = q /\ p \in Paths /\ t[p] # None
  BY <1>1, <1>2 DEF Visible
<1>4. c.class.name = d.class.name
  BY <1>1, <1>2, <1>3, NamesAssumption
<1>5. QED BY <1>4 DEF Named

\* A method of a class found by its name is found by that name itself.
LEMMA OwnMethodsNamed ==
    ASSUME NEW t \in Trees, NEW d \in ClassesIn(t, Visible), NEW name,
           NEW c \in OwnMethods(t, d, name), NEW type
    PROVE  /\ c \in MethodsIn(t, Visible) /\ c.method.name = name
           /\ c.path = d.path /\ (Named(c, type) <=> Named(d, type))
<1>1. c \in MethodsIn(t, Visible) /\ c.method.name = name /\ ClassKey(c) = ClassKey(d)
  BY DEF OwnMethods
<1>2. c.path = d.path /\ c.class.qualified_name = d.class.qualified_name
  BY <1>1 DEF ClassKey
<1>3. PICK e \in ClassesIn(t, Visible) : e.path = c.path /\ e.class = c.class
  BY <1>1, MethodsClass
<1>4. Named(e, type) <=> Named(d, type)
  BY <1>2, <1>3, NamesOfKey
<1>5. QED BY <1>1, <1>2, <1>3, <1>4 DEF Named

\* A receiver that a class has the name of has a type.
LEMMA ReceiverHasType ==
    ASSUME NEW t \in Trees, NEW m, NEW call, NEW d \in ReceiverClasses(t, m, call)
    PROVE  /\ ReceiverType(m, call) # None /\ d \in ClassesIn(t, Visible)
           /\ LanguageOf[d.path] = LanguageOf[m.path] /\ Named(d, ReceiverType(m, call))
<1>1. /\ d \in ClassesIn(t, Visible)
      /\ LanguageOf[d.path] = LanguageOf[m.path] /\ Named(d, ReceiverType(m, call))
  BY DEF ReceiverClasses
<1>2. PICK p \in {q \in Visible : t[q] # None} : d.class \in t[p].classes
  BY <1>1 DEF ClassesIn
<1>3. None \notin {d.class.name, d.class.qualified_name}
  BY <1>2, NamesAssumption DEF Visible
<1>4. QED BY <1>1, <1>3 DEF Named

\* What the narrowing of the candidates leaves, when one class has the name of the
\* receiver's type: the methods it declares, if it declares any.
LEMMA NarrowedToClass ==
    ASSUME NEW t \in Trees, NEW m, NEW call,
           NEW d \in ReceiverClasses(t, m, call), ~Several(ReceiverClasses(t, m, call))
    PROVE  LET own == OwnMethods(t, d, call.name) IN
           CallCandidates(t, Visible, m, call) =
              IF own # {} THEN own
              ELSE {c \in MethodsIn(t, Visible) : /\ LanguageOf[c.path] = LanguageOf[m.path]
                                                  /\ c.method.name = call.name}
<1> DEFINE own == OwnMethods(t, d, call.name)
           all == {c \in MethodsIn(t, Visible) : /\ LanguageOf[c.path] = LanguageOf[m.path]
                                                 /\ c.method.name = call.name}
           type == ReceiverType(m, call)
           narrowed == {c \in all : Named(c, type)}
<1>1. /\ type # None /\ d \in ClassesIn(t, Visible)
      /\ LanguageOf[d.path] = LanguageOf[m.path] /\ Named(d, type)
  BY ReceiverHasType
<1>2. own \subseteq narrowed
  <2>1. SUFFICES ASSUME NEW c \in own PROVE c \in narrowed
    OBVIOUS
  <2>2. /\ c \in MethodsIn(t, Visible) /\ c.method.name = call.name
        /\ c.path = d.path /\ (Named(c, type) <=> Named(d, type))
    BY <1>1, OwnMethodsNamed
  <2>3. QED BY <1>1, <2>2
<1>3. narrowed \subseteq own
  <2>1. SUFFICES ASSUME NEW c \in narrowed PROVE c \in own
    OBVIOUS
  <2>2. PICK e \in ClassesIn(t, Visible) : e.path = c.path /\ e.class = c.class
    BY MethodsClass
  <2>3. e \in ReceiverClasses(t, m, call)
    BY <2>2 DEF ReceiverClasses, Named
  <2>4. e = d
    BY <2>3 DEF Several
  <2>5. QED BY <2>2, <2>4 DEF OwnMethods, ClassKey
<1>4. CallCandidates(t, Visible, m, call) = IF narrowed # {} THEN narrowed ELSE all
  BY <1>1 DEF CallCandidates, Narrow, EdgeLanguage
<1>5. QED BY <1>2, <1>3, <1>4

\* However the names are narrowed, what a call means is among its candidates.
LEMMA MeantIsCandidate ==
    ASSUME NEW t \in Trees, NEW m, NEW call, NEW c \in Meant(t, m, call)
    PROVE  c \in CallCandidates(t, Visible, m, call)
<1>1. ReceiverClasses(t, m, call) # {} /\ ~Several(ReceiverClasses(t, m, call))
  BY DEF Meant
<1>2. PICK d \in ReceiverClasses(t, m, call) :
          c \in IF OwnMethods(t, d, call.name) # {} THEN OwnMethods(t, d, call.name)
                ELSE Inherited(t, d, call.name)
  BY <1>1 DEF Meant
<1>3. d \in ClassesIn(t, Visible) /\ LanguageOf[d.path] = LanguageOf[m.path]
  BY ReceiverHasType
<1>4. CASE OwnMethods(t, d, call.name) # {}
  BY <1>1, <1>2, <1>4, NarrowedToClass
<1>5. CASE OwnMethods(t, d, call.name) = {}
  <2>1. PICK e \in ClassesIn(t, Visible) :
            LanguageOf[e.path] = LanguageOf[d.path] /\ c \in OwnMethods(t, e, call.name)
    BY <1>2, <1>5 DEF Inherited
  <2>2. c \in MethodsIn(t, Visible) /\ c.method.name = call.name /\ c.path = e.path
    BY <2>1, OwnMethodsNamed
  <2>3. QED BY <1>1, <1>3, <1>5, <2>1, <2>2, NarrowedToClass
<1>6. QED BY <1>4, <1>5

GraphInv == RunsOK /\ GraphOK /\ SnapshotsSaved

LEMMA GraphInvariant == Spec => []GraphInv
<1>1. Init => SnapshotsSaved
  BY DEF Init, SnapshotsSaved, IdleRun
<1>2. RunsOK /\ SnapshotsSaved /\ [Next]_vars => SnapshotsSaved'
  BY SnapshotStep
<1>3. QED BY <1>1, <1>2, GraphCorrect, PTL DEF Spec, GraphInv

\* The order in which an analysis saves its commits and the checkout, and the
\* checkpoint it begins from: for any trees, branches and interruptions the lines of
\* an analysed checkout are overwritten only by a commit that is not of its past.
THEOREM LinesTrue == Spec => []LinesHold
<1>1. GraphInv => LinesHold
  <2> SUFFICES ASSUME GraphInv, NEW b \in Branches, NEW t \in Imported(b),
                      NEW m \in MethodsIn(t, Visible), NotMoved(b, indexed[b], m)
               PROVE  {l[2] : l \in {k \in lines : k[1] = VersionKey(m)}} = {m.method.start_line}
    BY DEF LinesHold
  <2>1. indexed[b] \in 1 .. Len(commits[b]) /\ t = commits[b][indexed[b]]
    BY RunFacts DEF GraphInv, Imported
  <2>2. <<VersionKey(m), m.method.start_line>> \in lines
    BY <2>1 DEF GraphInv, SnapshotsSaved, Kept
  <2>3. \A k \in lines : k[1] = VersionKey(m) => k = <<VersionKey(m), m.method.start_line>>
    BY <2>2 DEF GraphInv, GraphOK, OneLine
  <2> DEFINE line == <<VersionKey(m), m.method.start_line>>
  <2>4. {k \in lines : k[1] = VersionKey(m)} = {line}
    BY <2>2, <2>3
  <2>5. line[2] = m.method.start_line
    OBVIOUS
  <2> HIDE DEF line
  <2>6. QED BY <2>4, <2>5
<1>2. QED BY <1>1, GraphInvariant, PTL

\* resolve_cross_file_references over the checkout, the save of its document and
\* the checkpoint after it: what a call or a request of an analysed checkout means
\* is in the graph from then on, for any trees, whatever the other branches save
\* and wherever their analyses stop.
THEOREM TargetsStored == Spec => []KnownTargetsStored
<1>1. GraphInv => KnownTargetsStored
  <2> SUFFICES ASSUME GraphInv, NEW b \in Branches, NEW t \in Imported(b),
                      NEW m \in MethodsIn(t, Visible)
               PROVE  /\ \A call \in m.method.invoked_calls : \A c \in Meant(t, m, call) :
                            <<"CALLS", VersionKey(m), MethodKey(c)>> \in relations
                      /\ \A route \in m.method.http_calls : \A c \in Exposing(MethodsIn(t, Visible)) :
                            RouteKey[route] # None /\ RouteKey[c.method.api_mapping] = RouteKey[route] =>
                               LET e == EndpointKey(c.method.api_mapping) IN
                               /\ <<"HTTP_CALLS", VersionKey(m), e>> \in relations
                               /\ <<"EXPOSES", MethodKey(c), e>> \in relations
    BY DEF KnownTargetsStored
  <2>1. t \in Trees /\ \A e \in EdgesOf(t, Visible) : Relation(e) \in relations
    <3>1. indexed[b] \in 1 .. Len(commits[b]) /\ t = commits[b][indexed[b]] /\ commits[b] \in Seq(Trees)
      BY RunFacts DEF GraphInv, Imported
    <3>2. t \in Trees
      BY <3>1
    <3>3. QED BY <3>2, ImportedRelations DEF GraphInv
  <2>2. ASSUME NEW call \in m.method.invoked_calls, NEW c \in Meant(t, m, call)
        PROVE  <<"CALLS", VersionKey(m), MethodKey(c)>> \in relations
    <3> DEFINE e == Edge("CALLS", VersionKey(m), MethodKey(c),
                         Several(CallCandidates(t, Visible, m, call)))
    <3>1. c \in CallCandidates(t, Visible, m, call)
      BY <2>1, MeantIsCandidate
    <3>2. e \in CallEdges(t, Visible, m, call)
      BY <3>1 DEF CallEdges
    <3>3. e \in EdgesOf(t, Visible)
      BY <3>2 DEF EdgesOf
    <3>4. Relation(e) = <<"CALLS", VersionKey(m), MethodKey(c)>>
      BY DEF Relation, Edge
    <3>5. QED BY <2>1, <3>3, <3>4
  <2>3. ASSUME NEW route \in m.method.http_calls, NEW c \in Exposing(MethodsIn(t, Visible)),
               RouteKey[route] # None, RouteKey[c.method.api_mapping] = RouteKey[route]
        PROVE  /\ <<"HTTP_CALLS", VersionKey(m), EndpointKey(c.method.api_mapping)>> \in relations
               /\ <<"EXPOSES", MethodKey(c), EndpointKey(c.method.api_mapping)>> \in relations
    <3> DEFINE e == Edge("HTTP_CALLS", VersionKey(m), EndpointKey(c.method.api_mapping),
                         Several(EndpointCandidates(t, Visible, route)))
               f == Edge("EXPOSES", MethodKey(c), EndpointKey(c.method.api_mapping), FALSE)
    <3>1. e \in HttpEdges(t, Visible, m, route)
      BY <2>3 DEF HttpEdges, EndpointCandidates
    <3>2. e \in EdgesOf(t, Visible)
      BY <3>1 DEF EdgesOf
    <3>3. f \in EdgesOf(t, Visible)
      BY DEF EdgesOf, StructureOf
    <3>4. /\ Relation(e) = <<"HTTP_CALLS", VersionKey(m), EndpointKey(c.method.api_mapping)>>
          /\ Relation(f) = <<"EXPOSES", MethodKey(c), EndpointKey(c.method.api_mapping)>>
      BY DEF Relation, Edge
    <3>5. QED BY <2>1, <3>2, <3>3, <3>4
  <2>4. QED BY <2>2, <2>3
<1>2. QED BY <1>1, GraphInvariant, PTL

\* The only edges of type CALLS are those of calls.
LEMMA CallsOfCalls ==
    ASSUME NEW t \in Trees, NEW e \in EdgesOf(t, Visible), e.type = "CALLS"
    PROVE  \E m \in MethodsIn(t, Visible) : \E call \in m.method.invoked_calls :
              \E c \in CallCandidates(t, Visible, m, call) :
                 e = Edge("CALLS", VersionKey(m), MethodKey(c),
                          Several(CallCandidates(t, Visible, m, call)))
<1>1. e \notin StructureOf(t, Visible)
  BY DEF StructureOf, Edge
<1>2. ASSUME NEW d \in ClassesIn(t, Visible), NEW ref \in d.class.references
      PROVE  e \notin ClassEdges(t, Visible, d, ref)
  <2>1. PICK p \in {q \in Visible : t[q] # None} : d.class \in t[p].classes
    BY DEF ClassesIn
  <2>2. ref.type # "CALLS"
    BY <2>1, ReferenceAssumption DEF Visible
  <2>3. QED BY <2>2 DEF ClassEdges, Edge
<1>3. ASSUME NEW m \in MethodsIn(t, Visible), NEW route \in m.method.http_calls
      PROVE  e \notin HttpEdges(t, Visible, m, route)
  BY DEF HttpEdges, Edge
<1>4. PICK m \in MethodsIn(t, Visible) :
          \E call \in m.method.invoked_calls : e \in CallEdges(t, Visible, m, call)
  BY <1>1, <1>2, <1>3 DEF EdgesOf
<1>5. QED BY <1>4 DEF CallEdges

\* The narrowing by the type of the receiver, for any trees whose version keys are
\* apart: a call on a class that declares the method goes to its methods and to no
\* namesake, and is marked ambiguous just when there are several of them.
THEOREM ReceiversExact ==
    ASSUME VersionsApart
    PROVE  Spec => []KnownReceiverExact
<1>1. RunsOK => KnownReceiverExact
  <2> SUFFICES ASSUME RunsOK, NEW b \in Branches, NEW t \in Imported(b),
                      NEW m \in MethodsIn(t, Visible), NEW call \in m.method.invoked_calls
               PROVE  LET ds  == ReceiverClasses(t, m, call)
                          own == UNION {OwnMethods(t, d, call.name) : d \in ds}
                          to  == {e \in EdgesOf(t, Visible) :
                                     /\ e.type = "CALLS" /\ e.source = VersionKey(m)
                                     /\ e.target[5] = call.name}
                          alone == \A other \in m.method.invoked_calls :
                                      other.name = call.name => other = call
                      IN  own # {} /\ ~Several(ds) /\ alone =>
                              /\ {e.target : e \in to} = {MethodKey(c) : c \in own}
                              /\ \A e \in to : e.ambiguous = Several(own)
    BY DEF KnownReceiverExact
  <2> DEFINE own == UNION {OwnMethods(t, d, call.name) : d \in ReceiverClasses(t, m, call)}
             to  == {e \in EdgesOf(t, Visible) : /\ e.type = "CALLS" /\ e.source = VersionKey(m)
                                                 /\ e.target[5] = call.name}
             link(c) == Edge("CALLS", VersionKey(m), MethodKey(c), Several(own))
  <2> SUFFICES ASSUME own # {}, ~Several(ReceiverClasses(t, m, call)),
                      \A other \in m.method.invoked_calls : other.name = call.name => other = call
               PROVE  {e.target : e \in to} = {MethodKey(c) : c \in own}
                      /\ \A e \in to : e.ambiguous = Several(own)
    OBVIOUS
  <2>1. t \in Trees
    <3>1. indexed[b] \in 1 .. Len(commits[b]) /\ t = commits[b][indexed[b]] /\ commits[b] \in Seq(Trees)
      BY RunFacts DEF Imported
    <3>2. QED BY <3>1
  <2>2. CallCandidates(t, Visible, m, call) = own
    <3>1. PICK d \in ReceiverClasses(t, m, call) : OwnMethods(t, d, call.name) # {}
      OBVIOUS
    <3>2. own = OwnMethods(t, d, call.name)
      BY DEF Several
    <3>3. QED BY <2>1, <3>1, <3>2, NarrowedToClass
  <2>3. to \subseteq {link(c) : c \in own}
    <3>1. SUFFICES ASSUME NEW e \in to PROVE e \in {link(c) : c \in own}
      OBVIOUS
    <3>2. PICK n \in MethodsIn(t, Visible) : \E x \in n.method.invoked_calls :
              \E c \in CallCandidates(t, Visible, n, x) :
                 e = Edge("CALLS", VersionKey(n), MethodKey(c),
                          Several(CallCandidates(t, Visible, n, x)))
      BY <2>1, CallsOfCalls
    <3>3. PICK x \in n.method.invoked_calls :
              \E c \in CallCandidates(t, Visible, n, x) :
                 e = Edge("CALLS", VersionKey(n), MethodKey(c),
                          Several(CallCandidates(t, Visible, n, x)))
      BY <3>2
    <3>4. PICK c \in CallCandidates(t, Visible, n, x) :
              e = Edge("CALLS", VersionKey(n), MethodKey(c),
                       Several(CallCandidates(t, Visible, n, x)))
      BY <3>3
    <3>5. n = m
      BY <2>1, <3>4 DEF Edge, VersionsApart
    <3>6. c.method.name = x.name
      BY DEF CallCandidates, Narrow
    <3>7. e.target[5] = c.method.name
      BY <3>4 DEF Edge, MethodKey
    <3>8. x = call
      BY <3>5, <3>6, <3>7
    <3>9. QED BY <2>2, <3>4, <3>5, <3>8
  <2>4. \A c \in own : link(c) \in to /\ link(c).target = MethodKey(c) /\ link(c).ambiguous = Several(own)
    <3>1. SUFFICES ASSUME NEW c \in own
                   PROVE  /\ link(c) \in to
                          /\ link(c).target = MethodKey(c) /\ link(c).ambiguous = Several(own)
      OBVIOUS
    <3>2. link(c) \in CallEdges(t, Visible, m, call)
      BY <2>2 DEF CallEdges
    <3>3. link(c) \in EdgesOf(t, Visible)
      <4>1. CallEdges(t, Visible, m, call) \subseteq EdgesOf(t, Visible)
        BY DEF EdgesOf
      <4>2. QED BY <3>2, <4>1
    <3>4. c.method.name = call.name
      BY DEF OwnMethods
    <3>5. /\ link(c).type = "CALLS" /\ link(c).source = VersionKey(m)
          /\ link(c).target = MethodKey(c) /\ link(c).ambiguous = Several(own)
          /\ MethodKey(c)[5] = c.method.name
      BY DEF Edge, MethodKey
    <3>6. QED BY <3>3, <3>4, <3>5
  <2> HIDE DEF own, to, link
  <2>5. to = {link(c) : c \in own}
    BY <2>3, <2>4
  <2>6. QED BY <2>4, <2>5
<1>2. TypeOK => RunsOK
  BY DEF TypeOK
<1>3. QED BY <1>1, <1>2, TypeCorrect, PTL
=============================================================================
