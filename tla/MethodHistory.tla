----------------------------- MODULE MethodHistory -----------------------------
(***************************************************************************)
(* The method history of one GitHub repository in Neo4j.                   *)
(*                                                                         *)
(* MethodHistoryIndexer.index walks the first-parent commits after the     *)
(* checkpoint of a registration, oldest first.  Each commit is two         *)
(* transactions: the versions its changed files introduce, then the        *)
(* methods they no longer have.  What it compares a commit with lives in   *)
(* memory only and is rebuilt from the checkpoint's tree by every run.     *)
(* Registrations of several branches, overlapping analyses of one of them  *)
(* and runs that stopped half-way all write into the same graph, to which  *)
(* the GitHub import adds the PARENT edges of every commit.                *)
(*                                                                         *)
(* The key of a method contains the path of its file (graph/identifiers),  *)
(* and a version is a method and the hash of its body, so the indexer's    *)
(* dictionaries by path are functions of the method here.                  *)
(***************************************************************************)
EXTENDS Naturals, FiniteSets

CONSTANTS
    Commits,       \* commits of the repository
    Parent,        \* Parent[c]: its first parent, None for the root
    MergedParents, \* MergedParents[c]: the other parents of a merge commit
    Ancestors,     \* Ancestors[c]: c and its first-parent ancestors
    Paths,         \* file paths
    Supported,     \* paths with a supported extension (parsers/registry)
    Tree,          \* Tree[c]: the paths of c's files
    Renamed,       \* Renamed[c]: <<old, new>> pairs git diff -M reports
    Methods,       \* method keys
    PathOf,        \* PathOf[m]: the path in the key of m
    Bodies,        \* content hashes of method bodies
    Body,          \* Body[c][m]: the body of m in c's tree, None if absent
    MaxFiles,      \* max_changed_files
    Branches,      \* registrations of the repository, one for each branch
    Jobs,          \* analysis threads (bound: analyses running at a time)
    None

\* A repository has finitely many commits.  Ancestors is the reflexive closure of
\* Parent, root commits have none, and first-parent history is a chain under every
\* commit.
ASSUME HistoryAssumption ==
    /\ IsFiniteSet(Commits)
    /\ Parent \in [Commits -> Commits \cup {None}]
    /\ MergedParents \in [Commits -> SUBSET Commits]
    /\ Ancestors \in [Commits -> SUBSET Commits]
    /\ \A c \in Commits :
          /\ c \in Ancestors[c]
          /\ Parent[c] = None => Ancestors[c] = {c}
          /\ Parent[c] # None => /\ Ancestors[c] = {c} \cup Ancestors[Parent[c]]
                                 /\ c \notin Ancestors[Parent[c]]
          /\ \A d \in Ancestors[c] :
                /\ Ancestors[d] \subseteq Ancestors[c]
                /\ c \in Ancestors[d] => c = d
                /\ \A e \in Ancestors[c] : d \in Ancestors[e] \/ e \in Ancestors[d]

\* git reports a rename only from a path that is gone to a path that is new.
ASSUME TreeAssumption ==
    /\ Supported \subseteq Paths
    /\ Tree \in [Commits -> SUBSET Paths]
    /\ PathOf \in [Methods -> Supported]
    /\ Body \in [Commits -> [Methods -> Bodies \cup {None}]]
    /\ Renamed \in [Commits -> SUBSET (Paths \X Paths)]
    /\ MaxFiles \in Nat
    /\ None \notin Commits \cup Bodies
    /\ \A c \in Commits :
          /\ \A m \in Methods : Body[c][m] # None => PathOf[m] \in Tree[c]
          /\ \A r \in Renamed[c] :
                /\ Parent[c] # None
                /\ r[1] \in Tree[Parent[c]] \ Tree[c]
                /\ r[2] \in Tree[c] \ Tree[Parent[c]]

VARIABLES
    head,        \* head[b]: the commit the branch points to on GitHub
    checkpoint,  \* checkpoint[b]: history_indexed_sha of the registration
    job,         \* the analysis threads
    versions,    \* HAS_VERSION: <<method, body>>
    introduced,  \* INTRODUCED_IN: <<method, body, commit>>
    derived,     \* DERIVED_FROM: <<method, newer body, older body>>
    deletedIn,   \* DELETED_IN: <<method, commit>>
    parents      \* PARENT: <<commit, parent>>

graph == <<versions, introduced, derived, deletedIn, parents>>
vars  == <<head, checkpoint, job, versions, introduced, derived, deletedIn, parents>>

Nothing == [m \in Methods |-> None]

JobPc == {"idle", "history", "clone", "checkpoint", "save", "mark", "snapshot", "finish"}

\* known is file_methods and previous is previous_versions.
Job == [pc : JobPc, branch : Branches \cup {None}, head : Commits \cup {None},
        todo : SUBSET Commits, last : Commits \cup {None},
        known : [Methods -> Bodies \cup {None}],
        previous : [Methods -> Bodies \cup {None}],
        gone : SUBSET Methods]

IdleJob == [pc |-> "idle", branch |-> None, head |-> None, todo |-> {}, last |-> None,
            known |-> Nothing, previous |-> Nothing, gone |-> {}]

Init ==
    /\ head \in [Branches -> Commits]
    /\ checkpoint = [b \in Branches |-> None]
    /\ job = [j \in Jobs |-> IdleJob]
    /\ versions = {} /\ introduced = {} /\ derived = {} /\ deletedIn = {} /\ parents = {}

-----------------------------------------------------------------------------
(* What git and the parser say of a commit *)

Source(c) == IF c = None THEN Nothing ELSE Body[c]
Files(c)  == IF c = None THEN {} ELSE Tree[c]
Upto(c)   == IF c = None THEN {} ELSE Ancestors[c]

\* list_changed_files: renames, then additions, deletions and modifications.
\* Only a change of some method's body matters of a modification.
Changes(c) ==
    LET before == Files(Parent[c])
        from   == {r[1] : r \in Renamed[c]}
        to     == {r[2] : r \in Renamed[c]}
    IN  {[status |-> "R", old |-> r[1], path |-> r[2]] : r \in Renamed[c]}
        \cup {[status |-> "A", old |-> p, path |-> p] : p \in Tree[c] \ (before \cup to)}
        \cup {[status |-> "D", old |-> p, path |-> p] : p \in before \ (Tree[c] \cup from)}
        \cup {[status |-> "M", old |-> p, path |-> p] :
                 p \in {q \in Tree[c] \cap before :
                           \E m \in Methods : PathOf[m] = q
                                           /\ Body[c][m] # Source(Parent[c])[m]}}

SupportedChanges(c) == {ch \in Changes(c) : {ch.old, ch.path} \cap Supported # {}}

\* max_changed_files, and _parse_file on a file renamed to an unsupported name.
CanParse(c) ==
    /\ Cardinality(SupportedChanges(c)) =< MaxFiles
    /\ \A ch \in SupportedChanges(c) : ch.status # "D" => ch.path \in Supported

\* The methods of the files that are parsed again, and of those taken off.
Parsed(c) ==
    {m \in Methods : /\ Body[c][m] # None
                     /\ \E ch \in SupportedChanges(c) : ch.status # "D" /\ ch.path = PathOf[m]}

Popped(c) == {m \in Methods : \E ch \in SupportedChanges(c) : ch.old = PathOf[m]}

-----------------------------------------------------------------------------
(* Analysis threads *)

At(j, pc) == job[j].pc = pc

\* The developers push, or force-push (external).
Push(b, c) ==
    /\ head[b] # c
    /\ head' = [head EXCEPT ![b] = c]
    /\ UNCHANGED <<checkpoint, job, graph>>

\* The registration is deleted and made again; RepositoryLifecycle has the
\* deletion in the middle of an analysis.
Reregister(b) ==
    /\ checkpoint[b] # None
    /\ \A j \in Jobs : job[j].branch # b
    /\ checkpoint' = [checkpoint EXCEPT ![b] = None]
    /\ UNCHANGED <<head, job, graph>>

Start(j, b) ==
    /\ At(j, "idle")
    /\ job' = [job EXCEPT ![j] = [IdleJob EXCEPT !.pc = "history", !.branch = b]]
    /\ UNCHANGED <<head, checkpoint, graph>>

AllParents(c) == MergedParents[c] \cup ({Parent[c]} \ {None})

Reachable(c) ==
    LET within[n \in 0..Cardinality(Commits)] ==
            IF n = 0 THEN {c}
            ELSE LET near == within[n - 1]
                 IN  near \cup UNION {AllParents(d) : d \in near}
    IN  {d \in Commits : d \in within[Cardinality(Commits)]}

\* GitHubHistoryImportService: every commit reachable from the branch with all
\* its parents.
ImportHistory(j) ==
    LET commits == Reachable(head[job[j].branch]) IN
    /\ At(j, "history")
    /\ parents' = parents \cup UNION {{c} \X AllParents(c) : c \in commits}
    /\ job' = [job EXCEPT ![j] = [@ EXCEPT !.pc = "clone"]]
    /\ UNCHANGED <<head, checkpoint, versions, introduced, derived, deletedIn>>

Clone(j) ==
    /\ At(j, "clone")
    /\ job' = [job EXCEPT ![j] = [@ EXCEPT !.pc = "checkpoint", !.head = head[job[j].branch]]]
    /\ UNCHANGED <<head, checkpoint, graph>>

NextPc(todo) == IF todo = {} THEN "snapshot" ELSE "save"

\* Mutant: a resumed run starts with no methods.
EmptyBaseline(after) == Nothing

\* _load_baseline: the methods of the checkpoint's tree, when there is one.
Baseline(after) == Source(after)

\* list_first_parent_commits: the commits after the checkpoint, which has to be
\* on the cloned branch.
LoadBaseline(j) ==
    LET after == checkpoint[job[j].branch]
        todo  == Ancestors[job[j].head] \ Upto(after)
    IN
    /\ At(j, "checkpoint")
    /\ after # None => after \in Ancestors[job[j].head]
    /\ job' = [job EXCEPT ![j] = [@ EXCEPT !.pc = NextPc(todo), !.todo = todo, !.last = after,
                                           !.known = Baseline(after),
                                           !.previous = Baseline(after)]]
    /\ UNCHANGED <<head, checkpoint, graph>>

\* Mutant: every method of a changed file counts as introduced by the commit.
AllParsed(j, c) == Parsed(c)

\* introduced_version_ids: the file had no such method, or another body of it.
Introduced(j, c) == {m \in Parsed(c) : job[j].known[m] # Body[c][m]}

\* Mutant: a rename keeps the methods of the old path.
GoneWithFiles(j, c) ==
    {m \in Methods : /\ job[j].known[m] # None
                     /\ m \notin Parsed(c)
                     /\ \E ch \in SupportedChanges(c) : ch.status # "R" /\ ch.old = PathOf[m]}

\* deleted_method_keys.
Gone(j, c) == {m \in Popped(c) : job[j].known[m] # None /\ m \notin Parsed(c)}

\* Mutant: DERIVED_FROM also links a version to itself.
AncestryOfAll(j, c) ==
    {<<m, Body[c][m], job[j].previous[m]>> :
        m \in {n \in Parsed(c) : job[j].previous[n] # None}}

\* _with_version_ancestry: the version this run saw last, if it is another one.
Ancestry(j, c) ==
    {<<m, Body[c][m], job[j].previous[m]>> :
        m \in {n \in Parsed(c) : job[j].previous[n] \notin {None, Body[c][n]}}}

Oldest(j, c) == c \in job[j].todo /\ Ancestors[c] \cap job[j].todo = {c}

\* One iteration of index(), up to the commit of CodeGraphRepository.save.
SaveCommit(j, c) ==
    /\ At(j, "save")
    /\ Oldest(j, c)
    /\ CanParse(c)
    /\ versions' = versions \cup {<<m, Body[c][m]>> : m \in Parsed(c)}
    /\ introduced' = introduced \cup {<<m, Body[c][m], c>> : m \in Introduced(j, c)}
    /\ derived' = derived \cup Ancestry(j, c)
    /\ parents' = parents \cup ({c} \X ({Parent[c]} \ {None}))
    /\ job' = [job EXCEPT ![j] =
          [@ EXCEPT !.pc = "mark", !.last = c,
                    !.known = [m \in Methods |-> IF m \in Parsed(c) THEN Body[c][m]
                                                 ELSE IF m \in Popped(c) THEN None
                                                 ELSE job[j].known[m]],
                    !.previous = [m \in Methods |-> IF m \in Parsed(c) THEN Body[c][m]
                                                    ELSE job[j].previous[m]],
                    !.gone = Gone(j, c)]]
    /\ UNCHANGED <<head, checkpoint, deletedIn>>

\* mark_methods_deleted: a transaction of its own, for methods in the graph.
MarkDeleted(j) ==
    LET rest == job[j].todo \ {job[j].last}
        gone == {m \in job[j].gone : \E b \in Bodies : <<m, b>> \in versions}
    IN
    /\ At(j, "mark")
    /\ deletedIn' = deletedIn \cup (gone \X {job[j].last})
    /\ job' = [job EXCEPT ![j] = [@ EXCEPT !.pc = NextPc(rest), !.todo = rest, !.gone = {}]]
    /\ UNCHANGED <<head, checkpoint, versions, introduced, derived, parents>>

\* import_repository with persist_version_history=False: no INTRODUCED_IN.
SaveSnapshot(j) ==
    /\ At(j, "snapshot")
    /\ versions' = versions \cup
          {<<m, Body[job[j].head][m]>> : m \in {n \in Methods : Body[job[j].head][n] # None}}
    /\ job' = [job EXCEPT ![j] = [@ EXCEPT !.pc = "finish"]]
    /\ UNCHANGED <<head, checkpoint, introduced, derived, deletedIn, parents>>

\* The final commit of run_pipeline; chunks come in between.  It sets the GitHub
\* id as well, which only one registration can have.
Finish(j) ==
    /\ At(j, "finish")
    /\ \A b \in Branches \ {job[j].branch} : checkpoint[b] = None
    /\ checkpoint' = [checkpoint EXCEPT ![job[j].branch] = job[j].last]
    /\ job' = [job EXCEPT ![j] = IdleJob]
    /\ UNCHANGED <<head, graph>>

\* Git, the parser, Neo4j or the database raises, or the process ends: what the
\* run knew is lost and the graph keeps what was committed.  It is the only way
\* on for a commit that cannot be parsed and a checkpoint off the branch.
Fail(j) ==
    /\ job[j].pc # "idle"
    /\ job' = [job EXCEPT ![j] = IdleJob]
    /\ UNCHANGED <<head, checkpoint, graph>>

Next ==
    \/ \E b \in Branches : Reregister(b) \/ \E c \in Commits : Push(b, c)
    \/ \E j \in Jobs :
          \/ \E b \in Branches : Start(j, b)
          \/ ImportHistory(j) \/ Clone(j) \/ LoadBaseline(j)
          \/ \E c \in Commits : SaveCommit(j, c)
          \/ MarkDeleted(j) \/ SaveSnapshot(j) \/ Finish(j) \/ Fail(j)

Spec == Init /\ [][Next]_vars

-----------------------------------------------------------------------------
(* Reading the history *)

\* The commits a path of exactly n PARENT edges leads to from c.
Steps(c) ==
    LET at[n \in 0..Cardinality(Commits)] ==
            IF n = 0 THEN {c}
            ELSE LET near == at[n - 1]
                 IN  {e[2] : e \in {f \in parents : f[1] \in near}}
    IN  at

\* The answers the events of m at commit c can give.
EventsOf(m, c) ==
    {b \in Bodies : <<m, b>> \in versions /\ <<m, b, c>> \in introduced}
        \cup (IF <<m, c>> \in deletedIn THEN {None} ELSE {})

\* find_method_version_at_commit: an event at the least distance; LIMIT 1 picks
\* any one of several.
VersionsFound(m, c) ==
    LET at     == Steps(c)
        events == [n \in DOMAIN at |-> UNION {EventsOf(m, d) : d \in at[n]}]
        hits   == {n \in DOMAIN at : events[n] # {}}
    IN  IF hits = {} THEN {None}
        ELSE events[CHOOSE n \in hits : \A k \in hits : n =< k]

-----------------------------------------------------------------------------
(* Properties *)

\* Every variable keeps the shape the code gives it.
TypeOK ==
    /\ head \in [Branches -> Commits]
    /\ checkpoint \in [Branches -> Commits \cup {None}]
    /\ job \in [Jobs -> Job]
    /\ versions \subseteq Methods \X Bodies
    /\ introduced \subseteq Methods \X Bodies \X Commits
    /\ derived \subseteq Methods \X Bodies \X Bodies
    /\ deletedIn \subseteq Methods \X Commits
    /\ parents \subseteq Commits \X Commits

Before(c) == Source(Parent[c])

\* The history shown for a method (changed_by_history) names only commits that
\* changed or removed it against their first parent, although overlapping and
\* resumed runs of several branches write the events of the same commits.
EventsAreChanges ==
    /\ \A e \in introduced :
          e[2] = Body[e[3]][e[1]] /\ e[2] # Before(e[3])[e[1]]
    /\ \A e \in deletedIn :
          Body[e[2]][e[1]] = None /\ Before(e[2])[e[1]] # None

\* Every change up to a checkpoint is in the graph: index() commits one commit
\* at a time, and its deletions in a second transaction, and may stop anywhere.
EventsComplete(c) ==
    \A m \in Methods : Body[c][m] # Before(c)[m] =>
        IF Body[c][m] = None THEN <<m, c>> \in deletedIn
                             ELSE /\ <<m, Body[c][m]>> \in versions
                                  /\ <<m, Body[c][m], c>> \in introduced

CheckpointHistoryComplete ==
    \A b \in Branches : checkpoint[b] # None =>
        \A c \in Ancestors[checkpoint[b]] : EventsComplete(c)

\* The last body of m on the first-parent chain below c.
LastBodies(m, c) ==
    LET seen == {d \in Ancestors[c] \ {c} : Body[d][m] # None} IN
    {Body[d][m] : d \in {e \in seen : seen \subseteq Ancestors[e]}}

\* DERIVED_FROM links a version only to the body its method had last on the
\* first-parent chain, whichever run wrote it and wherever that run began.
DerivedFromLastBody ==
    \A d \in derived :
        \E c \in Commits : /\ Body[c][d[1]] = d[2]
                           /\ d[2] # d[3]
                           /\ d[3] \in LastBodies(d[1], c)

\* Why they hold.  A version of every method of c's tree is stored.
Stored(c) == \A m \in Methods : Body[c][m] # None => <<m, Body[c][m]>> \in versions

\* SaveCommit has written what the commit introduces.
IntroductionsOf(c) ==
    \A m \in Methods : Body[c][m] \notin {None, Before(c)[m]} => <<m, Body[c][m], c>> \in introduced

\* b is the body m had last on the chain that ends in c.
LastSeen(b, m, c) ==
    \E e \in Upto(c) : /\ Body[e][m] = b
                       /\ \A d \in Upto(c) : Body[d][m] # None => d \in Ancestors[e]

Walking(j) == job[j].pc \in {"save", "mark", "snapshot", "finish"}

\* The commits still to save.
Left(j) == IF At(j, "mark") THEN job[j].todo \ {job[j].last} ELSE job[j].todo

\* What a run that has loaded its baseline can rely on.
StandsAt(j) ==
    LET last == job[j].last IN
    /\ last # None => last \in Ancestors[job[j].head]
    /\ Left(j) = Ancestors[job[j].head] \ Upto(last)
    /\ job[j].known = Source(last)
    /\ \A m \in Methods : job[j].previous[m] # None => LastSeen(job[j].previous[m], m, last)
    /\ \A c \in Upto(last) : Stored(c)
    /\ \A c \in Upto(last) \ {last} : EventsComplete(c)
    /\ IF At(j, "mark")
       THEN /\ IntroductionsOf(last)
            /\ job[j].gone = {m \in Methods : Body[last][m] = None /\ Before(last)[m] # None}
       ELSE last # None => EventsComplete(last)

\* A run stands at a commit of its branch, knows that commit's tree, and
\* everything up to there is stored: nothing another run does changes that.
RunInv ==
    /\ \A b \in Branches : \A c \in Upto(checkpoint[b]) : EventsComplete(c) /\ Stored(c)
    /\ \A j \in Jobs : Walking(j) => StandsAt(j)

\* find_method_version_at_commit gives the method version that was valid at the
\* commit, for every commit up to a checkpoint.
VersionAtCommit ==
    \A b \in Branches : checkpoint[b] # None =>
        \A c \in Ancestors[checkpoint[b]], m \in Methods :
            VersionsFound(m, c) = {Body[c][m]}
=============================================================================
