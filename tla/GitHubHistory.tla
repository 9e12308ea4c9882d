----------------------------- MODULE GitHubHistory -----------------------------
(***************************************************************************)
(* The import of a repository's GitHub history: GitHubHistoryCollector     *)
(* reads lists page by page and items one by one from a repository that    *)
(* goes on changing, CommitFileChangeRepository writes the changed files   *)
(* of the commits to PostgreSQL in one transaction, and                    *)
(* GitHubHistoryGraphRepository writes the rest to Neo4j, one transaction  *)
(* for each statement.  The imports of several branches, repeated and      *)
(* failed ones, share both stores and have no locks but those that         *)
(* PostgreSQL takes.                                                       *)
(*                                                                         *)
(* A node is <<label, identifier>> and a relationship <<type, source,      *)
(* target>>.  The Repository and its HAS_... relationships, developers and *)
(* AUTHORED have the form of the others and are left out.  Of the          *)
(* properties of nodes the state of an issue is kept, of those of          *)
(* relationships fileChangeId.                                             *)
(***************************************************************************)
EXTENDS Naturals, Sequences, FiniteSets

CONSTANTS
    Imports,      \* the threads that run import_history
    Branches,     \* the registered branches
    Issues, Pulls,   \* numbers; GitHub numbers both in one sequence
    Commits, Paths,
    Log,          \* Log[c]: GitHub's list of the commits reachable from c
    Parents,      \* Parents[c]: the parents of c
    Files,        \* Files[c]: the paths c changes, in GitHub's order
    PullCommits,  \* PullCommits[p]: the commits of pull request p, its head last
    MergeOf,      \* MergeOf[c]: n if a line of c's message begins with
                  \* "Merge pull request #n", None if there is no such line
    MergedAs,     \* MergedAs[p]: the commits p may be merged with
    PageSize,     \* per_page
    Initial,      \* bound: the repositories to start from
    MaxEvents,    \* bound: changes of the repository and starts of imports
    None

Numbers == Issues \cup Pulls
Rows    == Commits \X Paths    \* the unique key of commit_file_changes

\* The numbers in a title and a body, after a closing keyword or without one.
Texts == SUBSET ({"closes", "mentions"} \X Issues)

\* items: issues and pull requests that are not deleted, newest first; last: the
\* number given last; merged[p]: the commit p was merged with.
Repository ==
    [items : Seq(Numbers), last : Nat, closed : SUBSET Issues, text : [Pulls -> Texts],
     merged : [Pulls -> Commits \cup {None}], head : [Branches -> Commits]]

ASSUME ImportAssumption ==
    /\ Initial \subseteq Repository
    /\ Log \in [Commits -> Seq(Commits)]
    /\ Parents \in [Commits -> SUBSET Commits]
    /\ Files \in [Commits -> Seq(Paths)]
    /\ PullCommits \in [Pulls -> Seq(Commits)]
    /\ MergeOf \in [Commits -> Pulls \cup {None}]
    /\ MergedAs \in [Pulls -> SUBSET Commits]
    /\ Numbers \subseteq Nat /\ Issues \cap Pulls = {}
    /\ PageSize \in Nat \ {0}
    /\ None \notin Nat \cup {"open", "closed"} \cup Commits \cup Branches
                    \cup [id : Nat, hunks : SUBSET Imports]

VARIABLES
    github,    \* the repository on GitHub
    events,    \* changes and starts of imports
    job,       \* job[j]: import j
    change,    \* change[r]: the committed row of commit_file_changes, or None
    lastId,    \* the sequence that numbers these rows
    nodes, relations, state, changeId,   \* Neo4j
    steady,    \* history variable: what was on GitHub throughout import j
    ever       \* history variable: the relations that GitHub has ever shown

world  == <<github, events>>
tables == <<change, lastId>>
graph  == <<nodes, relations, state, changeId>>
vars   == <<github, events, job, change, lastId, nodes, relations,
            state, changeId, steady, ever>>

SeqSet(s) == {s[n] : n \in DOMAIN s}

\* SelectSeq for membership, as a function: the provers know nothing of SelectSeq.
OnlyIn(list, S) ==
    LET kept[n \in 0..Len(list)] ==
            IF n = 0 THEN <<>>
            ELSE LET before == kept[n - 1]
                 IN  IF list[n] \in S THEN Append(before, list[n]) ELSE before
    IN  kept[Len(list)]

Node(label, x) == <<label, x>>
Relation(type, source, x, target, y) == <<type, Node(source, x), Node(target, y)>>

-----------------------------------------------------------------------------
(* The repository g on GitHub *)

IssuesOf(g) == {n \in Issues : n \in SeqSet(g.items)}
PullsOf(g)  == {n \in Pulls : n \in SeqSet(g.items)}

\* A pull request's merge commit exists once it is merged: of a history that ends in
\* head, merged names those there are.
MergesMade(head, merged) ==
    \A p \in Pulls : SeqSet(Log[head]) \cap MergedAs[p] \subseteq {merged[p]}

ASSUME MergeAssumption ==
    \A g \in Initial : /\ \A b \in Branches : MergesMade(g.head[b], g.merged)
                       /\ \A p \in Pulls : g.merged[p] # None => p \in PullsOf(g)

\* GitHub numbers upwards and lists the newest first, and commits in one order
\* whichever head it starts from.
Newest(g) ==
    \A m, n \in DOMAIN g.items : /\ g.items[n] <= g.last
                                 /\ m < n => g.items[n] < g.items[m]

ASSUME OrderAssumption ==
    /\ \A g \in Initial : Newest(g)
    /\ \A c \in Commits : \A h \in SeqSet(Log[c]) : \A n \in DOMAIN Log[h] :
          \E m \in DOMAIN Log[c] : n <= m /\ Log[c][m] = Log[h][n]

StateOf(g, i) == IF i \in g.closed THEN "closed" ELSE "open"

\* extract_issue_references
Resolved(text)   == {i \in Issues : <<"closes", i>> \in text}
Referenced(text) == {i \in Issues : <<"mentions", i>> \in text} \ Resolved(text)

PointsTo(g) == {Relation("POINTS_TO", "Branch", b, "Commit", g.head[b]) : b \in Branches}

LinksOf(p, text) ==
    {Relation("RESOLVES", "PullRequest", p, "Issue", i) : i \in Resolved(text)}
    \cup {Relation("REFERENCES", "PullRequest", p, "Issue", i) : i \in Referenced(text)}

Containing(p, cs) == {Relation("CONTAINS_COMMIT", "PullRequest", p, "Commit", c) : c \in cs}

\* The relationships that g shows and that another state may not show.
Shown(g) ==
    PointsTo(g) \cup UNION {LinksOf(p, g.text[p])
                            \cup Containing(p, SeqSet(PullCommits[p]) \cup ({g.merged[p]} \ {None})) :
                                p \in PullsOf(g)}

\* A merge commit that can be told by its message and its parents.
IsMergeOf(c, p) == MergeOf[c] = p /\ \E x, y \in Parents[c] : x # y

\* What an import of b has to store if g does not change meanwhile: what is
\* reachable from b, and all issues, pull requests and branches.  The API may omit
\* merge_commit_sha; then the message of a commit has to tell.
Present(g, b) ==
    LET log    == SeqSet(Log[g.head[b]])
        pulls  == PullsOf(g)
        issues == IssuesOf(g)
    IN  (UNION {{Node("Issue", i), Relation("STATE", "Issue", i, "state", StateOf(g, i))} :
                    i \in issues})
        \cup {Node("PullRequest", p) : p \in pulls}
        \cup {Node("Branch", x) : x \in Branches}
        \cup {Node("Commit", c) : c \in log}
        \cup PointsTo(g)
        \cup {x \in UNION {LinksOf(p, g.text[p]) : p \in pulls} : x[3][2] \in issues}
        \cup (UNION {Containing(p, SeqSet(PullCommits[p])
                                   \cup {c \in log : g.merged[p] = c /\ IsMergeOf(c, p)}) :
                        p \in pulls})
        \cup (UNION {{Relation("PARENT", "Commit", c, "Commit", q) : q \in Parents[c]}
                     \cup {Relation("CHANGED", "Commit", c, "File", f) : f \in SeqSet(Files[c])} :
                         c \in log})

-----------------------------------------------------------------------------
(* An import.  doc.pulls holds what was read of a pull request, once for   *)
(* every time it was listed; tx holds the rows that are written and not    *)
(* committed, and their locks.                                             *)

EmptyDoc == [heads |-> {}, issues |-> [i \in Issues |-> None], pulls |-> {},
             contains |-> {}, changed |-> {}, commits |-> {}]

Idle == [pc |-> "idle", branch |-> None, page |-> 1, todo |-> <<>>, doc |-> EmptyDoc,
         rows |-> <<>>, found |-> None, tx |-> [r \in Rows |-> None],
         ids |-> [r \in Rows |-> None], op |-> 1]

Ended == {"idle", "done"}

Init ==
    /\ github \in Initial
    /\ events = 0
    /\ job = [j \in Imports |-> Idle]
    /\ change = [r \in Rows |-> None] /\ lastId = 0
    /\ nodes = {} /\ relations = {}
    /\ state = [i \in Issues |-> None]
    /\ changeId = [r \in Rows |-> None]
    /\ steady = [j \in Imports |-> {}]
    /\ ever = Shown(github)

-----------------------------------------------------------------------------
(* GitHub: what developers do between two requests *)

Touches(x, ns) == x \in ns \/ (Len(x) = 3 /\ (x[2] \in ns \/ x[3] \in ns))

\* moved[j]: what import j may miss in the list it is reading, because it moves
\* to a page that was read already.
Becomes(g, moved) ==
    /\ events < MaxEvents
    /\ events' = events + 1
    /\ github' = g
    /\ ever' = ever \cup Shown(g)
    /\ steady' = [j \in Imports |->
                     IF job[j].pc \in Ended THEN {}
                     ELSE {x \in steady[j] \cap Present(g, job[j].branch) : ~Touches(x, moved[j])}]
    /\ UNCHANGED <<job, tables, graph>>

NothingMoves == [j \in Imports |-> {}]

OpenIssue ==
    /\ github.last + 1 \in Issues
    /\ Becomes([github EXCEPT !.items = <<github.last + 1>> \o @, !.last = @ + 1], NothingMoves)

OpenPull ==
    /\ github.last + 1 \in Pulls
    /\ Becomes([github EXCEPT !.items = <<github.last + 1>> \o @, !.last = @ + 1], NothingMoves)

CloseOrReopen(i) ==
    /\ i \in IssuesOf(github)
    /\ Becomes([github EXCEPT !.closed = IF i \in @ THEN @ \ {i} ELSE @ \cup {i}], NothingMoves)

\* Deleted or transferred: every older item moves up.
DeleteIssue(i) ==
    /\ i \in IssuesOf(github)
    /\ Becomes([github EXCEPT !.items = OnlyIn(@, Numbers \ {i})],
               [j \in Imports |-> IF job[j].pc = "issues" /\ job[j].page > 1
                                  THEN {Node("Issue", n) : n \in {m \in Issues : m < i}} ELSE {}])

EditPull(p) ==
    /\ p \in PullsOf(github)
    /\ \E t \in {g.text[p] : g \in Initial} \ {github.text[p]} :
          Becomes([github EXCEPT !.text[p] = t], NothingMoves)

\* A merge commit, or the commit of a squash, goes onto the base branch.
MergePull(p, b) ==
    /\ p \in PullsOf(github) /\ github.merged[p] = None
    /\ \E c \in MergedAs[p] :
          /\ github.head[b] \in SeqSet(Log[c]) \ {c}
          /\ MergesMade(c, [github.merged EXCEPT ![p] = c])
          /\ Becomes([github EXCEPT !.merged[p] = c, !.head[b] = c], NothingMoves)

\* A push, and a force-push if the old head is not in the new list.
Push(b) ==
    \E c \in Commits \ {github.head[b]} :
        /\ MergesMade(c, github.merged)
        /\ Becomes([github EXCEPT !.head[b] = c],
                   [j \in Imports |->
                       IF /\ job[j].pc = "commits" /\ job[j].page > 1
                          /\ github.head[b] \notin SeqSet(Log[c])
                       THEN {Node("Commit", x) : x \in Commits} ELSE {}])

GitHubStep ==
    \/ OpenIssue \/ OpenPull
    \/ \E i \in Issues : CloseOrReopen(i) \/ DeleteIssue(i)
    \/ \E p \in Pulls : EditPull(p) \/ \E b \in Branches : MergePull(p, b)
    \/ \E b \in Branches : Push(b)

-----------------------------------------------------------------------------
(* GitHubHistoryCollector.collect: one action for each request.  A list is *)
(* read on while GitHub links a next page.                                 *)

Page(list, n) ==
    SubSeq(list, (n - 1) * PageSize + 1, IF n * PageSize < Len(list) THEN n * PageSize ELSE Len(list))

HasNext(list, n) == n * PageSize < Len(list)

Finished(j, pc) == job[j].pc = pc /\ job[j].todo = <<>>

\* A page of the list: what it has in S is left for the requests of the details.
Reads(j, list, S, here, next) ==
    LET n == job[j].page IN
    job' = [job EXCEPT ![j].pc   = IF HasNext(list, n) THEN here ELSE next,
                       ![j].page = IF HasNext(list, n) THEN n + 1 ELSE 1,
                       ![j].todo = @ \o OnlyIn(Page(list, n), S)]

\* Another import may overwrite the properties of nodes while both run.
WithoutStates(S) == {x \in S : x[1] # "STATE"}

Start(j, b) ==
    LET alone == \A k \in Imports : job[k].pc \in Ended IN
    /\ job[j].pc \in Ended
    /\ events < MaxEvents
    /\ events' = events + 1
    /\ job' = [job EXCEPT ![j] = [Idle EXCEPT !.pc = "branches", !.branch = b]]
    /\ steady' = [k \in Imports |->
                     IF k = j /\ alone THEN Present(github, b)
                     ELSE WithoutStates(IF k = j THEN Present(github, b) ELSE steady[k])]
    /\ UNCHANGED <<github, tables, graph, ever>>

ListBranches(j) ==
    /\ job[j].pc = "branches"
    /\ job' = [job EXCEPT ![j].pc = "issues",
                          ![j].doc.heads = {<<b, github.head[b]>> : b \in Branches}]

\* The endpoint lists pull requests as well, and list_issues takes them out.
ListIssues(j) ==
    /\ job[j].pc = "issues"
    /\ Reads(j, github.items, Issues, "issues", "issue")

\* A deleted issue is an error, as is every other failed request: see Fail.
GetIssue(j) ==
    /\ job[j].pc = "issue" /\ job[j].todo # <<>>
    /\ LET i == Head(job[j].todo) IN
       /\ i \in IssuesOf(github)
       /\ job' = [job EXCEPT ![j].todo = Tail(@), ![j].doc.issues[i] = StateOf(github, i)]

ListPulls(j) ==
    /\ job[j].pc = "pulls" \/ Finished(j, "issue")
    /\ Reads(j, OnlyIn(github.items, Pulls), Pulls, "pulls", "pull")

GetPull(j) ==
    /\ job[j].pc = "pull" /\ job[j].todo # <<>>
    /\ \E sha \in {None, github.merged[Head(job[j].todo)]} :
          LET p    == Head(job[j].todo)
              pull == [number |-> p, text |-> github.text[p], merge_commit_sha |-> sha]
          IN  job' = [job EXCEPT ![j].pc = "pull_commits", ![j].doc.pulls = @ \cup {pull}]

ListPullCommits(j) ==
    /\ job[j].pc = "pull_commits"
    /\ LET p == Head(job[j].todo) IN
       job' = [job EXCEPT ![j].pc = "pull_files",
                          ![j].doc.contains = @ \cup {<<p, c>> : c \in SeqSet(PullCommits[p])}]

ListPullFiles(j) ==
    /\ job[j].pc = "pull_files"
    /\ LET p     == Head(job[j].todo)
           files == UNION {SeqSet(Files[c]) : c \in SeqSet(PullCommits[p])}
       IN  job' = [job EXCEPT ![j].pc = "pull", ![j].todo = Tail(@),
                              ![j].doc.changed = @ \cup {<<p, f>> : f \in files}]

ListCommits(j) ==
    /\ job[j].pc = "commits" \/ Finished(j, "pull")
    /\ Reads(j, Log[github.head[job[j].branch]], Commits, "commits", "commit")

GetCommit(j) ==
    /\ job[j].pc = "commit" /\ job[j].todo # <<>>
    /\ LET c == Head(job[j].todo) IN
       job' = [job EXCEPT ![j].todo = Tail(@),
                          ![j].doc.commits = @ \cup {c},
                          ![j].rows = @ \o [n \in DOMAIN Files[c] |-> <<c, Files[c][n]>>]]

Collect(j) ==
    /\ \/ ListBranches(j) \/ ListIssues(j) \/ GetIssue(j) \/ ListPulls(j)
       \/ GetPull(j) \/ ListPullCommits(j) \/ ListPullFiles(j)
       \/ ListCommits(j) \/ GetCommit(j)
    /\ UNCHANGED <<world, tables, graph, steady, ever>>

-----------------------------------------------------------------------------
(* CommitFileChangeRepository.upsert_changes: a transaction (READ          *)
(* COMMITTED) of a read and a flush for every changed file.                *)

Visible(j, r) == IF job[j].tx[r] # None THEN job[j].tx[r] ELSE change[r]

LockedByOther(j, r) == \E k \in Imports \ {j} : job[k].tx[r] # None

\* _find
Find(j) ==
    /\ Finished(j, "commit") \/ job[j].pc = "find"
    /\ job[j].rows # <<>>
    /\ job' = [job EXCEPT ![j].pc = "flush", ![j].found = Visible(j, Head(job[j].rows))]
    /\ UNCHANGED <<world, tables, graph, steady, ever>>

\* Mutant: the hunks are loaded with the row (selectinload).
HunksFound(j, r) == job[j].found.hunks

\* change.hunks is loaded when it is cleared, after the flush of the new values.
HunksLoaded(j, r) == Visible(j, r).hunks

\* The INSERT or the UPDATE waits for a transaction that has written the row, and
\* an INSERT then fails if that one has committed.  hunks names the imports
\* that inserted the hunks.
Flush(j) ==
    LET r        == Head(job[j].rows)
        inserted == [id |-> lastId + 1, hunks |-> {j}]
        updated  == [id |-> job[j].found.id,
                     hunks |-> (Visible(j, r).hunks \ HunksLoaded(j, r)) \cup {j}]
        written(row) == job' = [job EXCEPT ![j].pc = "find", ![j].rows = Tail(@), ![j].found = None,
                                           ![j].tx[r] = row, ![j].ids[r] = row.id]
    IN  /\ job[j].pc = "flush"
        /\ ~LockedByOther(j, r)
        /\ \/ /\ job[j].found = None /\ change[r] = None
              /\ written(inserted)
              /\ lastId' = lastId + 1
           \/ /\ job[j].found # None
              /\ written(updated)
              /\ UNCHANGED lastId
        /\ UNCHANGED <<world, change, graph, steady, ever>>

\* Mutant: a commit that fails is logged and the import goes on.
CommitOrGoOn(j) ==
    /\ Finished(j, "commit") \/ job[j].pc = "find"
    /\ job[j].rows = <<>>
    /\ change' \in {change, [r \in Rows |-> Visible(j, r)]}
    /\ job' = [job EXCEPT ![j].pc = "save", ![j].tx = [r \in Rows |-> None]]
    /\ UNCHANGED <<world, lastId, graph, steady, ever>>

CommitChanges(j) ==
    /\ Finished(j, "commit") \/ job[j].pc = "find"
    /\ job[j].rows = <<>>
    /\ change' = [r \in Rows |-> Visible(j, r)]
    /\ job' = [job EXCEPT ![j].pc = "save", ![j].tx = [r \in Rows |-> None]]
    /\ UNCHANGED <<world, lastId, graph, steady, ever>>

-----------------------------------------------------------------------------
(* GitHubGraphMapper.map: what a document becomes.  A link to an issue is  *)
(* mapped whether or not the issue was collected.                          *)

\* Mutant: the message is enough.
MergesByMessage(d, p) == {c \in d.commits : MergeOf[c] = p}

\* _merge_commit_shas_by_pull_request
MergesOf(d, p) == {c \in d.commits : IsMergeOf(c, p)}

RelatedCommits(d, pull) ==
    {x[2] : x \in {y \in d.contains : y[1] = pull.number}}
    \cup ({pull.merge_commit_sha} \ {None})
    \cup MergesOf(d, pull.number)

MappedNodes(d) ==
    LET commits == {h[2] : h \in d.heads} \cup d.commits
                   \cup (UNION {RelatedCommits(d, pull) : pull \in d.pulls})
                   \cup (UNION {Parents[c] : c \in d.commits})
        files   == {x[2] : x \in d.changed} \cup (UNION {SeqSet(Files[c]) : c \in d.commits})
    IN  {Node("Branch", h[1]) : h \in d.heads}
        \cup {Node("Issue", i) : i \in {n \in Issues : d.issues[n] # None}}
        \cup {Node("PullRequest", pull.number) : pull \in d.pulls}
        \cup {Node("Commit", c) : c \in commits}
        \cup {Node("File", f) : f \in files}

MappedRelations(d) ==
    {Relation("POINTS_TO", "Branch", h[1], "Commit", h[2]) : h \in d.heads}
    \cup (UNION {Containing(pull.number, RelatedCommits(d, pull))
                 \cup LinksOf(pull.number, pull.text) : pull \in d.pulls})
    \cup {Relation("CHANGED", "PullRequest", x[1], "File", x[2]) : x \in d.changed}
    \cup (UNION {{Relation("PARENT", "Commit", c, "Commit", q) : q \in Parents[c]}
                 \cup {Relation("CHANGED", "Commit", c, "File", f) : f \in SeqSet(Files[c])} :
                     c \in d.commits})

-----------------------------------------------------------------------------
(* GitHubHistoryGraphRepository.save: the nodes of a label, then the       *)
(* relationships of a type between two labels, one statement each.         *)

\* Mutant: the links to issues before the issues.
LinksFirst ==
    <<<<"Branch">>, <<"PullRequest">>, <<"Commit">>, <<"File">>,
      <<"Branch", "POINTS_TO", "Commit">>,
      <<"PullRequest", "CONTAINS_COMMIT", "Commit">>,
      <<"PullRequest", "CHANGED", "File">>,
      <<"PullRequest", "RESOLVES", "Issue">>,
      <<"PullRequest", "REFERENCES", "Issue">>,
      <<"Commit", "PARENT", "Commit">>,
      <<"Commit", "CHANGED", "File">>, <<"Issue">>>>

Operations ==
    <<<<"Branch">>, <<"Issue">>, <<"PullRequest">>, <<"Commit">>, <<"File">>,
      <<"Branch", "POINTS_TO", "Commit">>,
      <<"PullRequest", "CONTAINS_COMMIT", "Commit">>,
      <<"PullRequest", "CHANGED", "File">>,
      <<"PullRequest", "RESOLVES", "Issue">>,
      <<"PullRequest", "REFERENCES", "Issue">>,
      <<"Commit", "PARENT", "Commit">>,
      <<"Commit", "CHANGED", "File">>>>

QueryOf(r) == <<r[2][1], r[1], r[3][1]>>

\* MERGE of the nodes, SET of their properties.
SaveNodes(j, label) ==
    LET d == job[j].doc IN
    /\ nodes' = nodes \cup {n \in MappedNodes(d) : n[1] = label}
    /\ state' = IF label = "Issue"
                THEN [i \in Issues |-> IF d.issues[i] # None THEN d.issues[i] ELSE state[i]]
                ELSE state
    /\ UNCHANGED <<relations, changeId>>

\* MATCH of both ends, MERGE of the relationship, SET of its properties.
SaveRelations(j, query) ==
    LET d     == job[j].doc
        batch == {r \in MappedRelations(d) : /\ QueryOf(r) = query
                                             /\ r[2] \in nodes /\ r[3] \in nodes}
        isChange(r) == Relation("CHANGED", "Commit", r[1], "File", r[2]) \in batch
    IN  /\ relations' = relations \cup batch
        /\ changeId' = [r \in Rows |-> IF isChange(r) /\ job[j].ids[r] # None
                                       THEN job[j].ids[r] ELSE changeId[r]]
        /\ UNCHANGED <<nodes, state>>

\* The statements that have rows; the others are not sent.
Sent(d) == {<<n[1]>> : n \in MappedNodes(d)} \cup {QueryOf(r) : r \in MappedRelations(d)}

SaveStatement(j) ==
    /\ job[j].pc = "save"
    /\ \E sent \in {Sent(job[j].doc)} :
          LET query == Operations[job[j].op]
              later == {n \in (job[j].op + 1)..Len(Operations) : Operations[n] \in sent}
          IN  /\ IF Len(query) = 1 THEN SaveNodes(j, query[1]) ELSE SaveRelations(j, query)
              /\ job' = [job EXCEPT ![j] =
                           IF later = {} THEN [Idle EXCEPT !.pc = "done"]
                           ELSE [@ EXCEPT !.op = CHOOSE n \in later : \A m \in later : n <= m]]
    /\ UNCHANGED <<world, tables, steady, ever>>

\* A request, the transaction (with a rollback) or a statement fails, or the process
\* ends: what was committed stays.
Fail(j) ==
    /\ job[j].pc \notin Ended
    /\ job' = [job EXCEPT ![j] = Idle]
    /\ UNCHANGED <<world, tables, graph, steady, ever>>

ImportStep(j) ==
    \/ \E b \in Branches : Start(j, b)
    \/ Collect(j)
    \/ Find(j) \/ Flush(j) \/ CommitChanges(j)
    \/ SaveStatement(j)
    \/ Fail(j)

Next == GitHubStep \/ \E j \in Imports : ImportStep(j)

Spec == Init /\ [][Next]_vars
-----------------------------------------------------------------------------
(* Properties *)

Stored(x) ==
    CASE Len(x) = 2       -> x \in nodes
      [] x[1] = "STATE"   -> state[x[2][2]] = x[3][2]
      [] OTHER            -> x \in relations

\* An import that was completed has stored all that was on GitHub throughout it and
\* not moved between the pages of a list, though lists were read page by
\* page while items came and went, and other imports stopped half-way or ran
\* beside it.
StableIsStored ==
    \A j \in Imports : job[j].pc = "done" => \A x \in steady[j] : Stored(x)

\* A commit with two parents whose message names a pull request merged it.
MessagesTrue == \A c \in Commits, p \in Pulls : IsMergeOf(c, p) => c \in MergedAs[p]

\* No link to an issue, a commit of a pull request or a head of a branch is stored
\* that GitHub never showed.
NothingInvented ==
    \A r \in relations :
        r[1] \in {"POINTS_TO", "CONTAINS_COMMIT", "RESOLVES", "REFERENCES"} => r \in ever

\* Where the graph names a row of commit_file_changes, the row is there and is that
\* of the commit and the file: patches are committed before their ids are used.
ChangeIdsResolve ==
    \A r \in Rows : changeId[r] # None => /\ change[r] # None
                                          /\ change[r].id = changeId[r]

\* However imports overlap, a change has the hunks of one import.
HunksOfOneImport ==
    \A r \in Rows : change[r] # None => Cardinality(change[r].hunks) = 1

=============================================================================
