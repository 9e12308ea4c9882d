------------------------ MODULE RepositoryPublication ------------------------
(***************************************************************************)
(* What the rest of the program may expect of a registered repository.     *)
(*                                                                         *)
(* A row names a commit as analysed only when everything a question needs  *)
(* of that commit can be searched, and what can be searched stays there.   *)
(* The status is no promise: requests and analyses that overlap may move   *)
(* it in any order.  RepositoryLifecycle implements this specification     *)
(* (RepositoryRefinement) and ChatSessions is built on it.                 *)
(***************************************************************************)
EXTENDS Naturals, FiniteSets

CONSTANTS
    Rows,      \* repository UUIDs
    Keys,      \* (repository_url, branch) pairs
    Repos,     \* GitHub repository ids
    Commits,   \* commits of those repositories
    GithubId,  \* GithubId[k]: the GitHub repository behind the URL of k
    None

ASSUME PublicationAssumption ==
    /\ GithubId \in [Keys -> Repos]
    /\ None \notin Repos \cup Commits

VARIABLES
    row,         \* the repositories table: row[r] is a record, or None
    registered,  \* the UUIDs issued so far
    searchable   \* searchable[g]: commits whose graph and chunks are stored

vars == <<row, registered, searchable>>

Status == {"pending", "indexing", "ready", "failed"}

Repository == [key : Keys, status : Status, gid : Repos \cup {None},
               latest : Commits \cup {None}]

Exists(r) == row[r] # None

Init ==
    /\ row = [r \in Rows |-> None]
    /\ registered = {}
    /\ searchable = [g \in Repos |-> {}]

\* A UUID is issued once, and a (url, branch) pair is registered once.
Register(r, k) ==
    /\ r \notin registered
    /\ \A s \in Rows : Exists(s) => row[s].key # k
    /\ row' = [row EXCEPT ![r] = [key |-> k, status |-> "pending",
                                  gid |-> None, latest |-> None]]
    /\ registered' = registered \cup {r}
    /\ UNCHANGED searchable

\* A retry, the begin of an analysis, or its failure.
SetStatus(r, status) ==
    /\ Exists(r)
    /\ row' = [row EXCEPT ![r].status = status]
    /\ UNCHANGED <<registered, searchable>>

\* An analysis stores more of what its commit needs.
Store(g, commits) ==
    /\ UNCHANGED <<row, registered>>
    /\ searchable' = [searchable EXCEPT ![g] = @ \cup commits]

\* The end of an analysis; a GitHub id belongs to one row.
Publish(r, c) ==
    LET g == GithubId[row[r].key] IN
    /\ Exists(r)
    /\ c \in searchable[g]
    /\ row[r].gid = g \/ \A s \in Rows \ {r} : Exists(s) => row[s].gid # g
    /\ row' = [row EXCEPT ![r] = [@ EXCEPT !.status = "ready", !.gid = g, !.latest = c]]
    /\ UNCHANGED <<registered, searchable>>

\* Mutant: the graph and the chunks are deleted with the registration.
RemoveWithEvidence(r) ==
    /\ Exists(r)
    /\ row' = [row EXCEPT ![r] = None]
    /\ searchable' = IF row[r].gid = None THEN searchable
                     ELSE [searchable EXCEPT ![row[r].gid] = {}]
    /\ UNCHANGED registered

\* DELETE of a repository: its graph and its chunks stay.
Remove(r) ==
    /\ Exists(r)
    /\ row' = [row EXCEPT ![r] = None]
    /\ UNCHANGED <<registered, searchable>>

Next ==
    \/ \E g \in Repos, commits \in SUBSET Commits : Store(g, commits)
    \/ \E r \in Rows :
          \/ \E k \in Keys : Register(r, k)
          \/ \E status \in Status \ {"ready"} : SetStatus(r, status)
          \/ \E c \in Commits : Publish(r, c)
          \/ Remove(r)

Spec == Init /\ [][Next]_vars

-----------------------------------------------------------------------------

\* What the code graph, the chunks and the row of a published repository say
\* of each other.
RowPromise(r) ==
    Exists(r) =>
        /\ row[r] \in Repository
        /\ r \in registered
        /\ row[r].gid \in {None, GithubId[row[r].key]}
        /\ row[r].latest = None <=> row[r].gid = None
        /\ row[r].latest # None => row[r].latest \in searchable[row[r].gid]
        /\ row[r].status = "ready" => row[r].latest # None

\* No two rows have the same GitHub id.
GithubIdsUnique ==
    \A r, s \in Rows :
        Exists(r) /\ Exists(s) /\ row[r].gid # None /\ row[r].gid = row[s].gid => r = s

\* A commit a row names can be searched, whatever happens to the status, and
\* under a GitHub id that no other row has.
Promise ==
    /\ row \in [Rows -> Repository \cup {None}]
    /\ searchable \in [Repos -> SUBSET Commits]
    /\ \A r \in Rows : RowPromise(r)
    /\ GithubIdsUnique
=============================================================================
