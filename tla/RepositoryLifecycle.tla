------------------------- MODULE RepositoryLifecycle -------------------------
(***************************************************************************)
(* Registration, analysis and retry of a repository.                       *)
(*                                                                         *)
(* Flask request threads (app/api/v1/repositories.py) and analysis threads *)
(* (app/jobs/dispatcher.py) share one PostgreSQL table through             *)
(* RepositoryStore.  Nothing locks a row between a read and the commit     *)
(* that follows it, and an analysis thread keeps using the ORM object it   *)
(* loaded until a commit or a rollback of its session expires it, so every *)
(* read and every commit is a step of its own here.                        *)
(*                                                                         *)
(* What an analysis produces is kept per GitHub repository: the commits    *)
(* whose method history is in Neo4j (indexed), the commits whose code      *)
(* graph is there (snapshot) and the method versions that have an          *)
(* embedding in pgvector (embedded).                                       *)
(***************************************************************************)
EXTENDS Naturals, FiniteSets

CONSTANTS
    Rows,        \* repository UUIDs; an UUID is never issued twice
    Keys,        \* (repository_url, branch) pairs a client may register
    Repos,       \* GitHub repository ids
    Commits,     \* commits of those repositories
    Versions,    \* content-addressed method versions
    GithubId,    \* GithubId[k]: the GitHub repository behind the URL of k
    Ancestors,   \* Ancestors[c]: c and its first-parent ancestors
    VersionsAt,  \* VersionsAt[c]: the method versions of c's source files
    Clients,     \* request threads (bound: requests handled at a time)
    Jobs,        \* analysis threads (bound: analyses running at a time)
    MaxHistory,  \* max_commits of MethodHistoryIndexer
    Faults,      \* kinds of failure that may happen
    None         \* SQL NULL, Python None, "no object in the session"

FaultKinds == {"setup", "stage", "database", "dispatch", "crash"}

ASSUME ConstantsAssumption ==
    /\ GithubId \in [Keys -> Repos]
    /\ Ancestors \in [Commits -> SUBSET Commits]
    /\ VersionsAt \in [Commits -> SUBSET Versions]
    /\ MaxHistory \in Nat
    /\ Faults \subseteq FaultKinds
    /\ None \notin Rows \cup Keys \cup Repos \cup Commits

\* First-parent history is a chain under every commit: rev-list --first-parent.
ASSUME HistoryAssumption ==
    \A c \in Commits :
        /\ c \in Ancestors[c]
        /\ \A d \in Ancestors[c] :
              /\ Ancestors[d] \subseteq Ancestors[c]
              /\ c \in Ancestors[d] => c = d
              /\ \A e \in Ancestors[c] : d \in Ancestors[e] \/ e \in Ancestors[d]

VARIABLES
    row,         \* the repositories table: row[r] is a record, or None
    registered,  \* the UUIDs issued so far
    head,        \* head[k]: the commit the branch of k points to on GitHub
    client,      \* the request threads
    job,         \* the analysis threads
    indexed,     \* indexed[g]: commits whose versions and deletions are saved
    snapshot,    \* snapshot[g]: commits whose code graph is saved
    embedded     \* embedded[g]: versions with a code_chunks row

table    == <<row, registered>>
evidence == <<indexed, snapshot, embedded>>
vars     == <<row, registered, head, client, job, indexed, snapshot, embedded>>

Status == {"pending", "indexing", "ready", "failed"}

Repository == [key : Keys, status : Status, gid : Repos \cup {None},
               latest : Commits \cup {None}, hist : Commits \cup {None}]

JobPc == {"idle", "created", "begin_commit", "history", "clone", "checkpoint",
          "index", "snapshot", "chunk_read", "chunk_commit",
          "finish_read", "finish_commit", "fail_read", "fail_commit"}

\* cache is the Repository object the thread's session would return without
\* asking the database; None when there is none or it has expired.
Job == [pc : JobPc, row : Rows \cup {None}, key : Keys \cup {None},
        cache : Repository \cup {None}, head : Commits \cup {None},
        todo : SUBSET Commits, last : Commits \cup {None},
        new : SUBSET Versions]

Client == [pc : {"idle", "retry", "dispatch"}, row : Rows \cup {None}]

IdleJob    == [pc |-> "idle", row |-> None, key |-> None, cache |-> None,
               head |-> None, todo |-> {}, last |-> None, new |-> {}]
IdleClient == [pc |-> "idle", row |-> None]

Exists(r) == row[r] # None

Init ==
    /\ row = [r \in Rows |-> None]
    /\ registered = {}
    /\ head \in [Keys -> Commits]
    /\ client = [c \in Clients |-> IdleClient]
    /\ job = [j \in Jobs |-> IdleJob]
    /\ indexed = [g \in Repos |-> {}]
    /\ snapshot = [g \in Repos |-> {}]
    /\ embedded = [g \in Repos |-> {}]

-----------------------------------------------------------------------------
(* Request threads *)

\* POST /repositories: RepositoryStore.create commits a pending row unless
\* the (url, branch) pair is taken, then goes on to dispatch.
Create(c, r, k) ==
    /\ client[c].pc = "idle"
    /\ r \notin registered
    /\ \A s \in Rows : Exists(s) => row[s].key # k
    /\ row' = [row EXCEPT ![r] = [key |-> k, status |-> "pending", gid |-> None,
                                  latest |-> None, hist |-> None]]
    /\ registered' = registered \cup {r}
    /\ client' = [client EXCEPT ![c] = [pc |-> "dispatch", row |-> r]]
    /\ UNCHANGED <<head, job, evidence>>

\* Mutant: retry takes any repository, also one that is being analysed.
RetryReadAny(c, r) ==
    /\ client[c].pc = "idle"
    /\ Exists(r)
    /\ client' = [client EXCEPT ![c] = [pc |-> "retry", row |-> r]]
    /\ UNCHANGED <<table, head, job, evidence>>

\* POST /repositories/<id>/retry: the status test on the loaded object.
RetryRead(c, r) ==
    /\ client[c].pc = "idle"
    /\ Exists(r)
    /\ row[r].status \in {"failed", "ready"}
    /\ client' = [client EXCEPT ![c] = [pc |-> "retry", row |-> r]]
    /\ UNCHANGED <<table, head, job, evidence>>

\* transition_status(.., "pending"): its own status test sees the object
\* RetryRead loaded, so the UPDATE depends only on the row still existing.
RetryCommit(c) ==
    LET r == client[c].row IN
    /\ client[c].pc = "retry"
    /\ Exists(r)
    /\ row' = [row EXCEPT ![r].status = "pending"]
    /\ client' = [client EXCEPT ![c].pc = "dispatch"]
    /\ UNCHANGED <<registered, head, job, evidence>>

RetryCommitFails(c) ==
    /\ client[c].pc = "retry"
    /\ ~Exists(client[c].row) \/ "database" \in Faults
    /\ client' = [client EXCEPT ![c] = IdleClient]
    /\ UNCHANGED <<table, head, job, evidence>>

\* The attributes of the AnalysisRequest are reloaded after the commit, then a
\* thread is started.
Dispatch(c, j) ==
    LET r == client[c].row IN
    /\ client[c].pc = "dispatch"
    /\ Exists(r)
    /\ job[j].pc = "idle"
    /\ job' = [job EXCEPT ![j] = [IdleJob EXCEPT !.pc = "created", !.row = r,
                                                 !.key = row[r].key]]
    /\ client' = [client EXCEPT ![c] = IdleClient]
    /\ UNCHANGED <<table, head, evidence>>

\* ObjectDeletedError on the reload, or Thread.start() raises.
DispatchFails(c) ==
    /\ client[c].pc = "dispatch"
    /\ ~Exists(client[c].row) \/ "dispatch" \in Faults
    /\ client' = [client EXCEPT ![c] = IdleClient]
    /\ UNCHANGED <<table, head, job, evidence>>

\* DELETE /repositories/<id>: the graph and the chunks stay.
Delete(r) ==
    /\ Exists(r)
    /\ row' = [row EXCEPT ![r] = None]
    /\ UNCHANGED <<registered, head, client, job, evidence>>

\* The developers push, or force-push, to the branch of k (external).
Push(k, c) ==
    /\ head[k] # c
    /\ head' = [head EXCEPT ![k] = c]
    /\ UNCHANGED <<table, client, job, evidence>>

-----------------------------------------------------------------------------
(* Analysis threads: AnalysisPipelineService.run_pipeline *)

At(j, pc)    == job[j].pc = pc
RowOf(j)     == job[j].row
RepoOf(j)    == GithubId[job[j].key]

\* RepositoryStore.get in a thread's session: the identity map answers before
\* the database does.
Loaded(j) == IF job[j].cache # None THEN job[j].cache ELSE row[RowOf(j)]

Goto(j, pc)           == job' = [job EXCEPT ![j].pc = pc]
GotoCached(j, pc, o)  == job' = [job EXCEPT ![j] = [@ EXCEPT !.pc = pc, !.cache = o]]
Stop(j)               == job' = [job EXCEPT ![j] = IdleJob]

\* create_analysis_pipeline raises (configuration, GitHub client): _run_job
\* logs it and the row keeps its status.
SetupFails(j) ==
    /\ At(j, "created")
    /\ "setup" \in Faults
    /\ Stop(j)
    /\ UNCHANGED <<table, head, client, evidence>>

\* 1. transition_status(pending -> indexing): the read and the status test.
BeginRead(j) ==
    LET o == row[RowOf(j)] IN
    /\ At(j, "created")
    /\ GotoCached(j, IF o # None /\ o.status = "pending"
                     THEN "begin_commit" ELSE "fail_read", o)
    /\ UNCHANGED <<table, head, client, evidence>>

BeginReadFails(j) ==
    /\ At(j, "created")
    /\ "database" \in Faults
    /\ Goto(j, "fail_read")
    /\ UNCHANGED <<table, head, client, evidence>>

BeginCommit(j) ==
    /\ At(j, "begin_commit")
    /\ Exists(RowOf(j))
    /\ row' = [row EXCEPT ![RowOf(j)].status = "indexing"]
    /\ GotoCached(j, "history", None)
    /\ UNCHANGED <<registered, head, client, evidence>>

\* 2. GitHub history import.  Its file-change commit is on the same session.
ImportHistory(j) ==
    /\ At(j, "history")
    /\ Goto(j, "clone")
    /\ UNCHANGED <<table, head, client, evidence>>

\* 3. git clone and rev-parse HEAD.
Clone(j) ==
    /\ At(j, "clone")
    /\ job' = [job EXCEPT ![j] = [@ EXCEPT !.pc = "checkpoint", !.head = head[job[j].key]]]
    /\ UNCHANGED <<table, head, client, evidence>>

\* Mutant: a first analysis indexes the cloned commit only, as a shallow
\* clone would make it.
HeadCommitOnly(h, checkpoint) ==
    IF checkpoint = None THEN {h} ELSE Ancestors[h] \ Ancestors[checkpoint]

\* The commits list_first_parent_commits returns for a checkpoint.
CommitsAfter(h, checkpoint) ==
    IF checkpoint = None THEN Ancestors[h] ELSE Ancestors[h] \ Ancestors[checkpoint]

\* Mutant: rev-list checkpoint..HEAD without the merge-base test before it.
CanIndexAnyBranch(h, checkpoint) ==
    Cardinality(CommitsAfter(h, checkpoint)) =< MaxHistory

\* The checkpoint has to be on the cloned branch, and not too far behind.
CanIndex(h, checkpoint) ==
    /\ checkpoint # None => checkpoint \in Ancestors[h]
    /\ Cardinality(CommitsAfter(h, checkpoint)) =< MaxHistory

IndexPc(todo) == IF todo = {} THEN "snapshot" ELSE "index"

\* get() for the checkpoint, then the list of commits to index.  The object
\* read here stays referenced by run_pipeline's local variable.
LoadCheckpoint(j) ==
    LET o          == row[RowOf(j)]
        checkpoint == IF o = None THEN None ELSE o.hist
        todo       == CommitsAfter(job[j].head, checkpoint)
    IN
    /\ At(j, "checkpoint")
    /\ IF CanIndex(job[j].head, checkpoint)
       THEN job' = [job EXCEPT ![j] = [@ EXCEPT !.pc = IndexPc(todo), !.cache = o,
                                                !.todo = todo, !.last = checkpoint]]
       ELSE GotoCached(j, "fail_read", o)
    /\ UNCHANGED <<table, head, client, evidence>>

\* 4. One iteration of MethodHistoryIndexer.index, oldest commit first.  last
\* becomes last_commit_sha: the checkpoint itself when there was no new commit.
IndexCommit(j, c) ==
    LET rest == job[j].todo \ {c} IN
    /\ At(j, "index")
    /\ c \in job[j].todo
    /\ Ancestors[c] \cap job[j].todo = {c}
    /\ indexed' = [indexed EXCEPT ![RepoOf(j)] = @ \cup {c}]
    /\ job' = [job EXCEPT ![j] = [@ EXCEPT !.pc = IndexPc(rest), !.todo = rest, !.last = c]]
    /\ UNCHANGED <<table, head, client, snapshot, embedded>>

\* 5. Code graph of HEAD, merged into Neo4j in one transaction.
SaveSnapshot(j) ==
    /\ At(j, "snapshot")
    /\ snapshot' = [snapshot EXCEPT ![RepoOf(j)] = @ \cup {job[j].head}]
    /\ Goto(j, "chunk_read")
    /\ UNCHANGED <<table, head, client, indexed, embedded>>

\* Mutant: a repository that has chunks is taken to have all of them.
NoNewVersions(j) ==
    IF embedded[RepoOf(j)] # {} THEN {} ELSE VersionsAt[job[j].head]

\* The versions find_existing_graph_node_ids does not know.
NewVersions(j) == VersionsAt[job[j].head] \ embedded[RepoOf(j)]

\* 6. find_existing_graph_node_ids; only the versions without a row are
\* embedded, and only then is there a commit.
FindExistingChunks(j) ==
    LET new == NewVersions(j) IN
    /\ At(j, "chunk_read")
    /\ job' = [job EXCEPT ![j] =
                  [@ EXCEPT !.pc = IF new = {} THEN "finish_read" ELSE "chunk_commit",
                            !.new = new]]
    /\ UNCHANGED <<table, head, client, evidence>>

\* upsert_chunks: one commit, which expires the Repository object too.
UpsertChunks(j) ==
    /\ At(j, "chunk_commit")
    /\ embedded' = [embedded EXCEPT ![RepoOf(j)] = @ \cup job[j].new]
    /\ job' = [job EXCEPT ![j] =
                  [@ EXCEPT !.pc = "finish_read", !.cache = None, !.new = {}]]
    /\ UNCHANGED <<table, head, client, indexed, snapshot>>

\* Mutant: an analysis begins again for as long as one of its stages fails.
StageRepeats(j) ==
    /\ "stage" \in Faults
    /\ job[j].pc \in {"clone", "checkpoint", "index", "snapshot", "chunk_read", "chunk_commit"}
    /\ Goto(j, "history")
    /\ UNCHANGED <<table, head, client, evidence>>

\* GitHub, git, the parser, Neo4j, the embedding service or a chunk commit
\* raises.  Only a failed chunk commit rolls the session back.
StageFails(j) ==
    /\ "stage" \in Faults
    /\ job[j].pc \in {"history", "clone", "checkpoint", "index", "snapshot",
                      "chunk_read", "chunk_commit"}
    /\ \E o \in {job[j].cache} \cup (IF At(j, "chunk_commit") THEN {None} ELSE {}) :
          GotoCached(j, "fail_read", o)
    /\ UNCHANGED <<table, head, client, evidence>>

\* 7. get(), the three attribute assignments and the status test of
\* transition_status(indexing -> ready).  A deleted row ends the run quietly.
FinishRead(j) ==
    LET o == Loaded(j) IN
    /\ At(j, "finish_read")
    /\ IF o = None THEN Stop(j)
       ELSE GotoCached(j, IF o.status = "indexing" THEN "finish_commit"
                                                   ELSE "fail_read", o)
    /\ UNCHANGED <<table, head, client, evidence>>

\* The UPDATE carries only the attributes that differ from the loaded object.
Flushed(stored, loaded, new) ==
    [f \in DOMAIN new |-> IF new[f] # loaded[f] THEN new[f] ELSE stored[f]]

Finished(j) ==
    [job[j].cache EXCEPT !.status = "ready", !.gid = RepoOf(j),
                         !.latest = job[j].head, !.hist = job[j].last]

\* Mutant: the column without its UNIQUE constraint.
GithubIdFree(j) == FALSE

\* repositories.github_repository_id is UNIQUE.
GithubIdTaken(j) ==
    /\ job[j].cache.gid # RepoOf(j)
    /\ \E s \in Rows \ {RowOf(j)} : Exists(s) /\ row[s].gid = RepoOf(j)

FinishCommit(j) ==
    LET r == RowOf(j) IN
    /\ At(j, "finish_commit")
    /\ Exists(r)
    /\ ~GithubIdTaken(j)
    /\ row' = [row EXCEPT ![r] = Flushed(@, job[j].cache, Finished(j))]
    /\ Stop(j)
    /\ UNCHANGED <<registered, head, client, evidence>>

\* Mutant: the commits of the pipeline outside of its try statement.
CommitUncaught(j) ==
    /\ At(j, "begin_commit") \/ At(j, "finish_commit")
    /\ \/ ~Exists(RowOf(j))
       \/ At(j, "finish_commit") /\ GithubIdTaken(j)
       \/ "database" \in Faults
    /\ Stop(j)
    /\ UNCHANGED <<table, head, client, evidence>>

\* A commit of the pipeline raises: StaleDataError for a deleted row,
\* IntegrityError for a taken GitHub id, or the database is unavailable.
\* The rollback expires the session's objects.
CommitFails(j) ==
    /\ \/ At(j, "begin_commit")
       \/ At(j, "finish_commit")
    /\ \/ ~Exists(RowOf(j))
       \/ At(j, "finish_commit") /\ GithubIdTaken(j)
       \/ "database" \in Faults
    /\ GotoCached(j, "fail_read", None)
    /\ UNCHANGED <<table, head, client, evidence>>

\* Mutant: the except clause logs the error and leaves the row as it is.
FailReadLogsOnly(j) ==
    /\ At(j, "fail_read")
    /\ Stop(j)
    /\ UNCHANGED <<table, head, client, evidence>>

\* The except clause: transition_status(indexing -> failed) on whatever the
\* session holds.  A refusal is logged and the thread ends.
FailRead(j) ==
    LET o == Loaded(j) IN
    /\ At(j, "fail_read")
    /\ IF o # None /\ o.status = "indexing"
       THEN GotoCached(j, "fail_commit", o)
       ELSE Stop(j)
    /\ UNCHANGED <<table, head, client, evidence>>

FailReadFails(j) ==
    /\ At(j, "fail_read")
    /\ "database" \in Faults
    /\ Stop(j)
    /\ UNCHANGED <<table, head, client, evidence>>

FailCommit(j) ==
    /\ At(j, "fail_commit")
    /\ Exists(RowOf(j))
    /\ row' = [row EXCEPT ![RowOf(j)].status = "failed"]
    /\ Stop(j)
    /\ UNCHANGED <<registered, head, client, evidence>>

FailCommitFails(j) ==
    /\ At(j, "fail_commit")
    /\ ~Exists(RowOf(j)) \/ "database" \in Faults
    /\ Stop(j)
    /\ UNCHANGED <<table, head, client, evidence>>

\* The server process dies: its threads are daemons and nothing is resumed.
Crash ==
    /\ "crash" \in Faults
    /\ job' = [j \in Jobs |-> IdleJob]
    /\ client' = [c \in Clients |-> IdleClient]
    /\ UNCHANGED <<table, head, evidence>>

-----------------------------------------------------------------------------

ClientStep(c) ==
    \/ RetryCommit(c) \/ RetryCommitFails(c)
    \/ DispatchFails(c) \/ \E j \in Jobs : Dispatch(c, j)

JobStep(j) ==
    \/ SetupFails(j) \/ BeginRead(j) \/ BeginReadFails(j) \/ BeginCommit(j)
    \/ ImportHistory(j) \/ Clone(j) \/ LoadCheckpoint(j)
    \/ \E c \in Commits : IndexCommit(j, c)
    \/ SaveSnapshot(j) \/ FindExistingChunks(j) \/ UpsertChunks(j)
    \/ StageFails(j) \/ FinishRead(j) \/ FinishCommit(j) \/ CommitFails(j)
    \/ FailRead(j) \/ FailReadFails(j) \/ FailCommit(j) \/ FailCommitFails(j)

Request ==
    \E c \in Clients, r \in Rows :
        RetryRead(c, r) \/ \E k \in Keys : Create(c, r, k)

Next ==
    \/ Request
    \/ \E r \in Rows : Delete(r)
    \/ \E k \in Keys, c \in Commits : Push(k, c)
    \/ \E c \in Clients : ClientStep(c)
    \/ \E j \in Jobs : JobStep(j)
    \/ Crash

Spec == Init /\ [][Next]_vars

\* A started thread is eventually scheduled again; nobody has to send a
\* request, push a commit or kill the process.
Fairness ==
    /\ \A c \in Clients : WF_vars(ClientStep(c))
    /\ \A j \in Jobs : WF_vars(JobStep(j))

FairSpec == Spec /\ Fairness

-----------------------------------------------------------------------------
(* Properties *)

\* Every variable keeps the shape the code gives it; a busy thread has a row.
TypeOK ==
    /\ row \in [Rows -> Repository \cup {None}]
    /\ registered \subseteq Rows
    /\ head \in [Keys -> Commits]
    /\ client \in [Clients -> Client]
    /\ job \in [Jobs -> Job]
    /\ indexed \in [Repos -> SUBSET Commits]
    /\ snapshot \in [Repos -> SUBSET Commits]
    /\ embedded \in [Repos -> SUBSET Versions]

\* What QAService relies on when it finds a row "ready": the GitHub id is
\* there, and the code graph and every method version of the published commit
\* can be searched, whatever other analyses, deletions and failures happened.
ReadyIsSearchable ==
    \A r \in Rows : Exists(r) /\ row[r].status = "ready" =>
        /\ row[r].gid # None
        /\ row[r].latest \in snapshot[row[r].gid]
        /\ VersionsAt[row[r].latest] \subseteq embedded[row[r].gid]

\* history_indexed_sha is a safe place to resume from: the method history of
\* every commit up to it is in the graph, although index() writes one commit
\* at a time and may fail or be killed between any two of them.
CheckpointCovered ==
    \A r \in Rows : Exists(r) /\ row[r].hist # None =>
        /\ row[r].gid # None
        /\ Ancestors[row[r].hist] \subseteq indexed[row[r].gid]

Working == JobPc \ {"idle", "created", "begin_commit"}

\* Someone is still going to settle r: a request about to dispatch, a thread
\* that has not begun, or one that has and will see the row as indexing.
WillBegin(r) ==
    \/ \E c \in Clients : client[c].pc = "dispatch" /\ client[c].row = r
    \/ \E j \in Jobs : RowOf(j) = r /\ job[j].pc \in {"created", "begin_commit"}

WillSettle(r) ==
    \E j \in Jobs : /\ RowOf(j) = r
                    /\ job[j].pc \in Working
                    /\ job[j].cache # None => job[j].cache.status = "indexing"

\* No row is left "pending" or "indexing" with nobody working on it: retry
\* refuses such a row, so it could never be analysed again.
NoAbandonedAnalysis ==
    \A r \in Rows : Exists(r) =>
        /\ row[r].status = "pending" => WillBegin(r)
        /\ row[r].status = "indexing" => WillSettle(r)

Abandoned(r) ==
    /\ Exists(r)
    /\ \/ row[r].status = "pending" /\ ~WillBegin(r)
       \/ row[r].status = "indexing" /\ ~WillSettle(r)

SilentFault ==
    \/ Crash
    \/ \E c \in Clients : DispatchFails(c)
    \/ \E j \in Jobs : \/ SetupFails(j) \/ BeginReadFails(j)
                       \/ FailReadFails(j) \/ FailCommitFails(j)
                       \/ At(j, "begin_commit") /\ CommitFails(j)

AbandonedByFault ==
    \A r \in Rows : ~Abandoned(r) /\ Abandoned(r)' => SilentFault

\* A row is abandoned by what this code cannot see or report: the process ends,
\* a thread or its services do not start, or the database refuses the very
\* update that would have said so; never by a stage, by a commit at the end that
\* fails for a taken GitHub id, or by another request.
OnlyFaultsAbandon == [][AbandonedByFault]_vars

\* The table of transition_status, and the rows a request adds and removes.
ValidTransitions ==
    {<<"pending", "indexing">>, <<"indexing", "ready">>, <<"indexing", "failed">>,
     <<"failed", "pending">>, <<"ready", "pending">>}

StatusFollows ==
    \A r \in Rows : Exists(r) /\ row'[r] # None /\ row'[r].status # row[r].status
        => <<row[r].status, row'[r].status>> \in ValidTransitions

\* The status of a row only ever changes along the table that
\* transition_status checks its arguments against.
StatusFollowsTable == [][StatusFollows]_vars

MovesForward ==
    \A r \in Rows : Exists(r) /\ row'[r] # None /\ row[r].latest # None
        => row[r].latest \in Ancestors[row'[r].latest]

\* A published commit is only ever replaced by one that descends from it, even
\* when the branch is force-pushed between two analyses.
PublicationMovesForward == [][MovesForward]_vars

\* An accepted analysis ends: the row becomes ready or failed, or is deleted.
AnalysisSettles ==
    \A r \in Rows :
        (Exists(r) /\ row[r].status \in {"pending", "indexing"})
            ~> (~Exists(r) \/ row[r].status \in {"ready", "failed"})

-----------------------------------------------------------------------------
(* The inductive invariant behind ReadyIsSearchable and CheckpointCovered *)

\* Everything an analysis of commit c of repository g stores is stored.
Covered(g, c) ==
    /\ Ancestors[c] \subseteq indexed[g]
    /\ c \in snapshot[g]
    /\ VersionsAt[c] \subseteq embedded[g]

\* A row that was ever published names a covered commit, and stays published.
RowInv(r) ==
    Exists(r) =>
        /\ r \in registered
        /\ row[r].gid \in {None, GithubId[row[r].key]}
        /\ row[r].latest = row[r].hist
        /\ row[r].latest # None => /\ row[r].gid # None
                                   /\ Covered(row[r].gid, row[r].latest)
        /\ row[r].status = "ready" => row[r].latest # None

\* A busy thread works for an UUID that was issued, under its row's key.
OwnerInv(j) ==
    job[j].pc # "idle" =>
        /\ RowOf(j) \in registered
        /\ job[j].key \in Keys
        /\ Exists(RowOf(j)) => row[RowOf(j)].key = job[j].key

\* A stale object may be behind its row, never ahead of it: what the object
\* has published the row has too.
CacheInv(j) ==
    job[j].cache # None =>
        /\ job[j].pc # "idle"
        /\ job[j].cache.gid \in {None, RepoOf(j)}
        /\ job[j].cache.latest = job[j].cache.hist
        /\ Exists(RowOf(j)) =>
              /\ job[j].cache.gid # None => row[RowOf(j)].gid # None
              /\ job[j].cache.latest # None => row[RowOf(j)].latest # None

\* How much of its commit each stage of a thread has stored.
StageInv(j) ==
    LET h == job[j].head
        g == RepoOf(j)
    IN
    /\ job[j].pc \in {"checkpoint", "index", "snapshot", "chunk_read", "chunk_commit",
                      "finish_read", "finish_commit"} => h # None
    /\ At(j, "index") =>
          /\ h \in job[j].todo
          /\ job[j].todo \subseteq Ancestors[h]
          /\ Ancestors[h] \ job[j].todo \subseteq indexed[g]
    /\ job[j].pc \in {"snapshot", "chunk_read", "chunk_commit",
                      "finish_read", "finish_commit"} =>
          /\ job[j].last = h
          /\ Ancestors[h] \subseteq indexed[g]
    /\ job[j].pc \in {"chunk_read", "chunk_commit", "finish_read", "finish_commit"} =>
          h \in snapshot[g]
    /\ At(j, "chunk_commit") => VersionsAt[h] \subseteq embedded[g] \cup job[j].new
    /\ job[j].pc \in {"finish_read", "finish_commit"} => VersionsAt[h] \subseteq embedded[g]
    /\ At(j, "finish_commit") =>
          job[j].cache # None /\ job[j].cache.status = "indexing"

ClientInv(c) == client[c].pc # "idle" => client[c].row \in registered

EvidenceInv ==
    /\ TypeOK
    /\ \A r \in Rows : RowInv(r)
    /\ \A j \in Jobs : OwnerInv(j) /\ CacheInv(j) /\ StageInv(j)
    /\ \A c \in Clients : ClientInv(c)
=============================================================================
