---------------------- MODULE RepositoryEvidenceProofs ----------------------
(* What a row of RepositoryLifecycle promises about the graph and the chunks,    *)
(* which changes of it there are, and that it implements RepositoryPublication. *)
EXTENDS RepositoryLifecycleProofs, RepositoryRefinement

EvInv == TypeInv /\ EvidenceInv

JobInv(j) == OwnerInv(j) /\ CacheInv(j) /\ StageInv(j)

\* What CacheInv asks of an object o in a session working on row r, key k.
ObjectOK(k, r, o) ==
    o # None =>
        /\ o.gid \in {None, GithubId[k]}
        /\ o.latest = o.hist
        /\ row[r] # None => /\ o.gid # None => row[r].gid # None
                            /\ o.latest # None => row[r].latest # None

-----------------------------------------------------------------------------
(* Nothing stored is ever taken back, and no UUID comes back to life *)

EvidenceGrows ==
    /\ registered \subseteq registered'
    /\ \A g \in Repos : /\ indexed[g] \subseteq indexed'[g]
                        /\ snapshot[g] \subseteq snapshot'[g]
                        /\ embedded[g] \subseteq embedded'[g]

RowsGrow ==
    \A r \in Rows :
        /\ row[r] = None /\ r \in registered => row'[r] = None
        /\ row[r] # None /\ row'[r] # None =>
              /\ row'[r].key = row[r].key
              /\ row[r].gid # None => row'[r].gid # None
              /\ row[r].latest # None => row'[r].latest # None

LEMMA RowInvStable ==
    ASSUME EvInv, EvidenceGrows, NEW r \in Rows, row'[r] = row[r]
    PROVE  RowInv(r)'
<1>1. CASE row[r] = None
    BY <1>1 DEF RowInv, Exists
<1>2. CASE row[r] # None
    <2>1. row[r] \in Repository /\ RowInv(r)
        BY <1>2 DEF EvInv, EvidenceInv, TypeInv, TypeOK
    <2>2. row[r].gid # None => row[r].gid \in Repos
        BY <2>1 DEF Repository
    <2> QED BY <1>2, <2>1, <2>2 DEF RowInv, Exists, Covered, EvidenceGrows
<1> QED BY <1>1, <1>2

LEMMA JobInvStable ==
    ASSUME EvInv, EvidenceGrows, RowsGrow, NEW j \in Jobs, job'[j] = job[j]
    PROVE  JobInv(j)'
<1>1. JobInv(j)
    BY DEF EvInv, EvidenceInv, JobInv
<1>2. CASE job[j].pc = "idle"
    BY <1>1, <1>2 DEF JobInv, OwnerInv, CacheInv, StageInv, At
<1>3. CASE job[j].pc # "idle"
    <2>1. job[j].row \in Rows /\ job[j].key \in Keys /\ RepoOf(j) \in Repos
        BY <1>3, BusyJob DEF EvInv
    <2>2. RepoOf(j)' = RepoOf(j)
        BY DEF RepoOf
    <2>3. OwnerInv(j)'
        BY <1>1, <1>3, <2>1 DEF JobInv, OwnerInv, RowsGrow, EvidenceGrows, Exists, RowOf
    <2>4. CacheInv(j)'
        BY <1>1, <1>3, <2>1, <2>2 DEF JobInv, OwnerInv, CacheInv, RowsGrow, Exists, RowOf
    <2>5. StageInv(j)'
        BY <1>1, <2>1, <2>2 DEF JobInv, StageInv, EvidenceGrows, At
    <2> QED BY <2>3, <2>4, <2>5 DEF JobInv
<1> QED BY <1>2, <1>3

\* Nothing is required of a thread that is idle, failing or before its clone
\* but to know its row and to hold an admissible object.
PlainPc == {"created", "begin_commit", "history", "clone", "fail_read", "fail_commit"}

LEMMA IdleInv ==
    ASSUME NEW j \in Jobs, job'[j] = IdleJob PROVE JobInv(j)'
BY DEF JobInv, OwnerInv, CacheInv, StageInv, At, IdleJob

LEMMA ObjectInv ==
    ASSUME EvInv, NEW j \in Jobs, job[j].pc # "idle"
    PROVE  /\ ObjectOK(job[j].key, job[j].row, job[j].cache)
           /\ ObjectOK(job[j].key, job[j].row, row[job[j].row])
           /\ ObjectOK(job[j].key, job[j].row, Loaded(j))
<1>1. JobInv(j) /\ job[j].row \in Rows /\ RowInv(job[j].row)
    BY BusyJob DEF EvInv, EvidenceInv, JobInv
<1>2. ObjectOK(job[j].key, job[j].row, job[j].cache)
    BY <1>1 DEF JobInv, CacheInv, ObjectOK, RepoOf, RowOf, Exists
<1>3. ObjectOK(job[j].key, job[j].row, row[job[j].row])
    BY <1>1 DEF JobInv, OwnerInv, RowInv, ObjectOK, RowOf, Exists
<1> QED BY <1>2, <1>3 DEF Loaded, RowOf

\* A thread keeps its row and key when it moves.
LEMMA MovedOwner ==
    ASSUME EvInv, NEW j \in Jobs, job[j].pc # "idle",
           UNCHANGED <<row, registered>>,
           job'[j].row = job[j].row, job'[j].key = job[j].key, job'[j].pc # "idle",
           ObjectOK(job[j].key, job[j].row, job'[j].cache)
    PROVE  OwnerInv(j)' /\ CacheInv(j)'
BY DEF EvInv, EvidenceInv, OwnerInv, CacheInv, ObjectOK, RepoOf, RowOf, Exists

LEMMA MovedPlain ==
    ASSUME EvInv, NEW j \in Jobs, job[j].pc # "idle",
           UNCHANGED <<row, registered>>,
           NEW pc \in PlainPc, Moved(j, pc),
           ObjectOK(job[j].key, job[j].row, job'[j].cache)
    PROVE  JobInv(j)'
<1>1. OwnerInv(j)' /\ CacheInv(j)'
    BY MovedOwner DEF Moved, PlainPc
<1>2. StageInv(j)'
    BY DEF StageInv, Moved, PlainPc, At
<1> QED BY <1>1, <1>2 DEF JobInv

-----------------------------------------------------------------------------
(* The steps of one thread that leave the table and the evidence alone *)

\* The history before a checkpoint of this very row is covered.
LEMMA CheckpointInv ==
    ASSUME EvInv, NEW j \in Jobs, LoadCheckpoint(j)
    PROVE  JobInv(j)'
<1> DEFINE x          == job[j]
           o          == row[x.row]
           checkpoint == IF o = None THEN None ELSE o.hist
           todo       == CommitsAfter(x.head, checkpoint)
<1>1. /\ x.pc = "checkpoint" /\ x.head \in Commits /\ x.head # None
      /\ x.row \in Rows /\ x.key \in Keys /\ o \in Repository \cup {None}
      /\ job \in [Jobs -> Job] /\ UNCHANGED <<row, registered, indexed>>
      /\ x \in Job /\ x.head # None
    BY BusyJob DEF LoadCheckpoint, At, EvInv, TypeInv, TypeOK, JobOK, Job, HeadKnownPc, table, evidence
<1>2. ObjectOK(x.key, x.row, o) /\ JobInv(j) /\ RowInv(x.row)
    BY <1>1, ObjectInv DEF EvInv, EvidenceInv, JobInv
<1>3. CASE CanIndex(x.head, checkpoint)
    <2>1. job' = [job EXCEPT ![j] = [x EXCEPT !.pc = IndexPc(todo), !.cache = o,
                                              !.todo = todo, !.last = checkpoint]]
        BY <1>3 DEF LoadCheckpoint, RowOf
    <2>2. checkpoint # None => /\ checkpoint \in Ancestors[x.head]
                               /\ checkpoint \in Commits
                               /\ Ancestors[checkpoint] \subseteq indexed[RepoOf(j)]
        <3> SUFFICES ASSUME checkpoint # None
                     PROVE  /\ checkpoint \in Ancestors[x.head] /\ checkpoint \in Commits
                            /\ Ancestors[checkpoint] \subseteq indexed[RepoOf(j)]
            OBVIOUS
        <3>1. o # None /\ checkpoint = o.hist /\ o.hist \in Commits /\ o.latest = o.hist
            BY <1>1, <1>2 DEF Repository, ObjectOK
        <3>2. o.gid = GithubId[x.key] /\ Ancestors[o.hist] \subseteq indexed[o.gid]
            BY <1>1, <1>2, <3>1 DEF RowInv, Covered, Exists, JobInv, OwnerInv, RowOf
        <3> QED BY <1>3, <3>1, <3>2 DEF CanIndex, RepoOf
    <2>3. /\ x.head \in Ancestors[x.head]
          /\ todo = IF checkpoint = None THEN Ancestors[x.head]
                    ELSE Ancestors[x.head] \ Ancestors[checkpoint]
        BY <1>1, HistoryAssumption DEF CommitsAfter
    <2>4. todo \subseteq Ancestors[x.head] /\ Ancestors[x.head] \ todo \subseteq indexed[RepoOf(j)]
        BY <2>2, <2>3
    <2>5. todo = {} => checkpoint = x.head /\ Ancestors[x.head] \subseteq indexed[RepoOf(j)]
        BY <1>1, <2>2, <2>3, <2>4, HistoryAssumption
    <2>6. todo # {} => x.head \in todo
        BY <1>1, <2>2, <2>3, HistoryAssumption
    <2> HIDE DEF o, checkpoint, todo
    <2>7. /\ job'[j].pc = IndexPc(todo) /\ job'[j].cache = o /\ job'[j].todo = todo
          /\ job'[j].last = checkpoint /\ job'[j].row = x.row /\ job'[j].key = x.key
          /\ job'[j].head = x.head
        BY <1>1, <2>1 DEF Job
    <2>8. OwnerInv(j)' /\ CacheInv(j)'
        BY <1>1, <1>2, <2>7, MovedOwner DEF IndexPc
    <2>9. StageInv(j)'
        BY <1>1, <2>4, <2>5, <2>6, <2>7 DEF StageInv, IndexPc, At, RepoOf
    <2> QED BY <2>8, <2>9 DEF JobInv
<1>4. CASE ~CanIndex(x.head, checkpoint)
    <2>1. GotoCached(j, "fail_read", o)
        BY <1>4 DEF LoadCheckpoint, RowOf
    <2>2. job'[j] = [x EXCEPT !.pc = "fail_read", !.cache = o]
        BY <1>1, <2>1 DEF GotoCached
    <2> HIDE DEF o
    <2>3. /\ job'[j].pc = "fail_read" /\ job'[j].cache = o
          /\ job'[j].row = x.row /\ job'[j].key = x.key
        BY <1>1, <2>2 DEF Job
    <2>4. OwnerInv(j)' /\ CacheInv(j)'
        BY <1>1, <1>2, <2>3, MovedOwner
    <2> QED BY <2>3, <2>4 DEF JobInv, StageInv, At
<1> QED BY <1>3, <1>4

LEMMA LocalStepInv ==
    ASSUME EvInv, TypeInv', NEW j \in Jobs, LocalStep(j)
    PROVE  JobInv(j)'
<1> DEFINE x == job[j]
<1>1. /\ UNCHANGED <<table, head, client, evidence>>
      /\ x.pc # "idle"
    BY DEF LocalStep, SetupFails, BeginRead, BeginReadFails, ImportHistory, Clone,
           LoadCheckpoint, FindExistingChunks, StageFails, FinishRead, CommitFails,
           FailRead, FailReadFails, FailCommitFails, At
<1>2. /\ ObjectOK(x.key, x.row, x.cache) /\ ObjectOK(x.key, x.row, row[x.row])
      /\ ObjectOK(x.key, x.row, Loaded(j)) /\ ObjectOK(x.key, x.row, None)
    BY <1>1, ObjectInv DEF ObjectOK
<1>3. TypeInv /\ UNCHANGED <<row, registered, indexed, snapshot, embedded>>
    BY <1>1 DEF EvInv, table, evidence
<1>4. ASSUME Stop(j) PROVE JobInv(j)'
    BY <1>3, <1>4, StopStops, IdleInv DEF Stopped
<1>5. ASSUME NEW pc \in PlainPc, NEW o, ObjectOK(x.key, x.row, o), GotoCached(j, pc, o)
      PROVE  JobInv(j)'
    BY <1>1, <1>3, <1>5, GotoCachedMoves, MovedPlain DEF PlainPc, JobPc
<1>6. ASSUME NEW pc \in PlainPc, Goto(j, pc) PROVE JobInv(j)'
    BY <1>1, <1>2, <1>3, <1>6, GotoMoves, MovedPlain DEF PlainPc, JobPc
<1>7. CASE SetupFails(j) \/ FailReadFails(j) \/ FailCommitFails(j)
    BY <1>4, <1>7 DEF SetupFails, FailReadFails, FailCommitFails
<1>8. CASE BeginReadFails(j) \/ ImportHistory(j)
    BY <1>6, <1>8 DEF BeginReadFails, ImportHistory, PlainPc
<1>9. CASE BeginRead(j) \/ StageFails(j) \/ CommitFails(j) \/ FailRead(j)
    BY <1>2, <1>4, <1>5, <1>9 DEF BeginRead, StageFails, CommitFails, FailRead, PlainPc, RowOf
<1>10. CASE Clone(j)
    <2>1. /\ x \in Job /\ x.key \in Keys /\ head[x.key] \in Commits
        BY <1>1, <1>3, BusyJob DEF TypeInv, TypeOK
    <2>2. /\ job'[j].pc = "checkpoint" /\ job'[j].cache = x.cache
          /\ job'[j].row = x.row /\ job'[j].key = x.key /\ job'[j].head = head[x.key]
        BY <1>3, <1>10, <2>1 DEF Clone, TypeInv, TypeOK, Job
    <2>3. head[x.key] # None
        BY <2>1, ConstantsAssumption
    <2> QED BY <1>1, <1>2, <1>3, <2>2, <2>3, MovedOwner DEF JobInv, StageInv, At
<1>11. CASE LoadCheckpoint(j)
    BY <1>11, CheckpointInv
<1>12. CASE FindExistingChunks(j)
    <2> DEFINE new == VersionsAt[x.head] \ embedded[RepoOf(j)]
    <2>1. PICK pc \in {"finish_read", "chunk_commit"} :
             /\ job' = [job EXCEPT ![j] = [x EXCEPT !.pc = pc, !.new = new]]
             /\ pc = "finish_read" => new = {}
        BY <1>12 DEF FindExistingChunks, NewVersions
    <2>2. VersionsAt[x.head] \subseteq embedded[RepoOf(j)] \cup new
        OBVIOUS
    <2> HIDE DEF new
    <2>3. /\ job'[j].pc = pc /\ job'[j].cache = x.cache /\ job'[j].new = new
          /\ job'[j].row = x.row /\ job'[j].key = x.key
          /\ job'[j].head = x.head /\ job'[j].last = x.last
        BY <1>3, <2>1 DEF TypeInv, TypeOK, Job
    <2>4. x.pc = "chunk_read" /\ StageInv(j)
        BY <1>12 DEF FindExistingChunks, NewVersions, At, EvInv, EvidenceInv
    <2>5. StageInv(j)'
        BY <1>3, <2>1, <2>2, <2>3, <2>4 DEF StageInv, At, RepoOf
    <2>6. OwnerInv(j)' /\ CacheInv(j)'
        BY <1>1, <1>2, <1>3, <2>3, MovedOwner
    <2> QED BY <2>5, <2>6 DEF JobInv
<1>13. CASE FinishRead(j)
    <2>1. x.pc = "finish_read" /\ StageInv(j)
        BY <1>13 DEF FinishRead, At, EvInv, EvidenceInv
    <2>2. \/ Stop(j) \/ GotoCached(j, "fail_read", Loaded(j))
          \/ GotoCached(j, "finish_commit", Loaded(j)) /\ Loaded(j) # None
                                                       /\ Loaded(j).status = "indexing"
        BY <1>13 DEF FinishRead
    <2>3. CASE GotoCached(j, "finish_commit", Loaded(j)) /\ Loaded(j) # None
                                                         /\ Loaded(j).status = "indexing"
        <3>1. Moved(j, "finish_commit") /\ job'[j].cache = Loaded(j)
            BY <1>3, <2>3, GotoCachedMoves DEF JobPc
        <3>2. StageInv(j)'
            BY <1>3, <2>1, <2>3, <3>1 DEF StageInv, At, RepoOf, Moved
        <3> QED BY <1>1, <1>2, <1>3, <3>1, <3>2, MovedOwner DEF JobInv, Moved
    <2> QED BY <1>2, <1>4, <1>5, <2>2, <2>3 DEF PlainPc
<1> QED
    BY <1>7, <1>8, <1>9, <1>10, <1>11, <1>12, <1>13 DEF LocalStep

-----------------------------------------------------------------------------
(* The steps that write the table *)

\* A step that writes at most row r and job j: the invariant follows from that
\* row and that thread.
LEMMA RestStable ==
    ASSUME EvInv, TypeInv', EvidenceGrows, RowsGrow,
           \A r \in Rows : row'[r] = row[r] \/ RowInv(r)',
           \A j \in Jobs : job'[j] = job[j] \/ JobInv(j)',
           \A c \in Clients : client'[c] = client[c] \/ ClientInv(c)'
    PROVE  EvidenceInv'
<1>1. \A r \in Rows : RowInv(r)'
    BY RowInvStable
<1>2. \A j \in Jobs : JobInv(j)'
    BY JobInvStable
<1>3. \A c \in Clients : ClientInv(c)'
    BY DEF ClientInv, EvInv, EvidenceInv, EvidenceGrows
<1> QED BY <1>1, <1>2, <1>3 DEF EvidenceInv, JobInv, TypeInv

\* Only the status of row r changes, and not to "ready".
LEMMA StatusInv ==
    ASSUME EvInv, NEW r \in Rows, row[r] # None, NEW s \in Status \ {"ready"},
           row' = [row EXCEPT ![r].status = s],
           UNCHANGED <<registered, indexed, snapshot, embedded>>
    PROVE  /\ EvidenceGrows /\ RowsGrow
           /\ \A q \in Rows : row'[q] = row[q] \/ RowInv(q)'
<1>1. row \in [Rows -> Repository \cup {None}] /\ row[r] \in Repository /\ RowInv(r)
    BY DEF EvInv, EvidenceInv, TypeInv, TypeOK
<1>2. /\ row'[r].status = s /\ row'[r].key = row[r].key /\ row'[r].gid = row[r].gid
      /\ row'[r].latest = row[r].latest /\ row'[r].hist = row[r].hist
      /\ \A q \in Rows : q # r => row'[q] = row[q]
    BY <1>1 DEF Repository
<1>3. RowInv(r)'
    BY <1>1, <1>2 DEF RowInv, Exists, Covered
<1>4. RowsGrow
    BY <1>1, <1>2 DEF RowsGrow
<1> QED BY <1>2, <1>3, <1>4 DEF EvidenceGrows

LEMMA CreateInv ==
    ASSUME EvInv, TypeInv', NEW c \in Clients, NEW r \in Rows, NEW k \in Keys, Create(c, r, k)
    PROVE  EvidenceInv'
<1>1. /\ row \in [Rows -> Repository \cup {None}] /\ client \in [Clients -> Client]
      /\ RowInv(r) /\ r \notin registered
    BY DEF EvInv, EvidenceInv, TypeInv, TypeOK, Create
<1>2. row[r] = None
    BY <1>1 DEF RowInv, Exists
<1>3. /\ \A q \in Rows : q # r => row'[q] = row[q]
      /\ row'[r] = [key |-> k, status |-> "pending", gid |-> None, latest |-> None, hist |-> None]
      /\ registered' = registered \cup {r} /\ UNCHANGED <<job, indexed, snapshot, embedded>>
      /\ \A d \in Clients : d # c => client'[d] = client[d]
      /\ client'[c].row = r
    BY <1>1 DEF Create, evidence
<1>4. RowInv(r)'
    BY <1>3 DEF RowInv, Exists
<1>5. EvidenceGrows /\ RowsGrow
    BY <1>1, <1>2, <1>3 DEF EvidenceGrows, RowsGrow
<1>6. ClientInv(c)'
    BY <1>3 DEF ClientInv
<1> QED BY <1>3, <1>4, <1>5, <1>6, RestStable

LEMMA DeleteInv ==
    ASSUME EvInv, TypeInv', NEW r \in Rows, Delete(r)
    PROVE  EvidenceInv'
<1>1. /\ \A q \in Rows : q # r => row'[q] = row[q]
      /\ row'[r] = None /\ UNCHANGED <<registered, client, job, indexed, snapshot, embedded>>
    BY DEF Delete, evidence, EvInv, TypeInv, TypeOK
<1>2. RowInv(r)'
    BY <1>1 DEF RowInv, Exists
<1>3. EvidenceGrows /\ RowsGrow
    BY <1>1 DEF EvidenceGrows, RowsGrow
<1> QED BY <1>1, <1>2, <1>3, RestStable

LEMMA RetryCommitInv ==
    ASSUME EvInv, TypeInv', NEW c \in Clients, RetryCommit(c)
    PROVE  EvidenceInv'
<1>1. PICK r \in Rows : r = client[c].row
    BY DEF RetryCommit, EvInv, TypeInv, ClientOK
<1>2. /\ row[r] # None /\ row' = [row EXCEPT ![r].status = "pending"]
      /\ UNCHANGED <<registered, job, indexed, snapshot, embedded>>
    BY <1>1 DEF RetryCommit, Exists, evidence
<1>3. /\ EvidenceGrows /\ RowsGrow
      /\ \A q \in Rows : row'[q] = row[q] \/ RowInv(q)'
    BY <1>2, StatusInv DEF Status
<1>4. /\ client'[c].row = r /\ r \in registered /\ registered' = registered
      /\ \A d \in Clients : d # c => client'[d] = client[d]
    BY <1>1, <1>2 DEF RetryCommit, EvInv, EvidenceInv, ClientInv, TypeInv, TypeOK, Client
<1>5. ClientInv(c)'
    BY <1>4 DEF ClientInv
<1> QED BY <1>2, <1>3, <1>4, <1>5, RestStable

LEMMA BeginCommitInv ==
    ASSUME EvInv, TypeInv', NEW j \in Jobs, BeginCommit(j)
    PROVE  EvidenceInv'
<1>1. job[j].pc = "begin_commit" /\ job[j].row \in Rows /\ row[job[j].row] # None
      /\ OwnerInv(j)
    BY BusyJob DEF BeginCommit, At, Exists, RowOf, EvInv, EvidenceInv
<1>r. PICK r \in Rows : r = job[j].row
    BY <1>1
<1>2. /\ row' = [row EXCEPT ![r].status = "indexing"]
      /\ UNCHANGED <<registered, client, indexed, snapshot, embedded>>
    BY <1>r DEF BeginCommit, evidence, RowOf
<1>3. /\ EvidenceGrows /\ RowsGrow
      /\ \A q \in Rows : row'[q] = row[q] \/ RowInv(q)'
    BY <1>1, <1>r, <1>2, StatusInv DEF Status
<1>4. Moved(j, "history") /\ job'[j].cache = None
    BY GotoCachedMoves DEF BeginCommit, EvInv, JobPc
<1>5. JobInv(j)'
    BY <1>1, <1>2, <1>3, <1>4
    DEF JobInv, OwnerInv, CacheInv, StageInv, Moved, At, RowOf, Exists, RowsGrow
<1> QED BY <1>2, <1>3, <1>4, <1>5, RestStable DEF Moved

LEMMA FailCommitInv ==
    ASSUME EvInv, TypeInv', NEW j \in Jobs, FailCommit(j)
    PROVE  EvidenceInv'
<1>1. job[j].row \in Rows /\ row[job[j].row] # None
    BY BusyJob DEF FailCommit, At, Exists, RowOf, EvInv
<1>r. PICK r \in Rows : r = job[j].row
    BY <1>1
<1>2. /\ row' = [row EXCEPT ![r].status = "failed"]
      /\ UNCHANGED <<registered, client, indexed, snapshot, embedded>>
    BY <1>r DEF FailCommit, evidence, RowOf
<1>3. /\ EvidenceGrows /\ RowsGrow
      /\ \A q \in Rows : row'[q] = row[q] \/ RowInv(q)'
    BY <1>1, <1>r, <1>2, StatusInv DEF Status
<1>4. Stopped(j)
    BY StopStops DEF FailCommit, EvInv
<1> QED BY <1>2, <1>3, <1>4, IdleInv, RestStable DEF Stopped

\* The row takes what its thread stored, or keeps what an overlapping run of the
\* same row stored: either way the commit it names is covered.
LEMMA FinishCommitInv ==
    ASSUME EvInv, TypeInv', NEW j \in Jobs, FinishCommit(j)
    PROVE  EvidenceInv'
<1> DEFINE x == job[j]
           r == job[j].row
           g == RepoOf(j)
           new == Flushed(row[r], x.cache, Finished(j))
<1>1. x.pc = "finish_commit" /\ row[r] # None
    BY DEF FinishCommit, At, Exists, RowOf
<1>2. /\ r \in Rows /\ x \in Job /\ g \in Repos /\ row[r] \in Repository
      /\ x.cache \in Repository /\ x.head \in Commits
      /\ row \in [Rows -> Repository \cup {None}]
    BY <1>1, BusyJob DEF EvInv, TypeInv, TypeOK, JobOK, Job, HeadKnownPc
<1>3. /\ row' = [row EXCEPT ![r] = new] /\ new \in Repository
      /\ UNCHANGED <<registered, client, indexed, snapshot, embedded>>
    BY FlushedOK DEF FinishCommit, evidence, RowOf, EvInv
<1>4. /\ Finished(j).status = "ready" /\ Finished(j).gid = g
      /\ Finished(j).latest = x.head /\ Finished(j).hist = x.last
      /\ Finished(j).key = x.cache.key
      /\ DOMAIN Finished(j) = {"key", "status", "gid", "latest", "hist"}
    BY <1>2 DEF Finished, Repository
<1>5. /\ new.status = IF "ready" # x.cache.status THEN "ready" ELSE row[r].status
      /\ new.gid = IF g # x.cache.gid THEN g ELSE row[r].gid
      /\ new.latest = IF x.head # x.cache.latest THEN x.head ELSE row[r].latest
      /\ new.hist = IF x.last # x.cache.hist THEN x.last ELSE row[r].hist
      /\ new.key = row[r].key
    BY <1>4 DEF Flushed
<1>6. /\ JobInv(j) /\ RowInv(r)
      /\ r \in registered /\ row[r].key = x.key
    BY <1>1, <1>2 DEF EvInv, EvidenceInv, JobInv, RowInv, OwnerInv, Exists, RowOf
<1>7. /\ x.last = x.head /\ x.cache.status = "indexing" /\ x.cache # None
      /\ Covered(g, x.head)
    BY <1>1, <1>6 DEF JobInv, StageInv, At, Covered
<1>8. /\ x.cache.gid \in {None, g} /\ x.cache.latest = x.cache.hist
      /\ x.cache.gid # None => row[r].gid # None
      /\ x.cache.latest # None => row[r].latest # None
    BY <1>1, <1>6, <1>7 DEF JobInv, CacheInv, Exists, RowOf
<1>9. /\ row[r].gid \in {None, g} /\ row[r].latest = row[r].hist
      /\ row[r].latest # None => row[r].gid # None /\ Covered(row[r].gid, row[r].latest)
    BY <1>1, <1>6 DEF RowInv, Exists, RepoOf
<1>10. g # None /\ x.head # None
    BY <1>2, ConstantsAssumption
<1> HIDE DEF new, g
<1>11. new.gid = g /\ new.status = "ready"
    BY <1>5, <1>7, <1>8, <1>9
<1>12. new.latest = new.hist /\ new.latest # None /\ Covered(g, new.latest)
    BY <1>5, <1>7, <1>8, <1>9, <1>10
<1>13. /\ row'[r] = new /\ \A q \in Rows : q # r => row'[q] = row[q]
    BY <1>2, <1>3
<1>14. g = GithubId[new.key]
    BY <1>5, <1>6 DEF g, RepoOf
<1>15. ASSUME NEW q \in Rows, q = r PROVE RowInv(q)'
    BY <1>3, <1>6, <1>10, <1>11, <1>12, <1>13, <1>14, <1>15 DEF RowInv, Exists, Covered
<1>16. RowsGrow
    BY <1>1, <1>2, <1>5, <1>10, <1>11, <1>12, <1>13 DEF RowsGrow
<1>17. EvidenceGrows
    BY <1>3 DEF EvidenceGrows
<1>18. Stopped(j)
    BY StopStops DEF FinishCommit, EvInv
<1>19. /\ \A q \in Rows : row'[q] = row[q] \/ RowInv(q)'
       /\ \A i \in Jobs : job'[i] = job[i] \/ JobInv(i)'
       /\ \A c \in Clients : client'[c] = client[c]
    BY <1>3, <1>13, <1>15, <1>18, IdleInv DEF Stopped
<1> QED BY <1>16, <1>17, <1>19, RestStable

-----------------------------------------------------------------------------
(* The steps that store evidence *)

LEMMA IndexCommitInv ==
    ASSUME EvInv, TypeInv', NEW j \in Jobs, NEW c \in Commits, IndexCommit(j, c)
    PROVE  EvidenceInv'
<1> DEFINE x == job[j]
           h == job[j].head
           g == RepoOf(j)
           rest == x.todo \ {c}
<1>1. /\ x.pc = "index" /\ x \in Job /\ g \in Repos /\ h \in Commits /\ h # None
      /\ job \in [Jobs -> Job] /\ indexed \in [Repos -> SUBSET Commits]
      /\ rest \in SUBSET Commits
    BY BusyJob DEF IndexCommit, At, EvInv, TypeInv, TypeOK, JobOK, Job, HeadKnownPc
<1>2. /\ c \in x.todo /\ Ancestors[c] \cap x.todo = {c}
      /\ indexed' = [indexed EXCEPT ![g] = @ \cup {c}]
      /\ UNCHANGED <<row, registered, client, snapshot, embedded>>
      /\ job' = [job EXCEPT ![j] = [x EXCEPT !.pc = IndexPc(rest), !.todo = rest, !.last = c]]
    BY DEF IndexCommit, table
<1>3. StageInv(j) /\ ObjectOK(x.key, x.row, x.cache)
    BY <1>1, ObjectInv DEF EvInv, EvidenceInv
<1>4. /\ h \in x.todo /\ x.todo \subseteq Ancestors[h]
      /\ Ancestors[h] \ x.todo \subseteq indexed[g]
    BY <1>1, <1>3 DEF StageInv, At
<1>5. /\ EvidenceGrows /\ RowsGrow /\ indexed'[g] = indexed[g] \cup {c}
    BY <1>1, <1>2 DEF EvidenceGrows, RowsGrow
<1>6. rest \subseteq Ancestors[h] /\ Ancestors[h] \ rest \subseteq indexed[g] \cup {c}
    BY <1>4
<1>7. IF c = h THEN rest = {} ELSE h \in rest
    BY <1>2, <1>4
<1> HIDE DEF rest
<1>8. /\ \A i \in Jobs : i # j => job'[i] = job[i]
      /\ job'[j].pc = IndexPc(rest) /\ job'[j].todo = rest /\ job'[j].last = c
      /\ job'[j].row = x.row /\ job'[j].key = x.key /\ job'[j].head = h
      /\ job'[j].cache = x.cache
    BY <1>1, <1>2 DEF Job
<1>9. OwnerInv(j)' /\ CacheInv(j)'
    BY <1>1, <1>2, <1>3, <1>8, MovedOwner DEF IndexPc
<1>10. CASE rest = {}
    <2>1. c = h /\ Ancestors[h] \subseteq indexed'[g] /\ job'[j].pc = "snapshot"
        BY <1>5, <1>6, <1>7, <1>8, <1>10 DEF IndexPc
    <2> QED BY <1>1, <1>2, <1>8, <1>9, <2>1, <1>5, RestStable DEF JobInv, StageInv, At, RepoOf
<1>11. CASE rest # {}
    <2>1. h \in rest /\ job'[j].pc = "index"
        BY <1>2, <1>4, <1>7, <1>8, <1>11 DEF IndexPc, rest
    <2> QED BY <1>1, <1>2, <1>5, <1>6, <1>8, <1>9, <2>1, RestStable DEF JobInv, StageInv, At, RepoOf
<1> QED BY <1>10, <1>11

LEMMA SaveSnapshotInv ==
    ASSUME EvInv, TypeInv', NEW j \in Jobs, SaveSnapshot(j)
    PROVE  EvidenceInv'
<1>1. /\ job[j].pc = "snapshot" /\ RepoOf(j) \in Repos
      /\ StageInv(j) /\ ObjectOK(job[j].key, job[j].row, job[j].cache)
    BY BusyJob, ObjectInv DEF SaveSnapshot, At, EvInv, EvidenceInv
<1>2. /\ Moved(j, "chunk_read") /\ job'[j].cache = job[j].cache
      /\ UNCHANGED <<row, registered, client, indexed, embedded>>
    BY GotoMoves DEF SaveSnapshot, EvInv, JobPc, table
<1>3. /\ EvidenceGrows /\ RowsGrow
      /\ snapshot'[RepoOf(j)] = snapshot[RepoOf(j)] \cup {job[j].head}
    BY <1>1, <1>2 DEF SaveSnapshot, EvidenceGrows, RowsGrow, EvInv, TypeInv, TypeOK
<1>4. OwnerInv(j)' /\ CacheInv(j)'
    BY <1>1, <1>2, MovedOwner DEF Moved
<1>5. StageInv(j)'
    BY <1>1, <1>2, <1>3 DEF StageInv, Moved, At, RepoOf
<1> QED BY <1>2, <1>3, <1>4, <1>5, RestStable DEF JobInv, Moved

LEMMA UpsertChunksInv ==
    ASSUME EvInv, TypeInv', NEW j \in Jobs, UpsertChunks(j)
    PROVE  EvidenceInv'
<1>1. /\ job[j].pc = "chunk_commit" /\ RepoOf(j) \in Repos /\ StageInv(j)
      /\ job[j] \in Job /\ job \in [Jobs -> Job]
    BY BusyJob DEF UpsertChunks, At, EvInv, EvidenceInv, TypeInv, TypeOK
<1>2. /\ \A i \in Jobs : i # j => job'[i] = job[i]
      /\ job'[j].pc = "finish_read" /\ job'[j].cache = None
      /\ job'[j].row = job[j].row /\ job'[j].key = job[j].key
      /\ job'[j].head = job[j].head /\ job'[j].last = job[j].last
      /\ UNCHANGED <<row, registered, client, indexed, snapshot>>
    BY <1>1 DEF UpsertChunks, table, Job
<1>3. /\ EvidenceGrows /\ RowsGrow
      /\ embedded'[RepoOf(j)] = embedded[RepoOf(j)] \cup job[j].new
    BY <1>1, <1>2 DEF UpsertChunks, EvidenceGrows, RowsGrow, EvInv, TypeInv, TypeOK
<1>4. OwnerInv(j)' /\ CacheInv(j)'
    BY <1>1, <1>2, MovedOwner DEF ObjectOK
<1>5. StageInv(j)'
    BY <1>1, <1>2, <1>3 DEF StageInv, At, RepoOf
<1> QED BY <1>2, <1>3, <1>4, <1>5, RestStable DEF JobInv

-----------------------------------------------------------------------------

LEMMA NextEvInv == EvInv /\ [Next]_vars => EvInv'
<1> SUFFICES ASSUME EvInv, [Next]_vars PROVE EvidenceInv'
    BY NextTypeInv DEF EvInv
<1>0. TypeInv' /\ TypeInv
    BY NextTypeInv DEF EvInv
<1>1. ASSUME UNCHANGED <<row, registered, indexed, snapshot, embedded>>
      PROVE  EvidenceGrows /\ RowsGrow /\ \A r \in Rows : row'[r] = row[r]
    BY <1>1 DEF EvidenceGrows, RowsGrow
<1>2. ASSUME NEW c \in Clients, NEW r \in Rows, RetryRead(c, r) PROVE EvidenceInv'
    <2>1. /\ UNCHANGED <<row, registered, indexed, snapshot, embedded, job>>
          /\ row[r] # None /\ client'[c].row = r /\ RowInv(r)
          /\ \A d \in Clients : d # c => client'[d] = client[d]
        BY <1>2 DEF RetryRead, Exists, table, evidence, EvInv, EvidenceInv, TypeInv, TypeOK
    <2>2. ClientInv(c)'
        BY <2>1 DEF ClientInv, RowInv, Exists
    <2> QED BY <1>0, <1>1, <2>1, <2>2, RestStable
<1>3. ASSUME NEW c \in Clients, RetryCommitFails(c) \/ DispatchFails(c) PROVE EvidenceInv'
    <2>1. /\ UNCHANGED <<row, registered, indexed, snapshot, embedded, job>>
          /\ client'[c] = IdleClient
          /\ \A d \in Clients : d # c => client'[d] = client[d]
        BY <1>3 DEF RetryCommitFails, DispatchFails, table, evidence, EvInv, TypeInv, TypeOK
    <2>2. ClientInv(c)'
        BY <2>1 DEF ClientInv, IdleClient
    <2> QED BY <1>0, <1>1, <2>1, <2>2, RestStable
<1>4. ASSUME NEW k \in Keys, NEW c \in Commits, Push(k, c) PROVE EvidenceInv'
    <2>1. UNCHANGED <<row, registered, indexed, snapshot, embedded, job, client>>
        BY <1>4 DEF Push, table, evidence
    <2> QED BY <1>0, <1>1, <2>1, RestStable
<1>5. ASSUME NEW c \in Clients, NEW j \in Jobs, Dispatch(c, j) PROVE EvidenceInv'
    <2> DEFINE r == client[c].row
    <2>1. r \in Rows /\ row[r] \in Repository /\ r \in registered
        BY <1>5 DEF Dispatch, Exists, EvInv, EvidenceInv, ClientInv, TypeInv, TypeOK, ClientOK
    <2>2. /\ UNCHANGED <<row, registered, indexed, snapshot, embedded>>
          /\ \A i \in Jobs : i # j => job'[i] = job[i]
          /\ \A d \in Clients : d # c => client'[d] = client[d]
          /\ client'[c] = IdleClient
          /\ job'[j] = [IdleJob EXCEPT !.pc = "created", !.row = r, !.key = row[r].key]
        BY <1>5 DEF Dispatch, table, evidence, EvInv, TypeInv, TypeOK
    <2>3. /\ job'[j].pc = "created" /\ job'[j].row = r /\ job'[j].key = row[r].key
          /\ job'[j].cache = None
        BY <2>2 DEF IdleJob
    <2>4. JobInv(j)'
        BY <2>1, <2>2, <2>3 DEF JobInv, OwnerInv, CacheInv, StageInv, At, RowOf, Repository
    <2>5. ClientInv(c)'
        BY <2>2 DEF ClientInv, IdleClient
    <2> QED BY <1>0, <1>1, <2>2, <2>4, <2>5, RestStable
<1>6. ASSUME NEW j \in Jobs, LocalStep(j) PROVE EvidenceInv'
    <2>1. UNCHANGED <<table, head, client, evidence>>
        BY <1>6 DEF LocalStep, SetupFails, BeginRead, BeginReadFails, ImportHistory, Clone,
           LoadCheckpoint, FindExistingChunks, StageFails, FinishRead, CommitFails,
           FailRead, FailReadFails, FailCommitFails
    <2>2. PICK x : job' = [job EXCEPT ![j] = x]
        BY <1>0, <1>6, LocalStepOK
    <2>3. \A i \in Jobs : i # j => job'[i] = job[i]
        BY <1>0, <2>2 DEF TypeInv, TypeOK
    <2>4. JobInv(j)'
        BY <1>0, <1>6, LocalStepInv
    <2> QED BY <1>0, <1>1, <2>1, <2>3, <2>4, RestStable DEF table, evidence
<1>7. ASSUME Crash PROVE EvidenceInv'
    <2>1. /\ UNCHANGED <<row, registered, indexed, snapshot, embedded>>
          /\ \A j \in Jobs : job'[j] = IdleJob
          /\ \A c \in Clients : client'[c] = IdleClient
        BY <1>7 DEF Crash, table, evidence
    <2>2. \A c \in Clients : ClientInv(c)'
        BY <2>1 DEF ClientInv, IdleClient
    <2> QED BY <1>0, <1>1, <2>1, <2>2, IdleInv, RestStable
<1>8. CASE UNCHANGED vars
    BY <1>0, <1>1, <1>8, RestStable DEF vars
<1> QED
    BY <1>0, <1>2, <1>3, <1>4, <1>5, <1>6, <1>7, <1>8, CreateInv, DeleteInv, RetryCommitInv,
       BeginCommitInv, FailCommitInv, FinishCommitInv, IndexCommitInv, SaveSnapshotInv,
       UpsertChunksInv
    DEF Next, Request, ClientStep, JobStep, LocalStep

LEMMA InitEvInv == Init => EvInv
<1> SUFFICES ASSUME Init PROVE EvInv
    OBVIOUS
<1>1. TypeInv
    BY InitTypeInv
<1>2. \A r \in Rows : RowInv(r)
    BY DEF Init, RowInv, Exists
<1>3. \A j \in Jobs : JobInv(j)
    BY DEF Init, JobInv, OwnerInv, CacheInv, StageInv, At, IdleJob
<1>4. \A c \in Clients : ClientInv(c)
    BY DEF Init, ClientInv, IdleClient
<1> QED BY <1>1, <1>2, <1>3, <1>4 DEF EvInv, EvidenceInv, TypeInv, JobInv

\* The inductive invariant holds in every reachable state, under every fault.
THEOREM EvidenceInvariant == Spec => []EvidenceInv
<1>1. EvInv => EvidenceInv
    BY DEF EvInv
<1> QED BY <1>1, InitEvInv, NextEvInv, PTL DEF Spec

\* A row shown as ready has its GitHub id, its code graph and an embedding of
\* every method version of the commit it names.
THEOREM ReadySearchable == Spec => []ReadyIsSearchable
<1>1. EvidenceInv => ReadyIsSearchable
    BY DEF EvidenceInv, ReadyIsSearchable, RowInv, Covered
<1> QED BY <1>1, EvidenceInvariant, PTL

\* Resuming after history_indexed_sha skips no commit.
THEOREM CheckpointSafe == Spec => []CheckpointCovered
<1>1. EvidenceInv => CheckpointCovered
    BY DEF EvidenceInv, CheckpointCovered, RowInv, Covered
<1> QED BY <1>1, EvidenceInvariant, PTL

-----------------------------------------------------------------------------
(* One request at a time: statuses follow their table, publications advance   *)
(*                                                                           *)
(* Nothing orders two overlapping retries of a row, so both properties are    *)
(* about a server that handles one request at a time; analyses still overlap  *)
(* with requests, with one another, and with every fault.                     *)

OneRequest == \A c, d \in Clients : c = d

IndexingPc == {"history", "clone", "checkpoint", "index", "snapshot", "chunk_read",
               "chunk_commit", "finish_read", "finish_commit", "fail_commit"}
LoadedPc == {"index", "snapshot", "chunk_read", "chunk_commit", "finish_read", "finish_commit"}

\* What the record x of a thread says about its row o while the row exists.
Fits(x, o) ==
    o # None =>
        /\ x.pc \in {"created", "begin_commit"} => o.status = "pending"
        /\ x.pc = "created" => x.cache = None
        /\ x.pc \in IndexingPc => o.status = "indexing"
        /\ x.pc = "fail_read" =>
              /\ o.status \in {"pending", "indexing"}
              /\ x.cache # None /\ x.cache.status = "indexing" => o.status = "indexing"
        /\ x.pc \in LoadedPc /\ o.latest # None => o.latest \in Ancestors[x.head]

Busy(j, r)     == job[j].pc # "idle" /\ RowOf(j) = r
Handling(c, r) == client[c].pc # "idle" /\ client[c].row = r

Claimed(c, r) ==
    /\ \A j \in Jobs : ~Busy(j, r)
    /\ Exists(r) => row[r].status \in IF client[c].pc = "dispatch"
                                      THEN {"pending"} ELSE {"failed", "ready"}

\* A row has one thread at most, which agrees with it; a request for a row comes
\* before any thread for it.
SoleInv ==
    /\ \A i, j \in Jobs, r \in Rows : Busy(i, r) /\ Busy(j, r) => i = j
    /\ \A j \in Jobs, r \in Rows : Busy(j, r) => Fits(job[j], row[r])
    /\ \A c \in Clients, r \in Rows : Handling(c, r) => Claimed(c, r)

\* A thread that keeps to its row, or stops, and writes no other row.
LEMMA SoleThread ==
    ASSUME SoleInv, NEW j \in Jobs, NEW r \in Rows, Busy(j, r), client' = client,
           \A i \in Jobs : i # j => job'[i] = job[i],
           \A q \in Rows : q # r => row'[q] = row[q],
           job'[j] = IdleJob \/ (job'[j].row = r /\ Fits(job'[j], row'[r]))
    PROVE  SoleInv'
<1>1. \A i \in Jobs, q \in Rows : Busy(i, q)' => Busy(i, q)
    BY DEF Busy, RowOf, IdleJob
<1>2. \A i \in Jobs : Busy(i, r)' => i = j
    BY <1>1 DEF SoleInv
<1>3. \A i \in Jobs, q \in Rows : Busy(i, q)' => Fits(job'[i], row'[q])
    <2> SUFFICES ASSUME NEW i \in Jobs, NEW q \in Rows, Busy(i, q)'
                 PROVE  Fits(job'[i], row'[q])
        OBVIOUS
    <2>1. CASE i = j
        BY <2>1, <1>1 DEF Busy, RowOf, IdleJob
    <2>2. CASE i # j
        <3>1. q # r
            BY <2>2, <1>2
        <3> QED BY <2>2, <3>1, <1>1 DEF SoleInv
    <2> QED BY <2>1, <2>2
<1>4. \A c \in Clients, q \in Rows : Handling(c, q)' => Claimed(c, q)'
    <2> SUFFICES ASSUME NEW c \in Clients, NEW q \in Rows, Handling(c, q)'
                 PROVE  Claimed(c, q)'
        OBVIOUS
    <2>1. Claimed(c, q)
        BY DEF SoleInv, Handling
    <2>2. q # r
        BY <2>1 DEF Claimed
    <2> QED BY <2>1, <2>2, <1>1 DEF Claimed, Exists
<1> QED BY <1>1, <1>3, <1>4 DEF SoleInv

LEMMA RowsStay ==
    ASSUME EvInv, row' = row
    PROVE  StatusFollows /\ MovesForward
BY HistoryAssumption DEF StatusFollows, MovesForward, Exists, EvInv, TypeInv, TypeOK, Repository

\* A step of a thread that writes no row: the thread stops, or still fits.
LEMMA LocalFits ==
    ASSUME EvInv, SoleInv, TypeInv', NEW j \in Jobs, LocalStep(j)
    PROVE  \/ job'[j] = IdleJob
           \/ /\ job[j].pc # "idle" /\ job'[j].row = job[j].row
              /\ Fits(job'[j], row[job[j].row])
<1> DEFINE x == job[j]
           o == row[x.row]
<1>1. x.pc # "idle"
    BY DEF LocalStep, SetupFails, BeginRead, BeginReadFails, ImportHistory, Clone,
           LoadCheckpoint, FindExistingChunks, StageFails, FinishRead, CommitFails,
           FailRead, FailReadFails, FailCommitFails, At
<1>2. /\ x \in Job /\ x.row \in Rows /\ x.pc \in JobPc /\ TypeInv
      /\ o \in Repository \cup {None} /\ job \in [Jobs -> Job]
    BY <1>1, BusyJob DEF EvInv, TypeInv, TypeOK, Job
<1>3. Fits(x, o)
    BY <1>1, <1>2 DEF SoleInv, Busy, RowOf
<1>4. ASSUME Stop(j) PROVE job'[j] = IdleJob
    BY <1>2, <1>4, StopStops DEF Stopped
<1>5. ASSUME NEW pc \in PlainPc, NEW c, GotoCached(j, pc, c),
             Fits([pc |-> pc, cache |-> c], o)
      PROVE  job'[j].row = x.row /\ Fits(job'[j], o)
    <2>1. job'[j].pc = pc /\ job'[j].cache = c /\ job'[j].row = x.row
        BY <1>2, <1>5, GotoCachedMoves DEF Moved, PlainPc, JobPc
    <2> QED BY <1>5, <2>1 DEF Fits, PlainPc, LoadedPc
<1>6. ASSUME NEW pc \in PlainPc, Goto(j, pc), Fits([pc |-> pc, cache |-> x.cache], o)
      PROVE  job'[j].row = x.row /\ Fits(job'[j], o)
    <2>1. job'[j].pc = pc /\ job'[j].cache = x.cache /\ job'[j].row = x.row
        BY <1>2, <1>6, GotoMoves DEF Moved, PlainPc, JobPc
    <2> QED BY <1>6, <2>1 DEF Fits, PlainPc, LoadedPc
<1>7. CASE SetupFails(j) \/ FailReadFails(j) \/ FailCommitFails(j)
    BY <1>4, <1>7 DEF SetupFails, FailReadFails, FailCommitFails
<1>8. CASE BeginRead(j)
    <2>1. /\ x.pc = "created"
          /\ IF o # None /\ o.status = "pending" THEN GotoCached(j, "begin_commit", o)
                                                 ELSE GotoCached(j, "fail_read", o)
        BY <1>8 DEF BeginRead, At, RowOf
    <2>2. o # None => o.status = "pending"
        BY <1>3, <2>1 DEF Fits
    <2>3. \A pc \in {"begin_commit", "fail_read"} :
             (pc = "begin_commit" <=> o # None) => Fits([pc |-> pc, cache |-> o], o)
        BY <2>2 DEF Fits, IndexingPc, LoadedPc
    <2> QED BY <1>1, <1>5, <2>1, <2>2, <2>3 DEF PlainPc
<1>9. CASE BeginReadFails(j) \/ ImportHistory(j)
    <2>1. Fits(x, o) /\ x.pc \in {"created", "history"}
        BY <1>3, <1>9 DEF BeginReadFails, ImportHistory, At
    <2>2. /\ x.pc = "created" => Fits([pc |-> "fail_read", cache |-> x.cache], o)
          /\ x.pc = "history" => Fits([pc |-> "clone", cache |-> x.cache], o)
        BY <2>1 DEF Fits, IndexingPc, LoadedPc
    <2> QED BY <1>1, <1>6, <1>9, <2>2 DEF BeginReadFails, ImportHistory, PlainPc, At
<1>10. CASE Clone(j)
    <2>1. /\ x.pc = "clone" /\ job'[j].pc = "checkpoint"
          /\ job'[j].row = x.row
        BY <1>2, <1>10 DEF Clone, At, Job
    <2> QED BY <1>1, <1>3, <2>1 DEF Fits, IndexingPc, LoadedPc
<1>11. CASE LoadCheckpoint(j)
    <2> DEFINE checkpoint == IF o = None THEN None ELSE o.hist
               todo       == CommitsAfter(x.head, checkpoint)
    <2>1. x.pc = "checkpoint" /\ (o # None => o.status = "indexing")
        BY <1>3, <1>11 DEF LoadCheckpoint, At, Fits, IndexingPc
    <2>2. CASE CanIndex(x.head, checkpoint)
        <3>1. o # None /\ o.latest # None => o.latest \in Ancestors[x.head]
            BY <1>2, <2>2 DEF CanIndex, EvInv, EvidenceInv, RowInv, Exists
        <3>2. job' = [job EXCEPT ![j] = [x EXCEPT !.pc = IndexPc(todo), !.cache = o,
                                                  !.todo = todo, !.last = checkpoint]]
            BY <1>11, <2>2 DEF LoadCheckpoint, RowOf
        <3> HIDE DEF checkpoint, todo
        <3>3. /\ job'[j].row = x.row /\ job'[j].head = x.head
              /\ job'[j].pc \in {"index", "snapshot"}
            BY <1>2, <3>2 DEF Job, IndexPc
        <3> QED BY <1>1, <2>1, <3>1, <3>3 DEF Fits, IndexingPc
    <2>3. CASE ~CanIndex(x.head, checkpoint)
        <3>1. GotoCached(j, "fail_read", o)
            BY <1>11, <2>3 DEF LoadCheckpoint, RowOf
        <3>2. Fits([pc |-> "fail_read", cache |-> o], o)
            BY <2>1 DEF Fits, IndexingPc, LoadedPc
        <3> QED BY <1>1, <1>5, <3>1, <3>2 DEF PlainPc
    <2> QED BY <2>2, <2>3
<1>12. CASE FindExistingChunks(j)
    <2>1. /\ x.pc = "chunk_read" /\ job'[j].pc \in {"finish_read", "chunk_commit"}
          /\ job'[j].row = x.row /\ job'[j].head = x.head
        BY <1>2, <1>12 DEF FindExistingChunks, NewVersions, At, Job
    <2> QED BY <1>1, <1>3, <2>1 DEF Fits, IndexingPc, LoadedPc
<1>13. CASE StageFails(j)
    <2>1. PICK c \in {x.cache, None} : GotoCached(j, "fail_read", c)
        BY <1>13 DEF StageFails
    <2>2. x.pc \in IndexingPc
        BY <1>13 DEF StageFails, IndexingPc
    <2>3. Fits([pc |-> "fail_read", cache |-> c], o)
        BY <1>3, <2>2 DEF Fits, IndexingPc, LoadedPc
    <2> QED BY <1>1, <1>5, <2>1, <2>3 DEF PlainPc
<1>14. CASE FinishRead(j)
    <2>1. x.pc = "finish_read"
        BY <1>14 DEF FinishRead, At
    <2>2. \/ Stop(j) \/ GotoCached(j, "fail_read", Loaded(j))
          \/ GotoCached(j, "finish_commit", Loaded(j))
        BY <1>14 DEF FinishRead
    <2>3. Fits([pc |-> "fail_read", cache |-> Loaded(j)], o)
        BY <1>3, <2>1 DEF Fits, IndexingPc, LoadedPc
    <2>4. CASE GotoCached(j, "finish_commit", Loaded(j))
        <3>1. Moved(j, "finish_commit")
            BY <1>2, <2>4, GotoCachedMoves DEF JobPc
        <3> QED BY <1>1, <1>3, <2>1, <3>1 DEF Moved, Fits, IndexingPc, LoadedPc
    <2> QED BY <1>1, <1>4, <1>5, <2>2, <2>3, <2>4 DEF PlainPc
<1>15. CASE CommitFails(j)
    <2>1. GotoCached(j, "fail_read", None) /\ x.pc \in {"begin_commit", "finish_commit"}
        BY <1>15 DEF CommitFails, At
    <2>2. Fits([pc |-> "fail_read", cache |-> None], o)
        BY <1>3, <2>1 DEF Fits, IndexingPc, LoadedPc
    <2> QED BY <1>1, <1>5, <2>1, <2>2 DEF PlainPc
<1>16. CASE FailRead(j)
    <2>1. /\ x.pc = "fail_read"
          /\ \/ Stop(j)
             \/ GotoCached(j, "fail_commit", Loaded(j)) /\ Loaded(j).status = "indexing"
        BY <1>16 DEF FailRead, At
    <2>2. Loaded(j).status = "indexing" => Fits([pc |-> "fail_commit", cache |-> Loaded(j)], o)
        BY <1>3, <2>1 DEF Fits, IndexingPc, LoadedPc, Loaded, RowOf
    <2> QED BY <1>1, <1>4, <1>5, <2>1, <2>2 DEF PlainPc
<1> QED
    BY <1>7, <1>8, <1>9, <1>10, <1>11, <1>12, <1>13, <1>14, <1>15, <1>16 DEF LocalStep

\* A step that writes one row, to record new, moves its status along the table
\* and its commit forward.
LEMMA RowMoves ==
    ASSUME EvInv, NEW r \in Rows, NEW new, row' = [row EXCEPT ![r] = new],
           row[r] # None /\ new # None =>
              /\ new.status # row[r].status => <<row[r].status, new.status>> \in ValidTransitions
              /\ row[r].latest # None => row[r].latest \in Ancestors[new.latest]
    PROVE  StatusFollows /\ MovesForward
<1>1. /\ row'[r] = new /\ \A q \in Rows : q # r => row'[q] = row[q]
      /\ row \in [Rows -> Repository \cup {None}]
    BY DEF EvInv, TypeInv, TypeOK
<1> QED BY <1>1, HistoryAssumption DEF StatusFollows, MovesForward, Exists, Repository

LEMMA CreateSole ==
    ASSUME OneRequest, EvInv, SoleInv,
           NEW c \in Clients, NEW r \in Rows, NEW k \in Keys, Create(c, r, k)
    PROVE  SoleInv' /\ StatusFollows /\ MovesForward
<1> DEFINE new == [key |-> k, status |-> "pending", gid |-> None, latest |-> None, hist |-> None]
<1>1. /\ row' = [row EXCEPT ![r] = new] /\ job' = job /\ r \notin registered
      /\ client' = [client EXCEPT ![c] = [pc |-> "dispatch", row |-> r]]
    BY DEF Create
<1>2. row[r] = None /\ \A j \in Jobs : ~Busy(j, r)
    BY <1>1 DEF EvInv, EvidenceInv, RowInv, OwnerInv, Exists, Busy
<1>3. StatusFollows /\ MovesForward
    BY <1>1, <1>2, RowMoves
<1>4. /\ row'[r].status = "pending" /\ \A q \in Rows : q # r => row'[q] = row[q]
      /\ client'[c].pc = "dispatch" /\ client'[c].row = r
    BY <1>1 DEF EvInv, TypeInv, TypeOK
<1>5. \A j \in Jobs, q \in Rows : Busy(j, q)' => Busy(j, q) /\ q # r
    BY <1>1, <1>2 DEF Busy, RowOf
<1>6. \A d \in Clients, q \in Rows : Handling(d, q)' => d = c /\ q = r
    BY <1>4 DEF Handling, OneRequest
<1>7. Claimed(c, r)'
    BY <1>4, <1>5 DEF Claimed
<1>8. \A j \in Jobs, q \in Rows : Busy(j, q)' => Fits(job'[j], row'[q])
    BY <1>1, <1>4, <1>5 DEF SoleInv
<1> QED BY <1>3, <1>5, <1>6, <1>7, <1>8 DEF SoleInv

\* No row is written and no thread moves: the requests alone matter.
LEMMA RequestSole ==
    ASSUME OneRequest, EvInv, SoleInv, row' = row, job' = job, NEW c \in Clients,
           \A r \in Rows : Handling(c, r)' => Claimed(c, r)'
    PROVE  SoleInv' /\ StatusFollows /\ MovesForward
<1>1. \A j \in Jobs, q \in Rows : Busy(j, q)' <=> Busy(j, q)
    BY DEF Busy, RowOf
<1>2. \A d \in Clients : d = c
    BY DEF OneRequest
<1> QED BY <1>1, <1>2, RowsStay DEF SoleInv

LEMMA RetryCommitSole ==
    ASSUME OneRequest, EvInv, SoleInv, NEW c \in Clients, RetryCommit(c)
    PROVE  SoleInv' /\ StatusFollows /\ MovesForward
<1>1. PICK r \in Rows : r = client[c].row
    BY DEF RetryCommit, EvInv, TypeInv, ClientOK
<1>2. /\ client[c].pc = "retry" /\ row[r] \in Repository /\ row[r] # None
      /\ row' = [row EXCEPT ![r].status = "pending"] /\ job' = job
      /\ client[c] \in Client /\ row \in [Rows -> Repository \cup {None}]
      /\ client'[c].row = r /\ client'[c].pc = "dispatch"
    BY <1>1 DEF RetryCommit, Exists, EvInv, TypeInv, TypeOK, Client
<1>3. Claimed(c, r)
    BY <1>1, <1>2 DEF SoleInv, Handling
<1>4. row[r].status \in {"failed", "ready"} /\ \A j \in Jobs : ~Busy(j, r)
    BY <1>2, <1>3 DEF Claimed, Exists
<1> DEFINE new == [row[r] EXCEPT !.status = "pending"]
<1>5. /\ new.status = "pending" /\ new.latest = row[r].latest
      /\ row' = [row EXCEPT ![r] = new]
      /\ row'[r] = new /\ \A q \in Rows : q # r => row'[q] = row[q]
    BY <1>2 DEF Repository
<1>6. row[r].latest # None => row[r].latest \in Ancestors[row[r].latest]
    BY <1>2, HistoryAssumption DEF Repository
<1> HIDE DEF new
<1>7. StatusFollows /\ MovesForward
    BY <1>4, <1>5, <1>6, RowMoves DEF ValidTransitions
<1>8. \A j \in Jobs, q \in Rows : Busy(j, q)' => Busy(j, q) /\ q # r
    BY <1>2, <1>4 DEF Busy, RowOf
<1>9. \A d \in Clients, q \in Rows : Handling(d, q)' => d = c /\ q = r
    BY <1>2 DEF Handling, OneRequest
<1>10. Claimed(c, r)'
    BY <1>2, <1>5, <1>8 DEF Claimed
<1>11. \A j \in Jobs, q \in Rows : Busy(j, q)' => Fits(job'[j], row'[q])
    BY <1>2, <1>5, <1>8 DEF SoleInv
<1> QED BY <1>7, <1>8, <1>9, <1>10, <1>11 DEF SoleInv

LEMMA DeleteSole ==
    ASSUME EvInv, SoleInv, NEW r \in Rows, Delete(r)
    PROVE  SoleInv' /\ StatusFollows /\ MovesForward
<1>1. /\ row' = [row EXCEPT ![r] = None] /\ job' = job /\ client' = client
      /\ row'[r] = None /\ \A q \in Rows : q # r => row'[q] = row[q]
    BY DEF Delete, EvInv, TypeInv, TypeOK
<1>2. \A j \in Jobs, q \in Rows : Busy(j, q)' <=> Busy(j, q)
    BY <1>1 DEF Busy, RowOf
<1>3. \A j \in Jobs, q \in Rows : Busy(j, q)' => Fits(job'[j], row'[q])
    BY <1>1, <1>2 DEF SoleInv, Fits
<1>4. \A d \in Clients, q \in Rows : Handling(d, q)' => Claimed(d, q)'
    BY <1>1, <1>2 DEF SoleInv, Handling, Claimed, Exists
<1> QED BY <1>1, <1>2, <1>3, <1>4, RowMoves DEF SoleInv

LEMMA DispatchSole ==
    ASSUME OneRequest, EvInv, SoleInv, NEW c \in Clients, NEW j \in Jobs, Dispatch(c, j)
    PROVE  SoleInv' /\ StatusFollows /\ MovesForward
<1>1. PICK r \in Rows : r = client[c].row
    BY DEF Dispatch, EvInv, TypeInv, ClientOK, Exists
<1>2. /\ client[c].pc = "dispatch" /\ row[r] # None /\ job[j].pc = "idle" /\ row' = row
      /\ client' = [client EXCEPT ![c] = IdleClient]
      /\ job' = [job EXCEPT ![j] = [IdleJob EXCEPT !.pc = "created", !.row = r,
                                                   !.key = row[r].key]]
    BY <1>1 DEF Dispatch, table, Exists
<1>3. /\ \A i \in Jobs : i # j => job'[i] = job[i]
      /\ job'[j].pc = "created" /\ job'[j].row = r /\ job'[j].cache = None
      /\ client'[c].pc = "idle"
    BY <1>2 DEF EvInv, TypeInv, TypeOK, IdleJob, IdleClient
<1>4. Claimed(c, r)
    BY <1>1, <1>2 DEF SoleInv, Handling
<1>5. row[r].status = "pending" /\ \A i \in Jobs : ~Busy(i, r)
    BY <1>2, <1>4 DEF Claimed, Exists
<1>6. \A i \in Jobs, q \in Rows : Busy(i, q)' => IF i = j THEN q = r ELSE Busy(i, q)
    BY <1>3 DEF Busy, RowOf
<1>7. \A i \in Jobs, q \in Rows : Busy(i, q)' => Fits(job'[i], row'[q])
    <2>1. Fits(job'[j], row'[r])
        BY <1>2, <1>3, <1>5 DEF Fits, IndexingPc, LoadedPc
    <2> QED BY <1>2, <1>3, <1>6, <2>1 DEF SoleInv
<1>8. \A d \in Clients, q \in Rows : ~Handling(d, q)'
    BY <1>3 DEF Handling, OneRequest
<1> QED BY <1>2, <1>5, <1>6, <1>7, <1>8, RowsStay DEF SoleInv

\* A thread that writes its row.
LEMMA BeginFailSole ==
    ASSUME EvInv, SoleInv, TypeInv', NEW j \in Jobs, BeginCommit(j) \/ FailCommit(j)
    PROVE  SoleInv' /\ StatusFollows /\ MovesForward
<1>1. PICK r \in Rows : r = job[j].row
    BY BusyJob DEF BeginCommit, FailCommit, At, EvInv
<1>2. Busy(j, r) /\ row[r] # None /\ row[r] \in Repository /\ client' = client
    BY <1>1 DEF BeginCommit, FailCommit, At, Busy, RowOf, Exists, EvInv, TypeInv, TypeOK
<1>3. Fits(job[j], row[r])
    BY <1>2 DEF SoleInv
<1> DEFINE new == [row[r] EXCEPT !.status = IF At(j, "begin_commit") THEN "indexing" ELSE "failed"]
<1>4. row' = [row EXCEPT ![r] = new]
    BY <1>1 DEF BeginCommit, FailCommit, At, RowOf
<1>5. /\ new.status = IF At(j, "begin_commit") THEN "indexing" ELSE "failed"
      /\ new.latest = row[r].latest
    BY <1>2 DEF Repository
<1>6. row[r].latest # None => row[r].latest \in Ancestors[row[r].latest]
    BY <1>2, HistoryAssumption DEF Repository
<1> HIDE DEF new
<1>7. row'[r] = new /\ \A q \in Rows : q # r => row'[q] = row[q]
    BY <1>4 DEF EvInv, TypeInv, TypeOK
<1>8. row[r].status = IF At(j, "begin_commit") THEN "pending" ELSE "indexing"
    BY <1>2, <1>3 DEF Fits, BeginCommit, FailCommit, At, IndexingPc
<1>9. StatusFollows /\ MovesForward
    BY <1>4, <1>5, <1>6, <1>8, RowMoves DEF ValidTransitions
<1>10. CASE BeginCommit(j)
    <2>1. Moved(j, "history") /\ job'[j].cache = None
        BY <1>10, GotoCachedMoves DEF BeginCommit, EvInv, JobPc
    <2>2. Fits(job'[j], row'[r])
        BY <2>1, <1>5, <1>7, <1>10 DEF Moved, Fits, LoadedPc, IndexingPc, BeginCommit, At
    <2> QED BY <1>1, <1>2, <1>7, <1>9, <2>1, <2>2, SoleThread DEF Moved
<1>11. CASE FailCommit(j)
    <2>1. Stopped(j)
        BY <1>11, StopStops DEF FailCommit, EvInv
    <2> QED BY <1>1, <1>2, <1>7, <1>9, <2>1, SoleThread DEF Stopped
<1> QED BY <1>10, <1>11

LEMMA FinishSole ==
    ASSUME EvInv, SoleInv, TypeInv', NEW j \in Jobs, FinishCommit(j)
    PROVE  SoleInv' /\ StatusFollows /\ MovesForward
<1>1. PICK r \in Rows : r = job[j].row
    BY BusyJob DEF FinishCommit, At, EvInv
<1> DEFINE x == job[j]
           new == Flushed(row[r], x.cache, Finished(j))
<1>2. /\ x.pc = "finish_commit" /\ Busy(j, r) /\ row[r] # None /\ row[r] \in Repository
      /\ client' = client /\ x.head \in Commits /\ x.cache \in Repository
      /\ x.cache.status = "indexing"
    BY <1>1, BusyJob DEF FinishCommit, At, Busy, RowOf, Exists, EvInv, EvidenceInv, StageInv,
       TypeInv, TypeOK, JobOK, Job, HeadKnownPc
<1>3. Fits(x, row[r])
    BY <1>2 DEF SoleInv
<1>4. row[r].status = "indexing" /\ (row[r].latest # None => row[r].latest \in Ancestors[x.head])
    BY <1>2, <1>3 DEF Fits, IndexingPc, LoadedPc
<1>5. row' = [row EXCEPT ![r] = new]
    BY <1>1, FlushedOK DEF EvInv, RowOf
<1>6. /\ Finished(j).status = "ready" /\ Finished(j).latest = x.head
      /\ DOMAIN Finished(j) = {"key", "status", "gid", "latest", "hist"}
    BY <1>2 DEF Finished, Repository
<1>7. /\ new.status = "ready"
      /\ new.latest = IF x.head # x.cache.latest THEN x.head ELSE row[r].latest
    BY <1>2, <1>6 DEF Flushed
<1>8. row[r].latest # None => row[r].latest \in Ancestors[row[r].latest]
    BY <1>2, HistoryAssumption DEF Repository
<1> HIDE DEF new
<1>9. StatusFollows /\ MovesForward
    BY <1>4, <1>5, <1>7, <1>8, RowMoves DEF ValidTransitions
<1>10. \A q \in Rows : q # r => row'[q] = row[q]
    BY <1>5 DEF EvInv, TypeInv, TypeOK
<1>11. Stopped(j)
    BY StopStops DEF FinishCommit, EvInv
<1> QED BY <1>1, <1>2, <1>9, <1>10, <1>11, SoleThread DEF Stopped

\* A thread that writes no row.
LEMMA ThreadSole ==
    ASSUME EvInv, SoleInv, TypeInv', NEW j \in Jobs,
           \/ LocalStep(j)
           \/ \E c \in Commits : IndexCommit(j, c)
           \/ SaveSnapshot(j) \/ UpsertChunks(j)
    PROVE  SoleInv' /\ StatusFollows /\ MovesForward
<1> DEFINE x == job[j]
<1>1. x.pc # "idle" /\ UNCHANGED <<row, client>>
    BY DEF LocalStep, SetupFails, BeginRead, BeginReadFails, ImportHistory, Clone,
           LoadCheckpoint, FindExistingChunks, StageFails, FinishRead, CommitFails,
           FailRead, FailReadFails, FailCommitFails, IndexCommit, SaveSnapshot,
           UpsertChunks, At, table
<1>2. PICK r \in Rows : r = x.row
    BY <1>1, BusyJob DEF EvInv
<1>3. /\ Busy(j, r) /\ Fits(x, row[r]) /\ x \in Job /\ job \in [Jobs -> Job]
    BY <1>1, <1>2 DEF SoleInv, Busy, RowOf, EvInv, TypeInv, TypeOK
<1>4. /\ \A i \in Jobs : i # j => job'[i] = job[i]
      /\ job'[j] = IdleJob \/ (job'[j].row = r /\ Fits(job'[j], row[r]))
    <2>1. CASE LocalStep(j)
        <3>1. PICK y : job' = [job EXCEPT ![j] = y]
            BY <2>1, LocalStepOK DEF EvInv
        <3> QED BY <1>2, <1>3, <2>1, <3>1, LocalFits
    <2>2. ASSUME NEW c \in Commits, IndexCommit(j, c)
          PROVE  /\ \A i \in Jobs : i # j => job'[i] = job[i]
                 /\ job'[j].row = r /\ Fits(job'[j], row[r])
        <3> DEFINE rest == x.todo \ {c}
        <3>1. /\ job' = [job EXCEPT ![j] = [x EXCEPT !.pc = IndexPc(rest), !.todo = rest, !.last = c]]
              /\ x.pc = "index"
            BY <2>2 DEF IndexCommit, At
        <3> HIDE DEF rest
        <3>2. /\ job'[j].row = r /\ job'[j].head = x.head /\ job'[j].pc \in {"index", "snapshot"}
              /\ \A i \in Jobs : i # j => job'[i] = job[i]
            BY <1>2, <1>3, <3>1 DEF Job, IndexPc
        <3> QED BY <1>3, <3>1, <3>2 DEF Fits, IndexingPc, LoadedPc
    <2>3. CASE SaveSnapshot(j)
        <3>1. Moved(j, "chunk_read") /\ x.pc = "snapshot"
            BY <2>3, GotoMoves DEF SaveSnapshot, JobPc, EvInv, At
        <3> QED BY <1>2, <1>3, <3>1 DEF Moved, Fits, IndexingPc, LoadedPc
    <2>4. CASE UpsertChunks(j)
        <3>1. /\ job'[j].row = r /\ job'[j].head = x.head /\ job'[j].pc = "finish_read"
              /\ \A i \in Jobs : i # j => job'[i] = job[i]
              /\ x.pc = "chunk_commit"
            BY <1>2, <1>3, <2>4 DEF UpsertChunks, Job, At
        <3> QED BY <1>3, <3>1 DEF Fits, IndexingPc, LoadedPc
    <2> QED BY <2>1, <2>2, <2>3, <2>4
<1> QED BY <1>1, <1>2, <1>3, <1>4, SoleThread, RowsStay

LEMMA NextSole ==
    ASSUME OneRequest, EvInv, SoleInv, [Next]_vars
    PROVE  SoleInv' /\ StatusFollows /\ MovesForward
<1>0. TypeInv'
    BY NextTypeInv DEF EvInv
<1>1. ASSUME NEW c \in Clients, NEW r \in Rows, RetryRead(c, r)
      PROVE  SoleInv' /\ StatusFollows /\ MovesForward
    <2>1. /\ row' = row /\ job' = job /\ row[r] # None /\ row[r] \in Repository
          /\ row[r].status \in {"failed", "ready"}
          /\ client'[c].pc = "retry" /\ client'[c].row = r
        BY <1>1 DEF RetryRead, Exists, table, EvInv, TypeInv, TypeOK
    <2>2. ASSUME NEW j \in Jobs, Busy(j, r) PROVE FALSE
        <3>1. Fits(job[j], row[r]) /\ job[j].pc \in JobPc /\ job[j].pc # "idle"
            BY <2>2 DEF SoleInv, Busy, EvInv, TypeInv, TypeOK, Job
        <3> QED BY <2>1, <3>1 DEF Fits, JobPc, IndexingPc
    <2>3. \A q \in Rows : Handling(c, q)' => Claimed(c, q)'
        BY <2>1, <2>2 DEF Handling, Claimed, Busy, RowOf, Exists
    <2> QED BY <2>1, <2>3, RequestSole
<1>2. ASSUME NEW c \in Clients, RetryCommitFails(c) \/ DispatchFails(c)
      PROVE  SoleInv' /\ StatusFollows /\ MovesForward
    <2>1. row' = row /\ job' = job /\ client'[c].pc = "idle"
        BY <1>2 DEF RetryCommitFails, DispatchFails, table, EvInv, TypeInv, TypeOK, IdleClient
    <2> QED BY <2>1, RequestSole DEF Handling
<1>3. ASSUME Crash PROVE SoleInv' /\ StatusFollows /\ MovesForward
    <2>1. /\ row' = row /\ \A j \in Jobs : job'[j] = IdleJob
          /\ \A c \in Clients : client'[c] = IdleClient
        BY <1>3 DEF Crash, table
    <2> QED BY <2>1, RowsStay DEF SoleInv, Busy, Handling, IdleJob, IdleClient
<1>4. ASSUME UNCHANGED <<row, job, client>> PROVE SoleInv' /\ StatusFollows /\ MovesForward
    BY <1>4, RowsStay DEF SoleInv, Busy, RowOf, Handling, Claimed, Exists
<1>5. (\E k \in Keys, c \in Commits : Push(k, c)) \/ UNCHANGED vars => UNCHANGED <<row, job, client>>
    BY DEF Push, table, vars
<1> QED
    BY <1>0, <1>1, <1>2, <1>3, <1>4, <1>5, CreateSole, RetryCommitSole, DeleteSole,
       DispatchSole, BeginFailSole, FinishSole, ThreadSole
    DEF Next, Request, ClientStep, JobStep, LocalStep

LEMMA SoleInvariant == OneRequest => (Spec => [](EvInv /\ SoleInv))
<1> SUFFICES ASSUME OneRequest PROVE Spec => [](EvInv /\ SoleInv)
    OBVIOUS
<1>1. Init => SoleInv
    BY DEF Init, SoleInv, Busy, Handling, IdleJob, IdleClient
<1>2. EvInv /\ SoleInv /\ [Next]_vars => EvInv' /\ SoleInv'
    BY NextEvInv, NextSole
<1> QED BY <1>1, <1>2, InitEvInv, PTL DEF Spec

\* With one request handled at a time, however its retries, deletions and new
\* registrations interleave with analyses and whatever fails, a status changes
\* along the table transition_status checks: the test on an object loaded
\* earlier is never wrong about the row by the time of the commit.
THEOREM StatusesFollow ==
    ASSUME OneRequest
    PROVE  Spec => StatusFollowsTable
<1>1. EvInv /\ SoleInv /\ [Next]_vars => StatusFollows
    BY NextSole
<1>2. Spec => [](EvInv /\ SoleInv)
    BY SoleInvariant
<1> QED BY <1>1, <1>2, PTL DEF Spec, StatusFollowsTable

\* Under the same condition no analysis publishes a commit that does not descend
\* from the one it replaces: the checkpoint read once, after the clone, is still
\* the row's when the thread publishes, also across force-pushes.
THEOREM PublicationsAdvance ==
    ASSUME OneRequest
    PROVE  Spec => PublicationMovesForward
<1>1. EvInv /\ SoleInv /\ [Next]_vars => MovesForward
    BY NextSole
<1>2. Spec => [](EvInv /\ SoleInv)
    BY SoleInvariant
<1> QED BY <1>1, <1>2, PTL DEF Spec, PublicationMovesForward

-----------------------------------------------------------------------------
(* Every step of RepositoryLifecycle is a step of RepositoryPublication, or no   *)
(* step of it at all                                                            *)

\* The variables of RepositoryPublication, as RepositoryRefinement has them.
PublicTable == [r \in Rows |-> PublicRow(r)]
Stored      == [g \in Repos |-> {c \in Commits : Covered(g, c)}]

\* What is unchanged for one is unchanged for the other.
LEMMA SameTable == row' = row => PublicTable' = PublicTable
BY DEF PublicTable, PublicRow

LEMMA SameStore == UNCHANGED <<indexed, snapshot, embedded>> => Stored' = Stored
BY DEF Stored, Covered

\* A step that writes one row shows in that row only.
LEMMA PublicWrite ==
    ASSUME TypeInv, NEW r \in Rows, NEW x, x # None, row' = [row EXCEPT ![r] = x]
    PROVE  PublicTable' = [PublicTable EXCEPT ![r] = PublicPart(x)]
<1>1. \A q \in Rows : row'[q] = IF q = r THEN x ELSE row[q]
    BY DEF TypeInv, TypeOK
<1>2. \A q \in Rows : q # r => PublicRow(q)' = PublicRow(q)
    BY <1>1 DEF PublicRow, PublicPart
<1>3. PublicRow(r)' = PublicPart(x)
    BY <1>1 DEF PublicRow, PublicPart
<1> QED BY <1>2, <1>3 DEF PublicTable

LEMMA PublicRemove ==
    ASSUME TypeInv, NEW r \in Rows, row' = [row EXCEPT ![r] = None]
    PROVE  PublicTable' = [PublicTable EXCEPT ![r] = None]
<1>1. \A q \in Rows : row'[q] = IF q = r THEN None ELSE row[q]
    BY DEF TypeInv, TypeOK
<1>2. \A q \in Rows : q # r => PublicRow(q)' = PublicRow(q)
    BY <1>1 DEF PublicRow, PublicPart
<1>3. PublicRow(r)' = None
    BY <1>1 DEF PublicRow
<1> QED BY <1>2, <1>3 DEF PublicTable

LEMMA PublicExists ==
    ASSUME TypeInv, NEW r \in Rows, row[r] # None
    PROVE  /\ row[r] \in Repository
           /\ PublicTable[r] = PublicPart(row[r])
           /\ Publication!Exists(r)
<1>1. row[r] \in Repository
    BY DEF TypeInv, TypeOK
<1>2. PublicPart(row[r]) \in Publication!Repository
    BY <1>1 DEF Repository, Publication!Repository, Publication!Status, Status, PublicPart
<1>3. PublicTable[r] = PublicPart(row[r])
    BY DEF PublicTable, PublicRow
<1> QED BY <1>1, <1>2, <1>3, NullAssumption DEF Publication!Exists, PublicTable

\* A row that is gone is gone for both.
LEMMA PublicGone ==
    ASSUME NEW r \in Rows, Publication!Exists(r)
    PROVE  row[r] # None /\ PublicTable[r] = PublicPart(row[r])
BY DEF Publication!Exists, PublicRow, PublicTable

-----------------------------------------------------------------------------
(* One kind of step at a time *)

\* A retry, the begin of an analysis and its failure write a status only.
LEMMA StatusStep ==
    ASSUME TypeInv, NEW r \in Rows, row[r] # None, NEW s \in Status \ {"ready"},
           row' = [row EXCEPT ![r].status = s],
           UNCHANGED <<registered, indexed, snapshot, embedded>>
    PROVE  Publication!Next
<1> DEFINE x == [row[r] EXCEPT !.status = s]
<1>1. x \in Repository /\ row' = [row EXCEPT ![r] = x]
    BY StatusChange DEF Status
<1>2. x # None
    BY <1>1, NullAssumption
<1>3. PublicPart(x) = [PublicPart(row[r]) EXCEPT !.status = s]
    BY PublicExists DEF PublicPart, Repository
<1> HIDE DEF x
<1>4. PublicTable' = [PublicTable EXCEPT ![r] = PublicPart(x)]
    BY <1>1, <1>2, PublicWrite
<1>5. PublicTable' = [PublicTable EXCEPT ![r].status = s]
    BY <1>3, <1>4, PublicExists
<1>6. Publication!SetStatus(r, s)
    BY <1>5, PublicExists, SameStore DEF Publication!SetStatus, PublicTable, Stored
<1> QED BY <1>6 DEF Publication!Next, Publication!Status, Status

LEMMA CreateStep ==
    ASSUME TypeInv, NEW c \in Clients, NEW r \in Rows, NEW k \in Keys, Create(c, r, k)
    PROVE  Publication!Next
<1> DEFINE x == [key |-> k, status |-> "pending", gid |-> None,
                 latest |-> None, hist |-> None]
<1>1. /\ r \notin registered /\ registered' = registered \cup {r}
      /\ row' = [row EXCEPT ![r] = x]
      /\ \A s \in Rows : row[s] # None => row[s].key # k
      /\ UNCHANGED <<indexed, snapshot, embedded>>
    BY DEF Create, Exists, evidence
<1>2. x # None
    BY NullAssumption DEF Repository, Status
<1>3. PublicPart(x) = [key |-> k, status |-> "pending", gid |-> None, latest |-> None]
    BY DEF PublicPart
<1> HIDE DEF x
<1>4. PublicTable' = [PublicTable EXCEPT ![r] = [key |-> k, status |-> "pending",
                                                 gid |-> None, latest |-> None]]
    BY <1>1, <1>2, <1>3, PublicWrite
<1>5. ASSUME NEW s \in Rows, Publication!Exists(s) PROVE PublicTable[s].key # k
    <2>1. row[s] # None /\ PublicTable[s] = PublicPart(row[s])
        BY <1>5, PublicGone
    <2> QED BY <1>1, <2>1 DEF PublicPart
<1>6. Publication!Register(r, k)
    BY <1>1, <1>4, <1>5, SameStore DEF Publication!Register, PublicTable, Stored
<1> QED BY <1>6 DEF Publication!Next

LEMMA DeleteStep ==
    ASSUME TypeInv, NEW r \in Rows, Delete(r)
    PROVE  Publication!Next
<1>1. /\ row[r] # None /\ row' = [row EXCEPT ![r] = None]
      /\ UNCHANGED <<registered, indexed, snapshot, embedded>>
    BY DEF Delete, Exists, evidence
<1>2. Publication!Remove(r)
    BY <1>1, PublicExists, PublicRemove, SameStore DEF Publication!Remove, PublicTable, Stored
<1> QED BY <1>2 DEF Publication!Next

\* What was stored before the step still is; the rest is what the step added.
LEMMA StoreStep ==
    ASSUME EvidenceGrows, UNCHANGED <<row, registered>>, NEW g \in Repos,
           \A h \in Repos \ {g} : /\ indexed'[h] = indexed[h]
                                  /\ snapshot'[h] = snapshot[h]
                                  /\ embedded'[h] = embedded[h]
    PROVE  Publication!Next
<1> DEFINE new == {c \in Commits : Covered(g, c)'}
<1>1. Stored' = [Stored EXCEPT ![g] = @ \cup new]
    <2>1. \A c \in Commits : Covered(g, c) => Covered(g, c)'
        BY DEF EvidenceGrows, Covered
    <2>2. \A h \in Repos \ {g}, c \in Commits : Covered(h, c)' <=> Covered(h, c)
        BY DEF Covered
    <2>3. Stored'[g] = Stored[g] \cup new
        BY <2>1 DEF Stored
    <2>4. \A h \in Repos \ {g} : Stored'[h] = Stored[h]
        BY <2>2 DEF Stored
    <2> QED BY <2>3, <2>4 DEF Stored
<1>2. new \in SUBSET Commits
    OBVIOUS
<1> HIDE DEF new
<1>3. Publication!Store(g, new)
    BY <1>1, SameTable DEF Publication!Store, PublicTable, Stored
<1> QED BY <1>2, <1>3 DEF Publication!Next

\* The commit that is published is the thread's own, or the one an overlapping
\* run has published and this run did not see: both are stored.  The GitHub id
\* is free, or the row's already.
LEMMA PublishStep ==
    ASSUME EvInv, NEW j \in Jobs, FinishCommit(j)
    PROVE  Publication!Next
<1> DEFINE x == job[j]
           r == job[j].row
           g == RepoOf(j)
           new == Flushed(row[r], x.cache, Finished(j))
<1>1. x.pc = "finish_commit" /\ row[r] # None /\ TypeInv
    BY DEF FinishCommit, At, Exists, RowOf, EvInv
<1>2. /\ r \in Rows /\ g \in Repos /\ row[r] \in Repository /\ x.head \in Commits
      /\ x.cache \in Repository
    BY <1>1, BusyJob DEF TypeInv, JobOK, Job, HeadKnownPc
<1>3. /\ row' = [row EXCEPT ![r] = new] /\ new \in Repository
      /\ ~GithubIdTaken(j)
      /\ UNCHANGED <<registered, indexed, snapshot, embedded>>
    BY <1>1, FlushedOK DEF FinishCommit, evidence, RowOf
<1>4. /\ row[r].key = x.key /\ row[r].gid \in {None, g}
      /\ x.cache.status = "indexing"
      /\ x.cache.gid \in {None, g}
      /\ x.cache.gid # None => row[r].gid # None
      /\ x.cache.latest # None => row[r].latest # None
      /\ row[r].latest # None => Covered(row[r].gid, row[r].latest) /\ row[r].gid # None
      /\ Covered(g, x.head) /\ x.cache # None
    BY <1>1, <1>2 DEF EvInv, EvidenceInv, RowInv, OwnerInv, CacheInv, StageInv, Covered,
                      At, Exists, RowOf, RepoOf
<1>5. g # None /\ x.head # None
    BY <1>2, ConstantsAssumption
<1>6. /\ new.key = row[r].key
      /\ new.status = IF "ready" # x.cache.status THEN "ready" ELSE row[r].status
      /\ new.gid = IF g # x.cache.gid THEN g ELSE row[r].gid
      /\ new.latest = IF x.head # x.cache.latest THEN x.head ELSE row[r].latest
    BY <1>2 DEF Flushed, Finished, Repository
<1>7. g = GithubId[row[r].key]
    BY <1>4 DEF RepoOf
<1> HIDE DEF new, g
<1>8. new.status = "ready" /\ new.gid = g /\ new.latest \in Commits /\ Covered(g, new.latest)
    BY <1>2, <1>4, <1>5, <1>6 DEF Repository
<1>9. row[r].gid = g \/ \A s \in Rows \ {r} : row[s] # None => row[s].gid # g
    BY <1>3, <1>4, <1>5 DEF GithubIdTaken, RowOf, Exists, g
<1>10. PublicTable' = [PublicTable EXCEPT ![r] = PublicPart(new)]
    BY <1>1, <1>2, <1>3, PublicWrite, NullAssumption
<1>11. PublicTable[r] = PublicPart(row[r]) /\ Publication!Exists(r)
    BY <1>1, <1>2, PublicExists
<1>12. PublicPart(new) = [PublicTable[r] EXCEPT !.status = "ready", !.gid = g,
                                                !.latest = new.latest]
    <2>1. PublicTable[r] = [key |-> row[r].key, status |-> row[r].status,
                            gid |-> row[r].gid, latest |-> row[r].latest]
        BY <1>11 DEF PublicPart
    <2>2. PublicPart(new) = [key |-> row[r].key, status |-> "ready",
                             gid |-> g, latest |-> new.latest]
        BY <1>6, <1>8 DEF PublicPart
    <2> DEFINE p == PublicTable[r]
               q == [p EXCEPT !.status = "ready", !.gid = g, !.latest = new.latest]
    <2>3. p \in [key : {row[r].key}, status : {row[r].status},
                 gid : {row[r].gid}, latest : {row[r].latest}]
        BY <2>1
    <2> HIDE DEF p
    <2>4. /\ q.key = row[r].key /\ q.status = "ready" /\ q.gid = g /\ q.latest = new.latest
          /\ q \in [key : {row[r].key}, status : {"ready"}, gid : {g}, latest : {new.latest}]
        BY <2>3
    <2> HIDE DEF q
    <2>5. q = PublicPart(new)
        BY <2>2, <2>4
    <2> QED BY <2>5 DEF p, q
<1>13. /\ PublicTable[r].key = row[r].key /\ PublicTable[r].gid = row[r].gid
       /\ g = GithubId[PublicTable[r].key]
    BY <1>7, <1>11 DEF PublicPart
<1>14. ASSUME NEW s \in Rows \ {r}, Publication!Exists(s), row[r].gid # g
       PROVE  PublicTable[s].gid # g
    <2>1. row[s] # None /\ PublicTable[s] = PublicPart(row[s])
        BY <1>14, PublicGone
    <2> QED BY <1>9, <1>14, <2>1 DEF PublicPart
<1>15. new.latest \in Stored[g]
    BY <1>2, <1>8 DEF Stored
<1>16. Publication!Publish(r, new.latest)
    BY <1>2, <1>3, <1>10, <1>11, <1>12, <1>13, <1>14, <1>15, SameStore
    DEF Publication!Publish, PublicTable, Stored
<1> QED BY <1>2, <1>8, <1>16 DEF Publication!Next

-----------------------------------------------------------------------------

LEMMA StepRefines ==
    EvInv /\ [Next]_vars => [Publication!Next]_(Publication!vars)
<1> SUFFICES ASSUME EvInv, [Next]_vars
             PROVE  Publication!Next \/ UNCHANGED Publication!vars
    OBVIOUS
<1>0. TypeInv /\ TypeOK
    BY DEF EvInv, TypeInv
<1>1. ASSUME UNCHANGED <<row, registered, indexed, snapshot, embedded>>
      PROVE  UNCHANGED Publication!vars
    BY <1>1, SameTable, SameStore DEF Publication!vars, PublicTable, Stored
<1>2. ASSUME NEW c \in Clients, RetryCommit(c) PROVE Publication!Next
    <2> DEFINE r == client[c].row
    <2>1. r \in Rows /\ row[r] # None
        BY <1>0, <1>2 DEF RetryCommit, Exists, TypeInv, ClientOK
    <2>2. /\ row' = [row EXCEPT ![r].status = "pending"]
          /\ UNCHANGED <<registered, indexed, snapshot, embedded>>
        BY <1>2 DEF RetryCommit, evidence
    <2>3. "pending" \in Status \ {"ready"}
        BY DEF Status
    <2> HIDE DEF r
    <2> QED BY <1>0, <2>1, <2>2, <2>3, StatusStep
<1>3. ASSUME NEW j \in Jobs, BeginCommit(j) \/ FailCommit(j) PROVE Publication!Next
    <2> DEFINE r == job[j].row
    <2>1. r \in Rows /\ row[r] # None
        BY <1>0, <1>3, BusyJob DEF BeginCommit, FailCommit, Exists, RowOf, At
    <2>2. \E s \in {"indexing", "failed"} : row' = [row EXCEPT ![r].status = s]
        BY <1>3 DEF BeginCommit, FailCommit, RowOf
    <2>3. UNCHANGED <<registered, indexed, snapshot, embedded>>
        BY <1>3 DEF BeginCommit, FailCommit, evidence
    <2> QED BY <1>0, <2>1, <2>2, <2>3, StatusStep DEF Status
<1>4. ASSUME NEW j \in Jobs, NEW c \in Commits,
             IndexCommit(j, c) \/ SaveSnapshot(j) \/ UpsertChunks(j)
      PROVE  Publication!Next
    <2> DEFINE g == RepoOf(j)
    <2>1. g \in Repos
        BY <1>0, <1>4, BusyJob DEF IndexCommit, SaveSnapshot, UpsertChunks, At
    <2>2. UNCHANGED <<row, registered>>
        BY <1>4 DEF IndexCommit, SaveSnapshot, UpsertChunks, table
    <2>3. /\ \E new : indexed' = [indexed EXCEPT ![g] = @ \cup new] \/ indexed' = indexed
          /\ \E new : snapshot' = [snapshot EXCEPT ![g] = @ \cup new] \/ snapshot' = snapshot
          /\ \E new : embedded' = [embedded EXCEPT ![g] = @ \cup new] \/ embedded' = embedded
        BY <1>4 DEF IndexCommit, SaveSnapshot, UpsertChunks
    <2> HIDE DEF g
    <2>4. /\ EvidenceGrows
          /\ \A h \in Repos \ {g} : /\ indexed'[h] = indexed[h]
                                    /\ snapshot'[h] = snapshot[h]
                                    /\ embedded'[h] = embedded[h]
        BY <1>0, <2>1, <2>2, <2>3 DEF EvidenceGrows, TypeOK
    <2> QED BY <2>1, <2>2, <2>4, StoreStep
<1>5. ASSUME NEW c \in Clients, NEW r \in Rows,
             RetryRead(c, r) \/ RetryCommitFails(c) \/ DispatchFails(c)
                 \/ \E j \in Jobs : Dispatch(c, j)
      PROVE  UNCHANGED Publication!vars
    BY <1>1, <1>5 DEF RetryRead, RetryCommitFails, DispatchFails, Dispatch, table, evidence
<1>6. ASSUME NEW j \in Jobs, LocalStep(j) PROVE UNCHANGED Publication!vars
    BY <1>1, <1>6 DEF LocalStep, SetupFails, BeginRead, BeginReadFails, ImportHistory, Clone,
       LoadCheckpoint, FindExistingChunks, StageFails, FinishRead, CommitFails,
       FailRead, FailReadFails, FailCommitFails, table, evidence
<1>7. ASSUME Crash \/ \E k \in Keys, c \in Commits : Push(k, c)
      PROVE  UNCHANGED Publication!vars
    BY <1>1, <1>7 DEF Crash, Push, table, evidence
<1>8. CASE UNCHANGED vars
    BY <1>1, <1>8 DEF vars
<1>9. ASSUME Request PROVE Publication!Next \/ UNCHANGED Publication!vars
    BY <1>0, <1>5, <1>9, CreateStep DEF Request
<1>10. ASSUME NEW c \in Clients, ClientStep(c)
       PROVE  Publication!Next \/ UNCHANGED Publication!vars
    <2> PICK r \in Rows : TRUE
        BY <1>0, <1>10 DEF ClientStep, RetryCommit, RetryCommitFails, DispatchFails, Dispatch,
                           TypeInv, ClientOK
    <2> QED BY <1>2, <1>5, <1>10 DEF ClientStep
<1>11. ASSUME NEW j \in Jobs, JobStep(j)
       PROVE  Publication!Next \/ UNCHANGED Publication!vars
    <2>1. CASE \E c \in Commits : IndexCommit(j, c)
        BY <1>4, <2>1
    <2>2. CASE SaveSnapshot(j) \/ UpsertChunks(j)
        <3>1. job[j].head \in Commits
            BY <1>0, <2>2, BusyJob DEF SaveSnapshot, UpsertChunks, At, JobOK, Job, HeadKnownPc
        <3> QED BY <1>4, <2>2, <3>1
    <2>3. CASE BeginCommit(j) \/ FailCommit(j)
        BY <1>3, <2>3
    <2>4. CASE FinishCommit(j)
        BY <2>4, PublishStep
    <2> QED BY <1>6, <1>11, <2>1, <2>2, <2>3, <2>4 DEF JobStep, LocalStep
<1> QED BY <1>0, <1>7, <1>8, <1>9, <1>10, <1>11, DeleteStep DEF Next

LEMMA InitRefines == Init => Publication!Init
BY DEF Init, Publication!Init, PublicRow, Covered, HistoryAssumption

\* Whatever requests, analyses and faults do, they do it to the table and to
\* the stored evidence in steps that RepositoryPublication allows.
THEOREM LifecycleRefines == Spec => PublicationSpec
<1>1. Init => EvInv
    BY InitEvInv
<1> QED BY <1>1, NextEvInv, InitRefines, StepRefines, PTL
        DEF Spec, PublicationSpec, Publication!Spec
=============================================================================
