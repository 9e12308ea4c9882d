---------------------- MODULE RepositoryLifecycleProofs ----------------------
(* TLAPS proofs about RepositoryLifecycle, for every value of its constants. *)
EXTENDS RepositoryLifecycle, TLAPS

-----------------------------------------------------------------------------
(* Types *)

HeadKnownPc == {"checkpoint", "index", "snapshot", "chunk_read", "chunk_commit",
                "finish_read", "finish_commit"}

\* TypeOK is not inductive: a thread looks its row and key up, indexes with the
\* commit it cloned and updates the object it loaded.
JobOK(x) ==
    /\ x \in Job
    /\ x.pc # "idle" => x.row \in Rows /\ x.key \in Keys
    /\ x.pc \in HeadKnownPc => x.head # None
    /\ x.pc = "finish_commit" => x.cache # None

ClientOK(x) == x \in Client /\ (x.pc # "idle" => x.row \in Rows)

TypeInv ==
    /\ TypeOK
    /\ \A c \in Clients : ClientOK(client[c])
    /\ \A j \in Jobs : JobOK(job[j])

\* A thread that is not idle works on a row and a key.
LEMMA BusyJob ==
    ASSUME TypeInv, NEW j \in Jobs, job[j].pc # "idle"
    PROVE  /\ job[j] \in Job /\ JobOK(job[j])
           /\ job[j].row \in Rows /\ job[j].key \in Keys /\ RepoOf(j) \in Repos
           /\ row[job[j].row] \in Repository \cup {None}
           /\ Loaded(j) \in Repository \cup {None}
BY ConstantsAssumption DEF TypeInv, TypeOK, JobOK, Job, RepoOf, Loaded, RowOf

LEMMA IdleOK == JobOK(IdleJob) /\ ClientOK(IdleClient)
BY DEF JobOK, IdleJob, Job, JobPc, HeadKnownPc, ClientOK, IdleClient, Client

\* What a step of one thread may change its record to.
LEMMA MoveOK ==
    ASSUME NEW x, JobOK(x), x.pc # "idle", NEW pc \in JobPc, pc # "finish_commit",
           pc \in HeadKnownPc => x.head # None
    PROVE  /\ JobOK([x EXCEPT !.pc = pc])
           /\ \A o \in Repository \cup {None} :
                 JobOK([x EXCEPT !.pc = pc, !.cache = o])
BY DEF JobOK, Job

LEMMA FinishOK ==
    ASSUME NEW x, JobOK(x), x.pc = "finish_read", NEW o \in Repository, o # None
    PROVE  JobOK([x EXCEPT !.pc = "finish_commit", !.cache = o])
BY DEF JobOK, Job, JobPc, HeadKnownPc

\* A step that replaces one thread's record, and one that replaces one row.
LEMMA JobChange ==
    ASSUME TypeInv, NEW j \in Jobs, NEW x, JobOK(x), job' = [job EXCEPT ![j] = x]
    PROVE  job' \in [Jobs -> Job] /\ \A i \in Jobs : JobOK(job'[i])
BY DEF TypeInv, TypeOK, JobOK

LEMMA RowChange ==
    ASSUME TypeInv, NEW r \in Rows, NEW x \in Repository \cup {None},
           row' = [row EXCEPT ![r] = x]
    PROVE  row' \in [Rows -> Repository \cup {None}]
BY DEF TypeInv, TypeOK

LEMMA StatusChange ==
    ASSUME TypeInv, NEW r \in Rows, row[r] # None, NEW s \in Status
    PROVE  [row[r] EXCEPT !.status = s] \in Repository
BY DEF TypeInv, TypeOK, Repository

LEMMA InitTypeInv == Init => TypeInv
BY ConstantsAssumption, IdleOK DEF Init, TypeInv, TypeOK, JobOK, ClientOK

\* The steps of a thread that touch nothing but its own record.
LocalStep(j) ==
    \/ SetupFails(j) \/ BeginRead(j) \/ BeginReadFails(j) \/ ImportHistory(j)
    \/ Clone(j) \/ LoadCheckpoint(j) \/ FindExistingChunks(j) \/ StageFails(j)
    \/ FinishRead(j) \/ CommitFails(j) \/ FailRead(j) \/ FailReadFails(j)
    \/ FailCommitFails(j)

LEMMA LocalStepOK ==
    ASSUME TypeInv, NEW j \in Jobs, LocalStep(j)
    PROVE  \E x : JobOK(x) /\ job' = [job EXCEPT ![j] = x]
<1> DEFINE x == job[j]
<1>1. x.pc # "idle"
    BY DEF LocalStep, SetupFails, BeginRead, BeginReadFails, ImportHistory, Clone,
           LoadCheckpoint, FindExistingChunks, StageFails, FinishRead, CommitFails,
           FailRead, FailReadFails, FailCommitFails, At
<1>2. /\ x \in Job /\ JobOK(x) /\ x.row \in Rows /\ x.key \in Keys
      /\ row[x.row] \in Repository \cup {None}
      /\ Loaded(j) \in Repository \cup {None}
      /\ x.cache \in Repository \cup {None}
    BY <1>1, BusyJob DEF Job
<1>3. CASE SetupFails(j) \/ FailReadFails(j) \/ FailCommitFails(j)
    BY <1>3, IdleOK DEF SetupFails, FailReadFails, FailCommitFails, Stop
<1>4. CASE BeginRead(j)
    <2>1. PICK pc \in {"begin_commit", "fail_read"} :
             job' = [job EXCEPT ![j] = [x EXCEPT !.pc = pc, !.cache = row[x.row]]]
        BY <1>4 DEF BeginRead, GotoCached, RowOf
    <2> QED BY <2>1, <1>1, <1>2, MoveOK DEF JobPc, HeadKnownPc
<1>5. CASE BeginReadFails(j)
    <2>1. job' = [job EXCEPT ![j] = [x EXCEPT !.pc = "fail_read"]]
        BY <1>5 DEF BeginReadFails, Goto
    <2> QED BY <2>1, <1>1, <1>2, MoveOK DEF JobPc, HeadKnownPc
<1>6. CASE ImportHistory(j)
    <2>1. job' = [job EXCEPT ![j] = [x EXCEPT !.pc = "clone"]]
        BY <1>6 DEF ImportHistory, Goto
    <2> QED BY <2>1, <1>1, <1>2, MoveOK DEF JobPc, HeadKnownPc
<1>7. CASE Clone(j)
    <2>1. head[x.key] \in Commits /\ head[x.key] # None
        BY <1>2, ConstantsAssumption DEF TypeInv, TypeOK
    <2>2. JobOK([x EXCEPT !.pc = "checkpoint", !.head = head[x.key]])
        BY <2>1, <1>2 DEF JobOK, Job, JobPc, HeadKnownPc
    <2> QED BY <2>2, <1>7 DEF Clone
<1>8. CASE LoadCheckpoint(j)
    <2> DEFINE o          == row[x.row]
               checkpoint == IF o = None THEN None ELSE o.hist
               todo       == CommitsAfter(x.head, checkpoint)
    <2>1. x.head \in Commits /\ x.pc = "checkpoint"
        BY <1>2, <1>8 DEF JobOK, Job, HeadKnownPc, LoadCheckpoint, At
    <2>2. todo \subseteq Commits /\ checkpoint \in Commits \cup {None}
        BY <2>1, <1>2, ConstantsAssumption DEF CommitsAfter, Repository
    <2>3. CASE CanIndex(x.head, checkpoint)
        <3>1. PICK pc \in {"snapshot", "index"} :
                 job' = [job EXCEPT ![j] = [x EXCEPT !.pc = pc, !.cache = o,
                                                     !.todo = todo, !.last = checkpoint]]
            BY <2>3, <1>8 DEF LoadCheckpoint, RowOf, IndexPc
        <3> HIDE DEF o, checkpoint, todo
        <3>2. o \in Repository \cup {None}
            BY <1>2 DEF o
        <3>3. JobOK([x EXCEPT !.pc = pc, !.cache = o, !.todo = todo, !.last = checkpoint])
            BY <3>2, <2>1, <2>2, <1>2 DEF JobOK, Job, JobPc, HeadKnownPc
        <3> QED BY <3>1, <3>3
    <2>4. CASE ~CanIndex(x.head, checkpoint)
        <3>1. job' = [job EXCEPT ![j] = [x EXCEPT !.pc = "fail_read", !.cache = o]]
            BY <2>4, <1>8 DEF LoadCheckpoint, RowOf, GotoCached
        <3> QED BY <3>1, <1>1, <1>2, MoveOK DEF JobPc, HeadKnownPc
    <2> QED BY <2>3, <2>4
<1>9. CASE FindExistingChunks(j)
    <2> DEFINE new == VersionsAt[x.head] \ embedded[RepoOf(j)]
    <2>1. x.pc = "chunk_read" /\ x.head \in Commits /\ x.head # None
        BY <1>2, <1>9 DEF JobOK, Job, HeadKnownPc, FindExistingChunks, NewVersions, At
    <2>2. new \subseteq Versions
        BY <2>1, ConstantsAssumption
    <2>3. PICK pc \in {"finish_read", "chunk_commit"} :
             job' = [job EXCEPT ![j] = [x EXCEPT !.pc = pc, !.new = new]]
        BY <1>9 DEF FindExistingChunks, NewVersions
    <2> HIDE DEF new
    <2>4. JobOK([x EXCEPT !.pc = pc, !.new = new])
        BY <2>1, <2>2, <1>2 DEF JobOK, Job, JobPc, HeadKnownPc
    <2> QED BY <2>3, <2>4
<1>10. CASE StageFails(j)
    <2>1. PICK o \in {x.cache, None} :
             job' = [job EXCEPT ![j] = [x EXCEPT !.pc = "fail_read", !.cache = o]]
        BY <1>10 DEF StageFails, GotoCached
    <2> QED BY <2>1, <1>1, <1>2, MoveOK DEF JobPc, HeadKnownPc
<1>11. CASE FinishRead(j)
    <2>1. CASE Loaded(j) = None
        BY <2>1, <1>11, IdleOK DEF FinishRead, Stop
    <2>2. CASE Loaded(j) # None /\ Loaded(j).status = "indexing"
        <3>1. job' = [job EXCEPT ![j] = [x EXCEPT !.pc = "finish_commit", !.cache = Loaded(j)]]
            BY <2>2, <1>11 DEF FinishRead, GotoCached
        <3>2. x.pc = "finish_read"
            BY <1>11 DEF FinishRead, At
        <3> QED BY <3>1, <3>2, <2>2, <1>2, FinishOK
    <2>3. CASE Loaded(j) # None /\ Loaded(j).status # "indexing"
        <3>1. job' = [job EXCEPT ![j] = [x EXCEPT !.pc = "fail_read", !.cache = Loaded(j)]]
            BY <2>3, <1>11 DEF FinishRead, GotoCached
        <3> QED BY <3>1, <1>1, <1>2, MoveOK DEF JobPc, HeadKnownPc
    <2> QED BY <2>1, <2>2, <2>3
<1>12. CASE CommitFails(j)
    <2>1. job' = [job EXCEPT ![j] = [x EXCEPT !.pc = "fail_read", !.cache = None]]
        BY <1>12 DEF CommitFails, GotoCached
    <2> QED BY <2>1, <1>1, <1>2, MoveOK DEF JobPc, HeadKnownPc
<1>13. CASE FailRead(j)
    <2>1. \/ job' = [job EXCEPT ![j] = IdleJob]
          \/ job' = [job EXCEPT ![j] = [x EXCEPT !.pc = "fail_commit", !.cache = Loaded(j)]]
        BY <1>13 DEF FailRead, Stop, GotoCached
    <2> QED BY <2>1, <1>1, <1>2, MoveOK, IdleOK DEF JobPc, HeadKnownPc
<1> QED
    BY <1>3, <1>4, <1>5, <1>6, <1>7, <1>8, <1>9, <1>10, <1>11, <1>12, <1>13 DEF LocalStep

\* The record a thread publishes is a Repository record.
LEMMA FlushedOK ==
    ASSUME TypeInv, NEW j \in Jobs, FinishCommit(j)
    PROVE  /\ row' = [row EXCEPT ![RowOf(j)] = Flushed(@, job[j].cache, Finished(j))]
           /\ Flushed(row[RowOf(j)], job[j].cache, Finished(j)) \in Repository
<1> DEFINE x == job[j]
<1>1. x.pc = "finish_commit" /\ row[x.row] # None
    BY DEF FinishCommit, At, Exists, RowOf
<1>2. /\ x \in Job /\ x.cache \in Repository /\ x.head \in Commits
      /\ row[x.row] \in Repository /\ RepoOf(j) \in Repos
    BY <1>1, BusyJob DEF JobOK, Job, HeadKnownPc
<1>3. Finished(j) \in Repository
    BY <1>2 DEF Finished, Repository, Status, Job
<1>4. Flushed(row[x.row], x.cache, Finished(j)) \in Repository
    BY <1>2, <1>3 DEF Flushed, Repository
<1> QED BY <1>4 DEF FinishCommit, RowOf

LEMMA NextTypeInv == TypeInv /\ [Next]_vars => TypeInv'
<1> SUFFICES ASSUME TypeInv, [Next]_vars PROVE TypeInv'
    OBVIOUS
<1> USE DEF table, evidence
<1>1. ASSUME NEW c \in Clients, NEW r \in Rows, NEW k \in Keys, Create(c, r, k) PROVE TypeInv'
    <2>1. [key |-> k, status |-> "pending", gid |-> None,
           latest |-> None, hist |-> None] \in Repository
        BY DEF Repository, Status
    <2>2. row' \in [Rows -> Repository \cup {None}]
        BY <2>1, <1>1, RowChange DEF Create
    <2> QED BY <2>2, <1>1 DEF Create, TypeInv, TypeOK, ClientOK, Client
<1>2. ASSUME NEW c \in Clients, NEW r \in Rows, RetryRead(c, r) PROVE TypeInv'
    BY <1>2 DEF RetryRead, TypeInv, TypeOK, ClientOK, Client
<1>3. ASSUME NEW r \in Rows, Delete(r) PROVE TypeInv'
    BY <1>3 DEF Delete, TypeInv, TypeOK
<1>4. ASSUME NEW k \in Keys, NEW c \in Commits, Push(k, c) PROVE TypeInv'
    BY <1>4 DEF Push, TypeInv, TypeOK
<1>5. ASSUME NEW c \in Clients, RetryCommit(c) PROVE TypeInv'
    <2>1. client[c].row \in Rows /\ row[client[c].row] # None
        BY <1>5 DEF RetryCommit, Exists, TypeInv, ClientOK
    <2>2. row' \in [Rows -> Repository \cup {None}]
        BY <2>1, <1>5, RowChange, StatusChange DEF RetryCommit, Status
    <2> QED BY <2>2, <1>5 DEF RetryCommit, TypeInv, TypeOK, ClientOK, Client
<1>6. ASSUME NEW c \in Clients, RetryCommitFails(c) \/ DispatchFails(c) PROVE TypeInv'
    BY <1>6, IdleOK DEF RetryCommitFails, DispatchFails, TypeInv, TypeOK, ClientOK
<1>7. ASSUME NEW c \in Clients, NEW j \in Jobs, Dispatch(c, j) PROVE TypeInv'
    <2> DEFINE r == client[c].row
               x == [IdleJob EXCEPT !.pc = "created", !.row = r, !.key = row[r].key]
    <2>1. r \in Rows /\ row[r].key \in Keys
        BY <1>7 DEF Dispatch, Exists, TypeInv, TypeOK, ClientOK, Repository
    <2>2. JobOK(x)
        BY <2>1 DEF JobOK, IdleJob, Job, JobPc, HeadKnownPc
    <2>3. job' \in [Jobs -> Job] /\ \A i \in Jobs : JobOK(job'[i])
        BY <2>2, <1>7, JobChange DEF Dispatch
    <2> QED BY <2>3, <1>7, IdleOK DEF Dispatch, TypeInv, TypeOK, ClientOK
<1>8. ASSUME NEW j \in Jobs, BeginCommit(j) PROVE TypeInv'
    <2>1. job[j].pc = "begin_commit" /\ row[job[j].row] # None
        BY <1>8 DEF BeginCommit, At, Exists, RowOf
    <2>2. job[j].row \in Rows /\ JobOK(job[j])
        BY <2>1, BusyJob
    <2>3. row' \in [Rows -> Repository \cup {None}]
        BY <2>1, <2>2, <1>8, RowChange, StatusChange DEF BeginCommit, RowOf, Status
    <2>4. job' = [job EXCEPT ![j] = [job[j] EXCEPT !.pc = "history", !.cache = None]]
        BY <1>8 DEF BeginCommit, GotoCached
    <2>5. job' \in [Jobs -> Job] /\ \A i \in Jobs : JobOK(job'[i])
        BY <2>1, <2>2, <2>4, MoveOK, JobChange DEF JobPc, HeadKnownPc
    <2> QED BY <2>3, <2>5, <1>8 DEF BeginCommit, TypeInv, TypeOK
<1>9. ASSUME NEW j \in Jobs, NEW c \in Commits, IndexCommit(j, c) PROVE TypeInv'
    <2> DEFINE rest == job[j].todo \ {c}
    <2>1. job[j].pc = "index"
        BY <1>9 DEF IndexCommit, At
    <2>2. JobOK(job[j]) /\ RepoOf(j) \in Repos /\ rest \subseteq Commits
        BY <2>1, BusyJob DEF Job
    <2>3. PICK pc \in {"snapshot", "index"} :
             job' = [job EXCEPT ![j] = [job[j] EXCEPT !.pc = pc, !.todo = rest, !.last = c]]
        BY <1>9 DEF IndexCommit, IndexPc
    <2> HIDE DEF rest
    <2>4. JobOK([job[j] EXCEPT !.pc = pc, !.todo = rest, !.last = c])
        BY <2>1, <2>2 DEF JobOK, Job, JobPc, HeadKnownPc
    <2>5. job' \in [Jobs -> Job] /\ \A i \in Jobs : JobOK(job'[i])
        BY <2>3, <2>4, JobChange
    <2>6. indexed' \in [Repos -> SUBSET Commits]
        BY <2>2, <1>9 DEF IndexCommit, TypeInv, TypeOK
    <2> QED BY <2>5, <2>6, <1>9 DEF IndexCommit, TypeInv, TypeOK
<1>10. ASSUME NEW j \in Jobs, SaveSnapshot(j) PROVE TypeInv'
    <2>1. job[j].pc = "snapshot"
        BY <1>10 DEF SaveSnapshot, At
    <2>2. JobOK(job[j]) /\ RepoOf(j) \in Repos /\ job[j].head \in Commits /\ job[j].head # None
        BY <2>1, BusyJob DEF JobOK, Job, HeadKnownPc
    <2>3. job' = [job EXCEPT ![j] = [job[j] EXCEPT !.pc = "chunk_read"]]
        BY <1>10 DEF SaveSnapshot, Goto
    <2>4. job' \in [Jobs -> Job] /\ \A i \in Jobs : JobOK(job'[i])
        BY <2>1, <2>2, <2>3, MoveOK, JobChange DEF JobPc
    <2>5. snapshot' \in [Repos -> SUBSET Commits]
        BY <2>2, <1>10 DEF SaveSnapshot, TypeInv, TypeOK
    <2> QED BY <2>4, <2>5, <1>10 DEF SaveSnapshot, TypeInv, TypeOK
<1>11. ASSUME NEW j \in Jobs, UpsertChunks(j) PROVE TypeInv'
    <2>1. job[j].pc = "chunk_commit"
        BY <1>11 DEF UpsertChunks, At
    <2>2. JobOK(job[j]) /\ RepoOf(j) \in Repos /\ job[j].new \subseteq Versions
        BY <2>1, BusyJob DEF Job
    <2>3. JobOK([job[j] EXCEPT !.pc = "finish_read", !.cache = None, !.new = {}])
        BY <2>1, <2>2 DEF JobOK, Job, JobPc, HeadKnownPc
    <2>4. job' \in [Jobs -> Job] /\ \A i \in Jobs : JobOK(job'[i])
        BY <2>3, <1>11, JobChange DEF UpsertChunks
    <2>5. embedded' \in [Repos -> SUBSET Versions]
        BY <2>2, <1>11 DEF UpsertChunks, TypeInv, TypeOK
    <2> QED BY <2>4, <2>5, <1>11 DEF UpsertChunks, TypeInv, TypeOK
<1>12. ASSUME NEW j \in Jobs, FinishCommit(j) PROVE TypeInv'
    <2>1. RowOf(j) \in Rows
        BY <1>12, BusyJob DEF FinishCommit, At, RowOf
    <2>2. row' \in [Rows -> Repository \cup {None}]
        BY <2>1, <1>12, FlushedOK, RowChange
    <2>3. job' \in [Jobs -> Job] /\ \A i \in Jobs : JobOK(job'[i])
        BY <1>12, IdleOK, JobChange DEF FinishCommit, Stop
    <2> QED BY <2>2, <2>3, <1>12 DEF FinishCommit, TypeInv, TypeOK
<1>13. ASSUME NEW j \in Jobs, FailCommit(j) PROVE TypeInv'
    <2>1. job[j].row \in Rows /\ row[job[j].row] # None
        BY <1>13, BusyJob DEF FailCommit, At, RowOf, Exists
    <2>2. row' \in [Rows -> Repository \cup {None}]
        BY <2>1, <1>13, RowChange, StatusChange DEF FailCommit, RowOf, Status
    <2>3. job' \in [Jobs -> Job] /\ \A i \in Jobs : JobOK(job'[i])
        BY <1>13, IdleOK, JobChange DEF FailCommit, Stop
    <2> QED BY <2>2, <2>3, <1>13 DEF FailCommit, TypeInv, TypeOK
<1>14. ASSUME NEW j \in Jobs, LocalStep(j) PROVE TypeInv'
    <2>1. job' \in [Jobs -> Job] /\ \A i \in Jobs : JobOK(job'[i])
        BY <1>14, LocalStepOK, JobChange
    <2>2. UNCHANGED <<table, head, client, evidence>>
        BY <1>14 DEF LocalStep, SetupFails, BeginRead, BeginReadFails, ImportHistory,
            Clone, LoadCheckpoint, FindExistingChunks, StageFails, FinishRead,
            CommitFails, FailRead, FailReadFails, FailCommitFails
    <2> QED BY <2>1, <2>2 DEF TypeInv, TypeOK
<1>15. ASSUME Crash PROVE TypeInv'
    BY <1>15, IdleOK DEF Crash, TypeInv, TypeOK, JobOK, ClientOK
<1>16. CASE UNCHANGED vars
    BY <1>16 DEF vars, TypeInv, TypeOK
<1> QED
    BY <1>1, <1>2, <1>3, <1>4, <1>5, <1>6, <1>7, <1>8, <1>9, <1>10, <1>11, <1>12,
       <1>13, <1>14, <1>15, <1>16
    DEF Next, Request, ClientStep, JobStep, LocalStep

\* Every reachable state has the types the module declares.
THEOREM TypeCorrect == Spec => []TypeOK
<1>1. Spec => []TypeInv
    BY InitTypeInv, NextTypeInv, PTL DEF Spec
<1>2. TypeInv => TypeOK
    BY DEF TypeInv
<1> QED
    BY <1>1, <1>2, PTL

-----------------------------------------------------------------------------
(* What the thread steps change *)

\* Thread j moves to pc, keeps its row, key, head, todo, last and new, and no
\* other thread changes.
Moved(j, pc) ==
    /\ job' \in [Jobs -> Job]
    /\ \A i \in Jobs : i # j => job'[i] = job[i]
    /\ job'[j].pc = pc
    /\ job'[j].row = job[j].row /\ job'[j].key = job[j].key
    /\ job'[j].head = job[j].head /\ job'[j].todo = job[j].todo
    /\ job'[j].last = job[j].last /\ job'[j].new = job[j].new

Stopped(j) ==
    /\ job' \in [Jobs -> Job]
    /\ \A i \in Jobs : i # j => job'[i] = job[i]
    /\ job'[j] = IdleJob

LEMMA GotoMoves ==
    ASSUME TypeInv, TypeInv', NEW j \in Jobs, NEW pc \in JobPc, Goto(j, pc)
    PROVE  Moved(j, pc) /\ job'[j].cache = job[j].cache
BY DEF Goto, Moved, TypeInv, TypeOK, Job

LEMMA GotoCachedMoves ==
    ASSUME TypeInv, TypeInv', NEW j \in Jobs, NEW pc \in JobPc,
           NEW o, GotoCached(j, pc, o)
    PROVE  Moved(j, pc) /\ job'[j].cache = o
BY DEF GotoCached, Moved, TypeInv, TypeOK, Job

LEMMA StopStops ==
    ASSUME TypeInv, TypeInv', NEW j \in Jobs, Stop(j)
    PROVE  Stopped(j)
BY DEF Stop, Stopped, TypeInv, TypeOK

-----------------------------------------------------------------------------
(* An analysis is abandoned by a fault of its surroundings only *)

\* A thread about to publish has seen the row as indexing.
FinishSeen == \A j \in Jobs : At(j, "finish_commit") => job[j].cache.status = "indexing"

SeenInv == TypeInv /\ FinishSeen

\* A thread with a row it would settle.
Settling(x, r) == /\ x.row = r /\ x.pc \in Working
                  /\ x.cache # None => x.cache.status = "indexing"
Beginning(x, r) == x.row = r /\ x.pc \in {"created", "begin_commit"}

Owned(r) == ~Abandoned(r)

\* The step is not one that keeps the program from saying what happened.
NoFault ==
    /\ ~Crash
    /\ \A c \in Clients : DispatchFails(c) => "dispatch" \notin Faults
    /\ \A j \in Jobs : /\ ~SetupFails(j) /\ ~BeginReadFails(j) /\ ~FailReadFails(j)
                       /\ FailCommitFails(j) => "database" \notin Faults
                       /\ At(j, "begin_commit") /\ CommitFails(j) => "database" \notin Faults

\* A step of j that keeps the table, the clients and the other threads keeps
\* the owner of a row if it keeps j an owner of it.
LEMMA OwnerKept ==
    ASSUME NEW j \in Jobs, UNCHANGED <<row, client>>,
           \A i \in Jobs : i # j => job'[i] = job[i],
           NEW r \in Rows, Owned(r),
           row[r] # None =>
              /\ row[r].status = "pending" /\ Beginning(job[j], r) => Beginning(job'[j], r)
              /\ row[r].status = "indexing" /\ Settling(job[j], r) => Settling(job'[j], r)
    PROVE  Owned(r)'
<1> SUFFICES ASSUME row[r] # None
             PROVE  /\ row[r].status = "pending" => WillBegin(r)'
                    /\ row[r].status = "indexing" => WillSettle(r)'
    BY DEF Owned, Abandoned, Exists
<1>1. ASSUME row[r].status = "pending" PROVE WillBegin(r)'
    <2>1. WillBegin(r)
        BY <1>1 DEF Owned, Abandoned, Exists
    <2>2. CASE \E c \in Clients : client[c].pc = "dispatch" /\ client[c].row = r
        BY <2>2 DEF WillBegin
    <2>3. CASE \E i \in Jobs : Beginning(job[i], r)
        <3>1. PICK i \in Jobs : Beginning(job[i], r)
            BY <2>3
        <3>2. Beginning(job'[i], r)
            BY <3>1, <1>1
        <3> QED BY <3>2 DEF WillBegin, Beginning, RowOf
    <2> QED BY <2>1, <2>2, <2>3 DEF WillBegin, Beginning, RowOf
<1>2. ASSUME row[r].status = "indexing" PROVE WillSettle(r)'
    <2>1. PICK i \in Jobs : Settling(job[i], r)
        BY <1>2 DEF Owned, Abandoned, Exists, WillSettle, Settling, RowOf
    <2>2. Settling(job'[i], r)
        BY <2>1, <1>2
    <2> QED BY <2>2 DEF WillSettle, Settling, RowOf
<1> QED BY <1>1, <1>2

LEMMA LocalStepOwner ==
    ASSUME SeenInv, TypeInv', NEW j \in Jobs, LocalStep(j)
    PROVE  FinishSeen' /\ (NoFault => \A r \in Rows : Owned(r) => Owned(r)')
<1> DEFINE x == job[j]
<1> USE DEF SeenInv
<1>1. UNCHANGED <<row, client>>
    BY DEF LocalStep, SetupFails, BeginRead, BeginReadFails, ImportHistory, Clone,
           LoadCheckpoint, FindExistingChunks, StageFails, FinishRead, CommitFails,
           FailRead, FailReadFails, FailCommitFails, table
<1>2. x.pc # "idle"
    BY DEF LocalStep, SetupFails, BeginRead, BeginReadFails, ImportHistory, Clone,
           LoadCheckpoint, FindExistingChunks, StageFails, FinishRead, CommitFails,
           FailRead, FailReadFails, FailCommitFails, At
<1>3. x.row \in Rows
    BY <1>2, BusyJob
\* It is enough to follow j's own row.
<1>4. ASSUME \A i \in Jobs : i # j => job'[i] = job[i],
             job'[j].pc = "finish_commit" => job'[j].cache.status = "indexing",
             NoFault /\ row[x.row] # None =>
               /\ row[x.row].status = "pending" /\ x.pc \in {"created", "begin_commit"} =>
                     Beginning(job'[j], x.row)
               /\ row[x.row].status = "indexing" /\ Settling(x, x.row) =>
                     Settling(job'[j], x.row)
      PROVE  FinishSeen' /\ (NoFault => \A r \in Rows : Owned(r) => Owned(r)')
    <2>1. ASSUME NoFault, NEW r \in Rows, row[r] # None
          PROVE  /\ row[r].status = "pending" /\ Beginning(job[j], r) => Beginning(job'[j], r)
                 /\ row[r].status = "indexing" /\ Settling(job[j], r) => Settling(job'[j], r)
        BY <1>4, <2>1 DEF Beginning, Settling
    <2>2. FinishSeen'
        BY <1>4 DEF FinishSeen, At
    <2> QED BY <1>1, <1>4, <2>1, <2>2, OwnerKept
<1>5. CASE SetupFails(j) \/ BeginReadFails(j) \/ FailReadFails(j)
    <2>1. Stopped(j) \/ Moved(j, "fail_read")
        BY <1>5, StopStops, GotoMoves DEF SetupFails, BeginReadFails, FailReadFails, JobPc
    <2>2. ~NoFault
        BY <1>5 DEF NoFault
    <2> QED BY <2>1, <2>2, <1>4 DEF Stopped, Moved, IdleJob
<1>6. CASE BeginRead(j)
    <2> DEFINE o == row[x.row]
               pc == IF o # None /\ o.status = "pending" THEN "begin_commit" ELSE "fail_read"
    <2>1. x.pc = "created" /\ GotoCached(j, pc, o)
        BY <1>6 DEF BeginRead, At, RowOf
    <2>2. Moved(j, pc) /\ job'[j].cache = o
        BY <2>1, GotoCachedMoves DEF JobPc
    <2> QED BY <2>1, <2>2, <1>4 DEF Moved, Beginning, Settling, Working, JobPc
<1>7. CASE ImportHistory(j)
    <2>1. x.pc = "history" /\ Moved(j, "clone") /\ job'[j].cache = x.cache
        BY <1>7, GotoMoves DEF ImportHistory, At, JobPc
    <2> QED BY <2>1, <1>4 DEF Moved, Settling, Working, JobPc
<1>8. CASE Clone(j)
    <2>1. /\ x.pc = "clone" /\ job'[j].pc = "checkpoint"
          /\ job'[j].row = x.row /\ job'[j].cache = x.cache
          /\ \A i \in Jobs : i # j => job'[i] = job[i]
        BY <1>8 DEF Clone, At, TypeInv, TypeOK, Job
    <2> QED BY <2>1, <1>4 DEF Settling, Working, JobPc
<1>9. CASE LoadCheckpoint(j)
    <2>1. /\ x.pc = "checkpoint" /\ job'[j].pc \in {"index", "snapshot", "fail_read"}
          /\ job'[j].row = x.row /\ job'[j].cache = row[x.row]
          /\ \A i \in Jobs : i # j => job'[i] = job[i]
        <3> DEFINE o          == row[x.row]
                   checkpoint == IF o = None THEN None ELSE o.hist
                   todo       == CommitsAfter(x.head, checkpoint)
        <3>1. job \in [Jobs -> Job] /\ x.pc = "checkpoint"
            BY <1>9 DEF TypeInv, TypeOK, LoadCheckpoint, At
        <3>2. CASE CanIndex(x.head, checkpoint)
            <4>1. PICK pc \in {"snapshot", "index"} :
                     job' = [job EXCEPT ![j] = [x EXCEPT !.pc = pc, !.cache = o,
                                                         !.todo = todo, !.last = checkpoint]]
                BY <3>2, <1>9 DEF LoadCheckpoint, RowOf, IndexPc
            <4> HIDE DEF o, checkpoint, todo
            <4>2. /\ job'[j].pc = pc /\ job'[j].row = x.row /\ job'[j].cache = o
                  /\ \A i \in Jobs : i # j => job'[i] = job[i]
                BY <3>1, <4>1 DEF Job
            <4> QED BY <3>1, <4>2 DEF o
        <3>3. CASE ~CanIndex(x.head, checkpoint)
            <4>1. GotoCached(j, "fail_read", o)
                BY <3>3, <1>9 DEF LoadCheckpoint, RowOf
            <4> QED BY <3>1, <4>1, GotoCachedMoves DEF Moved, JobPc
        <3> QED BY <3>2, <3>3
    <2> QED BY <2>1, <1>4 DEF Settling, Working, JobPc
<1>10. CASE FindExistingChunks(j)
    <2>1. /\ x.pc = "chunk_read" /\ job'[j].pc \in {"finish_read", "chunk_commit"}
          /\ job'[j].row = x.row /\ job'[j].cache = x.cache
          /\ \A i \in Jobs : i # j => job'[i] = job[i]
        BY <1>10 DEF FindExistingChunks, NewVersions, At, TypeInv, TypeOK, Job
    <2> QED BY <2>1, <1>4 DEF Settling, Working, JobPc
<1>11. CASE StageFails(j)
    <2>1. PICK o \in {x.cache, None} : GotoCached(j, "fail_read", o)
        BY <1>11 DEF StageFails
    <2>2. Moved(j, "fail_read") /\ job'[j].cache = o
        BY <2>1, GotoCachedMoves DEF JobPc
    <2>3. x.pc \notin {"created", "begin_commit"}
        BY <1>11 DEF StageFails
    <2> QED BY <2>2, <2>3, <1>4 DEF Moved, Settling, Working, JobPc
<1>12. CASE FinishRead(j) \/ FailRead(j)
    <2>1. /\ x.pc \in {"finish_read", "fail_read"}
          /\ \/ Stop(j) /\ (Loaded(j) = None \/ Loaded(j).status # "indexing")
             \/ \E pc \in {"finish_commit", "fail_commit"} :
                  GotoCached(j, pc, Loaded(j)) /\ Loaded(j).status = "indexing"
             \/ GotoCached(j, "fail_read", Loaded(j)) /\ Loaded(j).status # "indexing"
        BY <1>12 DEF FinishRead, FailRead, At
    <2>2. row[x.row] # None /\ row[x.row].status = "indexing" /\ Settling(x, x.row) =>
             Loaded(j) # None /\ Loaded(j).status = "indexing"
        BY DEF Loaded, Settling, RowOf
    <2>3. CASE Stop(j) /\ (Loaded(j) = None \/ Loaded(j).status # "indexing")
        <3>1. Stopped(j)
            BY <2>3, StopStops
        <3> QED BY <3>1, <2>1, <2>2, <2>3, <1>4 DEF Stopped, IdleJob
    <2>4. CASE \E pc \in {"finish_commit", "fail_commit"} :
                  GotoCached(j, pc, Loaded(j)) /\ Loaded(j).status = "indexing"
        <3>1. PICK pc \in {"finish_commit", "fail_commit"} : Moved(j, pc) /\ job'[j].cache = Loaded(j)
            BY <2>4, GotoCachedMoves DEF JobPc
        <3> QED BY <3>1, <2>1, <2>4, <1>4 DEF Moved, Settling, Working, JobPc
    <2>5. CASE GotoCached(j, "fail_read", Loaded(j)) /\ Loaded(j).status # "indexing"
        <3>1. Moved(j, "fail_read") /\ job'[j].cache = Loaded(j)
            BY <2>5, GotoCachedMoves DEF JobPc
        <3> QED BY <3>1, <2>1, <2>2, <2>5, <1>4 DEF Moved, Settling, Working, JobPc
    <2> QED BY <2>1, <2>3, <2>4, <2>5
<1>13. CASE CommitFails(j)
    <2>1. GotoCached(j, "fail_read", None)
          /\ x.pc \in {"begin_commit", "finish_commit"}
          /\ (NoFault /\ x.pc = "begin_commit" => row[x.row] = None)
        BY <1>13 DEF CommitFails, At, Exists, RowOf, NoFault
    <2>2. Moved(j, "fail_read") /\ job'[j].cache = None
        BY <2>1, GotoCachedMoves DEF JobPc
    <2> QED BY <2>1, <2>2, <1>4 DEF Moved, Settling, Working, JobPc
<1>14. CASE FailCommitFails(j)
    <2>1. x.pc = "fail_commit" /\ (NoFault => row[x.row] = None) /\ Stopped(j)
        BY <1>14, StopStops DEF FailCommitFails, At, Exists, RowOf, NoFault
    <2> QED BY <2>1, <1>4 DEF Stopped, IdleJob
<1> QED
    BY <1>5, <1>6, <1>7, <1>8, <1>9, <1>10, <1>11, <1>12, <1>13, <1>14 DEF LocalStep

LEMMA NextOwner ==
    ASSUME SeenInv, TypeInv', [Next]_vars
    PROVE  FinishSeen' /\ (NoFault => \A r \in Rows : Owned(r) => Owned(r)')
<1> USE DEF SeenInv, table, evidence, Exists, RowOf, At
<1>0. job \in [Jobs -> Job] /\ client \in [Clients -> Client] /\ row \in [Rows -> Repository \cup {None}]
    BY DEF TypeInv, TypeOK
<1>1. ASSUME NEW c \in Clients, NEW r \in Rows, NEW k \in Keys, Create(c, r, k)
      PROVE  FinishSeen' /\ (NoFault => \A s \in Rows : Owned(s) => Owned(s)')
    <2>1. /\ job' = job /\ row'[r].status = "pending"
          /\ \A s \in Rows : s # r => row'[s] = row[s]
          /\ client'[c].pc = "dispatch" /\ client'[c].row = r
          /\ client[c].pc = "idle" /\ \A d \in Clients : d # c => client'[d] = client[d]
        BY <1>0, <1>1 DEF Create
    <2> QED BY <2>1 DEF Owned, Abandoned, WillBegin, WillSettle, FinishSeen
<1>2. ASSUME NEW c \in Clients, NEW r \in Rows, RetryRead(c, r)
      PROVE  FinishSeen' /\ (NoFault => \A s \in Rows : Owned(s) => Owned(s)')
    <2>1. /\ job' = job /\ row' = row
          /\ client[c].pc = "idle" /\ \A d \in Clients : d # c => client'[d] = client[d]
        BY <1>0, <1>2 DEF RetryRead
    <2> QED BY <2>1 DEF Owned, Abandoned, WillBegin, WillSettle, FinishSeen
<1>3. ASSUME NEW r \in Rows, Delete(r)
      PROVE  FinishSeen' /\ (NoFault => \A s \in Rows : Owned(s) => Owned(s)')
    <2>1. /\ job' = job /\ client' = client /\ row'[r] = None
          /\ \A s \in Rows : s # r => row'[s] = row[s]
        BY <1>0, <1>3 DEF Delete
    <2> QED BY <2>1 DEF Owned, Abandoned, WillBegin, WillSettle, FinishSeen
<1>4. ASSUME NEW c \in Clients, RetryCommit(c)
      PROVE  FinishSeen' /\ (NoFault => \A s \in Rows : Owned(s) => Owned(s)')
    <2> DEFINE r == client[c].row
    <2>0. r \in Rows /\ row[r] \in Repository /\ client[c] \in Client
        BY <1>0, <1>4 DEF RetryCommit, TypeInv, ClientOK
    <2>1. /\ job' = job /\ row'[r].status = "pending"
          /\ \A s \in Rows : s # r => row'[s] = row[s]
          /\ client'[c].pc = "dispatch" /\ client'[c].row = r
          /\ client[c].pc = "retry" /\ \A d \in Clients : d # c => client'[d] = client[d]
        BY <1>0, <1>4, <2>0 DEF RetryCommit, Repository, Client
    <2> QED BY <2>0, <2>1 DEF Owned, Abandoned, WillBegin, WillSettle, FinishSeen
<1>5. ASSUME NEW c \in Clients, RetryCommitFails(c) \/ DispatchFails(c)
      PROVE  FinishSeen' /\ (NoFault => \A s \in Rows : Owned(s) => Owned(s)')
    <2>1. /\ job' = job /\ row' = row
          /\ NoFault /\ client[c].pc = "dispatch" => row[client[c].row] = None
          /\ \A d \in Clients : d # c => client'[d] = client[d]
        BY <1>0, <1>5 DEF RetryCommitFails, DispatchFails, NoFault
    <2> QED BY <2>1 DEF Owned, Abandoned, WillBegin, WillSettle, FinishSeen
<1>6. ASSUME NEW c \in Clients, NEW j \in Jobs, Dispatch(c, j)
      PROVE  FinishSeen' /\ (NoFault => \A s \in Rows : Owned(s) => Owned(s)')
    <2>1. /\ row' = row /\ job[j].pc = "idle"
          /\ job'[j].pc = "created" /\ job'[j].row = client[c].row
          /\ \A i \in Jobs : i # j => job'[i] = job[i]
          /\ \A d \in Clients : d # c => client'[d] = client[d]
        BY <1>0, <1>6 DEF Dispatch, IdleJob
    <2>2. FinishSeen'
        BY <2>1 DEF FinishSeen
    <2>3. ASSUME NEW r \in Rows, WillBegin(r) PROVE WillBegin(r)'
        BY <2>1, <2>3 DEF WillBegin
    <2>4. ASSUME NEW r \in Rows, WillSettle(r) PROVE WillSettle(r)'
        BY <2>1, <2>4 DEF WillSettle, Working
    <2> QED BY <2>1, <2>2, <2>3, <2>4 DEF Owned, Abandoned
<1>7. ASSUME NEW j \in Jobs, BeginCommit(j)
      PROVE  FinishSeen' /\ (NoFault => \A s \in Rows : Owned(s) => Owned(s)')
    <2>0. job[j].row \in Rows /\ job[j].pc = "begin_commit"
        BY <1>7, BusyJob DEF BeginCommit
    <2> PICK r \in Rows : r = job[j].row
        BY <2>0
    <2>1. row[r] \in Repository /\ job[j].pc = "begin_commit"
        BY <1>0, <1>7, <2>0 DEF BeginCommit
    <2>2. Moved(j, "history") /\ job'[j].cache = None /\ client' = client
        BY <1>7, GotoCachedMoves DEF BeginCommit, JobPc
    <2>3. row'[r].status = "indexing" /\ \A s \in Rows : s # r => row'[s] = row[s]
        BY <1>0, <1>7, <2>1 DEF BeginCommit, Repository
    <2>4. FinishSeen'
        BY <2>2 DEF FinishSeen, Moved
    <2>5. WillSettle(r)'
        BY <2>2 DEF WillSettle, Moved, Working, JobPc
    <2>6. ASSUME NEW s \in Rows, s # r
          PROVE  (WillBegin(s) => WillBegin(s)') /\ (WillSettle(s) => WillSettle(s)')
        BY <2>2, <2>6 DEF Moved, WillBegin, WillSettle
    <2> QED BY <2>1, <2>3, <2>4, <2>5, <2>6 DEF Owned, Abandoned
<1>8. ASSUME NEW j \in Jobs, FinishCommit(j) \/ FailCommit(j)
      PROVE  FinishSeen' /\ (NoFault => \A s \in Rows : Owned(s) => Owned(s)')
    <2> DEFINE r == job[j].row
    <2>1. /\ r \in Rows /\ row[r] \in Repository
          /\ job[j].pc \in {"finish_commit", "fail_commit"}
        BY <1>0, <1>8, BusyJob DEF FinishCommit, FailCommit
    <2>2. Stopped(j) /\ client' = client
        BY <1>8, StopStops DEF FinishCommit, FailCommit
    <2>3. row'[r].status \in {"ready", "failed"} /\ \A s \in Rows : s # r => row'[s] = row[s]
        <3>1. CASE FailCommit(j)
            BY <1>0, <3>1, <2>1 DEF FailCommit, Repository
        <3>2. CASE FinishCommit(j)
            <4>1. /\ job[j].cache.status = "indexing" /\ job[j].cache \in Repository
                  /\ job[j].head \in Commits
                BY <3>2, BusyJob DEF FinishCommit, FinishSeen, JobOK, Job, HeadKnownPc
            <4>2. Finished(j).status = "ready" /\ "status" \in DOMAIN Finished(j)
                BY <4>1 DEF Finished, Repository
            <4>3. Flushed(row[r], job[j].cache, Finished(j)).status = "ready"
                BY <4>1, <4>2 DEF Flushed
            <4>4. row' = [row EXCEPT ![r] = Flushed(row[r], job[j].cache, Finished(j))]
                BY <3>2 DEF FinishCommit
            <4> QED BY <1>0, <2>1, <4>3, <4>4
        <3> QED BY <1>8, <3>1, <3>2
    <2>4. FinishSeen'
        BY <2>2 DEF FinishSeen, Stopped, IdleJob
    <2>5. ASSUME NEW s \in Rows, s # r
          PROVE  (WillBegin(s) => WillBegin(s)') /\ (WillSettle(s) => WillSettle(s)')
        BY <2>2, <2>5 DEF Stopped, WillBegin, WillSettle
    <2> QED BY <2>1, <2>3, <2>4, <2>5 DEF Owned, Abandoned
<1>9. ASSUME NEW j \in Jobs,
             \/ \E c \in Commits : IndexCommit(j, c)
             \/ SaveSnapshot(j) \/ UpsertChunks(j)
      PROVE  FinishSeen' /\ (NoFault => \A s \in Rows : Owned(s) => Owned(s)')
    <2>1. /\ row' = row /\ client' = client
          /\ \A i \in Jobs : i # j => job'[i] = job[i]
          /\ job[j].pc \in {"index", "snapshot", "chunk_commit"}
          /\ job'[j].pc \in {"index", "snapshot", "chunk_read", "finish_read"}
          /\ job'[j].row = job[j].row /\ job'[j].cache \in {None, job[j].cache}
        <3>1. CASE \E c \in Commits : IndexCommit(j, c)
            <4>1. PICK c \in Commits : IndexCommit(j, c)
                BY <3>1
            <4>2. PICK pc \in {"index", "snapshot"}, rest \in SUBSET Commits :
                     job' = [job EXCEPT ![j] = [job[j] EXCEPT !.pc = pc, !.todo = rest, !.last = c]]
                BY <1>0, <4>1 DEF IndexCommit, IndexPc, Job
            <4>3. /\ \A i \in Jobs : i # j => job'[i] = job[i]
                  /\ job'[j].pc = pc /\ job'[j].row = job[j].row
                  /\ job'[j].cache = job[j].cache
                BY <1>0, <4>2 DEF Job
            <4> QED BY <4>1, <4>3 DEF IndexCommit
        <3>2. CASE SaveSnapshot(j)
            BY <3>2, GotoMoves DEF SaveSnapshot, Moved, JobPc
        <3>3. CASE UpsertChunks(j)
            BY <1>0, <3>3 DEF UpsertChunks, Job
        <3> QED BY <1>9, <3>1, <3>2, <3>3
    <2>2. \A r \in Rows : row[r] # None =>
              /\ row[r].status = "pending" /\ Beginning(job[j], r) => Beginning(job'[j], r)
              /\ row[r].status = "indexing" /\ Settling(job[j], r) => Settling(job'[j], r)
        BY <2>1 DEF Beginning, Settling, Working, JobPc
    <2>3. FinishSeen'
        BY <2>1 DEF FinishSeen
    <2> QED BY <2>1, <2>2, <2>3, OwnerKept
<1>10. ASSUME NEW j \in Jobs, LocalStep(j)
      PROVE  FinishSeen' /\ (NoFault => \A s \in Rows : Owned(s) => Owned(s)')
    BY <1>10, LocalStepOwner
<1>11. ASSUME NEW k \in Keys, NEW c \in Commits, Push(k, c)
      PROVE  FinishSeen' /\ (NoFault => \A s \in Rows : Owned(s) => Owned(s)')
    BY <1>11 DEF Push, Owned, Abandoned, WillBegin, WillSettle, FinishSeen
<1>12. CASE Crash
    BY <1>12 DEF Crash, FinishSeen, IdleJob, NoFault
<1>13. CASE UNCHANGED vars
    BY <1>13 DEF vars, Owned, Abandoned, WillBegin, WillSettle, FinishSeen
<1> QED
    BY <1>1, <1>2, <1>3, <1>4, <1>5, <1>6, <1>7, <1>8, <1>9, <1>10, <1>11, <1>12, <1>13
    DEF Next, Request, ClientStep, JobStep, LocalStep

LEMMA InitSeenInv == Init => SeenInv
BY InitTypeInv DEF Init, SeenInv, FinishSeen, At, IdleJob

LEMMA SeenInvariant == Spec => []SeenInv
<1>1. SeenInv /\ [Next]_vars => SeenInv'
    BY NextTypeInv, NextOwner DEF SeenInv
<1> QED
    BY <1>1, InitSeenInv, PTL DEF Spec

\* While the process and the database stay up, every row in "pending" or
\* "indexing" has a request or a thread that is going to settle it, whatever
\* stages fail and however retries, deletions and analyses interleave.
THEOREM NothingAbandoned ==
    ASSUME Faults \subseteq {"stage"}
    PROVE  Spec => []NoAbandonedAnalysis
<1> DEFINE AllOwned == \A r \in Rows : Owned(r)
<1>1. Init => AllOwned
    BY DEF Init, Owned, Abandoned, Exists
<1>2. NoFault
    BY DEF NoFault, Crash, DispatchFails, SetupFails, BeginReadFails, FailReadFails
<1>3. SeenInv /\ AllOwned /\ [Next]_vars => SeenInv' /\ AllOwned'
    BY <1>2, NextTypeInv, NextOwner DEF SeenInv
<1>4. AllOwned => NoAbandonedAnalysis
    BY DEF Owned, Abandoned, NoAbandonedAnalysis
<1> HIDE DEF AllOwned
<1> QED
    BY <1>1, <1>3, <1>4, InitSeenInv, PTL DEF Spec

\* Whatever may fail, a row that has an owner loses it without being settled
\* only in a step that could not have reported: the end of the process, a
\* thread that does not start or cannot set itself up, an update refused by
\* the database.  No stage, no deletion and no other request takes it away.
THEOREM OnlyFaults == Spec => OnlyFaultsAbandon
<1>1. ASSUME SeenInv, [Next]_vars PROVE AbandonedByFault
    <2> SUFFICES ASSUME ~SilentFault PROVE \A r \in Rows : Owned(r) => Owned(r)'
        BY DEF AbandonedByFault, Owned
    <2>1. NoFault
        BY DEF NoFault, SilentFault
    <2>2. TypeInv'
        BY <1>1, NextTypeInv DEF SeenInv
    <2> QED BY <1>1, <2>1, <2>2, NextOwner
<1> QED
    BY <1>1, SeenInvariant, PTL DEF Spec, OnlyFaultsAbandon
=============================================================================
