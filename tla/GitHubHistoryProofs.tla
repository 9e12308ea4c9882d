-------------------------- MODULE GitHubHistoryProofs --------------------------
(* The table commit_file_changes and the ids the graph has of its rows, what an *)
(* import has of GitHub and what it stores, for any number of imports, commits  *)
(* and files, any size of a page and any changes on GitHub.                     *)
EXTENDS GitHubHistory, FiniteSetTheorems, SequenceTheorems, WellFoundedInduction, TLAPS

Fields == {"pc", "branch", "page", "todo", "doc", "rows", "found", "tx", "ids", "op"}

\* A row as an import writes it.
Written == [id : Nat, hunks : {{j} : j \in Imports}]

Upserting == {"find", "flush"}

\* What is known of a row that import j has written in its transaction: j alone holds
\* it, and it kept the id of the committed row.
TxFacts(j, r) ==
    job[j].tx[r] # None =>
        /\ job[j].tx[r] \in Written
        /\ job[j].ids[r] = job[j].tx[r].id
        /\ job[j].pc \in Upserting
        /\ change[r] # None => change[r].id = job[j].tx[r].id
        /\ \A k \in Imports \ {j} : job[k].tx[r] = None

\* An id that j knows is that of a row it has written, and after the commit that of
\* the row in the table.
IdFacts(j, r) ==
    job[j].ids[r] # None =>
        \/ /\ job[j].pc \in Upserting
           /\ job[j].tx[r] # None
        \/ /\ job[j].pc = "save"
           /\ change[r] # None
           /\ change[r].id = job[j].ids[r]

\* What _find returned still has the id of the row when it is flushed.
FoundFacts(j) ==
    LET r == Head(job[j].rows) IN
    job[j].pc = "flush" /\ job[j].found # None /\ r \in Rows =>
        Visible(j, r) # None /\ Visible(j, r).id = job[j].found.id

JobShape(j) ==
    /\ DOMAIN job[j] = Fields
    /\ DOMAIN job[j].tx = Rows /\ DOMAIN job[j].ids = Rows

TableInv ==
    /\ DOMAIN job = Imports
    /\ \A j \in Imports : JobShape(j) /\ FoundFacts(j)
    /\ \A j \in Imports, r \in Rows : TxFacts(j, r) /\ IdFacts(j, r)
    /\ lastId \in Nat
    /\ change \in [Rows -> Written \cup {None}]
    /\ DOMAIN changeId = Rows
    /\ ChangeIdsResolve

LEMMA NoneIsNoRow == None \notin Written /\ None \notin Nat
<1>1. Written \subseteq [id : Nat, hunks : SUBSET Imports]
    BY DEF Written
<1> QED BY <1>1, ImportAssumption

LEMMA TableInitially == Init => TableInv
<1> SUFFICES ASSUME Init PROVE TableInv
    OBVIOUS
<1>1. \A j \in Imports : job[j] = Idle
    BY DEF Init
<1>2. /\ DOMAIN Idle = Fields /\ Idle.pc = "idle"
      /\ Idle.tx = [r \in Rows |-> None] /\ Idle.ids = [r \in Rows |-> None]
    BY DEF Idle, Fields
<1>3. \A j \in Imports : JobShape(j) /\ FoundFacts(j)
    BY <1>1, <1>2 DEF JobShape, FoundFacts
<1>4. \A j \in Imports, r \in Rows : TxFacts(j, r) /\ IdFacts(j, r)
    BY <1>1, <1>2 DEF TxFacts, IdFacts
<1>5. change \in [Rows -> Written \cup {None}] /\ DOMAIN changeId = Rows /\ ChangeIdsResolve
    BY DEF Init, ChangeIdsResolve
<1> QED BY <1>3, <1>4, <1>5 DEF TableInv, Init

-----------------------------------------------------------------------------
(* Steps that leave the tables and the ids of the graph alone *)

\* Import j goes to a position outside of the transaction without touching it.
LEMMA CollectTouches ==
    ASSUME TableInv, NEW j \in Imports, Collect(j)
    PROVE  /\ DOMAIN job' = Imports
           /\ \A k \in Imports \ {j} : job'[k] = job[k]
           /\ JobShape(j)'
           /\ job'[j].tx = job[j].tx /\ job'[j].ids = job[j].ids
           /\ job[j].pc \notin Upserting \cup {"save"}
           /\ job'[j].pc \notin Upserting \cup {"save"}
<1> USE DEF TableInv, JobShape, Fields, Upserting
<1>1. CASE ListBranches(j)
    BY <1>1 DEF ListBranches
<1>2. CASE ListIssues(j)
    BY <1>2 DEF ListIssues, Reads
<1>3. CASE GetIssue(j)
    BY <1>3 DEF GetIssue
<1>4. CASE ListPulls(j)
    BY <1>4 DEF ListPulls, Reads, Finished
<1>5. CASE GetPull(j)
    BY <1>5 DEF GetPull
<1>6. CASE ListPullCommits(j)
    BY <1>6 DEF ListPullCommits
<1>7. CASE ListPullFiles(j)
    BY <1>7 DEF ListPullFiles
<1>8. CASE ListCommits(j)
    BY <1>8 DEF ListCommits, Reads, Finished
<1>9. CASE GetCommit(j)
    BY <1>9 DEF GetCommit
<1> QED BY <1>1, <1>2, <1>3, <1>4, <1>5, <1>6, <1>7, <1>8, <1>9 DEF Collect
-----------------------------------------------------------------------------
(* One step of import j: the others keep their jobs *)

\* Import j has no transaction after the step, and the table stays.
LEMMA OutsideKeeps ==
    ASSUME TableInv, NEW j \in Imports, DOMAIN job' = Imports,
           \A k \in Imports \ {j} : job'[k] = job[k],
           JobShape(j)', job'[j].pc # "flush",
           \A r \in Rows : job'[j].tx[r] = None /\ IdFacts(j, r)',
           UNCHANGED <<change, lastId>>,
           DOMAIN changeId' = Rows, ChangeIdsResolve'
    PROVE  TableInv'
<1>1. \A k \in Imports : JobShape(k)' /\ FoundFacts(k)'
    <2>1. JobShape(j)' /\ FoundFacts(j)'
        BY DEF FoundFacts
    <2>2. ASSUME NEW k \in Imports \ {j} PROVE JobShape(k)' /\ FoundFacts(k)'
        BY <2>2 DEF TableInv, JobShape, FoundFacts, Visible
    <2> QED BY <2>1, <2>2
<1>2. ASSUME NEW r \in Rows PROVE TxFacts(j, r)'
    BY <1>2 DEF TxFacts
<1>3. ASSUME NEW k \in Imports \ {j}, NEW r \in Rows PROVE TxFacts(k, r)' /\ IdFacts(k, r)'
    BY <1>3 DEF TableInv, TxFacts, IdFacts
<1> QED BY <1>1, <1>2, <1>3 DEF TableInv

LEMMA GraphAndGitHubKeep ==
    ASSUME TableInv, UNCHANGED <<job, change, lastId, changeId>>
    PROVE  TableInv'
<1>1. \A j \in Imports : JobShape(j)' /\ FoundFacts(j)'
    BY DEF TableInv, JobShape, FoundFacts, Visible
<1>2. \A j \in Imports, r \in Rows : TxFacts(j, r)' /\ IdFacts(j, r)'
    BY DEF TableInv, TxFacts, IdFacts
<1> QED BY <1>1, <1>2 DEF TableInv, ChangeIdsResolve

LEMMA GitHubKeeps == TableInv /\ GitHubStep => TableInv'
<1> SUFFICES ASSUME TableInv, GitHubStep PROVE TableInv'
    OBVIOUS
<1>1. UNCHANGED <<job, change, lastId, changeId>>
    BY DEF GitHubStep, OpenIssue, OpenPull, CloseOrReopen, DeleteIssue, EditPull, MergePull,
           Push, Becomes, tables, graph
<1> QED BY <1>1, GraphAndGitHubKeep

\* In the phases before the upsert no row is written and no id known.
LEMMA BeforeUpsert ==
    ASSUME TableInv, NEW j \in Imports, job[j].pc \notin Upserting
    PROVE  /\ \A r \in Rows : job[j].tx[r] = None
           /\ job[j].pc # "save" => \A r \in Rows : job[j].ids[r] = None
BY DEF TableInv, TxFacts, IdFacts

LEMMA StartAndFailKeep ==
    ASSUME TableInv, NEW j \in Imports, (\E b \in Branches : Start(j, b)) \/ Fail(j)
    PROVE  TableInv'
<1>1. PICK new :
          /\ job' = [job EXCEPT ![j] = new]
          /\ DOMAIN new = Fields /\ new.pc \in {"branches", "idle"}
          /\ new.tx = [r \in Rows |-> None] /\ new.ids = [r \in Rows |-> None]
    <2>1. /\ DOMAIN Idle = Fields /\ Idle.pc = "idle"
          /\ Idle.tx = [r \in Rows |-> None] /\ Idle.ids = [r \in Rows |-> None]
        BY DEF Idle, Fields
    <2>2. CASE Fail(j)
        BY <2>1, <2>2 DEF Fail
    <2>3. CASE \E b \in Branches : Start(j, b)
        <3>1. PICK b \in Branches : job' = [job EXCEPT ![j] = [Idle EXCEPT !.pc = "branches", !.branch = b]]
            BY <2>3 DEF Start
        <3> DEFINE new == [Idle EXCEPT !.pc = "branches", !.branch = b]
        <3>2. /\ DOMAIN new = Fields /\ new.pc = "branches"
              /\ new.tx = Idle.tx /\ new.ids = Idle.ids
            BY <2>1 DEF Fields
        <3> QED BY <2>1, <3>1, <3>2
    <2> QED BY <2>2, <2>3
<1>2. UNCHANGED <<change, lastId, changeId>>
    BY DEF Start, Fail, tables, graph
<1>3. /\ DOMAIN job' = Imports /\ job'[j] = new
      /\ \A k \in Imports \ {j} : job'[k] = job[k]
    BY <1>1 DEF TableInv
<1>4. /\ JobShape(j)' /\ job'[j].pc # "flush"
      /\ \A r \in Rows : job'[j].tx[r] = None /\ IdFacts(j, r)'
    BY <1>1, <1>3 DEF JobShape, IdFacts
<1> QED BY <1>2, <1>3, <1>4, OutsideKeeps DEF TableInv, ChangeIdsResolve

LEMMA CollectKeeps ==
    ASSUME TableInv, NEW j \in Imports, Collect(j)
    PROVE  TableInv'
<1>1. UNCHANGED <<change, lastId, changeId>>
    BY DEF Collect, tables, graph
<1>2. DOMAIN job' = Imports
    BY CollectTouches
<1>3. \A r \in Rows : job'[j].tx[r] = None /\ IdFacts(j, r)'
    BY CollectTouches, BeforeUpsert DEF IdFacts
<1> QED BY <1>1, <1>2, <1>3, CollectTouches, OutsideKeeps DEF TableInv, ChangeIdsResolve, Upserting

LEMMA FindKeeps ==
    ASSUME TableInv, NEW j \in Imports, Find(j)
    PROVE  TableInv'
<1>1. /\ job' = [job EXCEPT ![j].pc = "flush", ![j].found = Visible(j, Head(job[j].rows))]
      /\ UNCHANGED <<change, lastId, changeId>> /\ job[j].pc # "save"
    BY DEF Find, Finished, tables, graph
<1>2. /\ DOMAIN job' = Imports /\ JobShape(j)'
      /\ \A k \in Imports \ {j} : job'[k] = job[k]
      /\ job'[j].pc = "flush" /\ job'[j].found = Visible(j, Head(job[j].rows))
      /\ job'[j].rows = job[j].rows /\ job'[j].tx = job[j].tx /\ job'[j].ids = job[j].ids
    BY <1>1 DEF TableInv, JobShape, Fields
<1>3. \A k \in Imports : JobShape(k)' /\ FoundFacts(k)'
  <2>1. FoundFacts(j)'
    BY <1>1, <1>2 DEF FoundFacts, Visible
  <2>2. ASSUME NEW k \in Imports \ {j} PROVE JobShape(k)' /\ FoundFacts(k)'
    <3>1. JobShape(k) /\ FoundFacts(k) /\ job'[k] = job[k]
      BY <1>2, <2>2 DEF TableInv
    <3>2. JobShape(k)'
      BY <3>1 DEF JobShape
    <3>3. FoundFacts(k)'
      BY <1>1, <3>1 DEF FoundFacts, Visible
    <3> QED BY <3>2, <3>3
  <2> QED BY <1>2, <2>1, <2>2
<1>4. ASSUME NEW r \in Rows PROVE TxFacts(j, r)' /\ IdFacts(j, r)'
    BY <1>1, <1>2, <1>4 DEF TableInv, TxFacts, IdFacts, Upserting
<1>5. ASSUME NEW k \in Imports \ {j}, NEW r \in Rows PROVE TxFacts(k, r)' /\ IdFacts(k, r)'
    BY <1>1, <1>2, <1>5 DEF TableInv, TxFacts, IdFacts
<1> QED BY <1>1, <1>2, <1>3, <1>4, <1>5 DEF TableInv, ChangeIdsResolve
-----------------------------------------------------------------------------
(* The steps of the transaction and of the save *)

\* The row that a flush writes has the hunks of its import only, and the id of the row
\* that is there.
LEMMA FlushWrites ==
    ASSUME TableInv, NEW j \in Imports, Flush(j), Head(job[j].rows) \in Rows
    PROVE  \E x \in Written :
               /\ job' = [job EXCEPT ![j].pc = "find", ![j].rows = Tail(@), ![j].found = None,
                                     ![j].tx[Head(job[j].rows)] = x,
                                     ![j].ids[Head(job[j].rows)] = x.id]
               /\ change[Head(job[j].rows)] # None => change[Head(job[j].rows)].id = x.id
<1> DEFINE r == Head(job[j].rows)
           inserted == [id |-> lastId + 1, hunks |-> {j}]
           updated  == [id |-> job[j].found.id,
                        hunks |-> (Visible(j, r).hunks \ HunksLoaded(j, r)) \cup {j}]
           becomes(x) == job' = [job EXCEPT ![j].pc = "find", ![j].rows = Tail(@),
                                            ![j].found = None, ![j].tx[r] = x,
                                            ![j].ids[r] = x.id]
<1>1. \/ job[j].found = None /\ change[r] = None /\ becomes(inserted)
      \/ job[j].found # None /\ becomes(updated)
    BY DEF Flush
<1>2. job[j].pc = "flush"
    BY DEF Flush
<1>3. CASE job[j].found = None /\ change[r] = None /\ becomes(inserted)
    <2>1. inserted \in Written
        BY DEF Written, TableInv
    <2> QED BY <1>3, <2>1
<1>4. CASE job[j].found # None /\ becomes(updated)
    <2>1. Visible(j, r) # None /\ Visible(j, r).id = job[j].found.id
        BY <1>2, <1>4 DEF TableInv, FoundFacts
    <2>2. TxFacts(j, r) /\ change[r] \in Written \cup {None}
        BY DEF TableInv
    <2>3. Visible(j, r) \in Written /\ (change[r] # None => change[r].id = Visible(j, r).id)
        BY <2>1, <2>2 DEF Visible, TxFacts
    <2>4. updated.hunks = {j}
        BY DEF HunksLoaded
    <2>5. updated.id \in Nat
        BY <2>1, <2>3 DEF Written
    <2>6. updated \in Written
        BY <2>4, <2>5 DEF Written
    <2>7. change[r] # None => change[r].id = updated.id
        BY <2>1, <2>3
    <2> HIDE DEF updated
    <2> QED BY <1>4, <2>6, <2>7
<1> QED BY <1>1, <1>3, <1>4

LEMMA FlushKeeps ==
    ASSUME TableInv, NEW j \in Imports, Flush(j)
    PROVE  TableInv'
<1> DEFINE r == Head(job[j].rows)
<1>1. /\ UNCHANGED <<change, changeId>> /\ lastId' \in Nat
      /\ job[j].pc = "flush"
      /\ \A k \in Imports \ {j} : job[k].tx[r] = None
    <2>1. UNCHANGED <<change, changeId>> /\ job[j].pc = "flush" /\ ~LockedByOther(j, r)
        BY DEF Flush, graph
    <2>2. lastId' = lastId + 1 \/ lastId' = lastId
        BY DEF Flush
    <2>3. lastId' \in Nat
        BY <2>2 DEF TableInv
    <2> QED BY <2>1, <2>3 DEF LockedByOther
<1>2. PICK x :
          /\ job' = [job EXCEPT ![j].pc = "find", ![j].rows = Tail(@), ![j].found = None,
                                ![j].tx[r] = x, ![j].ids[r] = x.id]
          /\ r \in Rows => /\ x \in Written
                           /\ change[r] # None => change[r].id = x.id
    <2>1. CASE r \in Rows
        BY <2>1, FlushWrites
    <2>2. CASE r \notin Rows
        BY <2>2 DEF Flush
    <2> QED BY <2>1, <2>2
<1>3. /\ DOMAIN job' = Imports /\ JobShape(j)'
      /\ \A k \in Imports \ {j} : job'[k] = job[k]
      /\ job'[j].pc = "find"
      /\ \A q \in Rows : q # r => job'[j].tx[q] = job[j].tx[q] /\ job'[j].ids[q] = job[j].ids[q]
      /\ r \in Rows => job'[j].tx[r] = x /\ job'[j].ids[r] = x.id
    BY <1>2 DEF TableInv, JobShape, Fields
<1>4. \A k \in Imports : JobShape(k)' /\ FoundFacts(k)'
    <2>1. FoundFacts(j)'
        BY <1>3 DEF FoundFacts
    <2>2. ASSUME NEW k \in Imports \ {j} PROVE JobShape(k)' /\ FoundFacts(k)'
        BY <1>1, <1>3, <2>2 DEF TableInv, JobShape, FoundFacts, Visible
    <2> QED BY <1>3, <2>1, <2>2
<1>5. ASSUME NEW q \in Rows PROVE TxFacts(j, q)' /\ IdFacts(j, q)'
    <2>1. CASE q = r
        <3>1. /\ x \in Written /\ (change[q] # None => change[q].id = x.id)
              /\ job'[j].tx[q] = x /\ job'[j].ids[q] = x.id
              /\ job'[j].pc \in Upserting /\ x # None
            BY <1>2, <1>3, <2>1, NoneIsNoRow DEF Upserting
        <3>2. \A k \in Imports \ {j} : job'[k].tx[q] = None
            BY <1>1, <1>3, <2>1
        <3> QED BY <1>1, <3>1, <3>2 DEF TxFacts, IdFacts
    <2>2. CASE q # r
        <3>1. TxFacts(j, q) /\ IdFacts(j, q)
            BY DEF TableInv
        <3> QED BY <1>1, <1>3, <2>2, <3>1 DEF TxFacts, IdFacts, Upserting
    <2> QED BY <2>1, <2>2
<1>6. ASSUME NEW k \in Imports \ {j}, NEW q \in Rows PROVE TxFacts(k, q)' /\ IdFacts(k, q)'
    <2>1. TxFacts(k, q) /\ IdFacts(k, q)
        BY DEF TableInv
    <2>2. job[k].tx[q] # None => job'[j].tx[q] = None
        BY <1>1, <1>3, <2>1 DEF TxFacts
    <2> QED BY <1>1, <1>3, <2>1, <2>2 DEF TxFacts, IdFacts
<1> QED BY <1>1, <1>3, <1>4, <1>5, <1>6 DEF TableInv, ChangeIdsResolve

LEMMA CommitKeeps ==
    ASSUME TableInv, NEW j \in Imports, CommitChanges(j)
    PROVE  TableInv'
<1>1. /\ change' = [r \in Rows |-> Visible(j, r)]
      /\ job' = [job EXCEPT ![j].pc = "save", ![j].tx = [r \in Rows |-> None]]
      /\ UNCHANGED <<lastId, changeId>> /\ job[j].pc # "save"
    BY DEF CommitChanges, graph, Finished
<1>2. /\ DOMAIN job' = Imports /\ JobShape(j)' /\ job'[j].pc = "save"
      /\ \A r \in Rows : job'[j].tx[r] = None /\ job'[j].ids[r] = job[j].ids[r]
      /\ \A k \in Imports \ {j} : job'[k] = job[k]
    BY <1>1 DEF TableInv, JobShape, Fields
<1>3. ASSUME NEW r \in Rows
      PROVE  /\ change'[r] \in Written \cup {None}
             /\ change[r] # None => change'[r] # None /\ change'[r].id = change[r].id
             /\ job[j].tx[r] = None => change'[r] = change[r]
             /\ job[j].tx[r] # None => change'[r] = job[j].tx[r]
    <2>1. TxFacts(j, r) /\ change[r] \in Written \cup {None}
        BY DEF TableInv
    <2> QED BY <1>1, <2>1, NoneIsNoRow DEF TxFacts, Visible
<1>4. \A k \in Imports : JobShape(k)' /\ FoundFacts(k)'
    <2>1. FoundFacts(j)'
        BY <1>2 DEF FoundFacts
    <2>2. ASSUME NEW k \in Imports \ {j} PROVE JobShape(k)' /\ FoundFacts(k)'
        BY <1>2, <1>3, <2>2 DEF TableInv, JobShape, FoundFacts, Visible
    <2> QED BY <1>2, <2>1, <2>2
<1>5. ASSUME NEW r \in Rows PROVE TxFacts(j, r)' /\ IdFacts(j, r)'
    <2>1. TxFacts(j, r) /\ IdFacts(j, r)
        BY DEF TableInv
    <2> QED BY <1>1, <1>2, <1>3, <2>1 DEF TxFacts, IdFacts
<1>6. ASSUME NEW k \in Imports \ {j}, NEW r \in Rows PROVE TxFacts(k, r)' /\ IdFacts(k, r)'
    <2>1. TxFacts(k, r) /\ IdFacts(k, r)
        BY DEF TableInv
    <2>2. job[k].tx[r] # None => job[j].tx[r] = None
        BY <2>1 DEF TxFacts
    <2> QED BY <1>2, <1>3, <2>1, <2>2 DEF TxFacts, IdFacts
<1>7. change' \in [Rows -> Written \cup {None}]
    BY <1>1, <1>3
<1>8. ChangeIdsResolve'
    BY <1>1, <1>3 DEF TableInv, ChangeIdsResolve
<1> QED BY <1>1, <1>2, <1>4, <1>5, <1>6, <1>7, <1>8 DEF TableInv

LEMMA SaveKeeps ==
    ASSUME TableInv, NEW j \in Imports, SaveStatement(j)
    PROVE  TableInv'
<1>1. PICK new :
          /\ job' = [job EXCEPT ![j] = new]
          /\ \/ new = [Idle EXCEPT !.pc = "done"]
             \/ \E n : new = [job[j] EXCEPT !.op = n]
    BY DEF SaveStatement
<1>2. job[j].pc = "save" /\ UNCHANGED <<change, lastId>>
    BY DEF SaveStatement, tables
<1>3. \A r \in Rows : job[j].tx[r] = None
    BY <1>2, BeforeUpsert DEF Upserting
<1>4. /\ DOMAIN new = Fields /\ new.pc \in {"save", "done"}
      /\ DOMAIN new.tx = Rows /\ DOMAIN new.ids = Rows
      /\ \A r \in Rows : new.tx[r] = None
      /\ \A r \in Rows : new.ids[r] = None \/ (new.pc = "save" /\ new.ids[r] = job[j].ids[r])
    <2>1. CASE new = [Idle EXCEPT !.pc = "done"]
        <3>1. /\ DOMAIN Idle = Fields
              /\ Idle.tx = [r \in Rows |-> None] /\ Idle.ids = [r \in Rows |-> None]
            BY DEF Idle, Fields
        <3>2. /\ DOMAIN new = Fields /\ new.pc = "done"
              /\ new.tx = Idle.tx /\ new.ids = Idle.ids
            BY <2>1, <3>1 DEF Fields
        <3> QED BY <3>1, <3>2
    <2>2. CASE \E n : new = [job[j] EXCEPT !.op = n]
        BY <1>2, <1>3, <2>2 DEF TableInv, JobShape, Fields
    <2> QED BY <1>1, <2>1, <2>2
<1>5. /\ DOMAIN job' = Imports /\ job'[j] = new
      /\ \A k \in Imports \ {j} : job'[k] = job[k]
    BY <1>1 DEF TableInv
<1>6. JobShape(j)' /\ job'[j].pc # "flush"
    BY <1>4, <1>5 DEF JobShape
<1>7. ASSUME NEW r \in Rows PROVE job'[j].tx[r] = None /\ IdFacts(j, r)'
    BY <1>2, <1>4, <1>5, <1>7 DEF TableInv, IdFacts, Upserting
<1>8. DOMAIN changeId' = Rows
    BY DEF TableInv, SaveStatement, SaveNodes, SaveRelations
<1>9. ASSUME NEW r \in Rows
      PROVE  \/ changeId'[r] = changeId[r]
             \/ (job[j].ids[r] # None /\ changeId'[r] = job[j].ids[r])
    BY <1>9 DEF TableInv, SaveStatement, SaveNodes, SaveRelations
<1>10. ChangeIdsResolve'
    BY <1>2, <1>9 DEF TableInv, ChangeIdsResolve, IdFacts, Upserting
<1> QED BY <1>2, <1>5, <1>6, <1>7, <1>8, <1>10, OutsideKeeps

-----------------------------------------------------------------------------
(* The theorems *)

LEMMA TableKept == TableInv /\ [Next]_vars => TableInv'
<1> SUFFICES ASSUME TableInv, [Next]_vars PROVE TableInv'
    OBVIOUS
<1>1. CASE UNCHANGED vars
    BY <1>1, GraphAndGitHubKeep DEF vars
<1>2. CASE GitHubStep
    BY <1>2, GitHubKeeps
<1>3. ASSUME NEW j \in Imports, ImportStep(j) PROVE TableInv'
    BY <1>3, StartAndFailKeep, CollectKeeps, FindKeeps, FlushKeeps, CommitKeeps, SaveKeeps
       DEF ImportStep
<1> QED BY <1>1, <1>2, <1>3 DEF Next

THEOREM TableInvariant == Spec => []TableInv
<1> QED BY TableInitially, TableKept, PTL DEF Spec

\* The id in the graph is that of the row of the same commit and file, whatever fails
\* and however imports overlap.
THEOREM IdsResolve == Spec => []ChangeIdsResolve
<1>1. TableInv => ChangeIdsResolve
    BY DEF TableInv
<1> QED BY <1>1, TableInvariant, PTL

\* Overlapping imports never leave the hunks of a patch twice, and none without.
THEOREM HunksWhole == Spec => []HunksOfOneImport
<1>1. ASSUME TableInv, NEW r \in Rows, change[r] # None
      PROVE  Cardinality(change[r].hunks) = 1
    <2>1. PICK j \in Imports : change[r].hunks = {j}
        BY <1>1 DEF TableInv, Written
    <2> QED BY <2>1, FS_Singleton
<1>2. TableInv => HunksOfOneImport
    BY <1>1 DEF HunksOfOneImport
<1> QED BY <1>2, TableInvariant, PTL

-----------------------------------------------------------------------------
(* Sequences.  The induction theorems of the library take an operator, which *)
(* the provers cannot instantiate; a least counterexample does instead.      *)

\* A set of natural numbers has a least one: its intervals 1..n are finite sets.
LEMMA LeastNatural ==
    ASSUME NEW S \in SUBSET Nat, S # {}
    PROVE  \E n \in S : \A m \in S : n <= m
<1> DEFINE R == StrictSubsetOrdering(Nat)
           F == FiniteSubsetsOf(Nat)
           T == {1..n : n \in S}
<1>1. IsWellFoundedOn(R, F)
    BY FS_StrictSubsetOrderingWellFounded
<1>2. T \subseteq F
    <2> SUFFICES ASSUME NEW n \in S PROVE 1..n \in F
        OBVIOUS
    <2>1. IsFiniteSet(1..n)
        BY FS_Interval
    <2> QED BY <2>1 DEF FiniteSubsetsOf
<1>3. T # {}
    OBVIOUS
<1> HIDE DEF R, F, T
<1>4. PICK x \in T : \A y \in T : ~ (<<y, x>> \in R)
    BY <1>1, <1>2, <1>3, WFMin
<1>5. PICK n \in S : x = 1..n
    BY <1>4 DEF T
<1>6. ASSUME NEW m \in S, ~(n <= m) PROVE FALSE
    <2>1. 1..m \in T
        BY DEF T
    <2>2. 1..m \subseteq 1..n /\ n \in 1..n /\ n \notin 1..m
        BY <1>6
    <2>3. <<1..m, 1..n>> \in R
        <3>1. 1..m \in SUBSET Nat /\ 1..n \in SUBSET Nat /\ 1..m # 1..n
            BY <2>2
        <3> QED BY <2>2, <3>1 DEF R, StrictSubsetOrdering
    <2> QED BY <1>4, <1>5, <2>1, <2>3
<1> QED BY <1>6

\* What a sequence has.
LEMMA AppendSet ==
    ASSUME NEW T, NEW s \in Seq(T), NEW x
    PROVE  SeqSet(Append(s, x)) = SeqSet(s) \cup {x}
<1>1. /\ Append(s, x) \in Seq(T \cup {x}) /\ Len(Append(s, x)) = Len(s) + 1
      /\ Append(s, x)[Len(s) + 1] = x
      /\ \A i \in 1..Len(s) : Append(s, x)[i] = s[i]
    OBVIOUS
<1>2. Len(s) \in Nat /\ DOMAIN s = 1..Len(s) /\ DOMAIN Append(s, x) = 1..(Len(s) + 1)
    BY <1>1
<1>3. 1..(Len(s) + 1) = 1..Len(s) \cup {Len(s) + 1}
    BY <1>2
<1> HIDE DEF SeqSet
<1> QED BY <1>1, <1>2, <1>3 DEF SeqSet

\* What OnlyIn has kept of the first n elements.
Keeping(kept, list, S) ==
    /\ DOMAIN kept = 0..Len(list)
    /\ kept[0] = <<>>
    /\ \A n \in 1..Len(list) :
          kept[n] = IF list[n] \in S THEN Append(kept[n - 1], list[n]) ELSE kept[n - 1]

\* The function that OnlyIn is made of exists.
LEMMA OnlyInKeeps ==
    ASSUME NEW T, NEW list \in Seq(T), NEW S
    PROVE  \E kept : Keeping(kept, list, S) /\ OnlyIn(list, S) = kept[Len(list)]
<1> DEFINE N == Len(list)
           More(x, n) == IF list[n] \in S THEN Append(x, list[n]) ELSE x
           Eq(f) == f = [n \in 0..N |-> IF n = 0 THEN <<>> ELSE More(f[n - 1], n)]
           Upto(f, n) == /\ f = [i \in 0..n |-> f[i]] /\ f[0] = <<>>
                         /\ \A i \in 1..n : f[i] = More(f[i - 1], i)
           Bad == {n \in 0..N : ~ \E f : Upto(f, n)}
<1>1. N \in Nat
    OBVIOUS
<1>2. OnlyIn(list, S) = (CHOOSE f : Eq(f))[N]
    BY DEF OnlyIn
<1> HIDE DEF N, More
<1>3. Bad = {}
    <2>1. SUFFICES ASSUME Bad # {} PROVE FALSE
        OBVIOUS
    <2>2. Bad \in SUBSET Nat
        BY <1>1
    <2>3. PICK n \in Bad : \A m \in Bad : n <= m
        BY <2>1, <2>2, LeastNatural
    <2>4. n # 0
        <3>1. Upto([i \in 0..0 |-> <<>>], 0)
            OBVIOUS
        <3> QED BY <2>3, <3>1
    <2>5. n - 1 \in 0..N /\ n - 1 \notin Bad /\ n \in 1..N
        BY <1>1, <2>3, <2>4
    <2>6. PICK f : Upto(f, n - 1)
        BY <2>5
    <2> DEFINE g == [i \in 0..n |-> IF i = n THEN More(f[n - 1], n) ELSE f[i]]
    <2>7. Upto(g, n)
        <3>1. \A i \in 1..n : i - 1 \in 0..(n - 1) /\ g[i - 1] = f[i - 1]
            BY <1>1, <2>5
        <3>2. \A i \in 1..n : g[i] = More(g[i - 1], i)
            <4> SUFFICES ASSUME NEW i \in 1..n PROVE g[i] = More(g[i - 1], i)
                OBVIOUS
            <4>1. CASE i = n
                BY <3>1, <4>1
            <4>2. CASE i # n
                <5>1. i \in 1..(n - 1) /\ i \in 0..n
                    BY <1>1, <2>5, <4>2
                <5>2. f[i] = More(f[i - 1], i)
                    BY <2>6, <5>1
                <5> QED BY <3>1, <4>2, <5>1, <5>2
            <4> QED BY <4>1, <4>2
        <3>3. g[0] = <<>>
            BY <1>1, <2>5, <2>6
        <3> QED BY <3>2, <3>3
    <2> QED BY <2>3, <2>7
<1>4. PICK f : Upto(f, N)
    BY <1>1, <1>3
<1>5. Eq(f)
    <2>1. /\ f = [n \in 0..N |-> f[n]] /\ f[0] = <<>>
          /\ \A i \in 1..N : f[i] = More(f[i - 1], i)
        BY <1>4
    <2>2. ASSUME NEW n \in 0..N
          PROVE  f[n] = IF n = 0 THEN <<>> ELSE More(f[n - 1], n)
        <3>1. n = 0 \/ n \in 1..N
            BY <1>1
        <3> QED BY <2>1, <3>1
    <2> QED BY <2>1, <2>2
<1> HIDE DEF Upto
<1> DEFINE kept == CHOOSE k : Eq(k)
<1>6. Eq(kept)
    <2> HIDE DEF Eq
    <2> QED BY <1>5
<1> HIDE DEF kept
<1>7. Keeping(kept, list, S)
    <2>1. DOMAIN kept = 0..N /\ kept[0] = <<>>
        BY <1>1, <1>6
    <2>2. ASSUME NEW n \in 1..N PROVE kept[n] = More(kept[n - 1], n)
        <3>1. n \in 0..N /\ n # 0
            BY <1>1
        <3> QED BY <1>6, <3>1
    <2> QED BY <2>1, <2>2 DEF Keeping, N, More
<1> QED BY <1>2, <1>7 DEF N, kept

\* OnlyIn takes out what is not in S, and nothing else.
LEMMA OnlyInSet ==
    ASSUME NEW T, NEW list \in Seq(T), NEW S
    PROVE  /\ OnlyIn(list, S) \in Seq(T) /\ OnlyIn(list, S) \in Seq(T \cap S)
           /\ SeqSet(OnlyIn(list, S)) = SeqSet(list) \cap S
<1> DEFINE N == Len(list)
<1>1. PICK kept : Keeping(kept, list, S) /\ OnlyIn(list, S) = kept[N]
    BY OnlyInKeeps
<1>2. N \in Nat /\ DOMAIN list = 1..N /\ \A i \in 1..N : list[i] \in T
    OBVIOUS
<1> DEFINE Good(n) == /\ kept[n] \in Seq(T \cap S)
                      /\ SeqSet(kept[n]) = {list[i] : i \in 1..n} \cap S
           Bad == {n \in 0..N : ~Good(n)}
<1> HIDE DEF N
<1>3. Bad = {}
    <2>1. SUFFICES ASSUME Bad # {} PROVE FALSE
        OBVIOUS
    <2>2. Bad \in SUBSET Nat
        BY <1>2
    <2>3. PICK n \in Bad : \A m \in Bad : n <= m
        BY <2>1, <2>2, LeastNatural
    <2>4. n # 0
        <3>1. kept[0] = <<>>
            BY <1>1 DEF Keeping
        <3>2. SeqSet(<<>>) = {} /\ <<>> \in Seq(T \cap S)
            BY DEF SeqSet
        <3>3. {list[i] : i \in 1..0} = {}
            OBVIOUS
        <3>4. Good(0)
            BY <3>1, <3>2, <3>3
        <3> QED BY <2>3, <3>4
    <2>5. n - 1 \in 0..N /\ n - 1 \notin Bad /\ n \in 1..N
        <3>1. n \in 0..N
            BY <2>3
        <3>2. n - 1 \in 0..N /\ n \in 1..N /\ n - 1 \in Nat /\ n \in Nat /\ ~(n <= n - 1)
            BY <1>2, <2>4, <3>1
        <3> HIDE DEF Good
        <3> QED BY <2>3, <3>2
    <2>6. Good(n - 1) /\ list[n] \in T
        BY <1>2, <2>5
    <2>7. kept[n] = IF list[n] \in S THEN Append(kept[n - 1], list[n]) ELSE kept[n - 1]
        BY <1>1, <2>5 DEF Keeping, N
    <2>8. {list[i] : i \in 1..n} = {list[i] : i \in 1..(n - 1)} \cup {list[n]}
        BY <1>2, <2>5
    <2>9. CASE list[n] \in S
        <3>1. kept[n] = Append(kept[n - 1], list[n]) /\ kept[n - 1] \in Seq(T \cap S)
            BY <2>6, <2>7, <2>9
        <3>2. kept[n] \in Seq(T \cap S)
            BY <2>6, <2>9, <3>1
        <3>3. SeqSet(kept[n]) = SeqSet(kept[n - 1]) \cup {list[n]}
            BY <3>1, AppendSet
        <3> QED BY <2>3, <2>6, <2>8, <2>9, <3>2, <3>3
    <2>10. CASE list[n] \notin S
        BY <2>3, <2>6, <2>7, <2>8, <2>10
    <2> QED BY <2>9, <2>10
<1>4. Good(N)
    <2>1. N \in 0..N
        BY <1>2
    <2> HIDE DEF Good
    <2> QED BY <1>3, <2>1
<1>5. SeqSet(list) = {list[i] : i \in 1..N}
    BY <1>2 DEF SeqSet
<1>6. OnlyIn(list, S) \in Seq(T)
    BY <1>1, <1>4
<1> QED BY <1>1, <1>4, <1>5, <1>6

LEMMA MoreOf ==
    ASSUME NEW A, NEW B, A \subseteq B, NEW s \in Seq(A)
    PROVE  s \in Seq(B)
<1>1. Len(s) \in Nat /\ s = [i \in 1..Len(s) |-> s[i]] /\ \A i \in 1..Len(s) : s[i] \in B
    OBVIOUS
<1> QED BY <1>1

\* A page has what the list has there.
LEMMA PageOf ==
    ASSUME NEW T, NEW list \in Seq(T), NEW n \in Nat \ {0}
    PROVE  Page(list, n) \in Seq(T) /\ SeqSet(Page(list, n)) \subseteq SeqSet(list)
<1> DEFINE a == (n - 1) * PageSize
           z == IF n * PageSize < Len(list) THEN n * PageSize ELSE Len(list)
<1>1. a \in Nat /\ n * PageSize \in Nat
    <2>1. PageSize \in Nat /\ n - 1 \in Nat /\ n \in Nat
        BY ImportAssumption
    <2>2. \A x, y \in Nat : x * y \in Nat
        OBVIOUS
    <2> QED BY <2>1, <2>2
<1>2. z \in Nat /\ z <= Len(list) /\ Len(list) \in Nat
    BY <1>1
<1>3. Page(list, n) = SubSeq(list, a + 1, z)
    BY DEF Page
<1> HIDE DEF a, z
<1>4. /\ SubSeq(list, a + 1, z) \in Seq(T)
      /\ \A i \in DOMAIN SubSeq(list, a + 1, z) :
            i + a \in DOMAIN list /\ SubSeq(list, a + 1, z)[i] = list[i + a]
    BY <1>1, <1>2
<1> QED BY <1>3, <1>4 DEF SeqSet

LEMMA SeqOver ==
    ASSUME NEW T, NEW s \in Seq(T), NEW U, SeqSet(s) \subseteq U
    PROVE  s \in Seq(U)
<1>1. Len(s) \in Nat /\ s = [i \in 1..Len(s) |-> s[i]] /\ DOMAIN s = 1..Len(s)
    OBVIOUS
<1>2. \A i \in 1..Len(s) : s[i] \in U
    BY <1>1 DEF SeqSet
<1> QED BY <1>1, <1>2

\* What is left for the requests of the details is in the list.
LEMMA ReadsLeaves ==
    ASSUME NEW T, NEW list \in Seq(T), NEW n \in Nat \ {0}, NEW S, NEW U,
           SeqSet(list) \cap S \subseteq U
    PROVE  OnlyIn(Page(list, n), S) \in Seq(U)
<1>1. Page(list, n) \in Seq(T) /\ SeqSet(Page(list, n)) \subseteq SeqSet(list)
    BY PageOf
<1>2. /\ OnlyIn(Page(list, n), S) \in Seq(T)
      /\ SeqSet(OnlyIn(Page(list, n), S)) = SeqSet(Page(list, n)) \cap S
    BY <1>1, OnlyInSet
<1>3. SeqSet(OnlyIn(Page(list, n), S)) \subseteq U
    BY <1>1, <1>2
<1> QED BY <1>2, <1>3, SeqOver

-----------------------------------------------------------------------------
(* Types *)

DocFields == {"heads", "issues", "pulls", "contains", "changed", "commits"}

States == {"open", "closed", None}

\* The documents have states of issues, and the ids of rows come from the sequence.
TypesInv ==
    /\ github \in Repository
    /\ events \in Nat
    /\ state \in [Issues -> States]
    /\ changeId = [r \in Rows |-> changeId[r]]
    /\ \A j \in Imports : /\ DOMAIN job[j].doc = DocFields
                          /\ job[j].doc.issues \in [Issues -> States]
                          /\ job[j].page \in Nat \ {0}
                          /\ job[j].pc \notin Ended => job[j].branch \in Branches
    /\ \A r \in Rows : change[r] # None => change[r].id \in 1..lastId
    /\ \A j \in Imports, r \in Rows : job[j].tx[r] # None => job[j].tx[r].id \in 1..lastId

LEMMA IdleShape ==
    /\ DOMAIN Idle = Fields /\ Idle.pc = "idle" /\ Idle.doc = EmptyDoc
    /\ Idle.page = 1 /\ Idle.todo = <<>>
    /\ Idle.tx = [r \in Rows |-> None]
    /\ DOMAIN EmptyDoc = DocFields
    /\ EmptyDoc.issues = [i \in Issues |-> None]
    /\ EmptyDoc.heads = {} /\ EmptyDoc.pulls = {} /\ EmptyDoc.contains = {}
    /\ EmptyDoc.commits = {}
BY DEF Idle, EmptyDoc, Fields, DocFields

LEMMA TypesInitially == Init => TypesInv
<1> SUFFICES ASSUME Init PROVE TypesInv
    OBVIOUS
<1>1. \A j \in Imports : job[j] = Idle
    BY DEF Init
<1>2. github \in Repository /\ events \in Nat
    BY ImportAssumption DEF Init
<1>3. state \in [Issues -> States] /\ EmptyDoc.issues \in [Issues -> States]
    BY IdleShape DEF Init, States
<1> QED BY <1>1, <1>2, <1>3, IdleShape DEF TypesInv, Ended, Init

\* The repository stays one.
LEMMA GitHubTyped ==
    ASSUME github \in Repository, events \in Nat, GitHubStep
    PROVE  github' \in Repository /\ events' \in Nat
<1> USE DEF Becomes
<1>0. events' \in Nat
    <2>1. events' = events + 1
        BY DEF GitHubStep, OpenIssue, OpenPull, CloseOrReopen, DeleteIssue, EditPull, MergePull, Push
    <2> QED BY <2>1
<1>1. ASSUME NEW n \in Numbers, NEW last \in Nat
      PROVE  [github EXCEPT !.items = <<n>> \o @, !.last = last] \in Repository
    <2>1. github.items \in Seq(Numbers) /\ <<n>> \in Seq(Numbers)
        BY DEF Repository
    <2>2. <<n>> \o github.items \in Seq(Numbers)
        BY <2>1
    <2> QED BY <2>2 DEF Repository
<1>2. CASE OpenIssue \/ OpenPull
    <2>1. /\ github.last + 1 \in Numbers /\ github.last + 1 \in Nat
          /\ github' = [github EXCEPT !.items = <<github.last + 1>> \o @, !.last = @ + 1]
        BY <1>2 DEF OpenIssue, OpenPull, Numbers, Repository
    <2> QED BY <1>1, <2>1, <1>0
<1>3. ASSUME NEW i \in Issues, CloseOrReopen(i) PROVE github' \in Repository
    BY <1>3 DEF CloseOrReopen, Repository
<1>4. ASSUME NEW i \in Issues, DeleteIssue(i) PROVE github' \in Repository
    <2>1. github.items \in Seq(Numbers)
        BY DEF Repository
    <2>2. OnlyIn(github.items, Numbers \ {i}) \in Seq(Numbers)
        BY <2>1, OnlyInSet
    <2>3. github' = [github EXCEPT !.items = OnlyIn(github.items, Numbers \ {i})]
        BY <1>4 DEF DeleteIssue
    <2> QED BY <2>2, <2>3 DEF Repository
<1>5. ASSUME NEW p \in Pulls, EditPull(p) PROVE github' \in Repository
    <2>1. PICK t \in {g.text[p] : g \in Initial} : github' = [github EXCEPT !.text[p] = t]
        BY <1>5 DEF EditPull
    <2>2. PICK g \in Initial : t = g.text[p]
        OBVIOUS
    <2>3. t \in Texts
        BY <2>2, ImportAssumption DEF Repository
    <2> HIDE DEF Texts
    <2>4. [github.text EXCEPT ![p] = t] \in [Pulls -> Texts]
        BY <2>3 DEF Repository
    <2>5. github' = [github EXCEPT !.text = [github.text EXCEPT ![p] = t]]
        BY <2>1 DEF Repository
    <2> QED BY <2>4, <2>5 DEF Repository
<1>6. ASSUME NEW p \in Pulls, NEW b \in Branches, MergePull(p, b) PROVE github' \in Repository
    <2>1. PICK c \in MergedAs[p] : github' = [github EXCEPT !.merged[p] = c, !.head[b] = c]
        BY <1>6 DEF MergePull
    <2>2. c \in Commits
        BY ImportAssumption
    <2> QED BY <2>1, <2>2 DEF Repository
<1>7. ASSUME NEW b \in Branches, Push(b) PROVE github' \in Repository
    <2>1. PICK c \in Commits : github' = [github EXCEPT !.head[b] = c]
        BY <1>7 DEF Push
    <2> QED BY <2>1 DEF Repository
<1> QED BY <1>0, <1>2, <1>3, <1>4, <1>5, <1>6, <1>7 DEF GitHubStep


\* The types while import j takes a step on its own and the others keep their jobs.
LEMMA OneJobTyped ==
    ASSUME TypesInv, NEW j \in Imports,
           \A k \in Imports \ {j} : job'[k] = job[k],
           UNCHANGED <<github, change, lastId>>, events' \in Nat, state' \in [Issues -> States],
           changeId' = [r \in Rows |-> changeId'[r]],
           DOMAIN job'[j].doc = DocFields, job'[j].doc.issues \in [Issues -> States],
           job'[j].page \in Nat \ {0}, job'[j].pc \notin Ended => job'[j].branch \in Branches,
           \A r \in Rows : job'[j].tx[r] # None => job'[j].tx[r].id \in 1..lastId
    PROVE  TypesInv'
<1>1. ASSUME NEW k \in Imports
      PROVE  /\ DOMAIN job'[k].doc = DocFields
             /\ job'[k].doc.issues \in [Issues -> States]
             /\ job'[k].page \in Nat \ {0}
             /\ job'[k].pc \notin Ended => job'[k].branch \in Branches
             /\ \A r \in Rows : job'[k].tx[r] # None => job'[k].tx[r].id \in 1..lastId
    <2>1. CASE k = j
        BY <2>1
    <2>2. CASE k # j
        BY <2>2 DEF TypesInv
    <2> QED BY <2>1, <2>2
<1>2. \A r \in Rows : change'[r] # None => change'[r].id \in 1..lastId'
    BY DEF TypesInv
<1> QED BY <1>1, <1>2 DEF TypesInv

\* A request reads on in its list, or goes to the next; the document has its fields.
LEMMA CollectTyped ==
    ASSUME TableInv, TypesInv, NEW j \in Imports, Collect(j)
    PROVE  /\ DOMAIN job'[j].doc = DocFields /\ job'[j].doc.issues \in [Issues -> States]
           /\ job'[j].page \in Nat \ {0}
           /\ job[j].pc \notin Ended /\ job'[j].branch = job[j].branch
<1>0. /\ DOMAIN job = Imports /\ DOMAIN job[j] = Fields /\ DOMAIN job[j].doc = DocFields
      /\ job[j].doc.issues \in [Issues -> States] /\ job[j].page \in Nat \ {0}
      /\ job[j].page + 1 \in Nat \ {0}
    BY DEF TableInv, JobShape, TypesInv
<1> USE DEF Fields, DocFields, Ended
<1>1. CASE ListBranches(j)
    BY <1>0, <1>1 DEF ListBranches
<1>2. CASE ListIssues(j)
    BY <1>0, <1>2 DEF ListIssues, Reads
<1>3. CASE GetIssue(j)
    <2>1. PICK i \in Issues : job' = [job EXCEPT ![j].todo = Tail(@), ![j].doc.issues[i] = StateOf(github, i)]
        BY <1>3 DEF GetIssue, IssuesOf
    <2>2. StateOf(github, i) \in States
        BY DEF StateOf, States
    <2>3. /\ job'[j].doc = [job[j].doc EXCEPT !.issues = [@ EXCEPT ![i] = StateOf(github, i)]]
          /\ job'[j].page = job[j].page /\ job'[j].branch = job[j].branch
        BY <1>0, <2>1
    <2>4. job'[j].doc.issues = [job[j].doc.issues EXCEPT ![i] = StateOf(github, i)]
        BY <1>0, <2>3
    <2> QED BY <1>0, <1>3, <2>2, <2>3, <2>4 DEF GetIssue
<1>4. CASE ListPulls(j)
    BY <1>0, <1>4 DEF ListPulls, Reads, Finished
<1>5. CASE GetPull(j)
    BY <1>0, <1>5 DEF GetPull
<1>6. CASE ListPullCommits(j)
    BY <1>0, <1>6 DEF ListPullCommits
<1>7. CASE ListPullFiles(j)
    BY <1>0, <1>7 DEF ListPullFiles
<1>8. CASE ListCommits(j)
    BY <1>0, <1>8 DEF ListCommits, Reads, Finished
<1>9. CASE GetCommit(j)
    BY <1>0, <1>9 DEF GetCommit
<1> QED BY <1>1, <1>2, <1>3, <1>4, <1>5, <1>6, <1>7, <1>8, <1>9 DEF Collect

LEMMA StartTyped ==
    ASSUME TableInv, TypesInv, NEW j \in Imports, NEW b \in Branches, Start(j, b)
    PROVE  TypesInv'
<1> DEFINE new == [Idle EXCEPT !.pc = "branches", !.branch = b]
<1>1. /\ job' = [job EXCEPT ![j] = new] /\ events' = events + 1
      /\ UNCHANGED <<github, change, lastId, state, changeId>>
    BY DEF Start, tables, graph
<1>2. /\ new.doc = EmptyDoc /\ new.page = 1 /\ new.branch = b
      /\ new.tx = [r \in Rows |-> None]
    BY IdleShape DEF Fields
<1>3. job'[j] = new /\ \A k \in Imports \ {j} : job'[k] = job[k]
    BY <1>1 DEF TableInv
<1>4. EmptyDoc.issues \in [Issues -> States]
    BY IdleShape DEF States
<1> HIDE DEF new
<1> QED BY <1>1, <1>2, <1>3, <1>4, IdleShape, OneJobTyped DEF TypesInv

LEMMA FailTyped ==
    ASSUME TableInv, TypesInv, NEW j \in Imports, Fail(j)
    PROVE  TypesInv'
<1>1. job' = [job EXCEPT ![j] = Idle] /\ UNCHANGED <<github, events, change, lastId, state, changeId>>
    BY DEF Fail, world, tables, graph
<1>2. job'[j] = Idle /\ \A k \in Imports \ {j} : job'[k] = job[k]
    BY <1>1 DEF TableInv
<1>3. EmptyDoc.issues \in [Issues -> States]
    BY IdleShape DEF States
<1> QED BY <1>1, <1>2, <1>3, IdleShape, OneJobTyped DEF TypesInv, Ended

LEMMA FlushTyped ==
    ASSUME TableInv, TypesInv, NEW j \in Imports, Flush(j)
    PROVE  TypesInv'
<1> DEFINE r == Head(job[j].rows)
           updatedId == job[j].found.id
<1>1. /\ UNCHANGED <<github, events, change, state, changeId>> /\ job[j].pc = "flush"
    BY DEF Flush, world, graph
<1>2. PICK x :
          /\ job' = [job EXCEPT ![j].pc = "find", ![j].rows = Tail(@), ![j].found = None,
                                ![j].tx[r] = x, ![j].ids[r] = x.id]
          /\ \/ x.id = lastId + 1 /\ lastId' = lastId + 1
             \/ job[j].found # None /\ x.id = updatedId /\ lastId' = lastId
    <2> DEFINE inserted == [id |-> lastId + 1, hunks |-> {j}]
               updated  == [id |-> updatedId,
                            hunks |-> (Visible(j, r).hunks \ HunksLoaded(j, r)) \cup {j}]
               becomes(x) == job' = [job EXCEPT ![j].pc = "find", ![j].rows = Tail(@),
                                                ![j].found = None, ![j].tx[r] = x,
                                                ![j].ids[r] = x.id]
    <2>1. \/ becomes(inserted) /\ lastId' = lastId + 1
          \/ job[j].found # None /\ becomes(updated) /\ lastId' = lastId
        BY DEF Flush
    <2>2. inserted.id = lastId + 1 /\ updated.id = updatedId
        OBVIOUS
    <2> HIDE DEF inserted, updated
    <2> QED BY <2>1, <2>2
<1>3. lastId \in Nat /\ lastId' \in Nat /\ lastId <= lastId'
    <2>1. lastId \in Nat /\ (lastId' = lastId \/ lastId' = lastId + 1)
        BY <1>2 DEF TableInv
    <2> QED BY <2>1
<1>4. ASSUME r \in Rows PROVE x.id \in 1..lastId'
    <2>1. CASE x.id = lastId + 1 /\ lastId' = lastId + 1
        BY <1>3, <2>1
    <2>2. CASE job[j].found # None /\ x.id = updatedId /\ lastId' = lastId
        <3>1. Visible(j, r) # None /\ Visible(j, r).id = updatedId
            BY <1>1, <1>4, <2>2 DEF TableInv, FoundFacts
        <3>2. Visible(j, r).id \in 1..lastId
            BY <1>4, <3>1 DEF TypesInv, Visible
        <3> QED BY <2>2, <3>1, <3>2
    <2> QED BY <1>2, <2>1, <2>2
<1>5. /\ DOMAIN job' = Imports
      /\ \A k \in Imports \ {j} : job'[k] = job[k]
      /\ job'[j].doc = job[j].doc /\ job'[j].page = job[j].page /\ job'[j].branch = job[j].branch
      /\ job[j].pc \notin Ended
      /\ \A q \in Rows : q # r => job'[j].tx[q] = job[j].tx[q]
      /\ r \in Rows => job'[j].tx[r] = x
    BY <1>1, <1>2 DEF TableInv, JobShape, Fields, Ended
<1>6. \A n : n \in 1..lastId => n \in 1..lastId'
    BY <1>3
<1>7. ASSUME NEW k \in Imports, NEW q \in Rows, job'[k].tx[q] # None
      PROVE  job'[k].tx[q].id \in 1..lastId'
    <2>1. CASE k = j /\ q = r
        BY <1>4, <1>5, <2>1
    <2>2. CASE ~(k = j /\ q = r)
        <3>1. job'[k].tx[q] = job[k].tx[q]
            BY <1>5, <2>2
        <3> QED BY <1>6, <1>7, <3>1 DEF TypesInv
    <2> QED BY <2>1, <2>2
<1>8. \A k \in Imports : /\ DOMAIN job'[k].doc = DocFields
                         /\ job'[k].doc.issues \in [Issues -> States]
                         /\ job'[k].page \in Nat \ {0}
                         /\ job'[k].pc \notin Ended => job'[k].branch \in Branches
    <2> SUFFICES ASSUME NEW k \in Imports
                 PROVE  /\ DOMAIN job'[k].doc = DocFields
                        /\ job'[k].doc.issues \in [Issues -> States]
                        /\ job'[k].page \in Nat \ {0}
                        /\ job'[k].pc \notin Ended => job'[k].branch \in Branches
        OBVIOUS
    <2>1. CASE k = j
        BY <1>5, <2>1 DEF TypesInv
    <2>2. CASE k # j
        BY <1>5, <2>2 DEF TypesInv
    <2> QED BY <2>1, <2>2
<1>9. \A q \in Rows : change'[q] # None => change'[q].id \in 1..lastId'
    BY <1>1, <1>6 DEF TypesInv
<1> QED BY <1>1, <1>7, <1>8, <1>9 DEF TypesInv

LEMMA CommitTyped ==
    ASSUME TableInv, TypesInv, NEW j \in Imports, CommitChanges(j)
    PROVE  TypesInv'
<1>1. /\ change' = [r \in Rows |-> Visible(j, r)]
      /\ job' = [job EXCEPT ![j].pc = "save", ![j].tx = [r \in Rows |-> None]]
      /\ UNCHANGED <<github, events, lastId, state, changeId>> /\ job[j].pc \notin Ended
    BY DEF CommitChanges, world, graph, Finished, Ended
<1>2. /\ job'[j].doc = job[j].doc /\ job'[j].page = job[j].page /\ job'[j].branch = job[j].branch
      /\ \A r \in Rows : job'[j].tx[r] = None
      /\ \A k \in Imports \ {j} : job'[k] = job[k]
    BY <1>1 DEF TableInv, JobShape, Fields
<1>3. \A r \in Rows : change'[r] # None => change'[r].id \in 1..lastId'
    BY <1>1 DEF TypesInv, Visible
<1>4. ASSUME NEW k \in Imports
      PROVE  /\ DOMAIN job'[k].doc = DocFields
             /\ job'[k].doc.issues \in [Issues -> States]
             /\ job'[k].page \in Nat \ {0}
             /\ job'[k].pc \notin Ended => job'[k].branch \in Branches
             /\ \A r \in Rows : job'[k].tx[r] # None => job'[k].tx[r].id \in 1..lastId'
    <2>1. CASE k = j
        BY <1>1, <1>2, <2>1 DEF TypesInv
    <2>2. CASE k # j
        BY <1>1, <1>2, <2>2 DEF TypesInv
    <2> QED BY <2>1, <2>2
<1> QED BY <1>1, <1>3, <1>4 DEF TypesInv

LEMMA SaveTyped ==
    ASSUME TableInv, TypesInv, NEW j \in Imports, SaveStatement(j)
    PROVE  TypesInv'
<1>1. PICK new :
          /\ job' = [job EXCEPT ![j] = new]
          /\ \/ new = [Idle EXCEPT !.pc = "done"]
             \/ \E n : new = [job[j] EXCEPT !.op = n]
    BY DEF SaveStatement
<1>2. job[j].pc = "save" /\ UNCHANGED <<github, events, change, lastId>>
    BY DEF SaveStatement, world, tables
<1>3. \A r \in Rows : job[j].tx[r] = None
    BY <1>2, BeforeUpsert DEF Upserting
<1>4. job'[j] = new /\ \A k \in Imports \ {j} : job'[k] = job[k]
    BY <1>1 DEF TableInv
<1>5. /\ DOMAIN new.doc = DocFields /\ new.doc.issues \in [Issues -> States]
      /\ new.page \in Nat \ {0} /\ (new.pc \notin Ended => new.branch \in Branches)
      /\ \A r \in Rows : new.tx[r] = None
    <2>1. CASE new = [Idle EXCEPT !.pc = "done"]
        <3>1. new.doc = EmptyDoc /\ new.page = 1 /\ new.pc = "done" /\ new.tx = Idle.tx
            BY <2>1, IdleShape DEF Fields
        <3>2. EmptyDoc.issues \in [Issues -> States]
            BY IdleShape DEF States
        <3> QED BY <3>1, <3>2, IdleShape DEF Ended
    <2>2. CASE \E n : new = [job[j] EXCEPT !.op = n]
        <3>1. /\ new.doc = job[j].doc /\ new.page = job[j].page /\ new.branch = job[j].branch
              /\ new.tx = job[j].tx
            BY <2>2 DEF TableInv, JobShape, Fields
        <3> QED BY <1>2, <1>3, <3>1 DEF TypesInv, Ended
    <2> QED BY <1>1, <2>1, <2>2
<1>6. state' \in [Issues -> States]
    <2>1. \/ state' = state
          \/ state' = [i \in Issues |-> IF job[j].doc.issues[i] # None THEN job[j].doc.issues[i]
                                        ELSE state[i]]
        BY DEF SaveStatement, SaveNodes, SaveRelations
    <2>2. state \in [Issues -> States] /\ job[j].doc.issues \in [Issues -> States]
        BY DEF TypesInv
    <2> QED BY <2>1, <2>2
<1>7. changeId' = [r \in Rows |-> changeId'[r]]
    BY DEF TypesInv, SaveStatement, SaveNodes, SaveRelations
<1> QED BY <1>2, <1>4, <1>5, <1>6, <1>7, OneJobTyped DEF TypesInv

LEMMA TypesKept == TableInv /\ TypesInv /\ [Next]_vars => TypesInv'
<1> SUFFICES ASSUME TableInv, TypesInv, [Next]_vars PROVE TypesInv'
    OBVIOUS
<1>1. CASE UNCHANGED vars
    BY <1>1 DEF vars, TypesInv
<1>2. CASE GitHubStep
    <2>1. UNCHANGED <<job, change, lastId, state, changeId>>
        BY <1>2 DEF GitHubStep, OpenIssue, OpenPull, CloseOrReopen, DeleteIssue, EditPull,
                    MergePull, Push, Becomes, tables, graph
    <2>2. github' \in Repository /\ events' \in Nat
        BY <1>2, GitHubTyped DEF TypesInv
    <2> QED BY <2>1, <2>2 DEF TypesInv
<1>3. ASSUME NEW j \in Imports, Collect(j) PROVE TypesInv'
    <2>1. UNCHANGED <<github, events, change, lastId, state, changeId>>
        BY <1>3 DEF Collect, world, tables, graph
    <2>2. \A k \in Imports \ {j} : job'[k] = job[k]
        BY <1>3, CollectTouches
    <2>3. job'[j].tx = job[j].tx
        BY <1>3, CollectTouches
    <2> QED BY <1>3, <2>1, <2>2, <2>3, CollectTyped, OneJobTyped DEF TypesInv
<1>4. ASSUME NEW j \in Imports, Find(j) PROVE TypesInv'
    <2>1. /\ job' = [job EXCEPT ![j].pc = "flush", ![j].found = Visible(j, Head(job[j].rows))]
          /\ UNCHANGED <<github, events, change, lastId, state>> /\ job[j].pc \notin Ended
        BY <1>4 DEF Find, Finished, world, tables, graph, Ended
    <2>2. /\ job'[j].doc = job[j].doc /\ job'[j].page = job[j].page
          /\ job'[j].branch = job[j].branch /\ job'[j].tx = job[j].tx
          /\ \A k \in Imports \ {j} : job'[k] = job[k]
        BY <2>1 DEF TableInv, JobShape, Fields
    <2>3. /\ events \in Nat /\ state \in [Issues -> States]
          /\ DOMAIN job[j].doc = DocFields /\ job[j].doc.issues \in [Issues -> States]
          /\ job[j].page \in Nat \ {0}
          /\ job[j].pc \notin Ended => job[j].branch \in Branches
          /\ \A r \in Rows : job[j].tx[r] # None => job[j].tx[r].id \in 1..lastId
          /\ changeId' = [r \in Rows |-> changeId'[r]]
        BY <1>4, <2>1 DEF TypesInv, Find, graph
    <2> QED BY <2>1, <2>2, <2>3, OneJobTyped
<1>5. ASSUME NEW j \in Imports, ImportStep(j) PROVE TypesInv'
    BY <1>3, <1>4, <1>5, StartTyped, FailTyped, FlushTyped, CommitTyped, SaveTyped DEF ImportStep
<1> QED BY <1>1, <1>2, <1>5 DEF Next

\* Types of the variables; ids are drawn from the sequence.
THEOREM TypesInvariant == Spec => [](TableInv /\ TypesInv)
<1> QED BY TableInitially, TableKept, TypesInitially, TypesKept, PTL DEF Spec

-----------------------------------------------------------------------------
(* The links that an import may store: shown is what GitHub has shown, pulls *)
(* the pull requests there are.                                              *)

HeadIs(b, c) == Relation("POINTS_TO", "Branch", b, "Commit", c)
Contains(p, c) == Relation("CONTAINS_COMMIT", "PullRequest", p, "Commit", c)

MergesKnown(c, shown) == \A p \in Pulls : IsMergeOf(c, p) => Contains(p, c) \in shown

DocKnown(d, shown) ==
    /\ \A h \in d.heads : HeadIs(h[1], h[2]) \in shown
    /\ \A x \in d.contains : Contains(x[1], x[2]) \in shown
    /\ \A pull \in d.pulls :
          /\ pull.number \in Pulls
          /\ LinksOf(pull.number, pull.text) \subseteq shown
          /\ pull.merge_commit_sha # None => Contains(pull.number, pull.merge_commit_sha) \in shown
    /\ \A c \in d.commits : MergesKnown(c, shown)

\* A pull request is not deleted between its listing and the last request about it, and
\* a commit that is listed stays a merge that was shown, whatever is pushed.
TodoKnown(pc, todo, shown, pulls) ==
    /\ pc \in {"pulls", "pull", "pull_commits", "pull_files"} => todo \in Seq(pulls)
    /\ pc \in {"pull_commits", "pull_files"} => todo # <<>>
    /\ pc \in {"commits", "commit"} => todo \in Seq({c \in Commits : MergesKnown(c, shown)})

GitHubShown ==
    /\ Shown(github) \subseteq ever
    /\ \A b \in Branches : MergesMade(github.head[b], github.merged)
    /\ \A p \in Pulls : github.merged[p] # None => p \in PullsOf(github)

Known(j) == /\ DocKnown(job[j].doc, ever)
            /\ TodoKnown(job[j].pc, job[j].todo, ever, PullsOf(github))

LinksInv == GitHubShown /\ (\A j \in Imports : Known(j)) /\ NothingInvented

LEMMA ShownOf ==
    ASSUME NEW g
    PROVE  /\ \A b \in Branches : HeadIs(b, g.head[b]) \in Shown(g)
           /\ \A p \in PullsOf(g) :
                 /\ LinksOf(p, g.text[p]) \subseteq Shown(g)
                 /\ \A c \in SeqSet(PullCommits[p]) : Contains(p, c) \in Shown(g)
                 /\ g.merged[p] # None => Contains(p, g.merged[p]) \in Shown(g)
<1>1. \A b \in Branches : HeadIs(b, g.head[b]) \in PointsTo(g)
    BY DEF PointsTo, HeadIs
<1> DEFINE Of(p) == LinksOf(p, g.text[p])
                    \cup Containing(p, SeqSet(PullCommits[p]) \cup ({g.merged[p]} \ {None}))
<1>2. Shown(g) = PointsTo(g) \cup UNION {Of(p) : p \in PullsOf(g)}
    BY DEF Shown
<1>3. ASSUME NEW p
      PROVE  /\ LinksOf(p, g.text[p]) \subseteq Of(p)
             /\ \A c \in SeqSet(PullCommits[p]) : Contains(p, c) \in Of(p)
             /\ g.merged[p] # None => Contains(p, g.merged[p]) \in Of(p)
    BY DEF Containing, Contains
<1> HIDE DEF Of
<1>4. \A p \in PullsOf(g) : Of(p) \subseteq Shown(g)
    BY <1>2
<1> QED BY <1>1, <1>2, <1>3, <1>4

LEMMA KnownGrows ==
    ASSUME NEW d, NEW pc, NEW todo, NEW shown, NEW more, NEW pulls, NEW morePulls,
           shown \subseteq more, pulls \subseteq morePulls,
           DocKnown(d, shown), TodoKnown(pc, todo, shown, pulls)
    PROVE  DocKnown(d, more) /\ TodoKnown(pc, todo, more, morePulls)
<1>1. \A c : MergesKnown(c, shown) => MergesKnown(c, more)
    BY DEF MergesKnown
<1>2. DocKnown(d, more)
    BY <1>1 DEF DocKnown
<1>3. pc \in {"pulls", "pull", "pull_commits", "pull_files"} => todo \in Seq(morePulls)
    BY MoreOf DEF TodoKnown
<1>4. {c \in Commits : MergesKnown(c, shown)} \subseteq {c \in Commits : MergesKnown(c, more)}
    BY <1>1
<1>5. pc \in {"commits", "commit"} => todo \in Seq({c \in Commits : MergesKnown(c, more)})
    BY <1>4, MoreOf DEF TodoKnown
<1> QED BY <1>2, <1>3, <1>5 DEF TodoKnown

\* With what is on GitHub the others keep what they know.
LEMMA OneJobKnown ==
    ASSUME LinksInv, NEW j \in Imports,
           \A k \in Imports \ {j} : job'[k] = job[k],
           UNCHANGED <<github, ever>>, Known(j)', NothingInvented'
    PROVE  LinksInv'
<1>1. GitHubShown'
    BY DEF LinksInv, GitHubShown
<1>2. ASSUME NEW k \in Imports PROVE Known(k)'
    <2>1. CASE k = j
        BY <2>1
    <2>2. CASE k # j
        BY <2>2 DEF LinksInv, Known
    <2> QED BY <2>1, <2>2
<1> QED BY <1>1, <1>2 DEF LinksInv

\* The merges of a history are those of pull requests that are merged, and shown.
LEMMA LogKnown ==
    ASSUME MessagesTrue, github \in Repository, GitHubShown, NEW b \in Branches
    PROVE  SeqSet(Log[github.head[b]]) \subseteq {c \in Commits : MergesKnown(c, ever)}
<1>1. github.head[b] \in Commits
    BY DEF Repository
<1>2. Log[github.head[b]] \in Seq(Commits)
    BY <1>1, ImportAssumption
<1>3. SeqSet(Log[github.head[b]]) \subseteq Commits
    BY <1>2 DEF SeqSet
<1> SUFFICES ASSUME NEW c \in SeqSet(Log[github.head[b]]), NEW p \in Pulls, IsMergeOf(c, p)
             PROVE  Contains(p, c) \in ever
    BY <1>3 DEF MergesKnown
<1>4. c \in Commits /\ c \in MergedAs[p]
    BY <1>3 DEF MessagesTrue
<1>5. github.merged[p] = c
    BY <1>4 DEF GitHubShown, MergesMade
<1>6. p \in PullsOf(github)
    BY <1>4, <1>5, ImportAssumption DEF GitHubShown
<1>7. Contains(p, c) \in Shown(github)
    BY <1>4, <1>5, <1>6, ShownOf, ImportAssumption
<1> QED BY <1>7 DEF GitHubShown


\* Becomes without the ghosts of the imports.
LEMMA BecomesShown ==
    ASSUME NEW g, NEW moved, Becomes(g, moved)
    PROVE  github' = g /\ ever' = ever \cup Shown(g) /\ UNCHANGED <<job, relations>>
BY DEF Becomes, graph

\* What GitHub has shown stays shown, and a pull request stays.
LEMMA GitHubStepShows ==
    ASSUME github \in Repository, GitHubShown, GitHubStep
    PROVE  /\ GitHubShown' /\ ever \subseteq ever' /\ PullsOf(github) \subseteq PullsOf(github')
           /\ UNCHANGED <<job, relations>>
<1> DEFINE Same(g) == /\ PullsOf(github) \subseteq PullsOf(g)
                      /\ \A b \in Branches : MergesMade(g.head[b], g.merged)
                      /\ \A p \in Pulls : g.merged[p] # None => p \in PullsOf(g)
<1>1. SUFFICES \E g, moved : Becomes(g, moved) /\ Same(g)
    <2>1. PICK g, moved : Becomes(g, moved) /\ Same(g)
        BY <1>1
    <2>2. github' = g /\ ever' = ever \cup Shown(g) /\ UNCHANGED <<job, relations>>
        BY <2>1, BecomesShown
    <2>3. Shown(github)' = Shown(g) /\ PullsOf(github') = PullsOf(g)
        BY <2>2
    <2> QED BY <2>1, <2>2, <2>3 DEF GitHubShown
<1>2. ASSUME NEW g, g.head = github.head, g.merged = github.merged,
             PullsOf(github) \subseteq PullsOf(g)
      PROVE  Same(g)
    BY <1>2 DEF GitHubShown
<1> HIDE DEF Same
<1>3. ASSUME NEW n \in Numbers, NEW last
      PROVE  Same([github EXCEPT !.items = <<n>> \o @, !.last = last])
    <2> DEFINE g == [github EXCEPT !.items = <<n>> \o @, !.last = last]
    <2>1. g.items = <<n>> \o github.items /\ g.head = github.head /\ g.merged = github.merged
        BY DEF Repository
    <2>2. SeqSet(github.items) \subseteq SeqSet(g.items)
        <3>1. github.items \in Seq(Numbers) /\ <<n>> \in Seq(Numbers)
            BY DEF Repository
        <3>2. \A i \in DOMAIN github.items :
                  i + 1 \in DOMAIN (<<n>> \o github.items) /\ (<<n>> \o github.items)[i + 1] = github.items[i]
            BY <3>1
        <3> QED BY <2>1, <3>2 DEF SeqSet
    <2>3. PullsOf(github) \subseteq PullsOf(g)
        BY <2>2 DEF PullsOf
    <2> HIDE DEF g
    <2>4. Same(g)
        BY <1>2, <2>1, <2>3
    <2> QED BY <2>4 DEF g
<1>4. CASE OpenIssue \/ OpenPull
    <2>1. github.last + 1 \in Numbers
        BY <1>4 DEF OpenIssue, OpenPull, Numbers
    <2>2. Becomes([github EXCEPT !.items = <<github.last + 1>> \o @, !.last = @ + 1], NothingMoves)
        BY <1>4 DEF OpenIssue, OpenPull
    <2> QED BY <1>3, <2>1, <2>2
<1>5. ASSUME NEW i \in Issues, CloseOrReopen(i) PROVE \E g, moved : Becomes(g, moved) /\ Same(g)
    <2> DEFINE g == [github EXCEPT !.closed = IF i \in @ THEN @ \ {i} ELSE @ \cup {i}]
    <2>1. g.items = github.items /\ g.head = github.head /\ g.merged = github.merged
        BY DEF Repository
    <2>2. Becomes(g, NothingMoves)
        BY <1>5 DEF CloseOrReopen
    <2> HIDE DEF g
    <2>3. Same(g)
        BY <1>2, <2>1 DEF PullsOf
    <2> QED BY <2>2, <2>3
<1>6. ASSUME NEW i \in Issues, DeleteIssue(i) PROVE \E g, moved : Becomes(g, moved) /\ Same(g)
    <2> DEFINE g == [github EXCEPT !.items = OnlyIn(github.items, Numbers \ {i})]
    <2>1. /\ g.items = OnlyIn(github.items, Numbers \ {i})
          /\ g.head = github.head /\ g.merged = github.merged
        BY DEF Repository
    <2>2. PICK moved : Becomes(g, moved)
        BY <1>6 DEF DeleteIssue
    <2> HIDE DEF g
    <2>3. github.items \in Seq(Numbers)
        BY DEF Repository
    <2>4. SeqSet(g.items) = SeqSet(github.items) \cap (Numbers \ {i})
        BY <2>1, <2>3, OnlyInSet
    <2>5. PullsOf(github) \subseteq PullsOf(g)
        BY <2>4, ImportAssumption DEF PullsOf, Numbers
    <2>6. Same(g)
        BY <1>2, <2>1, <2>5
    <2> QED BY <2>2, <2>6
<1>7. ASSUME NEW p \in Pulls, EditPull(p) PROVE \E g, moved : Becomes(g, moved) /\ Same(g)
    <2>1. PICK t : Becomes([github EXCEPT !.text[p] = t], NothingMoves)
        BY <1>7 DEF EditPull
    <2> DEFINE g == [github EXCEPT !.text[p] = t]
    <2>2. g.items = github.items /\ g.head = github.head /\ g.merged = github.merged
        BY DEF Repository
    <2> HIDE DEF g
    <2>3. Same(g)
        BY <1>2, <2>2 DEF PullsOf
    <2> QED BY <2>1, <2>3 DEF g
<1>8. ASSUME NEW p \in Pulls, NEW b \in Branches, MergePull(p, b)
      PROVE  \E g, moved : Becomes(g, moved) /\ Same(g)
    <2>1. PICK c \in MergedAs[p] :
              /\ MergesMade(c, [github.merged EXCEPT ![p] = c])
              /\ Becomes([github EXCEPT !.merged[p] = c, !.head[b] = c], NothingMoves)
        BY <1>8 DEF MergePull
    <2>2. p \in PullsOf(github) /\ github.merged[p] = None
        BY <1>8 DEF MergePull
    <2> DEFINE g == [github EXCEPT !.merged[p] = c, !.head[b] = c]
    <2>3. /\ g.items = github.items /\ g.merged = [github.merged EXCEPT ![p] = c]
          /\ g.head = [github.head EXCEPT ![b] = c]
        BY DEF Repository
    <2> HIDE DEF g
    <2>4. DOMAIN github.merged = Pulls /\ DOMAIN github.head = Branches
          /\ \A x \in Branches : github.head[x] \in Commits
        BY DEF Repository
    <2>5. PullsOf(g) = PullsOf(github)
        BY <2>3 DEF PullsOf
    <2>6. \A q \in Pulls : g.merged[q] # None => q \in PullsOf(g)
        BY <2>2, <2>3, <2>4, <2>5 DEF GitHubShown
    <2>7. ASSUME NEW x \in Branches PROVE MergesMade(g.head[x], g.merged)
        <3>1. CASE x = b
            BY <2>1, <2>3, <2>4, <3>1
        <3>2. CASE x # b
            <4>1. g.head[x] = github.head[x]
                BY <2>3, <2>4, <3>2
            <4>2. MergesMade(github.head[x], github.merged)
                BY DEF GitHubShown
            <4>3. SeqSet(Log[github.head[x]]) \cap MergedAs[p] = {}
                <5>1. SeqSet(Log[github.head[x]]) \cap MergedAs[p] \subseteq {None}
                    BY <2>2, <4>2 DEF MergesMade
                <5>2. MergedAs[p] \subseteq Commits /\ None \notin Commits
                    BY ImportAssumption
                <5> QED BY <5>1, <5>2
            <4> QED BY <2>3, <2>4, <4>1, <4>2, <4>3 DEF MergesMade
        <3> QED BY <3>1, <3>2
    <2>8. Same(g)
        BY <2>5, <2>6, <2>7 DEF Same
    <2> QED BY <2>1, <2>8 DEF g
<1>9. ASSUME NEW b \in Branches, Push(b) PROVE \E g, moved : Becomes(g, moved) /\ Same(g)
    <2>1. PICK c, moved : /\ MergesMade(c, github.merged)
                          /\ Becomes([github EXCEPT !.head[b] = c], moved)
        BY <1>9 DEF Push
    <2> DEFINE g == [github EXCEPT !.head[b] = c]
    <2>2. /\ g.items = github.items /\ g.merged = github.merged
          /\ g.head = [github.head EXCEPT ![b] = c] /\ DOMAIN github.head = Branches
        BY DEF Repository
    <2> HIDE DEF g
    <2>3. PullsOf(g) = PullsOf(github)
        BY <2>2 DEF PullsOf
    <2>4. \A x \in Branches : MergesMade(g.head[x], g.merged)
        BY <2>1, <2>2 DEF GitHubShown
    <2>5. Same(g)
        BY <2>2, <2>3, <2>4 DEF Same, GitHubShown
    <2> QED BY <2>1, <2>5 DEF g
<1> QED BY <1>4, <1>5, <1>6, <1>7, <1>8, <1>9 DEF GitHubStep


LEMMA IdleKnown ==
    ASSUME NEW shown, NEW pulls
    PROVE  /\ DocKnown(EmptyDoc, shown)
           /\ \A pc \in Ended \cup {"branches", "issues"} : TodoKnown(pc, <<>>, shown, pulls)
BY IdleShape DEF DocKnown, TodoKnown, Ended

\* The list of pull requests has only those there are.
LEMMA PullsListed ==
    ASSUME github \in Repository
    PROVE  /\ OnlyIn(github.items, Pulls) \in Seq(Numbers)
           /\ SeqSet(OnlyIn(github.items, Pulls)) \cap Pulls \subseteq PullsOf(github)
<1>1. github.items \in Seq(Numbers)
    BY DEF Repository
<1>2. /\ OnlyIn(github.items, Pulls) \in Seq(Numbers)
      /\ SeqSet(OnlyIn(github.items, Pulls)) = SeqSet(github.items) \cap Pulls
    BY <1>1, OnlyInSet
<1> QED BY <1>2 DEF PullsOf

\* A page of a list: what is to be asked for is of U if it was and the list is.
LEMMA ReadsKeeps ==
    ASSUME TableInv, TypesInv, NEW j \in Imports, NEW T, NEW list \in Seq(T), NEW S,
           NEW here, NEW next, Reads(j, list, S, here, next)
    PROVE  /\ job'[j].pc \in {here, next} /\ job'[j].doc = job[j].doc
           /\ \A U : SeqSet(list) \cap S \subseteq U /\ job[j].todo \in Seq(U) => job'[j].todo \in Seq(U)
<1> DEFINE n == job[j].page
           read == OnlyIn(Page(list, n), S)
<1>1. DOMAIN job = Imports /\ DOMAIN job[j] = Fields /\ n \in Nat \ {0}
    BY DEF TableInv, JobShape, TypesInv
<1>2. job'[j].pc \in {here, next} /\ job'[j].doc = job[j].doc /\ job'[j].todo = job[j].todo \o read
    BY <1>1 DEF Reads, Fields
<1> HIDE DEF n
<1>3. ASSUME NEW U, SeqSet(list) \cap S \subseteq U, job[j].todo \in Seq(U)
      PROVE  job'[j].todo \in Seq(U)
    <2>1. read \in Seq(U)
        BY <1>1, <1>3, ReadsLeaves
    <2> HIDE DEF read
    <2> QED BY <1>2, <1>3, <2>1
<1> QED BY <1>2, <1>3

\* Import j reads only what GitHub shows.
LEMMA CollectKnown ==
    ASSUME MessagesTrue, TableInv, TypesInv, GitHubShown, NEW j \in Imports, Known(j), Collect(j)
    PROVE  /\ DocKnown(job'[j].doc, ever)
           /\ TodoKnown(job'[j].pc, job'[j].todo, ever, PullsOf(github))
<1> DEFINE d == job[j].doc
           x == job'[j]
           pulls == PullsOf(github)
           merges == {c \in Commits : MergesKnown(c, ever)}
           p == Head(job[j].todo)
<1>0. /\ DOMAIN job = Imports /\ DOMAIN job[j] = Fields /\ DOMAIN d = DocFields
      /\ github \in Repository /\ d.issues \in [Issues -> States]
    BY DEF TableInv, JobShape, TypesInv
<1>1. DocKnown(d, ever) /\ TodoKnown(job[j].pc, job[j].todo, ever, pulls)
    BY DEF Known
<1>2. Shown(github) \subseteq ever
    BY DEF GitHubShown
<1>3. CASE ListBranches(j)
    <2>1. /\ x.pc = "issues"
          /\ x.doc = [d EXCEPT !.heads = {<<b, github.head[b]>> : b \in Branches}]
        BY <1>0, <1>3 DEF ListBranches, Fields
    <2>2. /\ x.doc.heads = {<<b, github.head[b]>> : b \in Branches}
          /\ x.doc.contains = d.contains /\ x.doc.pulls = d.pulls /\ x.doc.commits = d.commits
        BY <1>0, <2>1 DEF DocFields
    <2>3. \A h \in x.doc.heads : HeadIs(h[1], h[2]) \in ever
        BY <1>2, <2>2, ShownOf
    <2> QED BY <1>1, <2>1, <2>2, <2>3 DEF DocKnown, TodoKnown
<1>4. CASE ListIssues(j)
    <2>1. github.items \in Seq(Numbers) /\ Reads(j, github.items, Issues, "issues", "issue")
        BY <1>0, <1>4 DEF Repository, ListIssues
    <2>2. x.pc \in {"issues", "issue"} /\ x.doc = d
        BY <2>1, ReadsKeeps
    <2> QED BY <1>1, <2>2 DEF TodoKnown
<1>5. CASE GetIssue(j)
    <2>1. PICK i : job' = [job EXCEPT ![j].todo = Tail(@), ![j].doc.issues[i] = StateOf(github, i)]
        BY <1>5 DEF GetIssue
    <2>2. /\ x.pc = "issue"
          /\ x.doc = [d EXCEPT !.issues = [@ EXCEPT ![i] = StateOf(github, i)]]
        BY <1>0, <1>5, <2>1 DEF GetIssue, Fields
    <2>3. /\ x.doc.heads = d.heads
          /\ x.doc.contains = d.contains /\ x.doc.pulls = d.pulls /\ x.doc.commits = d.commits
        BY <1>0, <2>2 DEF DocFields
    <2> QED BY <1>1, <2>2, <2>3 DEF DocKnown, TodoKnown
<1>6. CASE ListPulls(j)
    <2> DEFINE list == OnlyIn(github.items, Pulls)
    <2>1. list \in Seq(Numbers) /\ SeqSet(list) \cap Pulls \subseteq pulls
        BY <1>0, PullsListed
    <2>2. Reads(j, list, Pulls, "pulls", "pull")
        BY <1>6 DEF ListPulls
    <2>3. job[j].todo \in Seq(pulls)
        <3>1. job[j].pc = "pulls" \/ job[j].todo = <<>>
            BY <1>6 DEF ListPulls, Finished
        <3>2. job[j].pc = "pulls" => job[j].todo \in Seq(pulls)
            BY <1>1 DEF TodoKnown
        <3>3. \A U : <<>> \in Seq(U)
            OBVIOUS
        <3>4. job[j].todo = <<>> => job[j].todo \in Seq(pulls)
            BY ONLY <3>3
        <3> QED BY <3>1, <3>2, <3>4
    <2> HIDE DEF list, pulls
    <2>4. x.pc \in {"pulls", "pull"} /\ x.doc = d /\ x.todo \in Seq(pulls)
        BY <2>1, <2>2, <2>3, ReadsKeeps
    <2>5. TodoKnown(x.pc, x.todo, ever, pulls)
        BY <2>4 DEF TodoKnown
    <2> QED BY <1>1, <2>4, <2>5 DEF pulls
<1>7. CASE GetPull(j)
    <2>1. job[j].pc = "pull" /\ job[j].todo # <<>>
        BY <1>7 DEF GetPull
    <2>2. job[j].todo \in Seq(pulls)
        BY <1>1, <2>1 DEF TodoKnown
    <2>3. p \in pulls /\ p \in Pulls
        BY <2>1, <2>2 DEF PullsOf
    <2>4. PICK sha \in {None, github.merged[p]} :
              job' = [job EXCEPT ![j].pc = "pull_commits",
                                 ![j].doc.pulls = @ \cup {[number |-> p, text |-> github.text[p],
                                                           merge_commit_sha |-> sha]}]
        BY <1>7 DEF GetPull
    <2> DEFINE pull == [number |-> p, text |-> github.text[p], merge_commit_sha |-> sha]
    <2>5. x.pc = "pull_commits" /\ x.todo = job[j].todo /\ x.doc = [d EXCEPT !.pulls = @ \cup {pull}]
        BY <1>0, <2>4 DEF Fields
    <2>6. /\ x.doc.pulls = d.pulls \cup {pull}
          /\ x.doc.heads = d.heads /\ x.doc.contains = d.contains /\ x.doc.commits = d.commits
        BY <1>0, <2>5 DEF DocFields
    <2>7. /\ pull.number = p /\ pull.text = github.text[p]
          /\ pull.merge_commit_sha = None \/ pull.merge_commit_sha = github.merged[p]
        OBVIOUS
    <2> HIDE DEF pull, p
    <2>8. /\ LinksOf(pull.number, pull.text) \subseteq ever
          /\ pull.merge_commit_sha # None => Contains(pull.number, pull.merge_commit_sha) \in ever
        BY <1>2, <2>3, <2>7, ShownOf
    <2>9. DocKnown(x.doc, ever)
        BY <1>1, <2>3, <2>6, <2>7, <2>8 DEF DocKnown
    <2>10. TodoKnown(x.pc, x.todo, ever, pulls)
        BY <2>1, <2>2, <2>5 DEF TodoKnown
    <2> QED BY <2>9, <2>10
<1>8. CASE ListPullCommits(j)
    <2>1. job[j].pc = "pull_commits"
        BY <1>8 DEF ListPullCommits
    <2>2. job[j].todo \in Seq(pulls) /\ job[j].todo # <<>>
        BY <1>1, <2>1 DEF TodoKnown
    <2>3. p \in pulls
        BY <2>2
    <2>4. /\ x.pc = "pull_files" /\ x.todo = job[j].todo
          /\ x.doc = [d EXCEPT !.contains = @ \cup {<<p, c>> : c \in SeqSet(PullCommits[p])}]
        BY <1>0, <1>8 DEF ListPullCommits, Fields
    <2>5. /\ x.doc.contains = d.contains \cup {<<p, c>> : c \in SeqSet(PullCommits[p])}
          /\ x.doc.heads = d.heads /\ x.doc.pulls = d.pulls /\ x.doc.commits = d.commits
        BY <1>0, <2>4 DEF DocFields
    <2> HIDE DEF p
    <2>6. \A y \in x.doc.contains : Contains(y[1], y[2]) \in ever
        BY <1>1, <1>2, <2>3, <2>5, ShownOf DEF DocKnown
    <2>7. DocKnown(x.doc, ever)
        BY <1>1, <2>5, <2>6 DEF DocKnown
    <2>8. TodoKnown(x.pc, x.todo, ever, pulls)
        BY <2>2, <2>4 DEF TodoKnown
    <2> QED BY <2>7, <2>8
<1>9. CASE ListPullFiles(j)
    <2>1. job[j].pc = "pull_files"
        BY <1>9 DEF ListPullFiles
    <2>2. job[j].todo \in Seq(pulls) /\ job[j].todo # <<>>
        BY <1>1, <2>1 DEF TodoKnown
    <2>3. PICK files : /\ x.pc = "pull" /\ x.todo = Tail(job[j].todo)
                       /\ x.doc = [d EXCEPT !.changed = @ \cup files]
        BY <1>0, <1>9 DEF ListPullFiles, Fields
    <2>4. /\ x.doc.heads = d.heads /\ x.doc.contains = d.contains
          /\ x.doc.pulls = d.pulls /\ x.doc.commits = d.commits
        BY <1>0, <2>3 DEF DocFields
    <2>5. x.todo \in Seq(pulls)
        BY <2>2, <2>3
    <2>6. DocKnown(x.doc, ever)
        BY <1>1, <2>4 DEF DocKnown
    <2>7. TodoKnown(x.pc, x.todo, ever, pulls)
        BY <2>3, <2>5 DEF TodoKnown
    <2> QED BY <2>6, <2>7
<1>10. CASE ListCommits(j)
    <2> DEFINE list == Log[github.head[job[j].branch]]
    <2>1. job[j].branch \in Branches
        BY <1>10 DEF ListCommits, Finished, TypesInv, Ended
    <2>2. github.head[job[j].branch] \in Commits
        BY <1>0, <2>1 DEF Repository
    <2>3. list \in Seq(Commits)
        BY <2>2, ImportAssumption
    <2>4. SeqSet(list) \subseteq merges
        BY <1>0, <2>1, LogKnown
    <2>5. Reads(j, list, Commits, "commits", "commit")
        BY <1>10 DEF ListCommits
    <2>6. job[j].todo \in Seq(merges)
        BY <1>1, <1>10 DEF ListCommits, Finished, TodoKnown
    <2> HIDE DEF list, merges
    <2>7. SeqSet(list) \cap Commits \subseteq merges
        BY <2>4
    <2>8. x.pc \in {"commits", "commit"} /\ x.doc = d /\ x.todo \in Seq(merges)
        BY <2>3, <2>5, <2>6, <2>7, ReadsKeeps
    <2>9. TodoKnown(x.pc, x.todo, ever, pulls)
        BY <2>8 DEF TodoKnown, merges
    <2> QED BY <1>1, <2>8, <2>9
<1>11. CASE GetCommit(j)
    <2>1. job[j].pc = "commit" /\ job[j].todo # <<>>
        BY <1>11 DEF GetCommit
    <2>2. job[j].todo \in Seq(merges)
        BY <1>1, <2>1 DEF TodoKnown
    <2> DEFINE c == Head(job[j].todo)
    <2>3. MergesKnown(c, ever)
        <3> HIDE DEF merges
        <3>1. c \in merges
            BY <2>1, <2>2
        <3> QED BY <3>1 DEF merges
    <2>4. /\ x.pc = "commit" /\ x.todo = Tail(job[j].todo)
          /\ x.doc = [d EXCEPT !.commits = @ \cup {c}]
        BY <1>0, <1>11 DEF GetCommit, Fields
    <2>5. /\ x.doc.heads = d.heads /\ x.doc.contains = d.contains /\ x.doc.pulls = d.pulls
          /\ x.doc.commits = d.commits \cup {c}
        BY <1>0, <2>4 DEF DocFields
    <2>6. x.todo \in Seq(merges)
        <3> HIDE DEF merges
        <3> QED BY <2>1, <2>2, <2>4
    <2> HIDE DEF c, merges
    <2>7. DocKnown(x.doc, ever)
        BY <1>1, <2>3, <2>5 DEF DocKnown
    <2>8. TodoKnown(x.pc, x.todo, ever, pulls)
        BY <2>4, <2>6 DEF TodoKnown, merges
    <2> QED BY <2>7, <2>8
<1> QED BY <1>3, <1>4, <1>5, <1>6, <1>7, <1>8, <1>9, <1>10, <1>11 DEF Collect


\* What a document becomes: its links are those that were shown.
LEMMA MappedKnown ==
    ASSUME NEW d, NEW shown, DocKnown(d, shown), NEW r \in MappedRelations(d),
           r[1] \in {"POINTS_TO", "CONTAINS_COMMIT", "RESOLVES", "REFERENCES"}
    PROVE  r \in shown
<1> DEFINE Heads == {Relation("POINTS_TO", "Branch", h[1], "Commit", h[2]) : h \in d.heads}
           Of(pull) == Containing(pull.number, RelatedCommits(d, pull))
                       \cup LinksOf(pull.number, pull.text)
           Changed == {Relation("CHANGED", "PullRequest", x[1], "File", x[2]) : x \in d.changed}
           With(c) == {Relation("PARENT", "Commit", c, "Commit", q) : q \in Parents[c]}
                      \cup {Relation("CHANGED", "Commit", c, "File", f) : f \in SeqSet(Files[c])}
<1>1. \/ r \in Heads
      \/ \E pull \in d.pulls : r \in Of(pull)
      \/ r \in Changed
      \/ \E c \in d.commits : r \in With(c)
    <2> HIDE DEF Heads, Of, Changed, With
    <2>1. MappedRelations(d) = Heads \cup (UNION {Of(pull) : pull \in d.pulls}) \cup Changed
                               \cup (UNION {With(c) : c \in d.commits})
        BY DEF MappedRelations, Heads, Of, Changed, With
    <2> QED BY <2>1
<1>2. CASE r \in Heads
    <2>1. PICK h \in d.heads : r = HeadIs(h[1], h[2])
        BY <1>2 DEF HeadIs
    <2> QED BY <2>1 DEF DocKnown
<1>3. ASSUME NEW pull \in d.pulls, r \in Of(pull) PROVE r \in shown
    <2>1. CASE r \in LinksOf(pull.number, pull.text)
        BY <2>1 DEF DocKnown
    <2>2. CASE r \in Containing(pull.number, RelatedCommits(d, pull))
        <3>1. PICK c \in RelatedCommits(d, pull) : r = Contains(pull.number, c)
            BY <2>2 DEF Containing, Contains
        <3>2. \/ \E y \in d.contains : y[1] = pull.number /\ c = y[2]
              \/ pull.merge_commit_sha # None /\ c = pull.merge_commit_sha
              \/ c \in MergesOf(d, pull.number)
            BY <3>1 DEF RelatedCommits
        <3>3. ASSUME NEW y \in d.contains, y[1] = pull.number, c = y[2] PROVE r \in shown
            BY <3>1, <3>3 DEF DocKnown
        <3>4. CASE pull.merge_commit_sha # None /\ c = pull.merge_commit_sha
            BY <3>1, <3>4 DEF DocKnown
        <3>5. CASE c \in MergesOf(d, pull.number)
            <4>1. c \in d.commits /\ IsMergeOf(c, pull.number)
                BY <3>5 DEF MergesOf
            <4>2. pull.number \in Pulls /\ MergesKnown(c, shown)
                BY <4>1 DEF DocKnown
            <4> QED BY <3>1, <4>1, <4>2 DEF MergesKnown
        <3> QED BY <3>2, <3>3, <3>4, <3>5
    <2> QED BY <1>3, <2>1, <2>2
<1>4. CASE r \in Changed
    <2>1. r[1] = "CHANGED"
        BY <1>4 DEF Relation
    <2> QED BY <2>1
<1>5. ASSUME NEW c \in d.commits, r \in With(c) PROVE FALSE
    <2>1. r[1] \in {"PARENT", "CHANGED"}
        BY <1>5 DEF Relation
    <2> QED BY <2>1
<1> QED BY <1>1, <1>2, <1>3, <1>4, <1>5

LEMMA SaveKnown ==
    ASSUME TableInv, LinksInv, NEW j \in Imports, SaveStatement(j)
    PROVE  LinksInv'
<1>1. PICK new :
          /\ job' = [job EXCEPT ![j] = new]
          /\ \/ new = [Idle EXCEPT !.pc = "done"]
             \/ \E n : new = [job[j] EXCEPT !.op = n]
    BY DEF SaveStatement
<1>2. UNCHANGED <<github, ever>>
    BY DEF SaveStatement, world
<1>3. job'[j] = new /\ \A k \in Imports \ {j} : job'[k] = job[k]
    BY <1>1 DEF TableInv
<1>4. Known(j)'
    <2>1. CASE new = [Idle EXCEPT !.pc = "done"]
        <3>1. new.doc = EmptyDoc /\ new.pc = "done" /\ new.todo = <<>>
            BY <2>1, IdleShape DEF Fields
        <3>2. DocKnown(EmptyDoc, ever') /\ TodoKnown("done", <<>>, ever', PullsOf(github'))
            BY IdleKnown DEF Ended
        <3> QED BY <1>3, <3>1, <3>2 DEF Known
    <2>2. CASE \E n : new = [job[j] EXCEPT !.op = n]
        <3>1. new.doc = job[j].doc /\ new.pc = job[j].pc /\ new.todo = job[j].todo
            BY <2>2 DEF TableInv, JobShape, Fields
        <3> QED BY <1>2, <1>3, <3>1 DEF LinksInv, Known
    <2> QED BY <1>1, <2>1, <2>2
<1>5. relations' \subseteq relations \cup MappedRelations(job[j].doc)
    BY DEF SaveStatement, SaveNodes, SaveRelations
<1>6. DocKnown(job[j].doc, ever) /\ NothingInvented
    BY DEF LinksInv, Known
<1>7. NothingInvented'
    BY <1>2, <1>5, <1>6, MappedKnown DEF NothingInvented
<1> QED BY <1>2, <1>3, <1>4, <1>7, OneJobKnown

LEMMA LinksInitially == Init => LinksInv
<1> SUFFICES ASSUME Init PROVE LinksInv
    OBVIOUS
<1>1. \A j \in Imports : job[j] = Idle
    BY DEF Init
<1>2. ASSUME NEW j \in Imports PROVE Known(j)
    BY <1>1, IdleShape, IdleKnown DEF Known, Ended
<1>3. GitHubShown
    BY MergeAssumption DEF Init, GitHubShown
<1> QED BY <1>2, <1>3 DEF LinksInv, NothingInvented, Init

LEMMA LinksKept == MessagesTrue /\ TableInv /\ TypesInv /\ LinksInv /\ [Next]_vars => LinksInv'
<1> SUFFICES ASSUME MessagesTrue, TableInv, TypesInv, LinksInv, [Next]_vars PROVE LinksInv'
    OBVIOUS
<1>1. CASE UNCHANGED vars
    BY <1>1 DEF vars, LinksInv, GitHubShown, Known, NothingInvented
<1>2. CASE GitHubStep
    <2>1. /\ GitHubShown' /\ ever \subseteq ever' /\ PullsOf(github) \subseteq PullsOf(github')
          /\ UNCHANGED <<job, relations>>
        BY <1>2, GitHubStepShows DEF LinksInv, TypesInv
    <2>2. ASSUME NEW j \in Imports PROVE Known(j)'
        <3>1. DocKnown(job[j].doc, ever) /\ TodoKnown(job[j].pc, job[j].todo, ever, PullsOf(github))
            BY DEF LinksInv, Known
        <3>2. /\ DocKnown(job[j].doc, ever')
              /\ TodoKnown(job[j].pc, job[j].todo, ever', PullsOf(github'))
            BY <2>1, <3>1, KnownGrows
        <3> QED BY <2>1, <3>2 DEF Known
    <2>3. NothingInvented'
        BY <2>1 DEF LinksInv, NothingInvented
    <2> QED BY <2>1, <2>2, <2>3 DEF LinksInv
<1>3. ASSUME NEW j \in Imports, Collect(j) PROVE LinksInv'
    <2>1. UNCHANGED <<github, ever, relations>>
        BY <1>3 DEF Collect, world, graph
    <2>2. /\ DocKnown(job'[j].doc, ever)
          /\ TodoKnown(job'[j].pc, job'[j].todo, ever, PullsOf(github))
        BY <1>3, CollectKnown DEF LinksInv
    <2>3. Known(j)' /\ NothingInvented'
        BY <2>1, <2>2 DEF LinksInv, Known, NothingInvented
    <2> QED BY <1>3, <2>1, <2>3, CollectTouches, OneJobKnown
<1>4. ASSUME NEW j \in Imports, NEW b \in Branches, Start(j, b) PROVE LinksInv'
    <2> DEFINE new == [Idle EXCEPT !.pc = "branches", !.branch = b]
    <2>1. job' = [job EXCEPT ![j] = new] /\ UNCHANGED <<github, ever, relations>>
        BY <1>4 DEF Start, graph
    <2>2. new.pc = "branches" /\ new.doc = EmptyDoc /\ new.todo = <<>>
        BY IdleShape DEF Fields
    <2>3. job'[j] = new /\ \A k \in Imports \ {j} : job'[k] = job[k]
        BY <2>1 DEF TableInv
    <2> HIDE DEF new
    <2>4. Known(j)' /\ NothingInvented'
        BY <2>1, <2>2, <2>3, IdleKnown DEF Known, LinksInv, NothingInvented
    <2> QED BY <2>1, <2>3, <2>4, OneJobKnown
<1>5. ASSUME NEW j \in Imports, Fail(j) PROVE LinksInv'
    <2>1. job' = [job EXCEPT ![j] = Idle] /\ UNCHANGED <<github, ever, relations>>
        BY <1>5 DEF Fail, world, graph
    <2>2. job'[j] = Idle /\ \A k \in Imports \ {j} : job'[k] = job[k]
        BY <2>1 DEF TableInv
    <2>3. Known(j)' /\ NothingInvented'
        BY <2>1, <2>2, IdleShape, IdleKnown DEF Known, LinksInv, NothingInvented, Ended
    <2> QED BY <2>1, <2>2, <2>3, OneJobKnown
<1>6. ASSUME NEW j \in Imports, Find(j) \/ Flush(j) \/ CommitChanges(j) PROVE LinksInv'
    <2>1. UNCHANGED <<github, ever, relations>>
        BY <1>6 DEF Find, Flush, CommitChanges, world, graph
    <2>2. /\ \A k \in Imports \ {j} : job'[k] = job[k]
          /\ job'[j].doc = job[j].doc /\ job'[j].pc \in {"find", "flush", "save"}
        BY <1>6 DEF Find, Flush, CommitChanges, TableInv, JobShape, Fields
    <2>3. Known(j)' /\ NothingInvented'
        BY <2>1, <2>2 DEF Known, LinksInv, NothingInvented, TodoKnown
    <2> QED BY <2>1, <2>2, <2>3, OneJobKnown
<1>7. ASSUME NEW j \in Imports, ImportStep(j) PROVE LinksInv'
    BY <1>3, <1>4, <1>5, <1>6, <1>7, SaveKnown DEF ImportStep
<1> QED BY <1>1, <1>2, <1>7 DEF Next

\* Whatever is edited, pushed, merged and deleted between two requests, and however
\* imports overlap and fail, the graph has no link that GitHub never showed, if a
\* message that names a pull request is only that of its merge.
THEOREM LinksWereShown == ASSUME MessagesTrue PROVE Spec => []NothingInvented
<1>1. MessagesTrue
    OBVIOUS
<1>2. Init => LinksInv
    BY LinksInitially
<1>3. (TableInv /\ TypesInv) /\ LinksInv /\ [Next]_vars => LinksInv'
    BY <1>1, LinksKept
<1>4. LinksInv => NothingInvented
    BY DEF LinksInv
<1> QED BY <1>2, <1>3, <1>4, TypesInvariant, PTL DEF Spec

-----------------------------------------------------------------------------
(* What an import stores *)

\* x is in the list after its first m entries.
After(list, m, x) == \E n \in DOMAIN list : m < n /\ list[n] = x

StateIs(i, s) == Relation("STATE", "Issue", i, "state", s)
LinkIs(type, p, i) == Relation(type, "PullRequest", p, "Issue", i)
ParentIs(c, q) == Relation("PARENT", "Commit", c, "Commit", q)
ChangeIs(c, f) == Relation("CHANGED", "Commit", c, "File", f)

LinkTypes == {"RESOLVES", "REFERENCES"}

\* What has to be read of an issue, a pull request and a commit for the sake of S.
OfIssue(S, i) ==
    \/ Node("Issue", i) \in S
    \/ \E s \in States : StateIs(i, s) \in S
    \/ \E p \in Pulls, type \in LinkTypes : LinkIs(type, p, i) \in S

OfPull(S, p) ==
    \/ Node("PullRequest", p) \in S
    \/ \E i \in Issues, type \in LinkTypes : LinkIs(type, p, i) \in S
    \/ \E c \in Commits : Contains(p, c) \in S

OfCommit(S, c) ==
    \/ Node("Commit", c) \in S
    \/ \E q \in Commits : ParentIs(c, q) \in S
    \/ \E f \in Paths : ChangeIs(c, f) \in S
    \/ \E p \in Pulls : Contains(p, c) \in S /\ c \notin SeqSet(PullCommits[p])

\* A request for c is left to make, or c is on a page of the list not read yet.
Coming(x, list, c) == c \in SeqSet(x.todo) \/ After(list, (x.page - 1) * PageSize, c)

HeadsRead(x, S) ==
    x.pc # "branches" =>
        /\ \A b \in Branches, c \in Commits : HeadIs(b, c) \in S => <<b, c>> \in x.doc.heads
        /\ \A b \in Branches : \E h \in x.doc.heads : h[1] = b

IssueRead(x, S, g, i) ==
    /\ x.pc = "issues" => Coming(x, g.items, i)
    /\ x.pc = "issue" => i \in SeqSet(x.todo) \/ x.doc.issues[i] # None
    /\ x.pc \notin {"branches", "issues", "issue"} => x.doc.issues[i] # None

HasPull(d, p) == \E pull \in d.pulls : pull.number = p
HasCommits(d, p) == \A c \in SeqSet(PullCommits[p]) : <<p, c>> \in d.contains

BeforePulls == {"branches", "issues", "issue"}
PullPhases  == {"pull", "pull_commits", "pull_files"}
BeforeCommits == BeforePulls \cup {"pulls"} \cup PullPhases

PullRead(x, S, g, p) ==
    /\ x.pc = "pulls" => Coming(x, OnlyIn(g.items, Pulls), p)
    /\ x.pc \in PullPhases => p \in SeqSet(x.todo) \/ (HasPull(x.doc, p) /\ HasCommits(x.doc, p))
    /\ x.pc \notin BeforePulls \cup {"pulls"} \cup PullPhases => HasPull(x.doc, p) /\ HasCommits(x.doc, p)

CommitRead(x, S, g, c) ==
    /\ x.pc = "commits" => Coming(x, Log[g.head[x.branch]], c)
    /\ x.pc = "commit" => c \in SeqSet(x.todo) \/ c \in x.doc.commits
    /\ x.pc \notin BeforeCommits \cup {"commits", "commit"} => c \in x.doc.commits

\* Where the import is, whatever it has read.
Position(x) ==
    /\ x.pc \notin {"issues", "pulls", "commits"} => x.page = 1
    /\ x.pc # "save" => x.op = 1
    /\ x.op \in 1..Len(Operations)
    /\ x.pc \in {"pull_commits", "pull_files"} => x.todo # <<>> /\ HasPull(x.doc, Head(x.todo))
    /\ x.pc = "pull_files" => HasCommits(x.doc, Head(x.todo))

\* What was read agrees with what stayed on GitHub.
Agrees(x, S) ==
    /\ \A i \in Issues, s \in States :
          StateIs(i, s) \in S /\ x.doc.issues[i] # None => x.doc.issues[i] = s
    /\ \A pull \in x.doc.pulls : \A i \in Issues, type \in LinkTypes :
          LinkIs(type, pull.number, i) \in S =>
              LinkIs(type, pull.number, i) \in LinksOf(pull.number, pull.text)

\* Statement k of the document d was executed, and those it needs before it.
Did(d, k, ns, rs) ==
    /\ \A n \in MappedNodes(d) : Operations[k] = <<n[1]>> => n \in ns
    /\ \A r \in MappedRelations(d) :
          /\ Operations[k] = QueryOf(r)
          /\ r[2] \in MappedNodes(d) /\ r[3] \in MappedNodes(d)
          => r \in rs

\* The statements before op are done.
Saved(x, S, ns, rs, st) ==
    x.pc = "save" =>
        /\ \A k \in 1..(x.op - 1) : Did(x.doc, k, ns, rs)
        /\ \A i \in Issues, s \in States : x.op > 2 /\ StateIs(i, s) \in S => st[i] = s

Reading(x, S, g) ==
    /\ HeadsRead(x, S)
    /\ \A i \in Issues : OfIssue(S, i) => IssueRead(x, S, g, i)
    /\ \A p \in Pulls : OfPull(S, p) => PullRead(x, S, g, p)
    /\ \A c \in Commits : OfCommit(S, c) => CommitRead(x, S, g, c)
    /\ Position(x) /\ Agrees(x, S)

StoringOf(j) ==
    /\ job[j].todo \in Seq(Numbers \cup Commits)
    /\ job[j].pc \notin Ended => /\ steady[j] \subseteq Present(github, job[j].branch)
                                 /\ Reading(job[j], steady[j], github)
                                 /\ Saved(job[j], steady[j], nodes, relations, state)
    /\ job[j].pc = "done" => \A x \in steady[j] : Stored(x)
    /\ \A x \in steady[j] : x[1] = "STATE" => \A k \in Imports \ {j} : job[k].pc \in Ended

StoringInv == Newest(github) /\ \A j \in Imports : StoringOf(j)

-----------------------------------------------------------------------------
(* More about sequences *)

LEMMA KeepingAgrees ==
    ASSUME NEW T, NEW s \in Seq(T), NEW y \in T, NEW S, NEW one, NEW two,
           Keeping(one, s, S), Keeping(two, Append(s, y), S)
    PROVE  \A n \in 0..Len(s) : one[n] = two[n]
<1> DEFINE Bad == {n \in 0..Len(s) : one[n] # two[n]}
<1>1. /\ Len(s) \in Nat /\ Len(Append(s, y)) = Len(s) + 1
      /\ \A n \in 1..Len(s) : Append(s, y)[n] = s[n]
    OBVIOUS
<1>2. Bad = {}
    <2>1. SUFFICES ASSUME Bad # {} PROVE FALSE
        OBVIOUS
    <2>2. Bad \in SUBSET Nat
        BY <1>1
    <2>3. PICK n \in Bad : \A m \in Bad : n <= m
        BY <2>1, <2>2, LeastNatural
    <2>4. n # 0
        BY <2>3 DEF Keeping
    <2>5. n \in 1..Len(s) /\ n - 1 \in 0..Len(s) /\ n \in 1..(Len(s) + 1)
        BY <1>1, <2>3, <2>4
    <2>6. one[n - 1] = two[n - 1]
        BY <2>3, <2>5
    <2>7. one[n] = two[n]
        BY <1>1, <2>5, <2>6 DEF Keeping
    <2> QED BY <2>3, <2>7
<1> QED BY <1>2

LEMMA OnlyInAppend ==
    ASSUME NEW T, NEW s \in Seq(T), NEW y \in T, NEW S
    PROVE  OnlyIn(Append(s, y), S) = IF y \in S THEN Append(OnlyIn(s, S), y) ELSE OnlyIn(s, S)
<1>1. Append(s, y) \in Seq(T)
    OBVIOUS
<1>2. PICK one : Keeping(one, s, S) /\ OnlyIn(s, S) = one[Len(s)]
    BY OnlyInKeeps
<1>3. PICK two : Keeping(two, Append(s, y), S) /\ OnlyIn(Append(s, y), S) = two[Len(Append(s, y))]
    BY <1>1, OnlyInKeeps
<1>4. one[Len(s)] = two[Len(s)]
    <2>1. Len(s) \in 0..Len(s)
        OBVIOUS
    <2> QED BY <1>2, <1>3, <2>1, KeepingAgrees
<1>5. /\ Len(Append(s, y)) = Len(s) + 1 /\ Append(s, y)[Len(s) + 1] = y
      /\ Len(s) + 1 \in 1..Len(Append(s, y)) /\ Len(s) + 1 - 1 = Len(s)
    OBVIOUS
<1>6. two[Len(s) + 1] = IF y \in S THEN Append(two[Len(s)], y) ELSE two[Len(s)]
    BY <1>3, <1>5 DEF Keeping
<1> QED BY <1>2, <1>3, <1>4, <1>5, <1>6

LEMMA OnlyInEmpty == \A S : OnlyIn(<<>>, S) = <<>>
<1> SUFFICES ASSUME NEW S PROVE OnlyIn(<<>>, S) = <<>>
    OBVIOUS
<1>1. <<>> \in Seq({}) /\ Len(<<>>) = 0
    OBVIOUS
<1>2. PICK kept : Keeping(kept, <<>>, S) /\ OnlyIn(<<>>, S) = kept[0]
    BY <1>1, OnlyInKeeps
<1> QED BY <1>2 DEF Keeping

\* What is true of the empty sequence and stays true when an element is appended is
\* shown along the prefixes of a sequence.
LEMMA Prefixes ==
    ASSUME NEW T, NEW list \in Seq(T), NEW n \in 1..Len(list)
    PROVE  /\ SubSeq(list, 1, n) = Append(SubSeq(list, 1, n - 1), list[n])
           /\ SubSeq(list, 1, n - 1) \in Seq(T) /\ SubSeq(list, 1, n) \in Seq(T)
           /\ SubSeq(list, 1, 0) = <<>> /\ SubSeq(list, 1, Len(list)) = list
           /\ list[n] \in T
OBVIOUS

LEMMA UpTo ==
    ASSUME NEW N \in Nat, NEW G, 0 \in G, \A n \in 1..N : n - 1 \in G => n \in G
    PROVE  0..N \subseteq G
<1> DEFINE Bad == {n \in 0..N : n \notin G}
<1>1. SUFFICES ASSUME Bad # {} PROVE FALSE
    OBVIOUS
<1>2. PICK n \in Bad : \A m \in Bad : n <= m
    <2>1. Bad \in SUBSET Nat
        OBVIOUS
    <2> HIDE DEF Bad
    <2> QED BY <1>1, <2>1, LeastNatural
<1>3. n \in 1..N /\ n - 1 \in 0..N
    BY <1>2
<1>4. n - 1 \in G
    BY <1>2, <1>3
<1> QED BY <1>2, <1>3, <1>4

LEMMA OnlyInFront ==
    ASSUME NEW T, NEW s \in Seq(T), NEW y \in T, NEW S
    PROVE  OnlyIn(<<y>> \o s, S) = IF y \in S THEN <<y>> \o OnlyIn(s, S) ELSE OnlyIn(s, S)
<1> DEFINE front(z) == IF y \in S THEN <<y>> \o z ELSE z
           pre(n) == SubSeq(s, 1, n)
           G == {n \in 0..Len(s) : OnlyIn(<<y>> \o pre(n), S) = front(OnlyIn(pre(n), S))}
<1>1. Len(s) \in Nat
    OBVIOUS
<1>2. 0 \in G
    <2>0. <<>> \in Seq(T) /\ <<y>> = Append(<<>>, y) /\ <<y>> \in Seq(T)
        OBVIOUS
    <2>1. pre(0) = <<>> /\ <<y>> \o pre(0) = Append(<<>>, y) /\ <<>> \in Seq(T)
        <3>1. pre(0) = <<>>
            OBVIOUS
        <3>2. <<y>> \o <<>> = <<y>>
            BY <2>0, ConcatEmptySeq
        <3> QED BY <2>0, <3>1, <3>2
    <2>2. OnlyIn(<<>>, S) = <<>>
        BY OnlyInEmpty
    <2>3. OnlyIn(Append(<<>>, y), S) = IF y \in S THEN Append(<<>>, y) ELSE <<>>
        BY <2>1, <2>2, OnlyInAppend
    <2>4. front(<<>>) = IF y \in S THEN Append(<<>>, y) ELSE <<>>
        BY <2>0, ConcatEmptySeq
    <2> HIDE DEF pre, front
    <2>5. OnlyIn(<<y>> \o pre(0), S) = front(OnlyIn(pre(0), S))
        BY ONLY <2>1, <2>2, <2>3, <2>4, Zenon
    <2> QED BY <1>1, <2>5
<1>3. ASSUME NEW n \in 1..Len(s), n - 1 \in G PROVE n \in G
    <2> DEFINE a == pre(n - 1)
               z == s[n]
    <2>1. pre(n) = Append(a, z) /\ a \in Seq(T) /\ z \in T
        BY Prefixes
    <2>2. n \in 0..Len(s) /\ OnlyIn(<<y>> \o a, S) = front(OnlyIn(a, S))
        BY <1>1, <1>3
    <2> HIDE DEF pre, a, z
    <2>4. <<y>> \o pre(n) = Append(<<y>> \o a, z) /\ <<y>> \o a \in Seq(T)
        BY <2>1
    <2>5. OnlyIn(<<y>> \o pre(n), S) = IF z \in S THEN Append(OnlyIn(<<y>> \o a, S), z)
                                                     ELSE OnlyIn(<<y>> \o a, S)
        BY <2>1, <2>4, OnlyInAppend
    <2>6. OnlyIn(pre(n), S) = IF z \in S THEN Append(OnlyIn(a, S), z) ELSE OnlyIn(a, S)
        BY <2>1, OnlyInAppend
    <2>7. OnlyIn(a, S) \in Seq(T)
        BY <2>1, OnlyInSet
    <2>8. Append(front(OnlyIn(a, S)), z) = front(Append(OnlyIn(a, S), z))
        BY <2>1, <2>7
    <2> HIDE DEF front
    <2> QED BY <2>2, <2>5, <2>6, <2>8
<1>4. Len(s) \in G
    <2> HIDE DEF G
    <2>1. 0..Len(s) \subseteq G
        BY <1>1, <1>2, <1>3, UpTo
    <2> QED BY <1>1, <2>1
<1>5. SubSeq(s, 1, Len(s)) = s
    OBVIOUS
<1> QED BY <1>4, <1>5

\* Taking an element out first makes no difference to what is kept if it is not kept.
LEMMA OnlyInTwice ==
    ASSUME NEW T, NEW s \in Seq(T), NEW R, NEW S, S \subseteq R
    PROVE  OnlyIn(OnlyIn(s, R), S) = OnlyIn(s, S)
<1> DEFINE pre(n) == SubSeq(s, 1, n)
           G == {n \in 0..Len(s) : OnlyIn(OnlyIn(pre(n), R), S) = OnlyIn(pre(n), S)}
<1>1. Len(s) \in Nat
    OBVIOUS
<1>2. 0 \in G
    <2>1. pre(0) = <<>>
        OBVIOUS
    <2> HIDE DEF pre
    <2> QED BY <1>1, <2>1, OnlyInEmpty
<1>3. ASSUME NEW n \in 1..Len(s), n - 1 \in G PROVE n \in G
    <2> DEFINE a == pre(n - 1)
               y == s[n]
    <2>1. pre(n) = Append(a, y) /\ a \in Seq(T) /\ y \in T
        BY Prefixes
    <2>2. n \in 0..Len(s) /\ OnlyIn(OnlyIn(a, R), S) = OnlyIn(a, S)
        BY <1>1, <1>3
    <2> HIDE DEF pre, a, y
    <2>3. OnlyIn(a, R) \in Seq(T)
        BY <2>1, OnlyInSet
    <2>4. OnlyIn(pre(n), S) = IF y \in S THEN Append(OnlyIn(a, S), y) ELSE OnlyIn(a, S)
        BY <2>1, OnlyInAppend
    <2>5. OnlyIn(pre(n), R) = IF y \in R THEN Append(OnlyIn(a, R), y) ELSE OnlyIn(a, R)
        BY <2>1, OnlyInAppend
    <2>6. OnlyIn(Append(OnlyIn(a, R), y), S) = IF y \in S THEN Append(OnlyIn(OnlyIn(a, R), S), y)
                                                          ELSE OnlyIn(OnlyIn(a, R), S)
        BY <2>1, <2>3, OnlyInAppend
    <2> QED BY <2>2, <2>4, <2>5, <2>6
<1>4. Len(s) \in G
    <2> HIDE DEF G
    <2>1. 0..Len(s) \subseteq G
        BY <1>1, <1>2, <1>3, UpTo
    <2> QED BY <1>1, <2>1
<1>5. SubSeq(s, 1, Len(s)) = s
    OBVIOUS
<1> QED BY <1>4, <1>5

\* The order is kept.
Falling(s) == \A m, n \in DOMAIN s : m < n => s[n] < s[m]

LEMMA OnlyInFalling ==
    ASSUME NEW T \in SUBSET Nat, NEW s \in Seq(T), NEW S, Falling(s)
    PROVE  Falling(OnlyIn(s, S))
<1> DEFINE pre(n) == SubSeq(s, 1, n)
           G == {n \in 0..Len(s) : Falling(OnlyIn(pre(n), S))}
<1>1. Len(s) \in Nat
    OBVIOUS
<1>2. 0 \in G
    <2>1. pre(0) = <<>> /\ Falling(<<>>)
        BY DEF Falling
    <2> HIDE DEF pre
    <2> QED BY <1>1, <2>1, OnlyInEmpty
<1>3. ASSUME NEW n \in 1..Len(s), n - 1 \in G PROVE n \in G
    <2> DEFINE a == pre(n - 1)
               k == OnlyIn(a, S)
               y == s[n]
    <2>1. pre(n) = Append(a, y) /\ a \in Seq(T) /\ y \in T
        BY Prefixes
    <2>2. n \in 0..Len(s) /\ Falling(k)
        BY <1>1, <1>3
    <2>3. \A z \in SeqSet(a) : y < z
        <3>1. /\ DOMAIN a = 1..(n - 1) /\ \A m \in 1..(n - 1) : a[m] = s[m] /\ m \in DOMAIN s /\ m < n
              /\ n \in DOMAIN s
            BY <1>1
        <3> HIDE DEF a
        <3> QED BY <3>1 DEF SeqSet, Falling
    <2> HIDE DEF pre, a, y
    <2>4. k \in Seq(T) /\ SeqSet(k) \subseteq SeqSet(a)
        <3>1. k \in Seq(T) /\ SeqSet(k) = SeqSet(a) \cap S
            BY ONLY <2>1, OnlyInSet
        <3> QED BY <3>1
    <2>5. OnlyIn(pre(n), S) = IF y \in S THEN Append(k, y) ELSE k
        BY <2>1, OnlyInAppend
    <2> HIDE DEF k
    <2>6. \A z \in DOMAIN k : y < k[z]
        BY <2>3, <2>4 DEF SeqSet
    <2>7. Falling(Append(k, y))
        <3>1. /\ Len(k) \in Nat /\ DOMAIN k = 1..Len(k) /\ DOMAIN Append(k, y) = 1..(Len(k) + 1)
              /\ Append(k, y)[Len(k) + 1] = y /\ \A z \in 1..Len(k) : Append(k, y)[z] = k[z]
            BY <2>1, <2>4
        <3> SUFFICES ASSUME NEW u \in 1..(Len(k) + 1), NEW v \in 1..(Len(k) + 1), u < v
                     PROVE  Append(k, y)[v] < Append(k, y)[u]
            BY <3>1 DEF Falling
        <3>2. u \in 1..Len(k) /\ (v \in 1..Len(k) \/ v = Len(k) + 1)
            BY <3>1
        <3> QED BY <2>2, <2>6, <3>1, <3>2 DEF Falling
    <2> QED BY <2>2, <2>5, <2>7
<1>4. Len(s) \in G
    <2> HIDE DEF G
    <2>1. 0..Len(s) \subseteq G
        BY <1>1, <1>2, <1>3, UpTo
    <2> QED BY <1>1, <2>1
<1>5. SubSeq(s, 1, Len(s)) = s
    OBVIOUS
<1> QED BY <1>4, <1>5

\* Where nothing was taken out before it, an element keeps its place.
LEMMA OnlyInPrefix ==
    ASSUME NEW T, NEW s \in Seq(T), NEW S, NEW h \in DOMAIN s, \A q \in 1..h : s[q] \in S
    PROVE  h \in DOMAIN OnlyIn(s, S) /\ OnlyIn(s, S)[h] = s[h]
<1> DEFINE pre(n) == SubSeq(s, 1, n)
           k(n) == OnlyIn(pre(n), S)
           G == {n \in 0..Len(s) : IF n <= h THEN k(n) = pre(n) ELSE h \in DOMAIN k(n) /\ k(n)[h] = s[h]}
<1>1. Len(s) \in Nat /\ h \in 1..Len(s)
    OBVIOUS
<1>2. 0 \in G
    <2>1. pre(0) = <<>>
        OBVIOUS
    <2> HIDE DEF pre
    <2> QED BY <1>1, <2>1, OnlyInEmpty
<1>3. ASSUME NEW n \in 1..Len(s), n - 1 \in G PROVE n \in G
    <2> DEFINE a == pre(n - 1)
               y == s[n]
    <2>1. pre(n) = Append(a, y) /\ a \in Seq(T) /\ y \in T
        BY Prefixes
    <2>2. k(n) = IF y \in S THEN Append(k(n - 1), y) ELSE k(n - 1)
        <3>1. k(n - 1) = OnlyIn(a, S) /\ k(n) = OnlyIn(pre(n), S)
            OBVIOUS
        <3> HIDE DEF pre, a, y, k
        <3> QED BY <2>1, <3>1, OnlyInAppend
    <2>3. n \in 0..Len(s) /\ n - 1 \in Nat /\ n \in Nat /\ h \in Nat
        BY <1>1
    <2>4. CASE n <= h
        <3>1. n - 1 <= h /\ n \in 1..h
            BY <2>3, <2>4
        <3>2. k(n - 1) = a /\ y \in S
            BY <1>3, <3>1
        <3> HIDE DEF pre, k, a, y
        <3> QED BY <2>1, <2>2, <2>3, <2>4, <3>2
    <2>5. CASE ~(n <= h)
        <3>1. h \in DOMAIN k(n - 1) /\ k(n - 1)[h] = s[h]
            <4>1. CASE n - 1 <= h
                <5>1. n - 1 = h
                    BY <2>3, <2>5, <4>1
                <5>2. k(n - 1) = pre(h)
                    BY <1>3, <4>1, <5>1
                <5>3. h \in DOMAIN pre(h) /\ pre(h)[h] = s[h]
                    BY <1>1
                <5> HIDE DEF pre, k
                <5> QED BY <5>2, <5>3
            <4>2. CASE ~(n - 1 <= h)
                BY <1>3, <4>2
            <4> QED BY <4>1, <4>2
        <3>2. k(n - 1) \in Seq(T)
            BY <2>1, OnlyInSet
        <3> HIDE DEF pre, k, a, y
        <3>3. h \in DOMAIN Append(k(n - 1), y) /\ Append(k(n - 1), y)[h] = s[h]
            BY <2>1, <3>1, <3>2
        <3> QED BY <2>2, <2>3, <2>5, <3>1, <3>3
    <2> QED BY <2>4, <2>5
<1>4. Len(s) \in G
    <2> HIDE DEF G
    <2>1. 0..Len(s) \subseteq G
        BY <1>1, <1>2, <1>3, UpTo
    <2> QED BY <1>1, <2>1
<1>5. SubSeq(s, 1, Len(s)) = s
    OBVIOUS
<1>6. CASE Len(s) <= h
    <2>1. h = Len(s)
        BY <1>1, <1>6
    <2>2. k(Len(s)) = pre(Len(s))
        BY <1>4, <1>6
    <2>3. OnlyIn(s, S) = s
        BY <1>5, <2>2
    <2> QED BY <1>1, <2>1, <2>3
<1>7. CASE ~(Len(s) <= h)
    BY <1>4, <1>5, <1>7
<1> QED BY <1>6, <1>7

-----------------------------------------------------------------------------
(* Reading a list page by page *)

LEMMA AfterFront ==
    ASSUME NEW T, NEW list \in Seq(T), NEW y, NEW m \in Nat, NEW x, After(list, m, x)
    PROVE  After(<<y>> \o list, m, x)
<1>1. PICK n \in DOMAIN list : m < n /\ list[n] = x
    BY DEF After
<1>2. /\ n \in 1..Len(list) /\ Len(list) \in Nat /\ <<y>> \o list \in Seq(T \cup {y})
      /\ Len(<<y>> \o list) = 1 + Len(list) /\ (<<y>> \o list)[n + 1] = list[n]
    <2>1. n \in 1..Len(list) /\ Len(list) \in Nat
        BY <1>1
    <2>2. list \in Seq(T \cup {y}) /\ <<y>> \in Seq(T \cup {y})
        BY MoreOf
    <2>3. Len(<<y>>) = 1
        OBVIOUS
    <2> QED BY <2>1, <2>2, <2>3, ConcatProperties
<1>3. n + 1 \in DOMAIN (<<y>> \o list) /\ m < n + 1
    BY <1>1, <1>2
<1> QED BY <1>1, <1>2, <1>3 DEF After

\* What was still to come is on the page that is read, or the list goes on and has it
\* on a later page.
LEMMA PageOrLater ==
    ASSUME NEW T, NEW list \in Seq(T), NEW n \in Nat \ {0}, NEW c,
           After(list, (n - 1) * PageSize, c)
    PROVE  \/ c \in SeqSet(Page(list, n))
           \/ HasNext(list, n) /\ After(list, n * PageSize, c)
<1> DEFINE a == (n - 1) * PageSize
           e == n * PageSize
           z == IF e < Len(list) THEN e ELSE Len(list)
<1>1. PICK m \in DOMAIN list : a < m /\ list[m] = c
    BY DEF After
<1>2. a \in Nat /\ e \in Nat /\ Len(list) \in Nat /\ m \in 1..Len(list)
    <2>1. PageSize \in Nat /\ n - 1 \in Nat /\ n \in Nat
        BY ImportAssumption
    <2>2. \A x, y \in Nat : x * y \in Nat
        OBVIOUS
    <2> QED BY <2>1, <2>2
<1>3. CASE m <= z
    <2>1. Page(list, n) = SubSeq(list, a + 1, z)
        BY DEF Page
    <2> HIDE DEF a, e, z
    <2>2. z \in 0..Len(list)
        BY <1>2 DEF z
    <2>3. /\ a + 1 \in 1..(Len(list) + 1) /\ m - a \in 1..(z - (a + 1) + 1)
          /\ a + 1 + (m - a) - 1 = m /\ a + 1 <= z
        BY <1>1, <1>2, <1>3, <2>2
    <2>4. /\ Len(SubSeq(list, a + 1, z)) = z - (a + 1) + 1
          /\ SubSeq(list, a + 1, z) \in Seq(T)
          /\ SubSeq(list, a + 1, z)[m - a] = list[m]
        BY <2>2, <2>3, SubSeqProperties
    <2>5. m - a \in DOMAIN SubSeq(list, a + 1, z)
        BY <2>3, <2>4
    <2> QED BY <1>1, <2>1, <2>4, <2>5 DEF SeqSet
<1>4. CASE ~(m <= z)
    <2> HIDE DEF a, e
    <2>1. e < Len(list) /\ e < m
        BY <1>2, <1>4
    <2> QED BY <1>1, <2>1 DEF HasNext, After, e
<1> QED BY <1>2, <1>3, <1>4

LEMMA JoinedSet ==
    ASSUME NEW T, NEW s \in Seq(T), NEW t \in Seq(T)
    PROVE  s \o t \in Seq(T) /\ SeqSet(s \o t) = SeqSet(s) \cup SeqSet(t)
<1>1. /\ s \o t \in Seq(T) /\ Len(s \o t) = Len(s) + Len(t)
      /\ DOMAIN s = 1..Len(s) /\ DOMAIN t = 1..Len(t) /\ DOMAIN (s \o t) = 1..(Len(s) + Len(t))
      /\ Len(s) \in Nat /\ Len(t) \in Nat
      /\ \A n \in 1..Len(s) : (s \o t)[n] = s[n]
      /\ \A n \in 1..Len(t) : (s \o t)[Len(s) + n] = t[n]
    OBVIOUS
<1>2. ASSUME NEW n \in 1..(Len(s) + Len(t)) PROVE n \in 1..Len(s) \/ \E m \in 1..Len(t) : n = Len(s) + m
    <2>1. CASE n > Len(s)
        <3>1. n - Len(s) \in 1..Len(t) /\ n = Len(s) + (n - Len(s))
            BY <1>1, <2>1
        <3> QED BY <3>1
    <2> QED BY <1>1, <2>1
<1>3. \A n \in 1..Len(t) : Len(s) + n \in 1..(Len(s) + Len(t))
    BY <1>1
<1>4. \A n \in 1..Len(s) : n \in 1..(Len(s) + Len(t))
    BY <1>1
<1>5. ASSUME NEW n \in DOMAIN (s \o t) PROVE (s \o t)[n] \in SeqSet(s) \cup SeqSet(t)
    <2>1. n \in 1..(Len(s) + Len(t))
        BY <1>1, <1>5
    <2>2. CASE n \in 1..Len(s)
        BY <1>1, <2>2 DEF SeqSet
    <2>3. ASSUME NEW m \in 1..Len(t), n = Len(s) + m PROVE (s \o t)[n] \in SeqSet(t)
        BY <1>1, <2>3 DEF SeqSet
    <2> QED BY <1>2, <2>1, <2>2, <2>3
<1>6. SeqSet(s) \subseteq SeqSet(s \o t)
    BY <1>1, <1>4 DEF SeqSet
<1>7. SeqSet(t) \subseteq SeqSet(s \o t)
    BY <1>1, <1>3 DEF SeqSet
<1>8. SeqSet(s \o t) \subseteq SeqSet(s) \cup SeqSet(t)
    BY <1>5 DEF SeqSet
<1> QED BY <1>1, <1>6, <1>7, <1>8

LEMMA FirstOrLater ==
    ASSUME NEW T, NEW s \in Seq(T), s # <<>>
    PROVE  Tail(s) \in Seq(T) /\ SeqSet(s) = {Head(s)} \cup SeqSet(Tail(s))
<1>1. /\ Tail(s) \in Seq(T) /\ Len(s) \in Nat /\ Len(s) # 0 /\ Head(s) = s[1]
      /\ DOMAIN s = 1..Len(s) /\ DOMAIN Tail(s) = 1..(Len(s) - 1)
      /\ \A n \in 1..(Len(s) - 1) : Tail(s)[n] = s[n + 1]
    OBVIOUS
<1>2. \A n \in 1..Len(s) : n = 1 \/ (n - 1 \in 1..(Len(s) - 1) /\ n - 1 + 1 = n)
    BY <1>1
<1>3. \A n \in 1..(Len(s) - 1) : n + 1 \in 1..Len(s)
    BY <1>1
<1>4. SeqSet(s) \subseteq {Head(s)} \cup SeqSet(Tail(s))
    <2> SUFFICES ASSUME NEW n \in 1..Len(s) PROVE s[n] = Head(s) \/ s[n] \in SeqSet(Tail(s))
        BY <1>1 DEF SeqSet
    <2>1. CASE n = 1
        BY <1>1, <2>1
    <2>2. CASE n # 1
        <3>1. n - 1 \in DOMAIN Tail(s) /\ Tail(s)[n - 1] = s[n]
            BY <1>1, <1>2, <2>2
        <3> QED BY <3>1 DEF SeqSet
    <2> QED BY <2>1, <2>2
<1>5. SeqSet(Tail(s)) \subseteq SeqSet(s)
    BY <1>1, <1>3 DEF SeqSet
<1>6. Head(s) \in SeqSet(s)
    BY <1>1 DEF SeqSet
<1> QED BY <1>1, <1>4, <1>5, <1>6

\* A request for a page: nothing that was to come is lost.
LEMMA ReadsOn ==
    ASSUME NEW j \in Imports, DOMAIN job = Imports, DOMAIN job[j] = Fields,
           job[j].page \in Nat \ {0},
           NEW U, job[j].todo \in Seq(U), NEW T \in SUBSET U, NEW list \in Seq(T), NEW S,
           NEW here, NEW next, here # next, Reads(j, list, S, here, next)
    PROVE  /\ job'[j].todo \in Seq(U)
           /\ job'[j].pc \in {here, next} /\ job'[j].page \in Nat \ {0}
           /\ job'[j].pc = next => job'[j].page = 1
           /\ \A k \in Imports \ {j} : job'[k] = job[k]
           /\ DOMAIN job'[j] = Fields
           /\ \A x \in Fields \ {"pc", "page", "todo"} : job'[j][x] = job[j][x]
           /\ \A c \in S : Coming(job[j], list, c) =>
                 /\ job'[j].pc = here => Coming(job'[j], list, c)
                 /\ job'[j].pc = next => c \in SeqSet(job'[j].todo)
<1> DEFINE n == job[j].page
           new == OnlyIn(Page(list, n), S)
           y == job'[j]
<1>1. /\ y.pc = (IF HasNext(list, n) THEN here ELSE next)
      /\ y.page = (IF HasNext(list, n) THEN n + 1 ELSE 1)
      /\ y.todo = job[j].todo \o new
      /\ DOMAIN y = Fields
      /\ \A x \in Fields \ {"pc", "page", "todo"} : y[x] = job[j][x]
      /\ \A k \in Imports \ {j} : job'[k] = job[k]
    BY DEF Reads, Fields
<1>2. Page(list, n) \in Seq(T)
    BY PageOf
<1>3. new \in Seq(T) /\ SeqSet(new) = SeqSet(Page(list, n)) \cap S
    BY <1>2, OnlyInSet
<1>4. new \in Seq(U)
    BY <1>3, MoreOf
<1> HIDE DEF new
<1>5. y.todo \in Seq(U) /\ SeqSet(y.todo) = SeqSet(job[j].todo) \cup SeqSet(new)
    BY <1>1, <1>4, JoinedSet
<1>6. n + 1 \in Nat \ {0} /\ n + 1 - 1 = n
    OBVIOUS
<1>7. ASSUME NEW c \in S, Coming(job[j], list, c)
      PROVE  /\ y.pc = here => Coming(y, list, c)
             /\ y.pc = next => c \in SeqSet(y.todo)
    <2>1. CASE c \in SeqSet(job[j].todo)
        BY <1>5, <2>1 DEF Coming
    <2>2. CASE After(list, (n - 1) * PageSize, c)
        <3>1. \/ c \in SeqSet(Page(list, n))
              \/ HasNext(list, n) /\ After(list, n * PageSize, c)
            BY <2>2, PageOrLater
        <3>2. CASE c \in SeqSet(Page(list, n))
            BY <1>3, <1>5, <3>2 DEF Coming
        <3>3. CASE HasNext(list, n) /\ After(list, n * PageSize, c)
            <4>1. y.pc = here /\ y.page - 1 = n
                BY <1>1, <1>6, <3>3
            <4> QED BY <3>3, <4>1 DEF Coming
        <3> QED BY <3>1, <3>2, <3>3
    <2> QED BY <1>7, <2>1, <2>2 DEF Coming
<1> HIDE DEF y
<1>8. y.pc \in {here, next} /\ y.page \in Nat \ {0} /\ (y.pc = next => y.page = 1)
    BY <1>1, <1>6
<1> QED BY <1>1, <1>5, <1>7, <1>8 DEF y

-----------------------------------------------------------------------------
(* What an import has to store, by its form *)

LEMMA SameNode == \A a, x, b, y : Node(a, x) = Node(b, y) <=> a = b /\ x = y
BY DEF Node

LEMMA SameRelation ==
    \A t, a, x, b, y, u, c, v, d, w :
        Relation(t, a, x, b, y) = Relation(u, c, v, d, w)
            <=> t = u /\ a = c /\ x = v /\ b = d /\ y = w
BY DEF Relation, Node

LEMMA NodeNoRelation == \A a, x, t, b, y, c, z : Node(a, x) # Relation(t, b, y, c, z)
<1> SUFFICES ASSUME NEW a, NEW x, NEW t, NEW b, NEW y, NEW c, NEW z,
                    Node(a, x) = Relation(t, b, y, c, z)
             PROVE  FALSE
    OBVIOUS
<1>1. Len(Node(a, x)) = 2 /\ Len(Relation(t, b, y, c, z)) = 3
    BY DEF Node, Relation
<1> QED BY <1>1

\* The forms are pairwise different.
LEMMA Forms ==
    /\ \A i, s, j, t : StateIs(i, s) = StateIs(j, t) <=> i = j /\ s = t
    /\ \A b, c, d, e : HeadIs(b, c) = HeadIs(d, e) <=> b = d /\ c = e
    /\ \A t, p, i, u, q, j : LinkIs(t, p, i) = LinkIs(u, q, j) <=> t = u /\ p = q /\ i = j
    /\ \A p, c, q, d : Contains(p, c) = Contains(q, d) <=> p = q /\ c = d
    /\ \A c, q, d, r : ParentIs(c, q) = ParentIs(d, r) <=> c = d /\ q = r
    /\ \A c, f, d, g : ChangeIs(c, f) = ChangeIs(d, g) <=> c = d /\ f = g
BY SameRelation DEF StateIs, HeadIs, LinkIs, Contains, ParentIs, ChangeIs

LEMMA FormsDiffer ==
    /\ \A i, s, b, c : StateIs(i, s) # HeadIs(b, c)
    /\ \A i, s, t, p, k : StateIs(i, s) # LinkIs(t, p, k)
    /\ \A i, s, p, c : StateIs(i, s) # Contains(p, c)
    /\ \A i, s, c, q : StateIs(i, s) # ParentIs(c, q)
    /\ \A i, s, c, f : StateIs(i, s) # ChangeIs(c, f)
    /\ \A b, c, t, p, i : HeadIs(b, c) # LinkIs(t, p, i)
    /\ \A b, c, p, d : HeadIs(b, c) # Contains(p, d)
    /\ \A b, c, d, q : HeadIs(b, c) # ParentIs(d, q)
    /\ \A b, c, d, f : HeadIs(b, c) # ChangeIs(d, f)
    /\ \A t, p, i, q, c : LinkIs(t, p, i) # Contains(q, c)
    /\ \A t, p, i, c, q : LinkIs(t, p, i) # ParentIs(c, q)
    /\ \A t, p, i, c, f : LinkIs(t, p, i) # ChangeIs(c, f)
    /\ \A p, c, d, q : Contains(p, c) # ParentIs(d, q)
    /\ \A p, c, d, f : Contains(p, c) # ChangeIs(d, f)
    /\ \A c, q, d, f : ParentIs(c, q) # ChangeIs(d, f)
BY SameRelation DEF StateIs, HeadIs, LinkIs, Contains, ParentIs, ChangeIs

LEMMA FormsNoNode ==
    \A a, x :
        /\ \A i, s : Node(a, x) # StateIs(i, s)
        /\ \A b, c : Node(a, x) # HeadIs(b, c)
        /\ \A t, p, i : Node(a, x) # LinkIs(t, p, i)
        /\ \A p, c : Node(a, x) # Contains(p, c)
        /\ \A c, q : Node(a, x) # ParentIs(c, q)
        /\ \A c, f : Node(a, x) # ChangeIs(c, f)
BY NodeNoRelation DEF StateIs, HeadIs, LinkIs, Contains, ParentIs, ChangeIs

\* The forms of what an import of branch b has to store of g.
IsIssueOf(x, g)  == \E i \in IssuesOf(g) : x = Node("Issue", i) \/ x = StateIs(i, StateOf(g, i))
IsPullOf(x, g)   == \E p \in PullsOf(g) : x = Node("PullRequest", p)
IsBranchOf(x, g) == \E b \in Branches : x = Node("Branch", b) \/ x = HeadIs(b, g.head[b])
IsLinkOf(x, g)   == \E p \in PullsOf(g), i \in IssuesOf(g), type \in LinkTypes :
                        x = LinkIs(type, p, i) /\ x \in LinksOf(p, g.text[p])
IsPartOf(x, g, b) ==
    \E p \in PullsOf(g), c \in Commits :
        /\ x = Contains(p, c)
        /\ c \in SeqSet(PullCommits[p]) \/ (c \in SeqSet(Log[g.head[b]]) /\ IsMergeOf(c, p))
IsCommitOf(x, g, b) ==
    \E c \in SeqSet(Log[g.head[b]]) :
        \/ x = Node("Commit", c)
        \/ \E q \in Parents[c] : x = ParentIs(c, q)
        \/ \E f \in SeqSet(Files[c]) : x = ChangeIs(c, f)

LEMMA LinksAre ==
    ASSUME NEW p, NEW text, NEW x \in LinksOf(p, text)
    PROVE  \E i \in Issues, type \in LinkTypes : x = LinkIs(type, p, i)
<1>1. Resolved(text) \subseteq Issues /\ Referenced(text) \subseteq Issues
    BY DEF Resolved, Referenced
<1> QED BY <1>1 DEF LinksOf, LinkIs, LinkTypes

LEMMA PresentForms ==
    ASSUME NEW g \in Repository, NEW b \in Branches, NEW x \in Present(g, b)
    PROVE  \/ IsIssueOf(x, g) \/ IsPullOf(x, g) \/ IsBranchOf(x, g)
           \/ IsLinkOf(x, g) \/ IsPartOf(x, g, b) \/ IsCommitOf(x, g, b)
<1> DEFINE log    == SeqSet(Log[g.head[b]])
           pulls  == PullsOf(g)
           issues == IssuesOf(g)
           Of(i) == {Node("Issue", i), Relation("STATE", "Issue", i, "state", StateOf(g, i))}
           Part(p) == Containing(p, SeqSet(PullCommits[p])
                                    \cup {c \in log : g.merged[p] = c /\ IsMergeOf(c, p)})
           With(c) == {Relation("PARENT", "Commit", c, "Commit", q) : q \in Parents[c]}
                      \cup {Relation("CHANGED", "Commit", c, "File", f) : f \in SeqSet(Files[c])}
           Links == UNION {LinksOf(p, g.text[p]) : p \in pulls}
<1>1. \/ \E i \in issues : x \in Of(i)
      \/ \E p \in pulls : x = Node("PullRequest", p)
      \/ \E y \in Branches : x = Node("Branch", y)
      \/ \E c \in log : x = Node("Commit", c)
      \/ x \in PointsTo(g)
      \/ x \in Links /\ x[3][2] \in issues
      \/ \E p \in pulls : x \in Part(p)
      \/ \E c \in log : x \in With(c)
    <2>1. Present(g, b) = (UNION {Of(i) : i \in issues})
                          \cup {Node("PullRequest", p) : p \in pulls}
                          \cup {Node("Branch", y) : y \in Branches}
                          \cup {Node("Commit", c) : c \in log}
                          \cup PointsTo(g)
                          \cup {y \in Links : y[3][2] \in issues}
                          \cup (UNION {Part(p) : p \in pulls})
                          \cup (UNION {With(c) : c \in log})
        BY DEF Present
    <2> HIDE DEF Of, Part, With, Links, log, pulls, issues
    <2> QED BY <2>1
<1>2. log \subseteq Commits
    BY ImportAssumption DEF Repository, SeqSet
<1>3. CASE \E i \in issues : x \in Of(i)
    BY <1>3 DEF IsIssueOf, StateIs
<1>4. CASE \E p \in pulls : x = Node("PullRequest", p)
    BY <1>4 DEF IsPullOf
<1>5. CASE \E y \in Branches : x = Node("Branch", y)
    BY <1>5 DEF IsBranchOf
<1>6. CASE \E c \in log : x = Node("Commit", c)
    BY <1>6 DEF IsCommitOf
<1>7. CASE x \in PointsTo(g)
    BY <1>7 DEF IsBranchOf, PointsTo, HeadIs
<1>8. CASE x \in Links /\ x[3][2] \in issues
    <2>1. PICK p \in pulls : x \in LinksOf(p, g.text[p])
        BY <1>8
    <2>2. PICK i \in Issues, type \in LinkTypes : x = LinkIs(type, p, i)
        BY <2>1, LinksAre
    <2>3. x[3][2] = i
        BY <2>2 DEF LinkIs, Relation, Node
    <2> QED BY <1>8, <2>1, <2>2, <2>3 DEF IsLinkOf
<1>9. ASSUME NEW p \in pulls, x \in Part(p) PROVE IsPartOf(x, g, b)
    <2>1. PICK c : /\ x = Contains(p, c)
                   /\ c \in SeqSet(PullCommits[p]) \/ (c \in log /\ IsMergeOf(c, p))
        BY <1>9 DEF Containing, Contains
    <2>2. p \in Pulls
        BY DEF PullsOf
    <2>3. SeqSet(PullCommits[p]) \subseteq Commits
        BY <2>2, ImportAssumption DEF SeqSet
    <2>4. c \in Commits
        BY <1>2, <2>1, <2>3
    <2> QED BY <2>1, <2>4 DEF IsPartOf
<1>10. CASE \E c \in log : x \in With(c)
    BY <1>10 DEF IsCommitOf, ParentIs, ChangeIs
<1> QED BY <1>1, <1>3, <1>4, <1>5, <1>6, <1>7, <1>8, <1>9, <1>10

\* What steady things need is on GitHub, and says the same.
LEMMA NeedsIssue ==
    ASSUME NEW g \in Repository, NEW b \in Branches, NEW S \in SUBSET Present(g, b)
    PROVE  \A i \in Issues : OfIssue(S, i) => i \in IssuesOf(g)
<1> SUFFICES ASSUME NEW i \in Issues, OfIssue(S, i) PROVE i \in IssuesOf(g)
    OBVIOUS
<1>1. ASSUME Node("Issue", i) \in S PROVE i \in IssuesOf(g)
    <2>1. IsIssueOf(Node("Issue", i), g)
        BY <1>1, PresentForms, SameNode, FormsNoNode
           DEF IsIssueOf, IsPullOf, IsBranchOf, IsLinkOf, IsPartOf, IsCommitOf
    <2> QED BY <2>1, SameNode, FormsNoNode DEF IsIssueOf
<1>2. ASSUME NEW s, StateIs(i, s) \in S PROVE i \in IssuesOf(g)
    <2>1. IsIssueOf(StateIs(i, s), g)
        BY <1>2, PresentForms, FormsDiffer, FormsNoNode
           DEF IsIssueOf, IsPullOf, IsBranchOf, IsLinkOf, IsPartOf, IsCommitOf
    <2> QED BY <2>1, Forms, FormsNoNode DEF IsIssueOf
<1>3. ASSUME NEW t, NEW p, LinkIs(t, p, i) \in S PROVE i \in IssuesOf(g)
    <2>1. IsLinkOf(LinkIs(t, p, i), g)
        BY <1>3, PresentForms, FormsDiffer, FormsNoNode
           DEF IsIssueOf, IsPullOf, IsBranchOf, IsLinkOf, IsPartOf, IsCommitOf
    <2> QED BY <2>1, Forms DEF IsLinkOf
<1> QED BY <1>1, <1>2, <1>3 DEF OfIssue

LEMMA NeedsPull ==
    ASSUME NEW g \in Repository, NEW b \in Branches, NEW S \in SUBSET Present(g, b)
    PROVE  \A p \in Pulls : OfPull(S, p) => p \in PullsOf(g)
<1> SUFFICES ASSUME NEW p \in Pulls, OfPull(S, p) PROVE p \in PullsOf(g)
    OBVIOUS
<1>1. ASSUME Node("PullRequest", p) \in S PROVE p \in PullsOf(g)
    <2>1. IsPullOf(Node("PullRequest", p), g)
        BY <1>1, PresentForms, SameNode, FormsNoNode
           DEF IsIssueOf, IsPullOf, IsBranchOf, IsLinkOf, IsPartOf, IsCommitOf
    <2> QED BY <2>1, SameNode DEF IsPullOf
<1>2. ASSUME NEW t, NEW i, LinkIs(t, p, i) \in S PROVE p \in PullsOf(g)
    <2>1. IsLinkOf(LinkIs(t, p, i), g)
        BY <1>2, PresentForms, FormsDiffer, FormsNoNode
           DEF IsIssueOf, IsPullOf, IsBranchOf, IsLinkOf, IsPartOf, IsCommitOf
    <2> QED BY <2>1, Forms DEF IsLinkOf
<1>3. ASSUME NEW c, Contains(p, c) \in S PROVE p \in PullsOf(g)
    <2>1. IsPartOf(Contains(p, c), g, b)
        BY <1>3, PresentForms, FormsDiffer, FormsNoNode
           DEF IsIssueOf, IsPullOf, IsBranchOf, IsLinkOf, IsPartOf, IsCommitOf
    <2> QED BY <2>1, Forms DEF IsPartOf
<1> QED BY <1>1, <1>2, <1>3 DEF OfPull

LEMMA NeedsCommit ==
    ASSUME NEW g \in Repository, NEW b \in Branches, NEW S \in SUBSET Present(g, b)
    PROVE  \A c \in Commits : OfCommit(S, c) => c \in SeqSet(Log[g.head[b]])
<1> DEFINE log == SeqSet(Log[g.head[b]])
<1> SUFFICES ASSUME NEW c \in Commits, OfCommit(S, c) PROVE c \in log
    OBVIOUS
<1> HIDE DEF log
<1>0. \A x : IsCommitOf(x, g, b) => \E d \in log : \/ x = Node("Commit", d)
                                                  \/ \E q : x = ParentIs(d, q)
                                                  \/ \E f : x = ChangeIs(d, f)
    BY DEF IsCommitOf, log
<1>1. ASSUME Node("Commit", c) \in S PROVE c \in log
    <2>1. IsCommitOf(Node("Commit", c), g, b)
        BY <1>1, PresentForms, SameNode, FormsNoNode
           DEF IsIssueOf, IsPullOf, IsBranchOf, IsLinkOf, IsPartOf
    <2> QED BY <1>0, <2>1, SameNode, FormsNoNode
<1>2. ASSUME NEW q, ParentIs(c, q) \in S PROVE c \in log
    <2>1. IsCommitOf(ParentIs(c, q), g, b)
        BY <1>2, PresentForms, FormsDiffer, FormsNoNode
           DEF IsIssueOf, IsPullOf, IsBranchOf, IsLinkOf, IsPartOf
    <2> QED BY <1>0, <2>1, Forms, FormsDiffer, FormsNoNode
<1>3. ASSUME NEW f, ChangeIs(c, f) \in S PROVE c \in log
    <2>1. IsCommitOf(ChangeIs(c, f), g, b)
        BY <1>3, PresentForms, FormsDiffer, FormsNoNode
           DEF IsIssueOf, IsPullOf, IsBranchOf, IsLinkOf, IsPartOf
    <2> QED BY <1>0, <2>1, Forms, FormsDiffer, FormsNoNode
<1>4. ASSUME NEW p, Contains(p, c) \in S, c \notin SeqSet(PullCommits[p]) PROVE c \in log
    <2>1. IsPartOf(Contains(p, c), g, b)
        BY <1>4, PresentForms, FormsDiffer, FormsNoNode
           DEF IsIssueOf, IsPullOf, IsBranchOf, IsLinkOf, IsPartOf, IsCommitOf
    <2> QED BY <1>4, <2>1, Forms DEF IsPartOf, log
<1> QED BY <1>1, <1>2, <1>3, <1>4 DEF OfCommit

LEMMA SaysTheSame ==
    ASSUME NEW g \in Repository, NEW b \in Branches, NEW S \in SUBSET Present(g, b)
    PROVE  /\ \A i, s : StateIs(i, s) \in S => s = StateOf(g, i)
           /\ \A d, c : HeadIs(d, c) \in S => c = g.head[d]
           /\ \A t, p, i : LinkIs(t, p, i) \in S => LinkIs(t, p, i) \in LinksOf(p, g.text[p])
<1>1. ASSUME NEW i, NEW s, StateIs(i, s) \in S PROVE s = StateOf(g, i)
    <2>1. IsIssueOf(StateIs(i, s), g)
        BY <1>1, PresentForms, FormsDiffer, FormsNoNode
           DEF IsIssueOf, IsPullOf, IsBranchOf, IsLinkOf, IsPartOf, IsCommitOf
    <2> QED BY <2>1, Forms, FormsNoNode DEF IsIssueOf
<1>2. ASSUME NEW d, NEW c, HeadIs(d, c) \in S PROVE c = g.head[d]
    <2>1. IsBranchOf(HeadIs(d, c), g)
        BY <1>2, PresentForms, FormsDiffer, FormsNoNode
           DEF IsIssueOf, IsPullOf, IsBranchOf, IsLinkOf, IsPartOf, IsCommitOf
    <2> QED BY <2>1, Forms, FormsNoNode DEF IsBranchOf
<1>3. ASSUME NEW t, NEW p, NEW i, LinkIs(t, p, i) \in S
      PROVE  LinkIs(t, p, i) \in LinksOf(p, g.text[p])
    <2>1. IsLinkOf(LinkIs(t, p, i), g)
        BY <1>3, PresentForms, FormsDiffer, FormsNoNode
           DEF IsIssueOf, IsPullOf, IsBranchOf, IsLinkOf, IsPartOf, IsCommitOf
    <2> QED BY <2>1, Forms DEF IsLinkOf
<1> QED BY <1>1, <1>2, <1>3

\* What moved is not needed any more.
LEMMA Untouched ==
    ASSUME NEW S, NEW ns, \A x \in S : ~Touches(x, ns)
    PROVE  /\ \A i \in Issues : OfIssue(S, i) => Node("Issue", i) \notin ns
           /\ \A c \in Commits : OfCommit(S, c) => Node("Commit", c) \notin ns
<1>1. \A t, a, x, b, y : Relation(t, a, x, b, y) \in S =>
          Node(a, x) \notin ns /\ Node(b, y) \notin ns
    <2> SUFFICES ASSUME NEW t, NEW a, NEW x, NEW b, NEW y, Relation(t, a, x, b, y) \in S
                 PROVE  Node(a, x) \notin ns /\ Node(b, y) \notin ns
        OBVIOUS
    <2>1. Len(Relation(t, a, x, b, y)) = 3 /\ Relation(t, a, x, b, y)[2] = Node(a, x)
          /\ Relation(t, a, x, b, y)[3] = Node(b, y)
        BY DEF Relation
    <2>2. ~Touches(Relation(t, a, x, b, y), ns)
        OBVIOUS
    <2> HIDE DEF Relation
    <2> QED BY <2>1, <2>2 DEF Touches
<1>2. \A a, x : Node(a, x) \in S => Node(a, x) \notin ns
    BY DEF Touches
<1> QED BY <1>1, <1>2 DEF OfIssue, OfCommit, StateIs, LinkIs, ParentIs, ChangeIs, Contains

\* Less to store needs less.
LEMMA NeedsLess ==
    ASSUME NEW S, NEW R, R \subseteq S
    PROVE  /\ \A i \in Issues : OfIssue(R, i) => OfIssue(S, i)
           /\ \A p \in Pulls : OfPull(R, p) => OfPull(S, p)
           /\ \A c \in Commits : OfCommit(R, c) => OfCommit(S, c)
<1>1. \A i \in Issues : OfIssue(R, i) => OfIssue(S, i)
    BY DEF OfIssue
<1>2. \A p \in Pulls : OfPull(R, p) => OfPull(S, p)
    BY DEF OfPull
<1>3. \A c \in Commits : OfCommit(R, c) => OfCommit(S, c)
    BY DEF OfCommit
<1> QED BY <1>1, <1>2, <1>3

-----------------------------------------------------------------------------
(* The requests *)

LEMMA FirstPage ==
    ASSUME NEW x, x.page = 1, NEW T, NEW list \in Seq(T), NEW c \in SeqSet(list)
    PROVE  Coming(x, list, c)
<1>1. PICK n \in DOMAIN list : list[n] = c
    BY DEF SeqSet
<1>2. n \in Nat /\ 0 < n
    BY <1>1
<1>3. (1 - 1) * PageSize = 0
    BY ImportAssumption
<1> QED BY <1>1, <1>2, <1>3 DEF Coming, After

\* The parts of Reading that a request for issues, or one that comes after them, leaves
\* as they were.
LEMMA HeadsStay ==
    ASSUME NEW x, NEW y, NEW S, HeadsRead(x, S), x.pc # "branches",
           y.doc.heads = x.doc.heads
    PROVE  HeadsRead(y, S)
BY DEF HeadsRead

LEMMA AgreesStay ==
    ASSUME NEW x, NEW y, NEW S, Agrees(x, S), y.doc.issues = x.doc.issues, y.doc.pulls = x.doc.pulls
    PROVE  Agrees(y, S)
BY DEF Agrees

\* Everything that is true of an import that is reading, of plain values.
ReadsFrom(x, S, g, b) ==
    /\ g \in Repository /\ b \in Branches /\ x.branch = b /\ S \subseteq Present(g, b)
    /\ DOMAIN x = Fields /\ DOMAIN x.doc = DocFields
    /\ x.doc.issues \in [Issues -> States] /\ x.page \in Nat \ {0}
    /\ x.todo \in Seq(Numbers \cup Commits)
    /\ Reading(x, S, g)

LEMMA ReadsFromGives ==
    ASSUME NEW x, NEW S, NEW g, NEW b, ReadsFrom(x, S, g, b)
    PROVE  /\ \A i \in Issues : OfIssue(S, i) => i \in IssuesOf(g)
           /\ \A p \in Pulls : OfPull(S, p) => p \in PullsOf(g)
           /\ \A c \in Commits : OfCommit(S, c) => c \in SeqSet(Log[g.head[b]])
           /\ \A i, s : StateIs(i, s) \in S => s = StateOf(g, i)
           /\ \A d, c : HeadIs(d, c) \in S => c = g.head[d]
           /\ \A t, p, i : LinkIs(t, p, i) \in S => LinkIs(t, p, i) \in LinksOf(p, g.text[p])
<1>1. g \in Repository /\ b \in Branches /\ S \in SUBSET Present(g, b)
    BY DEF ReadsFrom
<1> QED BY <1>1, NeedsIssue, NeedsPull, NeedsCommit, SaysTheSame

LEMMA BranchesRead ==
    ASSUME NEW x, NEW y, NEW S, NEW g, NEW b, ReadsFrom(x, S, g, b),
           x.pc = "branches", y.pc = "issues", y.page = x.page, y.todo = x.todo, y.op = x.op,
           y.doc = [x.doc EXCEPT !.heads = {<<d, g.head[d]>> : d \in Branches}]
    PROVE  Reading(y, S, g)
<1>0. Reading(x, S, g) /\ Position(x) /\ Agrees(x, S) /\ DOMAIN x.doc = DocFields
    BY DEF ReadsFrom, Reading
<1>1. /\ y.doc.issues = x.doc.issues /\ y.doc.pulls = x.doc.pulls
      /\ y.doc.heads = {<<d, g.head[d]>> : d \in Branches}
    BY <1>0 DEF DocFields
<1>2. HeadsRead(y, S)
    <2>1. \A d \in Branches, c \in Commits : HeadIs(d, c) \in S => <<d, c>> \in y.doc.heads
        BY <1>1, ReadsFromGives
    <2>2. ASSUME NEW d \in Branches PROVE \E h \in y.doc.heads : h[1] = d
        <3>1. <<d, g.head[d]>> \in y.doc.heads /\ <<d, g.head[d]>>[1] = d
            BY <1>1
        <3> QED BY <3>1
    <2> QED BY <2>1, <2>2 DEF HeadsRead
<1>3. y.page = 1
    BY <1>0 DEF Position
<1>4. ASSUME NEW i \in Issues, OfIssue(S, i) PROVE IssueRead(y, S, g, i)
    <2>1. i \in SeqSet(g.items) /\ g.items \in Seq(Numbers)
        BY <1>4, ReadsFromGives DEF IssuesOf, ReadsFrom, Repository
    <2>2. Coming(y, g.items, i)
        BY <1>3, <2>1, FirstPage
    <2> QED BY <2>2 DEF IssueRead
<1>5. \A p \in Pulls : PullRead(y, S, g, p)
    BY DEF PullRead, BeforePulls, PullPhases
<1>6. \A c \in Commits : CommitRead(y, S, g, c)
    BY DEF CommitRead, BeforeCommits, BeforePulls, PullPhases
<1>7. Position(y)
    BY <1>0 DEF Position
<1> QED BY <1>0, <1>1, <1>2, <1>4, <1>5, <1>6, <1>7, AgreesStay DEF Reading

LEMMA IssuesListed ==
    ASSUME NEW x, NEW y, NEW S, NEW g, NEW b, ReadsFrom(x, S, g, b),
           x.pc = "issues", y.pc \in {"issues", "issue"}, y.pc = "issue" => y.page = 1,
           y.op = x.op, y.doc = x.doc,
           \A i \in Issues : Coming(x, g.items, i) =>
                /\ y.pc = "issues" => Coming(y, g.items, i)
                /\ y.pc = "issue" => i \in SeqSet(y.todo)
    PROVE  Reading(y, S, g)
<1>0. Reading(x, S, g) /\ Position(x) /\ Agrees(x, S) /\ HeadsRead(x, S)
    BY DEF ReadsFrom, Reading
<1>1. HeadsRead(y, S) /\ Agrees(y, S)
    BY <1>0, HeadsStay, AgreesStay
<1>2. ASSUME NEW i \in Issues, OfIssue(S, i) PROVE IssueRead(y, S, g, i)
    BY <1>0, <1>2 DEF Reading, IssueRead
<1>3. \A p \in Pulls : PullRead(y, S, g, p)
    BY DEF PullRead, BeforePulls, PullPhases
<1>4. \A c \in Commits : CommitRead(y, S, g, c)
    BY DEF CommitRead, BeforeCommits, BeforePulls, PullPhases
<1>5. Position(y)
    BY <1>0 DEF Position
<1> QED BY <1>1, <1>2, <1>3, <1>4, <1>5 DEF Reading

LEMMA IssueGot ==
    ASSUME NEW x, NEW y, NEW S, NEW g, NEW b, ReadsFrom(x, S, g, b),
           x.pc = "issue", x.todo # <<>>, y.pc = x.pc, y.page = x.page, y.op = x.op,
           Head(x.todo) \in Issues,
           y.todo = Tail(x.todo), y.doc.heads = x.doc.heads, y.doc.pulls = x.doc.pulls,
           y.doc.issues = [x.doc.issues EXCEPT ![Head(x.todo)] = StateOf(g, Head(x.todo))]
    PROVE  Reading(y, S, g)
<1> DEFINE h == Head(x.todo)
<1>0. /\ Reading(x, S, g) /\ Position(x) /\ Agrees(x, S) /\ HeadsRead(x, S)
      /\ x.doc.issues \in [Issues -> States] /\ x.todo \in Seq(Numbers \cup Commits)
    BY DEF ReadsFrom, Reading
<1>1. HeadsRead(y, S)
    BY <1>0, HeadsStay
<1>2. SeqSet(x.todo) = {h} \cup SeqSet(y.todo)
    BY <1>0, FirstOrLater
<1> HIDE DEF h
<1>3. /\ \A i \in Issues : i # h => y.doc.issues[i] = x.doc.issues[i]
      /\ y.doc.issues[h] = StateOf(g, h)
    BY <1>0 DEF h
<1>4. StateOf(g, h) # None
    BY ImportAssumption DEF StateOf
<1>5. ASSUME NEW i \in Issues, OfIssue(S, i) PROVE IssueRead(y, S, g, i)
    <2>1. IssueRead(x, S, g, i)
        BY <1>0, <1>5 DEF Reading
    <2> QED BY <1>2, <1>3, <1>4, <2>1 DEF IssueRead
<1>6. Agrees(y, S)
    <2>1. ASSUME NEW i \in Issues, NEW s \in States, StateIs(i, s) \in S, y.doc.issues[i] # None
          PROVE  y.doc.issues[i] = s
        <3>1. CASE i = h
            BY <1>3, <2>1, <3>1, ReadsFromGives
        <3>2. CASE i # h
            BY <1>0, <1>3, <2>1, <3>2 DEF Agrees
        <3> QED BY <3>1, <3>2
    <2> QED BY <1>0, <2>1 DEF Agrees
<1>7. \A p \in Pulls : PullRead(y, S, g, p)
    BY DEF PullRead, BeforePulls, PullPhases
<1>8. \A c \in Commits : CommitRead(y, S, g, c)
    BY DEF CommitRead, BeforeCommits, BeforePulls, PullPhases
<1>9. Position(y)
    BY <1>0 DEF Position
<1> QED BY <1>1, <1>5, <1>6, <1>7, <1>8, <1>9 DEF Reading

LEMMA NoneLeft == SeqSet(<<>>) = {}
BY DEF SeqSet

LEMMA PullsInList ==
    ASSUME NEW g \in Repository
    PROVE  /\ OnlyIn(g.items, Pulls) \in Seq(Numbers)
           /\ SeqSet(OnlyIn(g.items, Pulls)) = SeqSet(g.items) \cap Pulls
<1>1. g.items \in Seq(Numbers)
    BY DEF Repository
<1> QED BY <1>1, OnlyInSet

LEMMA PullsListedOn ==
    ASSUME NEW x, NEW y, NEW S, NEW g, NEW b, ReadsFrom(x, S, g, b),
           x.pc = "pulls" \/ (x.pc = "issue" /\ x.todo = <<>>),
           y.pc \in {"pulls", "pull"}, y.pc = "pull" => y.page = 1,
           y.op = x.op, y.doc = x.doc,
           \A p \in Pulls : Coming(x, OnlyIn(g.items, Pulls), p) =>
                /\ y.pc = "pulls" => Coming(y, OnlyIn(g.items, Pulls), p)
                /\ y.pc = "pull" => p \in SeqSet(y.todo)
    PROVE  Reading(y, S, g)
<1>0. Reading(x, S, g) /\ Position(x) /\ Agrees(x, S) /\ HeadsRead(x, S)
    BY DEF ReadsFrom, Reading
<1>1. HeadsRead(y, S) /\ Agrees(y, S)
    BY <1>0, HeadsStay, AgreesStay
<1>2. ASSUME NEW i \in Issues, OfIssue(S, i) PROVE IssueRead(y, S, g, i)
    <2>1. IssueRead(x, S, g, i)
        BY <1>0, <1>2 DEF Reading
    <2> QED BY <2>1, NoneLeft DEF IssueRead
<1>3. ASSUME NEW p \in Pulls, OfPull(S, p) PROVE PullRead(y, S, g, p)
    <2> DEFINE list == OnlyIn(g.items, Pulls)
    <2>1. Coming(x, list, p)
        <3>1. CASE x.pc = "pulls"
            BY <1>0, <1>3, <3>1 DEF Reading, PullRead
        <3>2. CASE x.pc = "issue"
            <4>1. x.page = 1
                BY <1>0, <3>2 DEF Position
            <4>0. g \in Repository
                BY DEF ReadsFrom
            <4>2. g.items \in Seq(Numbers) /\ p \in SeqSet(g.items)
                BY <1>3, ReadsFromGives DEF ReadsFrom, Repository, PullsOf
            <4>3. list \in Seq(Numbers) /\ p \in SeqSet(list)
                <5>1. g.items \in Seq(Numbers)
                    BY <4>2
                <5>2. list \in Seq(Numbers) /\ SeqSet(list) = SeqSet(g.items) \cap Pulls
                    BY <4>0, PullsInList
                <5> QED BY <4>2, <5>2
            <4> HIDE DEF list
            <4> QED BY <4>1, <4>3, FirstPage
        <3> QED BY <3>1, <3>2
    <2> QED BY <2>1 DEF PullRead, PullPhases, BeforePulls
<1>4. \A c \in Commits : CommitRead(y, S, g, c)
    BY DEF CommitRead, BeforeCommits, BeforePulls, PullPhases
<1>5. Position(y)
    BY <1>0 DEF Position
<1> QED BY <1>1, <1>2, <1>3, <1>4, <1>5 DEF Reading

\* A phase that reads one pull request keeps what is known of issues, and commits are
\* not read yet.
LEMMA InPullPhases ==
    ASSUME NEW x, NEW y, NEW S, NEW g, NEW b, ReadsFrom(x, S, g, b),
           x.pc \in PullPhases, y.pc \in PullPhases, y.page = x.page, y.op = x.op,
           y.doc.heads = x.doc.heads, y.doc.issues = x.doc.issues,
           Agrees(y, S), Position(y),
           \A p \in Pulls : OfPull(S, p) =>
               p \in SeqSet(y.todo) \/ (HasPull(y.doc, p) /\ HasCommits(y.doc, p))
    PROVE  Reading(y, S, g)
<1>0. Reading(x, S, g) /\ HeadsRead(x, S)
    BY DEF ReadsFrom, Reading
<1>1. HeadsRead(y, S)
    BY <1>0, HeadsStay DEF PullPhases
<1>2. ASSUME NEW i \in Issues, OfIssue(S, i) PROVE IssueRead(y, S, g, i)
    BY <1>0, <1>2 DEF Reading, IssueRead, PullPhases
<1>3. ASSUME NEW p \in Pulls, OfPull(S, p) PROVE PullRead(y, S, g, p)
    BY <1>3 DEF PullRead, PullPhases
<1>4. \A c \in Commits : CommitRead(y, S, g, c)
    BY DEF CommitRead, BeforeCommits, PullPhases
<1> QED BY <1>1, <1>2, <1>3, <1>4 DEF Reading

LEMMA PullGot ==
    ASSUME NEW x, NEW y, NEW S, NEW g, NEW b, ReadsFrom(x, S, g, b),
           x.pc = "pull", x.todo # <<>>, y.pc = "pull_commits", y.page = x.page, y.op = x.op,
           y.todo = x.todo, NEW pull,
           pull.number = Head(x.todo), pull.text = g.text[Head(x.todo)],
           y.doc = [x.doc EXCEPT !.pulls = @ \cup {pull}]
    PROVE  Reading(y, S, g)
<1>0. Reading(x, S, g) /\ Position(x) /\ Agrees(x, S) /\ DOMAIN x.doc = DocFields
    BY DEF ReadsFrom, Reading
<1>1. /\ y.doc.heads = x.doc.heads /\ y.doc.issues = x.doc.issues
      /\ y.doc.contains = x.doc.contains /\ y.doc.pulls = x.doc.pulls \cup {pull}
    BY <1>0 DEF DocFields
<1>2. Agrees(y, S)
    BY <1>0, <1>1, ReadsFromGives DEF Agrees
<1>3. Position(y)
    BY <1>0, <1>1 DEF Position, HasPull
<1>4. ASSUME NEW p \in Pulls, OfPull(S, p)
      PROVE  p \in SeqSet(y.todo) \/ (HasPull(y.doc, p) /\ HasCommits(y.doc, p))
    <2>1. PullRead(x, S, g, p)
        BY <1>0, <1>4 DEF Reading
    <2> QED BY <1>1, <2>1 DEF PullRead, PullPhases, HasPull, HasCommits
<1> QED BY <1>1, <1>2, <1>3, <1>4, InPullPhases DEF PullPhases

LEMMA PullCommitsGot ==
    ASSUME NEW x, NEW y, NEW S, NEW g, NEW b, ReadsFrom(x, S, g, b),
           x.pc = "pull_commits", y.pc = "pull_files", y.page = x.page, y.op = x.op,
           y.todo = x.todo,
           y.doc = [x.doc EXCEPT !.contains =
                       @ \cup {<<Head(x.todo), c>> : c \in SeqSet(PullCommits[Head(x.todo)])}]
    PROVE  Reading(y, S, g)
<1>0. Reading(x, S, g) /\ Position(x) /\ Agrees(x, S) /\ DOMAIN x.doc = DocFields
    BY DEF ReadsFrom, Reading
<1> DEFINE h == Head(x.todo)
<1>1. /\ y.doc.heads = x.doc.heads /\ y.doc.issues = x.doc.issues
      /\ y.doc.contains = x.doc.contains \cup {<<h, c>> : c \in SeqSet(PullCommits[h])}
      /\ y.doc.pulls = x.doc.pulls
    BY <1>0 DEF DocFields
<1>2. Agrees(y, S)
    BY <1>0, <1>1, AgreesStay
<1>3. Position(y)
    <2>1. HasPull(x.doc, h) /\ x.todo # <<>> /\ x.page = 1 /\ x.op = 1
        BY <1>0 DEF Position
    <2>2. HasCommits(y.doc, h)
        BY <1>1 DEF HasCommits
    <2> QED BY <1>0, <1>1, <2>1, <2>2 DEF Position, HasPull
<1>4. ASSUME NEW p \in Pulls, OfPull(S, p)
      PROVE  p \in SeqSet(y.todo) \/ (HasPull(y.doc, p) /\ HasCommits(y.doc, p))
    <2>1. PullRead(x, S, g, p)
        BY <1>0, <1>4 DEF Reading
    <2> QED BY <1>1, <2>1 DEF PullRead, PullPhases, HasPull, HasCommits
<1> QED BY <1>1, <1>2, <1>3, <1>4, InPullPhases DEF PullPhases

LEMMA PullFilesGot ==
    ASSUME NEW x, NEW y, NEW S, NEW g, NEW b, ReadsFrom(x, S, g, b),
           x.pc = "pull_files", y.pc = "pull", y.page = x.page, y.op = x.op,
           y.todo = Tail(x.todo), y.doc.heads = x.doc.heads, y.doc.issues = x.doc.issues,
           y.doc.contains = x.doc.contains, y.doc.pulls = x.doc.pulls
    PROVE  Reading(y, S, g)
<1>0. /\ Reading(x, S, g) /\ Position(x) /\ Agrees(x, S)
      /\ x.todo \in Seq(Numbers \cup Commits)
    BY DEF ReadsFrom, Reading
<1>1. /\ x.todo # <<>> /\ HasPull(x.doc, Head(x.todo)) /\ HasCommits(x.doc, Head(x.todo))
      /\ x.page = 1 /\ x.op = 1
    BY <1>0 DEF Position
<1>2. Agrees(y, S) /\ Position(y)
    BY <1>0, <1>1, AgreesStay DEF Position
<1>3. SeqSet(x.todo) = {Head(x.todo)} \cup SeqSet(y.todo)
    BY <1>0, <1>1, FirstOrLater
<1>4. ASSUME NEW p \in Pulls, OfPull(S, p)
      PROVE  p \in SeqSet(y.todo) \/ (HasPull(y.doc, p) /\ HasCommits(y.doc, p))
    <2>1. PullRead(x, S, g, p)
        BY <1>0, <1>4 DEF Reading
    <2>2. p \in SeqSet(x.todo) \/ (HasPull(x.doc, p) /\ HasCommits(x.doc, p))
        BY <2>1 DEF PullRead, PullPhases
    <2>3. \A q : HasPull(x.doc, q) => HasPull(y.doc, q)
        BY DEF HasPull
    <2>4. \A q : HasCommits(x.doc, q) => HasCommits(y.doc, q)
        BY DEF HasCommits
    <2> QED BY <1>1, <1>3, <2>2, <2>3, <2>4
<1> QED BY <1>2, <1>4, InPullPhases DEF PullPhases

\* After the pull requests: what is known of them and of the issues stays.
LEMMA AfterPulls ==
    ASSUME NEW x, NEW y, NEW S, NEW g, NEW b, ReadsFrom(x, S, g, b),
           \/ x.pc = "pull" /\ x.todo = <<>>
           \/ x.pc \notin BeforeCommits,
           y.pc \notin BeforeCommits,
           y.doc.heads = x.doc.heads, y.doc.issues = x.doc.issues,
           y.doc.contains = x.doc.contains, y.doc.pulls = x.doc.pulls
    PROVE  /\ HeadsRead(y, S) /\ Agrees(y, S)
           /\ \A i \in Issues : OfIssue(S, i) => IssueRead(y, S, g, i)
           /\ \A p \in Pulls : OfPull(S, p) => PullRead(y, S, g, p)
<1> USE DEF BeforeCommits, BeforePulls, PullPhases
<1>0. Reading(x, S, g) /\ HeadsRead(x, S) /\ Agrees(x, S)
    BY DEF ReadsFrom, Reading
<1>1. HeadsRead(y, S) /\ Agrees(y, S)
    BY <1>0, HeadsStay, AgreesStay
<1>2. ASSUME NEW i \in Issues, OfIssue(S, i) PROVE IssueRead(y, S, g, i)
    BY <1>0, <1>2 DEF Reading, IssueRead
<1>3. ASSUME NEW p \in Pulls, OfPull(S, p) PROVE PullRead(y, S, g, p)
    <2>1. PullRead(x, S, g, p)
        BY <1>0, <1>3 DEF Reading
    <2>2. HasPull(x.doc, p) /\ HasCommits(x.doc, p)
        BY <2>1, NoneLeft DEF PullRead
    <2>3. HasPull(y.doc, p) /\ HasCommits(y.doc, p)
        BY <2>2 DEF HasPull, HasCommits
    <2> QED BY <2>3 DEF PullRead
<1> QED BY <1>1, <1>2, <1>3

LEMMA CommitsListed ==
    ASSUME NEW x, NEW y, NEW S, NEW g, NEW b, ReadsFrom(x, S, g, b),
           x.pc = "commits" \/ (x.pc = "pull" /\ x.todo = <<>>),
           y.pc \in {"commits", "commit"}, y.pc = "commit" => y.page = 1,
           y.op = x.op, y.doc = x.doc, y.branch = b,
           \A c \in Commits : Coming(x, Log[g.head[b]], c) =>
                /\ y.pc = "commits" => Coming(y, Log[g.head[b]], c)
                /\ y.pc = "commit" => c \in SeqSet(y.todo)
    PROVE  Reading(y, S, g)
<1>0. Reading(x, S, g) /\ Position(x) /\ x.branch = b
    BY DEF ReadsFrom, Reading
<1>1. ASSUME NEW c \in Commits, OfCommit(S, c) PROVE CommitRead(y, S, g, c)
    <2> DEFINE list == Log[g.head[b]]
    <2>1. Coming(x, list, c)
        <3>1. CASE x.pc = "commits"
            BY <1>0, <1>1, <3>1 DEF Reading, CommitRead
        <3>2. CASE x.pc = "pull"
            <4>1. x.page = 1
                BY <1>0, <3>2 DEF Position
            <4>2. c \in SeqSet(list)
                BY <1>1, ReadsFromGives
            <4>3. list \in Seq(Commits)
                BY ImportAssumption DEF ReadsFrom, Repository
            <4> HIDE DEF list
            <4> QED BY <4>1, <4>2, <4>3, FirstPage
        <3> QED BY <3>1, <3>2
    <2> QED BY <2>1 DEF CommitRead, BeforeCommits
<1>2. Position(y)
    BY <1>0 DEF Position
<1>3. /\ x.pc \notin BeforeCommits \/ (x.pc = "pull" /\ x.todo = <<>>)
      /\ y.pc \notin BeforeCommits
    BY DEF BeforeCommits, BeforePulls, PullPhases
<1> QED BY <1>1, <1>2, <1>3, AfterPulls DEF Reading

LEMMA CommitGot ==
    ASSUME NEW x, NEW y, NEW S, NEW g, NEW b, ReadsFrom(x, S, g, b),
           x.pc = "commit", x.todo # <<>>, y.pc = x.pc, y.page = x.page, y.op = x.op,
           y.todo = Tail(x.todo), y.doc = [x.doc EXCEPT !.commits = @ \cup {Head(x.todo)}]
    PROVE  Reading(y, S, g)
<1>0. /\ Reading(x, S, g) /\ Position(x) /\ DOMAIN x.doc = DocFields
      /\ x.todo \in Seq(Numbers \cup Commits)
    BY DEF ReadsFrom, Reading
<1>1. /\ y.doc.heads = x.doc.heads /\ y.doc.issues = x.doc.issues
      /\ y.doc.contains = x.doc.contains /\ y.doc.pulls = x.doc.pulls
      /\ y.doc.commits = x.doc.commits \cup {Head(x.todo)}
    BY <1>0 DEF DocFields
<1>2. SeqSet(x.todo) = {Head(x.todo)} \cup SeqSet(y.todo)
    BY <1>0, FirstOrLater
<1>3. ASSUME NEW c \in Commits, OfCommit(S, c) PROVE CommitRead(y, S, g, c)
    <2>1. CommitRead(x, S, g, c)
        BY <1>0, <1>3 DEF Reading
    <2> QED BY <1>1, <1>2, <2>1 DEF CommitRead
<1>4. Position(y)
    BY <1>0 DEF Position
<1>5. x.pc \notin BeforeCommits /\ y.pc \notin BeforeCommits
    BY DEF BeforeCommits, BeforePulls, PullPhases
<1> QED BY <1>1, <1>3, <1>4, <1>5, AfterPulls DEF Reading

\* The transaction and the statements leave the document alone.
LEMMA CommitsGot ==
    ASSUME NEW x, NEW y, NEW S, NEW g, NEW b, ReadsFrom(x, S, g, b),
           (x.pc = "commit" /\ x.todo = <<>>) \/ x.pc \in Upserting \cup {"save"},
           y.pc \in Upserting \cup {"save"}, y.page = x.page,
           y.doc = x.doc, y.op \in 1..Len(Operations), y.pc = "save" \/ y.op = 1
    PROVE  Reading(y, S, g)
<1>0. Reading(x, S, g) /\ Position(x)
    BY DEF ReadsFrom, Reading
<1>1. ASSUME NEW c \in Commits, OfCommit(S, c) PROVE CommitRead(y, S, g, c)
    <2>1. CommitRead(x, S, g, c)
        BY <1>0, <1>1 DEF Reading
    <2>2. c \in x.doc.commits
        BY <2>1, NoneLeft DEF CommitRead, Upserting, BeforeCommits, BeforePulls, PullPhases
    <2> QED BY <2>2 DEF CommitRead, Upserting
<1>2. Position(y)
    BY <1>0 DEF Position, Upserting
<1>3. x.pc \notin BeforeCommits /\ y.pc \notin BeforeCommits
    BY DEF BeforeCommits, BeforePulls, PullPhases, Upserting
<1> QED BY <1>1, <1>2, <1>3, AfterPulls DEF Reading

\* One request, whichever it is.
LEMMA CollectReads ==
    ASSUME TableInv, TypesInv, NEW j \in Imports, StoringOf(j), Collect(j)
    PROVE  /\ job'[j].todo \in Seq(Numbers \cup Commits)
           /\ Reading(job'[j], steady[j], github)
<1> DEFINE x == job[j]
           y == job'[j]
           S == steady[j]
           b == job[j].branch
           U == Numbers \cup Commits
<1>0. DOMAIN job = Imports /\ DOMAIN x = Fields /\ DOMAIN x.doc = DocFields
    BY DEF TableInv, JobShape, TypesInv
<1>1. ReadsFrom(x, S, github, b)
    <2>1. x.pc \notin Ended
        BY CollectTyped
    <2> QED BY <1>0, <2>1 DEF ReadsFrom, StoringOf, TypesInv
<1>2. /\ x.todo \in Seq(U) /\ x.page \in Nat \ {0}
      /\ github \in Repository /\ github.items \in Seq(Numbers) /\ github.head[b] \in Commits
      /\ Log[github.head[b]] \in Seq(Commits)
    <2>1. /\ x.todo \in Seq(U) /\ x.page \in Nat \ {0} /\ github \in Repository /\ b \in Branches
        BY <1>1 DEF ReadsFrom
    <2>2. github.items \in Seq(Numbers) /\ github.head[b] \in Commits
        BY <2>1 DEF Repository
    <2> QED BY <2>1, <2>2, ImportAssumption
<1>3. CASE ListBranches(j)
    <2>1. /\ x.pc = "branches" /\ y.pc = "issues" /\ y.page = x.page /\ y.todo = x.todo
          /\ y.op = x.op
          /\ y.doc = [x.doc EXCEPT !.heads = {<<d, github.head[d]>> : d \in Branches}]
        BY <1>0, <1>3 DEF ListBranches, Fields
    <2> HIDE DEF x, y, S, b, U
    <2>2. Reading(y, S, github)
        BY <1>1, <2>1, BranchesRead
    <2> QED BY <1>2, <2>1, <2>2 DEF U, y, S
<1>4. CASE ListIssues(j)
    <2>1. x.pc = "issues" /\ Reads(j, github.items, Issues, "issues", "issue")
        BY <1>4 DEF ListIssues
    <2>2. Numbers \in SUBSET U /\ "issues" # "issue"
        OBVIOUS
    <2>3. /\ y.todo \in Seq(U)
          /\ y.pc \in {"issues", "issue"} /\ (y.pc = "issue" => y.page = 1)
          /\ \A z \in Fields \ {"pc", "page", "todo"} : y[z] = x[z]
          /\ \A i \in Issues : Coming(x, github.items, i) =>
                /\ y.pc = "issues" => Coming(y, github.items, i)
                /\ y.pc = "issue" => i \in SeqSet(y.todo)
        <3> HIDE DEF U
        <3> QED BY <1>0, <1>2, <2>1, <2>2, ReadsOn
    <2>4. y.op = x.op /\ y.doc = x.doc
        <3> HIDE DEF x, y
        <3> QED BY <2>3 DEF Fields
    <2> HIDE DEF x, y, S, b, U
    <2>5. Reading(y, S, github)
        BY <1>1, <2>1, <2>3, <2>4, IssuesListed
    <2> QED BY <2>3, <2>5 DEF U, y, S
<1>5. CASE GetIssue(j)
    <2> DEFINE i == Head(x.todo)
    <2>1. /\ x.pc = "issue" /\ x.todo # <<>> /\ i \in Issues
          /\ job' = [job EXCEPT ![j].todo = Tail(@), ![j].doc.issues[i] = StateOf(github, i)]
        BY <1>5 DEF GetIssue, IssuesOf
    <2> HIDE DEF i
    <2>2. /\ y.pc = x.pc /\ y.page = x.page /\ y.op = x.op /\ y.todo = Tail(x.todo)
          /\ y.doc = [x.doc EXCEPT !.issues = [@ EXCEPT ![i] = StateOf(github, i)]]
        BY <1>0, <2>1 DEF Fields
    <2>3. /\ y.doc.heads = x.doc.heads /\ y.doc.pulls = x.doc.pulls
          /\ y.doc.issues = [x.doc.issues EXCEPT ![i] = StateOf(github, i)]
        BY <1>0, <2>2 DEF DocFields
    <2> HIDE DEF x, y, S, b, U
    <2>4. y.todo \in Seq(U)
        BY <1>2, <2>1, <2>2, FirstOrLater
    <2>5. Reading(y, S, github)
        BY <1>1, <2>1, <2>2, <2>3, IssueGot DEF i
    <2> QED BY <2>4, <2>5 DEF U, y, S
<1>6. CASE ListPulls(j)
    <2> DEFINE list == OnlyIn(github.items, Pulls)
    <2>1. /\ x.pc = "pulls" \/ (x.pc = "issue" /\ x.todo = <<>>)
          /\ Reads(j, list, Pulls, "pulls", "pull")
        BY <1>6 DEF ListPulls, Finished
    <2>2. list \in Seq(Numbers)
        BY <1>2, OnlyInSet
    <2>3. Numbers \in SUBSET U /\ "pulls" # "pull"
        OBVIOUS
    <2>4. /\ y.todo \in Seq(U)
          /\ y.pc \in {"pulls", "pull"} /\ (y.pc = "pull" => y.page = 1)
          /\ \A z \in Fields \ {"pc", "page", "todo"} : y[z] = x[z]
          /\ \A p \in Pulls : Coming(x, list, p) =>
                /\ y.pc = "pulls" => Coming(y, list, p)
                /\ y.pc = "pull" => p \in SeqSet(y.todo)
        <3>1. Reads(j, list, Pulls, "pulls", "pull")
            BY <2>1
        <3>2. x.todo \in Seq(U) /\ x.page \in Nat \ {0}
            BY <1>2
        <3> HIDE DEF U, list
        <3> QED BY <1>0, <2>2, <2>3, <3>1, <3>2, ReadsOn
    <2>5. y.op = x.op /\ y.doc = x.doc
        <3> HIDE DEF x, y
        <3> QED BY <2>4 DEF Fields
    <2> HIDE DEF x, y, S, b, U
    <2>6. Reading(y, S, github)
        BY <1>1, <2>1, <2>4, <2>5, PullsListedOn
    <2> QED BY <2>4, <2>6 DEF U, y, S
<1>7. CASE GetPull(j)
    <2>1. PICK sha : /\ x.pc = "pull" /\ x.todo # <<>>
                     /\ job' = [job EXCEPT ![j].pc = "pull_commits",
                                   ![j].doc.pulls = @ \cup {[number |-> Head(x.todo),
                                                             text |-> github.text[Head(x.todo)],
                                                             merge_commit_sha |-> sha]}]
        BY <1>7 DEF GetPull
    <2> DEFINE pull == [number |-> Head(x.todo), text |-> github.text[Head(x.todo)],
                        merge_commit_sha |-> sha]
    <2>2. pull.number = Head(x.todo) /\ pull.text = github.text[Head(x.todo)]
        OBVIOUS
    <2> HIDE DEF pull
    <2>3. /\ y.pc = "pull_commits" /\ y.page = x.page /\ y.op = x.op /\ y.todo = x.todo
          /\ y.doc = [x.doc EXCEPT !.pulls = @ \cup {pull}]
        BY <1>0, <2>1 DEF Fields, pull
    <2> HIDE DEF x, y, S, b, U
    <2>4. Reading(y, S, github)
        BY <1>1, <2>1, <2>2, <2>3, PullGot
    <2> QED BY <1>2, <2>3, <2>4 DEF U, y, S
<1>8. CASE ListPullCommits(j)
    <2>1. /\ x.pc = "pull_commits" /\ y.pc = "pull_files" /\ y.page = x.page /\ y.op = x.op
          /\ y.todo = x.todo
          /\ y.doc = [x.doc EXCEPT !.contains =
                         @ \cup {<<Head(x.todo), c>> : c \in SeqSet(PullCommits[Head(x.todo)])}]
        BY <1>0, <1>8 DEF ListPullCommits, Fields
    <2> HIDE DEF x, y, S, b, U
    <2>2. Reading(y, S, github)
        BY <1>1, <2>1, PullCommitsGot
    <2> QED BY <1>2, <2>1, <2>2 DEF U, y, S
<1>9. CASE ListPullFiles(j)
    <2>1. PICK files : /\ x.pc = "pull_files" /\ y.pc = "pull" /\ y.page = x.page /\ y.op = x.op
                       /\ y.todo = Tail(x.todo) /\ y.doc = [x.doc EXCEPT !.changed = files]
        BY <1>0, <1>9 DEF ListPullFiles, Fields
    <2>2. /\ y.doc.heads = x.doc.heads /\ y.doc.issues = x.doc.issues
          /\ y.doc.contains = x.doc.contains /\ y.doc.pulls = x.doc.pulls
        BY <1>0, <2>1 DEF DocFields
    <2>3. x.todo # <<>>
        BY <1>1, <2>1 DEF ReadsFrom, Reading, Position
    <2> HIDE DEF x, y, S, b, U
    <2>4. y.todo \in Seq(U)
        BY <1>2, <2>1, <2>3, FirstOrLater
    <2>5. Reading(y, S, github)
        BY <1>1, <2>1, <2>2, PullFilesGot
    <2> QED BY <2>4, <2>5 DEF U, y, S
<1>10. CASE ListCommits(j)
    <2> DEFINE list == Log[github.head[b]]
    <2>1. /\ x.pc = "commits" \/ (x.pc = "pull" /\ x.todo = <<>>)
          /\ Reads(j, list, Commits, "commits", "commit")
        BY <1>10 DEF ListCommits, Finished
    <2>2. list \in Seq(Commits)
        BY <1>2
    <2>3. Commits \in SUBSET U /\ "commits" # "commit"
        OBVIOUS
    <2>4. /\ y.todo \in Seq(U)
          /\ y.pc \in {"commits", "commit"} /\ (y.pc = "commit" => y.page = 1)
          /\ \A z \in Fields \ {"pc", "page", "todo"} : y[z] = x[z]
          /\ \A c \in Commits : Coming(x, list, c) =>
                /\ y.pc = "commits" => Coming(y, list, c)
                /\ y.pc = "commit" => c \in SeqSet(y.todo)
        <3>1. Reads(j, list, Commits, "commits", "commit")
            BY <2>1
        <3>2. x.todo \in Seq(U) /\ x.page \in Nat \ {0}
            BY <1>2
        <3> HIDE DEF U, list
        <3> QED BY <1>0, <2>2, <2>3, <3>1, <3>2, ReadsOn
    <2>5. y.op = x.op /\ y.doc = x.doc /\ y.branch = x.branch
        <3> HIDE DEF x, y
        <3> QED BY <2>4 DEF Fields
    <2>6. y.branch = b
        BY <2>5
    <2> HIDE DEF x, y, S, b, U
    <2>7. Reading(y, S, github)
        BY <1>1, <2>1, <2>4, <2>5, <2>6, CommitsListed
    <2> QED BY <2>4, <2>7 DEF U, y, S
<1>11. CASE GetCommit(j)
    <2>1. /\ x.pc = "commit" /\ x.todo # <<>> /\ y.pc = x.pc /\ y.page = x.page /\ y.op = x.op
          /\ y.todo = Tail(x.todo)
          /\ y.doc = [x.doc EXCEPT !.commits = @ \cup {Head(x.todo)}]
        BY <1>0, <1>11 DEF GetCommit, Fields
    <2> HIDE DEF x, y, S, b, U
    <2>2. y.todo \in Seq(U)
        BY <1>2, <2>1, FirstOrLater
    <2>3. Reading(y, S, github)
        BY <1>1, <2>1, CommitGot
    <2> QED BY <2>2, <2>3 DEF U, y, S
<1> QED BY <1>3, <1>4, <1>5, <1>6, <1>7, <1>8, <1>9, <1>10, <1>11 DEF Collect

-----------------------------------------------------------------------------
(* The statements *)

Labels == {"Branch", "Issue", "PullRequest", "Commit", "File"}

Queries == {<<"Branch", "POINTS_TO", "Commit">>, <<"PullRequest", "CONTAINS_COMMIT", "Commit">>,
            <<"PullRequest", "RESOLVES", "Issue">>, <<"PullRequest", "REFERENCES", "Issue">>,
            <<"Commit", "PARENT", "Commit">>, <<"Commit", "CHANGED", "File">>}

\* What is mapped of a document that has everything.
LEMMA NodesMapped ==
    ASSUME NEW d
    PROVE  /\ \A h \in d.heads : /\ Node("Branch", h[1]) \in MappedNodes(d)
                                 /\ Node("Commit", h[2]) \in MappedNodes(d)
           /\ \A i \in Issues : d.issues[i] # None => Node("Issue", i) \in MappedNodes(d)
           /\ \A pull \in d.pulls : /\ Node("PullRequest", pull.number) \in MappedNodes(d)
                                    /\ \A c \in RelatedCommits(d, pull) : Node("Commit", c) \in MappedNodes(d)
           /\ \A c \in d.commits : /\ Node("Commit", c) \in MappedNodes(d)
                                   /\ \A q \in Parents[c] : Node("Commit", q) \in MappedNodes(d)
                                   /\ \A f \in SeqSet(Files[c]) : Node("File", f) \in MappedNodes(d)
           /\ \A n \in MappedNodes(d) : n[1] \in Labels
<1> DEFINE commits == {h[2] : h \in d.heads} \cup d.commits
                      \cup (UNION {RelatedCommits(d, pull) : pull \in d.pulls})
                      \cup (UNION {Parents[c] : c \in d.commits})
           files == {x[2] : x \in d.changed} \cup (UNION {SeqSet(Files[c]) : c \in d.commits})
           branches == {Node("Branch", h[1]) : h \in d.heads}
           issues == {Node("Issue", i) : i \in {n \in Issues : d.issues[n] # None}}
           pulls == {Node("PullRequest", pull.number) : pull \in d.pulls}
           ofCommits == {Node("Commit", c) : c \in commits}
           ofFiles == {Node("File", f) : f \in files}
<1>1. MappedNodes(d) = branches \cup issues \cup pulls \cup ofCommits \cup ofFiles
    BY DEF MappedNodes
<1>2. /\ \A h \in d.heads : h[2] \in commits
      /\ \A pull \in d.pulls : RelatedCommits(d, pull) \subseteq commits
      /\ \A c \in d.commits : c \in commits /\ Parents[c] \subseteq commits /\ SeqSet(Files[c]) \subseteq files
    OBVIOUS
<1>3. \A n \in branches \cup issues \cup pulls \cup ofCommits \cup ofFiles : n[1] \in Labels
    <2> HIDE DEF commits, files
    <2>1. \A a, x : Node(a, x)[1] = a
        BY DEF Node
    <2> QED BY <2>1 DEF Labels
<1> HIDE DEF commits, files
<1> QED BY <1>1, <1>2, <1>3

LEMMA RelationsMapped ==
    ASSUME NEW d
    PROVE  /\ \A h \in d.heads : HeadIs(h[1], h[2]) \in MappedRelations(d)
           /\ \A pull \in d.pulls : /\ LinksOf(pull.number, pull.text) \subseteq MappedRelations(d)
                                    /\ \A c \in RelatedCommits(d, pull) :
                                          Contains(pull.number, c) \in MappedRelations(d)
           /\ \A c \in d.commits : /\ \A q \in Parents[c] : ParentIs(c, q) \in MappedRelations(d)
                                   /\ \A f \in SeqSet(Files[c]) : ChangeIs(c, f) \in MappedRelations(d)
<1> DEFINE Heads == {Relation("POINTS_TO", "Branch", h[1], "Commit", h[2]) : h \in d.heads}
           Of(pull) == Containing(pull.number, RelatedCommits(d, pull))
                       \cup LinksOf(pull.number, pull.text)
           Changed == {Relation("CHANGED", "PullRequest", x[1], "File", x[2]) : x \in d.changed}
           With(c) == {Relation("PARENT", "Commit", c, "Commit", q) : q \in Parents[c]}
                      \cup {Relation("CHANGED", "Commit", c, "File", f) : f \in SeqSet(Files[c])}
<1>1. /\ \A h \in d.heads : HeadIs(h[1], h[2]) \in Heads
      /\ \A pull \in d.pulls : LinksOf(pull.number, pull.text) \subseteq Of(pull)
      /\ \A pull \in d.pulls : \A c \in RelatedCommits(d, pull) : Contains(pull.number, c) \in Of(pull)
      /\ \A c \in d.commits : \A q \in Parents[c] : ParentIs(c, q) \in With(c)
      /\ \A c \in d.commits : \A f \in SeqSet(Files[c]) : ChangeIs(c, f) \in With(c)
    BY DEF HeadIs, Contains, Containing, ParentIs, ChangeIs
<1>2. MappedRelations(d) = Heads \cup (UNION {Of(pull) : pull \in d.pulls}) \cup Changed
                           \cup (UNION {With(c) : c \in d.commits})
    BY DEF MappedRelations
<1> HIDE DEF Heads, Of, Changed, With
<1> QED BY <1>1, <1>2

\* A relationship that an import stores, with both of its ends.
Ready(y, d) ==
    /\ y \in MappedRelations(d) /\ Len(y) = 3 /\ y[1] # "STATE"
    /\ QueryOf(y) \in Queries
    /\ y[2] \in MappedNodes(d) /\ y[3] \in MappedNodes(d)

LEMMA ReadyIf ==
    ASSUME NEW d, NEW t, NEW a, NEW u, NEW c, NEW w, Relation(t, a, u, c, w) \in MappedRelations(d),
           t # "STATE", <<a, t, c>> \in Queries,
           Node(a, u) \in MappedNodes(d), Node(c, w) \in MappedNodes(d)
    PROVE  Ready(Relation(t, a, u, c, w), d)
<1> DEFINE r == Relation(t, a, u, c, w)
<1>1. Len(r) = 3 /\ r[1] = t /\ r[2] = Node(a, u) /\ r[3] = Node(c, w)
    BY DEF Relation
<1>2. Node(a, u)[1] = a /\ Node(c, w)[1] = c
    BY DEF Node
<1> HIDE DEF r
<1>3. QueryOf(r) = <<a, t, c>>
    BY <1>1, <1>2 DEF QueryOf
<1> HIDE DEF Queries
<1>4. Ready(r, d)
    BY <1>1, <1>3 DEF Ready, r
<1> QED BY <1>4 DEF r

\* When an import has read all, all that was there throughout is in its document.
LEMMA AllMapped ==
    ASSUME NEW x, NEW S, NEW g, NEW b, ReadsFrom(x, S, g, b), x.pc = "save", NEW y \in S
    PROVE  \/ \E i \in Issues, s \in States : /\ y = StateIs(i, s) /\ s # None /\ x.doc.issues[i] = s
                                              /\ Node("Issue", i) \in MappedNodes(x.doc)
           \/ \E a \in Labels : \E z : y = Node(a, z) /\ y \in MappedNodes(x.doc)
           \/ Ready(y, x.doc)
<1> DEFINE d == x.doc
<1>0. /\ g \in Repository /\ b \in Branches /\ S \in SUBSET Present(g, b)
      /\ Reading(x, S, g) /\ HeadsRead(x, S) /\ Agrees(x, S) /\ d.issues \in [Issues -> States]
    BY DEF ReadsFrom, Reading
<1>1. /\ \A i \in Issues : OfIssue(S, i) => d.issues[i] # None
      /\ \A p \in Pulls : OfPull(S, p) => HasPull(d, p) /\ HasCommits(d, p)
      /\ \A c \in Commits : OfCommit(S, c) => c \in d.commits
    BY <1>0 DEF Reading, IssueRead, PullRead, CommitRead, BeforeCommits, BeforePulls, PullPhases
<1>2. /\ IssuesOf(g) \subseteq Issues /\ PullsOf(g) \subseteq Pulls
      /\ SeqSet(Log[g.head[b]]) \subseteq Commits
    BY <1>0, ImportAssumption DEF IssuesOf, PullsOf, Repository, SeqSet
<1>3. CASE IsIssueOf(y, g)
    <2>1. PICK i \in IssuesOf(g) : y = Node("Issue", i) \/ y = StateIs(i, StateOf(g, i))
        BY <1>3 DEF IsIssueOf
    <2>2. i \in Issues /\ StateOf(g, i) \in States /\ StateOf(g, i) # None
        BY <1>2, ImportAssumption DEF StateOf, States
    <2>3. OfIssue(S, i)
        BY <2>1, <2>2 DEF OfIssue
    <2>4. d.issues[i] # None /\ Node("Issue", i) \in MappedNodes(d)
        BY <1>1, <2>2, <2>3, NodesMapped
    <2>5. CASE y = StateIs(i, StateOf(g, i))
        <3>1. d.issues[i] = StateOf(g, i)
            BY <1>0, <2>2, <2>4, <2>5 DEF Agrees
        <3> QED BY <2>2, <2>4, <2>5, <3>1
    <2> QED BY <2>1, <2>4, <2>5 DEF Labels
<1>4. CASE IsPullOf(y, g)
    <2>1. PICK p \in PullsOf(g) : y = Node("PullRequest", p)
        BY <1>4 DEF IsPullOf
    <2>2. HasPull(d, p)
        BY <1>1, <1>2, <2>1 DEF OfPull
    <2>3. Node("PullRequest", p) \in MappedNodes(d)
        BY <2>2, NodesMapped DEF HasPull
    <2> QED BY <2>1, <2>3 DEF Labels
<1>5. CASE IsBranchOf(y, g)
    <2>1. PICK e \in Branches : y = Node("Branch", e) \/ y = HeadIs(e, g.head[e])
        BY <1>5 DEF IsBranchOf
    <2>2. CASE y = Node("Branch", e)
        <3>1. PICK h \in d.heads : h[1] = e
            BY <1>0 DEF HeadsRead
        <3> QED BY <2>2, <3>1, NodesMapped DEF Labels
    <2>3. CASE y = HeadIs(e, g.head[e])
        <3>1. g.head[e] \in Commits
            BY <1>0 DEF Repository
        <3>2. <<e, g.head[e]>> \in d.heads
            BY <1>0, <2>3, <3>1 DEF HeadsRead
        <3>3. <<e, g.head[e]>>[1] = e /\ <<e, g.head[e]>>[2] = g.head[e]
            OBVIOUS
        <3>4. /\ y \in MappedRelations(d) /\ Node("Branch", e) \in MappedNodes(d)
              /\ Node("Commit", g.head[e]) \in MappedNodes(d)
            BY <2>3, <3>2, <3>3, NodesMapped, RelationsMapped
        <3>5. Ready(y, d)
            BY <2>3, <3>4, ReadyIf DEF HeadIs, Queries
        <3> QED BY <3>5
    <2> QED BY <2>1, <2>2, <2>3
<1>6. CASE IsLinkOf(y, g)
    <2>1. PICK p \in PullsOf(g), i \in IssuesOf(g), type \in LinkTypes : y = LinkIs(type, p, i)
        BY <1>6 DEF IsLinkOf
    <2>2. OfIssue(S, i) /\ OfPull(S, p) /\ p \in Pulls /\ i \in Issues
        BY <1>2, <2>1 DEF OfIssue, OfPull
    <2>3. Node("Issue", i) \in MappedNodes(d)
        BY <1>1, <2>2, NodesMapped
    <2>4. PICK pull \in d.pulls : pull.number = p
        BY <1>1, <2>2 DEF HasPull
    <2>5. y \in MappedRelations(d) /\ Node("PullRequest", p) \in MappedNodes(d)
        BY <1>0, <2>1, <2>2, <2>4, NodesMapped, RelationsMapped DEF Agrees
    <2>6. Ready(y, d)
        BY <2>1, <2>3, <2>5, ReadyIf DEF LinkIs, Queries, LinkTypes
    <2> QED BY <2>6
<1>7. CASE IsPartOf(y, g, b)
    <2>1. PICK p \in PullsOf(g), c \in Commits :
              /\ y = Contains(p, c)
              /\ c \in SeqSet(PullCommits[p]) \/ (c \in SeqSet(Log[g.head[b]]) /\ IsMergeOf(c, p))
        BY <1>7 DEF IsPartOf
    <2>2. OfPull(S, p) /\ p \in Pulls
        BY <1>2, <2>1 DEF OfPull
    <2>3. PICK pull \in d.pulls : pull.number = p
        BY <1>1, <2>2 DEF HasPull
    <2>4. c \in RelatedCommits(d, pull)
        <3>1. CASE c \in SeqSet(PullCommits[p])
            <4>1. <<p, c>> \in d.contains
                BY <1>1, <2>2, <3>1 DEF HasCommits
            <4>2. <<p, c>>[1] = p /\ <<p, c>>[2] = c
                OBVIOUS
            <4> QED BY <2>3, <4>1, <4>2 DEF RelatedCommits
        <3>2. CASE c \notin SeqSet(PullCommits[p])
            <4>1. OfCommit(S, c) /\ IsMergeOf(c, p)
                BY <2>1, <2>2, <3>2 DEF OfCommit
            <4>2. c \in MergesOf(d, pull.number)
                BY <1>1, <2>1, <2>3, <4>1 DEF MergesOf
            <4> QED BY <4>2 DEF RelatedCommits
        <3> QED BY <3>1, <3>2
    <2>5. /\ y \in MappedRelations(d) /\ Node("PullRequest", p) \in MappedNodes(d)
          /\ Node("Commit", c) \in MappedNodes(d)
        BY <2>1, <2>3, <2>4, NodesMapped, RelationsMapped
    <2>6. Ready(y, d)
        BY <2>1, <2>5, ReadyIf DEF Contains, Queries
    <2> QED BY <2>6
<1>8. CASE IsCommitOf(y, g, b)
    <2>1. PICK c \in SeqSet(Log[g.head[b]]) :
              \/ y = Node("Commit", c)
              \/ \E q \in Parents[c] : y = ParentIs(c, q)
              \/ \E f \in SeqSet(Files[c]) : y = ChangeIs(c, f)
        BY <1>8 DEF IsCommitOf
    <2>2. c \in Commits /\ Parents[c] \subseteq Commits /\ SeqSet(Files[c]) \subseteq Paths
        BY <1>2, ImportAssumption DEF SeqSet
    <2>3. c \in d.commits
        <3>1. OfCommit(S, c)
            BY <2>1, <2>2 DEF OfCommit
        <3> QED BY <1>1, <2>2, <3>1
    <2>4. Node("Commit", c) \in MappedNodes(d)
        BY <2>3, NodesMapped
    <2>5. ASSUME NEW q \in Parents[c], y = ParentIs(c, q) PROVE Ready(y, d)
        <3>1. y \in MappedRelations(d) /\ Node("Commit", q) \in MappedNodes(d)
            BY <2>3, <2>5, NodesMapped, RelationsMapped
        <3> QED BY <2>4, <2>5, <3>1, ReadyIf DEF ParentIs, Queries
    <2>6. ASSUME NEW f \in SeqSet(Files[c]), y = ChangeIs(c, f) PROVE Ready(y, d)
        <3>1. y \in MappedRelations(d) /\ Node("File", f) \in MappedNodes(d)
            BY <2>3, <2>6, NodesMapped, RelationsMapped
        <3> QED BY <2>4, <2>6, <3>1, ReadyIf DEF ChangeIs, Queries
    <2> QED BY <2>1, <2>4, <2>5, <2>6 DEF Labels
<1> QED BY <1>0, <1>3, <1>4, <1>5, <1>6, <1>7, <1>8, PresentForms

\* The nodes come first, and the issues second among them.
LEMMA OrderOfStatements ==
    /\ Len(Operations) = 12
    /\ \A a \in Labels : \E k \in 1..5 : Operations[k] = <<a>>
    /\ \A q \in Queries : \E k \in 6..12 : Operations[k] = q
    /\ \A k \in 1..5 : Len(Operations[k]) = 1
    /\ \A k \in 6..12 : Len(Operations[k]) = 3
    /\ Operations[2] = <<"Issue">>
    /\ \A k \in 1..12 : Operations[k] = <<"Issue">> => k = 2
<1>1. /\ Operations[1] = <<"Branch">> /\ Operations[2] = <<"Issue">>
      /\ Operations[3] = <<"PullRequest">> /\ Operations[4] = <<"Commit">>
      /\ Operations[5] = <<"File">>
    BY DEF Operations
<1>2. /\ Operations[6] = <<"Branch", "POINTS_TO", "Commit">>
      /\ Operations[7] = <<"PullRequest", "CONTAINS_COMMIT", "Commit">>
      /\ Operations[8] = <<"PullRequest", "CHANGED", "File">>
      /\ Operations[9] = <<"PullRequest", "RESOLVES", "Issue">>
      /\ Operations[10] = <<"PullRequest", "REFERENCES", "Issue">>
      /\ Operations[11] = <<"Commit", "PARENT", "Commit">>
      /\ Operations[12] = <<"Commit", "CHANGED", "File">>
      /\ Len(Operations) = 12
    BY DEF Operations
<1>3. /\ \A k \in 1..5 : k = 1 \/ k = 2 \/ k = 3 \/ k = 4 \/ k = 5
      /\ \A k \in 6..12 : k = 6 \/ k = 7 \/ k = 8 \/ k = 9 \/ k = 10 \/ k = 11 \/ k = 12
      /\ \A k \in 1..12 : k \in 1..5 \/ k \in 6..12
    OBVIOUS
<1>4. \A a \in Labels : \E k \in 1..5 : Operations[k] = <<a>>
    BY <1>1 DEF Labels
<1>5. \A q \in Queries : \E k \in 6..12 : Operations[k] = q
    <2>1. 6 \in 6..12 /\ 7 \in 6..12 /\ 9 \in 6..12 /\ 10 \in 6..12 /\ 11 \in 6..12 /\ 12 \in 6..12
        OBVIOUS
    <2> QED BY <1>2, <2>1, Zenon DEF Queries
<1>6. \A k \in 1..5 : Len(Operations[k]) = 1
    BY <1>1, <1>3
<1>7. \A k \in 6..12 : Len(Operations[k]) = 3
    BY <1>2, <1>3
<1>8. ASSUME NEW k \in 1..12, Operations[k] = <<"Issue">> PROVE k = 2
    <2>1. Len(<<"Issue">>) = 1
        OBVIOUS
    <2>2. k \in 1..5
        BY <1>3, <1>7, <1>8, <2>1
    <2> QED BY <1>1, <1>3, <1>8, <2>2
<1> QED BY <1>1, <1>2, <1>4, <1>5, <1>6, <1>7, <1>8

LEMMA DidMore ==
    ASSUME NEW d, NEW k, NEW ns, NEW rs, NEW ms, NEW qs, Did(d, k, ns, rs), ns \subseteq ms, rs \subseteq qs
    PROVE  Did(d, k, ms, qs)
BY DEF Did

\* A statement that has no rows has nothing to do.
LEMMA NotSent ==
    ASSUME NEW d, NEW k, Operations[k] \notin Sent(d), NEW ns, NEW rs
    PROVE  Did(d, k, ns, rs)
BY DEF Did, Sent

\* The ends of a relationship are there before it is merged.
LEMMA EndsThere ==
    ASSUME NEW d, NEW op \in 6..12, NEW ns, NEW rs, \A k \in 1..(op - 1) : Did(d, k, ns, rs)
    PROVE  MappedNodes(d) \subseteq ns
<1> SUFFICES ASSUME NEW n \in MappedNodes(d) PROVE n \in ns
    OBVIOUS
<1>1. n[1] \in Labels
    BY NodesMapped
<1>2. PICK k \in 1..5 : Operations[k] = <<n[1]>>
    BY <1>1, OrderOfStatements
<1>3. k \in 1..(op - 1)
    OBVIOUS
<1> QED BY <1>2, <1>3 DEF Did

LEMMA StatementDone ==
    ASSUME NEW d, NEW op \in 1..12, NEW j, job[j].doc = d, job[j].op = op,
           \A k \in 1..(op - 1) : Did(d, k, nodes, relations),
           SaveStatement(j)
    PROVE  /\ nodes \subseteq nodes' /\ relations \subseteq relations'
           /\ Did(d, op, nodes', relations')
           /\ op = 2 => \A i \in Issues : d.issues[i] # None => state'[i] = d.issues[i]
           /\ op # 2 => state' = state
<1> DEFINE query == Operations[op]
<1>1. IF Len(query) = 1 THEN SaveNodes(j, query[1]) ELSE SaveRelations(j, query)
    BY DEF SaveStatement
<1>2. op \in 1..5 \/ op \in 6..12
    OBVIOUS
<1>3. CASE op \in 1..5
    <2>1. SaveNodes(j, query[1]) /\ Len(query) = 1
        BY <1>1, <1>3, OrderOfStatements
    <2> HIDE DEF query
    <2>2. /\ nodes' = nodes \cup {n \in MappedNodes(d) : n[1] = query[1]}
          /\ relations' = relations
          /\ state' = IF query[1] = "Issue"
                      THEN [i \in Issues |-> IF d.issues[i] # None THEN d.issues[i] ELSE state[i]]
                      ELSE state
        BY <2>1 DEF SaveNodes
    <2>3. \A n \in MappedNodes(d) : query = <<n[1]>> => n \in nodes'
        BY <2>2
    <2>4. \A r \in MappedRelations(d) : query # QueryOf(r)
        <3>1. \A r : Len(QueryOf(r)) = 3
            BY DEF QueryOf
        <3> QED BY <2>1, <3>1
    <2>5. Did(d, op, nodes', relations')
        BY <2>3, <2>4 DEF Did, query
    <2>6. op = 2 => query[1] = "Issue"
        BY OrderOfStatements DEF query
    <2>7. op # 2 => query[1] # "Issue"
        <3>1. \E a \in {"Branch", "Issue", "PullRequest", "Commit", "File"} : query = <<a>>
            BY <1>3 DEF query, Operations
        <3>2. query[1] = "Issue" => query = <<"Issue">>
            BY <3>1
        <3>3. query = <<"Issue">> => op = 2
            BY OrderOfStatements DEF query
        <3> QED BY <3>2, <3>3
    <2> QED BY <2>2, <2>5, <2>6, <2>7
<1>4. CASE op \in 6..12
    <2>1. SaveRelations(j, query)
        BY <1>1, <1>4, OrderOfStatements
    <2> HIDE DEF query
    <2>2. /\ nodes' = nodes /\ state' = state
          /\ relations' = relations \cup {r \in MappedRelations(d) : /\ QueryOf(r) = query
                                                                    /\ r[2] \in nodes /\ r[3] \in nodes}
        BY <2>1 DEF SaveRelations
    <2>3. MappedNodes(d) \subseteq nodes
        BY <1>4, EndsThere
    <2>4. \A n \in MappedNodes(d) : query # <<n[1]>>
        <3>1. Len(query) = 3 /\ \A a : Len(<<a>>) = 1
            BY <1>4, OrderOfStatements DEF query
        <3> QED BY <3>1
    <2>5. Did(d, op, nodes', relations')
        BY <2>2, <2>3, <2>4 DEF Did, query
    <2>6. op # 2
        BY <1>4
    <2> QED BY <2>2, <2>5, <2>6
<1> QED BY <1>2, <1>3, <1>4

\* The next statement, or the end.
LEMMA StatementNext ==
    ASSUME NEW j, SaveStatement(j), NEW op \in 1..12, job[j].op = op
    PROVE  \/ /\ job' = [job EXCEPT ![j] = [Idle EXCEPT !.pc = "done"]]
              /\ \A k \in (op + 1)..12 : Operations[k] \notin Sent(job[j].doc)
           \/ \E n \in (op + 1)..12 :
                 /\ job' = [job EXCEPT ![j] = [job[j] EXCEPT !.op = n]]
                 /\ \A k \in (op + 1)..(n - 1) : Operations[k] \notin Sent(job[j].doc)
<1> DEFINE sent == Sent(job[j].doc)
           later == {n \in (op + 1)..12 : Operations[n] \in sent}
<1>1. job' = [job EXCEPT ![j] = IF later = {} THEN [Idle EXCEPT !.pc = "done"]
                                ELSE [@ EXCEPT !.op = CHOOSE n \in later : \A m \in later : n <= m]]
    <2> DEFINE last == {n \in (job[j].op + 1)..Len(Operations) : Operations[n] \in Sent(job[j].doc)}
    <2> DEFINE rest(s) == {n \in (job[j].op + 1)..Len(Operations) : Operations[n] \in s}
               becomes(s) == [job EXCEPT ![j] =
                                 IF rest(s) = {} THEN [Idle EXCEPT !.pc = "done"]
                                 ELSE [@ EXCEPT !.op = CHOOSE n \in rest(s) : \A m \in rest(s) : n <= m]]
    <2>0. \E s \in {Sent(job[j].doc)} : job' = becomes(s)
        BY Zenon DEF SaveStatement
    <2>1. job' = [job EXCEPT ![j] = IF last = {} THEN [Idle EXCEPT !.pc = "done"]
                                    ELSE [@ EXCEPT !.op = CHOOSE n \in last : \A m \in last : n <= m]]
        <3>1. job' = becomes(Sent(job[j].doc))
            <4> HIDE DEF becomes
            <4> QED BY <2>0
        <3> QED BY <3>1
    <2>2. Len(Operations) = 12
        BY OrderOfStatements
    <2>3. last = later
        BY <2>2
    <2> HIDE DEF last, later
    <2> QED BY <2>1, <2>3
<1>2. CASE later = {}
    BY <1>1, <1>2
<1>3. CASE later # {}
    <2> DEFINE n == CHOOSE n \in later : \A m \in later : n <= m
    <2>1. later \in SUBSET Nat
        OBVIOUS
    <2> HIDE DEF later
    <2>2. \E z \in later : \A m \in later : z <= m
        BY <1>3, <2>1, LeastNatural
    <2>3. n \in later /\ \A m \in later : n <= m
        BY <2>2
    <2>4. job' = [job EXCEPT ![j] = [job[j] EXCEPT !.op = n]]
        BY <1>1, <1>3
    <2> HIDE DEF n
    <2>5. n \in (op + 1)..12
        BY <2>3 DEF later
    <2>6. ASSUME NEW k \in (op + 1)..(n - 1) PROVE Operations[k] \notin sent
        <3>1. k \in (op + 1)..12 /\ ~(n <= k)
            BY <2>5
        <3> QED BY <2>3, <3>1 DEF later
    <2> QED BY <2>4, <2>5, <2>6
<1> QED BY <1>2, <1>3

\* Stored, of plain values.
StoredIn(x, ns, rs, st) ==
    CASE Len(x) = 2     -> x \in ns
      [] x[1] = "STATE" -> st[x[2][2]] = x[3][2]
      [] OTHER          -> x \in rs

LEMMA StateStored ==
    \A i, s, ns, rs, st : StoredIn(StateIs(i, s), ns, rs, st) <=> st[i] = s
<1> SUFFICES ASSUME NEW i, NEW s, NEW ns, NEW rs, NEW st
             PROVE  StoredIn(StateIs(i, s), ns, rs, st) <=> st[i] = s
    OBVIOUS
<1> DEFINE x == StateIs(i, s)
<1>1. Len(x) = 3 /\ x[1] = "STATE" /\ x[2][2] = i /\ x[3][2] = s
    BY DEF StateIs, Relation, Node
<1> HIDE DEF x
<1>2. StoredIn(x, ns, rs, st) <=> st[i] = s
    BY <1>1 DEF StoredIn
<1> QED BY <1>2 DEF x

LEMMA SaveStores ==
    ASSUME TableInv, TypesInv, NEW j \in Imports, StoringOf(j), SaveStatement(j)
    PROVE  /\ job'[j].todo \in Seq(Numbers \cup Commits)
           /\ job'[j].pc \notin Ended =>
                 /\ Reading(job'[j], steady[j], github)
                 /\ Saved(job'[j], steady[j], nodes', relations', state')
                 /\ job'[j].branch = job[j].branch
           /\ job'[j].pc = "done" =>
                 \A y \in steady[j] : StoredIn(y, nodes', relations', state')
           /\ \A k \in Imports \ {j} : job'[k] = job[k]
<1> DEFINE x == job[j]
           y == job'[j]
           S == steady[j]
           b == job[j].branch
           d == job[j].doc
           op == job[j].op
<1>0. /\ DOMAIN job = Imports /\ DOMAIN x = Fields /\ DOMAIN x.doc = DocFields
      /\ x.pc = "save"
    BY DEF TableInv, JobShape, TypesInv, SaveStatement
<1>1. ReadsFrom(x, S, github, b) /\ Saved(x, S, nodes, relations, state)
    <2>1. x.pc \notin Ended
        BY <1>0 DEF Ended
    <2> QED BY <1>0, <2>1 DEF ReadsFrom, StoringOf, TypesInv
<1>2. op \in 1..12 /\ \A k \in 1..(op - 1) : Did(d, k, nodes, relations)
    BY <1>0, <1>1, OrderOfStatements DEF ReadsFrom, Reading, Position, Saved
<1>3. /\ nodes \subseteq nodes' /\ relations \subseteq relations'
      /\ Did(d, op, nodes', relations')
      /\ op = 2 => \A i \in Issues : d.issues[i] # None => state'[i] = d.issues[i]
      /\ op # 2 => state' = state
    <2> DEFINE it == SaveStatement(j)
    <2>1. it
        OBVIOUS
    <2> HIDE DEF d, op, it
    <2>2. job[j].doc = d /\ job[j].op = op
        BY DEF d, op
    <2> QED BY <1>2, <2>1, <2>2, StatementDone DEF it
<1>4. \A k \in 1..op : Did(d, k, nodes', relations')
    <2> SUFFICES ASSUME NEW k \in 1..op PROVE Did(d, k, nodes', relations')
        OBVIOUS
    <2>1. k \in 1..(op - 1) \/ k = op
        BY <1>2
    <2> HIDE DEF d, op
    <2> QED BY <1>2, <1>3, <2>1, DidMore
<1>5. ASSUME NEW i \in Issues, NEW s \in States, StateIs(i, s) \in S
      PROVE  /\ s # None /\ d.issues[i] = s /\ <<"Issue">> \in Sent(d)
             /\ op > 1 => state'[i] = s
    <2>1. \/ \E k \in Issues, t \in States : /\ StateIs(i, s) = StateIs(k, t) /\ t # None
                                             /\ x.doc.issues[k] = t
                                             /\ Node("Issue", k) \in MappedNodes(x.doc)
          \/ \E a \in Labels : \E z : StateIs(i, s) = Node(a, z)
          \/ Ready(StateIs(i, s), x.doc)
        <3> HIDE DEF x, S, b
        <3> QED BY <1>0, <1>1, <1>5, AllMapped
    <2>2. ~Ready(StateIs(i, s), x.doc)
        <3>1. StateIs(i, s)[1] = "STATE"
            BY DEF StateIs, Relation
        <3> QED BY <3>1 DEF Ready
    <2>3. s # None /\ d.issues[i] = s /\ Node("Issue", i) \in MappedNodes(d)
        BY <2>1, <2>2, Forms, FormsNoNode
    <2>4. <<"Issue">> \in Sent(d)
        <3>1. Node("Issue", i)[1] = "Issue"
            BY DEF Node
        <3> QED BY <2>3, <3>1 DEF Sent
    <2>5. CASE op > 2
        <3>1. state[i] = s
            BY <1>0, <1>1, <1>5, <2>5 DEF Saved
        <3> QED BY <1>3, <2>3, <2>4, <2>5, <3>1
    <2>6. CASE op = 2
        BY <1>3, <2>3, <2>4, <2>6
    <2>7. CASE op = 1
        BY <2>3, <2>4, <2>7
    <2> QED BY <1>2, <2>5, <2>6, <2>7
<1>6. \/ /\ job' = [job EXCEPT ![j] = [Idle EXCEPT !.pc = "done"]]
         /\ \A k \in (op + 1)..12 : Operations[k] \notin Sent(d)
      \/ \E n \in (op + 1)..12 :
            /\ job' = [job EXCEPT ![j] = [job[j] EXCEPT !.op = n]]
            /\ \A k \in (op + 1)..(n - 1) : Operations[k] \notin Sent(d)
    <2> DEFINE it == SaveStatement(j)
    <2>1. it /\ job[j].op = op
        OBVIOUS
    <2> HIDE DEF op, it
    <2> QED BY <1>2, <2>1, StatementNext DEF it
<1>7. CASE /\ job' = [job EXCEPT ![j] = [Idle EXCEPT !.pc = "done"]]
           /\ \A k \in (op + 1)..12 : Operations[k] \notin Sent(d)
    <2>1. /\ y.pc = "done" /\ y.todo = <<>> /\ \A k \in Imports \ {j} : job'[k] = job[k]
        BY <1>0, <1>7, IdleShape DEF Fields
    <2>2. \A k \in 1..12 : Did(d, k, nodes', relations')
        <3> SUFFICES ASSUME NEW k \in 1..12 PROVE Did(d, k, nodes', relations')
            OBVIOUS
        <3>1. k \in 1..op \/ k \in (op + 1)..12
            BY <1>2
        <3> HIDE DEF d, op
        <3> QED BY <1>4, <1>7, <3>1, NotSent
    <2>3. op > 1 \/ <<"Issue">> \notin Sent(d)
        <3>1. op # 1 \/ 2 \in (op + 1)..12
            OBVIOUS
        <3> HIDE DEF op, d
        <3> QED BY <1>2, <1>7, <3>1, OrderOfStatements
    <2>4. ASSUME NEW z \in S PROVE StoredIn(z, nodes', relations', state')
        <3>1. \/ \E i \in Issues, s \in States : z = StateIs(i, s)
              \/ \E a \in Labels : \E u : z = Node(a, u) /\ z \in MappedNodes(d)
              \/ Ready(z, d)
            <4> HIDE DEF x, S, b
            <4> QED BY <1>0, <1>1, <2>4, AllMapped DEF x
        <3>2. ASSUME NEW i \in Issues, NEW s \in States, z = StateIs(i, s)
              PROVE  StoredIn(z, nodes', relations', state')
            <4>1. state'[i] = s
                BY <1>5, <2>3, <2>4, <3>2
            <4> QED BY <3>2, <4>1, StateStored
        <3>3. ASSUME NEW a \in Labels, NEW u, z = Node(a, u), z \in MappedNodes(d)
              PROVE  StoredIn(z, nodes', relations', state')
            <4>1. Len(z) = 2 /\ z[1] = a /\ a # "STATE"
                BY <3>3 DEF Node, Labels
            <4>2. PICK k \in 1..5 : Operations[k] = <<a>>
                BY OrderOfStatements
            <4>3. k \in 1..12
                OBVIOUS
            <4>4. Operations[k] = <<z[1]>> /\ Did(d, k, nodes', relations')
                BY <2>2, <4>1, <4>2, <4>3
            <4>5. z \in nodes'
                <5> HIDE DEF d, op
                <5> QED BY <3>3, <4>4 DEF Did
            <4> QED BY <4>1, <4>5 DEF StoredIn
        <3>4. CASE Ready(z, d)
            <4>1. /\ z \in MappedRelations(d) /\ Len(z) = 3 /\ z[1] # "STATE"
                  /\ QueryOf(z) \in Queries
                  /\ z[2] \in MappedNodes(d) /\ z[3] \in MappedNodes(d)
                BY <3>4 DEF Ready
            <4>2. PICK k \in 6..12 : Operations[k] = QueryOf(z)
                BY <4>1, OrderOfStatements
            <4>3. k \in 1..12
                OBVIOUS
            <4>4. z \in relations'
                BY <2>2, <4>1, <4>2, <4>3 DEF Did
            <4> QED BY <4>1, <4>4 DEF StoredIn
        <3> QED BY <3>1, <3>2, <3>3, <3>4
    <2>5. y.todo \in Seq(Numbers \cup Commits)
        BY <2>1
    <2> QED BY <2>1, <2>4, <2>5 DEF Ended
<1>8. ASSUME NEW n \in (op + 1)..12, job' = [job EXCEPT ![j] = [job[j] EXCEPT !.op = n]],
             \A k \in (op + 1)..(n - 1) : Operations[k] \notin Sent(d)
      PROVE  /\ y.todo = x.todo /\ y.pc = "save" /\ y.branch = x.branch
             /\ Reading(y, S, github) /\ Saved(y, S, nodes', relations', state')
             /\ \A k \in Imports \ {j} : job'[k] = job[k]
    <2>1. /\ y.pc = "save" /\ y.op = n /\ y.doc = x.doc /\ y.page = x.page /\ y.todo = x.todo
          /\ y.branch = x.branch /\ \A k \in Imports \ {j} : job'[k] = job[k]
        BY <1>0, <1>8 DEF Fields
    <2>2. n \in 1..12 /\ n \in 1..Len(Operations)
        BY <1>2, OrderOfStatements
    <2>3. Reading(y, S, github)
        <3> HIDE DEF x, y, S, b
        <3> QED BY <1>0, <1>1, <2>1, <2>2, CommitsGot
    <2>4. ASSUME NEW k \in 1..(n - 1) PROVE Did(d, k, nodes', relations')
        <3>1. k \in 1..op \/ k \in (op + 1)..(n - 1)
            BY <1>2
        <3> HIDE DEF d, op
        <3> QED BY <1>4, <1>8, <3>1, NotSent
    <2>5. ASSUME NEW i \in Issues, NEW s \in States, n > 2, StateIs(i, s) \in S
          PROVE  state'[i] = s
        <3>1. op > 1
            <4>1. op # 1 \/ 2 \in (op + 1)..(n - 1)
                BY <2>2, <2>5
            <4>2. <<"Issue">> \in Sent(d)
                BY <1>5, <2>5
            <4>3. op # 1
                <5> HIDE DEF op, d
                <5> QED BY <1>8, <4>1, <4>2, OrderOfStatements
            <4> QED BY <1>2, <4>3
        <3> QED BY <1>5, <2>5, <3>1
    <2>6. Saved(y, S, nodes', relations', state')
        BY <2>1, <2>4, <2>5 DEF Saved
    <2> QED BY <2>1, <2>3, <2>6
<1>9. CASE \E n \in (op + 1)..12 :
              /\ job' = [job EXCEPT ![j] = [job[j] EXCEPT !.op = n]]
              /\ \A k \in (op + 1)..(n - 1) : Operations[k] \notin Sent(d)
    <2>1. /\ y.todo = x.todo /\ y.pc = "save" /\ y.branch = x.branch
          /\ Reading(y, S, github) /\ Saved(y, S, nodes', relations', state')
          /\ \A k \in Imports \ {j} : job'[k] = job[k]
        <3> HIDE DEF x, y, S, d, op
        <3> QED BY <1>8, <1>9
    <2>2. y.todo \in Seq(Numbers \cup Commits)
        BY <1>1, <2>1 DEF ReadsFrom
    <2> QED BY <2>1, <2>2
<1> QED BY <1>6, <1>7, <1>9

-----------------------------------------------------------------------------
(* The repository changes while an import reads *)

\* What import x waits for in the list it reads of g is still to come when that list
\* becomes the one of h.
StillComing(x, g, h, R) ==
    /\ x.pc = "issues" =>
          \A i \in Issues : OfIssue(R, i) /\ Coming(x, g.items, i) => Coming(x, h.items, i)
    /\ x.pc = "pulls" =>
          \A p \in Pulls : OfPull(R, p) /\ Coming(x, OnlyIn(g.items, Pulls), p)
                               => Coming(x, OnlyIn(h.items, Pulls), p)
    /\ x.pc = "commits" =>
          \A c \in Commits : OfCommit(R, c) /\ Coming(x, Log[g.head[x.branch]], c)
                                 => Coming(x, Log[h.head[x.branch]], c)

LEMMA ReadsLess ==
    ASSUME NEW x, NEW g, NEW h, NEW S, NEW R, R \subseteq S,
           Reading(x, S, g), StillComing(x, g, h, R)
    PROVE  Reading(x, R, h)
<1>1. /\ \A i \in Issues : OfIssue(R, i) => OfIssue(S, i)
      /\ \A p \in Pulls : OfPull(R, p) => OfPull(S, p)
      /\ \A c \in Commits : OfCommit(R, c) => OfCommit(S, c)
    BY NeedsLess
<1>2. HeadsRead(x, R) /\ Agrees(x, R) /\ Position(x)
    <2>1. HeadsRead(x, S) /\ Agrees(x, S) /\ Position(x)
        BY DEF Reading
    <2>2. HeadsRead(x, R)
        BY <2>1 DEF HeadsRead
    <2>3. Agrees(x, R)
        BY <2>1 DEF Agrees
    <2> QED BY <2>1, <2>2, <2>3
<1>3. ASSUME NEW i \in Issues, OfIssue(R, i) PROVE IssueRead(x, R, h, i)
    <2>1. IssueRead(x, S, g, i)
        BY <1>1, <1>3 DEF Reading
    <2>2. x.pc = "issues" /\ Coming(x, g.items, i) => Coming(x, h.items, i)
        BY <1>3 DEF StillComing
    <2> QED BY <2>1, <2>2 DEF IssueRead
<1>4. ASSUME NEW p \in Pulls, OfPull(R, p) PROVE PullRead(x, R, h, p)
    <2>1. PullRead(x, S, g, p)
        BY <1>1, <1>4 DEF Reading
    <2>2. x.pc = "pulls" /\ Coming(x, OnlyIn(g.items, Pulls), p) => Coming(x, OnlyIn(h.items, Pulls), p)
        BY <1>4 DEF StillComing
    <2> QED BY <2>1, <2>2 DEF PullRead
<1>5. ASSUME NEW c \in Commits, OfCommit(R, c) PROVE CommitRead(x, R, h, c)
    <2>1. CommitRead(x, S, g, c)
        BY <1>1, <1>5 DEF Reading
    <2>2. x.pc = "commits" /\ Coming(x, Log[g.head[x.branch]], c) => Coming(x, Log[h.head[x.branch]], c)
        BY <1>5 DEF StillComing
    <2> QED BY <2>1, <2>2 DEF CommitRead
<1> QED BY <1>2, <1>3, <1>4, <1>5 DEF Reading

LEMMA SavedLess ==
    ASSUME NEW x, NEW S, NEW R, R \subseteq S, NEW ns, NEW rs, NEW st, Saved(x, S, ns, rs, st)
    PROVE  Saved(x, R, ns, rs, st)
BY DEF Saved

\* The change to h leaves every import able to read on.
Follows(h, moved) ==
    /\ Newest(h)
    /\ \A j \in Imports : job[j].pc \notin Ended =>
          \A R \in SUBSET Present(h, job[j].branch) :
              (\A x \in R : ~Touches(x, moved[j])) => StillComing(job[j], github, h, R)

LEMMA BecomesStores ==
    ASSUME NEW h, NEW moved, Becomes(h, moved), Follows(h, moved), StoringInv
    PROVE  StoringInv'
<1>1. /\ github' = h /\ job' = job /\ nodes' = nodes /\ relations' = relations /\ state' = state
      /\ \A j \in Imports : steady'[j] = IF job[j].pc \in Ended THEN {}
             ELSE {x \in steady[j] \cap Present(h, job[j].branch) : ~Touches(x, moved[j])}
    BY DEF Becomes, graph
<1>2. Newest(github')
    BY <1>1 DEF Follows
<1>3. ASSUME NEW j \in Imports PROVE StoringOf(j)'
    <2> DEFINE x == job[j]
               S == steady[j]
               R == {y \in steady[j] \cap Present(h, job[j].branch) : ~Touches(y, moved[j])}
    <2>1. StoringOf(j) /\ job'[j] = x
        BY <1>1 DEF StoringInv
    <2>2. CASE x.pc \in Ended
        <3>1. steady'[j] = {}
            BY <1>1, <2>2
        <3>2. job'[j].todo \in Seq(Numbers \cup Commits) /\ job'[j].pc \in Ended
            BY <2>1, <2>2 DEF StoringOf
        <3> HIDE DEF x, S, R
        <3> QED BY <3>1, <3>2 DEF StoringOf
    <2>3. CASE x.pc \notin Ended
        <3>1. /\ steady'[j] = R /\ R \subseteq S /\ R \in SUBSET Present(h, job[j].branch)
              /\ \A y \in R : ~Touches(y, moved[j])
            BY <1>1, <2>3
        <3>2. /\ x.todo \in Seq(Numbers \cup Commits)
              /\ Reading(x, S, github) /\ Saved(x, S, nodes, relations, state)
              /\ \A y \in S : y[1] = "STATE" => \A k \in Imports \ {j} : job[k].pc \in Ended
            BY <2>1, <2>3 DEF StoringOf
        <3>3. StillComing(x, github, h, R)
            BY <2>3, <3>1 DEF Follows
        <3>4. x.branch = job[j].branch
            OBVIOUS
        <3> HIDE DEF x, S, R
        <3>5. Reading(x, R, h) /\ Saved(x, R, nodes, relations, state)
            BY <3>1, <3>2, <3>3, ReadsLess, SavedLess
        <3>6. x.pc # "done"
            BY <2>3 DEF Ended
        <3>7. \A y \in R : y[1] = "STATE" => \A k \in Imports \ {j} : job'[k].pc \in Ended
            BY <1>1, <3>1, <3>2
        <3> QED BY <1>1, <2>1, <3>1, <3>2, <3>4, <3>5, <3>6, <3>7 DEF StoringOf
    <2> QED BY <2>2, <2>3
<1> QED BY <1>2, <1>3 DEF StoringInv

LEMMA SameLists ==
    ASSUME NEW h, h.items = github.items, h.head = github.head, h.last = github.last,
           Newest(github), NEW moved
    PROVE  Follows(h, moved)
<1>1. Newest(h)
    BY DEF Newest
<1>2. \A x, R : StillComing(x, github, h, R)
    BY DEF StillComing
<1> QED BY <1>1, <1>2 DEF Follows

LEMMA ComingInFront ==
    ASSUME NEW x, x.page \in Nat \ {0}, NEW T, NEW list \in Seq(T), NEW y, NEW c, Coming(x, list, c)
    PROVE  Coming(x, <<y>> \o list, c)
<1>1. (x.page - 1) * PageSize \in Nat
    <2>1. x.page - 1 \in Nat /\ PageSize \in Nat
        BY ImportAssumption
    <2>2. \A m, n \in Nat : m * n \in Nat
        OBVIOUS
    <2> QED BY <2>1, <2>2
<1> DEFINE m == (x.page - 1) * PageSize
<1>2. m \in Nat
    BY <1>1
<1>3. \/ c \in SeqSet(x.todo)
      \/ After(list, m, c)
    BY DEF Coming
<1> HIDE DEF m
<1>4. After(list, m, c) => After(<<y>> \o list, m, c)
    BY <1>2, AfterFront
<1> QED BY <1>3, <1>4 DEF Coming, m

\* What is opened comes onto the first page, and the rest moves to later ones.
LEMMA OpenFollows ==
    ASSUME TypesInv, Newest(github), github.last + 1 \in Numbers, NEW h, NEW moved,
           h = [github EXCEPT !.items = <<github.last + 1>> \o @, !.last = @ + 1]
    PROVE  Follows(h, moved)
<1> DEFINE y == github.last + 1
           s == github.items
<1>1. /\ h.items = <<y>> \o s /\ h.head = github.head /\ h.last = y
      /\ s \in Seq(Numbers) /\ github.last \in Nat /\ y \in Nat /\ y \in Numbers
      /\ Numbers \subseteq Nat
    BY ImportAssumption DEF TypesInv, Repository
<1>2. /\ DOMAIN s = 1..Len(s) /\ Len(s) \in Nat /\ \A n \in DOMAIN s : s[n] \in Nat
      /\ DOMAIN (<<y>> \o s) = 1..(Len(s) + 1)
      /\ (<<y>> \o s)[1] = y /\ \A n \in 1..Len(s) : (<<y>> \o s)[n + 1] = s[n]
    BY <1>1
<1>3. \A m, n \in DOMAIN s : s[n] <= github.last /\ (m < n => s[n] < s[m])
    BY DEF Newest
<1>4. y = github.last + 1
    OBVIOUS
<1> HIDE DEF y, s
<1>5. Newest(h)
    <2> SUFFICES ASSUME NEW m \in DOMAIN (<<y>> \o s), NEW n \in DOMAIN (<<y>> \o s)
                 PROVE  /\ (<<y>> \o s)[n] <= y
                        /\ m < n => (<<y>> \o s)[n] < (<<y>> \o s)[m]
        BY <1>1 DEF Newest
    <2>1. CASE n = 1
        BY <1>1, <1>2, <2>1
    <2>2. CASE n # 1
        <3>1. n - 1 \in DOMAIN s /\ (<<y>> \o s)[n] = s[n - 1]
            <4>1. n - 1 \in 1..Len(s) /\ (n - 1) + 1 = n
                BY <1>2, <2>2
            <4> QED BY <1>2, <4>1
        <3>2. s[n - 1] <= github.last /\ s[n - 1] \in Nat
            BY <1>2, <1>3, <3>1
        <3>3. (<<y>> \o s)[n] < y
            BY <1>1, <1>4, <3>1, <3>2
        <3>4. CASE m = 1
            BY <1>1, <1>2, <3>1, <3>2, <3>3, <3>4
        <3>5. CASE m # 1
            <4>1. m - 1 \in 1..Len(s) /\ (m - 1) + 1 = m
                BY <1>2, <3>5
            <4>2. m - 1 \in DOMAIN s /\ (<<y>> \o s)[m] = s[m - 1]
                BY <1>2, <4>1
            <4>3. m < n => m - 1 < n - 1
                BY <1>2
            <4> QED BY <1>1, <1>3, <3>1, <3>2, <3>3, <4>2, <4>3
        <3> QED BY <3>4, <3>5
    <2> QED BY <2>1, <2>2
<1>6. ASSUME NEW j \in Imports, NEW R PROVE StillComing(job[j], github, h, R)
    <2> DEFINE x == job[j]
    <2>1. x.page \in Nat \ {0}
        BY DEF TypesInv
    <2>2. \A T : \A list \in Seq(T) : \A c : Coming(x, list, c) => Coming(x, <<y>> \o list, c)
        <3> HIDE DEF x
        <3> QED BY <2>1, ComingInFront
    <2>3. s \in Seq(Numbers) /\ OnlyIn(s, Pulls) \in Seq(Numbers)
        BY <1>1, OnlyInSet
    <2>4. OnlyIn(<<y>> \o s, Pulls) \in {<<y>> \o OnlyIn(s, Pulls), OnlyIn(s, Pulls)}
        <3>1. OnlyIn(<<y>> \o s, Pulls) = IF y \in Pulls THEN <<y>> \o OnlyIn(s, Pulls) ELSE OnlyIn(s, Pulls)
            <4>1. s \in Seq(Numbers) /\ y \in Numbers
                BY <1>1
            <4> HIDE DEF x
            <4> QED BY <4>1, OnlyInFront, Zenon
        <3> QED BY <3>1
    <2>5. github.items = s
        BY DEF s
    <2> HIDE DEF x
    <2>6. \A c : Coming(x, s, c) => Coming(x, <<y>> \o s, c)
        BY <2>2, <2>3
    <2>7. \A c : Coming(x, OnlyIn(s, Pulls), c) => Coming(x, OnlyIn(<<y>> \o s, Pulls), c)
        BY <2>2, <2>3, <2>4
    <2>8. StillComing(x, github, h, R)
        BY <1>1, <2>5, <2>6, <2>7 DEF StillComing
    <2> QED BY <2>8 DEF x
<1> QED BY <1>5, <1>6 DEF Follows

\* When issue k goes, what is older moves to an earlier page: that of it which may be
\* on a page that was read is not steady any more.
LEMMA DeleteFollows ==
    ASSUME TypesInv, Newest(github), NEW k \in Issues, NEW h, NEW moved,
           h = [github EXCEPT !.items = OnlyIn(@, Numbers \ {k})], h \in Repository,
           \A j \in Imports : job[j].pc = "issues" /\ job[j].page > 1 =>
               \A i \in Issues : i < k => Node("Issue", i) \in moved[j]
    PROVE  Follows(h, moved)
<1> DEFINE s == github.items
           S == Numbers \ {k}
<1>1. /\ h.items = OnlyIn(s, S) /\ h.head = github.head /\ h.last = github.last
      /\ s \in Seq(Numbers) /\ github.last \in Nat /\ Numbers \in SUBSET Nat
      /\ h.items \in Seq(Numbers)
    BY ImportAssumption DEF TypesInv, Repository
<1>2. /\ Pulls \subseteq S /\ SeqSet(OnlyIn(s, S)) = SeqSet(s) \cap S
    <2>1. Pulls \subseteq S
        BY ImportAssumption DEF Numbers
    <2> HIDE DEF s, S
    <2> QED BY <1>1, <2>1, OnlyInSet
<1>3. OnlyIn(h.items, Pulls) = OnlyIn(s, Pulls)
    <2> HIDE DEF s, S
    <2> QED BY <1>1, <1>2, OnlyInTwice
<1>4. /\ \A m, n \in DOMAIN s : s[n] <= github.last /\ (m < n => s[n] < s[m])
      /\ Falling(s)
    BY DEF Newest, Falling
<1>5. Newest(h)
    <2>1. Falling(OnlyIn(s, S))
        <3> HIDE DEF s, S
        <3> QED BY <1>1, <1>4, OnlyInFalling
    <2>2. \A n \in DOMAIN OnlyIn(s, S) : OnlyIn(s, S)[n] <= github.last
        <3> SUFFICES ASSUME NEW n \in DOMAIN OnlyIn(s, S) PROVE OnlyIn(s, S)[n] <= github.last
            OBVIOUS
        <3> HIDE DEF s, S
        <3>1. OnlyIn(s, S)[n] \in SeqSet(s)
            BY <1>2 DEF SeqSet
        <3>2. PICK m \in DOMAIN s : s[m] = OnlyIn(s, S)[n]
            BY <3>1 DEF SeqSet
        <3> QED BY <1>4, <3>2
    <2> HIDE DEF s, S
    <2> QED BY <1>1, <2>1, <2>2 DEF Newest, Falling
<1>6. ASSUME NEW j \in Imports, job[j].pc \notin Ended, NEW R \in SUBSET Present(h, job[j].branch),
             \A x \in R : ~Touches(x, moved[j])
      PROVE  StillComing(job[j], github, h, R)
    <2> DEFINE x == job[j]
    <2>1. x.page \in Nat \ {0} /\ x.branch \in Branches
        BY <1>6 DEF TypesInv
    <2>2. \A i \in Issues : OfIssue(R, i) => i \in IssuesOf(h)
        BY <1>6, <2>1, NeedsIssue
    <2>3. ASSUME x.pc = "issues", NEW i \in Issues, OfIssue(R, i), Coming(x, s, i)
          PROVE  Coming(x, h.items, i)
        <3>1. i \in SeqSet(h.items) /\ i \in SeqSet(s) /\ i # k
            BY <1>1, <1>2, <2>2, <2>3 DEF IssuesOf
        <3>2. CASE i \in SeqSet(x.todo)
            BY <3>2 DEF Coming
        <3>3. CASE x.page = 1
            <4> HIDE DEF x, s, S
            <4> QED BY <1>1, <3>1, <3>3, FirstPage
        <3>4. CASE i \notin SeqSet(x.todo) /\ x.page # 1
            <4>1. x.page > 1
                BY <2>1, <3>4
            <4>2. Node("Issue", i) \notin moved[j]
                BY <1>6, <2>3, Untouched
            <4>3. i \in Nat /\ k \in Nat /\ i > k
                <5>1. ~(i < k)
                    BY <2>3, <4>1, <4>2
                <5>2. i \in Nat /\ k \in Nat
                    BY <1>1 DEF Numbers
                <5> QED BY <3>1, <5>1, <5>2
            <4>4. PICK n \in DOMAIN s : (x.page - 1) * PageSize < n /\ s[n] = i
                BY <2>3, <3>4 DEF Coming, After
            <4>5. \A q \in 1..n : s[q] \in S
                <5> SUFFICES ASSUME NEW q \in 1..n PROVE s[q] \in S
                    OBVIOUS
                <5>1. q \in DOMAIN s /\ n \in Nat /\ s[q] \in Numbers /\ (q < n \/ q = n)
                    BY <1>1
                <5>2. s[q] \in Nat /\ i <= s[q]
                    BY <1>1, <1>4, <4>3, <4>4, <5>1
                <5> QED BY <4>3, <5>1, <5>2
            <4> HIDE DEF x, s, S
            <4>6. n \in DOMAIN OnlyIn(s, S) /\ OnlyIn(s, S)[n] = i
                BY <1>1, <4>4, <4>5, OnlyInPrefix
            <4> QED BY <1>1, <4>4, <4>6 DEF Coming, After
        <3> QED BY <3>2, <3>3, <3>4
    <2>4. github.items = s
        OBVIOUS
    <2> HIDE DEF x, s, S
    <2>5. StillComing(x, github, h, R)
        BY <1>1, <1>3, <2>3, <2>4 DEF StillComing
    <2> QED BY <2>5 DEF x
<1> QED BY <1>5, <1>6 DEF Follows

LEMMA OtherHeads ==
    ASSUME TypesInv, NEW b \in Branches, NEW c \in Commits
    PROVE  /\ [github.head EXCEPT ![b] = c][b] = c
           /\ \A d \in Branches \ {b} : [github.head EXCEPT ![b] = c][d] = github.head[d]
BY DEF TypesInv, Repository

\* A list that starts from a later head has the commits on the same pages or on later ones;
\* after a force-push the commits may be on any page.
LEMMA HeadFollows ==
    ASSUME TypesInv, Newest(github), NEW b \in Branches, NEW c \in Commits, NEW h, NEW moved,
           h \in Repository, h.items = github.items, h.last = github.last,
           h.head = [github.head EXCEPT ![b] = c],
           \/ github.head[b] \in SeqSet(Log[c])
           \/ \A j \in Imports : job[j].pc = "commits" /\ job[j].page > 1 =>
                  \A x \in Commits : Node("Commit", x) \in moved[j]
    PROVE  Follows(h, moved)
<1>1. Newest(h)
    BY DEF Newest
<1>2. ASSUME NEW j \in Imports, job[j].pc \notin Ended, NEW R \in SUBSET Present(h, job[j].branch),
             \A x \in R : ~Touches(x, moved[j])
      PROVE  StillComing(job[j], github, h, R)
    <2> DEFINE x == job[j]
               old == github.head[b]
    <2>1. x.page \in Nat \ {0} /\ x.branch \in Branches
        BY <1>2 DEF TypesInv
    <2>2. CASE x.branch # b \/ x.pc # "commits"
        <3>1. x.pc = "commits" => h.head[x.branch] = github.head[x.branch]
            BY <2>1, <2>2, OtherHeads
        <3> HIDE DEF x
        <3>2. StillComing(x, github, h, R)
            BY <3>1 DEF StillComing
        <3> QED BY <3>2 DEF x
    <2>3. CASE x.branch = b /\ x.pc = "commits"
        <3>1. h.head[x.branch] = c /\ github.head[x.branch] = old /\ old \in Commits
            BY <2>3, OtherHeads DEF TypesInv, Repository
        <3>2. \A q \in Commits : OfCommit(R, q) => q \in SeqSet(Log[c])
            BY <1>2, <2>1, <3>1, NeedsCommit
        <3>3. Log[c] \in Seq(Commits) /\ Log[old] \in Seq(Commits)
            BY <3>1, ImportAssumption
        <3>4. ASSUME NEW q \in Commits, OfCommit(R, q), Coming(x, Log[old], q)
              PROVE  Coming(x, Log[c], q)
            <4>1. CASE q \in SeqSet(x.todo)
                BY <4>1 DEF Coming
            <4>2. CASE x.page = 1
                <5>1. q \in SeqSet(Log[c])
                    BY <3>2, <3>4
                <5> HIDE DEF x, old
                <5> QED BY <3>3, <4>2, <5>1, FirstPage
            <4>3. CASE q \notin SeqSet(x.todo) /\ old \in SeqSet(Log[c])
                <5>1. PICK n \in DOMAIN Log[old] : (x.page - 1) * PageSize < n /\ Log[old][n] = q
                    BY <3>4, <4>3 DEF Coming, After
                <5>2. PICK m \in DOMAIN Log[c] : n <= m /\ Log[c][m] = Log[old][n]
                    BY <4>3, OrderAssumption
                <5>3. (x.page - 1) * PageSize < m
                    <6>1. n \in Nat /\ m \in Nat /\ (x.page - 1) * PageSize \in Nat
                        <7>1. x.page - 1 \in Nat /\ PageSize \in Nat
                            <8>1. PageSize \in Nat
                                BY ImportAssumption
                            <8> HIDE DEF x
                            <8>2. x.page - 1 \in Nat
                                BY <2>1
                            <8> QED BY <8>1, <8>2
                        <7>2. \A u, v \in Nat : u * v \in Nat
                            OBVIOUS
                        <7>3. n \in Nat /\ m \in Nat
                            BY <3>3
                        <7> QED BY <7>1, <7>2, <7>3
                    <6> DEFINE k == (x.page - 1) * PageSize
                    <6>2. k \in Nat /\ k < n /\ n <= m
                        BY <5>1, <5>2, <6>1
                    <6> HIDE DEF k
                    <6>3. k < m
                        BY <6>1, <6>2
                    <6> QED BY <6>3 DEF k
                <5> QED BY <5>1, <5>2, <5>3 DEF Coming, After
            <4>4. CASE x.page # 1 /\ old \notin SeqSet(Log[c])
                <5>1. x.page > 1
                    BY <2>1, <4>4
                <5>2. Node("Commit", q) \in moved[j]
                    BY <2>3, <4>4, <5>1
                <5>3. Node("Commit", q) \notin moved[j]
                    BY <1>2, <3>4, Untouched
                <5> QED BY <5>2, <5>3
            <4> QED BY <4>1, <4>2, <4>3, <4>4
        <3> HIDE DEF x, old
        <3>5. StillComing(x, github, h, R)
            BY <2>3, <3>1, <3>4 DEF StillComing
        <3> QED BY <3>5 DEF x
    <2> QED BY <2>2, <2>3
<1> QED BY <1>1, <1>2 DEF Follows

LEMMA GitHubStepStores ==
    ASSUME TypesInv, StoringInv, GitHubStep
    PROVE  StoringInv'
<1>1. Newest(github) /\ github \in Repository
    BY DEF StoringInv, TypesInv
<1>2. SUFFICES \E h, moved : Becomes(h, moved) /\ Follows(h, moved)
    BY BecomesStores
<1>3. CASE OpenIssue \/ OpenPull
    <2> DEFINE h == [github EXCEPT !.items = <<github.last + 1>> \o @, !.last = @ + 1]
    <2>1. Becomes(h, NothingMoves) /\ github.last + 1 \in Numbers
        BY <1>3 DEF OpenIssue, OpenPull, Numbers
    <2>2. \A m : Follows(h, m)
        BY <1>1, <2>1, OpenFollows
    <2> QED BY <2>1, <2>2
<1>4. ASSUME NEW i \in Issues, CloseOrReopen(i) PROVE \E h, moved : Becomes(h, moved) /\ Follows(h, moved)
    <2> DEFINE h == [github EXCEPT !.closed = IF i \in @ THEN @ \ {i} ELSE @ \cup {i}]
    <2>1. Becomes(h, NothingMoves)
        BY <1>4 DEF CloseOrReopen
    <2>2. h.items = github.items /\ h.head = github.head /\ h.last = github.last
        BY <1>1 DEF Repository
    <2> HIDE DEF h
    <2> QED BY <1>1, <2>1, <2>2, SameLists
<1>5. ASSUME NEW p \in Pulls, EditPull(p) PROVE \E h, moved : Becomes(h, moved) /\ Follows(h, moved)
    <2>1. PICK t : Becomes([github EXCEPT !.text[p] = t], NothingMoves)
        BY <1>5 DEF EditPull
    <2> DEFINE h == [github EXCEPT !.text[p] = t]
    <2>2. h.items = github.items /\ h.head = github.head /\ h.last = github.last
        BY <1>1 DEF Repository
    <2>3. Becomes(h, NothingMoves)
        BY <2>1
    <2> HIDE DEF h
    <2> QED BY <1>1, <2>2, <2>3, SameLists
<1>6. ASSUME NEW i \in Issues, DeleteIssue(i) PROVE \E h, moved : Becomes(h, moved) /\ Follows(h, moved)
    <2> DEFINE h == [github EXCEPT !.items = OnlyIn(@, Numbers \ {i})]
               moved == [j \in Imports |-> IF job[j].pc = "issues" /\ job[j].page > 1
                                           THEN {Node("Issue", n) : n \in {m \in Issues : m < i}} ELSE {}]
    <2>1. Becomes(h, moved)
        BY <1>6 DEF DeleteIssue
    <2>2. h \in Repository
        <3>1. github' = h
            BY <2>1 DEF Becomes
        <3>2. events \in Nat
            BY DEF TypesInv
        <3> HIDE DEF h
        <3> QED BY <1>1, <3>1, <3>2, GitHubTyped
    <2>3. \A j \in Imports : job[j].pc = "issues" /\ job[j].page > 1 =>
              \A n \in Issues : n < i => Node("Issue", n) \in moved[j]
        OBVIOUS
    <2>4. h = [github EXCEPT !.items = OnlyIn(@, Numbers \ {i})]
        OBVIOUS
    <2> HIDE DEF h, moved
    <2>5. Follows(h, moved)
        BY <1>1, <2>2, <2>3, <2>4, DeleteFollows
    <2> QED BY <2>1, <2>5
<1>7. ASSUME NEW p \in Pulls, NEW b \in Branches, MergePull(p, b)
      PROVE  \E h, moved : Becomes(h, moved) /\ Follows(h, moved)
    <2>1. PICK c \in MergedAs[p] :
              /\ github.head[b] \in SeqSet(Log[c])
              /\ Becomes([github EXCEPT !.merged[p] = c, !.head[b] = c], NothingMoves)
        BY <1>7 DEF MergePull
    <2> DEFINE h == [github EXCEPT !.merged[p] = c, !.head[b] = c]
    <2>2. Becomes(h, NothingMoves) /\ c \in Commits
        BY <2>1, ImportAssumption
    <2>3. h \in Repository
        <3>1. github' = h
            BY <2>2 DEF Becomes
        <3>2. events \in Nat
            BY DEF TypesInv
        <3> HIDE DEF h
        <3> QED BY <1>1, <3>1, <3>2, GitHubTyped
    <2>4. /\ h.items = github.items /\ h.last = github.last
          /\ h.head = [github.head EXCEPT ![b] = c]
        BY <1>1 DEF Repository
    <2> HIDE DEF h
    <2>5. Follows(h, NothingMoves)
        BY <1>1, <2>1, <2>2, <2>3, <2>4, HeadFollows
    <2> QED BY <2>2, <2>5
<1>8. ASSUME NEW b \in Branches, Push(b) PROVE \E h, moved : Becomes(h, moved) /\ Follows(h, moved)
    <2> DEFINE moved(c) == [j \in Imports |->
                               IF /\ job[j].pc = "commits" /\ job[j].page > 1
                                  /\ github.head[b] \notin SeqSet(Log[c])
                               THEN {Node("Commit", x) : x \in Commits} ELSE {}]
    <2>1. PICK c \in Commits : Becomes([github EXCEPT !.head[b] = c], moved(c))
        BY <1>8 DEF Push
    <2> DEFINE h == [github EXCEPT !.head[b] = c]
               m == moved(c)
    <2>2. Becomes(h, m)
        BY <2>1
    <2>3. h \in Repository
        <3>1. github' = h
            BY <2>2 DEF Becomes
        <3>2. events \in Nat
            BY DEF TypesInv
        <3> HIDE DEF h
        <3> QED BY <1>1, <3>1, <3>2, GitHubTyped
    <2>4. /\ h.items = github.items /\ h.last = github.last
          /\ h.head = [github.head EXCEPT ![b] = c]
        BY <1>1 DEF Repository
    <2>5. \/ github.head[b] \in SeqSet(Log[c])
          \/ \A j \in Imports : job[j].pc = "commits" /\ job[j].page > 1 =>
                 \A x \in Commits : Node("Commit", x) \in m[j]
        OBVIOUS
    <2> HIDE DEF h, m
    <2>6. Follows(h, m)
        BY <1>1, <2>3, <2>4, <2>5, HeadFollows
    <2> QED BY <2>2, <2>6
<1> QED BY <1>3, <1>4, <1>5, <1>6, <1>7, <1>8 DEF GitHubStep

-----------------------------------------------------------------------------
(* The steps of an import *)

NoStates(S) == \A x \in S : x[1] # "STATE"

\* What one import does leaves the others what they have.
LEMMA OneImportStores ==
    ASSUME TypesInv, StoringInv, NEW j \in Imports, github' = github,
           nodes \subseteq nodes', relations \subseteq relations',
           \A k \in Imports \ {j} : /\ job'[k] = job[k]
                                    /\ steady'[k] \subseteq steady[k] /\ NoStates(steady'[k]),
           StoringOf(j)'
    PROVE  StoringInv'
<1>1. ASSUME NEW k \in Imports \ {j} PROVE StoringOf(k)'
    <2> DEFINE x == job[k]
               S == steady[k]
               R == steady'[k]
    <2>1. /\ job'[k] = x /\ R \subseteq S /\ NoStates(R) /\ StoringOf(k)
          /\ x = job[k] /\ S = steady[k] /\ R = steady'[k]
        BY DEF StoringInv
    <2>2. x.todo \in Seq(Numbers \cup Commits)
        BY DEF StoringInv, StoringOf
    <2> HIDE DEF x, S, R
    <2>3. ASSUME x.pc \notin Ended
          PROVE  /\ R \subseteq Present(github, x.branch) /\ Reading(x, R, github)
                 /\ Saved(x, R, nodes', relations', state')
        <3>1. /\ S \subseteq Present(github, x.branch) /\ Reading(x, S, github)
              /\ Saved(x, S, nodes, relations, state)
            BY <2>1, <2>3 DEF StoringOf
        <3>2. StillComing(x, github, github, R)
            BY DEF StillComing
        <3>3. Reading(x, R, github)
            BY <2>1, <3>1, <3>2, ReadsLess
        <3>4. \A i, s : StateIs(i, s) \notin R
            <4>1. \A i, s : StateIs(i, s)[1] = "STATE"
                BY DEF StateIs, Relation
            <4> QED BY <2>1, <4>1 DEF NoStates
        <3>5. ASSUME x.pc = "save", NEW n \in 1..(x.op - 1) PROVE Did(x.doc, n, nodes', relations')
            <4>1. Did(x.doc, n, nodes, relations)
                BY <3>1, <3>5 DEF Saved
            <4> QED BY <4>1, DidMore
        <3>6. Saved(x, R, nodes', relations', state')
            BY <3>4, <3>5 DEF Saved
        <3> QED BY <2>1, <3>1, <3>3, <3>6
    <2>4. ASSUME x.pc = "done", NEW y \in R PROVE Stored(y)'
        <3>1. Stored(y)
            BY <2>1, <2>4 DEF StoringOf
        <3>2. y[1] # "STATE"
            BY <2>1, <2>4 DEF NoStates
        <3>3. IF Len(y) = 2 THEN y \in nodes ELSE y \in relations
            BY <3>1, <3>2 DEF Stored
        <3> QED BY <3>2, <3>3 DEF Stored
    <2>5. ASSUME NEW y \in R, y[1] = "STATE" PROVE FALSE
        BY <2>1, <2>5 DEF NoStates
    <2> QED BY <2>1, <2>2, <2>3, <2>4, <2>5 DEF StoringOf
<1>2. \A k \in Imports : StoringOf(k)'
    BY <1>1
<1>3. Newest(github')
    BY DEF StoringInv
<1> QED BY <1>2, <1>3 DEF StoringInv

\* While import j runs, no other has a state to keep.
LEMMA OthersHaveNoStates ==
    ASSUME StoringInv, NEW j \in Imports, job[j].pc \notin Ended, NEW k \in Imports \ {j}
    PROVE  NoStates(steady[k])
BY DEF StoringInv, StoringOf, NoStates

\* A step of an import that is running and goes on, or stops.
LEMMA RunningStores ==
    ASSUME TypesInv, StoringInv, NEW j \in Imports, job[j].pc \notin Ended,
           github' = github, steady' = steady,
           nodes \subseteq nodes', relations \subseteq relations',
           \A k \in Imports \ {j} : job'[k] = job[k],
           job'[j].todo \in Seq(Numbers \cup Commits),
           job'[j].pc \notin Ended => /\ Reading(job'[j], steady[j], github)
                                      /\ Saved(job'[j], steady[j], nodes', relations', state')
                                      /\ job'[j].branch = job[j].branch,
           job'[j].pc = "done" => \A y \in steady[j] : StoredIn(y, nodes', relations', state')
    PROVE  StoringInv'
<1>1. StoringOf(j)
    BY DEF StoringInv
<1>2. steady[j] \subseteq Present(github, job[j].branch)
    BY <1>1 DEF StoringOf
<1>3. \A x \in steady[j] : x[1] = "STATE" => \A k \in Imports \ {j} : job'[k].pc \in Ended
    BY <1>1 DEF StoringOf
<1>4. job'[j].pc = "done" => \A y \in steady'[j] : Stored(y)'
    BY DEF Stored, StoredIn
<1>5. StoringOf(j)'
    <2>1. job'[j].pc \notin Ended =>
              /\ steady'[j] \subseteq Present(github', job'[j].branch)
              /\ Reading(job'[j], steady'[j], github')
              /\ Saved(job'[j], steady'[j], nodes', relations', state')
        BY <1>2
    <2>2. \A x \in steady'[j] : x[1] = "STATE" => \A k \in Imports \ {j} : job'[k].pc \in Ended
        BY <1>3
    <2> QED BY <1>4, <2>1, <2>2 DEF StoringOf
<1>6. \A k \in Imports \ {j} : job'[k] = job[k] /\ steady'[k] \subseteq steady[k] /\ NoStates(steady'[k])
    BY OthersHaveNoStates
<1> QED BY <1>5, <1>6, OneImportStores

LEMMA IdleHas == Idle.op = 1 /\ DOMAIN Idle = Fields
BY DEF Idle, Fields

LEMMA StartStores ==
    ASSUME TableInv, TypesInv, StoringInv, NEW j \in Imports, NEW b \in Branches, Start(j, b)
    PROVE  StoringInv'
<1> DEFINE y == [Idle EXCEPT !.pc = "branches", !.branch = b]
           S == steady'[j]
           alone == \A k \in Imports : job[k].pc \in Ended
<1>1. /\ DOMAIN job = Imports /\ job' = [job EXCEPT ![j] = y]
      /\ github' = github /\ nodes' = nodes /\ relations' = relations /\ state' = state
      /\ steady' = [k \in Imports |->
                       IF k = j /\ alone THEN Present(github, b)
                       ELSE WithoutStates(IF k = j THEN Present(github, b) ELSE steady[k])]
    BY DEF Start, graph, TableInv
<1>2. /\ y.pc = "branches" /\ y.branch = b /\ y.page = 1 /\ y.todo = <<>> /\ y.op = 1
      /\ y.doc = EmptyDoc
    BY IdleShape, IdleHas DEF Fields
<1>3. job'[j] = y /\ \A k \in Imports \ {j} : job'[k] = job[k]
    BY <1>1
<1>4. /\ S \subseteq Present(github, b) /\ (~alone => NoStates(S))
      /\ \A k \in Imports \ {j} : steady'[k] \subseteq steady[k] /\ NoStates(steady'[k])
    <2> HIDE DEF alone
    <2> QED BY <1>1 DEF WithoutStates, NoStates
<1>5. Reading(y, S, github)
    <2> HIDE DEF y, S
    <2>1. HeadsRead(y, S)
        BY <1>2 DEF HeadsRead
    <2>2. \A i \in Issues : IssueRead(y, S, github, i)
        BY <1>2 DEF IssueRead
    <2>3. \A p \in Pulls : PullRead(y, S, github, p)
        BY <1>2 DEF PullRead, PullPhases, BeforePulls
    <2>4. \A c \in Commits : CommitRead(y, S, github, c)
        BY <1>2 DEF CommitRead, BeforeCommits, BeforePulls
    <2>5. Position(y)
        BY <1>2, OrderOfStatements DEF Position
    <2>6. Agrees(y, S)
        BY <1>2, IdleShape DEF Agrees
    <2> QED BY <2>1, <2>2, <2>3, <2>4, <2>5, <2>6 DEF Reading
<1>6. \A x \in S : x[1] = "STATE" => \A k \in Imports \ {j} : job'[k].pc \in Ended
    BY <1>3, <1>4 DEF NoStates
<1>7. StoringOf(j)'
    <2>1. /\ job'[j].todo \in Seq(Numbers \cup Commits) /\ job'[j].pc # "done"
          /\ Saved(job'[j], S, nodes', relations', state')
          /\ S \subseteq Present(github', job'[j].branch) /\ Reading(job'[j], S, github')
        <3>1. job'[j] = y /\ github' = github
            BY <1>1, <1>3
        <3>2. y.todo \in Seq(Numbers \cup Commits)
            <4> HIDE DEF y
            <4> QED BY <1>2
        <3>3. y.pc # "done" /\ y.pc # "save" /\ y.branch = b
            BY <1>2
        <3> HIDE DEF y, S, alone
        <3>4. Saved(y, S, nodes', relations', state')
            BY <3>3 DEF Saved
        <3> QED BY <1>4, <1>5, <3>1, <3>2, <3>3, <3>4
    <2> HIDE DEF y, alone
    <2> QED BY <1>6, <2>1 DEF StoringOf
<1>8. nodes \subseteq nodes' /\ relations \subseteq relations'
    BY <1>1
<1> QED BY <1>1, <1>3, <1>4, <1>7, <1>8, OneImportStores

LEMMA FailStores ==
    ASSUME TableInv, TypesInv, StoringInv, NEW j \in Imports, Fail(j)
    PROVE  StoringInv'
<1>1. /\ DOMAIN job = Imports /\ job' = [job EXCEPT ![j] = Idle] /\ job[j].pc \notin Ended
      /\ github' = github /\ steady' = steady /\ nodes' = nodes /\ relations' = relations
    BY DEF Fail, graph, world, TableInv
<1>2. /\ job'[j].todo = <<>> /\ job'[j].pc = "idle" /\ \A k \in Imports \ {j} : job'[k] = job[k]
    BY <1>1, IdleShape
<1>3. job'[j].todo \in Seq(Numbers \cup Commits)
    BY <1>2
<1>4. job'[j].pc \in Ended /\ job'[j].pc # "done"
    BY <1>2 DEF Ended
<1>5. nodes \subseteq nodes' /\ relations \subseteq relations'
    BY <1>1
<1> QED BY <1>1, <1>2, <1>3, <1>4, <1>5, RunningStores

LEMMA CollectStores ==
    ASSUME TableInv, TypesInv, StoringInv, NEW j \in Imports, Collect(j)
    PROVE  StoringInv'
<1>1. StoringOf(j)
    BY DEF StoringInv
<1>2. /\ job'[j].todo \in Seq(Numbers \cup Commits) /\ Reading(job'[j], steady[j], github)
    BY <1>1, CollectReads
<1>3. job[j].pc \notin Ended /\ job'[j].branch = job[j].branch
    BY CollectTyped
<1>4. job'[j].pc \notin {"save", "done"} /\ \A k \in Imports \ {j} : job'[k] = job[k]
    <2>1. job'[j].pc # "save" /\ \A k \in Imports \ {j} : job'[k] = job[k]
        BY CollectTouches DEF Upserting
    <2>2. job'[j].pc # "done"
        <3>1. DOMAIN job = Imports /\ DOMAIN job[j] = Fields
            BY DEF TableInv, JobShape
        <3> USE <3>1 DEF Fields
        <3>2. CASE ListBranches(j)
            BY <3>2 DEF ListBranches
        <3>3. CASE ListIssues(j)
            BY <3>3 DEF ListIssues, Reads
        <3>4. CASE GetIssue(j)
            BY <3>4 DEF GetIssue
        <3>5. CASE ListPulls(j)
            BY <3>5 DEF ListPulls, Reads
        <3>6. CASE GetPull(j)
            BY <3>6 DEF GetPull
        <3>7. CASE ListPullCommits(j)
            BY <3>7 DEF ListPullCommits
        <3>8. CASE ListPullFiles(j)
            BY <3>8 DEF ListPullFiles
        <3>9. CASE ListCommits(j)
            BY <3>9 DEF ListCommits, Reads
        <3>10. CASE GetCommit(j)
            BY <3>10 DEF GetCommit
        <3> QED BY <3>2, <3>3, <3>4, <3>5, <3>6, <3>7, <3>8, <3>9, <3>10 DEF Collect
    <2> QED BY <2>1, <2>2
<1>5. github' = github /\ steady' = steady /\ nodes' = nodes /\ relations' = relations
    BY DEF Collect, world, graph
<1>6. Saved(job'[j], steady[j], nodes', relations', state')
    BY <1>4 DEF Saved
<1> QED BY <1>2, <1>3, <1>4, <1>5, <1>6, RunningStores

LEMMA UpsertStores ==
    ASSUME TableInv, TypesInv, StoringInv, NEW j \in Imports, Find(j) \/ Flush(j) \/ CommitChanges(j)
    PROVE  StoringInv'
<1> DEFINE x == job[j]
           y == job'[j]
           S == steady[j]
           b == job[j].branch
<1>0. DOMAIN job = Imports /\ DOMAIN x = Fields /\ DOMAIN x.doc = DocFields
    BY DEF TableInv, JobShape, TypesInv
<1>1. /\ (x.pc = "commit" /\ x.todo = <<>>) \/ x.pc \in Upserting
      /\ y.pc \in Upserting \cup {"save"} /\ y.page = x.page /\ y.doc = x.doc
      /\ y.op = x.op /\ y.todo = x.todo /\ y.branch = x.branch
      /\ \A k \in Imports \ {j} : job'[k] = job[k]
    <2> USE <1>0 DEF Fields, Upserting
    <2>1. CASE Find(j)
        BY <2>1 DEF Find, Finished
    <2>2. CASE Flush(j)
        <3>1. \E row : job' = [job EXCEPT ![j].pc = "find", ![j].rows = Tail(@), ![j].found = None,
                                          ![j].tx[Head(job[j].rows)] = row,
                                          ![j].ids[Head(job[j].rows)] = row.id]
            BY <2>2 DEF Flush
        <3>2. x.pc = "flush"
            BY <2>2 DEF Flush
        <3> QED BY <3>1, <3>2
    <2>3. CASE CommitChanges(j)
        BY <2>3 DEF CommitChanges, Finished
    <2> QED BY <2>1, <2>2, <2>3
<1>2. github' = github /\ steady' = steady /\ nodes' = nodes /\ relations' = relations
    BY DEF Find, Flush, CommitChanges, world, graph
<1>3. x.pc \notin Ended /\ y.pc \notin Ended /\ x.pc # "save"
    BY <1>1 DEF Upserting, Ended
<1>4. ReadsFrom(x, S, github, b)
    BY <1>0, <1>3 DEF ReadsFrom, StoringInv, StoringOf, TypesInv
<1>5. x.op = 1 /\ x.todo \in Seq(Numbers \cup Commits)
    BY <1>3, <1>4 DEF ReadsFrom, Reading, Position
<1>6. Reading(y, S, github)
    <2>1. 1 \in 1..Len(Operations)
        BY OrderOfStatements
    <2> HIDE DEF x, y, S, b
    <2> QED BY <1>1, <1>4, <1>5, <2>1, CommitsGot
<1>7. Saved(y, S, nodes', relations', state')
    BY <1>1, <1>5 DEF Saved
<1>8. /\ job'[j].todo \in Seq(Numbers \cup Commits) /\ job'[j].branch = job[j].branch
      /\ Reading(job'[j], steady[j], github) /\ job[j].pc \notin Ended
      /\ Saved(job'[j], steady[j], nodes', relations', state') /\ job'[j].pc # "done"
    BY <1>1, <1>3, <1>5, <1>6, <1>7 DEF Ended
<1> HIDE DEF x, y, S, b
<1> QED BY <1>1, <1>2, <1>8, RunningStores

LEMMA SaveStoring ==
    ASSUME TableInv, TypesInv, StoringInv, NEW j \in Imports, SaveStatement(j)
    PROVE  StoringInv'
<1>1. StoringOf(j)
    BY DEF StoringInv
<1>2. job[j].pc \notin Ended
    BY DEF SaveStatement, Ended
<1>3. github' = github /\ steady' = steady
    BY DEF SaveStatement, world
<1>4. nodes \subseteq nodes' /\ relations \subseteq relations'
    BY DEF SaveStatement, SaveNodes, SaveRelations
<1>5. /\ job'[j].todo \in Seq(Numbers \cup Commits)
      /\ job'[j].pc \notin Ended =>
            /\ Reading(job'[j], steady[j], github)
            /\ Saved(job'[j], steady[j], nodes', relations', state')
            /\ job'[j].branch = job[j].branch
      /\ job'[j].pc = "done" =>
            \A y \in steady[j] : StoredIn(y, nodes', relations', state')
      /\ \A k \in Imports \ {j} : job'[k] = job[k]
    BY <1>1, SaveStores
<1> QED BY <1>2, <1>3, <1>4, <1>5, RunningStores

LEMMA StoringInitially == Init => StoringInv
<1> SUFFICES ASSUME Init PROVE StoringInv
    OBVIOUS
<1>1. Newest(github)
    BY OrderAssumption DEF Init
<1>2. ASSUME NEW j \in Imports PROVE StoringOf(j)
    <2>1. job[j] = Idle /\ steady[j] = {}
        BY DEF Init
    <2> QED BY <2>1, IdleShape DEF StoringOf, Ended
<1> QED BY <1>1, <1>2 DEF StoringInv

LEMMA StoringKept == TableInv /\ TypesInv /\ StoringInv /\ [Next]_vars => StoringInv'
<1> SUFFICES ASSUME TableInv, TypesInv, StoringInv, [Next]_vars PROVE StoringInv'
    OBVIOUS
<1>1. CASE UNCHANGED vars
    <2>1. \A j \in Imports : StoringOf(j)' = StoringOf(j)
        BY <1>1 DEF StoringOf, Stored, vars
    <2> QED BY <1>1, <2>1 DEF StoringInv, vars
<1>2. CASE GitHubStep
    BY <1>2, GitHubStepStores
<1>3. ASSUME NEW j \in Imports, ImportStep(j) PROVE StoringInv'
    BY <1>3, StartStores, CollectStores, UpsertStores, SaveStoring, FailStores DEF ImportStep
<1> QED BY <1>1, <1>2, <1>3 DEF Next

\* An import that was completed has stored all that was on GitHub throughout it and not
\* moved between the pages of a list: what was steady is still to come on a page of the
\* list that is read, or waits for a request, or is in the document, and the statements
\* that were executed have stored their part of it.
THEOREM StableKept == Spec => []StableIsStored
<1>1. StoringInv => StableIsStored
    BY DEF StoringInv, StoringOf, StableIsStored
<1>2. StoringInv /\ TableInv /\ TypesInv /\ [Next]_vars => StoringInv'
    BY StoringKept
<1>3. Spec => [](TableInv /\ TypesInv)
    BY TypesInvariant
<1> QED BY <1>1, <1>2, <1>3, StoringInitially, PTL DEF Spec
====
