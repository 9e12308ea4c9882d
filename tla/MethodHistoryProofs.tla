-------------------------- MODULE MethodHistoryProofs --------------------------
(***************************************************************************)
(* For every history, every set of branches and any number of overlapping  *)
(* and interrupted analyses: the events in the graph are changes of their  *)
(* commits, nothing is missing up to a checkpoint, and DERIVED_FROM leads  *)
(* to the body a method had last.                                          *)
(*                                                                         *)
(* RunInv carries the argument.  What one run stores is a function of its  *)
(* commit alone, because what it knows is always its first parent's tree;  *)
(* hence runs that overlap write the same events, and graph data that is   *)
(* there stays there.                                                      *)
(***************************************************************************)
EXTENDS MethodHistory, FiniteSetTheorems, WellFoundedInduction, TLAPS

\* TypeOK, and what a job's position in run_pipeline says of its variables.
TypeInv ==
    /\ TypeOK
    /\ \A j \in Jobs :
          /\ job[j].pc # "idle" => job[j].branch \in Branches
          /\ job[j].pc \notin {"idle", "history", "clone"} => job[j].head \in Commits
          /\ job[j].pc = "mark" => job[j].last \in Commits

-----------------------------------------------------------------------------
(* Git histories *)

\* The tree of a commit, or of nothing, gives every method a body or None.
LEMMA SourceType ==
    ASSUME NEW c \in Commits \cup {None}
    PROVE  /\ Source(c) \in [Methods -> Bodies \cup {None}]
           /\ Upto(c) \subseteq Commits
  BY HistoryAssumption, TreeAssumption DEF Source, Upto, Nothing

\* The oldest commit left is the child of the one the run stands at.
LEMMA NextCommit ==
    ASSUME NEW tip \in Commits, NEW last \in Commits \cup {None}, NEW c \in Commits,
           last # None => last \in Ancestors[tip],
           c \in Ancestors[tip] \ Upto(last),
           Ancestors[c] \cap (Ancestors[tip] \ Upto(last)) = {c}
    PROVE  /\ Parent[c] = last
           /\ Upto(c) = {c} \cup Upto(last)
           /\ c \notin Upto(last)
  <1>1. Ancestors[c] \subseteq Ancestors[tip]
    BY HistoryAssumption
  <1>2. CASE Parent[c] = None
    <2>1. Ancestors[c] = {c}
      BY <1>2, HistoryAssumption
    <2>2. ASSUME last # None PROVE FALSE
      <3>1. last \in Ancestors[c] \/ c \in Ancestors[last]
        BY <2>2, HistoryAssumption
      <3>2. c \notin Ancestors[last]
        BY <2>2 DEF Upto
      <3> QED
        BY <2>1, <2>2, <3>1, <3>2, HistoryAssumption
    <2> QED
      BY <1>2, <2>1, <2>2, TreeAssumption DEF Upto
  <1>3. CASE Parent[c] # None
    <2> DEFINE p == Parent[c]
    <2>1. /\ p \in Commits /\ p \in Ancestors[p]
          /\ Ancestors[c] = {c} \cup Ancestors[p]
          /\ c \notin Ancestors[p]
      BY <1>3, HistoryAssumption
    <2>2. p \in Upto(last)
      BY <1>1, <2>1
    <2>3. last # None /\ p \in Ancestors[last]
      BY <2>2 DEF Upto
    <2>4. last \in Ancestors[c] \/ c \in Ancestors[last]
      BY <2>3, HistoryAssumption
    <2>5. c \notin Ancestors[last]
      BY <2>3 DEF Upto
    <2>6. last \in Ancestors[p]
      BY <2>1, <2>3, <2>4, <2>5, HistoryAssumption
    <2>7. p = last
      BY <2>1, <2>3, <2>6, HistoryAssumption
    <2> QED
      BY <2>1, <2>3, <2>5, <2>7, TreeAssumption DEF Upto
  <1> QED
    BY <1>2, <1>3

\* What a commit does to a method whose file it does not parse again.
LEMMA Unparsed ==
    ASSUME NEW c \in Commits, NEW m \in Methods, m \notin Parsed(c)
    PROVE  IF m \in Popped(c) THEN Body[c][m] = None ELSE Body[c][m] = Before(c)[m]
  <1> DEFINE p      == PathOf[m]
             before == Files(Parent[c])
  <1>1. p \in Supported /\ p \in Paths
    BY TreeAssumption
  <1>2. Body[c][m] # None => p \in Tree[c]
    BY TreeAssumption
  <1>3. Before(c)[m] # None => p \in before
    BY TreeAssumption, HistoryAssumption DEF Before, Source, Nothing, Files
  <1>4. ASSUME NEW r \in Renamed[c]
        PROVE  r[1] \notin Tree[c] /\ r[2] \notin before
    BY <1>4, TreeAssumption DEF Files
  <1>5. \A ch \in Changes(c) : ch.old = p \/ ch.path = p => ch \in SupportedChanges(c)
    BY <1>1 DEF SupportedChanges
  <1>6. CASE m \in Popped(c)
    <2>1. PICK ch \in SupportedChanges(c) : ch.old = p
      BY <1>6 DEF Popped
    <2>2. SUFFICES ASSUME Body[c][m] # None PROVE FALSE
      BY <1>6
    <2>3. ch.status # "D" => ch.path # p
      BY <2>1, <2>2 DEF Parsed
    <2>4. p \in Tree[c]
      BY <1>2, <2>2
    <2> QED
      BY <1>4, <2>1, <2>3, <2>4 DEF SupportedChanges, Changes
  <1>7. CASE m \notin Popped(c)
    <2>1. \A ch \in Changes(c) : ch.old # p
      BY <1>5, <1>7 DEF Popped
    <2>2. ASSUME p \in Tree[c], p \in before, Body[c][m] # Before(c)[m] PROVE FALSE
      <3>1. [status |-> "M", old |-> p, path |-> p] \in Changes(c)
        BY <1>1, <2>2 DEF Changes, Before
      <3> QED
        BY <2>1, <3>1
    <2>3. ASSUME p \in Tree[c], p \notin before, Body[c][m] # None PROVE FALSE
      <3>1. CASE \E r \in Renamed[c] : r[2] = p
        <4>1. PICK r \in Renamed[c] : r[2] = p
          BY <3>1
        <4>2. [status |-> "R", old |-> r[1], path |-> p] \in Changes(c)
          BY <4>1 DEF Changes
        <4>3. [status |-> "R", old |-> r[1], path |-> p] \in SupportedChanges(c)
          BY <1>5, <4>2
        <4> QED
          BY <2>3, <4>3 DEF Parsed
      <3>2. CASE ~ \E r \in Renamed[c] : r[2] = p
        <4>1. [status |-> "A", old |-> p, path |-> p] \in Changes(c)
          BY <2>3, <3>2 DEF Changes
        <4> QED
          BY <2>1, <4>1
      <3> QED
        BY <3>1, <3>2
    <2>4. ASSUME p \notin Tree[c], p \in before PROVE FALSE
      <3>1. CASE \E r \in Renamed[c] : r[1] = p
        <4>1. PICK r \in Renamed[c] : r[1] = p
          BY <3>1
        <4>2. [status |-> "R", old |-> p, path |-> r[2]] \in Changes(c)
          BY <4>1 DEF Changes
        <4> QED
          BY <2>1, <4>2
      <3>2. CASE ~ \E r \in Renamed[c] : r[1] = p
        <4>1. [status |-> "D", old |-> p, path |-> p] \in Changes(c)
          BY <2>4, <3>2 DEF Changes
        <4> QED
          BY <2>1, <4>1
      <3> QED
        BY <3>1, <3>2
    <2> QED
      BY <1>2, <1>3, <1>7, <2>2, <2>3, <2>4
  <1> QED
    BY <1>6, <1>7

\* What SaveCommit stores is what the commit changes, given its parent's tree.
LEMMA Changed ==
    ASSUME NEW c \in Commits
    PROVE  /\ \A m \in Parsed(c) : m \in Methods /\ Body[c][m] \in Bodies
           /\ {m \in Parsed(c) : Before(c)[m] # Body[c][m]}
                = {m \in Methods : Body[c][m] \notin {None, Before(c)[m]}}
           /\ {m \in Popped(c) : Before(c)[m] # None /\ m \notin Parsed(c)}
                = {m \in Methods : Body[c][m] = None /\ Before(c)[m] # None}
  <1>1. \A m \in Parsed(c) : m \in Methods /\ Body[c][m] # None
    BY DEF Parsed
  <1>2. \A m \in Popped(c) : m \in Methods
    BY DEF Popped
  <1>3. \A m \in Methods : Body[c][m] \in Bodies \cup {None}
    BY TreeAssumption
  <1>4. \A m \in Methods : m \notin Parsed(c) =>
          IF m \in Popped(c) THEN Body[c][m] = None ELSE Body[c][m] = Before(c)[m]
    BY Unparsed
  <1> QED
    BY <1>1, <1>2, <1>3, <1>4

-----------------------------------------------------------------------------
(* Steps *)

\* Nothing is ever taken out of the graph.
LEMMA GraphGrows ==
    ASSUME [Next]_vars
    PROVE  /\ versions \subseteq versions'
           /\ introduced \subseteq introduced'
           /\ deletedIn \subseteq deletedIn'
  <1>1. CASE \E b \in Branches : Reregister(b) \/ \E c \in Commits : Push(b, c)
    BY <1>1 DEF Reregister, Push, graph
  <1>2. ASSUME NEW j \in Jobs,
               \/ \E b \in Branches : Start(j, b)
               \/ ImportHistory(j) \/ Clone(j) \/ LoadBaseline(j)
               \/ SaveSnapshot(j) \/ Finish(j) \/ Fail(j)
        PROVE  /\ versions \subseteq versions'
               /\ introduced \subseteq introduced'
               /\ deletedIn \subseteq deletedIn'
    BY <1>2 DEF Start, ImportHistory, Clone, LoadBaseline, SaveSnapshot, Finish, Fail, graph
  <1>3. ASSUME NEW j \in Jobs, NEW c \in Commits, SaveCommit(j, c)
        PROVE  /\ versions \subseteq versions'
               /\ introduced \subseteq introduced'
               /\ deletedIn \subseteq deletedIn'
    BY <1>3 DEF SaveCommit
  <1>4. ASSUME NEW j \in Jobs, MarkDeleted(j)
        PROVE  /\ versions \subseteq versions'
               /\ introduced \subseteq introduced'
               /\ deletedIn \subseteq deletedIn'
    BY <1>4 DEF MarkDeleted
  <1>5. CASE UNCHANGED vars
    BY <1>5 DEF vars
  <1> QED
    BY <1>1, <1>2, <1>3, <1>4, <1>5 DEF Next

\* What is stored of a commit stays stored.
LEMMA StoredStays ==
    ASSUME [Next]_vars, NEW c
    PROVE  /\ Stored(c) => Stored(c)'
           /\ EventsComplete(c) => EventsComplete(c)'
           /\ IntroductionsOf(c) => IntroductionsOf(c)'
  BY GraphGrows DEF Stored, EventsComplete, IntroductionsOf, Before, Source, Nothing

\* What a run relies on does not depend on what other runs do.
LEMMA OtherJobs ==
    ASSUME [Next]_vars, NEW j \in Jobs, job'[j] = job[j], Walking(j), StandsAt(j)
    PROVE  StandsAt(j)'
  BY StoredStays DEF StandsAt, Left, At, LastSeen

-----------------------------------------------------------------------------
(* Types *)

LEMMA InitType == Init => TypeInv
  <1> SUFFICES ASSUME Init PROVE TypeInv
    OBVIOUS
  <1>1. IdleJob \in Job
    BY DEF IdleJob, Job, JobPc, Nothing
  <1> QED
    BY <1>1 DEF Init, TypeInv, TypeOK, IdleJob

LEMMA StepType == TypeInv /\ [Next]_vars => TypeInv'
  <1> SUFFICES ASSUME TypeInv, [Next]_vars PROVE TypeInv'
    OBVIOUS
  <1> USE DEF TypeInv, TypeOK
  <1>1. IdleJob \in Job /\ IdleJob.pc = "idle"
    BY DEF IdleJob, Job, JobPc, Nothing
  <1>2. CASE \E b \in Branches : Reregister(b) \/ \E c \in Commits : Push(b, c)
    BY <1>2 DEF Reregister, Push, graph
  <1>3. ASSUME NEW j \in Jobs, NEW b \in Branches, Start(j, b)
        PROVE  TypeInv'
    <2>1. [IdleJob EXCEPT !.pc = "history", !.branch = b] \in Job
      BY DEF IdleJob, Job, JobPc, Nothing
    <2>2. [IdleJob EXCEPT !.pc = "history", !.branch = b].pc = "history"
          /\ [IdleJob EXCEPT !.pc = "history", !.branch = b].branch = b
      BY DEF IdleJob
    <2> QED
      BY <1>3, <2>1, <2>2 DEF Start, graph
  <1>4. ASSUME NEW j \in Jobs, ImportHistory(j)
        PROVE  TypeInv'
    <2>1. parents' \subseteq Commits \X Commits
      <3>1. \A c \in Commits : AllParents(c) \subseteq Commits
        BY HistoryAssumption DEF AllParents
      <3>2. Reachable(head[job[j].branch]) \subseteq Commits
        BY DEF Reachable
      <3> QED
        BY <1>4, <3>1, <3>2 DEF ImportHistory
    <2>2. [job[j] EXCEPT !.pc = "clone"] \in Job
      BY DEF Job, JobPc
    <2>3. job' = [job EXCEPT ![j] = [@ EXCEPT !.pc = "clone"]]
      BY <1>4 DEF ImportHistory
    <2>4. [job[j] EXCEPT !.pc = "clone"].pc = "clone"
          /\ [job[j] EXCEPT !.pc = "clone"].branch = job[j].branch
      BY DEF Job
    <2> QED
      BY <1>4, <2>1, <2>2, <2>3, <2>4 DEF ImportHistory, At
  <1>5. ASSUME NEW j \in Jobs, Clone(j)
        PROVE  TypeInv'
    <2> DEFINE x == [job[j] EXCEPT !.pc = "checkpoint", !.head = head[job[j].branch]]
    <2>1. job[j].branch \in Branches /\ job[j] \in Job
      BY <1>5 DEF Clone, At
    <2>2. x \in Job /\ x.pc = "checkpoint" /\ x.branch \in Branches /\ x.head \in Commits
      BY <2>1 DEF Job, JobPc
    <2>3. job' = [job EXCEPT ![j] = x]
      BY <1>5 DEF Clone
    <2> HIDE DEF x
    <2> QED
      BY <1>5, <2>2, <2>3 DEF Clone, graph
  <1>6. ASSUME NEW j \in Jobs, LoadBaseline(j)
        PROVE  TypeInv'
    <2> DEFINE after == checkpoint[job[j].branch]
               todo  == Ancestors[job[j].head] \ Upto(after)
    <2>1. after \in Commits \cup {None} /\ job[j].head \in Commits /\ job[j] \in Job
      BY <1>6 DEF LoadBaseline, At
    <2>2. Baseline(after) \in [Methods -> Bodies \cup {None}]
      BY <2>1, SourceType DEF Baseline
    <2>3. todo \subseteq Commits
      BY <2>1, HistoryAssumption
    <2>4. NextPc(todo) \in {"snapshot", "save"}
      BY DEF NextPc
    <2> HIDE DEF after, todo
    <2>5. job' = [job EXCEPT ![j] = [@ EXCEPT !.pc = NextPc(todo), !.todo = todo, !.last = after,
                                              !.known = Baseline(after),
                                              !.previous = Baseline(after)]]
      BY <1>6 DEF LoadBaseline, after, todo
    <2> DEFINE x == [job[j] EXCEPT !.pc = NextPc(todo), !.todo = todo, !.last = after,
                                   !.known = Baseline(after), !.previous = Baseline(after)]
    <2>6. /\ x \in Job /\ x.pc = NextPc(todo)
          /\ x.branch = job[j].branch /\ x.head = job[j].head
      BY <2>1, <2>2, <2>3, <2>4 DEF Job, JobPc
    <2>7. job[j].branch \in Branches
      BY <1>6 DEF LoadBaseline, At
    <2> HIDE DEF x
    <2> QED
      BY <1>6, <2>1, <2>4, <2>5, <2>6, <2>7 DEF LoadBaseline, graph, x
  <1>7. ASSUME NEW j \in Jobs, NEW c \in Commits, SaveCommit(j, c)
        PROVE  TypeInv'
    <2>1. job[j] \in Job
      OBVIOUS
    <2>2. \A m \in Parsed(c) : m \in Methods /\ Body[c][m] \in Bodies
      BY Changed
    <2>3. /\ job[j].known \in [Methods -> Bodies \cup {None}]
          /\ job[j].previous \in [Methods -> Bodies \cup {None}]
      BY <2>1 DEF Job
    <2>4. Gone(j, c) \subseteq Methods
      BY DEF Gone, Popped
    <2>5. versions' \subseteq Methods \X Bodies
      BY <1>7, <2>2 DEF SaveCommit
    <2>6. introduced' \subseteq Methods \X Bodies \X Commits
      BY <1>7, <2>2 DEF SaveCommit, Introduced
    <2>7. derived' \subseteq Methods \X Bodies \X Bodies
      BY <1>7, <2>2, <2>3 DEF SaveCommit, Ancestry
    <2>8. parents' \subseteq Commits \X Commits
      BY <1>7, HistoryAssumption DEF SaveCommit
    <2> DEFINE known == [m \in Methods |-> IF m \in Parsed(c) THEN Body[c][m]
                                           ELSE IF m \in Popped(c) THEN None
                                           ELSE job[j].known[m]]
               previous == [m \in Methods |-> IF m \in Parsed(c) THEN Body[c][m]
                                              ELSE job[j].previous[m]]
    <2>9. known \in [Methods -> Bodies \cup {None}] /\ previous \in [Methods -> Bodies \cup {None}]
      BY <2>2, <2>3
    <2>10. job' = [job EXCEPT ![j] = [@ EXCEPT !.pc = "mark", !.last = c, !.known = known,
                                               !.previous = previous, !.gone = Gone(j, c)]]
      BY <1>7 DEF SaveCommit
    <2> HIDE DEF known, previous
    <2> DEFINE x == [job[j] EXCEPT !.pc = "mark", !.last = c, !.known = known,
                                   !.previous = previous, !.gone = Gone(j, c)]
    <2>11. /\ x \in Job /\ x.pc = "mark" /\ x.last = c
           /\ x.branch = job[j].branch /\ x.head = job[j].head
      BY <2>1, <2>4, <2>9 DEF Job, JobPc
    <2>12. job[j].branch \in Branches /\ job[j].head \in Commits
      BY <1>7 DEF SaveCommit, At
    <2>13. job' = [job EXCEPT ![j] = x]
      BY <2>10
    <2> HIDE DEF x
    <2> QED
      BY <1>7, <2>5, <2>6, <2>7, <2>8, <2>11, <2>12, <2>13 DEF SaveCommit
  <1>8. ASSUME NEW j \in Jobs, MarkDeleted(j)
        PROVE  TypeInv'
    <2> DEFINE rest == job[j].todo \ {job[j].last}
    <2>1. job[j] \in Job /\ job[j].last \in Commits /\ job[j].gone \subseteq Methods
      BY <1>8 DEF MarkDeleted, At, Job
    <2>2. deletedIn' \subseteq Methods \X Commits
      BY <1>8, <2>1 DEF MarkDeleted
    <2>3. rest \subseteq Commits
      BY <2>1 DEF Job
    <2>4. NextPc(rest) \in {"snapshot", "save"}
      BY DEF NextPc
    <2>5. job' = [job EXCEPT ![j] = [@ EXCEPT !.pc = NextPc(rest), !.todo = rest, !.gone = {}]]
      BY <1>8 DEF MarkDeleted
    <2> HIDE DEF rest
    <2>6. job' \in [Jobs -> Job]
      BY <2>1, <2>3, <2>4, <2>5 DEF Job, JobPc
    <2> QED
      BY <1>8, <2>1, <2>2, <2>4, <2>5, <2>6 DEF MarkDeleted, At, Job
  <1>9. ASSUME NEW j \in Jobs, SaveSnapshot(j)
        PROVE  TypeInv'
    <2>1. job[j].head \in Commits /\ job[j] \in Job
      BY <1>9 DEF SaveSnapshot, At
    <2>2. versions' \subseteq Methods \X Bodies
      BY <1>9, <2>1, TreeAssumption DEF SaveSnapshot
    <2>3. job' \in [Jobs -> Job]
      BY <1>9, <2>1 DEF SaveSnapshot, Job, JobPc
    <2> QED
      BY <1>9, <2>1, <2>2, <2>3 DEF SaveSnapshot, At, Job
  <1>10. ASSUME NEW j \in Jobs, Finish(j)
         PROVE  TypeInv'
    <2>1. job[j] \in Job /\ job[j].branch \in Branches /\ job[j].last \in Commits \cup {None}
      BY <1>10 DEF Finish, At, Job
    <2> QED
      BY <1>1, <1>10, <2>1 DEF Finish, graph
  <1>11. ASSUME NEW j \in Jobs, Fail(j)
         PROVE  TypeInv'
    BY <1>1, <1>11 DEF Fail, graph
  <1>12. CASE UNCHANGED vars
    BY <1>12 DEF vars
  <1> QED
    BY <1>2, <1>3, <1>4, <1>5, <1>6, <1>7, <1>8, <1>9, <1>10, <1>11, <1>12 DEF Next

\* Every variable keeps the shape the code gives it (index, run_pipeline).
THEOREM HistoryTypes == Spec => []TypeOK
  <1>1. Spec => []TypeInv
    BY InitType, StepType, PTL DEF Spec
  <1>2. TypeInv => TypeOK
    BY DEF TypeInv
  <1> QED
    BY <1>1, <1>2, PTL

-----------------------------------------------------------------------------
(* Where a run stands *)

\* The commit SaveCommit takes is the child of the commit the run stands at,
\* and the run knows that commit's tree.
LEMMA SaveNext ==
    ASSUME TypeInv, NEW j \in Jobs, NEW c \in Commits, SaveCommit(j, c), StandsAt(j)
    PROVE  /\ c \in Ancestors[job[j].head]
           /\ Parent[c] = job[j].last
           /\ Upto(c) = {c} \cup Upto(job[j].last)
           /\ c \notin Upto(job[j].last)
           /\ job[j].todo = Ancestors[job[j].head] \ Upto(job[j].last)
           /\ job[j].known = Before(c)
  <1>1. job[j].head \in Commits /\ job[j].last \in Commits \cup {None}
    BY DEF TypeInv, TypeOK, Job, SaveCommit, At
  <1>2. job[j].todo = Ancestors[job[j].head] \ Upto(job[j].last)
    BY DEF SaveCommit, StandsAt, Left, At
  <1>3. c \in job[j].todo /\ Ancestors[c] \cap job[j].todo = {c}
    BY DEF SaveCommit, Oldest
  <1>4. job[j].last # None => job[j].last \in Ancestors[job[j].head]
    BY DEF StandsAt
  <1>5. /\ Parent[c] = job[j].last
        /\ Upto(c) = {c} \cup Upto(job[j].last)
        /\ c \notin Upto(job[j].last)
    BY <1>1, <1>2, <1>3, <1>4, NextCommit
  <1> QED
    BY <1>2, <1>3, <1>5 DEF StandsAt, Before

\* The thread's variables after SaveCommit.
LEMMA SaveJob ==
    ASSUME TypeInv, NEW j \in Jobs, NEW c \in Commits, SaveCommit(j, c)
    PROVE  /\ job'[j].pc = "mark" /\ job'[j].last = c
           /\ job'[j].head = job[j].head /\ job'[j].todo = job[j].todo
           /\ job'[j].gone = Gone(j, c)
           /\ job'[j].known = [m \in Methods |-> IF m \in Parsed(c) THEN Body[c][m]
                                                 ELSE IF m \in Popped(c) THEN None
                                                 ELSE job[j].known[m]]
           /\ job'[j].previous = [m \in Methods |-> IF m \in Parsed(c) THEN Body[c][m]
                                                    ELSE job[j].previous[m]]
  BY DEF TypeInv, TypeOK, SaveCommit, Job

\* After SaveCommit the run knows the tree of the commit it saved.
LEMMA SaveKnown ==
    ASSUME TypeInv, NEW j \in Jobs, NEW c \in Commits, SaveCommit(j, c), StandsAt(j)
    PROVE  job'[j].known = Source(c)
  <1>1. Source(c) \in [Methods -> Bodies \cup {None}] /\ Source(c) = Body[c]
    BY TreeAssumption DEF Source
  <1>2. \A m \in Methods : m \notin Parsed(c) =>
          IF m \in Popped(c) THEN Body[c][m] = None ELSE Body[c][m] = job[j].known[m]
    BY Unparsed, SaveNext
  <1>3. job'[j].known = [m \in Methods |-> IF m \in Parsed(c) THEN Body[c][m]
                                            ELSE IF m \in Popped(c) THEN None
                                            ELSE job[j].known[m]]
    BY SaveJob
  <1>4. \A m \in Methods : job'[j].known[m] = Body[c][m]
    BY <1>2, <1>3
  <1> QED
    BY <1>1, <1>3, <1>4

\* previous_versions after SaveCommit: the body each method had last.
LEMMA SavePrevious ==
    ASSUME TypeInv, NEW j \in Jobs, NEW c \in Commits, SaveCommit(j, c), StandsAt(j),
           NEW m \in Methods, job'[j].previous[m] # None
    PROVE  LastSeen(job'[j].previous[m], m, c)
  <1> DEFINE last == job[j].last
  <1>1. /\ Parent[c] = last /\ Upto(c) = {c} \cup Upto(last)
        /\ job[j].known = Before(c)
    BY SaveNext
  <1>2. job'[j].previous = [n \in Methods |-> IF n \in Parsed(c) THEN Body[c][n]
                                               ELSE job[j].previous[n]]
    BY SaveJob
  <1>3. job'[j].previous[m] = IF m \in Parsed(c) THEN Body[c][m] ELSE job[j].previous[m]
    BY <1>2
  <1>4. Upto(c) = Ancestors[c] /\ c \in Ancestors[c]
    BY HistoryAssumption, TreeAssumption DEF Upto
  <1>5. CASE Body[c][m] # None
    <2>1. \A d \in Upto(c) : d \in Ancestors[c]
      BY <1>4
    <2>2. job'[j].previous[m] = Body[c][m]
      <3>1. CASE m \in Parsed(c)
        BY <1>3, <3>1
      <3>2. CASE m \notin Parsed(c)
        <4>1. Body[c][m] = Before(c)[m]
          BY <1>5, <3>2, Unparsed
        <4>2. last # None /\ Body[last][m] = Body[c][m]
          BY <1>1, <1>5, <4>1 DEF Before, Source, Nothing
        <4>3. last \in Commits /\ last \in Ancestors[last]
          BY <1>1, <4>2, HistoryAssumption
        <4>4. job'[j].previous[m] = job[j].previous[m]
          BY <1>3, <3>2
        <4>5. PICK e \in Upto(last) :
                 /\ Body[e][m] = job[j].previous[m]
                 /\ \A d \in Upto(last) : Body[d][m] # None => d \in Ancestors[e]
          BY <4>4 DEF StandsAt, LastSeen
        <4>6. last \in Ancestors[e] /\ e \in Ancestors[last]
          BY <1>5, <4>2, <4>3, <4>5 DEF Upto
        <4>7. e = last
          BY <4>3, <4>6, HistoryAssumption
        <4> QED
          BY <4>2, <4>4, <4>5, <4>7
      <3> QED
        BY <3>1, <3>2
    <2> QED
      BY <1>1, <2>1, <2>2 DEF LastSeen
  <1>6. CASE Body[c][m] = None
    <2>1. m \notin Parsed(c)
      BY <1>6 DEF Parsed
    <2>2. job'[j].previous[m] = job[j].previous[m]
      BY <1>3, <2>1
    <2>3. LastSeen(job[j].previous[m], m, last)
      BY <2>2 DEF StandsAt
    <2> QED
      BY <1>1, <1>6, <2>2, <2>3 DEF LastSeen
  <1> QED
    BY <1>5, <1>6

\* Every method of the saved commit has its version, old or new, in the graph.
LEMMA SaveStored ==
    ASSUME TypeInv, NEW j \in Jobs, NEW c \in Commits, SaveCommit(j, c), StandsAt(j)
    PROVE  Stored(c)' /\ IntroductionsOf(c)'
  <1>1. ASSUME NEW m \in Methods, Body[c][m] # None
        PROVE  <<m, Body[c][m]>> \in versions'
    <2>1. CASE m \in Parsed(c)
      BY <2>1 DEF SaveCommit
    <2>2. CASE m \notin Parsed(c)
      <3>1. Body[c][m] = Source(job[j].last)[m]
        BY <1>1, <2>2, Unparsed, SaveNext DEF Before
      <3>2. job[j].last # None /\ Body[c][m] = Body[job[j].last][m]
        BY <1>1, <3>1 DEF Source, Nothing
      <3>3. job[j].last \in Upto(job[j].last)
        BY <3>2, SaveNext, HistoryAssumption DEF Upto
      <3>4. <<m, Body[c][m]>> \in versions
        BY <1>1, <3>2, <3>3 DEF StandsAt, Stored
      <3> QED
        BY <3>4 DEF SaveCommit
    <2> QED
      BY <2>1, <2>2
  <1>2. ASSUME NEW m \in Methods, Body[c][m] \notin {None, Before(c)[m]}
        PROVE  <<m, Body[c][m], c>> \in introduced'
    <2>1. m \in Introduced(j, c)
      BY <1>2, Changed, SaveNext DEF Introduced
    <2> QED
      BY <2>1 DEF SaveCommit
  <1> QED
    BY <1>1, <1>2 DEF Stored, IntroductionsOf, Before, Source, Nothing

LEMMA SaveStands ==
    ASSUME TypeInv, NEW j \in Jobs, NEW c \in Commits, SaveCommit(j, c), StandsAt(j)
    PROVE  StandsAt(j)'
  <1> DEFINE last == job[j].last
  <1>1. [Next]_vars
    BY DEF Next
  <1>2. /\ c \in Ancestors[job[j].head] /\ Upto(c) = {c} \cup Upto(last)
        /\ c \notin Upto(last)
        /\ job[j].todo = Ancestors[job[j].head] \ Upto(last)
    BY SaveNext
  <1>3. \A d \in Upto(last) : Stored(d)' /\ EventsComplete(d)'
    <2>1. \A d \in Upto(last) : Stored(d) /\ EventsComplete(d)
      BY DEF StandsAt, SaveCommit, At, Upto
    <2> QED
      BY <1>1, <2>1, StoredStays
  <1>4. Stored(c)' /\ IntroductionsOf(c)'
    BY SaveStored
  <1>5. Gone(j, c) = {m \in Methods : Body[c][m] = None /\ Before(c)[m] # None}
    BY Changed, SaveNext DEF Gone
  <1>6. \A m \in Methods : job'[j].previous[m] # None => LastSeen(job'[j].previous[m], m, c)
    BY SavePrevious
  <1>7. /\ job'[j].pc = "mark" /\ job'[j].last = c
        /\ job'[j].head = job[j].head /\ job'[j].todo = job[j].todo
        /\ job'[j].gone = Gone(j, c)
        /\ job'[j].known = Source(c)
    BY SaveJob, SaveKnown
  <1> QED
    BY <1>2, <1>3, <1>4, <1>5, <1>6, <1>7 DEF StandsAt, Left, At, LastSeen, Before, Source, Nothing

\* A checkpoint's first parents are all there.
CheckpointInv ==
    \A b \in Branches : \A c \in Upto(checkpoint[b]) : EventsComplete(c) /\ Stored(c)

LEMMA BaselineStands ==
    ASSUME TypeInv, CheckpointInv, NEW j \in Jobs, LoadBaseline(j)
    PROVE  StandsAt(j)'
  <1> DEFINE after == checkpoint[job[j].branch]
             todo  == Ancestors[job[j].head] \ Upto(after)
  <1>1. /\ job[j].branch \in Branches /\ job[j].head \in Commits
        /\ after \in Commits \cup {None} /\ job[j] \in Job
    BY DEF TypeInv, TypeOK, LoadBaseline, At
  <1>2. /\ job'[j].pc \in {"snapshot", "save"} /\ job'[j].todo = todo /\ job'[j].last = after
        /\ job'[j].head = job[j].head
        /\ job'[j].known = Source(after) /\ job'[j].previous = Source(after)
    BY <1>1 DEF LoadBaseline, Baseline, NextPc, Job, TypeInv, TypeOK
  <1>3. after # None => after \in Ancestors[job[j].head]
    BY DEF LoadBaseline
  <1>4. /\ versions' = versions /\ introduced' = introduced /\ deletedIn' = deletedIn
    BY DEF LoadBaseline, graph
  <1>5. \A c \in Upto(after) : EventsComplete(c)' /\ Stored(c)'
    BY <1>1, <1>4 DEF CheckpointInv, EventsComplete, Stored, Before, Source, Nothing
  <1>6. after # None => after \in Upto(after) /\ Upto(after) = Ancestors[after]
    BY <1>1, HistoryAssumption DEF Upto
  <1>7. ASSUME NEW m \in Methods, Source(after)[m] # None
        PROVE  LastSeen(Source(after)[m], m, after)
    <2>1. after # None /\ Source(after)[m] = Body[after][m]
      BY <1>7 DEF Source, Nothing
    <2> QED
      BY <1>6, <2>1 DEF LastSeen
  <1> HIDE DEF after, todo
  <1> QED
    BY <1>2, <1>3, <1>5, <1>6, <1>7 DEF StandsAt, Left, At, LastSeen, todo

\* The second transaction completes the events of the commit.
LEMMA MarkStands ==
    ASSUME TypeInv, NEW j \in Jobs, MarkDeleted(j), StandsAt(j)
    PROVE  StandsAt(j)'
  <1> DEFINE last == job[j].last
             rest == job[j].todo \ {last}
  <1>1. [Next]_vars
    BY DEF Next
  <1>2. /\ job[j] \in Job /\ last \in Commits /\ job[j].gone \subseteq Methods
        /\ At(j, "mark")
    BY DEF TypeInv, TypeOK, MarkDeleted, At, Job
  <1>3. /\ job'[j].pc \in {"snapshot", "save"} /\ job'[j].todo = rest /\ job'[j].last = last
        /\ job'[j].head = job[j].head
        /\ job'[j].known = job[j].known /\ job'[j].previous = job[j].previous
    BY <1>2 DEF MarkDeleted, NextPc, Job, TypeInv, TypeOK
  <1>4. last # None /\ last \in Upto(last)
    BY <1>2, HistoryAssumption, TreeAssumption DEF Upto
  <1>5. \A c \in Upto(last) : Stored(c) /\ Stored(c)'
    BY <1>1, StoredStays DEF StandsAt
  <1>6. \A c \in Upto(last) \ {last} : EventsComplete(c)'
    BY <1>1, StoredStays DEF StandsAt
  <1>7. /\ IntroductionsOf(last)
        /\ job[j].gone = {m \in Methods : Body[last][m] = None /\ Before(last)[m] # None}
    BY <1>2 DEF StandsAt
  <1>8. ASSUME NEW m \in Methods, Body[last][m] = None, Before(last)[m] # None
        PROVE  <<m, last>> \in deletedIn'
    <2> DEFINE p == Parent[last]
    <2>1. p # None /\ Before(last)[m] = Body[p][m]
      BY <1>8 DEF Before, Source, Nothing
    <2>2. p \in Commits /\ p \in Upto(last)
      BY <1>2, <1>4, <2>1, HistoryAssumption DEF Upto
    <2>3. Body[p][m] \in Bodies
      BY <1>8, <2>1, <2>2, TreeAssumption
    <2>4. <<m, Body[p][m]>> \in versions
      BY <1>5, <1>8, <2>1, <2>2 DEF Stored
    <2> QED
      BY <1>7, <1>8, <2>3, <2>4 DEF MarkDeleted
  <1>9. ASSUME NEW c \in {last} PROVE EventsComplete(c)'
    <2>1. c = last
      BY <1>9
    <2>2. ASSUME NEW m \in Methods, Body[c][m] # Before(c)[m], Body[c][m] # None
          PROVE  <<m, Body[c][m]>> \in versions' /\ <<m, Body[c][m], c>> \in introduced'
      BY <1>1, <1>4, <1>5, <1>7, <2>1, <2>2, GraphGrows DEF Stored, IntroductionsOf
    <2>3. Before(c)' = Before(c)
      BY DEF Before, Source, Nothing
    <2> QED
      BY <1>8, <2>1, <2>2, <2>3 DEF EventsComplete
  <1>10. Left(j)' = Ancestors[job[j].head] \ Upto(last)
    BY <1>2, <1>3 DEF StandsAt, Left, At
  <1> HIDE DEF last, rest
  <1> QED
    BY <1>3, <1>5, <1>6, <1>9, <1>10 DEF StandsAt, At, LastSeen, last

LEMMA InitRun == Init => RunInv
  BY DEF Init, RunInv, Upto, Walking, IdleJob

\* A step of job j leaves the other jobs' variables alone.
LEMMA OneJob ==
    ASSUME TypeInv, NEW j \in Jobs,
           \/ \E b \in Branches : Start(j, b)
           \/ ImportHistory(j) \/ Clone(j) \/ LoadBaseline(j)
           \/ \E c \in Commits : SaveCommit(j, c)
           \/ MarkDeleted(j) \/ SaveSnapshot(j) \/ Finish(j) \/ Fail(j)
    PROVE  \A k \in Jobs \ {j} : job'[k] = job[k]
  BY DEF TypeInv, TypeOK, Start, ImportHistory, Clone, LoadBaseline, SaveCommit, MarkDeleted,
         SaveSnapshot, Finish, Fail

\* Whoever finishes has everything up to its last commit in the graph.
LEMMA StepCheckpoint ==
    ASSUME TypeInv, RunInv, [Next]_vars
    PROVE  CheckpointInv'
  <1>1. ASSUME NEW b \in Branches,
               checkpoint'[b] \in {checkpoint[b], None}
        PROVE  \A c \in Upto(checkpoint'[b]) : EventsComplete(c)' /\ Stored(c)'
    BY <1>1, StoredStays DEF RunInv, Upto
  <1>2. ASSUME NEW j \in Jobs, Finish(j), NEW b \in Branches
        PROVE  \A c \in Upto(checkpoint'[b]) : EventsComplete(c)' /\ Stored(c)'
    <2> DEFINE last == job[j].last
    <2>1. job[j].pc = "finish" /\ StandsAt(j)
      BY <1>2 DEF Finish, At, RunInv, Walking
    <2>2. checkpoint'[b] \in {checkpoint[b], last}
      BY <1>2 DEF Finish, TypeInv, TypeOK
    <2>3. \A c \in Upto(last) : EventsComplete(c) /\ Stored(c)
      BY <2>1 DEF StandsAt, At, Upto
    <2>4. \A c \in Upto(last) : EventsComplete(c)' /\ Stored(c)'
      BY <2>3, StoredStays
    <2> QED
      BY <1>1, <1>2, <2>2, <2>4
  <1>3. ASSUME ~ \E j \in Jobs : Finish(j), NEW b \in Branches
        PROVE  checkpoint'[b] \in {checkpoint[b], None}
    BY <1>3 DEF Next, vars, graph, TypeInv, TypeOK, Reregister, Push, Start, ImportHistory, Clone,
                LoadBaseline, SaveCommit, MarkDeleted, SaveSnapshot, Fail
  <1> QED
    BY <1>1, <1>2, <1>3 DEF CheckpointInv, Upto

\* The steps that lead a run on without moving it to another commit.
LEMMA SnapshotStands ==
    ASSUME TypeInv, NEW j \in Jobs, SaveSnapshot(j), StandsAt(j)
    PROVE  StandsAt(j)'
  <1>1. [Next]_vars
    BY DEF Next
  <1>2. /\ job[j].pc = "snapshot" /\ job'[j].pc = "finish"
        /\ job'[j].head = job[j].head /\ job'[j].todo = job[j].todo
        /\ job'[j].last = job[j].last /\ job'[j].known = job[j].known
        /\ job'[j].previous = job[j].previous
    BY DEF SaveSnapshot, At, TypeInv, TypeOK, Job
  <1>3. \A c \in Upto(job[j].last) :
           /\ Stored(c)'
           /\ EventsComplete(c)'
    BY <1>1, <1>2, StoredStays DEF StandsAt, At, Upto
  <1>4. job[j].last # None => job[j].last \in Upto(job[j].last)
    <2>1. job[j].last \in Commits \cup {None}
      BY DEF TypeInv, TypeOK, Job
    <2> QED
      BY <2>1, HistoryAssumption DEF Upto
  <1> QED
    BY <1>2, <1>3, <1>4 DEF StandsAt, Left, At, LastSeen

LEMMA StepRun ==
    ASSUME TypeInv, RunInv, [Next]_vars
    PROVE  RunInv'
  <1>1. CheckpointInv
    BY DEF RunInv, CheckpointInv
  <1>2. ASSUME NEW j \in Jobs, job'[j] = job[j], Walking(j)'
        PROVE  StandsAt(j)'
    BY <1>2, OtherJobs DEF RunInv, Walking
  <1>3. ASSUME NEW j \in Jobs, NEW k \in Jobs, Walking(k)',
               \/ \E b \in Branches : Start(j, b)
               \/ ImportHistory(j) \/ Clone(j) \/ LoadBaseline(j)
               \/ \E c \in Commits : SaveCommit(j, c)
               \/ MarkDeleted(j) \/ SaveSnapshot(j) \/ Finish(j) \/ Fail(j)
        PROVE  StandsAt(k)'
    <2>1. CASE k # j
      BY <1>2, <1>3, <2>1, OneJob
    <2>2. CASE k = j
      <3>1. CASE \/ \E b \in Branches : Start(j, b)
                 \/ ImportHistory(j) \/ Clone(j) \/ Finish(j) \/ Fail(j)
        <4>1. job'[j].pc \in {"idle", "history", "clone", "checkpoint"}
          <5>1. job[j] \in Job /\ job \in [Jobs -> Job]
            BY DEF TypeInv, TypeOK
          <5>2. CASE \E b \in Branches : Start(j, b)
            BY <5>1, <5>2 DEF Start, IdleJob
          <5>3. CASE ImportHistory(j)
            BY <5>1, <5>3 DEF ImportHistory, Job
          <5>4. CASE Clone(j)
            BY <5>1, <5>4 DEF Clone, Job
          <5>5. CASE Finish(j) \/ Fail(j)
            BY <5>1, <5>5 DEF Finish, Fail, IdleJob
          <5> QED
            BY <3>1, <5>2, <5>3, <5>4, <5>5
        <4> QED
          BY <1>3, <2>2, <4>1 DEF Walking
      <3>2. CASE LoadBaseline(j)
        BY <1>1, <2>2, <3>2, BaselineStands
      <3>3. CASE \E c \in Commits : SaveCommit(j, c)
        BY <2>2, <3>3, SaveStands DEF RunInv, SaveCommit, Walking, At
      <3>4. CASE MarkDeleted(j)
        BY <2>2, <3>4, MarkStands DEF RunInv, MarkDeleted, Walking, At
      <3>5. CASE SaveSnapshot(j)
        BY <2>2, <3>5, SnapshotStands DEF RunInv, SaveSnapshot, Walking, At
      <3> QED
        BY <1>3, <3>1, <3>2, <3>3, <3>4, <3>5
    <2> QED
      BY <2>1, <2>2
  <1>4. ASSUME NEW k \in Jobs, Walking(k)', job' = job
        PROVE  StandsAt(k)'
    BY <1>2, <1>4
  <1>5. \A k \in Jobs : Walking(k)' => StandsAt(k)'
    BY <1>3, <1>4 DEF Next, Reregister, Push, vars
  <1>6. CheckpointInv'
    BY StepCheckpoint
  <1> QED
    BY <1>5, <1>6 DEF RunInv, CheckpointInv

-----------------------------------------------------------------------------
(* Events and links *)

LEMMA StepEvents ==
    ASSUME TypeInv, RunInv, EventsAreChanges, [Next]_vars
    PROVE  EventsAreChanges'
  <1>1. ASSUME NEW j \in Jobs, NEW c \in Commits, SaveCommit(j, c)
        PROVE  EventsAreChanges'
    <2>1. StandsAt(j)
      BY <1>1 DEF RunInv, SaveCommit, Walking, At
    <2>2. \A m \in Introduced(j, c) : Body[c][m] # Before(c)[m]
      BY <1>1, <2>1, SaveNext DEF Introduced
    <2> QED
      BY <1>1, <2>2 DEF EventsAreChanges, SaveCommit, Before, Source, Nothing
  <1>2. ASSUME NEW j \in Jobs, MarkDeleted(j)
        PROVE  EventsAreChanges'
    <2> DEFINE last == job[j].last
    <2>1. \A m \in job[j].gone : Body[last][m] = None /\ Before(last)[m] # None
      BY <1>2 DEF RunInv, StandsAt, MarkDeleted, Walking, At
    <2>2. \A e \in deletedIn' : e \in deletedIn \/ (e[2] = last /\ e[1] \in job[j].gone)
      BY <1>2 DEF MarkDeleted
    <2>3. \A e \in deletedIn' : Body[e[2]][e[1]] = None /\ Before(e[2])[e[1]] # None
      BY <2>1, <2>2 DEF EventsAreChanges
    <2>4. introduced' = introduced
      BY <1>2 DEF MarkDeleted
    <2> QED
      BY <2>3, <2>4 DEF EventsAreChanges, Before, Source, Nothing
  <1>3. CASE introduced' = introduced /\ deletedIn' = deletedIn
    BY <1>3 DEF EventsAreChanges, Before, Source, Nothing
  <1>4. \/ introduced' = introduced /\ deletedIn' = deletedIn
        \/ \E j \in Jobs : MarkDeleted(j) \/ \E c \in Commits : SaveCommit(j, c)
    BY DEF Next, vars, graph, Reregister, Push, Start, ImportHistory, Clone, LoadBaseline,
           SaveSnapshot, Finish, Fail
  <1> QED
    BY <1>1, <1>2, <1>3, <1>4

LEMMA StepDerived ==
    ASSUME TypeInv, RunInv, DerivedFromLastBody, [Next]_vars
    PROVE  DerivedFromLastBody'
  <1>1. ASSUME NEW j \in Jobs, NEW c \in Commits, SaveCommit(j, c),
               NEW m \in Parsed(c), job[j].previous[m] \notin {None, Body[c][m]}
        PROVE  job[j].previous[m] \in LastBodies(m, c)
    <2> DEFINE last == job[j].last
               seen == {d \in Ancestors[c] \ {c} : Body[d][m] # None}
    <2>1. StandsAt(j) /\ m \in Methods
      BY <1>1 DEF RunInv, SaveCommit, Walking, At, Parsed
    <2>2. Upto(c) = {c} \cup Upto(last) /\ c \notin Upto(last)
      BY <1>1, <2>1, SaveNext
    <2>3. Ancestors[c] \ {c} = Upto(last)
      BY <2>2, TreeAssumption DEF Upto
    <2>4. PICK e \in Upto(last) :
             /\ Body[e][m] = job[j].previous[m]
             /\ \A d \in Upto(last) : Body[d][m] # None => d \in Ancestors[e]
      BY <1>1, <2>1 DEF StandsAt, LastSeen
    <2>5. e \in seen /\ seen \subseteq Ancestors[e]
      BY <1>1, <2>3, <2>4
    <2> QED
      BY <2>4, <2>5 DEF LastBodies
  <1>2. ASSUME NEW j \in Jobs, NEW c \in Commits, SaveCommit(j, c)
        PROVE  DerivedFromLastBody'
    <2>1. \A d \in Ancestry(j, c) : \E m \in Parsed(c) :
             /\ d = <<m, Body[c][m], job[j].previous[m]>>
             /\ job[j].previous[m] \notin {None, Body[c][m]}
      BY DEF Ancestry
    <2>2. \A d \in Ancestry(j, c) : /\ Body[c][d[1]] = d[2]
                                    /\ d[2] # d[3]
                                    /\ d[3] \in LastBodies(d[1], c)
      BY <1>1, <1>2, <2>1
    <2>3. derived' = derived \cup Ancestry(j, c)
      BY <1>2 DEF SaveCommit
    <2> QED
      BY <2>2, <2>3 DEF DerivedFromLastBody, LastBodies
  <1>3. CASE derived' = derived
    BY <1>3 DEF DerivedFromLastBody, LastBodies
  <1>4. derived' = derived \/ \E j \in Jobs, c \in Commits : SaveCommit(j, c)
    BY DEF Next, vars, graph, Reregister, Push, Start, ImportHistory, Clone, LoadBaseline,
           MarkDeleted, SaveSnapshot, Finish, Fail
  <1> QED
    BY <1>2, <1>3, <1>4

LEMMA Inductive == Spec => [](TypeInv /\ RunInv /\ EventsAreChanges /\ DerivedFromLastBody)
  <1> DEFINE Inv == TypeInv /\ RunInv /\ EventsAreChanges /\ DerivedFromLastBody
  <1>1. Init => Inv
    BY InitType, InitRun DEF Init, EventsAreChanges, DerivedFromLastBody
  <1>2. Inv /\ [Next]_vars => Inv'
    BY StepType, StepRun, StepEvents, StepDerived
  <1> QED
    BY <1>1, <1>2, PTL DEF Spec

\* Every run stands at a commit whose tree it knows, with everything before it
\* stored, whatever overlapping runs, force-pushes and failures do (index).
THEOREM RunsStand == Spec => []RunInv
  BY Inductive, PTL

\* The history of a method names only commits that changed or removed it
\* (introduced_version_ids, deleted_method_keys).
THEOREM EventsCorrect == Spec => []EventsAreChanges
  BY Inductive, PTL

\* A checkpoint is never ahead of the events in the graph, although a commit is
\* two transactions and a run may stop anywhere (index, run_pipeline).
THEOREM CheckpointComplete == Spec => []CheckpointHistoryComplete
  <1>1. RunInv => CheckpointHistoryComplete
    BY DEF RunInv, CheckpointHistoryComplete, Upto
  <1> QED
    BY <1>1, Inductive, PTL

\* DERIVED_FROM leads to the body the method had last on the first-parent
\* chain, wherever the run that wrote it began (_with_version_ancestry).
THEOREM DerivationCorrect == Spec => []DerivedFromLastBody
  BY Inductive, PTL

-----------------------------------------------------------------------------
(* Reading the history.  NaturalsInduction takes an operator, which the      *)
(* provers cannot instantiate; what needs an induction here takes a least    *)
(* element instead.                                                          *)

\* A set of natural numbers has a least one: its intervals 1..n are finite sets.
LEMMA LeastNatural ==
    ASSUME NEW S \in SUBSET Nat, S # {}
    PROVE  \E n \in S : \A m \in S : n <= m
  <1> DEFINE R == StrictSubsetOrdering(Nat)
             F == FiniteSubsetsOf(Nat)
             T == {1..n : n \in S}
  <1>1. IsWellFoundedOn(R, F)
    BY FS_StrictSubsetOrderingWellFounded
  <1>2. T \subseteq F
    <2> SUFFICES ASSUME NEW n \in S PROVE 1..n \in F
      OBVIOUS
    <2>1. IsFiniteSet(1..n)
      BY FS_Interval
    <2> QED
      BY <2>1 DEF FiniteSubsetsOf
  <1>3. T # {}
    OBVIOUS
  <1> HIDE DEF R, F, T
  <1>4. PICK x \in T : \A y \in T : ~ (<<y, x>> \in R)
    BY <1>1, <1>2, <1>3, WFMin
  <1>5. PICK n \in S : x = 1..n
    BY <1>4 DEF T
  <1>6. ASSUME NEW m \in S, ~(n <= m) PROVE FALSE
    <2>1. 1..m \in T
      BY DEF T
    <2>2. 1..m \subseteq 1..n /\ n \in 1..n /\ n \notin 1..m
      BY <1>6
    <2>3. <<1..m, 1..n>> \in R
      <3>1. 1..m \in SUBSET Nat /\ 1..n \in SUBSET Nat /\ 1..m # 1..n
        BY <2>2
      <3> QED
        BY <2>2, <3>1 DEF R, StrictSubsetOrdering
    <2> QED
      BY <1>4, <1>5, <2>1, <2>3
  <1> QED
    BY <1>6

\* Some commit of a set has no other of them among its ancestors.
LEMMA OldestCommit ==
    ASSUME NEW S \in SUBSET Commits, S # {}
    PROVE  \E c \in S : \A d \in S : d \in Ancestors[c] => d = c
  <1> DEFINE R == StrictSubsetOrdering(Commits)
             F == FiniteSubsetsOf(Commits)
             T == {Ancestors[c] : c \in S}
  <1>1. IsWellFoundedOn(R, F)
    BY FS_StrictSubsetOrderingWellFounded
  <1>2. T \subseteq F
    <2> SUFFICES ASSUME NEW c \in S PROVE Ancestors[c] \in F
      OBVIOUS
    <2>1. Ancestors[c] \subseteq Commits /\ IsFiniteSet(Commits)
      BY HistoryAssumption
    <2>2. IsFiniteSet(Ancestors[c])
      BY <2>1, FS_Subset
    <2> QED
      BY <2>1, <2>2 DEF FiniteSubsetsOf
  <1>3. T # {}
    OBVIOUS
  <1> HIDE DEF R, F, T
  <1>4. PICK x \in T : \A y \in T : ~ (<<y, x>> \in R)
    BY <1>1, <1>2, <1>3, WFMin
  <1>5. PICK c \in S : x = Ancestors[c]
    BY <1>4 DEF T
  <1>6. ASSUME NEW d \in S, d \in Ancestors[c], d # c PROVE FALSE
    <2>1. /\ Ancestors[d] \in T /\ Ancestors[d] \subseteq Ancestors[c]
          /\ c \in Ancestors[c] /\ c \notin Ancestors[d] /\ Ancestors[c] \subseteq Commits
      BY <1>6, HistoryAssumption DEF T
    <2>2. <<Ancestors[d], Ancestors[c]>> \in R
      BY <2>1 DEF R, StrictSubsetOrdering
    <2> QED
      BY <1>4, <1>5, <2>1, <2>2
  <1> QED
    BY <1>6

\* What a commit and its parent are to the ancestors of the commit.
LEMMA ParentFacts ==
    ASSUME NEW c \in Commits, Parent[c] # None
    PROVE  /\ Parent[c] \in Commits /\ Parent[c] \in Ancestors[c] /\ c \notin Ancestors[Parent[c]]
           /\ Ancestors[c] = {c} \cup Ancestors[Parent[c]]
           /\ Before(c) = Body[Parent[c]]
  BY HistoryAssumption DEF Before, Source

\* A proper ancestor has a child on the way.
LEMMA ChildOf ==
    ASSUME NEW c \in Commits, NEW d \in Ancestors[c], d # c
    PROVE  \E e \in Ancestors[c] : Parent[e] = d /\ e # d
  <1> DEFINE S == {e \in Ancestors[c] : d \in Ancestors[e] /\ e # d}
  <1>1. S \in SUBSET Commits /\ c \in S /\ d \in Commits
    BY HistoryAssumption
  <1>2. PICK e \in S : \A f \in S : f \in Ancestors[e] => f = e
    BY <1>1, OldestCommit
  <1>3. e \in Commits /\ e \in Ancestors[c] /\ Ancestors[e] \subseteq Ancestors[c]
    BY <1>1, <1>2, HistoryAssumption
  <1>4. Parent[e] # None
    BY <1>2, <1>3, HistoryAssumption
  <1>5. Parent[e] \in Ancestors[e] /\ Parent[e] # e /\ d \in Ancestors[Parent[e]]
    BY <1>2, <1>3, <1>4, ParentFacts, HistoryAssumption
  <1>6. Parent[e] = d
    BY <1>2, <1>3, <1>5
  <1> QED
    BY <1>2, <1>3, <1>6

\* The distance of an ancestor d from c on the first-parent chain, and who is at it.
Depth(c, d) == Cardinality(Ancestors[c] \ Ancestors[d])
Above(c, n) == {d \in Ancestors[c] : Depth(c, d) = n}

LEMMA DepthType ==
    ASSUME NEW c \in Commits, NEW d \in Ancestors[c]
    PROVE  /\ d \in Commits /\ Depth(c, d) \in 0..Cardinality(Commits) /\ Depth(c, d) \in Nat
           /\ IsFiniteSet(Ancestors[c] \ Ancestors[d])
           /\ Cardinality(Commits) \in Nat
  <1>1. Ancestors[c] \subseteq Commits /\ IsFiniteSet(Commits)
    BY HistoryAssumption
  <1>2. Cardinality(Commits) \in Nat
    BY <1>1, FS_CardinalityType
  <1>3. /\ IsFiniteSet(Ancestors[c] \ Ancestors[d])
        /\ Cardinality(Ancestors[c] \ Ancestors[d]) <= Cardinality(Commits)
    BY <1>1, FS_Subset
  <1>4. Cardinality(Ancestors[c] \ Ancestors[d]) \in Nat
    BY <1>3, FS_CardinalityType
  <1> QED
    BY <1>1, <1>2, <1>3, <1>4 DEF Depth

LEMMA DepthZero ==
    ASSUME NEW c \in Commits, NEW d \in Ancestors[c]
    PROVE  Depth(c, d) = 0 <=> d = c
  <1>1. Depth(c, d) = 0 <=> Ancestors[c] \ Ancestors[d] = {}
    BY DepthType, FS_EmptySet DEF Depth
  <1>2. Ancestors[c] \ Ancestors[d] = {} <=> d = c
    BY HistoryAssumption
  <1> QED
    BY <1>1, <1>2

\* The parent is one further.
LEMMA DepthParent ==
    ASSUME NEW c \in Commits, NEW d \in Ancestors[c], Parent[d] # None
    PROVE  Parent[d] \in Ancestors[c] /\ Depth(c, Parent[d]) = Depth(c, d) + 1
  <1> DEFINE p == Parent[d]
             A == Ancestors[c] \ Ancestors[d]
  <1>1. d \in Commits /\ IsFiniteSet(A)
    BY DepthType
  <1>2. /\ p \in Ancestors[d] /\ d \notin Ancestors[p] /\ Ancestors[d] = {d} \cup Ancestors[p]
        /\ Ancestors[d] \subseteq Ancestors[c]
    BY <1>1, ParentFacts, HistoryAssumption
  <1>3. Ancestors[c] \ Ancestors[p] = A \cup {d} /\ d \notin A
    BY <1>2
  <1> HIDE DEF A
  <1>4. Cardinality(A \cup {d}) = Cardinality(A) + 1
    BY <1>1, <1>3, FS_AddElement
  <1> QED
    BY <1>2, <1>3, <1>4 DEF Depth, A

\* The further ancestor is the older one.
LEMMA DepthGrows ==
    ASSUME NEW c \in Commits, NEW d \in Ancestors[c], NEW e \in Ancestors[d], e # d
    PROVE  e \in Ancestors[c] /\ Depth(c, d) < Depth(c, e)
  <1> DEFINE A == Ancestors[c] \ Ancestors[d]
             B == Ancestors[c] \ Ancestors[e]
  <1>1. d \in Commits /\ e \in Ancestors[c]
    BY DepthType, HistoryAssumption
  <1>2. /\ Ancestors[e] \subseteq Ancestors[d] /\ d \notin Ancestors[e] /\ d \in Ancestors[d]
    BY <1>1, HistoryAssumption
  <1>3. A \subseteq B /\ d \in B /\ d \notin A
    BY <1>2
  <1>4. /\ Depth(c, d) \in Nat /\ Depth(c, e) \in Nat /\ IsFiniteSet(B)
    BY <1>1, DepthType
  <1> HIDE DEF A, B
  <1>5. Cardinality(A) <= Cardinality(B) /\ (Cardinality(B) = Cardinality(A) => B = A)
    BY <1>3, <1>4, FS_Subset
  <1>6. Depth(c, d) = Cardinality(A) /\ Depth(c, e) = Cardinality(B)
    BY DEF Depth, A, B
  <1> QED
    BY <1>1, <1>3, <1>4, <1>5, <1>6

LEMMA DepthApart ==
    ASSUME NEW c \in Commits, NEW d \in Ancestors[c], NEW e \in Ancestors[c],
           Depth(c, d) = Depth(c, e)
    PROVE  d = e
  <1>1. d \in Ancestors[e] \/ e \in Ancestors[d]
    BY HistoryAssumption
  <1>2. Depth(c, d) \in Nat /\ Depth(c, e) \in Nat
    BY DepthType
  <1> QED
    BY <1>1, <1>2, DepthGrows

\* The PARENT relationship of c is stored.
ParentStored(c) == Parent[c] # None => <<c, Parent[c]>> \in parents

\* PARENT leads to first parents only, as it does without merges.
FirstParentsOnly ==
    \A e \in parents : e[1] \in Commits /\ Parent[e[1]] # None /\ e = <<e[1], Parent[e[1]]>>

\* A step over PARENT leads from the ancestor at one distance to that at the next.
LEMMA AboveStep ==
    ASSUME FirstParentsOnly, NEW c \in Commits, \A d \in Ancestors[c] : ParentStored(d),
           NEW n \in Nat
    PROVE  Above(c, n + 1) = {e[2] : e \in {f \in parents : f[1] \in Above(c, n)}}
  <1>1. ASSUME NEW d \in Above(c, n + 1)
        PROVE  d \in {e[2] : e \in {f \in parents : f[1] \in Above(c, n)}}
    <2>1. d \in Ancestors[c] /\ Depth(c, d) = n + 1
      BY DEF Above
    <2>2. d # c
      BY <2>1, DepthZero
    <2>3. PICK f \in Ancestors[c] : Parent[f] = d
      BY <2>1, <2>2, ChildOf
    <2>4. d \in Commits /\ d # None
      BY <2>1, HistoryAssumption, TreeAssumption
    <2>5. Depth(c, d) = Depth(c, f) + 1 /\ Depth(c, f) \in Nat
      BY <2>3, <2>4, DepthParent, DepthType
    <2>6. f \in Above(c, n)
      BY <2>1, <2>5 DEF Above
    <2>7. <<f, d>> \in parents
      BY <2>3, <2>4 DEF ParentStored
    <2> QED
      BY <2>6, <2>7
  <1>2. ASSUME NEW f \in parents, f[1] \in Above(c, n)
        PROVE  f[2] \in Above(c, n + 1)
    <2>1. f[1] \in Ancestors[c] /\ Depth(c, f[1]) = n
      BY <1>2 DEF Above
    <2>2. Parent[f[1]] # None /\ f[2] = Parent[f[1]]
      BY DEF FirstParentsOnly
    <2> QED
      BY <2>1, <2>2, DepthParent DEF Above
  <1> QED
    BY <1>1, <1>2

\* The search by distance finds the ancestor at that distance, and no other commit.
LEMMA StepsAre ==
    ASSUME FirstParentsOnly, NEW c \in Commits, \A d \in Ancestors[c] : ParentStored(d)
    PROVE  Steps(c) = [n \in 0..Cardinality(Commits) |-> Above(c, n)]
  <1> DEFINE N == Cardinality(Commits)
             Near(S) == {e[2] : e \in {g \in parents : g[1] \in S}}
             Eq(f) == f = [n \in 0..N |-> IF n = 0 THEN {c} ELSE Near(f[n - 1])]
             above == [n \in 0..N |-> Above(c, n)]
  <1>1. N \in Nat
    BY HistoryAssumption, FS_CardinalityType
  <1>2. Above(c, 0) = {c}
    BY DepthZero, HistoryAssumption DEF Above
  <1>3. \A n \in 1..N : Above(c, n) = Near(Above(c, n - 1))
    <2> SUFFICES ASSUME NEW n \in 1..N
                 PROVE  Above(c, n) = Near(Above(c, n - 1))
      OBVIOUS
    <2>1. n - 1 \in Nat /\ (n - 1) + 1 = n
      BY <1>1
    <2> QED
      BY <2>1, AboveStep
  <1>4. Steps(c) = CHOOSE f : Eq(f)
    BY DEF Steps
  <1> HIDE DEF N, Near
  <1>5. Eq(above)
    <2>1. ASSUME NEW n \in 0..N
          PROVE  Above(c, n) = IF n = 0 THEN {c} ELSE Near(above[n - 1])
      <3>1. CASE n = 0
        BY <1>2, <3>1
      <3>2. CASE n # 0
        <4>1. n \in 1..N /\ n - 1 \in 0..N
          BY <1>1, <3>2
        <4> QED
          BY <1>3, <3>2, <4>1
      <3> QED
        BY <3>1, <3>2
    <2> QED
      BY <2>1
  <1>6. ASSUME NEW f, Eq(f)
        PROVE  f = above
    <2> DEFINE S == {n \in 0..N : f[n] # Above(c, n)}
    <2>1. CASE S = {}
      BY <1>6, <2>1
    <2>2. CASE S # {}
      <3>1. S \in SUBSET Nat
        OBVIOUS
      <3>2. PICK n \in S : \A k \in S : n <= k
        BY <2>2, <3>1, LeastNatural
      <3>3. n # 0
        BY <1>1, <1>2, <1>6, <3>2
      <3>4. n - 1 \in 0..N /\ n - 1 \notin S
        BY <1>1, <3>2, <3>3
      <3>5. f[n - 1] = Above(c, n - 1)
        BY <3>4
      <3>6. f[n] = Near(f[n - 1])
        BY <1>6, <3>2, <3>3
      <3>7. n \in 1..N
        BY <1>1, <3>2, <3>3
      <3> QED
        BY <1>3, <3>2, <3>5, <3>6, <3>7
    <2> QED
      BY <2>1, <2>2
  <1> HIDE DEF Eq, above
  <1>7. Eq(CHOOSE f : Eq(f))
    BY <1>5
  <1> QED
    BY <1>6, <1>4, <1>7 DEF above, N

\* What the stored events of a commit say of a method is what the commit did to it.
LEMMA EventsAre ==
    ASSUME EventsAreChanges, NEW d \in Commits, EventsComplete(d), NEW m \in Methods
    PROVE  EventsOf(m, d) = IF Body[d][m] # Before(d)[m] THEN {Body[d][m]} ELSE {}
  <1>1. Body[d][m] \in Bodies \cup {None} /\ None \notin Bodies
    BY TreeAssumption
  <1>2. \A b : <<m, b, d>> \in introduced => b = Body[d][m] /\ Body[d][m] # Before(d)[m]
    BY DEF EventsAreChanges
  <1>3. <<m, d>> \in deletedIn => Body[d][m] = None /\ Body[d][m] # Before(d)[m]
    BY DEF EventsAreChanges
  <1>4. CASE Body[d][m] = Before(d)[m]
    BY <1>2, <1>3, <1>4 DEF EventsOf
  <1>5. CASE Body[d][m] # Before(d)[m] /\ Body[d][m] = None
    <2>1. <<m, d>> \in deletedIn
      BY <1>5 DEF EventsComplete
    <2> QED
      BY <1>1, <1>2, <1>5, <2>1 DEF EventsOf
  <1>6. CASE Body[d][m] # Before(d)[m] /\ Body[d][m] # None
    <2>1. <<m, Body[d][m]>> \in versions /\ <<m, Body[d][m], d>> \in introduced
      BY <1>6 DEF EventsComplete
    <2> QED
      BY <1>1, <1>2, <1>3, <1>6, <2>1 DEF EventsOf
  <1> QED
    BY <1>4, <1>5, <1>6

\* A method keeps its body from a commit to the next one that changes it.
LEMMA BodyKept ==
    ASSUME NEW c \in Commits, NEW m \in Methods, NEW d \in Ancestors[c],
           \A e \in Ancestors[c] : d \in Ancestors[e] /\ e # d => Body[e][m] = Before(e)[m]
    PROVE  Body[c][m] = Body[d][m]
  <1> DEFINE S == {e \in Ancestors[c] : d \in Ancestors[e] /\ Body[e][m] # Body[d][m]}
  <1>1. SUFFICES ASSUME S # {} PROVE FALSE
    BY HistoryAssumption
  <1>2. S \in SUBSET Commits
    BY HistoryAssumption
  <1>3. PICK e \in S : \A f \in S : f \in Ancestors[e] => f = e
    BY <1>1, <1>2, OldestCommit
  <1>4. e \in Commits /\ e \in Ancestors[c] /\ d \in Ancestors[e] /\ e # d
        /\ Ancestors[e] \subseteq Ancestors[c]
    BY <1>2, <1>3, HistoryAssumption
  <1>5. Parent[e] # None
    BY <1>4, HistoryAssumption
  <1>6. /\ Parent[e] \in Ancestors[e] /\ Parent[e] # e /\ d \in Ancestors[Parent[e]]
        /\ Before(e) = Body[Parent[e]]
    BY <1>4, <1>5, ParentFacts, HistoryAssumption
  <1>7. Body[Parent[e]][m] # Body[d][m]
    BY <1>3, <1>4, <1>6
  <1> QED
    BY <1>3, <1>4, <1>6, <1>7

\* A method that no commit has changed does not exist.
LEMMA NeverThere ==
    ASSUME NEW c \in Commits, NEW m \in Methods,
           \A e \in Ancestors[c] : Body[e][m] = Before(e)[m]
    PROVE  Body[c][m] = None
  <1> DEFINE S == {e \in Ancestors[c] : Body[e][m] # None}
  <1>1. SUFFICES ASSUME S # {} PROVE FALSE
    BY HistoryAssumption
  <1>2. S \in SUBSET Commits
    BY HistoryAssumption
  <1>3. PICK e \in S : \A f \in S : f \in Ancestors[e] => f = e
    BY <1>1, <1>2, OldestCommit
  <1>4. e \in Commits /\ e \in Ancestors[c] /\ Ancestors[e] \subseteq Ancestors[c]
    BY <1>2, <1>3, HistoryAssumption
  <1>5. Before(e)[m] # None
    BY <1>3
  <1>6. Parent[e] # None
    BY <1>5 DEF Before, Source, Nothing
  <1>7. Parent[e] \in Ancestors[e] /\ Parent[e] # e /\ Before(e) = Body[Parent[e]]
    BY <1>4, <1>6, ParentFacts, HistoryAssumption
  <1> QED
    BY <1>3, <1>4, <1>5, <1>7

\* The search finds the body the commit has.
LEMMA FoundAt ==
    ASSUME EventsAreChanges, FirstParentsOnly, NEW c \in Commits, NEW m \in Methods,
           \A d \in Ancestors[c] : ParentStored(d) /\ EventsComplete(d)
    PROVE  VersionsFound(m, c) = {Body[c][m]}
  <1> DEFINE N      == Cardinality(Commits)
             at     == [n \in 0..N |-> Above(c, n)]
             events == [n \in DOMAIN at |-> UNION {EventsOf(m, d) : d \in at[n]}]
             hits   == {n \in DOMAIN at : events[n] # {}}
             Altered(d) == Body[d][m] # Before(d)[m]
  <1>1. VersionsFound(m, c) = IF hits = {} THEN {None}
                              ELSE events[CHOOSE n \in hits : \A k \in hits : n <= k]
    <2>1. Steps(c) = at
      BY StepsAre
    <2> HIDE DEF at
    <2> QED
      BY <2>1 DEF VersionsFound
  <1>2. N \in Nat
    BY HistoryAssumption, FS_CardinalityType
  <1>3. Ancestors[c] \subseteq Commits /\ c \in Ancestors[c]
    BY HistoryAssumption
  <1>4. \A d \in Ancestors[c] :
           EventsOf(m, d) = IF Altered(d) THEN {Body[d][m]} ELSE {}
    BY <1>3, EventsAre
  <1>5. DOMAIN at = 0..N
    OBVIOUS
  <1>6. \A n \in 0..N : events[n] = UNION {EventsOf(m, d) : d \in Above(c, n)}
    <2>1. \A n \in 0..N : at[n] = Above(c, n)
      OBVIOUS
    <2> HIDE DEF at
    <2> QED
      BY <1>5, <2>1
  <1> HIDE DEF at, events
  <1>7. ASSUME NEW d \in Ancestors[c], Altered(d)
        PROVE  Depth(c, d) \in hits
    <2>1. Depth(c, d) \in 0..N
      BY <1>3, DepthType
    <2>2. d \in Above(c, Depth(c, d))
      BY DEF Above
    <2>3. Body[d][m] \in EventsOf(m, d)
      BY <1>4, <1>7
    <2>4. Body[d][m] \in UNION {EventsOf(m, e) : e \in Above(c, Depth(c, d))}
      BY <2>2, <2>3
    <2>5. events[Depth(c, d)] # {}
      BY <1>6, <2>1, <2>4
    <2> QED
      BY <1>5, <2>1, <2>5
  <1>8. CASE hits = {}
    <2>1. \A d \in Ancestors[c] : ~ Altered(d)
      BY <1>7, <1>8
    <2>2. Body[c][m] = None
      BY <2>1, NeverThere
    <2> QED
      BY <1>1, <1>8, <2>2
  <1>9. CASE hits # {}
    <2> DEFINE n == CHOOSE i \in hits : \A k \in hits : i <= k
    <2>1. hits \in SUBSET Nat
      BY <1>2, <1>5
    <2>2. n \in hits /\ \A k \in hits : n <= k
      BY <1>9, <2>1, LeastNatural
    <2> HIDE DEF n
    <2>3. n \in 0..N /\ n \in Nat
      BY <1>5, <2>1, <2>2
    <2>4. PICK d \in Above(c, n) : EventsOf(m, d) # {}
      BY <1>6, <2>2, <2>3
    <2>5. d \in Ancestors[c] /\ Depth(c, d) = n
      BY <2>4 DEF Above
    <2>6. Above(c, n) = {d}
      BY <2>4, <2>5, DepthApart DEF Above
    <2>7. events[n] = {Body[d][m]}
      BY <1>4, <1>6, <2>3, <2>4, <2>5, <2>6
    <2>8. ASSUME NEW e \in Ancestors[c], d \in Ancestors[e], e # d, Altered(e)
          PROVE  FALSE
      <3>1. Depth(c, e) \in hits /\ Depth(c, e) \in Nat
        BY <1>7, <2>8, DepthType
      <3>2. Depth(c, e) < n
        BY <2>5, <2>8, DepthGrows
      <3> QED
        BY <2>2, <2>3, <3>1, <3>2
    <2>9. Body[c][m] = Body[d][m]
      BY <2>5, <2>8, BodyKept
    <2> QED
      BY <1>1, <1>9, <2>7, <2>9 DEF n
  <1> QED
    BY <1>8, <1>9

\* The PARENT relationships are there along with the events they lead to.
ParentInv ==
    /\ FirstParentsOnly
    /\ \A b \in Branches : \A c \in Upto(checkpoint[b]) : ParentStored(c)
    /\ \A j \in Jobs : Walking(j) => \A c \in Upto(job[j].last) : ParentStored(c)

\* No merge commits.
Linear == \A c \in Commits : MergedParents[c] = {}

\* PARENT relationships are only ever added, and those of first parents.
LEMMA ParentsGrow ==
    ASSUME Linear, TypeInv, FirstParentsOnly, [Next]_vars
    PROVE  parents \subseteq parents' /\ FirstParentsOnly'
  <1>1. ASSUME NEW j \in Jobs, ImportHistory(j)
        PROVE  parents \subseteq parents' /\ FirstParentsOnly'
    <2>1. \A c \in Commits : AllParents(c) = {Parent[c]} \ {None}
      BY DEF Linear, AllParents
    <2>2. Reachable(head[job[j].branch]) \subseteq Commits
      BY DEF Reachable
    <2>3. \A e \in parents' : e \in parents \/ \E c \in Commits : e \in {c} \X ({Parent[c]} \ {None})
      BY <1>1, <2>1, <2>2 DEF ImportHistory
    <2> QED
      BY <1>1, <2>3 DEF ImportHistory, FirstParentsOnly
  <1>2. ASSUME NEW j \in Jobs, NEW c \in Commits, SaveCommit(j, c)
        PROVE  parents \subseteq parents' /\ FirstParentsOnly'
    BY <1>2 DEF SaveCommit, FirstParentsOnly
  <1>3. CASE parents' = parents
    BY <1>3 DEF FirstParentsOnly
  <1>4. \/ parents' = parents
        \/ \E j \in Jobs : ImportHistory(j) \/ \E c \in Commits : SaveCommit(j, c)
    BY DEF Next, vars, graph, Reregister, Push, Start, Clone, LoadBaseline, MarkDeleted,
           SaveSnapshot, Finish, Fail
  <1> QED
    BY <1>1, <1>2, <1>3, <1>4

\* A run that goes on stands where it stood, at its checkpoint, or at the commit it saved.
LEMMA LastStep ==
    ASSUME TypeInv, NEW j \in Jobs, [Next]_vars, Walking(j)'
    PROVE  \/ Walking(j) /\ job'[j].last = job[j].last
           \/ \E b \in Branches : job'[j].last = checkpoint[b]
           \/ \E c \in Commits : SaveCommit(j, c) /\ job'[j].last = c
  <1>1. job[j] \in Job /\ job \in [Jobs -> Job]
    BY DEF TypeInv, TypeOK
  <1>2. CASE job'[j] = job[j]
    BY <1>2 DEF Walking
  <1>3. CASE \/ \E b \in Branches : Start(j, b)
             \/ ImportHistory(j) \/ Clone(j) \/ Finish(j) \/ Fail(j)
    <2>1. job'[j].pc \in {"idle", "history", "clone", "checkpoint"}
      <3>1. CASE \E b \in Branches : Start(j, b)
        BY <1>1, <3>1 DEF Start, IdleJob
      <3>2. CASE ImportHistory(j)
        BY <1>1, <3>2 DEF ImportHistory, Job
      <3>3. CASE Clone(j)
        BY <1>1, <3>3 DEF Clone, Job
      <3>4. CASE Finish(j) \/ Fail(j)
        BY <1>1, <3>4 DEF Finish, Fail, IdleJob
      <3> QED
        BY <1>3, <3>1, <3>2, <3>3, <3>4
    <2> QED
      BY <2>1 DEF Walking
  <1>4. CASE LoadBaseline(j)
    <2>1. job[j].branch \in Branches
      BY <1>4 DEF TypeInv, LoadBaseline, At
    <2>2. job'[j].last = checkpoint[job[j].branch]
      BY <1>1, <1>4 DEF LoadBaseline, Job
    <2> QED
      BY <2>1, <2>2
  <1>5. ASSUME NEW c \in Commits, SaveCommit(j, c)
        PROVE  \E d \in Commits : SaveCommit(j, d) /\ job'[j].last = d
    BY <1>5, SaveJob
  <1>6. CASE MarkDeleted(j)
    BY <1>1, <1>6 DEF MarkDeleted, Walking, At, Job
  <1>7. CASE SaveSnapshot(j)
    BY <1>1, <1>7 DEF SaveSnapshot, Walking, At, Job
  <1>8. \/ job'[j] = job[j]
        \/ \E b \in Branches : Start(j, b)
        \/ ImportHistory(j) \/ Clone(j) \/ LoadBaseline(j)
        \/ \E c \in Commits : SaveCommit(j, c)
        \/ MarkDeleted(j) \/ SaveSnapshot(j) \/ Finish(j) \/ Fail(j)
    <2>1. CASE \E b \in Branches : Reregister(b) \/ \E c \in Commits : Push(b, c)
      BY <2>1 DEF Reregister, Push
    <2>2. CASE UNCHANGED vars
      BY <2>2 DEF vars
    <2>3. ASSUME NEW k \in Jobs, k # j,
                 \/ \E b \in Branches : Start(k, b)
                 \/ ImportHistory(k) \/ Clone(k) \/ LoadBaseline(k)
                 \/ \E c \in Commits : SaveCommit(k, c)
                 \/ MarkDeleted(k) \/ SaveSnapshot(k) \/ Finish(k) \/ Fail(k)
          PROVE  job'[j] = job[j]
      BY <2>3, OneJob
    <2> QED
      BY <2>1, <2>2, <2>3 DEF Next
  <1> QED
    BY <1>2, <1>3, <1>4, <1>5, <1>6, <1>7, <1>8

\* A checkpoint stays, is taken off, or moves to where a run that finishes stands.
LEMMA CheckpointStep ==
    ASSUME TypeInv, NEW b \in Branches, [Next]_vars
    PROVE  \/ checkpoint'[b] \in {checkpoint[b], None}
           \/ \E j \in Jobs : Walking(j) /\ checkpoint'[b] = job[j].last
  <1>1. ASSUME NEW j \in Jobs, Finish(j)
        PROVE  Walking(j) /\ checkpoint'[b] \in {checkpoint[b], job[j].last}
    BY <1>1 DEF Finish, Walking, At, TypeInv, TypeOK
  <1>2. CASE ~ \E j \in Jobs : Finish(j)
    BY <1>2 DEF Next, vars, graph, TypeInv, TypeOK, Reregister, Push, Start, ImportHistory, Clone,
                LoadBaseline, SaveCommit, MarkDeleted, SaveSnapshot, Fail
  <1> QED
    BY <1>1, <1>2

LEMMA StepParent ==
    ASSUME Linear, TypeInv, RunInv, ParentInv, [Next]_vars
    PROVE  ParentInv'
  <1>1. parents \subseteq parents' /\ FirstParentsOnly'
    BY ParentsGrow DEF ParentInv
  <1>2. \A c : ParentStored(c) => ParentStored(c)'
    BY <1>1 DEF ParentStored
  <1>3. ASSUME NEW b \in Branches, NEW c \in Upto(checkpoint'[b])
        PROVE  ParentStored(c)'
    BY <1>2, CheckpointStep DEF ParentInv, Upto
  <1>4. ASSUME NEW j \in Jobs, Walking(j)', NEW c \in Upto(job'[j].last)
        PROVE  ParentStored(c)'
    <2>1. CASE Walking(j) /\ job'[j].last = job[j].last
      BY <1>2, <1>4, <2>1 DEF ParentInv
    <2>2. CASE \E b \in Branches : job'[j].last = checkpoint[b]
      BY <1>2, <1>4, <2>2 DEF ParentInv
    <2>3. ASSUME NEW d \in Commits, SaveCommit(j, d), job'[j].last = d
          PROVE  ParentStored(c)'
      <3>1. Walking(j) /\ StandsAt(j)
        BY <2>3 DEF SaveCommit, At, Walking, RunInv
      <3>2. Upto(d) = {d} \cup Upto(job[j].last)
        BY <2>3, <3>1, SaveNext
      <3>3. ParentStored(d)'
        BY <2>3 DEF SaveCommit, ParentStored
      <3> QED
        BY <1>2, <1>4, <2>3, <3>1, <3>2, <3>3 DEF ParentInv
    <2> QED
      BY <1>4, <2>1, <2>2, <2>3, LastStep
  <1> QED
    BY <1>1, <1>3, <1>4 DEF ParentInv, Upto

\* find_method_version_at_commit finds the version that was valid at a commit, for
\* every commit up to a checkpoint and whatever overlapping and interrupted analyses
\* of any branches did before, in a repository without merge commits.  With them a
\* shorter way over a merged branch misleads the search: history_merge.
THEOREM VersionsFoundAreValid ==
    ASSUME Linear
    PROVE  Spec => []VersionAtCommit
  <1>1. Init => ParentInv
    BY DEF Init, ParentInv, FirstParentsOnly, Upto, Walking, IdleJob
  <1>2. TypeInv /\ RunInv /\ ParentInv /\ [Next]_vars => ParentInv'
    BY StepParent
  <1>3. TypeInv /\ RunInv /\ EventsAreChanges /\ ParentInv => VersionAtCommit
    <2> SUFFICES ASSUME TypeInv, RunInv, EventsAreChanges, ParentInv,
                        NEW b \in Branches, checkpoint[b] # None,
                        NEW c \in Ancestors[checkpoint[b]], NEW m \in Methods
                 PROVE  VersionsFound(m, c) = {Body[c][m]}
      BY DEF VersionAtCommit
    <2>1. checkpoint[b] \in Commits /\ Upto(checkpoint[b]) = Ancestors[checkpoint[b]]
      BY DEF TypeInv, TypeOK, Upto
    <2>2. c \in Commits /\ Ancestors[c] \subseteq Ancestors[checkpoint[b]]
      BY <2>1, HistoryAssumption
    <2>3. \A d \in Ancestors[c] : ParentStored(d) /\ EventsComplete(d)
      BY <2>1, <2>2 DEF ParentInv, RunInv
    <2> QED
      BY <2>2, <2>3, FoundAt DEF ParentInv
  <1> QED
    BY <1>1, <1>2, <1>3, Inductive, PTL DEF Spec
=============================================================================
