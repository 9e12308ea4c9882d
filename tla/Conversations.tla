---------------------------- MODULE Conversations ----------------------------
(***************************************************************************)
(* What the chat API promises to whoever opens sessions and asks questions *)
(* in them.                                                                *)
(*                                                                         *)
(* A session is opened once, on one repository, and closed once, alone or  *)
(* with its repository, and all that was said in it goes at that moment.   *)
(* A question is given up or answered in the session it was asked in, once *)
(* and while the session is open, and question and answer come together.   *)
(* ChatSessions implements this specification (ConversationRefinement).    *)
(***************************************************************************)
EXTENDS Naturals

CONSTANTS
    Repositories,
    Sessions,
    Exchanges,  \* question-answer pairs
    Askers,     \* those who may have a question under way
    Times,      \* what a message can be dated with
    None

VARIABLES
    repository,  \* repository[s] of an open session, None otherwise
    issued,      \* the sessions that were ever opened
    messages,
    asked        \* asked[q]: the session q has a question under way in, or None

vars == <<repository, issued, messages, asked>>

Open(s) == repository[s] # None

Init ==
    /\ repository = [s \in Sessions |-> None]
    /\ issued = {}
    /\ messages = {}
    /\ asked = [q \in Askers |-> None]

Begin(s, r) ==
    /\ s \notin issued
    /\ repository' = [repository EXCEPT ![s] = r]
    /\ issued' = issued \cup {s}
    /\ UNCHANGED <<messages, asked>>

\* The sessions of closing are closed in one step.
Close(closing) ==
    /\ repository' = [s \in Sessions |-> IF s \in closing THEN None ELSE repository[s]]
    /\ messages' = {m \in messages : m.session \notin closing}
    /\ UNCHANGED <<issued, asked>>

CloseSession(s) == Open(s) /\ Close({s})

\* A repository takes all its sessions with it, and no other.
CloseRepository(r) == Close({s \in Sessions : repository[s] = r})

Ask(q, s) ==
    /\ asked[q] = None
    /\ Open(s)
    /\ asked' = [asked EXCEPT ![q] = s]
    /\ UNCHANGED <<repository, issued, messages>>

Message(s, e, role, at) == [session |-> s, exchange |-> e, role |-> role, at |-> at]

Answer(q, e, early, late) ==
    LET s == asked[q] IN
    /\ s # None
    /\ Open(s)
    /\ \A m \in messages : m.exchange # e
    /\ early < late
    /\ messages' = messages \cup {Message(s, e, "user", early), Message(s, e, "assistant", late)}
    /\ asked' = [asked EXCEPT ![q] = None]
    /\ UNCHANGED <<repository, issued>>

GiveUp(q) ==
    /\ asked' = [asked EXCEPT ![q] = None]
    /\ UNCHANGED <<repository, issued, messages>>

Next ==
    \/ \E s \in Sessions, r \in Repositories : Begin(s, r)
    \/ \E s \in Sessions : CloseSession(s)
    \/ \E r \in Repositories : CloseRepository(r)
    \/ \E q \in Askers :
          \/ \E s \in Sessions : Ask(q, s)
          \/ \E e \in Exchanges : \E early, late \in Times : Answer(q, e, early, late)
          \/ GiveUp(q)

Spec == Init /\ [][Next]_vars
=============================================================================
