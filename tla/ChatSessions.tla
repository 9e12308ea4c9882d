----------------------------- MODULE ChatSessions -----------------------------
(***************************************************************************)
(* Chat sessions on a published repository, and the questions asked in     *)
(* them (app/api/v1/sessions.py, app/api/v1/chat.py).                      *)
(*                                                                         *)
(* A question is checked once, against the session and its repository;     *)
(* then the Q&A pipeline runs for as long as its searches and LLM calls    *)
(* take and only at the end is the exchange written.  Meanwhile other      *)
(* questions, deletions and analyses go on.  The repository is the one of  *)
(* RepositoryPublication, so nothing here depends on how it is analysed.   *)
(***************************************************************************)
EXTENDS RepositoryPublication

CONSTANTS
    Sessions,   \* chat session UUIDs
    Exchanges,  \* question-answer pairs (bound: exchanges ever saved)
    Requests,   \* request threads
    MaxClock,   \* bound on the clock, in microseconds
    MAX_HISTORY_EXCHANGES

ASSUME ChatAssumption ==
    /\ MaxClock \in Nat
    /\ MAX_HISTORY_EXCHANGES \in Nat
    /\ None \notin Rows \cup Sessions

VARIABLES
    session,   \* the chat_sessions table: session[s] is its repository, or None
    opened,    \* the session UUIDs issued so far
    messages,  \* the chat_messages table
    request,   \* the request threads
    clock      \* datetime.now(UTC)

chat     == <<session, opened, messages, request, clock>>
chatVars == <<vars, chat>>

ChatMessageRole == {"user", "assistant"}

\* The id of a message is a random UUID: it breaks ties of the order by
\* created_at in a way nothing can be said about, so it is left out.
ChatMessage == [session : Sessions, exchange : Exchanges,
                role : ChatMessageRole, at : 0 .. MaxClock + 1]

\* row of a request that opens a session; gid, the QAExecutionContext, history
\* and at of one that asks a question.
Request == [pc : {"idle", "opening", "asked", "retrieving", "saving"},
            row : Rows \cup {None}, session : Sessions \cup {None},
            gid : Repos \cup {None}, history : SUBSET ChatMessage,
            at : 0 .. MaxClock]

IdleRequest == [pc |-> "idle", row |-> None, session |-> None, gid |-> None,
                history |-> {}, at |-> 0]

ChatInit ==
    /\ Init
    /\ session = [s \in Sessions |-> None]
    /\ opened = {}
    /\ messages = {}
    /\ request = [q \in Requests |-> IdleRequest]
    /\ clock = 0

On(q, pc) == request[q].pc = pc

Done(q) == request' = [request EXCEPT ![q] = IdleRequest]

-----------------------------------------------------------------------------
(* POST and DELETE of sessions *)

\* Mutant: a session can be opened on any registered repository.
OpenReadAny(q, r) ==
    /\ On(q, "idle")
    /\ Exists(r)
    /\ request' = [request EXCEPT ![q] = [@ EXCEPT !.pc = "opening", !.row = r]]
    /\ UNCHANGED <<vars, session, opened, messages, clock>>

\* create_session: the repository is loaded and has to be ready.
OpenRead(q, r) ==
    /\ On(q, "idle")
    /\ Exists(r)
    /\ row[r].status = "ready"
    /\ request' = [request EXCEPT ![q] = [@ EXCEPT !.pc = "opening", !.row = r]]
    /\ UNCHANGED <<vars, session, opened, messages, clock>>

\* ChatSessionStore.create: the foreign key needs the repository to be there.
OpenCommit(q, s) ==
    /\ On(q, "opening")
    /\ Exists(request[q].row)
    /\ s \notin opened
    /\ session' = [session EXCEPT ![s] = request[q].row]
    /\ opened' = opened \cup {s}
    /\ Done(q)
    /\ UNCHANGED <<vars, messages, clock>>

\* The repository was deleted, or the database is unavailable.
OpenFails(q) ==
    /\ On(q, "opening")
    /\ Done(q)
    /\ UNCHANGED <<vars, session, opened, messages, clock>>

\* One transaction.  A message another transaction adds between its two
\* statements goes with the session, by the foreign key.
DeleteSession(s) ==
    /\ session[s] # None
    /\ session' = [session EXCEPT ![s] = None]
    /\ messages' = {m \in messages : m.session # s}
    /\ UNCHANGED <<vars, opened, request, clock>>

-----------------------------------------------------------------------------
(* POST of a question *)

\* QAService.get_execution_context, which keeps ids only.
Ask(q, s) ==
    /\ On(q, "idle")
    /\ session[s] # None
    /\ row[session[s]].status = "ready"
    /\ row[session[s]].gid # None
    /\ request' = [request EXCEPT ![q] =
                      [@ EXCEPT !.pc = "asked", !.session = s, !.gid = row[session[s]].gid]]
    /\ UNCHANGED <<vars, session, opened, messages, clock>>

MessagesOf(s) == {m \in messages : m.session = s}

\* Mutant: the window holds one message less than so many exchanges.
OddWindow(w, listed) ==
    /\ w \subseteq listed
    /\ \A m \in w, n \in listed \ w : n.at =< m.at
    /\ Cardinality(w) < 2 * MAX_HISTORY_EXCHANGES
    /\ w # listed => Cardinality(w) = 2 * MAX_HISTORY_EXCHANGES - 1

\* w may be what _format_history keeps of the messages list_by_session returns:
\* the last ones by created_at, messages of the same instant in any order.
IsWindow(w, listed) ==
    /\ w \subseteq listed
    /\ \A m \in w, n \in listed \ w : n.at =< m.at
    /\ Cardinality(w) =< 2 * MAX_HISTORY_EXCHANGES
    /\ w # listed => Cardinality(w) = 2 * MAX_HISTORY_EXCHANGES

\* question_rewriter, the first node of the pipeline.
ReadHistory(q) ==
    LET listed == MessagesOf(request[q].session) IN
    /\ On(q, "asked")
    /\ \E w \in SUBSET listed :
          /\ IsWindow(w, listed)
          /\ request' = [request EXCEPT ![q] = [@ EXCEPT !.pc = "retrieving", !.history = w]]
    /\ UNCHANGED <<vars, session, opened, messages, clock>>

\* A search, an LLM call or the database fails: QA_PIPELINE_FAILED.
PipelineFails(q) ==
    /\ request[q].pc \in {"asked", "retrieving"}
    /\ Done(q)
    /\ UNCHANGED <<vars, session, opened, messages, clock>>

\* create_exchange: the session is looked up again, then the time is taken.
\* Two requests may take it in the same microsecond.
Stamp(q, t) ==
    /\ On(q, "retrieving")
    /\ session[request[q].session] # None
    /\ t \in clock .. clock + 2
    /\ t =< MaxClock
    /\ clock' = t
    /\ request' = [request EXCEPT ![q] = [@ EXCEPT !.pc = "saving", !.at = t, !.history = {}]]
    /\ UNCHANGED <<vars, session, opened, messages>>

\* ChatMessageSessionNotFoundError: the answer is not kept.
SessionGone(q) ==
    /\ On(q, "retrieving")
    /\ session[request[q].session] = None
    /\ Done(q)
    /\ UNCHANGED <<vars, session, opened, messages, clock>>

\* Mutant: both messages take the default created_at.
SameInstant(s, e, t) ==
    {[session |-> s, exchange |-> e, role |-> role, at |-> t] : role \in ChatMessageRole}

\* The question, and the answer one microsecond after it.
ExchangeMessages(s, e, t) ==
    {[session |-> s, exchange |-> e, role |-> "user", at |-> t],
     [session |-> s, exchange |-> e, role |-> "assistant", at |-> t + 1]}

\* Mutant: an exchange that may not have been saved is saved again.
SaveAndRetry(q, e) ==
    /\ On(q, "saving")
    /\ session[request[q].session] # None
    /\ \A m \in messages : m.exchange # e
    /\ messages' = messages \cup ExchangeMessages(request[q].session, e, request[q].at)
    /\ UNCHANGED <<vars, session, opened, request, clock>>

\* The commit updates the session's row, which has to be there still.
SaveExchange(q, e) ==
    /\ On(q, "saving")
    /\ session[request[q].session] # None
    /\ \A m \in messages : m.exchange # e
    /\ messages' = messages \cup ExchangeMessages(request[q].session, e, request[q].at)
    /\ Done(q)
    /\ UNCHANGED <<vars, session, opened, clock>>

\* StaleDataError on the session's row, or the database is unavailable.
SaveFails(q) ==
    /\ On(q, "saving")
    /\ Done(q)
    /\ UNCHANGED <<vars, session, opened, messages, clock>>

-----------------------------------------------------------------------------

\* ON DELETE CASCADE: the sessions of a deleted repository go with it.
Cascade(s) ==
    IF session[s] # None /\ row'[session[s]] = None THEN None ELSE session[s]

RepositoryStep ==
    /\ Next
    /\ session' = [s \in Sessions |-> Cascade(s)]
    /\ messages' = {m \in messages : Cascade(m.session) # None}
    /\ UNCHANGED <<opened, request, clock>>

SessionRequest(q) ==
    \/ \E r \in Rows : OpenRead(q, r)
    \/ \E s \in Sessions : OpenCommit(q, s)
    \/ OpenFails(q)

QuestionRequest(q) ==
    \/ \E s \in Sessions : Ask(q, s)
    \/ ReadHistory(q) \/ PipelineFails(q) \/ SessionGone(q)
    \/ \E t \in 0 .. MaxClock : Stamp(q, t)
    \/ \E e \in Exchanges : SaveExchange(q, e)
    \/ SaveFails(q)

ChatNext ==
    \/ RepositoryStep
    \/ \E s \in Sessions : DeleteSession(s)
    \/ \E q \in Requests : SessionRequest(q) \/ QuestionRequest(q)

ChatSpec == ChatInit /\ [][ChatNext]_chatVars

-----------------------------------------------------------------------------
(* Properties *)

\* The tables and the request threads keep their shape.
ChatTypeOK ==
    /\ session \in [Sessions -> Rows \cup {None}]
    /\ opened \subseteq Sessions
    /\ messages \subseteq ChatMessage
    /\ request \in [Requests -> Request]
    /\ clock \in 0 .. MaxClock

\* A session belongs to a repository that is still registered and has been
\* published, although the repository was read before the session was stored
\* and may have been analysed again, failed or been deleted since.
SessionsArePublished ==
    \A s \in Sessions : session[s] # None =>
        /\ s \in opened
        /\ Exists(session[s])
        /\ row[session[s]].gid # None
        /\ row[session[s]].latest # None

\* A conversation is made of whole exchanges, each question before its answer
\* in the order of created_at, and no message outlives its session, whichever
\* of a deletion and a question under way comes first.
ConversationsWhole ==
    \A m \in messages :
        /\ session[m.session] # None
        /\ \E n \in MessagesOf(m.session) :
              /\ n.exchange = m.exchange
              /\ n.role # m.role
              /\ m.role = "user" <=> m.at < n.at

AnswersFromOwn(q) ==
    LET s == request[q].session
        g == request[q].gid
    IN  s # None =>
            /\ g # None /\ searchable[g] # {}
            /\ session[s] # None => /\ row[session[s]].gid = g
                                    /\ row[session[s]].latest \in searchable[g]

\* From the check of a question to its last search the GitHub repository it
\* searches has evidence, also when the registration is analysed again or
\* deleted meanwhile, and it is the one of the session's repository.
AnswersFromOwnRepository == \A q \in Requests : AnswersFromOwn(q)

\* No two exchanges of s were stamped within one microsecond of each other.
Apart(s) ==
    \A m, n \in MessagesOf(s) :
        m.role = "user" /\ n.role = "user" /\ m # n => m.at + 1 < n.at \/ n.at + 1 < m.at

\* The exchanges with fewer than MAX_HISTORY_EXCHANGES newer ones.
LatestExchanges(s) ==
    {m \in MessagesOf(s) :
        Cardinality({n \in MessagesOf(s) : n.role = m.role /\ n.at > m.at})
            < MAX_HISTORY_EXCHANGES}

\* A follow-up question is rewritten with the latest exchanges of its session,
\* each whole: cutting the list of messages does not separate an answer from
\* its question (unless exchanges overlap to the microsecond, see Apart).
RewriterSeesLatest ==
    [][\A q \in Requests :
          On(q, "asked") /\ request'[q].pc = "retrieving" /\ Apart(request[q].session)
              => request'[q].history = LatestExchanges(request[q].session)]_chatVars
=============================================================================
