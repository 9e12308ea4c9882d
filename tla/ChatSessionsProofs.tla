-------------------------- MODULE ChatSessionsProofs --------------------------
(* What RepositoryPublication promises, and what chat sessions make of it, for  *)
(* any number of repositories, sessions, requests and commits.                  *)
EXTENDS ConversationRefinement, FiniteSetTheorems, TLAPS

\* What a repository step leaves of the table and of the store.
RowsKeep ==
    /\ registered \subseteq registered'
    /\ \A g \in Repos : searchable[g] \subseteq searchable'[g]
    /\ \A r \in Rows : ~Exists(r) /\ r \in registered => ~Exists(r)'
    /\ \A r \in Rows : Exists(r) /\ Exists(r)' /\ row[r].gid # None
                          => row'[r].gid = row[r].gid /\ row'[r].latest # None

LEMMA RegisterKeeps ==
    ASSUME Promise, NEW r \in Rows, NEW k \in Keys, Register(r, k)
    PROVE  Promise' /\ RowsKeep
<1> DEFINE x == [key |-> k, status |-> "pending", gid |-> None, latest |-> None]
<1>1. /\ r \notin registered /\ row' = [row EXCEPT ![r] = x]
      /\ registered' = registered \cup {r} /\ UNCHANGED searchable
    BY DEF Register
<1>2. x \in Repository
    BY DEF Repository, Status
<1>3. /\ row'[r] = x /\ row' \in [Rows -> Repository \cup {None}]
      /\ \A q \in Rows : q # r => row'[q] = row[q]
    BY <1>1, <1>2 DEF Promise
<1>4. RowPromise(r)'
    BY <1>1, <1>2, <1>3 DEF RowPromise
<1>5. \A q \in Rows : q # r => RowPromise(q)'
    BY <1>1, <1>3 DEF Promise, RowPromise, Exists
<1>6. ~Exists(r)
    BY <1>1 DEF Promise, RowPromise
<1>7. RowsKeep
    <2>1. ASSUME NEW q \in Rows, ~Exists(q), q \in registered PROVE ~Exists(q)'
        BY <1>1, <1>3, <2>1 DEF Exists
    <2>2. ASSUME NEW q \in Rows, Exists(q) PROVE row'[q] = row[q]
        BY <1>3, <1>6, <2>2
    <2>3. ASSUME NEW q \in Rows, Exists(q), row[q].gid # None PROVE row[q].latest # None
        BY <2>3 DEF Promise, RowPromise
    <2> QED BY <1>1, <2>1, <2>2, <2>3 DEF RowsKeep
<1>8. GithubIdsUnique'
    BY <1>1, <1>3 DEF Promise, GithubIdsUnique, Exists
<1> QED BY <1>1, <1>3, <1>4, <1>5, <1>7, <1>8 DEF Promise

LEMMA SetStatusKeeps ==
    ASSUME Promise, NEW r \in Rows, NEW s \in Status \ {"ready"}, SetStatus(r, s)
    PROVE  Promise' /\ RowsKeep
<1>1. /\ row' = [row EXCEPT ![r].status = s] /\ Exists(r)
      /\ UNCHANGED <<registered, searchable>>
    BY DEF SetStatus
<1>2. row[r] \in Repository
    BY <1>1 DEF Promise, Exists
<1>3. /\ row'[r] \in Repository /\ row' \in [Rows -> Repository \cup {None}]
      /\ row'[r].status = s /\ row'[r].key = row[r].key
      /\ row'[r].gid = row[r].gid /\ row'[r].latest = row[r].latest
      /\ \A q \in Rows : q # r => row'[q] = row[q]
    BY <1>1, <1>2 DEF Promise, Repository
<1>4. \A q \in Rows : RowPromise(q)'
    BY <1>1, <1>3 DEF Promise, RowPromise, Exists
<1>5. RowsKeep
    BY <1>1, <1>3 DEF Promise, RowPromise, RowsKeep, Exists
<1>6. GithubIdsUnique'
    BY <1>1, <1>3 DEF Promise, GithubIdsUnique, Exists
<1> QED BY <1>1, <1>3, <1>4, <1>5, <1>6 DEF Promise

LEMMA PublishKeeps ==
    ASSUME Promise, NEW r \in Rows, NEW c \in Commits, Publish(r, c)
    PROVE  Promise' /\ RowsKeep
<1> DEFINE g == GithubId[row[r].key]
           x == [row[r] EXCEPT !.status = "ready", !.gid = g, !.latest = c]
<1>1. /\ row' = [row EXCEPT ![r] = x] /\ Exists(r) /\ c \in searchable[g]
      /\ UNCHANGED <<registered, searchable>>
    BY DEF Publish
<1>2. row[r] \in Repository /\ g \in Repos /\ g # None /\ c # None
    BY <1>1, PublicationAssumption DEF Promise, Exists, Repository
<1>3. /\ x \in Repository /\ x.key = row[r].key /\ x.status = "ready"
      /\ x.gid = g /\ x.latest = c
    BY <1>2 DEF Repository, Status
<1> HIDE DEF x
<1>4. /\ row'[r] = x /\ row' \in [Rows -> Repository \cup {None}]
      /\ \A q \in Rows : q # r => row'[q] = row[q]
    BY <1>1, <1>3 DEF Promise
<1>5. RowPromise(r) /\ \A q \in Rows : q # r => RowPromise(q)'
    BY <1>1, <1>4 DEF Promise, RowPromise, Exists
<1>6. RowPromise(r)'
    BY <1>1, <1>2, <1>3, <1>4, <1>5 DEF RowPromise, Exists
<1>7. RowsKeep
    BY <1>1, <1>2, <1>3, <1>4, <1>5 DEF RowPromise, RowsKeep, Promise, Exists
<1>8. row[r].gid = g \/ \A s \in Rows \ {r} : Exists(s) => row[s].gid # g
    BY DEF Publish
<1>9. GithubIdsUnique'
    BY <1>1, <1>2, <1>3, <1>4, <1>8 DEF Promise, GithubIdsUnique, Exists
<1> QED BY <1>1, <1>4, <1>5, <1>6, <1>7, <1>9 DEF Promise

LEMMA NextKeeps == Promise /\ Next => Promise' /\ RowsKeep
<1> SUFFICES ASSUME Promise, Next PROVE Promise' /\ RowsKeep
    OBVIOUS
<1>1. ASSUME NEW r \in Rows, Remove(r) PROVE Promise' /\ RowsKeep
    <2>1. /\ row'[r] = None /\ row' \in [Rows -> Repository \cup {None}]
          /\ \A q \in Rows : q # r => row'[q] = row[q]
          /\ UNCHANGED <<registered, searchable>>
        BY <1>1 DEF Remove, Promise
    <2>2. \A q \in Rows : RowPromise(q)'
        BY <2>1 DEF Promise, RowPromise, Exists
    <2>3. RowsKeep
        BY <2>1 DEF Promise, RowPromise, RowsKeep, Exists
    <2>4. GithubIdsUnique'
        BY <2>1 DEF Promise, GithubIdsUnique, Exists
    <2> QED BY <2>1, <2>2, <2>3, <2>4 DEF Promise
<1>2. ASSUME NEW g \in Repos, NEW commits \in SUBSET Commits, Store(g, commits)
      PROVE  Promise' /\ RowsKeep
    <2>1. /\ searchable' \in [Repos -> SUBSET Commits] /\ UNCHANGED <<row, registered>>
          /\ \A h \in Repos : searchable[h] \subseteq searchable'[h]
        BY <1>2 DEF Store, Promise
    <2>2. ASSUME NEW r \in Rows, Exists(r) PROVE row[r].gid # None => row[r].gid \in Repos
        BY <2>2 DEF Promise, Exists, Repository
    <2>3. \A r \in Rows : RowPromise(r)'
        BY <2>1, <2>2 DEF Promise, RowPromise, Exists
    <2>4. RowsKeep
        BY <2>1 DEF Promise, RowPromise, RowsKeep, Exists
    <2>5. GithubIdsUnique'
        BY <2>1 DEF Promise, GithubIdsUnique, Exists
    <2> QED BY <2>1, <2>3, <2>4, <2>5 DEF Promise
<1> QED BY <1>1, <1>2, RegisterKeeps, SetStatusKeeps, PublishKeeps DEF Next

-----------------------------------------------------------------------------
(* Sessions and questions *)

\* The repository of a session, or of a request about to store one, has been
\* published if it is there at all.
Published(r) == r \in registered /\ (Exists(r) => row[r].gid # None /\ row[r].latest # None)

RequestInv(q) ==
    /\ request[q].pc = "opening" => request[q].row \in Rows /\ Published(request[q].row)
    /\ request[q].pc \in {"asked", "retrieving", "saving"} => request[q].session # None
    /\ request[q].session # None =>
          /\ request[q].session \in opened
          /\ request[q].gid \in Repos
    /\ AnswersFromOwn(q)

ChatInv ==
    /\ Promise
    /\ ChatTypeOK
    /\ SessionsArePublished
    /\ ConversationsWhole
    /\ \A q \in Requests : RequestInv(q)

\* Only the requests have moved, one of them to an admissible state.
LEMMA RequestStep ==
    ASSUME ChatInv, NEW q \in Requests, NEW x \in Request,
           request' = [request EXCEPT ![q] = x],
           UNCHANGED <<vars, session, opened, messages>>, clock' \in 0 .. MaxClock,
           RequestInv(q)'
    PROVE  ChatInv'
<1>1. /\ request' \in [Requests -> Request]
      /\ \A p \in Requests : p # q => request'[p] = request[p]
    BY DEF ChatInv, ChatTypeOK
<1>2. Promise' /\ SessionsArePublished' /\ ConversationsWhole'
    BY DEF ChatInv, vars, Promise, RowPromise, GithubIdsUnique, SessionsArePublished,
           ConversationsWhole, MessagesOf, Exists
<1>3. \A p \in Requests : p # q => RequestInv(p)'
    BY <1>1 DEF ChatInv, vars, RequestInv, Published, AnswersFromOwn, Exists
<1> QED BY <1>1, <1>2, <1>3 DEF ChatInv, ChatTypeOK

LEMMA DoneStep ==
    ASSUME ChatInv, NEW q \in Requests, Done(q),
           UNCHANGED <<vars, session, opened, messages, clock>>
    PROVE  ChatInv'
<1>1. IdleRequest \in Request /\ request' = [request EXCEPT ![q] = IdleRequest]
    BY ChatAssumption DEF IdleRequest, Request, Done
<1>2. request'[q] = IdleRequest
    BY <1>1 DEF ChatInv, ChatTypeOK
<1>3. RequestInv(q)'
    BY <1>2 DEF RequestInv, AnswersFromOwn, IdleRequest
<1> QED BY <1>1, <1>3, RequestStep DEF ChatInv, ChatTypeOK

LEMMA OpenReadStep ==
    ASSUME ChatInv, NEW q \in Requests, NEW r \in Rows, OpenRead(q, r)
    PROVE  ChatInv'
<1> DEFINE x == [request[q] EXCEPT !.pc = "opening", !.row = r]
<1>1. request' = [request EXCEPT ![q] = x] /\ UNCHANGED <<vars, session, opened, messages, clock>>
    BY DEF OpenRead
<1>2. /\ x \in Request /\ x.pc = "opening" /\ x.row = r
      /\ x.session = request[q].session /\ x.gid = request[q].gid
    BY DEF ChatInv, ChatTypeOK, Request
<1> HIDE DEF x
<1>3. request'[q] = x
    BY <1>1 DEF ChatInv, ChatTypeOK
<1>4. Published(r)
    BY DEF OpenRead, Published, ChatInv, Promise, RowPromise
<1>5. RequestInv(q)'
    BY <1>1, <1>2, <1>3, <1>4 DEF ChatInv, RequestInv, Published, AnswersFromOwn, vars, Exists
<1> QED BY <1>1, <1>2, <1>5, RequestStep DEF ChatInv, ChatTypeOK

\* The row that was ready when it was read has stayed published since, or is
\* gone, and then the foreign key refuses the session.
LEMMA OpenCommitStep ==
    ASSUME ChatInv, NEW q \in Requests, NEW s \in Sessions, OpenCommit(q, s)
    PROVE  ChatInv'
<1> DEFINE r == request[q].row
<1>1. /\ session' = [session EXCEPT ![s] = r] /\ opened' = opened \cup {s}
      /\ s \notin opened /\ Exists(r) /\ UNCHANGED <<vars, messages, clock>>
      /\ request' = [request EXCEPT ![q] = IdleRequest]
    BY DEF OpenCommit, Done
<1>2. r \in Rows /\ Published(r)
    BY DEF OpenCommit, On, ChatInv, RequestInv
<1>3. /\ IdleRequest \in Request /\ request' \in [Requests -> Request]
      /\ request'[q] = IdleRequest /\ \A p \in Requests : p # q => request'[p] = request[p]
      /\ session' \in [Sessions -> Rows \cup {None}]
      /\ session'[s] = r /\ \A z \in Sessions : z # s => session'[z] = session[z]
    BY <1>1, <1>2, ChatAssumption DEF ChatInv, ChatTypeOK, IdleRequest, Request
<1>4. session[s] = None
    BY <1>1 DEF ChatInv, SessionsArePublished
<1>5. Promise'
    BY <1>1 DEF ChatInv, vars, Promise, RowPromise, GithubIdsUnique, Exists
<1>6. SessionsArePublished'
    BY <1>1, <1>2, <1>3 DEF ChatInv, SessionsArePublished, Published, vars, Exists
<1>7. ConversationsWhole'
    BY <1>1, <1>3, <1>4 DEF ChatInv, ChatTypeOK, ConversationsWhole, MessagesOf, ChatMessage
<1>8. RequestInv(q)'
    BY <1>3 DEF RequestInv, AnswersFromOwn, IdleRequest
<1>9. ASSUME NEW p \in Requests, p # q PROVE RequestInv(p)'
    <2>1. RequestInv(p) /\ request'[p] = request[p] /\ request[p] \in Request
        BY <1>3, <1>9 DEF ChatInv, ChatTypeOK
    <2>2. request[p].session # None => request[p].session \in Sessions \ {s}
        BY <1>1, <2>1 DEF RequestInv, Request
    <2> QED BY <1>1, <1>3, <2>1, <2>2 DEF RequestInv, Published, AnswersFromOwn, vars, Exists
<1> QED BY <1>1, <1>3, <1>5, <1>6, <1>7, <1>8, <1>9 DEF ChatInv, ChatTypeOK

LEMMA AskStep ==
    ASSUME ChatInv, NEW q \in Requests, NEW s \in Sessions, Ask(q, s)
    PROVE  ChatInv'
<1> DEFINE r == session[s]
           x == [request[q] EXCEPT !.pc = "asked", !.session = s, !.gid = row[r].gid]
<1>1. /\ request' = [request EXCEPT ![q] = x] /\ r # None /\ row[r].gid # None
      /\ UNCHANGED <<vars, session, opened, messages, clock>>
    BY DEF Ask
<1>2. /\ r \in Rows /\ Exists(r) /\ s \in opened /\ row[r] \in Repository
      /\ row[r].latest # None /\ RowPromise(r)
    BY <1>1 DEF ChatInv, ChatTypeOK, SessionsArePublished, Promise, Exists
<1>3. row[r].gid \in Repos /\ row[r].latest \in searchable[row[r].gid]
    BY <1>1, <1>2 DEF RowPromise, Repository
<1>4. x \in Request /\ x.pc = "asked" /\ x.session = s /\ x.gid = row[r].gid
    BY <1>3 DEF ChatInv, ChatTypeOK, Request
<1> HIDE DEF x
<1>5. request'[q] = x
    BY <1>1 DEF ChatInv, ChatTypeOK
<1>6. RequestInv(q)'
    BY <1>1, <1>2, <1>3, <1>4, <1>5, ChatAssumption DEF RequestInv, AnswersFromOwn, vars
<1> QED BY <1>1, <1>4, <1>6, RequestStep DEF ChatInv, ChatTypeOK

\* The question moves through the pipeline and keeps its session and GitHub id.
LEMMA QuestionStep ==
    ASSUME ChatInv, NEW q \in Requests,
           ReadHistory(q) \/ \E t \in 0 .. MaxClock : Stamp(q, t)
    PROVE  ChatInv'
<1>1. \A m \in messages : m \in ChatMessage
    BY DEF ChatInv, ChatTypeOK
<1>2. PICK pc \in {"retrieving", "saving"}, h \in SUBSET ChatMessage, t \in 0 .. MaxClock :
         /\ request' = [request EXCEPT ![q] = [@ EXCEPT !.pc = pc, !.history = h, !.at = t]]
         /\ UNCHANGED <<vars, session, opened, messages>> /\ clock' \in 0 .. MaxClock
    <2>1. CASE ReadHistory(q)
        <3>1. PICK h \in SUBSET MessagesOf(request[q].session) :
                 request' = [request EXCEPT ![q] = [@ EXCEPT !.pc = "retrieving", !.history = h]]
            BY <2>1 DEF ReadHistory
        <3>2. h \in SUBSET ChatMessage
            BY <1>1 DEF MessagesOf
        <3>3. request[q] \in Request
            BY DEF ChatInv, ChatTypeOK
        <3>4. request[q].at \in 0 .. MaxClock
              /\ [request[q] EXCEPT !.pc = "retrieving", !.history = h]
                 = [request[q] EXCEPT !.pc = "retrieving", !.history = h, !.at = request[q].at]
            BY <3>3 DEF Request
        <3> QED BY <2>1, <3>1, <3>2, <3>4 DEF ReadHistory, ChatInv, ChatTypeOK
    <2>2. CASE \E t \in 0 .. MaxClock : Stamp(q, t)
        <3>1. PICK t \in 0 .. MaxClock : Stamp(q, t)
            BY <2>2
        <3>2. request[q] \in Request
            BY DEF ChatInv, ChatTypeOK
        <3>3. [request[q] EXCEPT !.pc = "saving", !.at = t, !.history = {}]
                 = [request[q] EXCEPT !.pc = "saving", !.history = {}, !.at = t]
            BY <3>2 DEF Request
        <3> QED BY <3>1, <3>3 DEF Stamp
    <2> QED BY <2>1, <2>2
<1> DEFINE x == [request[q] EXCEPT !.pc = pc, !.history = h, !.at = t]
<1>3. x \in Request /\ x.pc = pc /\ x.session = request[q].session /\ x.gid = request[q].gid
    BY <1>2 DEF ChatInv, ChatTypeOK, Request
<1>4. request' = [request EXCEPT ![q] = x]
    BY <1>2
<1> HIDE DEF x
<1>5. request'[q] = x
    BY <1>4 DEF ChatInv, ChatTypeOK
<1>6. request[q].session # None
    BY DEF ReadHistory, Stamp, On, ChatInv, RequestInv
<1>7. RequestInv(q)'
    BY <1>2, <1>3, <1>5, <1>6 DEF ChatInv, RequestInv, AnswersFromOwn, vars
<1> QED BY <1>2, <1>3, <1>4, <1>7, RequestStep

\* m and n are the two messages of an exchange, the question first.
Pair(m, n) ==
    /\ n.exchange = m.exchange
    /\ n.role # m.role
    /\ m.role = "user" <=> m.at < n.at

LEMMA SaveExchangeStep ==
    ASSUME ChatInv, NEW q \in Requests, NEW e \in Exchanges, SaveExchange(q, e)
    PROVE  ChatInv'
<1> DEFINE s == request[q].session
           t == request[q].at
           new == ExchangeMessages(s, e, t)
<1>1. /\ messages' = messages \cup new /\ session[s] # None
      /\ request' = [request EXCEPT ![q] = IdleRequest]
      /\ UNCHANGED <<vars, session, opened, clock>>
    BY DEF SaveExchange, Done
<1>2. s \in Sessions /\ t \in 0 .. MaxClock /\ MaxClock \in Nat
    BY ChatAssumption DEF SaveExchange, On, ChatInv, ChatTypeOK, RequestInv, Request
<1>3. /\ new \subseteq ChatMessage
      /\ \A m \in new : m.session = s /\ \E n \in new : Pair(m, n)
    BY <1>2 DEF ExchangeMessages, ChatMessage, ChatMessageRole, Pair
<1> HIDE DEF new
<1>4. ConversationsWhole'
    <2>1. ASSUME NEW m \in messages
          PROVE  /\ session[m.session] # None
                 /\ \E n \in messages' : n.session = m.session /\ Pair(m, n)
        BY <1>1 DEF ChatInv, ConversationsWhole, MessagesOf, Pair
    <2>2. ASSUME NEW m \in new
          PROVE  /\ session[m.session] # None
                 /\ \E n \in messages' : n.session = m.session /\ Pair(m, n)
        <3>1. m.session = s
            BY <1>3
        <3>2. PICK n \in new : Pair(m, n)
            BY <1>3
        <3>3. n.session = s /\ n \in messages'
            BY <1>1, <1>3
        <3> QED BY <1>1, <3>1, <3>2, <3>3
    <2> QED BY <1>1, <2>1, <2>2 DEF ConversationsWhole, MessagesOf, Pair
<1>5. /\ IdleRequest \in Request /\ request' \in [Requests -> Request]
      /\ request'[q] = IdleRequest /\ \A p \in Requests : p # q => request'[p] = request[p]
    BY <1>1, ChatAssumption DEF ChatInv, ChatTypeOK, IdleRequest, Request
<1>6. Promise' /\ SessionsArePublished'
    BY <1>1 DEF ChatInv, vars, Promise, RowPromise, GithubIdsUnique, SessionsArePublished, Exists
<1>7. RequestInv(q)'
    BY <1>5 DEF RequestInv, AnswersFromOwn, IdleRequest
<1>8. \A p \in Requests : p # q => RequestInv(p)'
    BY <1>1, <1>5 DEF ChatInv, vars, RequestInv, Published, AnswersFromOwn, Exists
<1> QED BY <1>1, <1>3, <1>4, <1>5, <1>6, <1>7, <1>8 DEF ChatInv, ChatTypeOK

\* Sessions go, with their messages, and none is added.
LEMMA SessionsGo ==
    ASSUME ChatInv, Promise', RowsKeep, UNCHANGED <<opened, request, clock>>,
           session' \in [Sessions -> Rows \cup {None}],
           \A s \in Sessions : session'[s] # None =>
               session'[s] = session[s] /\ Exists(session[s])',
           messages' = {m \in messages : session'[m.session] # None}
    PROVE  ChatInv'
<1>1. ASSUME NEW s \in Sessions, session'[s] # None
      PROVE  /\ session'[s] = session[s] /\ session[s] \in Rows /\ s \in opened
             /\ Exists(session[s]) /\ Exists(session[s])'
             /\ row[session[s]].gid # None
             /\ row'[session[s]].gid = row[session[s]].gid
             /\ row'[session[s]].latest # None
    BY <1>1 DEF ChatInv, ChatTypeOK, SessionsArePublished, RowsKeep
<1>2. SessionsArePublished'
    BY <1>1 DEF SessionsArePublished
<1>3. ConversationsWhole'
    BY DEF ChatInv, ConversationsWhole, MessagesOf
<1>4. ASSUME NEW q \in Requests PROVE RequestInv(q)'
    <2>1. RequestInv(q) /\ request[q] \in Request
        BY DEF ChatInv, ChatTypeOK
    <2>2. request[q].pc = "opening" => Published(request[q].row)'
        BY <2>1 DEF RequestInv, Published, RowsKeep
    <2>3. ASSUME request[q].session # None
          PROVE  LET s == request[q].session
                     g == request[q].gid
                 IN  /\ g # None /\ searchable'[g] # {}
                     /\ session'[s] # None => /\ row'[session[s]].gid = g
                                              /\ row'[session[s]].latest \in searchable'[g]
        <3> DEFINE s == request[q].session
                   g == request[q].gid
        <3>1. s \in Sessions /\ g \in Repos /\ g # None /\ searchable[g] # {}
            BY <2>1, <2>3 DEF RequestInv, AnswersFromOwn, Request
        <3>2. searchable'[g] # {}
            BY <3>1 DEF RowsKeep
        <3>3. ASSUME session'[s] # None
              PROVE  row'[session[s]].gid = g /\ row'[session[s]].latest \in searchable'[g]
            <4>1. row'[session[s]].gid = g
                BY <1>1, <2>1, <2>3, <3>1, <3>3 DEF RequestInv, AnswersFromOwn
            <4>2. RowPromise(session[s])'
                BY <1>1, <3>1, <3>3 DEF Promise
            <4> QED BY <1>1, <3>1, <3>3, <4>1, <4>2 DEF RowPromise
        <3> QED BY <3>1, <3>2, <3>3
    <2>4. AnswersFromOwn(q)'
        BY <1>1, <2>1, <2>3 DEF AnswersFromOwn, Request
    <2> QED BY <2>1, <2>2, <2>4 DEF RequestInv
<1> QED BY <1>2, <1>3, <1>4 DEF ChatInv, ChatTypeOK

LEMMA DeleteSessionStep ==
    ASSUME ChatInv, NEW s \in Sessions, DeleteSession(s)
    PROVE  ChatInv'
<1>1. /\ session' = [session EXCEPT ![s] = None]
      /\ messages' = {m \in messages : m.session # s}
      /\ UNCHANGED <<vars, opened, request, clock>>
    BY DEF DeleteSession
<1>2. Promise' /\ RowsKeep
    BY <1>1 DEF ChatInv, vars, Promise, RowPromise, GithubIdsUnique, RowsKeep, Exists
<1>3. /\ session' \in [Sessions -> Rows \cup {None}] /\ session'[s] = None
      /\ \A z \in Sessions : z # s => session'[z] = session[z]
    BY <1>1 DEF ChatInv, ChatTypeOK
<1>4. \A z \in Sessions : session'[z] # None =>
          session'[z] = session[z] /\ Exists(session[z])'
    BY <1>1, <1>3 DEF ChatInv, SessionsArePublished, vars, Exists
<1>5. \A m \in messages : m.session # s <=> session'[m.session] # None
    BY <1>3 DEF ChatInv, ChatTypeOK, ConversationsWhole, ChatMessage
<1> QED BY <1>1, <1>2, <1>3, <1>4, <1>5, SessionsGo

LEMMA RepositoryStepKeeps == ChatInv /\ RepositoryStep => ChatInv'
<1> SUFFICES ASSUME ChatInv, RepositoryStep PROVE ChatInv'
    OBVIOUS
<1>1. Promise' /\ RowsKeep
    BY NextKeeps DEF ChatInv, RepositoryStep
<1>2. \A s \in Sessions : session'[s] = Cascade(s) /\ Cascade(s) \in Rows \cup {None}
    BY DEF RepositoryStep, Cascade, ChatInv, ChatTypeOK
<1>3. session' \in [Sessions -> Rows \cup {None}]
    BY <1>2 DEF RepositoryStep
<1>4. \A s \in Sessions : session'[s] # None =>
          session'[s] = session[s] /\ Exists(session[s])'
    BY <1>2 DEF Cascade, Exists
<1>5. messages' = {m \in messages : session'[m.session] # None}
    BY <1>2 DEF RepositoryStep, ChatInv, ChatTypeOK, ChatMessage
<1> QED BY <1>1, <1>3, <1>4, <1>5, SessionsGo DEF RepositoryStep

-----------------------------------------------------------------------------

LEMMA ChatInvariant == ChatSpec => []ChatInv
<1>1. ChatInit => ChatInv
    <2> SUFFICES ASSUME ChatInit PROVE ChatInv
        OBVIOUS
    <2>1. Promise
        BY DEF ChatInit, Init, Promise, RowPromise, GithubIdsUnique, Exists
    <2>2. ChatTypeOK
        BY ChatAssumption DEF ChatInit, ChatTypeOK, IdleRequest, Request
    <2>3. SessionsArePublished /\ ConversationsWhole
        BY DEF ChatInit, SessionsArePublished, ConversationsWhole
    <2>4. \A q \in Requests : RequestInv(q)
        BY DEF ChatInit, RequestInv, AnswersFromOwn, IdleRequest
    <2> QED BY <2>1, <2>2, <2>3, <2>4 DEF ChatInv
<1>2. ChatInv /\ [ChatNext]_chatVars => ChatInv'
    <2> SUFFICES ASSUME ChatInv, [ChatNext]_chatVars PROVE ChatInv'
        OBVIOUS
    <2>1. ASSUME NEW q \in Requests, SessionRequest(q) PROVE ChatInv'
        BY <2>1, OpenReadStep, OpenCommitStep, DoneStep DEF SessionRequest, OpenFails
    <2>2. ASSUME NEW q \in Requests, QuestionRequest(q) PROVE ChatInv'
        BY <2>2, AskStep, QuestionStep, SaveExchangeStep, DoneStep
        DEF QuestionRequest, PipelineFails, SessionGone, SaveFails
    <2>3. CASE UNCHANGED chatVars
        BY <2>3 DEF chatVars, chat, vars, ChatInv, Promise, RowPromise, GithubIdsUnique,
                    ChatTypeOK, SessionsArePublished, ConversationsWhole, MessagesOf,
                    RequestInv, Published, AnswersFromOwn, Exists
    <2> QED BY <2>1, <2>2, <2>3, DeleteSessionStep, RepositoryStepKeeps DEF ChatNext
<1> QED BY <1>1, <1>2, PTL DEF ChatSpec

\* The tables and the requests keep their shape.
THEOREM ChatTypes == ChatSpec => []ChatTypeOK
<1>1. ChatInv => ChatTypeOK
    BY DEF ChatInv
<1> QED BY <1>1, ChatInvariant, PTL

\* A session is never without a repository that has been published.
THEOREM SessionsPublished == ChatSpec => []SessionsArePublished
<1>1. ChatInv => SessionsArePublished
    BY DEF ChatInv
<1> QED BY <1>1, ChatInvariant, PTL

\* Exchanges are whole, in order, and never outlive their session.
THEOREM ExchangesWhole == ChatSpec => []ConversationsWhole
<1>1. ChatInv => ConversationsWhole
    BY DEF ChatInv
<1> QED BY <1>1, ChatInvariant, PTL

\* A question that was accepted always has evidence to search, of its own
\* session's repository.
THEOREM AnswersOwn == ChatSpec => []AnswersFromOwnRepository
<1>1. ChatInv => AnswersFromOwnRepository
    BY DEF ChatInv, RequestInv, AnswersFromOwnRepository
<1> QED BY <1>1, ChatInvariant, PTL
-----------------------------------------------------------------------------
(* The window of the rewriter *)

\* The other message of an exchange.
Partner(m) ==
    IF m.role = "user" THEN [m EXCEPT !.role = "assistant", !.at = @ + 1]
    ELSE [m EXCEPT !.role = "user", !.at = @ - 1]

\* More than ConversationsWhole: the answer is one microsecond later, and it is the only
\* one.
PairsInv == \A m \in messages : Partner(m) \in messages

LEMMA PartnerOf ==
    ASSUME NEW m \in ChatMessage
    PROVE  /\ Partner(m).session = m.session /\ Partner(m).exchange = m.exchange
           /\ m.role = "user" => Partner(m).role = "assistant" /\ Partner(m).at = m.at + 1
           /\ m.role # "user" => Partner(m).role = "user" /\ Partner(m).at = m.at - 1
           /\ Partner(Partner(m)) = m
<1>1. /\ m = [session |-> m.session, exchange |-> m.exchange, role |-> m.role, at |-> m.at]
      /\ m.role \in {"user", "assistant"} /\ m.at \in Int
    BY ChatAssumption DEF ChatMessage, ChatMessageRole
<1>2. CASE m.role = "user"
    <2>1. Partner(m) = [session |-> m.session, exchange |-> m.exchange, role |-> "assistant",
                        at |-> m.at + 1]
        BY <1>1, <1>2 DEF Partner
    <2>2. Partner(Partner(m)) = [session |-> m.session, exchange |-> m.exchange, role |-> "user",
                                 at |-> (m.at + 1) - 1]
        BY <2>1 DEF Partner
    <2>3. (m.at + 1) - 1 = m.at
        BY <1>1
    <2> QED BY <1>1, <1>2, <2>1, <2>2, <2>3
<1>3. CASE m.role # "user"
    <2>1. Partner(m) = [session |-> m.session, exchange |-> m.exchange, role |-> "user",
                        at |-> m.at - 1]
        BY <1>1, <1>3 DEF Partner
    <2>2. Partner(Partner(m)) = [session |-> m.session, exchange |-> m.exchange,
                                 role |-> "assistant", at |-> (m.at - 1) + 1]
        BY <2>1 DEF Partner
    <2>3. (m.at - 1) + 1 = m.at
        BY <1>1
    <2> QED BY <1>1, <1>3, <2>1, <2>2, <2>3
<1> QED BY <1>2, <1>3

LEMMA PairsKept == ChatInv /\ PairsInv /\ [ChatNext]_chatVars => PairsInv'
<1> SUFFICES ASSUME ChatInv, PairsInv, [ChatNext]_chatVars PROVE PairsInv'
    OBVIOUS
<1>1. messages \subseteq ChatMessage
    BY DEF ChatInv, ChatTypeOK
<1>2. ASSUME UNCHANGED messages PROVE PairsInv'
    BY <1>2 DEF PairsInv
<1>3. ASSUME NEW S, messages' = {m \in messages : m.session \in S} PROVE PairsInv'
    BY <1>1, <1>3, PartnerOf DEF PairsInv
<1>4. CASE RepositoryStep
    <2> DEFINE S == {s \in Sessions : Cascade(s) # None}
    <2>1. messages' = {m \in messages : Cascade(m.session) # None}
        BY <1>4 DEF RepositoryStep
    <2>2. \A m \in messages : m.session \in Sessions
        BY <1>1 DEF ChatMessage
    <2>3. messages' = {m \in messages : m.session \in S}
        BY <2>1, <2>2
    <2> QED BY <1>3, <2>3
<1>5. ASSUME NEW s \in Sessions, DeleteSession(s) PROVE PairsInv'
    <2>1. messages' = {m \in messages : m.session \in Sessions \ {s}}
        BY <1>1, <1>5 DEF DeleteSession, ChatMessage
    <2> QED BY <1>3, <2>1
<1>6. ASSUME NEW q \in Requests, NEW e \in Exchanges, SaveExchange(q, e) PROVE PairsInv'
    <2> DEFINE s == request[q].session
               t == request[q].at
               m == [session |-> s, exchange |-> e, role |-> "user", at |-> t]
               n == [session |-> s, exchange |-> e, role |-> "assistant", at |-> t + 1]
    <2>1. messages' = messages \cup {m, n}
        BY <1>6 DEF SaveExchange, ExchangeMessages
    <2>2. t \in Int
        BY ChatAssumption DEF ChatInv, ChatTypeOK, Request
    <2>3. Partner(m) = n
        BY DEF Partner
    <2>4. Partner(n) = m
        <3>1. (t + 1) - 1 = t
            BY <2>2
        <3>2. Partner(n) = [session |-> s, exchange |-> e, role |-> "user", at |-> (t + 1) - 1]
            BY DEF Partner
        <3> QED BY <3>1, <3>2
    <2> HIDE DEF m, n
    <2> QED BY <2>1, <2>3, <2>4 DEF PairsInv
<1>7. ASSUME NEW q \in Requests, SessionRequest(q) PROVE PairsInv'
    BY <1>2, <1>7 DEF SessionRequest, OpenRead, OpenCommit, OpenFails
<1>8. ASSUME NEW q \in Requests, QuestionRequest(q) PROVE PairsInv'
    BY <1>2, <1>6, <1>8 DEF QuestionRequest, Ask, ReadHistory, PipelineFails, SessionGone, Stamp, SaveFails
<1>9. CASE UNCHANGED chatVars
    BY <1>2, <1>9 DEF chatVars, chat
<1> QED BY <1>4, <1>5, <1>7, <1>8, <1>9 DEF ChatNext

LEMMA PairsInvariant == ChatSpec => [](ChatInv /\ PairsInv)
<1>1. ChatInit => PairsInv
    BY DEF ChatInit, PairsInv
<1> QED BY <1>1, PairsKept, ChatInvariant, PTL DEF ChatSpec

\* Messages as a session has them: pairs, and no two at the same time.
Conversation(L) ==
    /\ L \subseteq ChatMessage
    /\ \A m \in L : Partner(m) \in L
    /\ \A m, n \in L : m.role = "user" /\ n.role = "user" /\ m # n
                          => m.at + 1 < n.at \/ n.at + 1 < m.at

Newer(L, m) == {n \in L : n.at > m.at}
NewerAlike(L, m) == {n \in L : n.role = m.role /\ n.at > m.at}

LEMMA Times ==
    ASSUME NEW L, Conversation(L)
    PROVE  /\ \A m \in L : m.at \in Nat /\ m.role \in {"user", "assistant"}
           /\ \A m, n \in L : m.role = n.role /\ m # n => m.at + 1 < n.at \/ n.at + 1 < m.at
           /\ \A m, n \in L : m.at = n.at => m = n
           /\ IsFiniteSet(L)
<1>1. \A m \in L : m \in ChatMessage /\ Partner(m) \in L
    BY DEF Conversation
<1>2. \A m \in L : m.at \in 0 .. MaxClock + 1 /\ m.role \in {"user", "assistant"}
    BY <1>1 DEF ChatMessage, ChatMessageRole
<1>3. \A m \in L : m.at \in Nat /\ m.at \in Int
    BY <1>2, ChatAssumption
<1>4. ASSUME NEW m \in L, NEW n \in L, m.role = n.role, m # n
      PROVE  m.at + 1 < n.at \/ n.at + 1 < m.at
    <2>1. CASE m.role = "user"
        BY <1>4, <2>1 DEF Conversation
    <2>2. CASE m.role # "user"
        <3>1. /\ Partner(m) \in L /\ Partner(n) \in L
              /\ Partner(m).role = "user" /\ Partner(n).role = "user"
              /\ Partner(m).at = m.at - 1 /\ Partner(n).at = n.at - 1
              /\ Partner(m) # Partner(n)
            BY <1>1, <1>4, <2>2, PartnerOf
        <3>2. Partner(m).at + 1 < Partner(n).at \/ Partner(n).at + 1 < Partner(m).at
            BY <3>1 DEF Conversation
        <3> QED BY <1>3, <3>1, <3>2
    <2> QED BY <2>1, <2>2
<1>5. ASSUME NEW m \in L, NEW n \in L, m.at = n.at, m.role = "user", n.role # "user" PROVE FALSE
    <2>1. Partner(n) \in L /\ Partner(n).role = "user" /\ Partner(n).at = n.at - 1
        BY <1>1, <1>5, PartnerOf
    <2>2. m = Partner(n) \/ m.at + 1 < Partner(n).at \/ Partner(n).at + 1 < m.at
        BY <1>4, <1>5, <2>1
    <2> QED BY <1>3, <1>5, <2>1, <2>2
<1>6. ASSUME NEW m \in L, NEW n \in L, m.at = n.at PROVE m = n
    <2>1. m.role = n.role \/ (m.role = "user" /\ n.role # "user") \/ (n.role = "user" /\ m.role # "user")
        BY <1>2
    <2>2. m.role = n.role /\ m # n => FALSE
        BY <1>3, <1>4, <1>6
    <2> QED BY <1>5, <1>6, <2>1, <2>2
<1>7. IsFiniteSet(L)
    <2> DEFINE f == [m \in L |-> m.at]
               T == 0 .. MaxClock + 1
    <2>1. f \in Injection(L, T)
        BY <1>2, <1>6 DEF Injection, IsInjective
    <2>2. IsFiniteSet(T)
        BY ChatAssumption, FS_Interval
    <2> HIDE DEF f, T
    <2> QED BY <2>1, <2>2, FS_Injection
<1> QED BY <1>2, <1>3, <1>4, <1>6, <1>7

\* Counting the messages after m: those of its role, and as many of the other; after a
\* question there is its own answer besides.
LEMMA CountNewer ==
    ASSUME NEW L, Conversation(L), NEW m \in L
    PROVE  /\ IsFiniteSet(Newer(L, m)) /\ IsFiniteSet(NewerAlike(L, m))
           /\ Cardinality(Newer(L, m)) \in Nat /\ Cardinality(NewerAlike(L, m)) \in Nat
           /\ m.role = "user" => Cardinality(Newer(L, m)) = 2 * Cardinality(NewerAlike(L, m)) + 1
           /\ m.role # "user" => Cardinality(Newer(L, m)) = 2 * Cardinality(NewerAlike(L, m))
<1> DEFINE S == NewerAlike(L, m)
           own == IF m.role = "user" THEN {Partner(m)} ELSE {}
           T == {n \in L : n.role # m.role /\ n.at > m.at} \ own
           f == [n \in S |-> Partner(n)]
<1>1. /\ \A n \in L : n.at \in Nat /\ n.role \in {"user", "assistant"}
      /\ \A a, n \in L : a.role = n.role /\ a # n => a.at + 1 < n.at \/ n.at + 1 < a.at
      /\ \A a, n \in L : a.at = n.at => a = n
      /\ IsFiniteSet(L)
    BY Times
<1>2. \A n \in L : n \in ChatMessage /\ Partner(n) \in L
    BY DEF Conversation
<1>3. \A n \in L : /\ Partner(n) \in L /\ Partner(Partner(n)) = n
                   /\ n.role = "user" => Partner(n).role = "assistant" /\ Partner(n).at = n.at + 1
                   /\ n.role # "user" => Partner(n).role = "user" /\ Partner(n).at = n.at - 1
    BY <1>2, PartnerOf
<1>4. IsFiniteSet(S) /\ IsFiniteSet(Newer(L, m)) /\ IsFiniteSet(T) /\ T \subseteq L /\ S \subseteq L
    <2>1. S \in SUBSET L /\ Newer(L, m) \in SUBSET L /\ T \in SUBSET L
        BY DEF NewerAlike, Newer
    <2> HIDE DEF S, T
    <2> QED BY <1>1, <2>1, FS_Subset
<1>5. ASSUME NEW n \in S PROVE Partner(n) \in T
    <2>1. n \in L /\ n.role = m.role /\ n.at > m.at /\ n # m
        BY <1>1 DEF NewerAlike
    <2>2. n.at > m.at + 1
        BY <1>1, <2>1
    <2>3. Partner(n).at > m.at /\ Partner(n).role # m.role
        BY <1>1, <1>3, <2>1, <2>2
    <2>4. Partner(n) # Partner(m)
        BY <1>3, <2>1
    <2> QED BY <1>3, <2>1, <2>3, <2>4
<1>6. ASSUME NEW n \in T PROVE Partner(n) \in S
    <2>1. n \in L /\ n.role # m.role /\ n.at > m.at
        OBVIOUS
    <2>2. Partner(n) \in L /\ Partner(n).role = m.role
        BY <1>1, <1>3, <2>1
    <2>3. CASE m.role = "user"
        <3>1. n # Partner(m) /\ n.role # "user" /\ Partner(n).at = n.at - 1
            BY <1>3, <2>1, <2>3
        <3>2. Partner(n) # m
            BY <1>3, <2>1, <3>1
        <3>3. Partner(n).at >= m.at /\ Partner(n).at # m.at
            BY <1>1, <2>1, <2>2, <3>1, <3>2
        <3>4. Partner(n).at > m.at
            BY <1>1, <2>2, <3>3
        <3> QED BY <2>2, <3>4 DEF NewerAlike
    <2>4. CASE m.role # "user"
        <3>1. n.role = "user" /\ Partner(n).at = n.at + 1
            BY <1>1, <1>3, <2>1, <2>4
        <3>2. Partner(n).at > m.at
            BY <1>1, <2>1, <3>1
        <3> QED BY <2>2, <3>2 DEF NewerAlike
    <2> QED BY <2>3, <2>4
<1>7. Cardinality(T) = Cardinality(S)
    <2>1. \A a, n \in S : Partner(a) = Partner(n) => a = n
        BY <1>3, <1>4
    <2>2. \A n \in T : Partner(n) \in S /\ Partner(Partner(n)) = n
        BY <1>3, <1>4, <1>6
    <2> HIDE DEF S, T
    <2>3. f \in [S -> T] /\ (\A a, n \in S : f[a] = f[n] => a = n)
          /\ \A n \in T : \E a \in S : f[a] = n
        BY <1>5, <2>1, <2>2
    <2>4. f \in Bijection(S, T)
        BY <2>3 DEF Bijection, Injection, Surjection, IsInjective
    <2> HIDE DEF f
    <2>5. ExistsBijection(S, T)
        BY <2>4 DEF ExistsBijection
    <2> QED BY <1>4, <2>5, FS_Bijection
<1>8. Newer(L, m) = (S \cup T) \cup own /\ S \cap T = {} /\ (S \cup T) \cap own = {}
    <2>1. S \cap T = {}
        BY DEF NewerAlike
    <2>2. (S \cup T) \cap own = {}
        <3>1. m.role = "user" => Partner(m).role # m.role
            BY <1>3
        <3> QED BY <3>1 DEF NewerAlike
    <2>3. own \subseteq Newer(L, m)
        <3>1. m.role = "user" => Partner(m) \in L /\ Partner(m).at > m.at
            BY <1>1, <1>3
        <3> QED BY <3>1 DEF Newer
    <2>4. S \cup T \subseteq Newer(L, m)
        BY DEF Newer, NewerAlike
    <2>5. Newer(L, m) \subseteq (S \cup T) \cup own
        BY DEF Newer, NewerAlike
    <2> HIDE DEF S, T, own
    <2> QED BY <2>1, <2>2, <2>3, <2>4, <2>5
<1>9. IsFiniteSet(own) /\ Cardinality(own) = IF m.role = "user" THEN 1 ELSE 0
    BY FS_Singleton, FS_EmptySet
<1> HIDE DEF S, T, own
<1>10. Cardinality(S \cup T) = Cardinality(S) + Cardinality(T) /\ IsFiniteSet(S \cup T)
    <2>1. Cardinality(S \cup T) = Cardinality(S) + Cardinality(T) - Cardinality(S \cap T)
          /\ IsFiniteSet(S \cup T)
        BY <1>4, FS_Union
    <2>2. Cardinality(S \cap T) = 0
        BY <1>8, FS_EmptySet, Zenon
    <2>3. Cardinality(S) \in Nat /\ Cardinality(T) \in Nat
        BY <1>4, FS_CardinalityType
    <2> QED BY <2>1, <2>2, <2>3
<1>11. Cardinality(Newer(L, m)) = Cardinality(S \cup T) + Cardinality(own)
    <2>1. Cardinality((S \cup T) \cup own)
              = Cardinality(S \cup T) + Cardinality(own) - Cardinality((S \cup T) \cap own)
        BY <1>9, <1>10, FS_Union
    <2>2. Cardinality((S \cup T) \cap own) = 0 /\ Newer(L, m) = (S \cup T) \cup own
        BY <1>8, FS_EmptySet, Zenon
    <2>3. Cardinality(S \cup T) \in Nat /\ Cardinality(own) \in Nat
        BY <1>9, <1>10, FS_CardinalityType
    <2>4. Cardinality(Newer(L, m)) = Cardinality((S \cup T) \cup own)
        BY <2>2, Zenon
    <2> QED BY <2>1, <2>2, <2>3, <2>4
<1>12. Cardinality(S) \in Nat /\ Cardinality(Newer(L, m)) \in Nat
    BY <1>4, FS_CardinalityType
<1> QED BY <1>4, <1>7, <1>9, <1>10, <1>11, <1>12 DEF S

\* The last messages of a conversation, by their number, are the last exchanges.
LEMMA WindowIsLatest ==
    ASSUME NEW L, Conversation(L), NEW w, IsWindow(w, L)
    PROVE  w = {m \in L : Cardinality(NewerAlike(L, m)) < MAX_HISTORY_EXCHANGES}
<1> DEFINE N(m) == Cardinality(Newer(L, m))
           A(m) == Cardinality(NewerAlike(L, m))
<1>1. /\ w \in SUBSET L /\ IsFiniteSet(L) /\ IsFiniteSet(w) /\ Cardinality(w) \in Nat
      /\ MAX_HISTORY_EXCHANGES \in Nat
    BY Times, FS_Subset, FS_CardinalityType, ChatAssumption DEF IsWindow
<1>2. \A m \in L : /\ N(m) \in Nat /\ A(m) \in Nat
                   /\ N(m) = 2 * A(m) + 1 \/ N(m) = 2 * A(m)
    BY CountNewer
<1>3. \A m \in L : m.at \in Nat
    BY Times
<1>4. ASSUME NEW m \in w PROVE A(m) < MAX_HISTORY_EXCHANGES
    <2>1. m \in L /\ IsFiniteSet(Newer(L, m))
        BY <1>1, CountNewer
    <2>2. Newer(L, m) \subseteq w /\ m \notin Newer(L, m)
        BY <1>1, <1>3, <2>1 DEF Newer, IsWindow
    <2>3. Cardinality(Newer(L, m) \cup {m}) = N(m) + 1
        BY <2>1, <2>2, FS_AddElement
    <2>4. Newer(L, m) \cup {m} \in SUBSET w
        BY <2>2
    <2>5. N(m) + 1 <= Cardinality(w)
        BY <1>1, <2>3, <2>4, FS_Subset
    <2>6. Cardinality(w) =< 2 * MAX_HISTORY_EXCHANGES
        BY DEF IsWindow
    <2> HIDE DEF N, A
    <2> QED BY <1>1, <1>2, <2>1, <2>5, <2>6
<1>5. ASSUME NEW m \in L, m \notin w PROVE ~(A(m) < MAX_HISTORY_EXCHANGES)
    <2>1. w # L /\ Cardinality(w) = 2 * MAX_HISTORY_EXCHANGES
        BY <1>5 DEF IsWindow
    <2>2. \A n \in w : n \in L /\ m.at =< n.at /\ n.at # m.at
        BY <1>1, <1>5, Times DEF IsWindow
    <2>3. w \in SUBSET Newer(L, m)
        BY <1>3, <1>5, <2>2 DEF Newer
    <2>4. IsFiniteSet(Newer(L, m))
        BY CountNewer
    <2>5. Cardinality(w) <= N(m)
        BY <2>3, <2>4, FS_Subset
    <2> HIDE DEF N, A
    <2> QED BY <1>1, <1>2, <2>1, <2>5
<1> QED BY <1>1, <1>4, <1>5

\* Whatever else is asked, stored and deleted meanwhile, and however many exchanges a
\* session has, its rewriter is given the last ones, each of them whole.
THEOREM LatestRewritten == ChatSpec => RewriterSeesLatest
<1> DEFINE Rewritten ==
        \A q \in Requests :
            On(q, "asked") /\ request'[q].pc = "retrieving" /\ Apart(request[q].session)
                => request'[q].history = LatestExchanges(request[q].session)
<1>1. ASSUME ChatInv, PairsInv, [ChatNext]_chatVars, NEW q \in Requests,
             On(q, "asked"), request'[q].pc = "retrieving", Apart(request[q].session)
      PROVE  request'[q].history = LatestExchanges(request[q].session)
    <2> DEFINE L == MessagesOf(request[q].session)
    <2>1. Conversation(L)
        <3>1. /\ \A m \in messages : m \in ChatMessage /\ Partner(m) \in messages
              /\ \A m \in ChatMessage : Partner(m).session = m.session
            <4>1. messages \subseteq ChatMessage
                BY <1>1 DEF ChatInv, ChatTypeOK
            <4>2. \A m \in messages : Partner(m) \in messages
                BY <1>1 DEF PairsInv
            <4>3. \A m \in ChatMessage : Partner(m).session = m.session
                BY PartnerOf
            <4> QED BY <4>1, <4>2, <4>3
        <3>2. L \subseteq ChatMessage /\ \A m \in L : Partner(m) \in L
            BY <3>1 DEF MessagesOf
        <3>3. \A m, n \in L : m.role = "user" /\ n.role = "user" /\ m # n
                                  => m.at + 1 < n.at \/ n.at + 1 < m.at
            BY <1>1 DEF Apart
        <3> HIDE DEF L
        <3> QED BY <3>2, <3>3 DEF Conversation
    <2>2. IsWindow(request'[q].history, L)
        <3>1. request \in [Requests -> Request] /\ request[q].pc = "asked"
            BY <1>1 DEF ChatInv, ChatTypeOK, On
        <3>2. ASSUME NEW w, NEW p \in Requests,
                     request' = [request EXCEPT ![p] = [@ EXCEPT !.pc = "retrieving", !.history = w]],
                     IsWindow(w, MessagesOf(request[p].session))
              PROVE  IsWindow(request'[q].history, L)
            <4>1. request[q] = [request[q] EXCEPT !.pc = "asked"] /\ DOMAIN request = Requests
                BY <3>1 DEF Request
            <4>2. p = q
                BY <1>1, <3>1, <3>2, <4>1
            <4>3. request'[q] = [request[q] EXCEPT !.pc = "retrieving", !.history = w]
                BY <3>2, <4>1, <4>2
            <4>4. request'[q].history = w
                BY <3>1, <4>3 DEF Request
            <4> QED BY <3>2, <4>2, <4>4
        <3>3. ~ UNCHANGED request
            BY <1>1, <3>1
        <3>4. ASSUME NEW p \in Requests, request'[p].pc # "retrieving",
                     \A o \in Requests \ {p} : request'[o] = request[o]
              PROVE  FALSE
            BY <1>1, <3>1, <3>4
        <3>5. ~ RepositoryStep /\ ~ UNCHANGED chatVars /\ \A s \in Sessions : ~ DeleteSession(s)
            BY <3>3 DEF RepositoryStep, chatVars, chat, DeleteSession
        <3>6. \A p \in Requests : ~ SessionRequest(p)
            <4> SUFFICES ASSUME NEW p \in Requests, SessionRequest(p) PROVE FALSE
                OBVIOUS
            <4>1. CASE \E r \in Rows : OpenRead(p, r)
                BY <3>1, <3>4, <4>1 DEF OpenRead, Request
            <4>2. CASE Done(p)
                BY <3>1, <3>4, <4>2 DEF Done, IdleRequest
            <4> QED BY <4>1, <4>2 DEF SessionRequest, OpenCommit, OpenFails
        <3>7. PICK p \in Requests : QuestionRequest(p)
            BY <1>1, <3>5, <3>6 DEF ChatNext
        <3>8. CASE ReadHistory(p)
            BY <3>2, <3>8 DEF ReadHistory
        <3>9. CASE Done(p)
            BY <3>1, <3>4, <3>9 DEF Done, IdleRequest
        <3>10. CASE \E s \in Sessions : Ask(p, s)
            BY <3>1, <3>4, <3>10 DEF Ask, Request
        <3>11. CASE \E t \in 0 .. MaxClock : Stamp(p, t)
            BY <3>1, <3>4, <3>11 DEF Stamp, Request
        <3> QED BY <3>7, <3>8, <3>9, <3>10, <3>11
            DEF QuestionRequest, PipelineFails, SessionGone, SaveExchange, SaveFails
    <2> HIDE DEF L
    <2>3. request'[q].history = {m \in L : Cardinality(NewerAlike(L, m)) < MAX_HISTORY_EXCHANGES}
        BY <2>1, <2>2, WindowIsLatest
    <2> QED BY <2>3 DEF L, LatestExchanges, NewerAlike
<1>2. ChatInv /\ PairsInv /\ [ChatNext]_chatVars => [Rewritten]_chatVars
    BY <1>1
<1>3. ChatSpec => [][Rewritten]_chatVars
    BY <1>2, PairsInvariant, PTL DEF ChatSpec
<1> QED BY <1>3 DEF RewriterSeesLatest

-----------------------------------------------------------------------------
(* Conversations *)

LEMMA ChatInitRefines == ChatInit => Abstract!Init
BY DEF ChatInit, Abstract!Init, Asking, IdleRequest

\* What one request becomes decides what it asks, and leaves the others.
LEMMA AskingAfter ==
    ASSUME ChatInv, NEW q \in Requests, NEW x, request' = [request EXCEPT ![q] = x]
    PROVE  /\ Asking(q)' = IF x.pc \in {"asked", "retrieving", "saving"}
                           THEN x.session ELSE None
           /\ \A p \in Requests \ {q} : Asking(p)' = Asking(p)
BY DEF ChatInv, ChatTypeOK, Asking

LEMMA NoneAsked ==
    ASSUME ChatInv, NEW q \in Requests, request' = [request EXCEPT ![q] = IdleRequest]
    PROVE  /\ Asking(q)' = None
           /\ \A p \in Requests \ {q} : Asking(p)' = Asking(p)
<1>1. IdleRequest.pc \notin {"asked", "retrieving", "saving"}
    BY DEF IdleRequest
<1> QED BY <1>1, AskingAfter

\* The phases of a request that are not seen.
LEMMA Unseen ==
    ASSUME UNCHANGED <<session, opened, messages>>,
           \A p \in Requests : Asking(p)' = Asking(p)
    PROVE  UNCHANGED Abstract!vars
BY DEF Abstract!vars

\* A request that ends without an answer gives its question up, if it had one.
LEMMA DoneGivesUp ==
    ASSUME ChatInv, NEW q \in Requests, Done(q), UNCHANGED <<session, opened, messages>>
    PROVE  Abstract!Next
<1>1. /\ Asking(q)' = None
      /\ \A p \in Requests \ {q} : Asking(p)' = Asking(p)
    BY NoneAsked DEF Done
<1>2. [p \in Requests |-> Asking(p)]' = [[p \in Requests |-> Asking(p)] EXCEPT ![q] = None]
    BY <1>1
<1>3. Abstract!GiveUp(q)
    BY <1>2 DEF Abstract!GiveUp
<1> QED BY <1>3 DEF Abstract!Next

LEMMA CommitBegins ==
    ASSUME ChatInv, NEW q \in Requests, NEW s \in Sessions, OpenCommit(q, s)
    PROVE  Abstract!Next
<1>1. /\ s \notin opened /\ session' = [session EXCEPT ![s] = request[q].row]
      /\ opened' = opened \cup {s} /\ messages' = messages /\ On(q, "opening")
      /\ request' = [request EXCEPT ![q] = IdleRequest]
    BY DEF OpenCommit, Done
<1>2. request[q].row \in Rows
    BY <1>1 DEF ChatInv, RequestInv, On
<1>3. Asking(q)' = None /\ \A p \in Requests \ {q} : Asking(p)' = Asking(p)
    BY <1>1, NoneAsked
<1>4. Asking(q) = None
    BY <1>1 DEF Asking, On
<1>5. [p \in Requests |-> Asking(p)]' = [p \in Requests |-> Asking(p)]
    BY <1>3, <1>4
<1>6. Abstract!Begin(s, request[q].row)
    BY <1>1, <1>5 DEF Abstract!Begin
<1> QED BY <1>2, <1>6 DEF Abstract!Next

LEMMA AskAsks ==
    ASSUME ChatInv, NEW q \in Requests, NEW s \in Sessions, Ask(q, s)
    PROVE  Abstract!Next
<1> DEFINE x == [request[q] EXCEPT !.pc = "asked", !.session = s, !.gid = row[session[s]].gid]
<1>1. /\ request' = [request EXCEPT ![q] = x] /\ session[s] # None /\ On(q, "idle")
      /\ UNCHANGED <<session, opened, messages>>
    BY DEF Ask
<1>2. x.pc = "asked" /\ x.session = s
    BY DEF ChatInv, ChatTypeOK, Request
<1> HIDE DEF x
<1>3. Asking(q)' = s /\ \A p \in Requests \ {q} : Asking(p)' = Asking(p)
    BY <1>1, <1>2, AskingAfter
<1>4. Asking(q) = None
    BY <1>1 DEF Asking, On
<1>5. [p \in Requests |-> Asking(p)]' = [[p \in Requests |-> Asking(p)] EXCEPT ![q] = s]
    BY <1>3
<1>6. Abstract!Ask(q, s)
    BY <1>1, <1>4, <1>5 DEF Abstract!Ask, Abstract!Open
<1> QED BY <1>6 DEF Abstract!Next

LEMMA SaveAnswers ==
    ASSUME ChatInv, NEW q \in Requests, NEW e \in Exchanges, SaveExchange(q, e)
    PROVE  Abstract!Next
<1> DEFINE s == request[q].session
           t == request[q].at
<1>1. /\ On(q, "saving") /\ session[s] # None /\ \A m \in messages : m.exchange # e
      /\ messages' = messages \cup ExchangeMessages(s, e, t)
      /\ request' = [request EXCEPT ![q] = IdleRequest]
      /\ UNCHANGED <<session, opened>>
    BY DEF SaveExchange, Done
<1>2. s # None /\ t \in 0 .. MaxClock /\ MaxClock \in Nat
    BY <1>1, ChatAssumption DEF ChatInv, ChatTypeOK, RequestInv, Request, On
<1>3. /\ Asking(q)' = None
      /\ \A p \in Requests \ {q} : Asking(p)' = Asking(p)
    BY <1>1, NoneAsked
<1>4. Asking(q) = s
    BY <1>1 DEF Asking, On
<1>5. [p \in Requests |-> Asking(p)]' = [[p \in Requests |-> Asking(p)] EXCEPT ![q] = None]
    BY <1>3
<1>6. t \in 0 .. MaxClock + 1 /\ t + 1 \in 0 .. MaxClock + 1 /\ t < t + 1
    BY <1>2
<1>7. ExchangeMessages(s, e, t)
         = {Abstract!Message(s, e, "user", t), Abstract!Message(s, e, "assistant", t + 1)}
    BY DEF ExchangeMessages, Abstract!Message
<1> HIDE DEF s, t
<1>8. Abstract!Answer(q, e, t, t + 1)
    BY <1>1, <1>2, <1>4, <1>5, <1>6, <1>7 DEF Abstract!Answer, Abstract!Open
<1> QED BY <1>6, <1>8 DEF Abstract!Next

LEMMA DeleteCloses ==
    ASSUME ChatInv, NEW s \in Sessions, DeleteSession(s)
    PROVE  Abstract!Next
<1>1. /\ session[s] # None /\ session' = [session EXCEPT ![s] = None]
      /\ messages' = {m \in messages : m.session \notin {s}}
      /\ UNCHANGED <<opened, request>>
    BY DEF DeleteSession
<1>2. session' = [z \in Sessions |-> IF z \in {s} THEN None ELSE session[z]]
    BY <1>1 DEF ChatInv, ChatTypeOK
<1>3. [p \in Requests |-> Asking(p)]' = [p \in Requests |-> Asking(p)]
    BY <1>1 DEF Asking
<1>4. Abstract!CloseSession(s)
    BY <1>1, <1>2, <1>3 DEF Abstract!CloseSession, Abstract!Close, Abstract!Open
<1> QED BY <1>4 DEF Abstract!Next

\* A step of the repositories changes at most one row, so it closes the
\* sessions of one repository or none.
LEMMA RepositoryCloses ==
    ASSUME ChatInv, RepositoryStep
    PROVE  Abstract!Next \/ UNCHANGED Abstract!vars
<1>1. /\ Next /\ session' = [s \in Sessions |-> Cascade(s)]
      /\ messages' = {m \in messages : Cascade(m.session) # None}
      /\ UNCHANGED <<opened, request>>
    BY DEF RepositoryStep
<1>2. \A p \in Requests : Asking(p)' = Asking(p)
    BY <1>1 DEF Asking
<1>3. /\ \A s \in Sessions : session[s] \in Rows \cup {None}
      /\ \A s \in Sessions : session[s] # None => row[session[s]] # None
      /\ \A m \in messages : m.session \in Sessions /\ session[m.session] # None
      /\ None \notin Rows
    BY ChatAssumption
       DEF ChatInv, ChatTypeOK, SessionsArePublished, ConversationsWhole, ChatMessage, Exists
<1>4. row' = row \/ \E r \in Rows : \A p \in Rows \ {r} : row'[p] = row[p]
    BY <1>1 DEF Next, Register, SetStatus, Publish, Remove, Store, ChatInv, Promise
<1>5. ASSUME \A p \in Rows : row[p] # None => row'[p] # None
      PROVE  UNCHANGED Abstract!vars
    <2>1. \A s \in Sessions : Cascade(s) = session[s]
        BY <1>3, <1>5 DEF Cascade
    <2>2. session' = session
        BY <1>1, <2>1 DEF ChatInv, ChatTypeOK
    <2>3. messages' = messages
        BY <1>1, <1>3, <2>1
    <2> QED BY <1>1, <1>2, <2>2, <2>3, Unseen
<1>6. ASSUME NEW r \in Rows, \A p \in Rows \ {r} : row'[p] = row[p], row'[r] = None
      PROVE  Abstract!Next
    <2> DEFINE closing == {s \in Sessions : session[s] = r}
    <2>1. \A s \in Sessions : Cascade(s) = IF s \in closing THEN None ELSE session[s]
        BY <1>3, <1>6 DEF Cascade
    <2>2. session' = [s \in Sessions |-> IF s \in closing THEN None ELSE session[s]]
        BY <1>1, <2>1
    <2>3. messages' = {m \in messages : m.session \notin closing}
        BY <1>1, <1>3, <2>1
    <2>4. [p \in Requests |-> Asking(p)]' = [p \in Requests |-> Asking(p)]
        BY <1>2
    <2>5. Abstract!CloseRepository(r)
        BY <1>1, <2>2, <2>3, <2>4 DEF Abstract!CloseRepository, Abstract!Close
    <2> QED BY <2>5 DEF Abstract!Next
<1> QED BY <1>4, <1>5, <1>6

LEMMA ChatStepRefines ==
    ChatInv /\ [ChatNext]_chatVars => Abstract!Next \/ UNCHANGED Abstract!vars
<1> SUFFICES ASSUME ChatInv, [ChatNext]_chatVars
             PROVE  Abstract!Next \/ UNCHANGED Abstract!vars
    OBVIOUS
<1>1. CASE UNCHANGED chatVars
    BY <1>1, Unseen DEF chatVars, chat, Asking
<1>2. ASSUME NEW q \in Requests, NEW x, request' = [request EXCEPT ![q] = x],
             UNCHANGED <<session, opened, messages>>,
             IF x.pc \in {"asked", "retrieving", "saving"} THEN x.session = Asking(q)
             ELSE Asking(q) = None
      PROVE  UNCHANGED Abstract!vars
    <2>1. \A p \in Requests : Asking(p)' = Asking(p)
        BY <1>2, AskingAfter
    <2> QED BY <1>2, <2>1, Unseen
<1>3. ASSUME NEW q \in Requests, SessionRequest(q)
      PROVE  Abstract!Next \/ UNCHANGED Abstract!vars
    <2>1. ASSUME NEW r \in Rows, OpenRead(q, r) PROVE UNCHANGED Abstract!vars
        <3> DEFINE x == [request[q] EXCEPT !.pc = "opening", !.row = r]
        <3>1. request' = [request EXCEPT ![q] = x] /\ UNCHANGED <<session, opened, messages>>
            BY <2>1 DEF OpenRead
        <3>2. x.pc = "opening"
            BY DEF ChatInv, ChatTypeOK, Request
        <3>3. Asking(q) = None
            BY <2>1 DEF OpenRead, On, Asking
        <3> HIDE DEF x
        <3> QED BY <1>2, <3>1, <3>2, <3>3
    <2>2. ASSUME OpenFails(q) PROVE Abstract!Next
        BY <2>2, DoneGivesUp DEF OpenFails
    <2> QED BY <1>3, <2>1, <2>2, CommitBegins DEF SessionRequest
<1>4. ASSUME NEW q \in Requests, QuestionRequest(q)
      PROVE  Abstract!Next \/ UNCHANGED Abstract!vars
    <2>1. ASSUME NEW w, request[q].pc = "asked",
                 request' = [request EXCEPT ![q] = [@ EXCEPT !.pc = "retrieving", !.history = w]],
                 UNCHANGED <<session, opened, messages>>
          PROVE  UNCHANGED Abstract!vars
        <3> DEFINE x == [request[q] EXCEPT !.pc = "retrieving", !.history = w]
        <3>1. request' = [request EXCEPT ![q] = x]
            BY <2>1
        <3>2. x.pc = "retrieving" /\ x.session = request[q].session
            BY DEF ChatInv, ChatTypeOK, Request
        <3>3. Asking(q) = request[q].session
            BY <2>1 DEF Asking
        <3> HIDE DEF x
        <3> QED BY <1>2, <2>1, <3>1, <3>2, <3>3
    <2>2. ASSUME ReadHistory(q) PROVE UNCHANGED Abstract!vars
        BY <2>1, <2>2 DEF ReadHistory, On
    <2>3. ASSUME NEW t \in 0 .. MaxClock, Stamp(q, t) PROVE UNCHANGED Abstract!vars
        <3> DEFINE x == [request[q] EXCEPT !.pc = "saving", !.at = t, !.history = {}]
        <3>1. request' = [request EXCEPT ![q] = x] /\ UNCHANGED <<session, opened, messages>>
            BY <2>3 DEF Stamp
        <3>2. x.pc = "saving" /\ x.session = request[q].session
            BY DEF ChatInv, ChatTypeOK, Request
        <3>3. Asking(q) = request[q].session
            BY <2>3 DEF Stamp, On, Asking
        <3> HIDE DEF x
        <3> QED BY <1>2, <3>1, <3>2, <3>3
    <2>4. ASSUME PipelineFails(q) \/ SessionGone(q) \/ SaveFails(q) PROVE Abstract!Next
        BY <2>4, DoneGivesUp DEF PipelineFails, SessionGone, SaveFails
    <2> QED BY <1>4, <2>2, <2>3, <2>4, AskAsks, SaveAnswers DEF QuestionRequest
<1> QED BY <1>1, <1>3, <1>4, DeleteCloses, RepositoryCloses DEF ChatNext

\* Whatever overlaps, a session is gone at once with all that was said in it and never
\* opened again, and a question adds one whole exchange to its own session, or nothing.
THEOREM ChatsImplement == ChatSpec => ConversationSpec
<1> QED BY ChatInvariant, ChatInitRefines, ChatStepRefines, PTL
        DEF ChatSpec, ConversationSpec, Abstract!Spec

\* What was promised, and nothing of how it is kept.
PromisedInv ==
    /\ session \in [Sessions -> Rows \cup {None}]
    /\ \A q \in Requests : Asking(q) \in Sessions \cup {None}
    /\ \A m \in messages :
          /\ m.session \in Sessions
          /\ session[m.session] # None
          /\ \E n \in messages : n.session = m.session /\ Pair(m, n)

LEMMA AnswerKeeps ==
    ASSUME PromisedInv, NEW q \in Requests, NEW e, NEW early \in Nat, NEW late \in Nat,
           Abstract!Answer(q, e, early, late)
    PROVE  PromisedInv'
<1> DEFINE asked == [p \in Requests |-> Asking(p)]
           s == asked[q]
           question == Abstract!Message(s, e, "user", early)
           answer == Abstract!Message(s, e, "assistant", late)
<1>1. /\ s # None /\ session[s] # None /\ early < late
      /\ messages' = messages \cup {question, answer}
      /\ asked' = [asked EXCEPT ![q] = None]
      /\ session' = session
    BY DEF Abstract!Answer, Abstract!Open
<1>2. s \in Sessions
    BY <1>1 DEF PromisedInv
<1>3. /\ question.session = s /\ answer.session = s
      /\ Pair(question, answer) /\ Pair(answer, question)
    BY <1>1 DEF Abstract!Message, Pair
<1>4. \A p \in Requests : asked'[p] \in Sessions \cup {None}
    BY <1>1 DEF PromisedInv
<1>5. \A p \in Requests : Asking(p)' \in Sessions \cup {None}
    BY <1>4
<1> HIDE DEF asked, s, question, answer
<1>6. ASSUME NEW m \in messages'
      PROVE  /\ m.session \in Sessions /\ session[m.session] # None
             /\ \E n \in messages' : n.session = m.session /\ Pair(m, n)
    <2>1. CASE m \in messages
        BY <1>1, <2>1 DEF PromisedInv
    <2>2. CASE m = question
        BY <1>1, <1>2, <1>3, <2>2
    <2>3. CASE m = answer
        BY <1>1, <1>2, <1>3, <2>3
    <2> QED BY <1>1, <1>6, <2>1, <2>2, <2>3
<1> QED BY <1>1, <1>5, <1>6 DEF PromisedInv

LEMMA CloseKeeps ==
    ASSUME PromisedInv, NEW closing, Abstract!Close(closing)
    PROVE  PromisedInv'
<1>1. /\ session' = [s \in Sessions |-> IF s \in closing THEN None ELSE session[s]]
      /\ messages' = {m \in messages : m.session \notin closing}
      /\ [p \in Requests |-> Asking(p)]' = [p \in Requests |-> Asking(p)]
    BY DEF Abstract!Close
<1>2. \A p \in Requests : Asking(p)' = Asking(p)
    <2>1. \A p \in Requests : [r \in Requests |-> Asking(r)]'[p] = [r \in Requests |-> Asking(r)][p]
        BY <1>1
    <2> QED BY <2>1
<1> QED BY <1>1, <1>2 DEF PromisedInv

LEMMA PromisedStep == PromisedInv /\ [Abstract!Next]_Abstract!vars => PromisedInv'
<1> SUFFICES ASSUME PromisedInv, [Abstract!Next]_Abstract!vars PROVE PromisedInv'
    OBVIOUS
<1> DEFINE asked == [p \in Requests |-> Asking(p)]
<1>1. ASSUME UNCHANGED <<session, messages>>,
             \A p \in Requests : asked'[p] \in Sessions \cup {None}
      PROVE  PromisedInv'
    <2>1. \A p \in Requests : Asking(p)' \in Sessions \cup {None}
        BY <1>1
    <2> QED BY <1>1, <2>1 DEF PromisedInv
<1>2. \A p \in Requests : asked[p] \in Sessions \cup {None}
    BY DEF PromisedInv
<1>3. CASE UNCHANGED Abstract!vars
    BY <1>1, <1>2, <1>3 DEF Abstract!vars
<1>4. ASSUME NEW s \in Sessions, NEW r \in Rows, Abstract!Begin(s, r) PROVE PromisedInv'
    <2>1. /\ session' = [session EXCEPT ![s] = r] /\ messages' = messages /\ asked' = asked
        BY <1>4 DEF Abstract!Begin
    <2>2. r # None
        BY ChatAssumption
    <2>3. \A p \in Requests : asked'[p] \in Sessions \cup {None}
        BY <1>2, <2>1
    <2>4. \A p \in Requests : Asking(p)' \in Sessions \cup {None}
        BY <2>3
    <2> QED BY <2>1, <2>2, <2>4 DEF PromisedInv
<1>5. ASSUME NEW q \in Requests, NEW s \in Sessions, Abstract!Ask(q, s) PROVE PromisedInv'
    <2>1. UNCHANGED <<session, messages>> /\ asked' = [asked EXCEPT ![q] = s]
        BY <1>5 DEF Abstract!Ask
    <2>2. \A p \in Requests : asked'[p] \in Sessions \cup {None}
        BY <1>2, <2>1
    <2> QED BY <1>1, <2>1, <2>2
<1>6. ASSUME NEW q \in Requests, Abstract!GiveUp(q) PROVE PromisedInv'
    <2>1. UNCHANGED <<session, messages>> /\ asked' = [asked EXCEPT ![q] = None]
        BY <1>6 DEF Abstract!GiveUp
    <2>2. \A p \in Requests : asked'[p] \in Sessions \cup {None}
        BY <1>2, <2>1
    <2> QED BY <1>1, <2>1, <2>2
<1>7. 0 .. MaxClock + 1 \subseteq Nat
    BY ChatAssumption
<1> QED BY <1>3, <1>4, <1>5, <1>6, <1>7, AnswerKeeps, CloseKeeps
        DEF Abstract!Next, Abstract!CloseSession, Abstract!CloseRepository

\* Conversations promises whole exchanges, question first, that go with their session,
\* whoever implements it.
THEOREM WholePromised == ConversationSpec => []ConversationsWhole
<1>1. Abstract!Init => PromisedInv
    <2> SUFFICES ASSUME Abstract!Init PROVE PromisedInv
        OBVIOUS
    <2>1. /\ session = [s \in Sessions |-> None] /\ messages = {}
          /\ [p \in Requests |-> Asking(p)] = [p \in Requests |-> None]
        BY DEF Abstract!Init
    <2>2. \A p \in Requests : Asking(p) = None
        <3>1. \A p \in Requests : [r \in Requests |-> Asking(r)][p] = [r \in Requests |-> None][p]
            BY <2>1
        <3> QED BY <3>1
    <2> QED BY <2>1, <2>2 DEF PromisedInv
<1>2. PromisedInv => ConversationsWhole
    BY DEF PromisedInv, ConversationsWhole, MessagesOf, Pair
<1> QED BY <1>1, <1>2, PromisedStep, PTL DEF ConversationSpec, Abstract!Spec
=============================================================================
