----------------------- MODULE ConversationRefinement -----------------------
(* ChatSessions implements Conversations: without the phases of a request,  *)
(* the window of the rewriter, the clock and the analyses, and with a       *)
(* question under way from its check to the end of its request.             *)
EXTENDS ChatSessions

\* The session request q has a question under way in.
Asking(q) ==
    IF request[q].pc \in {"asked", "retrieving", "saving"} THEN request[q].session ELSE None

Abstract == INSTANCE Conversations WITH
    Repositories <- Rows,
    Askers       <- Requests,
    Times        <- 0 .. MaxClock + 1,
    repository   <- session,
    issued       <- opened,
    asked        <- [q \in Requests |-> Asking(q)]

\* Seen by those who ask, requests that overlap with deletions and analyses do only
\* what Conversations allows: a session is gone at once, with all that was said in it,
\* and for good, and a question adds one whole exchange to its own session, or nothing.
ConversationSpec == Abstract!Spec
=============================================================================
