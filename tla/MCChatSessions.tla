---------------------------- MODULE MCChatSessions ----------------------------
(* A small instance of ChatSessions for TLC. *)
EXTENDS ConversationRefinement, TLC

CONSTANTS r1, r2, k1, g1, c1, s1, s2, q1, q2, e1, e2

MCGithubId == [k \in Keys |-> g1]

Symmetry ==
    Permutations(Rows) \cup Permutations(Sessions) \cup
    Permutations(Requests) \cup Permutations(Exchanges)
=============================================================================
