------------------------ MODULE MCRepositoryLifecycle ------------------------
(* Small instances of RepositoryLifecycle for TLC. *)
EXTENDS RepositoryRefinement, TLC

CONSTANTS r1, r2, k1, k2, g1, c1, c2, v1, v2

\* One GitHub repository; a second key is another branch of it.
MCGithubId == [k \in Keys |-> g1]

\* c1 <- c2: pushing c1 over c2 is a force-push.
MCAncestors ==
    [c \in Commits |-> IF c = c2 THEN {c1, c2} ELSE {c1}]

\* c2 adds a method version: after its analysis that of c1 embeds nothing new.
MCVersionsAt ==
    [c \in Commits |-> IF c = c2 THEN {v1, v2} ELSE {v1}]

Symmetry == Permutations(Clients) \cup Permutations(Jobs) \cup Permutations(Rows)
=============================================================================
