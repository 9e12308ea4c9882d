--------------------------- MODULE MCMethodHistory ---------------------------
(* Small repositories for TLC: a history with a fork, and one with a merge. *)
EXTENDS MethodHistory, TLC

CONSTANTS c1, c2, c3, c4, c5, c6, A, B, Txt, mA, mB, mC, x, y

Symmetry == Permutations(Jobs)

MCPathOf == [m \in Methods |-> IF m = mA THEN A ELSE B]

\* A fork: c3 and c4 are children of c2, and c5 a child of c3.  c2 renames A to
\* B; c3 makes A again; c4 changes one of the two methods of B; c5 renames A to a
\* name without a parser.
ForkParent == [c \in Commits |-> CASE c = c1 -> None
                                   [] c = c2 -> c1
                                   [] c \in {c3, c4} -> c2
                                   [] c = c5 -> c3]

ForkAncestors == [c \in Commits |-> CASE c = c1 -> {c1}
                                      [] c = c2 -> {c1, c2}
                                      [] c = c3 -> {c1, c2, c3}
                                      [] c = c4 -> {c1, c2, c4}
                                      [] c = c5 -> {c1, c2, c3, c5}]

ForkTree == [c \in Commits |-> CASE c = c1 -> {A}
                                 [] c \in {c2, c4} -> {B}
                                 [] c = c3 -> {A, B}
                                 [] c = c5 -> {B, Txt}]

ForkRenamed == [c \in Commits |-> CASE c = c2 -> {<<A, B>>}
                                    [] c = c5 -> {<<A, Txt>>}
                                    [] OTHER -> {}]

ForkBodyOfA == [c \in Commits |-> CASE c = c1 -> x [] c = c3 -> y [] OTHER -> None]
ForkBodyOfB == [c \in Commits |-> CASE c = c1 -> None [] c = c4 -> y [] OTHER -> x]
ForkBodyOfC == [c \in Commits |-> IF c = c1 THEN None ELSE x]
ForkBody    == [c \in Commits |-> [m \in Methods |-> CASE m = mA -> ForkBodyOfA[c]
                                                          [] m = mB -> ForkBodyOfB[c]
                                                          [] m = mC -> ForkBodyOfC[c]]]

NoMerges == [c \in Commits |-> {}]

\* A merge: c1 <- c2 <- c3 <- c4 <- c6 on the branch, and c1 <- c5 <- c6 beside
\* it.  c2 changes A, the side branch does not.
MergeParent == [c \in Commits |-> CASE c = c1 -> None [] c \in {c2, c5} -> c1
                                    [] c = c3 -> c2 [] c = c4 -> c3 [] c = c6 -> c4]

MergeMergedParents == [c \in Commits |-> IF c = c6 THEN {c5} ELSE {}]

MergeAncestors == [c \in Commits |-> CASE c = c1 -> {c1}
                                       [] c = c2 -> {c1, c2}
                                       [] c = c3 -> {c1, c2, c3}
                                       [] c = c4 -> {c1, c2, c3, c4}
                                       [] c = c5 -> {c1, c5}
                                       [] c = c6 -> {c1, c2, c3, c4, c6}]

MergeTree    == [c \in Commits |-> {A}]
MergeRenamed == [c \in Commits |-> {}]
MergeBody    == [c \in Commits |-> [m \in Methods |-> IF c \in {c1, c5} THEN x ELSE y]]
=============================================================================
