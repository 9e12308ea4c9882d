------------------------ MODULE RepositoryRefinement ------------------------
(* RepositoryLifecycle implements RepositoryPublication: without the        *)
(* checkpoint, the threads and the branch heads, and with a commit          *)
(* searchable once its method history, code graph and chunks are stored.    *)
EXTENDS RepositoryLifecycle

\* A row without its checkpoint.
PublicPart(x) ==
    [key |-> x.key, status |-> x.status, gid |-> x.gid, latest |-> x.latest]

PublicRow(r) == IF row[r] = None THEN None ELSE PublicPart(row[r])

Publication == INSTANCE RepositoryPublication WITH
    row        <- [r \in Rows |-> PublicRow(r)],
    searchable <- [g \in Repos |-> {c \in Commits : Covered(g, c)}]

\* No row is not a row.
ASSUME NullAssumption == None \notin Repository \cup Publication!Repository

\* Seen from outside, requests, analyses and faults do only what
\* RepositoryPublication allows: a row is published with everything its commit
\* needs, under a GitHub id of its own, and nothing stored is lost.
PublicationSpec == Publication!Spec
=============================================================================
