\* One request at a time, two branches of one GitHub repository, every fault,
\* force-pushes, a deleted row registered again.
SPECIFICATION Spec
CONSTANTS
    None = None
    r1 = r1  r2 = r2  k1 = k1  k2 = k2  g1 = g1
    c1 = c1  c2 = c2  v1 = v1  v2 = v2
    Rows = {r1, r2}
    Keys = {k1, k2}
    Repos = {g1}
    Commits = {c1, c2}
    Versions = {v1, v2}
    GithubId <- MCGithubId
    Ancestors <- MCAncestors
    VersionsAt <- MCVersionsAt
    Clients = {a1}
    Jobs = {j1, j2}
    MaxHistory = 2
    Faults = {"setup", "stage", "database", "dispatch", "crash"}
SYMMETRY Symmetry
INVARIANTS
    ReadyIsSearchable
    CheckpointCovered
PROPERTIES
    StatusFollowsTable
    PublicationMovesForward
    OnlyFaultsAbandon
    PublicationSpec
