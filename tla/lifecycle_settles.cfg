\* Two requests and two analyses at a time: every accepted analysis ends, and no row is left without one.
SPECIFICATION FairSpec
CONSTANTS
    None = None
    r1 = r1  r2 = r2  k1 = k1  k2 = k2  g1 = g1
    c1 = c1  c2 = c2  v1 = v1  v2 = v2
    Rows = {r1}
    Keys = {k1}
    Repos = {g1}
    Commits = {c1}
    Versions = {v1, v2}
    GithubId <- MCGithubId
    Ancestors <- MCAncestors
    VersionsAt <- MCVersionsAt
    Clients = {a1, a2}
    Jobs = {j1, j2}
    MaxHistory = 2
    Faults = {"stage"}
INVARIANTS
    NoAbandonedAnalysis
PROPERTIES
    AnalysisSettles
CHECK_DEADLOCK FALSE
