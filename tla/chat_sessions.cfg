\* Two requests, two sessions, a repository that is deleted and registered again.
SPECIFICATION ChatSpec
CONSTANTS
    None = None
    r1 = r1  r2 = r2  k1 = k1  g1 = g1  c1 = c1
    s1 = s1  s2 = s2  q1 = q1  q2 = q2  e1 = e1  e2 = e2
    Rows = {r1, r2}
    Keys = {k1}
    Repos = {g1}
    Commits = {c1}
    GithubId <- MCGithubId
    Sessions = {s1, s2}
    Requests = {q1, q2}
    Exchanges = {e1, e2}
    MaxClock = 3
    MAX_HISTORY_EXCHANGES = 1
SYMMETRY Symmetry
INVARIANTS
    SessionsArePublished
    AnswersFromOwnRepository
PROPERTIES
    RewriterSeesLatest
    ConversationSpec
