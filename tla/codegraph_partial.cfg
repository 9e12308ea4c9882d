\* One branch with two commits, the second of which changes a caller and an
\* unrelated class.
SPECIFICATION Spec
CONSTANTS
    None = None
    b1 = b1  b2 = b2
    Branches = {b1}
    MaxCommits <- MCMaxCommits
    Paths <- MCPaths
    Excluded = {"dist/lib.js"}
    LanguageOf <- MCLanguageOf
    RouteKey <- MCRouteKey
    Trees <- MCPartialTrees
INVARIANT CertainCallsHold
