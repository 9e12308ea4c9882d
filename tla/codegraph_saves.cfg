\* Two branches of one repository, three commits on them.
SPECIFICATION Spec
CONSTANTS
    None = None
    b1 = b1  b2 = b2
    Branches = {b1, b2}
    MaxCommits <- MCMaxCommits
    Paths <- MCPaths
    Excluded = {"dist/lib.js"}
    LanguageOf <- MCLanguageOf
    RouteKey <- MCRouteKey
    Trees <- MCTrees
INVARIANTS
    TypeOK
    LinesHold
    KnownTargetsStored
    KnownReceiverExact
