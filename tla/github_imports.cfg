\* A pull request and two issues, one on a page, read by imports of two branches.
SPECIFICATION Spec
CONSTANTS
    None = None
    i1 = i1  i2 = i2
    main = main  dev = dev
    root = root  fix = fix  merge = merge  quote = quote
    f = f
    Imports = {i1, i2}
    Branches = {main, dev}
    Issues = {2, 3}
    Pulls = {1}
    Commits = {root, fix, merge, quote}
    Paths = {f}
    Log <- MCLog
    Parents <- MCParents
    Files <- MCFiles
    PullCommits <- MCPullCommits
    MergeOf <- MCMergeOf
    MergedAs <- MCMergedAs
    PageSize = 1
    Initial <- MCInitial
    MaxEvents = 3
SYMMETRY Symmetry
INVARIANTS
    StableIsStored
    NothingInvented
    ChangeIdsResolve
    HunksOfOneImport
CHECK_DEADLOCK FALSE
