\* Two analyses of one registration over a history with a fork.
SPECIFICATION Spec
CONSTANTS
    None = None
    c1 = c1  c2 = c2  c3 = c3  c4 = c4  c5 = c5  c6 = c6
    A = A  B = B  Txt = Txt  mA = mA  mB = mB  mC = mC  x = x  y = y
    Commits = {c1, c2, c3, c4, c5}
    Paths = {A, B, Txt}
    Supported = {A, B}
    Methods = {mA, mB, mC}
    Bodies = {x, y}
    Branches = {b1}
    Jobs = {j1, j2}
    MaxFiles = 2
    PathOf <- MCPathOf
    Parent <- ForkParent
    MergedParents <- NoMerges
    Ancestors <- ForkAncestors
    Tree <- ForkTree
    Renamed <- ForkRenamed
    Body <- ForkBody
SYMMETRY Symmetry
INVARIANTS
    EventsAreChanges
    CheckpointHistoryComplete
    DerivedFromLastBody
    VersionAtCommit
