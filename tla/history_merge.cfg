\* A merged side branch: the nearest event need not be the right one.
SPECIFICATION Spec
CONSTANTS
    None = None
    c1 = c1  c2 = c2  c3 = c3  c4 = c4  c5 = c5  c6 = c6
    A = A  B = B  Txt = Txt  mA = mA  mB = mB  mC = mC  x = x  y = y
    Commits = {c1, c2, c3, c4, c5, c6}
    Paths = {A, B, Txt}
    Supported = {A, B}
    Methods = {mA}
    Bodies = {x, y}
    Branches = {b1}
    Jobs = {j1}
    MaxFiles = 2
    PathOf <- MCPathOf
    Parent <- MergeParent
    MergedParents <- MergeMergedParents
    Ancestors <- MergeAncestors
    Tree <- MergeTree
    Renamed <- MergeRenamed
    Body <- MergeBody
SYMMETRY Symmetry
INVARIANTS
    VersionAtCommit
