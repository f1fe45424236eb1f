\* Four file systems mounted and unmounted in five directories, two programs
\* that open and close files.
SPECIFICATION Spec
CONSTANTS
    FS = {f1, f2, f3, f4}
    None = None
    Task = {t1, t2}
    Points <- MCPoints
    Files <- MCFiles
    CountLimit = 256
    MaxFailures = 1
SYMMETRY Instances
CHECK_DEADLOCK FALSE
INVARIANT TypeOK
INVARIANT TreeIsWhole
INVARIANT ChildrenCounted
INVARIANT NearestFoundThen
PROPERTY KeepsTree
