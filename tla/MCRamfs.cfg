\* Two programs, three nodes besides the root, two open files, paths of up to
\* two names.  Programs close what they use, and use only their own FILEs.
SPECIFICATION Spec
CONSTANTS
    Task = {t1, t2}
    Root = root
    Node = {root, n1, n2, n3}
    Name = {a, b}
    Dir = a
    Path <- ShortPaths
    Handle = {h1, h2}
    NoNode = NoNode
    NoName = NoName
    NoHandle = NoHandle
    ThroughFiles = FALSE
    Lends = FALSE
SYMMETRY Symmetry
INVARIANT TypeOK
INVARIANT TreeIsWhole
INVARIANT InUseAlive
INVARIANT HandlesAgree
INVARIANT HandlesOwned
PROPERTY KeepsTree
