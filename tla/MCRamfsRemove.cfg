\* The last program closes a file that was removed while it was open.
SPECIFICATION Spec
CONSTANTS
    Task = {t1, t2}
    Root = root
    Node = {root, n1, n2, n3}
    Name = {a, b}
    Dir = a
    Path <- ShortPaths
    Handle = {h1, h2}
    NoNode = NoNode
    NoName = NoName
    NoHandle = NoHandle
    ThroughFiles = FALSE
    Lends = FALSE
PROPERTY RemovedIsGone
