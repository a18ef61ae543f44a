SPECIFICATION Spec
CONSTANTS
    Dir = {"r", "d", "e"}
    Link = {"l", "m"}
    Leaf = {"f"}
    Name = {"a", "b", "c"}
    NoDir = "none"
    NoFile = NoFile
    Images <- MCImages
    Paths <- MCPaths
    MaxLinks = 2
INVARIANTS WalkerUsable OpenedInParent
PROPERTIES LooksUpPaths ResolveEnds
CHECK_DEADLOCK FALSE
