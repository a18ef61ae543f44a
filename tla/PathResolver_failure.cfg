SPECIFICATION Spec
CONSTANTS
    Dir = {"r", "d", "e"}
    Link = {"l", "m"}
    Leaf = {"f"}
    Name = {"a", "b", "c"}
    NoDir = "none"
    NoFile = NoFile
    Images <- MCImages
    Paths <- MCPaths
    MaxLinks = 2
INVARIANT FailureEndsResolve
CHECK_DEADLOCK FALSE
