SPECIFICATION Spec
CONSTANTS
    Dir = {d1, d2}
    Leaf = {f}
    CheckDepth = 3
    MaxDepths = {0, 1, 2, 9}
    MaxEntries = 2
INVARIANTS PathReadable StackBounded
PROPERTIES WalksInOrder WalkEnds
CHECK_DEADLOCK FALSE
