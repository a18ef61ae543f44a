\* Two paths on a command line, up to two entries, names or blocks.
SPECIFICATION FrontSpec
CONSTANTS
    MaxItems = 2
    MaxPaths = 2
INVARIANTS KeepsOnlyResult TellsFailure
