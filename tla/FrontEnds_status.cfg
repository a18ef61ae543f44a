SPECIFICATION FrontSpec
CONSTANTS
    MaxItems = 1
    MaxPaths = 2
INVARIANTS StatusTellsFailure EasyTellsFailure
