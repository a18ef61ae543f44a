SPECIFICATION Spec
CONSTANTS
    Walks <- MCWalks
    Targets <- MCTargets
    Clutters <- MCClutters
    Home <- MCHome
    Limit = 2
INVARIANTS OpenFilesBounded NothingMissing
PROPERTY RunEnds
CHECK_DEADLOCK FALSE
