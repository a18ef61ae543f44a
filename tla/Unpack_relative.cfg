SPECIFICATION Spec
CONSTANTS
    Walks <- MCWalks
    Targets <- MCRelative
    Clutters <- NoClutter
    Home <- MCHome
    Limit = 2
PROPERTY CreatesNoneLate
CHECK_DEADLOCK FALSE
