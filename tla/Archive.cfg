\* Two threads; every combination of optional tables and export flag.
SPECIFICATION Spec
CONSTANTS
    Thread = {t1, t2}
    NoThread = NoThread
INVARIANTS SetUpOnce HandedOutAlive
PROPERTIES CallsReturn
