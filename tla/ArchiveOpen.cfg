\* Two threads, three descriptors, sources of up to two blocks that change at any time.
SPECIFICATION OpeningSpec
CONSTANTS
    Client = {t1, t2}
    Opener = Opener
    Descriptor = {0, 1, 2}
INVARIANTS OneVersion LeavesNothing
