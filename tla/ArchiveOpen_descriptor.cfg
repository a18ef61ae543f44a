SPECIFICATION OpeningSpec
CONSTANTS
    Client = {t1}
    Opener = Opener
    Descriptor = {0, 1}
PROPERTY LeavesDescriptors
