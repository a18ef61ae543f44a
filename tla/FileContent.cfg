SPECIFICATION ReadingSpec
CONSTANTS
    SizeMax = 64
    BlockSize = 4
    ZeroSize = 3
    MapSize = 5
    Images <- MCImages
    Clients = {"stream", "tasks", "pread", "chunks"}
    Codecs = {"zlib", "lzma", "lz4", "zstd", "none"}
    MinChunk = 12
INVARIANTS ReceivesContent NothingLeftOut
PROPERTY ReadEnds
CHECK_DEADLOCK FALSE
