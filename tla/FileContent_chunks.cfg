SPECIFICATION ReadingSpec
CONSTANTS
    SizeMax = 64
    BlockSize = 4
    ZeroSize = 3
    MapSize = 6
    Images <- MCSequential
    Clients = {"chunks"}
    Codecs = {"zlib", "lzma", "lz4", "zstd", "none"}
    MinChunk = 4
INVARIANT ReceivesContent
CHECK_DEADLOCK FALSE
