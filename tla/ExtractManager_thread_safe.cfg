\* Views may be copied while another thread is inside the manager.
SPECIFICATION Spec
CONSTANTS
    View = {v1, v2, v3}
    Value = {b1, b2, b3, b4}
    Key = {k1, k2}
    NoView = NoView
    NoKey = NoKey
    NoValue = NoValue
    LruSize = 1
    CopiesRace = TRUE
    Codecs = {"zlib", "lzma", "lz4", "zstd", "none"}
    MaxLost = 1
INVARIANTS ViewBufferAlive
