CONSTANTS
    SizeMax = 1000
    MetaSize = 8
    MetaHeader = 1
    InodeHeader = 2
    BlockBytes = 4
    FragmentSize = 2
    EntrySize = 1
    IndexSize = 1
    InodeMax = 6
    InodeBlock = 2
    OffsetMax = 16
    KeySize = 1
    ValueSize = 1
    RefSize = 3
    IdSize = 2
    ExportSize = 4
    XattrIdSize = 4
    NoRef <- MCNoRef
    Images = {"indexed"}
    Archives <- MCArchives
    Handles = {h1}
    Names <- MCNames
    XattrAsked <- MCXattrAsked
    BufferSizes = {9}
SPECIFICATION MountSpec
INVARIANT LooksUpAnywhere
