CONSTANTS
    SizeMax = 1000
    MetaSize = 8
    MetaHeader = 1
    InodeHeader = 2
    BlockBytes = 4
    FragmentSize = 2
    EntrySize = 1
    IndexSize = 1
    InodeMax = 6
    InodeBlock = 2
    OffsetMax = 16
    KeySize = 1
    ValueSize = 1
    RefSize = 3
    IdSize = 2
    ExportSize = 4
    XattrIdSize = 4
    NoRef <- MCNoRef
    Images = {"plain", "exported", "indexed", "tagged", "count", "twice", "dots", "zero"}
    Archives <- MCArchives
    Handles = {h1, h2}
    Names <- MCNames
    XattrAsked <- MCXattrAsked
    BufferSizes = {0, 1, 9}
SPECIFICATION MountSpec
SYMMETRY Symmetry
INVARIANTS ListsDirectory LooksUpEntry InodesResolve AnswersXattrs
