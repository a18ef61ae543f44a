\* Two iterators, i.e. up to two threads, over three slices with a one-slot LRU.
SPECIFICATION Spec
CONSTANTS
    Iterator = {i1, i2}
    Value = {s1, s2, s3, s4}
    NoIterator = NoIterator
    NoKey = NoKey
    NoValue = NoValue
    Key <- MCKey
    BlockCount = 3
    LruSize = 1
    MaxSkip = 1
INVARIANTS RefsExact SlicesMapped NothingLeaked MappedBound
PROPERTIES CallsReturn
