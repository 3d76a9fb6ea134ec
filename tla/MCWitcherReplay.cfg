CONSTANTS
    a1 = a1
    a2 = a2
    a3 = a3
    l1 = l1
    l2 = l2
    NoStore = NoStore
    N = 7
    Addrs <- MCAddrs
    Lines <- MCLines
    LineOf <- MCLineOf
SPECIFICATION Spec
INVARIANT TypeOK
INVARIANT AgreeAfterTxEnd
INVARIANT ImagesHoldNewestWrittenBack
PROPERTY CachesImplementPersistentMemory
