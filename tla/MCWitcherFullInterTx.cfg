SPECIFICATION MCSpec
CONSTANTS
    a1 = a1
    a2 = a2
    a3 = a3
    l1 = l1
    l2 = l2
    Addrs <- MCAddrs
    Lines <- MCLines
    LineOf <- MCLineOf
    LineOrder <- MCLineOrder
    NoStore = NoStore
    N = 7
    Budget = 2
    MaxTotal = 12
INVARIANT ChunkTestsItsShare
