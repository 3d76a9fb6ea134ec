SPECIFICATION MCSpec
CONSTANTS
    Word = 8
    StoreAddrs <- MCStoreAddrs
    StoreSizes <- MCStoreSizes
    Calls <- MCCalls
    MaxEntries = 5
INVARIANT TraceTypeOK
INVARIANT IdsArePositions
INVARIANT ChunksTileStores
INVARIANT ChunksAreAtomic
INVARIANT TxRangesCorrespond
INVARIANT MtSlicesSplitAtParallelSection
INVARIANT BarrierCompletesAfterEveryTask
CHECK_DEADLOCK FALSE
