CONSTANTS
    a1 = a1
    a2 = a2
    a3 = a3
    l1 = l1
    l2 = l2
    NoStore = NoStore
    TxLen = 5
    MaxCands = 2
    MaxTxStores = 3
    Addrs <- MCAddrs
    Lines <- MCLines
    LineOf <- MCLineOf

SPECIFICATION Spec

INVARIANT TypeOK
INVARIANT CrashImagesBreakACandidate
INVARIANT NoResolvedCandidatePending
INVARIANT CrashImagesPersistInLineOrder
PROPERTY EveryViolableCandidateTested
PROPERTY EveryFencedCandidateVerified
