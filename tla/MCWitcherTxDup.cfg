CONSTANTS
    a1 = a1
    a2 = a2
    NoStore = NoStore
    Addrs <- MCAddrs
    AddAddrs <- MCAddAddrs
    CriticalAddrs <- MCCriticalAddrs
    OrderViolations <- MCOrderViolations
    Lines <- MCLines
    LineOf <- MCLineOf
    K = 7
    MaxDepth = 1
SPECIFICATION Spec
INVARIANT ReplayValidatesEveryCrashPoint
