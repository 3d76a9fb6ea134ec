CONSTANTS
    a1 = a1
    a2 = a2
    a3 = a3
    l1 = l1
    l2 = l2
    NoStore = NoStore
    N = 6
    Addrs <- MCAddrs
    Lines <- MCLines
    LineOf <- MCLineOf
SPECIFICATION Spec
INVARIANT TargetCrashImagesMatchSequential
