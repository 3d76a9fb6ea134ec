CONSTANTS
    v1 = v1
    v2 = v2
    s1 = s1
    s2 = s2
    c1 = c1
    m1 = m1
    m2 = m2
    NoFile = NoFile
    NTx = 3
    Vals <- MCVals
    SrcInfos <- MCSrcInfos
    Cores <- MCCores
    OracleFull <- MCOracleFull
    MaxChecks = 3
    MaxPlans = 2
    MaxPoints = 2
    CrashOps <- MCCrashOps
    Start = 1
    NSuffix = 1
SYMMETRY SrcSymmetry
SPECIFICATION Spec
INVARIANT TypeOK
INVARIANT ReportedExactlyTheFailures
INVARIANT ReportMapsClassifyReported
CHECK_DEADLOCK FALSE
