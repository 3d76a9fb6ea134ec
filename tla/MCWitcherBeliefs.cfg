CONSTANTS
    Nodes = {1, 2, 3}
    o1 = o1
    o2 = o2
    Objs <- MCObjs
    NoObj = NoObj
    TxStores = 4
SYMMETRY ObjSymmetry
SPECIFICATION MCSpec
INVARIANT BeliefDbTypeOK
INVARIANT SortedAndDisjoint
INVARIANT CoversExactlyInserted
INVARIANT FindResolvesInsertedRanges
INVARIANT BeliefsMatchReference
INVARIANT CandidatesInVerifyOrder
INVARIANT CandidatesMatchSpec
CHECK_DEADLOCK FALSE
