\* Four goroutines that may all do everything: transactions over three
\* collections, checkpoints outside and inside them, contexts that end.
SPECIFICATION Spec
CONSTANTS
    p1 = p1
    p2 = p2
    p3 = p3
    p4 = p4
    a = a
    b = b
    c = c
    NoProc = NoProc
    NoCol = NoCol
    Procs <- FourProcs
    Cols <- ThreeCols
    MaxOpen = 3
    MaxPages = 5
    MinQuota = 2
    MaxDepth = 2
    Patient <- Nobody
    Checkpointers <- FourProcs
    Reckless <- FourProcs
SYMMETRY Symmetry
INVARIANTS
    TypeOK
    CountsAgree
    GateExclusion
    NoLostWakeup
    NoWaitRing
    NoOrphanLock
    BudgetKept
