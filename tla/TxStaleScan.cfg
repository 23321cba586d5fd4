\* Two transactions, one of which may discard vector pages.
SPECIFICATION Spec
CONSTANTS
    t1 = t1
    t2 = t2
    NoTx = NoTx
    Absent = Absent
    Unopened = Unopened
    Txs <- TwoTxs
    Names <- TwoNames
    MaxPage = 4
    MaxCols = 2
    MaxBegins = 2
    MaxLog = 2
    MaxFaults = 0
    MaxCrashes = 0
    CrashModes <- NoCrash
    Readers <- Nobody
    Creators <- TwoTxs
    Droppers <- Nobody
    Spillers <- Nobody
    Scanners <- OnlyT1
INVARIANTS
    FreeListSound
CHECK_DEADLOCK FALSE
