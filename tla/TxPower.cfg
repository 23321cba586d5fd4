\* One transaction after another, pages spilled before the commit, a checkpoint now
\* and then, and the power may fail anywhere.
SPECIFICATION Spec
CONSTANTS
    t1 = t1
    t2 = t2
    NoTx = NoTx
    Absent = Absent
    Unopened = Unopened
    Txs <- OneTx
    Names <- TwoNames
    MaxPage = 3
    MaxCols = 2
    MaxBegins = 2
    MaxLog = 2
    MaxFaults = 0
    MaxCrashes = 1
    CrashModes <- Power
    Readers <- Nobody
    Creators <- OnlyT1
    Droppers <- Nobody
    Spillers <- OnlyT1
    Scanners <- Nobody

    
PROPERTIES
    ImplementsSnapshotStore
CHECK_DEADLOCK FALSE
