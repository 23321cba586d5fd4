\* A write or an fsync fails, in a commit, a return of pages or a checkpoint, next to
\* scans and drops, and the power may fail anywhere.
SPECIFICATION Spec
CONSTANTS
    t1 = t1
    t2 = t2
    NoTx = NoTx
    Absent = Absent
    Unopened = Unopened
    Txs <- OneTx
    Names <- OneName
    MaxPage = 3
    MaxCols = 1
    MaxBegins = 2
    MaxLog = 2
    MaxFaults = 1
    MaxCrashes = 1
    CrashModes <- Power
    Readers <- Nobody
    Creators <- OnlyT1
    Droppers <- OnlyT1
    Spillers <- Nobody
    Scanners <- OnlyT1
INVARIANTS
    FreeListSound
PROPERTIES
    ImplementsSnapshotStore
CHECK_DEADLOCK FALSE
