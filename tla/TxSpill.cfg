\* Two transactions over one collection spill changed pages to the log before
\* they commit, or roll back, a checkpoint runs when both are closed, and one write
\* or fsync fails.
SPECIFICATION Spec
CONSTANTS
    t1 = t1
    t2 = t2
    NoTx = NoTx
    Absent = Absent
    Unopened = Unopened
    Txs <- TwoTxs
    Names <- OneName
    MaxPage = 3
    MaxCols = 1
    MaxBegins = 2
    MaxLog = 3
    MaxFaults = 1
    MaxCrashes = 0
    CrashModes <- NoCrash
    Readers <- TwoTxs
    Creators <- TwoTxs
    Droppers <- Nobody
    Spillers <- TwoTxs
    Scanners <- Nobody
SYMMETRY Symmetry
PROPERTIES
    CommitKeepsAll
    ImplementsSnapshotStore
CHECK_DEADLOCK FALSE
