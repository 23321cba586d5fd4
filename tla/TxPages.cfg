\* Two transactions over two collections and one free list: both fill and empty, one
\* creates, one drops; then both create, with one place left in the table.
SPECIFICATION PagesSpec
CONSTANTS
    t1 = t1
    t2 = t2
    NoTx = NoTx
    Absent = Absent
    Unopened = Unopened
    Txs <- TwoTxs
    Names <- TwoNames
    MaxPage = 4
    MaxCols = 2
    MaxBegins = 2
    MaxLog = 2
    MaxFaults = 0
    MaxCrashes = 0
    CrashModes <- NoCrash
    Readers <- Nobody
    Creators <- OnlyT2
    Droppers <- OnlyT1
    Spillers <- Nobody
    Scanners <- Nobody
INVARIANTS
    TypeOK
    FreeListSound
    
CHECK_DEADLOCK FALSE
