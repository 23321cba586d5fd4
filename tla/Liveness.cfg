\* locks: two goroutines run transactions over one collection for ever, with deadlines
\* and the occasional checkpoint inside a transaction; a third one checkpoints with no
\* deadline at all.  gate: two goroutines, three frames deep, two rebuilds, no timeout.
\* ttl: one collection, two documents, three instants.  sql: two goroutines, a
\* checkpoint that queues now and then.
SPECIFICATION LiveSpec
CONSTANTS
    p1 = p1
    p2 = p2
    p3 = p3
    NoProc = NoProc
    NoCol = NoCol
    Procs = {p1, p2, p3}
    Cols = {"col"}
    MaxOpen = 2
    MaxPages = 5
    MinQuota = 2
    MaxDepth = 1
    Patient = {p3}
    Checkpointers = {p3}
    Reckless = {p1}
    Parts = {"locks", "gate", "ttl", "sql"}
PROPERTIES
    CheckpointGetsIn
    EveryCallReturns
    SweepsEnd
    StatementsEnd
CHECK_DEADLOCK FALSE
