\* The gate, the shared connection, the sweepers and the SQL transaction, each alone.
SPECIFICATION HandleSpec
CONSTANTS
    NoOne = NoOne
    u = u
    v = v
    Threads <- Goroutines
    Sweepers <- Sweeping
    MaxDepth = 3
    MaxRebuilds = 2
    Timed = TRUE
    OuterReads = TRUE
INVARIANTS
    RebuildAlone
    CountsAgree
    NoLostWakeup
    LocksMatchCore
    SweepsAreSafe
    
CHECK_DEADLOCK FALSE
