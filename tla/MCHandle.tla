------------------------------ MODULE MCHandle ------------------------------
(* Small instances of what stands between a caller and the core: the gate of *)
(* the handle, the connection of the shared mode, the TTL sweepers and the   *)
(* SQL transaction.  The parts do not interact here: a behaviour is one of   *)
(* the part it starts in.                                                    *)
EXTENDS CoreGate, Integers

CONSTANTS u, v,   \* goroutines of the gate
          NoOne

VARIABLES
  part,
  \* SharedConn
  depth, mutex, ghosts, flock, open, connRefs, txRunning, txRelease, connPc, rel, doing, inTx,
  swapping, connRebuilds, closed,
  \* TtlSweeper
  exprs, ttlClosed, close, callers, sweeper, now, expires, ttlLock,
  \* SqlSession
  tx, lock, data, sqlTx, sqlMu, checkpoint, call, callback, said, marks

\* The gate is that of the .cfg: two goroutines of one handle, one of which sweeps;
\* three frames, two rebuilds.
Goroutines == {u, v}
Sweeping == {v}

\* Two processes, one with two goroutines on its handle.
Conn == INSTANCE SharedConn WITH
  Threads <- {"a", "b", "c"}, HandleOf <- [t \in {"a", "b", "c"} |-> IF t = "c" THEN "h2" ELSE "h1"],
  ProcOf <- [h \in {"h1", "h2"} |-> IF h = "h1" THEN "p" ELSE "q"],
  leakTransactionLockDepth <- TRUE, MaxDepth <- 2, MaxRebuilds <- 1, QuietRebuild <- TRUE,
  QuietClose <- TRUE, refs <- connRefs, pc <- connPc, rebuilds <- connRebuilds
\* Two goroutines register expiries of one collection of two documents.
Ttl == INSTANCE TtlSweeper WITH
  Callers <- {"u", "v"}, Colls <- {"c"}, Exprs <- {"e", "f"}, Docs <- {1, 2}, Batch <- 1,
  MaxTime <- 2, closed <- ttlClosed, call <- callers, lock <- ttlLock
\* Two goroutines, two core transactions, two statements.
Sql == INSTANCE SqlSession WITH
  Goroutines <- {"g", "h"}, MaxTx <- 2, MaxMarks <- 2, MaxRetries <- 1, Callbacks <- TRUE,
  Checkpoints <- FALSE, Timeouts <- TRUE, RebuildFails <- FALSE, pending <- checkpoint

gateVars == vars
connVars == <<depth, mutex, ghosts, flock, open, connRefs, txRunning, txRelease, connPc, rel, doing,
              inTx, swapping, connRebuilds, closed>>
ttlVars == <<exprs, ttlClosed, close, callers, sweeper, now, expires, ttlLock>>
sqlVars == <<tx, lock, data, sqlTx, sqlMu, checkpoint, call, callback, said, marks>>
allVars == <<part, gateVars, connVars, ttlVars, sqlVars>>

HandleInit == /\ part \in {"gate", "conn", "ttl", "sql"}
              /\ Init /\ Conn!Init /\ Ttl!Init /\ Sql!Init

HandleNext ==
  /\ UNCHANGED part
  /\ \/ part = "gate" /\ Next /\ UNCHANGED <<connVars, ttlVars, sqlVars>>
     \/ part = "conn" /\ Conn!Next /\ UNCHANGED <<gateVars, ttlVars, sqlVars>>
     \/ part = "ttl" /\ Ttl!Next /\ UNCHANGED <<gateVars, connVars, sqlVars>>
     \/ part = "sql" /\ Sql!Next /\ UNCHANGED <<gateVars, connVars, ttlVars>>

HandleSpec == HandleInit /\ [][HandleNext]_allVars

-----------------------------------------------------------------------------
\* Over all processes one core at a time has the file open, a handle in use has
\* its core, and the locks of process and file go together: see SharedConn.
LocksMatchCore == part = "conn" => /\ Conn!OneCoreOpen
                                   /\ Conn!OpenWhileUsed
                                   /\ Conn!LocksPaired
\* Only documents whose date has passed are swept, by one sweeper for each
\* collection, and by none after Close: see TtlSweeper.
SweepsAreSafe == part = "ttl" => /\ Ttl!OnlyTheExpiredGo
                                 /\ Ttl!OneSweeperEach
                                 /\ Ttl!NoneAfterClose
\* What a statement answered is true, DB.Transaction leaves the writes of one run
\* or none, and somebody can end every transaction that holds a lock: see
\* SqlSession.
StatementsAreTrue == part = "sql" => /\ Sql!AnswersAreTrue
                                     /\ Sql!OneRunOrNone
                                     /\ Sql!SomebodyCanEnd
=============================================================================
