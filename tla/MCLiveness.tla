----------------------------- MODULE MCLiveness -----------------------------
(* What must happen in the end, in four parts of the system.  The parts do   *)
(* not interact: a behaviour is one of the part it starts in.                *)
EXTENDS LockService

CONSTANTS
  p1, p2, p3,  \* goroutines
  Parts        \* the parts to check

VARIABLES
  part,
  \* CoreGate
  refs, gatePending, held, stack, gatePc, want, parked, rebuilds,
  \* TtlSweeper
  exprs, closed, close, callers, sweeper, now, expires, ttlLock,
  \* SqlSession
  tx, lock, data, sqlTx, sqlMu, pendingCheckpoint, call, callback, said, marks

Gate == INSTANCE CoreGate WITH
  Threads <- {"u", "v"}, Sweepers <- {}, MaxDepth <- 2, MaxRebuilds <- 2, Timed <- FALSE,
  OuterReads <- FALSE, pending <- gatePending, pc <- gatePc
Ttl == INSTANCE TtlSweeper WITH
  Callers <- {"u"}, Colls <- {"c"}, Exprs <- {"e", "f"}, Docs <- {1, 2}, Batch <- 1,
  MaxTime <- 2, call <- callers, lock <- ttlLock
Sql == INSTANCE SqlSession WITH
  Goroutines <- {"g", "h"}, MaxTx <- 2, MaxMarks <- 1, MaxRetries <- 0, Callbacks <- TRUE,
  Checkpoints <- TRUE, Timeouts <- TRUE, RebuildFails <- FALSE, pending <- pendingCheckpoint

lockVars == vars
handleVars == <<refs, gatePending, held, stack, gatePc, want, parked, rebuilds>>
ttlVars == <<exprs, closed, close, callers, sweeper, now, expires, ttlLock>>
sqlVars == <<tx, lock, data, sqlTx, sqlMu, pendingCheckpoint, call, callback, said, marks>>
allVars == <<part, lockVars, handleVars, ttlVars, sqlVars>>

\* An action of one part leaves the others alone.
InLocks(A) == part = "locks" /\ A /\ UNCHANGED <<part, handleVars, ttlVars, sqlVars>>
InGate(A) == part = "gate" /\ A /\ UNCHANGED <<part, lockVars, ttlVars, sqlVars>>
InTtl(A) == part = "ttl" /\ A /\ UNCHANGED <<part, lockVars, handleVars, sqlVars>>
InSql(A) == part = "sql" /\ A /\ UNCHANGED <<part, lockVars, handleVars, ttlVars>>

LiveInit == part \in Parts /\ Init /\ Gate!Init /\ Ttl!Init /\ Sql!Init
LiveNext == InLocks(Next) \/ InGate(Gate!Next) \/ InTtl(Ttl!Next) \/ InSql(Sql!Next)

\* The fairness of the part a behaviour is in.  Since it stays there, one
\* conjunct may stand for a process of each part.
At(i) == <<p1, p2, p3>>[i]
ThreadAt(i) == <<"u", "v">>[i]
CallerAt(i) == <<"g", "h">>[i]

Moves(i) == \/ InLocks(Serve(At(i)))
            \/ i <= 2 /\ InGate(Gate!Park(ThreadAt(i)))
            \/ i <= 2 /\ InSql(Sql!CallMoves(CallerAt(i)))
            \/ i = 3 /\ InSql(Sql!CheckpointLeaves)
            \/ i = 3 /\ InTtl(Ttl!CloseReturns)
Answers(i) == \/ InLocks(Timeout(At(i)))
              \/ i <= 2 /\ InGate(Gate!Admit(ThreadAt(i)))
              \/ i = 3 /\ InTtl(\E s \in sweeper : Ttl!Sweep(s))
Settles(i) == InGate(Gate!Settle(ThreadAt(i)))
Releases(i) == InGate(Gate!Release(ThreadAt(i)))
Ends(i, d) == InGate(Gate!Ends(ThreadAt(i), d))
Finishes(i) == \/ InLocks(Finish(At(i)))
               \/ i <= 2 /\ InSql(Sql!CurrentTx(CallerAt(i)))

LiveFairness ==
  /\ \A i \in 1..3 : WF_allVars(Moves(i)) /\ WF_allVars(Answers(i)) /\ SF_allVars(Finishes(i))
  /\ \A i \in 1..2 : /\ WF_allVars(Settles(i)) /\ WF_allVars(Releases(i))
                     /\ \A d \in 1..2 : SF_allVars(Ends(i, d))

LiveSpec == LiveInit /\ [][LiveNext]_allVars /\ LiveFairness

\* A call at the gate of the handle returns: see CoreGate.
EveryCallReturns == Gate!EveryCallReturns
\* An expired document is deleted in the end, and DB.Close does not wait for the
\* sweepers for ever: see TtlSweeper.
SweepsEnd == Ttl!CloseEnds /\ Ttl!ExpiredGoes
\* A SQL statement ends: see SqlSession.
StatementsEnd == Sql!StatementsEnd
=============================================================================
