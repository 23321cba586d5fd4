---------------------------- MODULE LockService ----------------------------
(***************************************************************************)
(* internal/xtx/lock.go, with the callers that drive it: Core.Begin and    *)
(* Core.release (core.go), Transaction.Snapshot and releaseSnapshots       *)
(* (snapshot.go, tx.go), Core.Checkpoint and maybeCheckpoint.              *)
(*                                                                         *)
(* One mutex guards the service, so a step of the model is one stretch of  *)
(* code between taking that mutex and giving it back.  park gives it back  *)
(* while the goroutine sleeps on the current `changed` channel: a parked   *)
(* process is in `woken` once notify has closed the channel it sleeps on,  *)
(* and tests its condition again only when it is scheduled.                *)
(*                                                                         *)
(* A process is a goroutine together with the one transaction it may have  *)
(* open; its collection locks are owned by that transaction.               *)
(***************************************************************************)
EXTENDS Integers, FiniteSets, FiniteSetsExt

CONSTANTS
    Procs,       \* goroutines
    Cols,        \* collection names, already case-folded
    NoProc,      \* no owner
    NoCol,       \* waiting for no collection
    MaxOpen,     \* MaxOpenTransactions
    MaxPages,    \* MaxTransactionPages
    MinQuota,    \* minTransactionQuota
    MaxDepth,    \* bound on how often one transaction re-enters one lock: the service allows
                 \* it, Snapshot asks only once
    Patient,     \* processes whose context never ends: Timeout() <= 0
    Checkpointers, \* processes that call DB.Checkpoint between transactions
    Reckless     \* processes that call DB.Checkpoint inside a transaction

ASSUME ProcsAssumption ==
    /\ IsFiniteSet(Procs)
    /\ NoProc \notin Procs
    /\ Patient \subseteq Procs
    /\ Checkpointers \subseteq Procs
    /\ Reckless \subseteq Procs
ASSUME ColsAssumption == NoCol \notin Cols
ASSUME LimitsAssumption ==
    /\ MaxOpen \in Nat \ {0}
    /\ MaxPages \in Nat
    /\ MinQuota \in Nat
    /\ MaxDepth \in Nat \ {0}

VARIABLES
    exclusive,   \* l.exclusive
    shared,      \* l.shared: how many hold the shared gate
    pending,     \* l.pending: how many queue for the exclusive gate
    owner,       \* l.cols[c].owner, NoProc when the lock is free
    depth,       \* l.cols[c].depth
    waiting,     \* l.waiting: the collection each transaction waits for
    waiters,     \* l.waiters: how many are parked
    woken,       \* parked processes whose channel has been closed
    open,        \* core.open: registered transactions
    budget,      \* core.budget: pages of quota not handed out
    quota,       \* tx.quota of each registered transaction
    pc           \* where each process is

gateVars == <<exclusive, shared, pending>>
colVars  == <<owner, depth, waiting>>
parkVars == <<waiters, woken>>
txVars   == <<open, budget, quota>>
vars     == <<gateVars, colVars, parkVars, txVars, pc>>

ParkedAt == {"enterShared", "enterCollection", "enterExclusive"}

PCs == ParkedAt \cup
       {"out",             \* no transaction
        "entered",         \* Begin: holds the shared gate, not registered yet
        "refused",         \* Begin: too many open, about to give the gate back
        "in",              \* transaction open, running
        "releasing",       \* Commit or Rollback: dropping its locks
        "released",        \* release: off the table, still holds the gate
        "committed",       \* Commit: about to run maybeCheckpoint
        "queued",          \* enterExclusive: counted in pending, not tried yet
        "granted",         \* enterExclusive: holds the gate, still in pending
        "denied",          \* enterExclusive: gave up, still in pending
        "excl"}            \* checkpointLocked runs

\* Where a process is while it holds the shared gate.  A process that asks for
\* the exclusive gate from inside its transaction holds it too.
InsideAt == {"entered", "refused", "in", "enterCollection", "releasing", "released"}
Queueing == {"queued", "enterExclusive", "denied"}
SharedHolders == {p \in Procs : pc[p] \in InsideAt \/ (pc[p] \in Queueing /\ p \in open)}
ExclusiveHolders == {p \in Procs : pc[p] \in {"granted", "excl"}}
Queuers == {p \in Procs : pc[p] \in Queueing \cup {"granted"}}
Parked == {p \in Procs : pc[p] \in ParkedAt}

\* Counts, depths and pages of budget never go below zero, however calls and timeouts
\* interleave; the lock table names goroutines and collections only.
TypeOK ==
    /\ exclusive \in BOOLEAN
    /\ shared \in Nat
    /\ pending \in Nat
    /\ owner \in [Cols -> Procs \cup {NoProc}]
    /\ depth \in [Cols -> Nat]
    /\ waiting \in [Procs -> Cols \cup {NoCol}]
    /\ waiters \in Nat
    /\ woken \subseteq Procs
    /\ open \subseteq Procs
    /\ budget \in Nat
    /\ quota \in [Procs -> Nat]
    /\ pc \in [Procs -> PCs]

Init ==
    /\ exclusive = FALSE
    /\ shared = 0
    /\ pending = 0
    /\ owner = [c \in Cols |-> NoProc]
    /\ depth = [c \in Cols |-> 0]
    /\ waiting = [p \in Procs |-> NoCol]
    /\ waiters = 0
    /\ woken = {}
    /\ open = {}
    /\ budget = MaxPages
    /\ quota = [p \in Procs |-> 0]
    /\ pc = [p \in Procs |-> "out"]

-----------------------------------------------------------------------------
(* notify, park and wait.                                                  *)

\* notify: nobody parked means no channel to close.
notify == woken' = IF waiters = 0 THEN woken ELSE Parked

\* p reaches the loop of wait for the first time, or wakes up inside it.
AtDoor(p, from, at) == pc[p] = from \/ (pc[p] = at /\ p \in woken)

Goto(p, to) == pc' = [pc EXCEPT ![p] = to]

\* park's tail: a process that slept is no longer counted.
Unparked(p) == IF p \in Parked THEN waiters - 1 ELSE waiters

\* The condition holds: p leaves the loop and does not sleep (any more).
Proceed(p, to) ==
    /\ Goto(p, to)
    /\ waiters' = Unparked(p)
    /\ woken' = woken \ {p}

\* The condition fails: p sleeps on the channel that is current now.
park(p, at) ==
    /\ Goto(p, at)
    /\ waiters' = Unparked(p) + 1
    /\ woken' = woken \ {p}

\* Mutant: a waiter that gives up stays counted in waiters.
GiveUpUncounted(p, at, to) ==
    /\ pc[p] = at
    /\ p \notin Patient
    /\ Goto(p, to)
    /\ woken' = woken \ {p}
    /\ UNCHANGED waiters

\* ctx.Done() fires first: select may take it even when the channel is closed.
GiveUp(p, at, to) ==
    /\ pc[p] = at
    /\ p \notin Patient
    /\ Proceed(p, to)

-----------------------------------------------------------------------------
(* The shared gate: Begin and release.                                     *)

\* Mutant: a new transaction does not yield to a checkpoint that queues.
EnterSharedBarging(p) ==
    /\ AtDoor(p, "out", "enterShared")
    /\ \/ ~exclusive /\ shared' = shared + 1 /\ Proceed(p, "entered")
       \/ exclusive /\ park(p, "enterShared") /\ UNCHANGED shared
    /\ UNCHANGED <<exclusive, pending, colVars, txVars>>

EnterShared(p) ==
    /\ AtDoor(p, "out", "enterShared")
    /\ \/ /\ ~exclusive
          /\ pending = 0
          /\ shared' = shared + 1
          /\ Proceed(p, "entered")
       \/ /\ exclusive \/ pending > 0
          /\ park(p, "enterShared")
          /\ UNCHANGED shared
    /\ UNCHANGED <<exclusive, pending, colVars, txVars>>

EnterSharedTimeout(p) ==
    /\ GiveUp(p, "enterShared", "out")
    /\ UNCHANGED <<gateVars, colVars, txVars>>

\* Mutant: the quota is not capped by what is left of the budget.
QuotaOfUncapped(b) == IF b \div MaxOpen > MinQuota THEN b \div MaxOpen ELSE MinQuota

\* The quota Begin hands out: the total split over MaxOpen, never under MinQuota
\* while the budget lasts, never more than what is left of it.
QuotaOf(b) ==
    LET part == b \div MaxOpen
        fair == IF part > MinQuota THEN part ELSE MinQuota
    IN  IF fair < b THEN fair ELSE b

\* Mutant: the transaction is told a quota computed after the budget was reduced.
RegisterQuotaLate(p) ==
    /\ pc[p] = "entered"
    /\ \/ /\ Cardinality(open) >= MaxOpen
          /\ Goto(p, "refused")
          /\ UNCHANGED txVars
       \/ /\ Cardinality(open) < MaxOpen
          /\ open' = open \cup {p}
          /\ budget' = budget - QuotaOf(budget)
          /\ quota' = [quota EXCEPT ![p] = QuotaOf(budget')]
          /\ Goto(p, "in")
    /\ UNCHANGED <<gateVars, colVars, parkVars>>

\* Begin, second half, under txMu.
Register(p) ==
    /\ pc[p] = "entered"
    /\ \/ /\ Cardinality(open) >= MaxOpen
          /\ Goto(p, "refused")
          /\ UNCHANGED txVars
       \/ /\ Cardinality(open) < MaxOpen
          /\ open' = open \cup {p}
          /\ quota' = [quota EXCEPT ![p] = QuotaOf(budget)]
          /\ budget' = budget - QuotaOf(budget)
          /\ Goto(p, "in")
    /\ UNCHANGED <<gateVars, colVars, parkVars>>

\* Mutant: the transaction is taken off the table before its locks are dropped.
DeregisterEarly(p) ==
    /\ pc[p] = "releasing"
    /\ open' = open \ {p}
    /\ budget' = budget + quota[p]
    /\ quota' = [quota EXCEPT ![p] = 0]
    /\ Goto(p, "released")
    /\ UNCHANGED <<gateVars, colVars, parkVars>>

\* release, first half, under txMu.
Deregister(p) ==
    /\ pc[p] = "releasing"
    /\ \A c \in Cols : owner[c] # p
    /\ open' = open \ {p}
    /\ budget' = budget + quota[p]
    /\ quota' = [quota EXCEPT ![p] = 0]
    /\ Goto(p, "released")
    /\ UNCHANGED <<gateVars, colVars, parkVars>>

\* ExitShared wakes the sleepers only when the last holder leaves.  A commit goes
\* on to maybeCheckpoint, a rollback and a refused Begin return.
ExitShared(p) ==
    /\ \/ pc[p] = "released" /\ \E to \in {"committed", "out"} : Goto(p, to)
       \/ pc[p] = "refused" /\ Goto(p, "out")
    /\ shared > 0
    /\ shared' = shared - 1
    /\ IF shared' = 0 THEN notify ELSE UNCHANGED woken
    /\ UNCHANGED <<exclusive, pending, colVars, waiters, txVars>>

-----------------------------------------------------------------------------
(* The exclusive gate: Checkpoint and maybeCheckpoint.                     *)

\* enterExclusive, first section: from DB.Checkpoint outside or inside a
\* transaction, or from maybeCheckpoint when the log has grown too long.
QueueExclusive(p) ==
    /\ \/ pc[p] = "out" /\ p \in Checkpointers
       \/ pc[p] = "in" /\ p \in Reckless
       \/ pc[p] = "committed"
    /\ pending' = pending + 1
    /\ Goto(p, "queued")
    /\ UNCHANGED <<exclusive, shared, colVars, parkVars, txVars>>

\* wait inside enterExclusive.
EnterExclusive(p) ==
    /\ AtDoor(p, "queued", "enterExclusive")
    /\ \/ /\ ~exclusive
          /\ shared = 0
          /\ exclusive' = TRUE
          /\ Proceed(p, "granted")
       \/ /\ exclusive \/ shared > 0
          /\ park(p, "enterExclusive")
          /\ UNCHANGED exclusive
    /\ UNCHANGED <<shared, pending, colVars, txVars>>

EnterExclusiveTimeout(p) ==
    /\ GiveUp(p, "enterExclusive", "denied")
    /\ UNCHANGED <<gateVars, colVars, txVars>>

\* Where a call on the exclusive gate returns to.
Back(p) == IF p \in open THEN "in" ELSE "out"

\* Mutant: giving up wakes nobody.
SettleExclusiveSilent(p) ==
    /\ pending' = pending - 1
    /\ \/ pc[p] = "granted" /\ Goto(p, "excl")
       \/ pc[p] = "denied" /\ Goto(p, Back(p))
    /\ UNCHANGED <<exclusive, shared, colVars, parkVars, txVars>>

\* enterExclusive, last section: no longer queueing.  Giving up must wake those
\* who were held back only because p was queueing.
SettleExclusive(p) ==
    /\ pending' = pending - 1
    /\ \/ pc[p] = "granted" /\ Goto(p, "excl") /\ UNCHANGED woken
       \/ pc[p] = "denied" /\ Goto(p, Back(p)) /\ notify
    /\ UNCHANGED <<exclusive, shared, colVars, waiters, txVars>>

\* Mutant: the gate is tried without looking at the open transactions.
TryEnterExclusiveBlind(p) ==
    /\ pc[p] = "committed"
    /\ \/ ~exclusive /\ exclusive' = TRUE /\ Goto(p, "excl")
       \/ Goto(p, "out") /\ UNCHANGED exclusive
    /\ UNCHANGED <<shared, pending, colVars, parkVars, txVars>>

\* maybeCheckpoint: a free gate is taken without queueing; a busy one, or a short
\* log, ends the commit.
TryEnterExclusive(p) ==
    /\ pc[p] = "committed"
    /\ \/ /\ ~exclusive
          /\ shared = 0
          /\ exclusive' = TRUE
          /\ Goto(p, "excl")
       \/ /\ Goto(p, "out")
          /\ UNCHANGED exclusive
    /\ UNCHANGED <<shared, pending, colVars, parkVars, txVars>>

ExitExclusive(p) ==
    /\ pc[p] = "excl"
    /\ exclusive' = FALSE
    /\ notify
    /\ Goto(p, Back(p))
    /\ UNCHANGED <<shared, pending, colVars, waiters, txVars>>

-----------------------------------------------------------------------------
(* Collection locks: Snapshot in write mode, and releaseSnapshots.         *)

\* The walk of wouldCycle: who is waited for, n steps down the chain from h; it
\* ends in NoProc where someone waits for nothing or for a free lock.
Chain(h) ==
    LET next(q) == IF q = NoProc \/ waiting[q] = NoCol THEN NoProc ELSE owner[waiting[q]]
        walk[n \in Nat] == IF n = 0 THEN h ELSE next(walk[n - 1])
    IN  walk

\* Mutant: only a direct pair of waiters is recognised.
wouldCycleDirect(me, holder) == Chain(holder)[1] = me

wouldCycle(me, holder) ==
    \E n \in 0 .. Cardinality({p \in Procs : waiting[p] # NoCol}) + 1 :
        Chain(holder)[n] = me

\* Snapshot(c, ModeWrite): free or its own lock is taken, a wait that would close
\* a ring of waiters fails with ErrDeadlock, any other wait parks.
EnterCollection(p, c) ==
    /\ \/ pc[p] = "in"
       \/ pc[p] = "enterCollection" /\ p \in woken /\ waiting[p] = c
    /\ \/ /\ owner[c] \in {NoProc, p}
          /\ depth[c] < MaxDepth
          /\ owner' = [owner EXCEPT ![c] = p]
          /\ depth' = [depth EXCEPT ![c] = @ + 1]
          /\ waiting' = [waiting EXCEPT ![p] = NoCol]
          /\ Proceed(p, "in")
       \/ /\ owner[c] \notin {NoProc, p}
          /\ wouldCycle(p, owner[c])
          /\ waiting' = [waiting EXCEPT ![p] = NoCol]
          /\ Proceed(p, "in")
          /\ UNCHANGED <<owner, depth>>
       \/ /\ owner[c] \notin {NoProc, p}
          /\ ~wouldCycle(p, owner[c])
          /\ waiting' = [waiting EXCEPT ![p] = c]
          /\ park(p, "enterCollection")
          /\ UNCHANGED <<owner, depth>>
    /\ UNCHANGED <<gateVars, txVars>>

EnterCollectionTimeout(p) ==
    /\ GiveUp(p, "enterCollection", "in")
    /\ waiting' = [waiting EXCEPT ![p] = NoCol]
    /\ UNCHANGED <<gateVars, owner, depth, txVars>>

\* Commit or Rollback begins.
Finish(p) ==
    /\ pc[p] = "in"
    /\ Goto(p, "releasing")
    /\ UNCHANGED <<gateVars, colVars, parkVars, txVars>>

\* One lock at a time; only the outermost exit frees it.  A transaction gives its
\* locks back when it ends, and one of them earlier when Snapshot took the lock but
\* then cannot load the collection.
ExitCollection(p, c) ==
    /\ pc[p] \in {"in", "releasing"}
    /\ owner[c] = p
    /\ depth' = [depth EXCEPT ![c] = @ - 1]
    /\ \/ depth[c] > 1 /\ UNCHANGED <<owner, woken>>
       \/ depth[c] = 1 /\ owner' = [owner EXCEPT ![c] = NoProc] /\ notify
    /\ UNCHANGED <<gateVars, waiting, waiters, txVars, pc>>

-----------------------------------------------------------------------------

Timeout(p) ==
    EnterSharedTimeout(p) \/ EnterExclusiveTimeout(p) \/ EnterCollectionTimeout(p)

\* The steps the service itself owes a process that is inside one of its calls.
Serve(p) ==
    \/ EnterShared(p) /\ pc[p] = "enterShared"
    \/ Register(p) \/ Deregister(p) \/ ExitShared(p)
    \/ EnterExclusive(p) \/ SettleExclusive(p) \/ TryEnterExclusive(p) \/ ExitExclusive(p)
    \/ \E c \in Cols : \/ EnterCollection(p, c) /\ pc[p] = "enterCollection"
                       \/ ExitCollection(p, c) /\ pc[p] = "releasing"

Step(p) ==
    \/ EnterShared(p) \/ Register(p) \/ Deregister(p) \/ ExitShared(p)
    \/ QueueExclusive(p) \/ EnterExclusive(p) \/ SettleExclusive(p)
    \/ TryEnterExclusive(p) \/ ExitExclusive(p)
    \/ \E c \in Cols : EnterCollection(p, c) \/ ExitCollection(p, c)
    \/ Finish(p)
    \/ Timeout(p)

Next == \E p \in Procs : Step(p)

Spec == Init /\ [][Next]_vars

\* Go's scheduler runs every runnable goroutine, contexts with a deadline end, and
\* a transaction makes finitely many calls before it commits or rolls back.
Fairness ==
    \A p \in Procs : /\ WF_vars(Serve(p))
                     /\ WF_vars(Timeout(p))
                     /\ SF_vars(Finish(p))

FairSpec == Spec /\ Fairness

-----------------------------------------------------------------------------
(* Properties.                                                             *)

\* The counters under the mutex agree with the processes they count: a missed
\* decrement on any error path would block or admit somebody for ever.
CountsAgree ==
    /\ shared = Cardinality(SharedHolders)
    /\ pending = Cardinality(Queuers)
    /\ waiters = Cardinality(Parked)
    /\ exclusive <=> ExclusiveHolders # {}

\* A checkpoint never runs while a transaction is open, and two never overlap.
GateExclusion ==
    /\ Cardinality(ExclusiveHolders) <= 1
    /\ ExclusiveHolders # {} => SharedHolders = {} /\ open = {}

\* Nobody sleeps without a reason: a parked process whose channel nobody has closed
\* is still held back by what it waits for, so whoever removes the reason wakes it.
NoLostWakeup ==
    \A p \in Parked \ woken :
        /\ pc[p] = "enterShared" => exclusive \/ pending > 0
        /\ pc[p] = "enterExclusive" => exclusive \/ shared > 0
        /\ pc[p] = "enterCollection" => owner[waiting[p]] \notin {NoProc, p}

\* The wait-for graph has no ring: no set of transactions each parked for a lock
\* that another one of the set owns.  Deadlock detection at park time suffices,
\* although owners change while others sleep.
NoWaitRing ==
    ~ \E S \in (SUBSET Procs) \ {{}} :
        \A p \in S : /\ pc[p] = "enterCollection"
                     /\ owner[waiting[p]] \in S

\* Locks are owned by open transactions only: whatever way a transaction ends, it
\* leaves no lock behind, and a free lock has no depth.
NoOrphanLock ==
    \A c \in Cols : /\ owner[c] # NoProc => owner[c] \in open
                    /\ owner[c] = NoProc <=> depth[c] = 0

\* The pages of all quotas.
Total(q) == MapThenSumSet(LAMBDA p : q[p], Procs)

\* Quotas are handed out of one budget and all come back to it: neither a refused
\* Begin nor a transaction that ends twice may leak or mint pages.
BudgetKept ==
    /\ budget + Total(quota) = MaxPages
    /\ \A p \in Procs : p \notin open => quota[p] = 0

\* A checkpoint that queues gets its turn although new transactions keep coming:
\* they wait behind it.
CheckpointGetsIn ==
    \A p \in Patient : pc[p] = "enterExclusive" /\ p \notin open ~> pc[p] = "granted"
=============================================================================
