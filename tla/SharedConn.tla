----------------------------- MODULE SharedConn -----------------------------
(***************************************************************************)
(* Handles that share a database file between processes                    *)
(* (src/connection.go, ConnectionShared; src/internal/xlock/lock.go).      *)
(* Every operation takes a lock that is re-entrant per handle, opens the   *)
(* core if it is closed, and the last one out closes it.  Behind the lock  *)
(* stand a mutex per process and a lock on a file.                         *)
(***************************************************************************)
EXTENDS Naturals, FiniteSets

CONSTANTS Threads,          \* goroutines
          HandleOf,         \* the handle a goroutine works with
          ProcOf,           \* the process a handle lives in
          NoOne,            \* the owner of a lock that is free
          leakTransactionLockDepth,  \* the constant of that name, TRUE
          MaxDepth,         \* bound: re-entries of one handle
          MaxRebuilds,      \* bound: calls of Rebuild
          QuietRebuild,     \* do callers rebuild a handle only when it is idle
          QuietClose        \* do callers close a handle only when it is idle

Handles == {HandleOf[t] : t \in Threads}
Procs == {ProcOf[h] : h \in Handles}

VARIABLES depth,     \* depth[h]: Lock.depth
          mutex,     \* mutex[p]: who holds entry.mu: a handle, "ghost" or NoOne
          ghosts,    \* ghosts[p]: abandoned goroutines of lockCtx that still wait
          flock,     \* the process that holds the file lock, or NoOne
          open,      \* open[h]: sharedState.open
          refs,      \* refs[h]: sharedState.refs
          txRunning, \* txRunning[h]
          txRelease, \* txRelease[h]: "none", or the release kept for exitTx
          pc,        \* pc[t]
          rel,       \* rel[t]: the release of the entry t holds: "give" or "keep"
          doing,     \* doing[t]: "op", "begin" or "rebuild", what t takes the lock for
          inTx,      \* inTx[t]: t has a transaction of its own
          swapping,  \* the handles whose file is being replaced by rebuildFile
          rebuilds,
          closed     \* the handles their owner has closed

lockVars == <<depth, mutex, ghosts, flock>>
stateVars == <<open, refs, txRunning, txRelease>>
callVars == <<rel, doing, inTx>>
ghostVars == <<swapping, rebuilds, closed>>
vars == <<lockVars, stateVars, pc, callVars, ghostVars>>

Init ==
  /\ depth = [h \in Handles |-> 0]
  /\ mutex = [p \in Procs |-> NoOne]
  /\ ghosts = [p \in Procs |-> 0]
  /\ flock = NoOne
  /\ open = [h \in Handles |-> FALSE]
  /\ refs = [h \in Handles |-> 0]
  /\ txRunning = [h \in Handles |-> FALSE]
  /\ txRelease = [h \in Handles |-> "none"]
  /\ pc = [t \in Threads |-> "idle"]
  /\ rel = [t \in Threads |-> "give"]
  /\ doing = [t \in Threads |-> "op"]
  /\ inTx = [t \in Threads |-> FALSE]
  /\ swapping = {}
  /\ rebuilds = 0
  /\ closed = {}

Goto(t, to) == pc' = [pc EXCEPT ![t] = to]

-----------------------------------------------------------------------------
(* Lock.Acquire and Lock.Release                                           *)

\* A handle is idle when nobody is on its way in, inside, or in a
\* transaction of it.
Idle(h) == \A t \in Threads : HandleOf[t] = h => pc[t] = "idle" /\ ~inTx[t]

Rebuilding(t) == doing[t] = "rebuild" /\ pc[t] # "idle"

Call(t) ==
  LET h == HandleOf[t] IN
  /\ pc[t] = "idle" /\ h \notin closed
  /\ QuietRebuild => \A u \in Threads : ~(Rebuilding(u) /\ HandleOf[u] = h)
  /\ \E what \in {"op", "begin", "rebuild"} :
       /\ what = "begin" => ~inTx[t]
       /\ what = "rebuild" => /\ rebuilds < MaxRebuilds
                              /\ QuietRebuild => Idle(h)
       /\ doing' = [doing EXCEPT ![t] = what]
       /\ rebuilds' = IF what = "rebuild" THEN rebuilds + 1 ELSE rebuilds
  /\ Goto(t, "acquire")
  /\ UNCHANGED <<lockVars, stateVars, rel, inTx, swapping, closed>>

\* The depth is looked at and raised under l.mu; a first entry goes on to
\* the mutex of the process without it.
Acquire(t) ==
  LET h == HandleOf[t] IN
  /\ pc[t] = "acquire"
  /\ IF depth[h] > 0
     THEN /\ depth[h] < MaxDepth
          /\ depth' = [depth EXCEPT ![h] = @ + 1]
          /\ Goto(t, "locked")
     ELSE /\ Goto(t, "mutex")
          /\ UNCHANGED depth
  /\ UNCHANGED <<mutex, ghosts, flock, stateVars, callVars, ghostVars>>

TakeMutex(t) ==
  LET h == HandleOf[t] IN
  /\ pc[t] = "mutex"
  /\ mutex[ProcOf[h]] = NoOne
  /\ mutex' = [mutex EXCEPT ![ProcOf[h]] = h]
  /\ Goto(t, "file")
  /\ UNCHANGED <<depth, ghosts, flock, stateVars, callVars, ghostVars>>

TakeFile(t) ==
  LET h == HandleOf[t] IN
  /\ pc[t] = "file"
  /\ flock = NoOne
  /\ flock' = ProcOf[h]
  /\ Goto(t, "set")
  /\ UNCHANGED <<depth, mutex, ghosts, stateVars, callVars, ghostVars>>

SetDepth(t) ==
  /\ pc[t] = "set"
  /\ depth' = [depth EXCEPT ![HandleOf[t]] = 1]
  /\ Goto(t, "locked")
  /\ UNCHANGED <<mutex, ghosts, flock, stateVars, callVars, ghostVars>>

\* The context ends: the wait for the mutex is left to a goroutine that will
\* take it and drop it; the wait for the file gives the mutex back.
Cancel(t) ==
  LET p == ProcOf[HandleOf[t]] IN
  /\ doing[t] # "rebuild"
  /\ \/ /\ pc[t] = "mutex" /\ ghosts[p] = 0
        /\ ghosts' = [ghosts EXCEPT ![p] = 1]
        /\ UNCHANGED mutex
     \/ /\ pc[t] = "file"
        /\ mutex' = [mutex EXCEPT ![p] = NoOne]
        /\ UNCHANGED ghosts
  /\ Goto(t, "idle")
  /\ UNCHANGED <<depth, flock, stateVars, callVars, ghostVars>>

GhostTakes(p) ==
  /\ ghosts[p] > 0 /\ mutex[p] = NoOne
  /\ mutex' = [mutex EXCEPT ![p] = "ghost"]
  /\ ghosts' = [ghosts EXCEPT ![p] = @ - 1]
  /\ UNCHANGED <<depth, flock, stateVars, pc, callVars, ghostVars>>

GhostDrops(p) ==
  /\ mutex[p] = "ghost"
  /\ mutex' = [mutex EXCEPT ![p] = NoOne]
  /\ UNCHANGED <<depth, ghosts, flock, stateVars, pc, callVars, ghostVars>>

\* Lock.Release: nothing at depth 0, the real unlock when it gets there.
ReleaseEach(h) ==
  /\ depth' = [depth EXCEPT ![h] = IF @ = 0 THEN 0 ELSE @ - 1]
  /\ IF depth[h] > 0
     THEN /\ flock' = NoOne
          /\ mutex' = [mutex EXCEPT ![ProcOf[h]] = NoOne]
     ELSE UNCHANGED <<flock, mutex>>
  /\ UNCHANGED ghosts

Release(h) ==
  /\ depth' = [depth EXCEPT ![h] = IF @ = 0 THEN 0 ELSE @ - 1]
  /\ IF depth[h] = 1
     THEN /\ flock' = NoOne
          /\ mutex' = [mutex EXCEPT ![ProcOf[h]] = NoOne]
     ELSE UNCHANGED <<flock, mutex>>
  /\ UNCHANGED ghosts

-----------------------------------------------------------------------------
(* DB.enter after the lock, and the way out                                *)

\* pathClaims: a file is opened for writing once per process.
Claimed(h) == \E t \in Threads : ProcOf[HandleOf[t]] = ProcOf[h] /\ pc[t] = "copying"

\* Inside a transaction the entry is not given back (the leak); otherwise
\* the core is opened if need be.
Enter(t) ==
  LET h == HandleOf[t] IN
  /\ pc[t] = "locked" /\ doing[t] # "rebuild"
  /\ open[h] \/ txRunning[h] \/ ~Claimed(h)
  /\ rel' = [rel EXCEPT ![t] =
               IF txRunning[h] /\ leakTransactionLockDepth THEN "keep" ELSE "give"]
  /\ open' = IF txRunning[h] THEN open ELSE [open EXCEPT ![h] = TRUE]
  /\ refs' = [refs EXCEPT ![h] = @ + 1]
  /\ Goto(t, "inside")
  /\ UNCHANGED <<lockVars, txRunning, txRelease, doing, inTx, ghostVars>>

\* The core does not open: wrong password, a damaged file, a rebuild that
\* has the file open in this process, ...
OpenFails(t) ==
  LET h == HandleOf[t] IN
  /\ pc[t] = "locked" /\ doing[t] # "rebuild"
  /\ ~txRunning[h] /\ ~open[h]
  /\ Release(h)
  /\ Goto(t, "idle")
  /\ UNCHANGED <<stateVars, callVars, ghostVars>>

\* enterTx keeps the release for the end of the transaction.
KeepForTx(t) ==
  LET h == HandleOf[t] IN
  /\ pc[t] = "inside" /\ doing[t] = "begin"
  /\ txRunning' = [txRunning EXCEPT ![h] = TRUE]
  /\ txRelease' = [txRelease EXCEPT ![h] = rel[t]]
  /\ inTx' = [inTx EXCEPT ![t] = TRUE]
  /\ Goto(t, "idle")
  /\ UNCHANGED <<lockVars, open, refs, rel, doing, ghostVars>>

\* exitTx: whatever release is kept at that moment is run.
EndTx(t) ==
  LET h == HandleOf[t] IN
  /\ pc[t] = "idle" /\ inTx[t]
  /\ inTx' = [inTx EXCEPT ![t] = FALSE]
  /\ txRunning' = [txRunning EXCEPT ![h] = FALSE]
  /\ txRelease' = [txRelease EXCEPT ![h] = "none"]
  /\ IF txRelease[h] = "none"
     THEN UNCHANGED <<pc, rel, doing>>
     ELSE /\ rel' = [rel EXCEPT ![t] = txRelease[h]]
          /\ doing' = [doing EXCEPT ![t] = "op"]
          /\ Goto(t, "inside")
  /\ UNCHANGED <<lockVars, open, refs, ghostVars>>

LastOutNever(h) == FALSE
LastOutAny(h) == ~txRunning[h]

LastOut(h) == refs[h] = 1 /\ ~txRunning[h]

\* exitLocked: the state under s.mu, the lock after it.
Exit(t) ==
  LET h == HandleOf[t] IN
  /\ pc[t] = "inside" /\ doing[t] = "op"
  /\ refs' = [refs EXCEPT ![h] = IF @ = 0 THEN 0 ELSE @ - 1]
  /\ open' = IF LastOut(h) THEN [open EXCEPT ![h] = FALSE] ELSE open
  /\ Goto(t, IF rel[t] = "give" THEN "release" ELSE "idle")
  /\ UNCHANGED <<lockVars, txRunning, txRelease, callVars, ghostVars>>

GiveBack(t) ==
  /\ pc[t] = "release"
  /\ Release(HandleOf[t])
  /\ Goto(t, "idle")
  /\ UNCHANGED <<stateVars, callVars, ghostVars>>

-----------------------------------------------------------------------------
(* DB.Close and DB.Rebuild                                                 *)

closeShared(h) ==
  /\ h \notin closed
  /\ QuietClose => Idle(h)
  /\ closed' = closed \union {h}
  /\ refs' = [refs EXCEPT ![h] = IF txRelease[h] # "none" THEN @ - 1 ELSE @]
  /\ txRunning' = [txRunning EXCEPT ![h] = FALSE]
  /\ txRelease' = [txRelease EXCEPT ![h] = "none"]
  /\ open' = [open EXCEPT ![h] = FALSE]
  /\ IF open[h] THEN Release(h) ELSE UNCHANGED lockVars
  /\ UNCHANGED <<pc, callVars, swapping, rebuilds>>

\* rebuildShared drops the transaction of the handle and runs its release ...
RebuildDropsTx(t) ==
  LET h == HandleOf[t] IN
  /\ pc[t] = "locked" /\ doing[t] = "rebuild"
  /\ txRunning' = [txRunning EXCEPT ![h] = FALSE]
  /\ txRelease' = [txRelease EXCEPT ![h] = "none"]
  /\ IF txRelease[h] = "none"
     THEN UNCHANGED <<refs, open, lockVars>>
     ELSE /\ refs' = [refs EXCEPT ![h] = @ - 1]
          /\ open' = IF refs[h] = 1 THEN [open EXCEPT ![h] = FALSE] ELSE open
          /\ IF txRelease[h] = "give" THEN Release(h) ELSE UNCHANGED lockVars
  /\ Goto(t, "closing")
  /\ UNCHANGED <<callVars, ghostVars>>

\* ... closes the core, whoever uses it ...
RebuildCloses(t) ==
  /\ pc[t] = "closing"
  /\ open' = [open EXCEPT ![HandleOf[t]] = FALSE]
  /\ Goto(t, "closed")
  /\ UNCHANGED <<lockVars, refs, txRunning, txRelease, callVars, ghostVars>>

\* ... opens the file for itself, which fails if another goroutine was
\* faster, and copies it ...
RebuildCopies(t) ==
  /\ pc[t] = "closed"
  /\ Goto(t, IF open[HandleOf[t]] THEN "swapped" ELSE "copying")
  /\ UNCHANGED <<lockVars, stateVars, callVars, ghostVars>>

\* ... closes it again and puts the new file in its place ...
RebuildSwaps(t) ==
  /\ \/ /\ pc[t] = "copying"
        /\ swapping' = swapping \union {HandleOf[t]}
        /\ Goto(t, "swapping")
     \/ /\ pc[t] = "swapping"
        /\ swapping' = swapping \ {HandleOf[t]}
        /\ Goto(t, "swapped")
  /\ UNCHANGED <<lockVars, stateVars, callVars, rebuilds, closed>>

\* ... and gives its own entry back.
RebuildEnds(t) ==
  /\ pc[t] = "swapped"
  /\ Release(HandleOf[t])
  /\ Goto(t, "idle")
  /\ UNCHANGED <<stateVars, callVars, ghostVars>>

Next ==
  \/ \E t \in Threads :
       \/ Call(t) \/ Acquire(t) \/ TakeMutex(t) \/ TakeFile(t) \/ SetDepth(t) \/ Cancel(t)
       \/ Enter(t) \/ OpenFails(t) \/ KeepForTx(t) \/ EndTx(t) \/ Exit(t) \/ GiveBack(t)
       \/ RebuildDropsTx(t) \/ RebuildCloses(t) \/ RebuildCopies(t) \/ RebuildSwaps(t) \/ RebuildEnds(t)
  \/ \E p \in Procs : GhostTakes(p) \/ GhostDrops(p)
  \/ \E h \in Handles : closeShared(h)

Spec == Init /\ [][Next]_vars

-----------------------------------------------------------------------------
TypeOK ==
  /\ depth \in [Handles -> 0..MaxDepth]
  /\ mutex \in [Procs -> Handles \union {"ghost", NoOne}]
  /\ ghosts \in [Procs -> 0..1]
  /\ flock \in Procs \union {NoOne}
  /\ open \in [Handles -> BOOLEAN]
  /\ refs \in [Handles -> Nat]
  /\ txRunning \in [Handles -> BOOLEAN]
  /\ txRelease \in [Handles -> {"none", "give", "keep"}]
  /\ rel \in [Threads -> {"give", "keep"}]
  /\ swapping \subseteq Handles /\ closed \subseteq Handles

\* Two handles never have the file open at the same time, in one process or
\* in two, and a rebuild has it to itself: a core is open, or a file being
\* replaced, only under the lock.
OneCoreOpen ==
  /\ Cardinality({h \in Handles : open[h] \/ h \in swapping}) <= 1
  /\ \A h \in Handles : open[h] \/ h \in swapping =>
       depth[h] > 0 /\ mutex[ProcOf[h]] = h /\ flock = ProcOf[h]

\* Nobody who is inside a handle, or has a transaction of it, finds the core
\* closed under it: the last one out closes, not the first.
Inside(t) == pc[t] = "inside" \/ inTx[t]
OpenWhileUsed == \A t \in Threads : Inside(t) /\ HandleOf[t] \notin closed => open[HandleOf[t]]

\* The two locks behind a handle are held together: whoever has the mutex of
\* its process and an entry has the file, and an abandoned wait never keeps
\* the mutex for longer than it takes to drop it.
LocksPaired ==
  /\ \A h \in Handles : depth[h] > 0 => mutex[ProcOf[h]] = h /\ flock = ProcOf[h]
  /\ flock # NoOne => mutex[flock] \in Handles
  /\ \A p \in Procs : mutex[p] \in Handles =>
       \/ depth[mutex[p]] > 0
       \/ \E t \in Threads : HandleOf[t] = mutex[p] /\ pc[t] \in {"file", "set"}

\* connection.go:415: closing gives the lock back whether or not a
\* transaction was left open.
ClosedLetsGo == \A h \in closed : Idle(h) => depth[h] = 0

\* rebuild.go: no second connection comes in during a rebuild; from the
\* moment it has closed the old file until the new one is in its place,
\* nobody has the file open.
NobodyOpensWhileSwapping == \A h \in swapping : ~open[h]
=============================================================================
