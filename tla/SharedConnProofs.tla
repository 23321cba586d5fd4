------------------------- MODULE SharedConnProofs -------------------------
(***************************************************************************)
(* Proofs that the lock of a process and the lock on the file go together, *)
(* whether or not callers keep rebuilds and closes away from handles in    *)
(* use; that one core at a time has the file open, where no handle is      *)
(* closed in use; and that a handle in use has its core, where none is     *)
(* rebuilt in use either.  For any goroutines, handles and processes.      *)
(***************************************************************************)
EXTENDS SharedConn, FiniteSetTheorems, TLAPS

\* The owners of a mutex are different things.
Distinct ==
  /\ NoOne \notin Handles /\ NoOne \notin Procs /\ NoOne # "ghost"
  /\ "ghost" \notin Handles

\* Between the mutex and the depth an entry is on its way in.
Entering(t) == pc[t] \in {"file", "set"}

PCs == {"idle", "acquire", "mutex", "file", "set", "locked", "inside", "release",
        "closing", "closed", "copying", "swapping", "swapped"}

LocksTyped ==
  /\ depth \in [Handles -> Nat]
  /\ mutex \in [Procs -> Handles \union {"ghost", NoOne}]
  /\ flock \in Procs \union {NoOne}
  /\ pc \in [Threads -> PCs]

\* Whoever is inside has both locks.
InsideHasBoth == \A h \in Handles : depth[h] > 0 => mutex[ProcOf[h]] = h /\ flock = ProcOf[h]

\* Whoever is on the way in has the mutex, and nobody is inside the handle:
\* without that a release could give away what an entry has just taken.
EnteringHasMutex ==
  \A t \in Threads : Entering(t) =>
    /\ mutex[ProcOf[HandleOf[t]]] = HandleOf[t]
    /\ depth[HandleOf[t]] = 0
    /\ pc[t] = "set" => flock = ProcOf[HandleOf[t]]

OneEnters ==
  \A t, u \in Threads : Entering(t) /\ Entering(u) /\ ProcOf[HandleOf[t]] = ProcOf[HandleOf[u]] => t = u

\* The locks are held for somebody.
FileHasHolder ==
  flock # NoOne => (\E h \in Handles : depth[h] > 0) \/ (\E t \in Threads : pc[t] = "set")
MutexHasHolder ==
  \A p \in Procs : mutex[p] \in Handles =>
    /\ ProcOf[mutex[p]] = p
    /\ depth[mutex[p]] > 0 \/ \E t \in Threads : HandleOf[t] = mutex[p] /\ Entering(t)

IInv ==
  LocksTyped /\ InsideHasBoth /\ EnteringHasMutex /\ OneEnters /\ FileHasHolder /\ MutexHasHolder

-----------------------------------------------------------------------------
LEMMA Belongs ==
  /\ \A t \in Threads : HandleOf[t] \in Handles /\ ProcOf[HandleOf[t]] \in Procs
  /\ \A h \in Handles : ProcOf[h] \in Procs
  BY DEF Handles, Procs

LEMMA Initially == ASSUME Distinct, Init PROVE IInv
  <1>1. LocksTyped
    BY DEF Init, LocksTyped, PCs
  <1>2. \A t \in Threads : ~Entering(t) /\ pc[t] # "set"
    BY DEF Init, Entering
  <1>3. InsideHasBoth /\ FileHasHolder
    BY DEF Init, InsideHasBoth, FileHasHolder
  <1>4. EnteringHasMutex /\ OneEnters
    BY <1>2 DEF EnteringHasMutex, OneEnters
  <1>5. MutexHasHolder
    BY DEF Init, MutexHasHolder, Distinct
  <1>6. QED
    BY <1>1, <1>3, <1>4, <1>5 DEF IInv

\* A goroutine goes from one place to another, neither on the way in, and the
\* locks stay as they are.
LEMMA LocksStay ==
  ASSUME IInv, UNCHANGED <<depth, mutex, flock>>,
         pc' = pc \/ \E t \in Threads, to \in PCs \ {"file", "set"} : ~Entering(t) /\ Goto(t, to)
  PROVE  IInv'
  <1>1. pc' \in [Threads -> PCs]
    BY DEF IInv, LocksTyped, Goto
  <1>2. \A u \in Threads : pc'[u] \in {"file", "set"} <=> pc[u] \in {"file", "set"}
    BY DEF IInv, LocksTyped, Goto, Entering
  <1>3. \A u \in Threads : pc'[u] = "set" <=> pc[u] = "set"
    BY DEF IInv, LocksTyped, Goto, Entering
  <1>4. LocksTyped'
    BY <1>1 DEF IInv, LocksTyped
  <1>5. InsideHasBoth'
    BY DEF IInv, InsideHasBoth
  <1>6. EnteringHasMutex'
    BY <1>2, <1>3 DEF IInv, EnteringHasMutex, Entering
  <1>7. OneEnters'
    BY <1>2 DEF IInv, OneEnters, Entering
  <1>8. FileHasHolder'
    BY <1>3 DEF IInv, FileHasHolder
  <1>9. MutexHasHolder'
    BY <1>2 DEF IInv, MutexHasHolder, Entering
  <1>10. QED
    BY <1>4, <1>5, <1>6, <1>7, <1>8, <1>9 DEF IInv

\* If one handle is inside, no other is, nor is anybody of its process on the
\* way in, nor anybody of another one past the file.
LEMMA Alone ==
  ASSUME Distinct, IInv, NEW h \in Handles, depth[h] > 0
  PROVE  /\ \A g \in Handles : depth[g] > 0 => g = h
         /\ \A t \in Threads : Entering(t) => ProcOf[HandleOf[t]] # ProcOf[h]
         /\ \A t \in Threads : pc[t] # "set"
  <1>1. mutex[ProcOf[h]] = h /\ flock = ProcOf[h]
    BY DEF IInv, InsideHasBoth
  <1>2. ASSUME NEW g \in Handles, depth[g] > 0 PROVE g = h
    BY <1>1, <1>2 DEF IInv, InsideHasBoth
  <1>3. ASSUME NEW t \in Threads, Entering(t) PROVE ProcOf[HandleOf[t]] # ProcOf[h]
    <2> SUFFICES ASSUME ProcOf[HandleOf[t]] = ProcOf[h] PROVE FALSE
      OBVIOUS
    <2>1. mutex[ProcOf[HandleOf[t]]] = HandleOf[t] /\ depth[HandleOf[t]] = 0
      BY <1>3 DEF IInv, EnteringHasMutex
    <2>2. HandleOf[t] = h
      BY <1>1, <2>1
    <2>3. QED
      BY <2>1, <2>2
  <1>4. ASSUME NEW t \in Threads, pc[t] = "set" PROVE FALSE
    BY <1>1, <1>3, <1>4 DEF IInv, EnteringHasMutex, Entering
  <1>5. QED
    BY <1>2, <1>3, <1>4

\* Lock.Release, by somebody who is not on the way in, keeps the two together.
LEMMA Released ==
  ASSUME Distinct, IInv, NEW h \in Handles, Release(h),
         pc' = pc \/ \E t \in Threads, to \in PCs \ {"file", "set"} : ~Entering(t) /\ Goto(t, to)
  PROVE  IInv'
  <1>1. pc' \in [Threads -> PCs]
    BY DEF IInv, LocksTyped, Goto
  <1>2. \A u \in Threads : pc'[u] \in {"file", "set"} <=> pc[u] \in {"file", "set"}
    BY DEF IInv, LocksTyped, Goto, Entering
  <1>3. \A u \in Threads : pc'[u] = "set" <=> pc[u] = "set"
    BY DEF IInv, LocksTyped, Goto, Entering
  <1>4. depth \in [Handles -> Nat] /\ mutex \in [Procs -> Handles \union {"ghost", NoOne}]
    BY DEF IInv, LocksTyped
  <1>5. CASE depth[h] = 1
    <2>1. /\ depth' = [depth EXCEPT ![h] = 0] /\ flock' = NoOne
          /\ mutex' = [mutex EXCEPT ![ProcOf[h]] = NoOne]
      BY <1>4, <1>5 DEF Release
    <2>2. /\ \A g \in Handles : depth'[g] = 0
          /\ \A u \in Threads : Entering(u) => ProcOf[HandleOf[u]] # ProcOf[h]
          /\ \A u \in Threads : pc[u] # "set"
      BY <1>4, <1>5, <2>1, Alone
    <2>3. LocksTyped'
      BY <1>1, <1>4, <2>1 DEF LocksTyped
    <2>4. InsideHasBoth'
      BY <2>2 DEF InsideHasBoth
    <2>5. EnteringHasMutex'
      BY <1>2, <1>3, <1>4, <2>1, <2>2, Belongs DEF IInv, EnteringHasMutex, Entering
    <2>6. OneEnters'
      BY <1>2 DEF IInv, OneEnters, Entering
    <2>7. FileHasHolder'
      BY <2>1 DEF FileHasHolder
    <2>8. MutexHasHolder'
      <3> SUFFICES ASSUME NEW p \in Procs, mutex'[p] \in Handles
                   PROVE  /\ ProcOf[mutex'[p]] = p
                          /\ \E u \in Threads : HandleOf[u] = mutex'[p] /\ pc'[u] \in {"file", "set"}
        BY DEF MutexHasHolder, Entering
      <3>1. p # ProcOf[h] /\ mutex'[p] = mutex[p]
        BY <1>4, <2>1 DEF Distinct
      <3>2. depth[mutex[p]] = 0
        BY <1>4, <2>1, <2>2, <3>1 DEF IInv, InsideHasBoth, MutexHasHolder
      <3>3. QED
        BY <1>2, <3>1, <3>2 DEF IInv, MutexHasHolder, Entering
    <2>9. QED
      BY <2>3, <2>4, <2>5, <2>6, <2>7, <2>8 DEF IInv
  <1>6. CASE depth[h] = 0
    <2>1. depth' = depth /\ mutex' = mutex /\ flock' = flock
      BY <1>4, <1>6 DEF Release
    <2>2. QED
      BY <2>1, LocksStay
  <1>7. CASE depth[h] > 1
    <2>1. depth' = [depth EXCEPT ![h] = IF @ = 0 THEN 0 ELSE @ - 1] /\ mutex' = mutex /\ flock' = flock
      BY <1>4, <1>7 DEF Release
    <2>2. /\ depth' \in [Handles -> Nat]
          /\ \A g \in Handles : depth'[g] > 0 <=> depth[g] > 0
          /\ \A g \in Handles : depth'[g] = 0 <=> depth[g] = 0
      BY <1>4, <1>7, <2>1
    <2>3. LocksTyped'
      BY <1>1, <2>1, <2>2 DEF IInv, LocksTyped
    <2>4. InsideHasBoth'
      BY <2>1, <2>2 DEF IInv, InsideHasBoth
    <2>5. EnteringHasMutex'
      BY <1>2, <1>3, <2>1, <2>2, Belongs DEF IInv, EnteringHasMutex, Entering
    <2>6. OneEnters'
      BY <1>2 DEF IInv, OneEnters, Entering
    <2>7. FileHasHolder'
      BY <1>3, <2>1, <2>2 DEF IInv, FileHasHolder
    <2>8. MutexHasHolder'
      BY <1>2, <2>1, <2>2 DEF IInv, MutexHasHolder, Entering
    <2>9. QED
      BY <2>3, <2>4, <2>5, <2>6, <2>7, <2>8 DEF IInv
  <1>8. QED
    BY <1>4, <1>5, <1>6, <1>7

-----------------------------------------------------------------------------
(* The steps of an entry.                                                  *)

LEMMA AcquireStep ==
  ASSUME IInv, NEW t \in Threads, Acquire(t)
  PROVE  IInv'
  <1> DEFINE h == HandleOf[t]
  <1>1. ~Entering(t) /\ mutex' = mutex /\ flock' = flock
    BY DEF Acquire, Entering
  <1>2. CASE depth[h] > 0
    <2>1. depth' = [depth EXCEPT ![h] = @ + 1] /\ Goto(t, "locked")
      BY <1>2 DEF Acquire
    <2>2. /\ depth' \in [Handles -> Nat]
          /\ \A g \in Handles : depth'[g] > 0 <=> depth[g] > 0
          /\ \A g \in Handles : depth'[g] = 0 <=> depth[g] = 0
      BY <1>2, <2>1, Belongs DEF IInv, LocksTyped
    <2>3. /\ pc' \in [Threads -> PCs]
          /\ \A u \in Threads : pc'[u] \in {"file", "set"} <=> pc[u] \in {"file", "set"}
          /\ \A u \in Threads : pc'[u] = "set" <=> pc[u] = "set"
      BY <1>1, <2>1 DEF IInv, LocksTyped, Goto, Entering, PCs
    <2>4. LocksTyped'
      BY <1>1, <2>2, <2>3 DEF IInv, LocksTyped
    <2>5. InsideHasBoth'
      BY <1>1, <2>2 DEF IInv, InsideHasBoth
    <2>6. EnteringHasMutex'
      BY <1>1, <2>2, <2>3, Belongs DEF IInv, EnteringHasMutex, Entering
    <2>7. OneEnters'
      BY <2>3 DEF IInv, OneEnters, Entering
    <2>8. FileHasHolder'
      BY <1>1, <2>2, <2>3 DEF IInv, FileHasHolder
    <2>9. MutexHasHolder'
      BY <1>1, <2>2, <2>3 DEF IInv, MutexHasHolder, Entering
    <2>10. QED
      BY <2>4, <2>5, <2>6, <2>7, <2>8, <2>9 DEF IInv
  <1>3. CASE ~(depth[h] > 0)
    BY <1>1, <1>3, LocksStay DEF Acquire, PCs
  <1>4. QED
    BY <1>2, <1>3

\* The mutex was free, so nobody of the process is inside or on the way in.
LEMMA TakeMutexStep ==
  ASSUME Distinct, IInv, NEW t \in Threads, TakeMutex(t)
  PROVE  IInv'
  <1> DEFINE h == HandleOf[t]
             p == ProcOf[HandleOf[t]]
  <1>1. /\ h \in Handles /\ p \in Procs
        /\ pc[t] = "mutex" /\ mutex[p] = NoOne
        /\ mutex' = [mutex EXCEPT ![p] = h] /\ pc' = [pc EXCEPT ![t] = "file"]
        /\ depth' = depth /\ flock' = flock
    BY Belongs DEF TakeMutex, Goto
  <1>2. /\ depth \in [Handles -> Nat] /\ pc \in [Threads -> PCs]
        /\ mutex \in [Procs -> Handles \union {"ghost", NoOne}]
    BY DEF IInv, LocksTyped
  <1>3. /\ mutex'[p] = h
        /\ \A q \in Procs : q # p => mutex'[q] = mutex[q]
    BY <1>1, <1>2
  <1>4. /\ pc'[t] = "file"
        /\ \A u \in Threads : u # t => pc'[u] = pc[u]
    BY <1>1, <1>2
  <1>5. \A g \in Handles : depth[g] > 0 => ProcOf[g] # p
    BY <1>1 DEF IInv, InsideHasBoth, Distinct
  <1>6. \A u \in Threads : Entering(u) => ProcOf[HandleOf[u]] # p
    BY <1>1, Belongs DEF IInv, EnteringHasMutex, Distinct
  <1> HIDE DEF p, h
  <1>7. LocksTyped'
    BY <1>1, <1>2 DEF IInv, LocksTyped, PCs
  <1>8. InsideHasBoth'
    BY <1>1, <1>3, <1>5, Belongs DEF IInv, InsideHasBoth
  <1>9. EnteringHasMutex'
    <2> SUFFICES ASSUME NEW u \in Threads, pc'[u] \in {"file", "set"}
                 PROVE  /\ mutex'[ProcOf[HandleOf[u]]] = HandleOf[u]
                        /\ depth[HandleOf[u]] = 0
                        /\ pc'[u] = "set" => flock = ProcOf[HandleOf[u]]
      BY <1>1 DEF EnteringHasMutex, Entering
    <2>1. CASE u = t
      BY <1>1, <1>2, <1>3, <1>4, <1>5, <2>1 DEF h, p
    <2>2. CASE u # t
      <3>1. Entering(u) /\ pc'[u] = pc[u]
        BY <1>4, <2>2 DEF Entering
      <3>2. ProcOf[HandleOf[u]] # p
        BY <1>6, <3>1
      <3>3. QED
        BY <1>3, <3>1, <3>2, Belongs DEF IInv, EnteringHasMutex
    <2>3. QED
      BY <2>1, <2>2
  <1>10. OneEnters'
    BY <1>4, <1>6 DEF IInv, OneEnters, Entering, p
  <1>11. FileHasHolder'
    BY <1>1, <1>4 DEF IInv, FileHasHolder
  <1>12. MutexHasHolder'
    <2> SUFFICES ASSUME NEW q \in Procs, mutex'[q] \in Handles
                 PROVE  /\ ProcOf[mutex'[q]] = q
                        /\ \/ depth[mutex'[q]] > 0
                           \/ \E u \in Threads : HandleOf[u] = mutex'[q] /\ pc'[u] \in {"file", "set"}
      BY <1>1 DEF MutexHasHolder, Entering
    <2>1. CASE q = p
      BY <1>3, <1>4, <2>1 DEF h, p
    <2>2. CASE q # p
      <3>1. mutex'[q] = mutex[q]
        BY <1>3, <2>2
      <3>2. \A u \in Threads : Entering(u) => pc'[u] \in {"file", "set"}
        BY <1>4 DEF Entering
      <3>3. QED
        BY <3>1, <3>2 DEF IInv, MutexHasHolder
    <2>3. QED
      BY <2>1, <2>2
  <1>13. QED
    BY <1>7, <1>8, <1>9, <1>10, <1>11, <1>12 DEF IInv

\* The file was free, so nobody at all is inside, and nobody is past the file.
LEMMA TakeFileStep ==
  ASSUME Distinct, IInv, NEW t \in Threads, TakeFile(t)
  PROVE  IInv'
  <1>1. /\ pc[t] = "file" /\ flock = NoOne /\ flock' = ProcOf[HandleOf[t]]
        /\ pc' = [pc EXCEPT ![t] = "set"] /\ depth' = depth /\ mutex' = mutex
    BY DEF TakeFile, Goto
  <1>2. depth \in [Handles -> Nat] /\ pc \in [Threads -> PCs]
    BY DEF IInv, LocksTyped
  <1>3. /\ pc'[t] = "set"
        /\ \A u \in Threads : u # t => pc'[u] = pc[u]
        /\ \A u \in Threads : pc'[u] \in {"file", "set"} <=> pc[u] \in {"file", "set"}
    BY <1>1, <1>2
  <1>4. \A g \in Handles : ~(depth[g] > 0)
    BY <1>1, Belongs DEF IInv, InsideHasBoth, Distinct
  <1>5. \A u \in Threads : pc[u] # "set"
    BY <1>1, Belongs DEF IInv, EnteringHasMutex, Entering, Distinct
  <1>6. LocksTyped'
    BY <1>1, <1>2, Belongs DEF IInv, LocksTyped, PCs
  <1>7. InsideHasBoth'
    BY <1>1, <1>4 DEF InsideHasBoth
  <1>8. EnteringHasMutex'
    BY <1>1, <1>3, <1>5 DEF IInv, EnteringHasMutex, Entering
  <1>9. OneEnters'
    BY <1>3 DEF IInv, OneEnters, Entering
  <1>10. FileHasHolder'
    BY <1>3 DEF FileHasHolder
  <1>11. MutexHasHolder'
    BY <1>1, <1>3 DEF IInv, MutexHasHolder, Entering
  <1>12. QED
    BY <1>6, <1>7, <1>8, <1>9, <1>10, <1>11 DEF IInv

\* Both locks are there: the entry becomes somebody inside.
LEMMA SetDepthStep ==
  ASSUME Distinct, IInv, NEW t \in Threads, SetDepth(t)
  PROVE  IInv'
  <1> DEFINE h == HandleOf[t]
  <1>1. /\ h \in Handles /\ ProcOf[h] \in Procs /\ pc[t] = "set"
        /\ depth' = [depth EXCEPT ![h] = 1] /\ pc' = [pc EXCEPT ![t] = "locked"]
        /\ mutex' = mutex /\ flock' = flock
    BY Belongs DEF SetDepth, Goto
  <1>2. depth \in [Handles -> Nat] /\ pc \in [Threads -> PCs]
    BY DEF IInv, LocksTyped
  <1>3. mutex[ProcOf[h]] = h /\ flock = ProcOf[h] /\ depth[h] = 0
    BY <1>1 DEF IInv, EnteringHasMutex, Entering
  <1>4. /\ pc'[t] = "locked"
        /\ \A u \in Threads : u # t => pc'[u] = pc[u]
        /\ depth'[h] = 1
        /\ \A g \in Handles : g # h => depth'[g] = depth[g]
    BY <1>1, <1>2
  <1>5. \A u \in Threads : Entering(u) /\ u # t => ProcOf[HandleOf[u]] # ProcOf[h]
    BY <1>1 DEF IInv, OneEnters, Entering
  <1> HIDE DEF h
  <1>6. LocksTyped'
    BY <1>1, <1>2 DEF IInv, LocksTyped, PCs
  <1>7. InsideHasBoth'
    BY <1>1, <1>3, <1>4 DEF IInv, InsideHasBoth
  <1>8. EnteringHasMutex'
    <2> SUFFICES ASSUME NEW u \in Threads, pc'[u] \in {"file", "set"}
                 PROVE  /\ mutex[ProcOf[HandleOf[u]]] = HandleOf[u]
                        /\ depth'[HandleOf[u]] = 0
                        /\ pc'[u] = "set" => flock = ProcOf[HandleOf[u]]
      BY <1>1 DEF EnteringHasMutex, Entering
    <2>1. u # t /\ pc'[u] = pc[u] /\ Entering(u)
      BY <1>4 DEF Entering
    <2>2. HandleOf[u] # h /\ HandleOf[u] \in Handles
      BY <1>5, <2>1, Belongs
    <2>3. QED
      BY <1>4, <2>1, <2>2 DEF IInv, EnteringHasMutex
  <1>9. OneEnters'
    BY <1>4 DEF IInv, OneEnters, Entering
  <1>10. FileHasHolder'
    BY <1>1, <1>4 DEF FileHasHolder
  <1>11. MutexHasHolder'
    <2> SUFFICES ASSUME NEW q \in Procs, mutex[q] \in Handles
                 PROVE  /\ ProcOf[mutex[q]] = q
                        /\ \/ depth'[mutex[q]] > 0
                           \/ \E u \in Threads : HandleOf[u] = mutex[q] /\ pc'[u] \in {"file", "set"}
      BY <1>1 DEF MutexHasHolder, Entering
    <2>1. CASE mutex[q] = h
      BY <1>4, <2>1 DEF IInv, MutexHasHolder
    <2>2. CASE mutex[q] # h
      <3>1. \A u \in Threads : HandleOf[u] = mutex[q] => u # t
        BY <2>2 DEF h
      <3>2. QED
        BY <1>4, <2>2, <3>1 DEF IInv, MutexHasHolder, Entering
    <2>3. QED
      BY <2>1, <2>2
  <1>12. QED
    BY <1>6, <1>7, <1>8, <1>9, <1>10, <1>11 DEF IInv

\* Only the goroutine itself, on its way in, needs the mutex it gives back.
LEMMA CancelStep ==
  ASSUME Distinct, IInv, NEW t \in Threads, Cancel(t)
  PROVE  IInv'
  <1> DEFINE h == HandleOf[t]
             p == ProcOf[HandleOf[t]]
  <1>1. CASE pc[t] = "mutex"
    <2>1. depth' = depth /\ flock' = flock /\ mutex' = mutex /\ Goto(t, "idle") /\ ~Entering(t)
      BY <1>1 DEF Cancel, Entering
    <2>2. QED
      BY <2>1, LocksStay DEF PCs
  <1>2. CASE pc[t] = "file"
    <2>1. /\ h \in Handles /\ p \in Procs /\ pc' = [pc EXCEPT ![t] = "idle"]
          /\ mutex' = [mutex EXCEPT ![p] = NoOne] /\ depth' = depth /\ flock' = flock
      BY <1>2, Belongs DEF Cancel, Goto
    <2>2. /\ depth \in [Handles -> Nat] /\ pc \in [Threads -> PCs]
          /\ mutex \in [Procs -> Handles \union {"ghost", NoOne}]
      BY DEF IInv, LocksTyped
    <2>3. mutex[p] = h /\ depth[h] = 0
      BY <1>2 DEF IInv, EnteringHasMutex, Entering
    <2>4. \A u \in Threads : Entering(u) /\ u # t => ProcOf[HandleOf[u]] # p
      BY <1>2 DEF IInv, OneEnters, Entering
    <2>5. /\ mutex'[p] = NoOne
          /\ \A q \in Procs : q # p => mutex'[q] = mutex[q]
          /\ pc'[t] = "idle"
          /\ \A u \in Threads : u # t => pc'[u] = pc[u]
      BY <2>1, <2>2
    <2> HIDE DEF p, h
    <2>6. LocksTyped'
      BY <2>1, <2>2 DEF IInv, LocksTyped, PCs
    <2>7. InsideHasBoth'
      BY <2>1, <2>3, <2>5, Belongs DEF IInv, InsideHasBoth
    <2>8. EnteringHasMutex'
      BY <2>1, <2>4, <2>5, Belongs DEF IInv, EnteringHasMutex, Entering
    <2>9. OneEnters'
      BY <2>5 DEF IInv, OneEnters, Entering
    <2>10. FileHasHolder'
      BY <1>2, <2>1, <2>5 DEF IInv, FileHasHolder
    <2>11. MutexHasHolder'
      <3> SUFFICES ASSUME NEW q \in Procs, mutex'[q] \in Handles
                   PROVE  /\ ProcOf[mutex'[q]] = q
                          /\ \/ depth[mutex'[q]] > 0
                             \/ \E u \in Threads : HandleOf[u] = mutex'[q] /\ pc'[u] \in {"file", "set"}
        BY <2>1 DEF MutexHasHolder, Entering
      <3>1. q # p /\ mutex'[q] = mutex[q]
        BY <2>5 DEF Distinct
      <3>2. \A u \in Threads : HandleOf[u] = mutex[q] => u # t
        BY <3>1 DEF IInv, MutexHasHolder, p
      <3>3. QED
        BY <2>5, <3>1, <3>2 DEF IInv, MutexHasHolder, Entering
    <2>12. QED
      BY <2>6, <2>7, <2>8, <2>9, <2>10, <2>11 DEF IInv
  <1>3. QED
    BY <1>1, <1>2 DEF Cancel

\* An abandoned wait takes the mutex and drops it: nobody else has it.
LEMMA GhostStep ==
  ASSUME Distinct, IInv, NEW p \in Procs, GhostTakes(p) \/ GhostDrops(p)
  PROVE  IInv'
  <1>1. /\ mutex[p] \notin Handles
        /\ \E w \in {"ghost", NoOne} : mutex' = [mutex EXCEPT ![p] = w]
        /\ depth' = depth /\ flock' = flock /\ pc' = pc
    BY DEF GhostTakes, GhostDrops, Distinct
  <1>2. mutex \in [Procs -> Handles \union {"ghost", NoOne}]
    BY DEF IInv, LocksTyped
  <1>3. /\ mutex'[p] \notin Handles
        /\ \A q \in Procs : q # p => mutex'[q] = mutex[q]
    BY <1>1, <1>2 DEF Distinct
  <1>4. LocksTyped'
    BY <1>1, <1>2 DEF IInv, LocksTyped, PCs
  <1>5. InsideHasBoth'
    BY <1>1, <1>3, Belongs DEF IInv, InsideHasBoth
  <1>6. EnteringHasMutex'
    BY <1>1, <1>3, Belongs DEF IInv, EnteringHasMutex, Entering
  <1>7. OneEnters'
    BY <1>1 DEF IInv, OneEnters, Entering
  <1>8. FileHasHolder'
    BY <1>1 DEF IInv, FileHasHolder
  <1>9. MutexHasHolder'
    BY <1>1, <1>3 DEF IInv, MutexHasHolder, Entering
  <1>10. QED
    BY <1>4, <1>5, <1>6, <1>7, <1>8, <1>9 DEF IInv

-----------------------------------------------------------------------------
(* All steps.                                                              *)

\* What a goroutine does apart from the lock.
LEMMA ThreadStep ==
  ASSUME Distinct, IInv, NEW t \in Threads,
         \/ Call(t) \/ Enter(t) \/ OpenFails(t) \/ KeepForTx(t) \/ EndTx(t) \/ Exit(t) \/ GiveBack(t)
         \/ RebuildDropsTx(t) \/ RebuildCloses(t) \/ RebuildCopies(t) \/ RebuildSwaps(t)
         \/ RebuildEnds(t)
  PROVE  IInv'
  <1>1. HandleOf[t] \in Handles
    BY Belongs
  <1>2. ~Entering(t)
    BY DEF Entering, Call, Enter, OpenFails, KeepForTx, EndTx, Exit, GiveBack,
           RebuildDropsTx, RebuildCloses, RebuildCopies, RebuildSwaps, RebuildEnds
  <1>3. pc' = pc \/ \E to \in PCs \ {"file", "set"} : Goto(t, to)
    BY DEF PCs, Call, Enter, OpenFails, KeepForTx, EndTx, Exit, GiveBack,
           RebuildDropsTx, RebuildCloses, RebuildCopies, RebuildSwaps, RebuildEnds
  <1>4. UNCHANGED <<depth, mutex, flock>> \/ Release(HandleOf[t])
    BY DEF lockVars, Call, Enter, OpenFails, KeepForTx, EndTx, Exit, GiveBack,
           RebuildDropsTx, RebuildCloses, RebuildCopies, RebuildSwaps, RebuildEnds
  <1>5. QED
    BY <1>1, <1>2, <1>3, <1>4, LocksStay, Released

\* A handle is closed by somebody who is not on the way in.
LEMMA CloseStep ==
  ASSUME Distinct, IInv, NEW h \in Handles, closeShared(h)
  PROVE  IInv'
  <1>1. pc' = pc
    BY DEF closeShared
  <1>2. CASE open[h]
    <2>1. Release(h)
      BY <1>2 DEF closeShared
    <2>2. QED
      BY <1>1, <2>1, Released
  <1>3. CASE ~open[h]
    BY <1>1, <1>3 DEF closeShared, lockVars, IInv, LocksTyped, InsideHasBoth, EnteringHasMutex,
                      OneEnters, FileHasHolder, MutexHasHolder, Entering
  <1>4. QED
    BY <1>2, <1>3

LEMMA Inductive == Distinct /\ IInv /\ [Next]_vars => IInv'
  <1> SUFFICES ASSUME Distinct, IInv, [Next]_vars PROVE IInv'
    OBVIOUS
  <1>1. ASSUME NEW t \in Threads,
               \/ Call(t) \/ Enter(t) \/ OpenFails(t) \/ KeepForTx(t) \/ EndTx(t) \/ Exit(t)
               \/ GiveBack(t) \/ RebuildDropsTx(t) \/ RebuildCloses(t) \/ RebuildCopies(t)
               \/ RebuildSwaps(t) \/ RebuildEnds(t)
        PROVE  IInv'
    BY <1>1, ThreadStep
  <1>2. ASSUME NEW t \in Threads,
               Acquire(t) \/ TakeMutex(t) \/ TakeFile(t) \/ SetDepth(t) \/ Cancel(t)
        PROVE  IInv'
    BY <1>2, AcquireStep, TakeMutexStep, TakeFileStep, SetDepthStep, CancelStep
  <1>3. ASSUME NEW p \in Procs, GhostTakes(p) \/ GhostDrops(p) PROVE IInv'
    BY <1>3, GhostStep
  <1>4. ASSUME NEW h \in Handles, closeShared(h) PROVE IInv'
    BY <1>4, CloseStep
  <1>5. CASE UNCHANGED vars
    BY <1>5 DEF vars, lockVars, IInv, LocksTyped, InsideHasBoth, EnteringHasMutex,
                OneEnters, FileHasHolder, MutexHasHolder, Entering
  <1>6. QED
    BY <1>1, <1>2, <1>3, <1>4, <1>5 DEF Next

\* Whoever is inside or on the way in has what it needs, in every reachable state.
THEOREM Invariant == ASSUME Distinct PROVE Spec => []IInv
  BY Initially, Inductive, PTL DEF Spec

LEMMA Suffices == ASSUME IInv PROVE LocksPaired
  <1>1. flock # NoOne => mutex[flock] \in Handles
    <2> SUFFICES ASSUME flock # NoOne PROVE mutex[flock] \in Handles
      OBVIOUS
    <2>1. CASE \E h \in Handles : depth[h] > 0
      BY <2>1 DEF IInv, InsideHasBoth
    <2>2. CASE \E t \in Threads : pc[t] = "set"
      BY <2>2, Belongs DEF IInv, EnteringHasMutex, Entering
    <2>3. QED
      BY <2>1, <2>2 DEF IInv, FileHasHolder
  <1>2. QED
    BY <1>1 DEF IInv, InsideHasBoth, MutexHasHolder, Entering, LocksPaired

\* xlock/lock.go: the mutex of a process and the lock on the file are held
\* together or not at all by whoever is inside a handle, with cancelled
\* waits, abandoned goroutines, transactions that keep their release, and
\* handles closed or rebuilt at any moment.
THEOREM LocksGoTogether == ASSUME Distinct PROVE Spec => []LocksPaired
  BY Invariant, Suffices, PTL

-----------------------------------------------------------------------------
(* How long a core is open.  The depth of a handle is at least its         *)
(* references and the goroutines that have the lock beside them; the       *)
(* references are at least the goroutines inside and a transaction that    *)
(* keeps a release.  Both may be more: a transaction begun inside another  *)
(* one leaves its entry behind.                                            *)

Beside == {"locked", "release", "closing", "closed", "copying", "swapping", "swapped"}
HaveLock(h) == {t \in Threads : HandleOf[t] = h /\ pc[t] \in Beside}
AreInside(h) == {t \in Threads : HandleOf[t] = h /\ pc[t] = "inside"}
AreInTx(h) == {t \in Threads : HandleOf[t] = h /\ inTx[t]}
Kept(h) == IF txRelease[h] = "none" THEN 0 ELSE 1

StateTyped ==
  /\ open \in [Handles -> BOOLEAN] /\ refs \in [Handles -> Nat]
  /\ txRunning \in [Handles -> BOOLEAN] /\ txRelease \in [Handles -> {"none", "give", "keep"}]
  /\ rel \in [Threads -> {"give", "keep"}] /\ inTx \in [Threads -> BOOLEAN]
  /\ doing \in [Threads -> {"op", "begin", "rebuild"}]
  /\ swapping \in SUBSET Handles /\ closed \in SUBSET Handles

LockForEach == \A h \in Handles \ closed : depth[h] >= refs[h] + Cardinality(HaveLock(h))
RefForEach == \A h \in Handles \ closed : refs[h] >= Cardinality(AreInside(h)) + Kept(h)
OpenHasRef == \A h \in Handles : open[h] => h \notin closed /\ refs[h] > 0
SwapHasHolder == \A h \in swapping : \E t \in Threads : HandleOf[t] = h /\ pc[t] = "swapping"
ClosedIsIdle == \A h \in closed : Idle(h)
TxIsKept == \A h \in Handles : txRunning[h] => txRelease[h] # "none"

OInv == /\ StateTyped /\ LockForEach /\ RefForEach /\ OpenHasRef /\ SwapHasHolder
        /\ ClosedIsIdle /\ TxIsKept

LEMMA Counts ==
  ASSUME IsFiniteSet(Threads), NEW S \in SUBSET Threads, NEW t \in Threads
  PROVE  /\ IsFiniteSet(S) /\ Cardinality(S) \in Nat
         /\ t \notin S => Cardinality(S \union {t}) = Cardinality(S) + 1
         /\ t \in S => Cardinality(S \ {t}) = Cardinality(S) - 1 /\ Cardinality(S) >= 1
  <1>1. IsFiniteSet(S)
    BY FS_Subset
  <1>2. Cardinality(S) \in Nat
    BY <1>1, FS_CardinalityType
  <1>3. t \notin S => Cardinality(S \union {t}) = Cardinality(S) + 1
    BY <1>1, FS_AddElement
  <1>4. ASSUME t \in S PROVE Cardinality(S \ {t}) = Cardinality(S) - 1 /\ Cardinality(S) >= 1
    <2>1. Cardinality(S \ {t}) = Cardinality(S) - 1
      BY <1>1, <1>4, FS_RemoveElement
    <2>2. Cardinality(S) # 0
      BY <1>1, <1>4, FS_EmptySet
    <2> QED BY <1>2, <2>1, <2>2
  <1> QED BY <1>1, <1>2, <1>3, <1>4

\* One who comes or goes is one more or less.
LEMMA Moves ==
  ASSUME IsFiniteSet(Threads), LocksTyped, NEW t \in Threads, NEW to \in PCs, Goto(t, to)
  PROVE  /\ \A h \in Handles : /\ Cardinality(HaveLock(h)) \in Nat /\ Cardinality(AreInside(h)) \in Nat
                               /\ h # HandleOf[t] => HaveLock(h)' = HaveLock(h) /\ AreInside(h)' = AreInside(h)
         /\ pc[t] \in Beside => Cardinality(HaveLock(HandleOf[t])) >= 1
         /\ pc[t] = "inside" => Cardinality(AreInside(HandleOf[t])) >= 1
         /\ Cardinality(HaveLock(HandleOf[t])') = Cardinality(HaveLock(HandleOf[t]))
              + (IF to \in Beside THEN 1 ELSE 0) - (IF pc[t] \in Beside THEN 1 ELSE 0)
         /\ Cardinality(AreInside(HandleOf[t])') = Cardinality(AreInside(HandleOf[t]))
              + (IF to = "inside" THEN 1 ELSE 0) - (IF pc[t] = "inside" THEN 1 ELSE 0)
  <1>1. pc' = [pc EXCEPT ![t] = to] /\ pc \in [Threads -> PCs] /\ pc' \in [Threads -> PCs]
    BY DEF Goto, LocksTyped
  <1>2. \A h \in Handles : HaveLock(h) \in SUBSET Threads /\ AreInside(h) \in SUBSET Threads
    BY DEF HaveLock, AreInside
  <1>3. \A h \in Handles : Cardinality(HaveLock(h)) \in Nat /\ Cardinality(AreInside(h)) \in Nat
    BY <1>2, Counts
  <1>4. \A h \in Handles : h # HandleOf[t] => HaveLock(h)' = HaveLock(h) /\ AreInside(h)' = AreInside(h)
    BY <1>1 DEF HaveLock, AreInside
  <1>5. PICK h \in Handles : h = HandleOf[t]
    BY Belongs
  <1>6. HaveLock(h)' = IF to \in Beside THEN HaveLock(h) \union {t} ELSE HaveLock(h) \ {t}
    BY <1>1, <1>5 DEF HaveLock
  <1>7. AreInside(h)' = IF to = "inside" THEN AreInside(h) \union {t} ELSE AreInside(h) \ {t}
    BY <1>1, <1>5 DEF AreInside
  <1>8. (t \in HaveLock(h) <=> pc[t] \in Beside) /\ (t \in AreInside(h) <=> pc[t] = "inside")
    BY <1>5 DEF HaveLock, AreInside
  <1>9. Cardinality(HaveLock(h)') = Cardinality(HaveLock(h))
              + (IF to \in Beside THEN 1 ELSE 0) - (IF pc[t] \in Beside THEN 1 ELSE 0)
         /\ (pc[t] \in Beside => Cardinality(HaveLock(h)) >= 1)
    <2>1. PICK S \in SUBSET Threads : S = HaveLock(h)
      BY <1>2, <1>5
    <2>2. /\ Cardinality(S) \in Nat
          /\ t \notin S => Cardinality(S \union {t}) = Cardinality(S) + 1 /\ S \ {t} = S
          /\ t \in S => /\ Cardinality(S \ {t}) = Cardinality(S) - 1
                        /\ Cardinality(S) >= 1 /\ S \union {t} = S
      BY Counts
    <2>3. CASE to \in Beside
      <3>1. HaveLock(h)' = S \union {t}
        BY <1>6, <2>1, <2>3
      <3>2. pc[t] \in Beside => Cardinality(HaveLock(h)') = Cardinality(S) /\ Cardinality(S) >= 1
        BY <1>8, <2>1, <2>2, <3>1
      <3>3. ~(pc[t] \in Beside) => Cardinality(HaveLock(h)') = Cardinality(S) + 1
        BY <1>8, <2>1, <2>2, <3>1
      <3> QED BY <2>1, <2>2, <2>3, <3>2, <3>3
    <2>4. CASE to \notin Beside
      <3>1. HaveLock(h)' = S \ {t}
        BY <1>6, <2>1, <2>4
      <3>2. pc[t] \in Beside => Cardinality(HaveLock(h)') = Cardinality(S) - 1 /\ Cardinality(S) >= 1
        BY <1>8, <2>1, <2>2, <3>1
      <3>3. ~(pc[t] \in Beside) => Cardinality(HaveLock(h)') = Cardinality(S)
        BY <1>8, <2>1, <2>2, <3>1
      <3> QED BY <2>1, <2>2, <2>4, <3>2, <3>3
    <2> QED BY <2>3, <2>4
  <1>10. Cardinality(AreInside(h)') = Cardinality(AreInside(h))
              + (IF to = "inside" THEN 1 ELSE 0) - (IF pc[t] = "inside" THEN 1 ELSE 0)
         /\ (pc[t] = "inside" => Cardinality(AreInside(h)) >= 1)
    <2>1. PICK S \in SUBSET Threads : S = AreInside(h)
      BY <1>2, <1>5
    <2>2. /\ Cardinality(S) \in Nat
          /\ t \notin S => Cardinality(S \union {t}) = Cardinality(S) + 1 /\ S \ {t} = S
          /\ t \in S => /\ Cardinality(S \ {t}) = Cardinality(S) - 1
                        /\ Cardinality(S) >= 1 /\ S \union {t} = S
      BY Counts
    <2>3. CASE to = "inside"
      <3>1. AreInside(h)' = S \union {t}
        BY <1>7, <2>1, <2>3
      <3>2. pc[t] = "inside" => Cardinality(AreInside(h)') = Cardinality(S) /\ Cardinality(S) >= 1
        BY <1>8, <2>1, <2>2, <3>1
      <3>3. ~(pc[t] = "inside") => Cardinality(AreInside(h)') = Cardinality(S) + 1
        BY <1>8, <2>1, <2>2, <3>1
      <3> QED BY <2>1, <2>2, <2>3, <3>2, <3>3
    <2>4. CASE to # "inside"
      <3>1. AreInside(h)' = S \ {t}
        BY <1>7, <2>1, <2>4
      <3>2. pc[t] = "inside" => Cardinality(AreInside(h)') = Cardinality(S) - 1 /\ Cardinality(S) >= 1
        BY <1>8, <2>1, <2>2, <3>1
      <3>3. ~(pc[t] = "inside") => Cardinality(AreInside(h)') = Cardinality(S)
        BY <1>8, <2>1, <2>2, <3>1
      <3> QED BY <2>1, <2>2, <2>4, <3>2, <3>3
    <2> QED BY <2>3, <2>4
  <1> QED BY <1>3, <1>4, <1>5, <1>9, <1>10

\* One goroutine at one handle: what it does to the depth and the references of
\* the handle is made good by where it goes.
BesideOne(at) == IF at \in Beside THEN 1 ELSE 0
InsideOne(at) == IF at = "inside" THEN 1 ELSE 0
LEMMA OneMoves ==
  ASSUME IsFiniteSet(Threads), IInv, OInv, StateTyped', depth' \in [Handles -> Nat],
         NEW t \in Threads, NEW to \in PCs, Goto(t, to),
         NEW h \in Handles, h = HandleOf[t], h \notin closed, closed' = closed,
         \A g \in Handles : g # h =>
           /\ depth'[g] = depth[g] /\ refs'[g] = refs[g] /\ open'[g] = open[g]
           /\ txRunning'[g] = txRunning[g] /\ txRelease'[g] = txRelease[g],
         \A u \in Threads : u # t => inTx'[u] = inTx[u],
         depth'[h] - refs'[h] - BesideOne(to) >= depth[h] - refs[h] - BesideOne(pc[t]),
         refs'[h] - Kept(h)' - InsideOne(to) >= refs[h] - Kept(h) - InsideOne(pc[t]),
         open'[h] => refs'[h] > 0,
         txRunning'[h] => txRelease'[h] # "none",
         \/ swapping' = swapping /\ pc[t] # "swapping"
         \/ swapping' = swapping \union {h} /\ to = "swapping"
         \/ swapping' = swapping \ {h}
  PROVE  OInv'
  <1>1. pc' = [pc EXCEPT ![t] = to] /\ pc \in [Threads -> PCs] /\ pc' \in [Threads -> PCs]
    BY DEF Goto, IInv, LocksTyped
  <1>2. /\ depth \in [Handles -> Nat] /\ refs \in [Handles -> Nat] /\ refs' \in [Handles -> Nat]
        /\ Kept(h) \in {0, 1} /\ Kept(h)' \in {0, 1}
    BY DEF IInv, LocksTyped, OInv, StateTyped, Kept
  <1>3. /\ \A g \in Handles : /\ Cardinality(HaveLock(g)) \in Nat /\ Cardinality(AreInside(g)) \in Nat
                              /\ g # h => HaveLock(g)' = HaveLock(g) /\ AreInside(g)' = AreInside(g)
        /\ Cardinality(HaveLock(h)') = Cardinality(HaveLock(h)) + BesideOne(to) - BesideOne(pc[t])
        /\ Cardinality(AreInside(h)') = Cardinality(AreInside(h)) + InsideOne(to) - InsideOne(pc[t])
    BY Moves DEF IInv, BesideOne, InsideOne
  <1>4. BesideOne(to) \in {0, 1} /\ BesideOne(pc[t]) \in {0, 1} /\ InsideOne(to) \in {0, 1} /\ InsideOne(pc[t]) \in {0, 1}
    BY DEF BesideOne, InsideOne
  <1>5. LockForEach'
    <2>1. \A g \in Handles \ closed : g # h => depth'[g] >= refs'[g] + Cardinality(HaveLock(g)')
      BY <1>3 DEF OInv, LockForEach
    <2>2. depth[h] >= refs[h] + Cardinality(HaveLock(h))
      BY DEF OInv, LockForEach
    <2>3. depth'[h] >= refs'[h] + Cardinality(HaveLock(h)')
      BY <1>2, <1>3, <1>4, <2>2
    <2> QED BY <2>1, <2>3 DEF LockForEach
  <1>6. RefForEach'
    <2>1. \A g \in Handles \ closed : g # h => refs'[g] >= Cardinality(AreInside(g)') + Kept(g)'
      BY <1>3 DEF OInv, RefForEach, Kept
    <2>2. refs[h] >= Cardinality(AreInside(h)) + Kept(h)
      BY DEF OInv, RefForEach
    <2>3. refs'[h] >= Cardinality(AreInside(h)') + Kept(h)'
      BY <1>2, <1>3, <1>4, <2>2
    <2> QED BY <2>1, <2>3 DEF RefForEach
  <1>7. OpenHasRef'
    BY DEF OInv, OpenHasRef
  <1>8. SwapHasHolder'
    <2>1. ASSUME NEW g \in swapping', g # h PROVE \E u \in Threads : HandleOf[u] = g /\ pc'[u] = "swapping"
      <3>1. PICK u \in Threads : HandleOf[u] = g /\ pc[u] = "swapping"
        BY <2>1 DEF OInv, SwapHasHolder
      <3> QED BY <1>1, <2>1, <3>1
    <2>2. ASSUME h \in swapping' PROVE \E u \in Threads : HandleOf[u] = h /\ pc'[u] = "swapping"
      <3>1. CASE swapping' = swapping /\ pc[t] # "swapping"
        <4>1. PICK u \in Threads : HandleOf[u] = h /\ pc[u] = "swapping"
          BY <2>2, <3>1 DEF OInv, SwapHasHolder
        <4> QED BY <1>1, <3>1, <4>1
      <3>2. CASE to = "swapping"
        BY <1>1, <3>2
      <3> QED BY <2>2, <3>1, <3>2
    <2> QED BY <2>1, <2>2 DEF SwapHasHolder
  <1>9. ClosedIsIdle'
    BY <1>1 DEF OInv, ClosedIsIdle, Idle
  <1>10. TxIsKept'
    BY DEF OInv, TxIsKept
  <1> QED BY <1>5, <1>6, <1>7, <1>8, <1>9, <1>10 DEF OInv

\* Whoever is somewhere, or in a transaction, has a handle that is not closed.
LEMMA AtWork ==
  ASSUME IInv, OInv, NEW t \in Threads, pc[t] # "idle" \/ inTx[t]
  PROVE  HandleOf[t] \in Handles /\ HandleOf[t] \notin closed
  BY Belongs DEF OInv, ClosedIsIdle, Idle

LEMMA OFirst == ASSUME IsFiniteSet(Threads), Init PROVE OInv
  <1>1. StateTyped
    BY DEF Init, StateTyped
  <1>2. \A h \in Handles : HaveLock(h) = {} /\ AreInside(h) = {} /\ Kept(h) = 0
    BY DEF Init, HaveLock, AreInside, Kept, Beside
  <1>3. \A h \in Handles : Cardinality(HaveLock(h)) = 0 /\ Cardinality(AreInside(h)) = 0
    BY <1>2, FS_EmptySet
  <1>4. LockForEach /\ RefForEach
    BY <1>2, <1>3 DEF Init, LockForEach, RefForEach
  <1> QED BY <1>1, <1>4 DEF Init, OInv, OpenHasRef, SwapHasHolder, ClosedIsIdle, TxIsKept

\* On the way to the lock nothing is counted yet, and nothing changes while a
\* rebuild goes on.
LEMMA OQuietStep ==
  ASSUME IsFiniteSet(Threads), IInv, OInv, NEW t \in Threads,
         \/ Call(t) \/ (Acquire(t) /\ depth[HandleOf[t]] = 0) \/ TakeMutex(t) \/ TakeFile(t) \/ Cancel(t)
         \/ RebuildCloses(t) \/ RebuildCopies(t) \/ RebuildSwaps(t)
  PROVE  OInv'
  <1>1. PICK h \in Handles : h = HandleOf[t] /\ h \notin closed
    BY AtWork, Belongs DEF Call, Acquire, TakeMutex, TakeFile, Cancel, RebuildCloses, RebuildCopies,
                           RebuildSwaps
  <1>2. /\ UNCHANGED <<depth, refs, txRunning, txRelease, rel, inTx, closed>>
        /\ doing' \in [Threads -> {"op", "begin", "rebuild"}]
        /\ open' = open \/ open' = [open EXCEPT ![h] = FALSE]
    BY <1>1 DEF Call, Acquire, TakeMutex, TakeFile, Cancel, RebuildCloses, RebuildCopies,
                RebuildSwaps, lockVars, stateVars, callVars, ghostVars, OInv, StateTyped
  <1>3. PICK to \in PCs :
          /\ Goto(t, to)
          /\ BesideOne(to) = BesideOne(pc[t]) /\ InsideOne(to) = InsideOne(pc[t])
          /\ \/ swapping' = swapping /\ pc[t] # "swapping"
             \/ swapping' = swapping \union {h} /\ to = "swapping"
             \/ swapping' = swapping \ {h}
    <2>1. CASE Call(t) \/ (Acquire(t) /\ depth[HandleOf[t]] = 0) \/ TakeMutex(t) \/ TakeFile(t) \/ Cancel(t)
      BY <2>1 DEF Call, Acquire, TakeMutex, TakeFile, Cancel, ghostVars, PCs, BesideOne, InsideOne, Beside
    <2>2. CASE RebuildCloses(t) \/ RebuildCopies(t)
      BY <2>2 DEF RebuildCloses, RebuildCopies, ghostVars, PCs, BesideOne, InsideOne, Beside
    <2>3. CASE RebuildSwaps(t)
      BY <1>1, <2>3 DEF RebuildSwaps, PCs, BesideOne, InsideOne, Beside
    <2> QED BY <2>1, <2>2, <2>3
  <1>4. StateTyped'
    BY <1>2, <1>3 DEF OInv, StateTyped
  <1>5. depth' \in [Handles -> Nat] /\ refs \in [Handles -> Nat] /\ open' \in [Handles -> BOOLEAN]
    BY <1>2 DEF IInv, LocksTyped, OInv, StateTyped
  <1>6. /\ depth'[h] - refs'[h] - BesideOne(to) >= depth[h] - refs[h] - BesideOne(pc[t])
        /\ refs'[h] - Kept(h)' - InsideOne(to) >= refs[h] - Kept(h) - InsideOne(pc[t])
    BY <1>2, <1>3, <1>5 DEF Kept, BesideOne, InsideOne
  <1>7. /\ open'[h] => refs'[h] > 0
        /\ \A g \in Handles : g # h => open'[g] = open[g]
        /\ txRunning'[h] => txRelease'[h] # "none"
    BY <1>2 DEF OInv, OpenHasRef, TxIsKept, StateTyped
  <1> QED BY <1>1, <1>2, <1>3, <1>4, <1>5, <1>6, <1>7, OneMoves

\* The depth rises for one who has the lock from then on.
LEMMA OLockStep ==
  ASSUME IsFiniteSet(Threads), IInv, OInv, NEW t \in Threads,
         (Acquire(t) /\ depth[HandleOf[t]] # 0) \/ SetDepth(t)
  PROVE  OInv'
  <1>1. PICK h \in Handles : h = HandleOf[t] /\ h \notin closed
    BY AtWork DEF Acquire, SetDepth
  <1>2. depth \in [Handles -> Nat] /\ refs \in [Handles -> Nat]
    BY DEF IInv, LocksTyped, OInv, StateTyped
  <1>3. /\ UNCHANGED <<refs, open, txRunning, txRelease, rel, doing, inTx, swapping, closed>>
        /\ Goto(t, "locked") /\ pc[t] \in {"acquire", "set"}
        /\ depth' = [depth EXCEPT ![h] = depth[h] + 1]
    <2>1. CASE Acquire(t) /\ depth[HandleOf[t]] # 0
      BY <1>1, <1>2, <2>1 DEF Acquire, stateVars, callVars, ghostVars
    <2>2. CASE SetDepth(t)
      <3>1. depth[h] = 0
        BY <1>1, <2>2 DEF SetDepth, IInv, EnteringHasMutex, Entering
      <3> QED BY <1>1, <2>2, <3>1 DEF SetDepth, stateVars, callVars, ghostVars
    <2> QED BY <2>1, <2>2
  <1>4. /\ BesideOne("locked") = 1 /\ BesideOne(pc[t]) = 0
        /\ InsideOne("locked") = 0 /\ InsideOne(pc[t]) = 0
    BY <1>3 DEF BesideOne, InsideOne, Beside
  <1>5. /\ depth' \in [Handles -> Nat] /\ depth'[h] = depth[h] + 1 /\ "locked" \in PCs
        /\ \A g \in Handles : g # h => depth'[g] = depth[g]
    BY <1>2, <1>3 DEF PCs
  <1>6. StateTyped'
    BY <1>3 DEF OInv, StateTyped
  <1>7. /\ depth'[h] - refs'[h] - BesideOne("locked") >= depth[h] - refs[h] - BesideOne(pc[t])
        /\ refs'[h] - Kept(h)' - InsideOne("locked") >= refs[h] - Kept(h) - InsideOne(pc[t])
    BY <1>2, <1>3, <1>4, <1>5 DEF Kept
  <1>8. (open'[h] => refs'[h] > 0) /\ (txRunning'[h] => txRelease'[h] # "none") /\ pc[t] # "swapping"
    BY <1>3 DEF OInv, OpenHasRef, TxIsKept
  <1> QED BY <1>1, <1>3, <1>5, <1>6, <1>7, <1>8, OneMoves

\* Entering turns the lock into a reference and opens the core.
LEMMA OEnterStep ==
  ASSUME IsFiniteSet(Threads), IInv, OInv, NEW t \in Threads, Enter(t)
  PROVE  OInv'
  <1>1. PICK h \in Handles : h = HandleOf[t] /\ h \notin closed
    BY AtWork DEF Enter
  <1>2. depth \in [Handles -> Nat] /\ refs \in [Handles -> Nat] /\ open \in [Handles -> BOOLEAN]
    BY DEF IInv, LocksTyped, OInv, StateTyped
  <1>3. /\ UNCHANGED <<depth, txRunning, txRelease, doing, inTx, swapping, closed>>
        /\ pc[t] = "locked" /\ Goto(t, "inside") /\ refs' = [refs EXCEPT ![h] = refs[h] + 1]
        /\ open' = open \/ open' = [open EXCEPT ![h] = TRUE]
        /\ rel' = [rel EXCEPT ![t] = "keep"] \/ rel' = [rel EXCEPT ![t] = "give"]
    BY <1>1 DEF Enter, lockVars, ghostVars
  <1>4. /\ BesideOne("inside") = 0 /\ BesideOne(pc[t]) = 1
        /\ InsideOne("inside") = 1 /\ InsideOne(pc[t]) = 0
    BY <1>3 DEF BesideOne, InsideOne, Beside
  <1>5. /\ refs' \in [Handles -> Nat] /\ refs'[h] = refs[h] + 1 /\ "inside" \in PCs
        /\ \A g \in Handles : g # h => refs'[g] = refs[g] /\ open'[g] = open[g]
    BY <1>2, <1>3 DEF PCs
  <1>6. StateTyped'
    BY <1>3, <1>5 DEF OInv, StateTyped
  <1>7. /\ depth'[h] - refs'[h] - BesideOne("inside") >= depth[h] - refs[h] - BesideOne(pc[t])
        /\ refs'[h] - Kept(h)' - InsideOne("inside") >= refs[h] - Kept(h) - InsideOne(pc[t])
    BY <1>2, <1>3, <1>4, <1>5 DEF Kept
  <1>8. refs'[h] > 0 /\ (txRunning'[h] => txRelease'[h] # "none") /\ pc[t] # "swapping"
    BY <1>2, <1>3, <1>5 DEF OInv, TxIsKept
  <1>9. depth' \in [Handles -> Nat]
    BY <1>2, <1>3
  <1> QED BY <1>1, <1>3, <1>5, <1>6, <1>7, <1>8, <1>9, OneMoves

\* A transaction keeps the release of its entry, and gives one back at its end.
LEMMA OTxStep ==
  ASSUME IsFiniteSet(Threads), IInv, OInv, NEW t \in Threads, KeepForTx(t) \/ EndTx(t)
  PROVE  OInv'
  <1>1. PICK h \in Handles : h = HandleOf[t] /\ h \notin closed
    BY AtWork DEF KeepForTx, EndTx
  <1>2. /\ depth \in [Handles -> Nat] /\ refs \in [Handles -> Nat] /\ rel \in [Threads -> {"give", "keep"}]
        /\ txRelease \in [Handles -> {"none", "give", "keep"}] /\ txRunning \in [Handles -> BOOLEAN]
        /\ doing \in [Threads -> {"op", "begin", "rebuild"}] /\ inTx \in [Threads -> BOOLEAN]
    BY DEF IInv, LocksTyped, OInv, StateTyped
  <1>3. /\ UNCHANGED <<depth, open, refs, swapping, closed>>
        /\ pc[t] # "swapping" /\ \A u \in Threads : u # t => inTx'[u] = inTx[u]
        /\ \A g \in Handles : g # h => txRunning'[g] = txRunning[g] /\ txRelease'[g] = txRelease[g]
    BY <1>1, <1>2 DEF KeepForTx, EndTx, lockVars, ghostVars
  <1>4. StateTyped'
    <2>1. CASE KeepForTx(t)
      <3>1. txRelease' = [txRelease EXCEPT ![h] = rel[t]] /\ rel[t] \in {"give", "keep"}
        BY <1>1, <1>2, <2>1 DEF KeepForTx
      <3>2. txRelease' \in [Handles -> {"none", "give", "keep"}]
        BY <1>2, <3>1
      <3> QED BY <1>1, <1>2, <1>3, <2>1, <3>2 DEF OInv, StateTyped, KeepForTx
    <2>2. CASE EndTx(t)
      <3>1. rel' = rel \/ (rel' = [rel EXCEPT ![t] = txRelease[h]] /\ txRelease[h] \in {"give", "keep"})
        BY <1>1, <1>2, <2>2 DEF EndTx
      <3>2. rel' \in [Threads -> {"give", "keep"}] /\ doing' \in [Threads -> {"op", "begin", "rebuild"}]
        BY <1>2, <2>2, <3>1 DEF EndTx
      <3> QED BY <1>1, <1>2, <1>3, <2>2, <3>2 DEF OInv, StateTyped, EndTx
    <2> QED BY <2>1, <2>2
  <1>5. PICK to \in PCs :
          /\ Goto(t, to) /\ BesideOne(to) = 0 /\ BesideOne(pc[t]) = 0
          /\ 0 - Kept(h)' - InsideOne(to) >= 0 - Kept(h) - InsideOne(pc[t])
          /\ txRunning'[h] => txRelease'[h] # "none"
    <2>1. CASE KeepForTx(t)
      <3>1. pc[t] = "inside" /\ Goto(t, "idle") /\ txRelease'[h] # "none"
        BY <1>1, <1>2, <2>1 DEF KeepForTx
      <3>2. "idle" \in PCs /\ BesideOne("idle") = 0 /\ BesideOne(pc[t]) = 0
        BY <3>1 DEF PCs, BesideOne, Beside
      <3>3. InsideOne("idle") = 0 /\ InsideOne(pc[t]) = 1 /\ Kept(h)' = 1 /\ Kept(h) \in {0, 1}
        BY <3>1 DEF InsideOne, Kept
      <3>4. 0 - Kept(h)' - InsideOne("idle") >= 0 - Kept(h) - InsideOne(pc[t])
        BY <3>3
      <3> QED BY <3>1, <3>2, <3>4
    <2>2. CASE EndTx(t) /\ txRelease[h] = "none"
      <3>1. pc[t] = "idle" /\ Goto(t, "idle") /\ txRelease'[h] = "none" /\ ~txRunning'[h]
        BY <1>1, <1>2, <2>2 DEF EndTx, Goto, IInv, LocksTyped
      <3>2. "idle" \in PCs /\ BesideOne("idle") = 0 /\ Kept(h)' = 0 /\ Kept(h) = 0 /\ InsideOne("idle") = 0
        BY <2>2, <3>1 DEF PCs, BesideOne, Beside, Kept, InsideOne
      <3>3. 0 - Kept(h)' - InsideOne("idle") >= 0 - Kept(h) - InsideOne(pc[t])
        BY <3>1, <3>2
      <3> QED BY <3>1, <3>2, <3>3
    <2>3. CASE EndTx(t) /\ txRelease[h] # "none"
      <3>1. pc[t] = "idle" /\ Goto(t, "inside") /\ txRelease'[h] = "none" /\ ~txRunning'[h]
        BY <1>1, <1>2, <2>3 DEF EndTx
      <3>2. "inside" \in PCs /\ BesideOne("inside") = 0 /\ BesideOne(pc[t]) = 0
        BY <3>1 DEF PCs, BesideOne, Beside
      <3>3. Kept(h)' = 0 /\ Kept(h) = 1 /\ InsideOne("inside") = 1 /\ InsideOne(pc[t]) = 0
        BY <2>3, <3>1 DEF Kept, InsideOne
      <3>4. 0 - Kept(h)' - InsideOne("inside") >= 0 - Kept(h) - InsideOne(pc[t])
        BY <3>3
      <3> QED BY <3>1, <3>2, <3>4
    <2> QED BY <2>1, <2>2, <2>3
  <1>6. /\ depth'[h] - refs'[h] - BesideOne(to) >= depth[h] - refs[h] - BesideOne(pc[t])
        /\ refs'[h] - Kept(h)' - InsideOne(to) >= refs[h] - Kept(h) - InsideOne(pc[t])
    BY <1>2, <1>3, <1>5 DEF Kept, InsideOne
  <1>7. (open'[h] => refs'[h] > 0) /\ depth' \in [Handles -> Nat]
    BY <1>2, <1>3 DEF OInv, OpenHasRef
  <1> QED BY <1>1, <1>3, <1>4, <1>5, <1>6, <1>7, OneMoves

\* Whoever leaves had a reference, and the last one closes.
LEMMA OExitStep ==
  ASSUME IsFiniteSet(Threads), IInv, OInv, NEW t \in Threads, Exit(t)
  PROVE  OInv'
  <1>1. PICK h \in Handles : h = HandleOf[t] /\ h \notin closed
    BY AtWork DEF Exit
  <1>2. /\ depth \in [Handles -> Nat] /\ refs \in [Handles -> Nat] /\ open \in [Handles -> BOOLEAN]
    BY DEF IInv, LocksTyped, OInv, StateTyped
  <1>3. PICK to \in {"release", "idle"} : pc[t] = "inside" /\ Goto(t, to)
    BY DEF Exit
  <1>4. refs[h] >= 1 /\ (refs[h] = 1 => ~txRunning[h])
    <2>1. refs[h] >= Cardinality(AreInside(h)) + Kept(h)
      BY <1>1 DEF OInv, RefForEach
    <2>2. to \in PCs
      BY <1>3 DEF PCs
    <2>3. Cardinality(AreInside(h)) \in Nat /\ Cardinality(AreInside(h)) >= 1
      BY <1>1, <1>3, <2>2, Moves DEF IInv
    <2>4. Kept(h) \in {0, 1} /\ (txRunning[h] => Kept(h) = 1)
      BY DEF OInv, TxIsKept, Kept
    <2> QED BY <1>2, <2>1, <2>3, <2>4
  <1>5. /\ UNCHANGED <<depth, txRunning, txRelease, rel, doing, inTx, swapping, closed>>
        /\ refs' = [refs EXCEPT ![h] = refs[h] - 1]
        /\ open' = IF refs[h] = 1 THEN [open EXCEPT ![h] = FALSE] ELSE open
    <2>1. refs[h] # 0
      BY <1>2, <1>4
    <2>2. LastOut(h) <=> refs[h] = 1
      BY <1>4 DEF LastOut
    <2> QED BY <1>1, <2>1, <2>2 DEF Exit, lockVars, callVars, ghostVars
  <1>6. /\ refs' \in [Handles -> Nat] /\ refs'[h] = refs[h] - 1 /\ to \in PCs
        /\ \A g \in Handles : g # h => refs'[g] = refs[g] /\ open'[g] = open[g]
    BY <1>2, <1>3, <1>4, <1>5 DEF PCs
  <1>7. open' \in [Handles -> BOOLEAN] /\ depth' \in [Handles -> Nat] /\ (open'[h] => refs'[h] > 0)
    BY <1>2, <1>4, <1>5, <1>6
  <1>8. StateTyped'
    BY <1>5, <1>6, <1>7 DEF OInv, StateTyped
  <1>9. /\ BesideOne(to) \in {0, 1} /\ BesideOne(pc[t]) = 0
        /\ InsideOne(to) = 0 /\ InsideOne(pc[t]) = 1
    BY <1>3 DEF BesideOne, InsideOne, Beside
  <1>10. /\ depth'[h] - refs'[h] - BesideOne(to) >= depth[h] - refs[h] - BesideOne(pc[t])
         /\ refs'[h] - Kept(h)' - InsideOne(to) >= refs[h] - Kept(h) - InsideOne(pc[t])
    BY <1>2, <1>5, <1>6, <1>9 DEF Kept
  <1>11. (txRunning'[h] => txRelease'[h] # "none") /\ pc[t] # "swapping"
    BY <1>3, <1>5 DEF OInv, TxIsKept
  <1> QED BY <1>1, <1>3, <1>5, <1>6, <1>7, <1>8, <1>10, <1>11, OneMoves

\* Whoever gives its entry back had the lock.
LEMMA OReleaseStep ==
  ASSUME IsFiniteSet(Threads), IInv, OInv, NEW t \in Threads,
         OpenFails(t) \/ GiveBack(t) \/ RebuildEnds(t)
  PROVE  OInv'
  <1>1. PICK h \in Handles : h = HandleOf[t] /\ h \notin closed
    BY AtWork DEF OpenFails, GiveBack, RebuildEnds
  <1>2. depth \in [Handles -> Nat] /\ refs \in [Handles -> Nat]
    BY DEF IInv, LocksTyped, OInv, StateTyped
  <1>3. /\ Release(h) /\ Goto(t, "idle") /\ pc[t] \in {"locked", "release", "swapped"}
        /\ UNCHANGED <<open, refs, txRunning, txRelease, rel, doing, inTx, swapping, closed>>
    BY <1>1 DEF OpenFails, GiveBack, RebuildEnds, stateVars, callVars, ghostVars
  <1>4. /\ BesideOne("idle") = 0 /\ BesideOne(pc[t]) = 1
        /\ InsideOne("idle") = 0 /\ InsideOne(pc[t]) = 0
    BY <1>3 DEF BesideOne, InsideOne, Beside
  <1>5. depth[h] >= 1
    <2>1. depth[h] >= refs[h] + Cardinality(HaveLock(h))
      BY <1>1 DEF OInv, LockForEach
    <2>2. "idle" \in PCs /\ pc[t] \in Beside
      BY <1>3 DEF PCs, Beside
    <2>3. Cardinality(HaveLock(h)) \in Nat /\ Cardinality(HaveLock(h)) >= 1
      BY <1>1, <1>3, <2>2, Moves DEF IInv
    <2> QED BY <1>2, <2>1, <2>3
  <1>6. depth' = [depth EXCEPT ![h] = depth[h] - 1]
    <2>1. depth[h] # 0
      BY <1>2, <1>5
    <2> QED BY <1>3, <2>1 DEF Release
  <1>7. /\ depth' \in [Handles -> Nat] /\ depth'[h] = depth[h] - 1 /\ "idle" \in PCs
        /\ \A g \in Handles : g # h => depth'[g] = depth[g]
    BY <1>2, <1>5, <1>6 DEF PCs
  <1>8. StateTyped'
    BY <1>3 DEF OInv, StateTyped
  <1>9. /\ depth'[h] - refs'[h] - BesideOne("idle") >= depth[h] - refs[h] - BesideOne(pc[t])
        /\ refs'[h] - Kept(h)' - InsideOne("idle") >= refs[h] - Kept(h) - InsideOne(pc[t])
    BY <1>2, <1>3, <1>4, <1>7 DEF Kept
  <1>10. (open'[h] => refs'[h] > 0) /\ (txRunning'[h] => txRelease'[h] # "none") /\ pc[t] # "swapping"
    BY <1>3 DEF OInv, OpenHasRef, TxIsKept
  <1> QED BY <1>1, <1>3, <1>7, <1>8, <1>9, <1>10, OneMoves

\* A rebuild takes the release of the transaction and the reference with it, and
\* has the lock for itself beside them.
LEMMA ODropsTxStep ==
  ASSUME IsFiniteSet(Threads), IInv, OInv, NEW t \in Threads, RebuildDropsTx(t)
  PROVE  OInv'
  <1>1. PICK h \in Handles : h = HandleOf[t] /\ h \notin closed
    BY AtWork DEF RebuildDropsTx
  <1>2. /\ depth \in [Handles -> Nat] /\ refs \in [Handles -> Nat] /\ open \in [Handles -> BOOLEAN]
        /\ txRelease \in [Handles -> {"none", "give", "keep"}] /\ txRunning \in [Handles -> BOOLEAN]
    BY DEF IInv, LocksTyped, OInv, StateTyped
  <1>3. /\ UNCHANGED <<rel, doing, inTx, swapping, closed>> /\ pc[t] = "locked" /\ Goto(t, "closing")
        /\ txRunning' = [txRunning EXCEPT ![h] = FALSE] /\ txRelease' = [txRelease EXCEPT ![h] = "none"]
    BY <1>1 DEF RebuildDropsTx, callVars, ghostVars
  <1>4. /\ BesideOne("closing") = 1 /\ BesideOne(pc[t]) = 1 /\ "closing" \in PCs
        /\ InsideOne("closing") = 0 /\ InsideOne(pc[t]) = 0 /\ Kept(h)' = 0
    BY <1>1, <1>2, <1>3 DEF BesideOne, InsideOne, Beside, Kept, PCs
  <1>5. CASE txRelease[h] = "none"
    <2>1. UNCHANGED <<refs, open, depth>> /\ Kept(h) = 0
      BY <1>1, <1>5 DEF RebuildDropsTx, lockVars, Kept
    <2>2. StateTyped'
      BY <1>2, <1>3, <2>1 DEF OInv, StateTyped
    <2>3. /\ depth'[h] - refs'[h] - BesideOne("closing") >= depth[h] - refs[h] - BesideOne(pc[t])
          /\ refs'[h] - Kept(h)' - InsideOne("closing") >= refs[h] - Kept(h) - InsideOne(pc[t])
      BY <1>2, <1>4, <2>1
    <2>4. (open'[h] => refs'[h] > 0) /\ ~txRunning'[h] /\ depth' \in [Handles -> Nat]
      BY <1>2, <1>3, <2>1 DEF OInv, OpenHasRef
    <2>5. \A g \in Handles : g # h => /\ depth'[g] = depth[g] /\ refs'[g] = refs[g] /\ open'[g] = open[g]
                                      /\ txRunning'[g] = txRunning[g] /\ txRelease'[g] = txRelease[g]
      BY <1>2, <1>3, <2>1
    <2> QED BY <1>1, <1>3, <1>4, <2>2, <2>3, <2>4, <2>5, OneMoves
  <1>6. CASE txRelease[h] # "none"
    <2>1. refs[h] >= 1 /\ Kept(h) = 1 /\ depth[h] >= 1
      <3>1. refs[h] >= Cardinality(AreInside(h)) + Kept(h) /\ depth[h] >= refs[h] + Cardinality(HaveLock(h))
        BY <1>1 DEF OInv, RefForEach, LockForEach
      <3>2. Cardinality(AreInside(h)) \in Nat /\ Cardinality(HaveLock(h)) \in Nat
        BY <1>3, <1>4, Moves DEF IInv
      <3>3. Kept(h) = 1
        BY <1>6 DEF Kept
      <3> QED BY <1>2, <3>1, <3>2, <3>3
    <2>2. /\ refs' = [refs EXCEPT ![h] = refs[h] - 1]
          /\ open' = IF refs[h] = 1 THEN [open EXCEPT ![h] = FALSE] ELSE open
          /\ depth' = depth \/ depth' = [depth EXCEPT ![h] = depth[h] - 1]
      <3>1. depth[h] # 0
        BY <1>2, <2>1
      <3> QED BY <1>1, <1>6, <3>1 DEF RebuildDropsTx, lockVars, Release
    <2>3. /\ refs' \in [Handles -> Nat] /\ refs'[h] = refs[h] - 1
          /\ depth' \in [Handles -> Nat] /\ depth'[h] >= depth[h] - 1
          /\ open' \in [Handles -> BOOLEAN] /\ (open'[h] => refs'[h] > 0)
          /\ \A g \in Handles : g # h => depth'[g] = depth[g] /\ refs'[g] = refs[g] /\ open'[g] = open[g]
      BY <1>2, <2>1, <2>2
    <2>4. StateTyped'
      BY <1>2, <1>3, <2>3 DEF OInv, StateTyped
    <2>5. /\ depth'[h] - refs'[h] - BesideOne("closing") >= depth[h] - refs[h] - BesideOne(pc[t])
          /\ refs'[h] - Kept(h)' - InsideOne("closing") >= refs[h] - Kept(h) - InsideOne(pc[t])
      BY <1>2, <1>4, <2>1, <2>3
    <2>6. /\ ~txRunning'[h]
          /\ \A g \in Handles : g # h => txRunning'[g] = txRunning[g] /\ txRelease'[g] = txRelease[g]
      BY <1>2, <1>3
    <2> QED BY <1>1, <1>3, <1>4, <2>3, <2>4, <2>5, <2>6, OneMoves
  <1> QED BY <1>5, <1>6

\* An idle handle that is closed is not counted any more.
LEMMA OCloseStep ==
  ASSUME IsFiniteSet(Threads), QuietClose, IInv, OInv, NEW h \in Handles, closeShared(h)
  PROVE  OInv'
  <1>1. /\ h \notin closed /\ Idle(h) /\ closed' = closed \union {h}
        /\ UNCHANGED <<pc, rel, doing, inTx, swapping>>
        /\ refs' = [refs EXCEPT ![h] = IF txRelease[h] # "none" THEN refs[h] - 1 ELSE refs[h]]
        /\ open' = [open EXCEPT ![h] = FALSE]
        /\ txRunning' = [txRunning EXCEPT ![h] = FALSE]
        /\ txRelease' = [txRelease EXCEPT ![h] = "none"]
    BY DEF closeShared, callVars
  <1>2. /\ depth \in [Handles -> Nat] /\ refs \in [Handles -> Nat] /\ open \in [Handles -> BOOLEAN]
        /\ txRelease \in [Handles -> {"none", "give", "keep"}] /\ txRunning \in [Handles -> BOOLEAN]
    BY DEF IInv, LocksTyped, OInv, StateTyped
  <1>3. \A g \in Handles : g # h => depth'[g] = depth[g]
    BY <1>2 DEF closeShared, Release, lockVars
  <1>4. refs' \in [Handles -> Nat]
    <2>1. txRelease[h] # "none" => refs[h] >= 1
      <3>1. refs[h] >= Cardinality(AreInside(h)) + Kept(h)
        BY <1>1 DEF OInv, RefForEach
      <3>2. AreInside(h) = {}
        BY <1>1 DEF AreInside, Idle
      <3>3. Cardinality(AreInside(h)) = 0 /\ (txRelease[h] # "none" => Kept(h) = 1)
        BY <3>2, FS_EmptySet DEF Kept
      <3> QED BY <1>2, <3>1, <3>3
    <2> QED BY <1>1, <1>2, <2>1
  <1>5. StateTyped'
    BY <1>1, <1>2, <1>4 DEF OInv, StateTyped
  <1>6. \A g \in Handles : HaveLock(g)' = HaveLock(g) /\ AreInside(g)' = AreInside(g)
    BY <1>1 DEF HaveLock, AreInside
  <1>7. \A g \in Handles : g # h => /\ refs'[g] = refs[g] /\ open'[g] = open[g]
                                    /\ txRunning'[g] = txRunning[g] /\ txRelease'[g] = txRelease[g]
                                    /\ Kept(g)' = Kept(g)
    BY <1>1, <1>2 DEF Kept
  <1>8. LockForEach' /\ RefForEach'
    BY <1>1, <1>3, <1>6, <1>7 DEF OInv, LockForEach, RefForEach
  <1>9. OpenHasRef' /\ TxIsKept'
    BY <1>1, <1>2, <1>7 DEF OInv, OpenHasRef, TxIsKept
  <1>10. SwapHasHolder' /\ ClosedIsIdle'
    BY <1>1 DEF OInv, SwapHasHolder, ClosedIsIdle, Idle
  <1> QED BY <1>5, <1>8, <1>9, <1>10 DEF OInv

LEMMA OIdleStep ==
  ASSUME IInv, OInv, UNCHANGED <<depth, stateVars, pc, callVars, ghostVars>>
  PROVE  OInv'
  BY DEF stateVars, callVars, ghostVars, OInv, StateTyped, LockForEach, RefForEach, OpenHasRef,
         SwapHasHolder, ClosedIsIdle, TxIsKept, HaveLock, AreInside, Kept, Idle

LEMMA OInductive ==
  ASSUME IsFiniteSet(Threads), QuietClose, IInv, OInv, [Next]_vars
  PROVE  OInv'
  <1>1. CASE UNCHANGED vars
    BY <1>1, OIdleStep DEF vars, lockVars
  <1>2. ASSUME NEW p \in Procs, GhostTakes(p) \/ GhostDrops(p) PROVE OInv'
    BY <1>2, OIdleStep DEF GhostTakes, GhostDrops
  <1>3. ASSUME NEW t \in Threads, Acquire(t) PROVE OInv'
    BY <1>3, OQuietStep, OLockStep
  <1> QED BY <1>1, <1>2, <1>3, OQuietStep, OLockStep, OEnterStep, OTxStep, OExitStep, OReleaseStep,
             ODropsTxStep, OCloseStep DEF Next

\* The counters of a handle are never below the goroutines and transactions that
\* keep its core open, in every reachable state.
THEOREM OpenIsCounted ==
  ASSUME Distinct, IsFiniteSet(Threads), QuietClose
  PROVE  Spec => []OInv
  <1>1. Init => OInv
    BY OFirst
  <1>2. IInv /\ OInv /\ [Next]_vars => OInv'
    BY OInductive
  <1> QED BY <1>1, <1>2, Invariant, PTL DEF Spec

LEMMA OneCoreFollows ==
  ASSUME Distinct, IsFiniteSet(Threads), IInv, OInv
  PROVE  OneCoreOpen
  <1>1. depth \in [Handles -> Nat] /\ refs \in [Handles -> Nat]
    BY DEF IInv, LocksTyped, OInv, StateTyped
  <1>2. \A h \in Handles : HaveLock(h) \in SUBSET Threads /\ Cardinality(HaveLock(h)) \in Nat
    <2>1. SUFFICES ASSUME NEW h \in Handles
                   PROVE  HaveLock(h) \in SUBSET Threads /\ Cardinality(HaveLock(h)) \in Nat
      OBVIOUS
    <2>2. HaveLock(h) \in SUBSET Threads
      BY DEF HaveLock
    <2>3. IsFiniteSet(HaveLock(h))
      BY <2>2, FS_Subset
    <2> QED BY <2>2, <2>3, FS_CardinalityType
  <1>3. ASSUME NEW h \in Handles, open[h] PROVE depth[h] > 0
    <2>1. h \notin closed /\ refs[h] > 0
      BY <1>3 DEF OInv, OpenHasRef
    <2>2. depth[h] >= refs[h] + Cardinality(HaveLock(h))
      BY <2>1 DEF OInv, LockForEach
    <2> QED BY <1>1, <1>2, <2>1, <2>2
  <1>4. ASSUME NEW h \in Handles, h \in swapping PROVE depth[h] > 0
    <2>1. PICK t \in Threads : HandleOf[t] = h /\ pc[t] = "swapping"
      BY <1>4 DEF OInv, SwapHasHolder
    <2>2. h \notin closed
      BY <2>1 DEF OInv, ClosedIsIdle, Idle
    <2>3. t \in HaveLock(h)
      BY <2>1 DEF HaveLock, Beside
    <2>4. Cardinality(HaveLock(h)) >= 1
      <3>1. PICK S \in SUBSET Threads : S = HaveLock(h)
        BY <1>2
      <3> QED BY <2>3, <3>1, Counts
    <2>5. depth[h] >= refs[h] + Cardinality(HaveLock(h))
      BY <2>2 DEF OInv, LockForEach
    <2> QED BY <1>1, <1>2, <2>4, <2>5
  <1>5. \A h \in Handles : open[h] \/ h \in swapping => depth[h] > 0
    BY <1>3, <1>4
  <1>6. \A h \in Handles : open[h] \/ h \in swapping =>
          depth[h] > 0 /\ mutex[ProcOf[h]] = h /\ flock = ProcOf[h]
    BY <1>5 DEF IInv, InsideHasBoth
  <1>7. Cardinality({h \in Handles : open[h] \/ h \in swapping}) <= 1
    <2>1. CASE \E h \in Handles : open[h] \/ h \in swapping
      <3>1. PICK h \in Handles : open[h] \/ h \in swapping
        BY <2>1
      <3>2. {g \in Handles : open[g] \/ g \in swapping} = {h}
        BY <1>6, <3>1
      <3> QED BY <3>2, FS_Singleton
    <2>2. CASE ~\E h \in Handles : open[h] \/ h \in swapping
      <3>1. {g \in Handles : open[g] \/ g \in swapping} = {}
        BY <2>2
      <3> QED BY <3>1, FS_EmptySet
    <2> QED BY <2>1, <2>2
  <1> QED BY <1>6, <1>7 DEF OneCoreOpen

\* Over all processes one core at a time has the file open, and under the lock:
\* for any goroutines, handles and processes, also where goroutines rebuild a
\* handle that others use (connection.go, rebuild.go), as long as none is closed
\* in use.
THEOREM OneHasTheFile ==
  ASSUME Distinct, IsFiniteSet(Threads), QuietClose
  PROVE  Spec => []OneCoreOpen
  <1>1. IInv /\ OInv => OneCoreOpen
    BY OneCoreFollows
  <1> QED BY <1>1, Invariant, OpenIsCounted, PTL

-----------------------------------------------------------------------------
(* Who is inside finds the core open.  Where handles are rebuilt only when *)
(* they are idle, the references are at least the goroutines inside and    *)
(* the open transactions, so that nobody is left when the last one goes.   *)

UseForEach ==
  \A h \in Handles \ closed : refs[h] >= Cardinality(AreInside(h)) + Cardinality(AreInTx(h))
TxHasOwner == \A h \in Handles : txRunning[h] => AreInTx(h) # {}
BeginsOutside == \A t \in Threads : doing[t] = "begin" /\ pc[t] # "idle" => ~inTx[t]
AtRebuild == {"closing", "closed", "copying", "swapping", "swapped"}
RebuildsAlone ==
  \A t \in Threads : Rebuilding(t) \/ pc[t] \in AtRebuild =>
    /\ doing[t] = "rebuild" /\ ~inTx[t]
    /\ \A u \in Threads : u # t /\ HandleOf[u] = HandleOf[t] => pc[u] = "idle" /\ ~inTx[u]
NotInside == \A t \in Threads : pc[t] = "inside" => doing[t] # "rebuild"

UInv == UseForEach /\ TxHasOwner /\ BeginsOutside /\ RebuildsAlone /\ NotInside /\ OpenWhileUsed

LEMMA UFirst == ASSUME IsFiniteSet(Threads), Init PROVE UInv
  <1>1. \A h \in Handles : AreInside(h) = {} /\ AreInTx(h) = {} /\ refs[h] = 0
    BY DEF Init, AreInside, AreInTx
  <1>2. UseForEach
    BY <1>1, FS_EmptySet DEF UseForEach
  <1> QED BY <1>2 DEF Init, UInv, TxHasOwner, BeginsOutside, RebuildsAlone, NotInside, OpenWhileUsed,
                      Inside, Rebuilding, AtRebuild

\* One who begins or ends a transaction is one more or less.
TxOne(b) == IF b THEN 1 ELSE 0
LEMMA TxMoves ==
  ASSUME IsFiniteSet(Threads), StateTyped, StateTyped', NEW t \in Threads,
         \A u \in Threads : u # t => inTx'[u] = inTx[u]
  PROVE  /\ \A h \in Handles : /\ Cardinality(AreInTx(h)) \in Nat
                               /\ h # HandleOf[t] => AreInTx(h)' = AreInTx(h)
         /\ Cardinality(AreInTx(HandleOf[t])') = Cardinality(AreInTx(HandleOf[t]))
              + TxOne(inTx'[t]) - TxOne(inTx[t])
         /\ inTx[t] => Cardinality(AreInTx(HandleOf[t])) >= 1
  <1>1. inTx \in [Threads -> BOOLEAN] /\ inTx' \in [Threads -> BOOLEAN]
    BY DEF StateTyped
  <1>2. \A h \in Handles : AreInTx(h) \in SUBSET Threads
    BY DEF AreInTx
  <1>3. \A h \in Handles : Cardinality(AreInTx(h)) \in Nat
    BY <1>2, Counts
  <1>4. \A h \in Handles : h # HandleOf[t] => AreInTx(h)' = AreInTx(h)
    BY DEF AreInTx
  <1>5. PICK h \in Handles : h = HandleOf[t]
    BY Belongs
  <1>6. PICK S \in SUBSET Threads : S = AreInTx(h)
    BY <1>2
  <1>7. /\ Cardinality(S) \in Nat
        /\ t \notin S => Cardinality(S \union {t}) = Cardinality(S) + 1 /\ S \ {t} = S
        /\ t \in S => /\ Cardinality(S \ {t}) = Cardinality(S) - 1
                      /\ Cardinality(S) >= 1 /\ S \union {t} = S
    BY Counts
  <1>8. t \in S <=> inTx[t]
    BY <1>5, <1>6 DEF AreInTx
  <1>9. CASE inTx'[t]
    <2>1. AreInTx(h)' = S \union {t}
      BY <1>5, <1>6, <1>9 DEF AreInTx
    <2>2. /\ inTx[t] => Cardinality(AreInTx(h)') = Cardinality(S)
          /\ ~inTx[t] => Cardinality(AreInTx(h)') = Cardinality(S) + 1
      BY <1>7, <1>8, <2>1
    <2> QED BY <1>3, <1>4, <1>5, <1>6, <1>7, <1>8, <1>9, <2>2 DEF TxOne
  <1>10. CASE ~inTx'[t]
    <2>1. AreInTx(h)' = S \ {t}
      BY <1>5, <1>6, <1>10 DEF AreInTx
    <2>2. /\ inTx[t] => Cardinality(AreInTx(h)') = Cardinality(S) - 1
          /\ ~inTx[t] => Cardinality(AreInTx(h)') = Cardinality(S)
      BY <1>7, <1>8, <2>1
    <2> QED BY <1>3, <1>4, <1>5, <1>6, <1>7, <1>8, <1>10, <2>2 DEF TxOne
  <1> QED BY <1>9, <1>10

\* What one goroutine does to the references is made good by where it goes.
LEMMA OneUses ==
  ASSUME IsFiniteSet(Threads), IInv, OInv, UInv, StateTyped',
         NEW t \in Threads, NEW to \in PCs, Goto(t, to), NEW h \in Handles, h = HandleOf[t],
         closed' = closed, \A g \in Handles : g # h => refs'[g] = refs[g],
         \A u \in Threads : u # t => inTx'[u] = inTx[u],
         refs'[h] - InsideOne(to) - TxOne(inTx'[t]) >= refs[h] - InsideOne(pc[t]) - TxOne(inTx[t])
  PROVE  UseForEach'
  <1>1. /\ \A g \in Handles : /\ Cardinality(AreInside(g)) \in Nat
                              /\ g # h => AreInside(g)' = AreInside(g)
        /\ Cardinality(AreInside(h)') = Cardinality(AreInside(h)) + InsideOne(to) - InsideOne(pc[t])
    BY Moves DEF IInv, InsideOne
  <1>2. /\ \A g \in Handles : /\ Cardinality(AreInTx(g)) \in Nat
                              /\ g # h => AreInTx(g)' = AreInTx(g)
        /\ Cardinality(AreInTx(h)') = Cardinality(AreInTx(h)) + TxOne(inTx'[t]) - TxOne(inTx[t])
    BY TxMoves DEF OInv
  <1>3. /\ refs \in [Handles -> Nat] /\ refs' \in [Handles -> Nat]
        /\ InsideOne(to) \in {0, 1} /\ InsideOne(pc[t]) \in {0, 1}
        /\ TxOne(inTx'[t]) \in {0, 1} /\ TxOne(inTx[t]) \in {0, 1}
    BY DEF OInv, StateTyped, InsideOne, TxOne
  <1>4. \A g \in Handles \ closed : g # h =>
          refs'[g] >= Cardinality(AreInside(g)') + Cardinality(AreInTx(g)')
    BY <1>1, <1>2 DEF UInv, UseForEach
  <1>5. h \notin closed => refs'[h] >= Cardinality(AreInside(h)') + Cardinality(AreInTx(h)')
    <2>1. h \notin closed => refs[h] >= Cardinality(AreInside(h)) + Cardinality(AreInTx(h))
      BY DEF UInv, UseForEach
    <2> QED BY <1>1, <1>2, <1>3, <2>1
  <1> QED BY <1>4, <1>5 DEF UseForEach

\* While somebody rebuilds a handle, it is the only one there.
LEMMA NobodyElse ==
  ASSUME UInv, NEW t \in Threads, NEW u \in Threads, HandleOf[u] = HandleOf[t],
         pc[t] # "idle" \/ inTx[t], Rebuilding(u) \/ pc[u] \in AtRebuild
  PROVE  u = t
  BY DEF UInv, RebuildsAlone

\* What leaves cores, references and transactions alone.
LEMMA UQuietStep ==
  ASSUME IsFiniteSet(Threads), QuietRebuild, IInv, OInv, OInv', UInv, NEW t \in Threads,
         \/ Call(t) \/ Acquire(t) \/ TakeMutex(t) \/ TakeFile(t) \/ SetDepth(t) \/ Cancel(t)
         \/ OpenFails(t) \/ GiveBack(t) \/ RebuildCopies(t) \/ RebuildSwaps(t) \/ RebuildEnds(t)
  PROVE  UInv'
  <1>1. UNCHANGED <<open, refs, txRunning, inTx, closed>> /\ pc[t] # "inside"
    BY DEF Call, Acquire, TakeMutex, TakeFile, SetDepth, Cancel, OpenFails, GiveBack, RebuildCopies,
           RebuildSwaps, RebuildEnds, stateVars, callVars, ghostVars
  <1>2. PICK to \in PCs : Goto(t, to) /\ to # "inside" /\ (to \in AtRebuild => pc[t] \in AtRebuild)
    BY DEF Call, Acquire, TakeMutex, TakeFile, SetDepth, Cancel, OpenFails, GiveBack, RebuildCopies,
           RebuildSwaps, RebuildEnds, PCs, AtRebuild
  <1>3. pc' = [pc EXCEPT ![t] = to] /\ pc \in [Threads -> PCs]
    BY <1>2 DEF Goto, IInv, LocksTyped
  <1>4. UseForEach'
    <2>1. PICK h \in Handles : h = HandleOf[t]
      BY Belongs
    <2>2. refs'[h] - InsideOne(to) - TxOne(inTx'[t]) >= refs[h] - InsideOne(pc[t]) - TxOne(inTx[t])
      BY <1>1, <1>2 DEF InsideOne, TxOne, OInv, StateTyped
    <2> QED BY <1>1, <1>2, <2>1, <2>2, OneUses DEF OInv
  <1>5. TxHasOwner' /\ OpenWhileUsed'
    BY <1>1, <1>2, <1>3 DEF UInv, TxHasOwner, AreInTx, OpenWhileUsed, Inside
  <1>6. NotInside'
    BY <1>2, <1>3 DEF UInv, NotInside, Call, Acquire, TakeMutex, TakeFile, SetDepth, Cancel, OpenFails,
                      GiveBack, RebuildCopies, RebuildSwaps, RebuildEnds, callVars, OInv, StateTyped
  <1>7. CASE Call(t)
    <2>1. PICK what \in {"op", "begin", "rebuild"} :
            /\ doing' = [doing EXCEPT ![t] = what] /\ pc[t] = "idle"
            /\ what = "begin" => ~inTx[t]
            /\ what = "rebuild" => Idle(HandleOf[t])
            /\ \A u \in Threads : ~(Rebuilding(u) /\ HandleOf[u] = HandleOf[t])
            /\ to = "acquire"
      BY <1>2, <1>7 DEF Call, Goto, IInv, LocksTyped
    <2>2. /\ doing'[t] = what /\ \A u \in Threads : u # t => doing'[u] = doing[u] /\ pc'[u] = pc[u]
          /\ pc'[t] = "acquire"
      BY <1>3, <2>1 DEF OInv, StateTyped
    <2>3. BeginsOutside'
      BY <1>1, <2>1, <2>2 DEF UInv, BeginsOutside
    <2>4. RebuildsAlone'
      <3>1. ASSUME NEW u \in Threads, u # t, Rebuilding(u)' \/ pc'[u] \in AtRebuild
            PROVE  /\ doing'[u] = "rebuild" /\ ~inTx'[u] /\ HandleOf[u] # HandleOf[t]
                   /\ \A v \in Threads : v # u /\ HandleOf[v] = HandleOf[u] => pc'[v] = "idle" /\ ~inTx'[v]
        <4>1. Rebuilding(u) \/ pc[u] \in AtRebuild
          BY <2>2, <3>1 DEF Rebuilding
        <4>2. doing[u] = "rebuild" /\ Rebuilding(u)
          BY <4>1 DEF UInv, RebuildsAlone, Rebuilding, AtRebuild
        <4>3. HandleOf[u] # HandleOf[t]
          BY <2>1, <4>2
        <4> QED BY <1>1, <2>2, <3>1, <4>1, <4>2, <4>3 DEF UInv, RebuildsAlone
      <3>2. ASSUME Rebuilding(t)' \/ pc'[t] \in AtRebuild
            PROVE  /\ doing'[t] = "rebuild" /\ ~inTx'[t]
                   /\ \A v \in Threads : v # t /\ HandleOf[v] = HandleOf[t] => pc'[v] = "idle" /\ ~inTx'[v]
        <4>1. what = "rebuild"
          BY <2>2, <3>2 DEF Rebuilding, AtRebuild
        <4> QED BY <1>1, <2>1, <2>2, <4>1 DEF Idle
      <3> QED BY <3>1, <3>2 DEF RebuildsAlone
    <2> QED BY <1>4, <1>5, <1>6, <2>3, <2>4 DEF UInv
  <1>8. CASE ~Call(t)
    <2>1. pc[t] # "idle" /\ doing' = doing
      BY <1>8 DEF Acquire, TakeMutex, TakeFile, SetDepth, Cancel, OpenFails, GiveBack, RebuildCopies,
                  RebuildSwaps, RebuildEnds, callVars
    <2>2. BeginsOutside'
      BY <1>1, <1>3, <2>1 DEF UInv, BeginsOutside
    <2>3. RebuildsAlone'
      <3>1. \A u \in Threads : (Rebuilding(u) \/ pc[u] \in AtRebuild)' => Rebuilding(u) \/ pc[u] \in AtRebuild
        BY <1>2, <1>3, <2>1 DEF Rebuilding
      <3>2. \A u \in Threads : pc[u] = "idle" => pc'[u] = "idle"
        BY <1>3, <2>1
      <3> QED BY <1>1, <2>1, <3>1, <3>2 DEF UInv, RebuildsAlone
    <2> QED BY <1>4, <1>5, <1>6, <2>2, <2>3 DEF UInv
  <1> QED BY <1>7, <1>8

\* A rebuild is alone with its handle: it may forget and close what it finds.
LEMMA UDropsStep ==
  ASSUME IsFiniteSet(Threads), IInv, OInv, OInv', UInv, NEW t \in Threads,
         RebuildDropsTx(t) \/ RebuildCloses(t)
  PROVE  UInv'
  <1>1. PICK h \in Handles : h = HandleOf[t] /\ h \notin closed
    BY AtWork DEF RebuildDropsTx, RebuildCloses
  <1>2. /\ UNCHANGED <<doing, inTx, closed>> /\ pc[t] \in {"locked", "closing"}
        /\ pc[t] = "locked" => doing[t] = "rebuild"
    BY DEF RebuildDropsTx, RebuildCloses, callVars, ghostVars
  <1>3. PICK to \in {"closing", "closed"} : Goto(t, to)
    BY DEF RebuildDropsTx, RebuildCloses
  <1>4. pc' = [pc EXCEPT ![t] = to] /\ pc \in [Threads -> PCs] /\ to \in PCs
    BY <1>3 DEF Goto, IInv, LocksTyped, PCs
  <1>5. Rebuilding(t) \/ pc[t] \in AtRebuild
    BY <1>2 DEF Rebuilding, AtRebuild
  <1>6. /\ doing[t] = "rebuild" /\ ~inTx[t]
        /\ \A u \in Threads : u # t /\ HandleOf[u] = h => pc[u] = "idle" /\ ~inTx[u]
    BY <1>1, <1>5 DEF UInv, RebuildsAlone
  <1>7. AreInside(h)' = {} /\ AreInTx(h)' = {} /\ AreInTx(h) = {}
    BY <1>1, <1>2, <1>3, <1>4, <1>6 DEF AreInside, AreInTx
  <1>8. \A g \in Handles : g # h =>
          /\ refs'[g] = refs[g] /\ open'[g] = open[g] /\ txRunning'[g] = txRunning[g]
          /\ AreInside(g)' = AreInside(g) /\ AreInTx(g)' = AreInTx(g)
    BY <1>1, <1>2, <1>4 DEF RebuildDropsTx, RebuildCloses, OInv, StateTyped, AreInside, AreInTx
  <1>9. UseForEach'
    <2>1. refs'[h] >= Cardinality(AreInside(h)') + Cardinality(AreInTx(h)')
      <3>1. refs'[h] \in Nat
        BY DEF OInv, StateTyped
      <3> QED BY <1>7, <3>1, FS_EmptySet
    <2> QED BY <1>2, <1>8, <2>1 DEF UInv, UseForEach
  <1>10. TxHasOwner'
    <2>1. ~txRunning'[h]
      <3>1. ~txRunning[h]
        BY <1>7 DEF UInv, TxHasOwner
      <3> QED BY <1>1, <3>1 DEF RebuildDropsTx, RebuildCloses, OInv, StateTyped
    <2> QED BY <1>8, <2>1 DEF UInv, TxHasOwner
  <1>11. BeginsOutside' /\ NotInside'
    BY <1>2, <1>3, <1>4, <1>6 DEF UInv, BeginsOutside, NotInside
  <1>12. RebuildsAlone'
    <2>1. \A u \in Threads : u # t => pc'[u] = pc[u]
      BY <1>4
    <2>2. ASSUME NEW u \in Threads, u # t, Rebuilding(u)' \/ pc'[u] \in AtRebuild
          PROVE  /\ doing'[u] = "rebuild" /\ ~inTx'[u]
                 /\ \A v \in Threads : v # u /\ HandleOf[v] = HandleOf[u] => pc'[v] = "idle" /\ ~inTx'[v]
      <3>1. Rebuilding(u) \/ pc[u] \in AtRebuild
        BY <1>2, <2>1, <2>2 DEF Rebuilding
      <3>2. HandleOf[u] # HandleOf[t]
        BY <1>2, <2>2, <3>1, NobodyElse
      <3> QED BY <1>2, <2>1, <3>1, <3>2 DEF UInv, RebuildsAlone
    <2>3. \A u \in Threads : u # t /\ HandleOf[u] = HandleOf[t] => pc'[u] = "idle" /\ ~inTx'[u]
      BY <1>1, <1>2, <1>6, <2>1
    <2> QED BY <1>2, <1>6, <2>2, <2>3 DEF RebuildsAlone
  <1>13. OpenWhileUsed'
    <2>1. ASSUME NEW u \in Threads, pc'[u] = "inside" \/ inTx'[u], HandleOf[u] \notin closed'
          PROVE  open'[HandleOf[u]]
      <3>1. HandleOf[u] # h
        BY <1>7, <2>1 DEF AreInside, AreInTx
      <3>2. u # t /\ pc'[u] = pc[u]
        BY <1>1, <1>4, <3>1
      <3> QED BY <1>2, <1>8, <2>1, <3>1, <3>2, Belongs DEF UInv, OpenWhileUsed, Inside
    <2> QED BY <2>1 DEF OpenWhileUsed, Inside
  <1> QED BY <1>9, <1>10, <1>11, <1>12, <1>13 DEF UInv

\* A goroutine that goes in or out while nobody rebuilds the handle.
LEMMA NobodyRebuilds ==
  ASSUME IInv, OInv, UInv, NEW t \in Threads, NEW to \in {"idle", "inside", "release"}, Goto(t, to),
         pc[t] # "idle" \/ inTx[t], doing[t] # "rebuild", doing'[t] # "rebuild",
         pc[t] \notin AtRebuild,
         \A u \in Threads : u # t => doing'[u] = doing[u] /\ inTx'[u] = inTx[u]
  PROVE  RebuildsAlone'
  <1>1. pc' = [pc EXCEPT ![t] = to] /\ pc \in [Threads -> PCs]
    BY DEF Goto, IInv, LocksTyped
  <1>2. ~(Rebuilding(t)' \/ pc'[t] \in AtRebuild)
    BY <1>1 DEF Rebuilding, AtRebuild
  <1>3. ASSUME NEW u \in Threads, u # t, Rebuilding(u)' \/ pc'[u] \in AtRebuild
        PROVE  /\ doing'[u] = "rebuild" /\ ~inTx'[u]
               /\ \A v \in Threads : v # u /\ HandleOf[v] = HandleOf[u] => pc'[v] = "idle" /\ ~inTx'[v]
    <2>1. \A v \in Threads : v # t => pc'[v] = pc[v]
      BY <1>1
    <2>2. Rebuilding(u) \/ pc[u] \in AtRebuild
      BY <1>3, <2>1 DEF Rebuilding
    <2>3. HandleOf[u] # HandleOf[t]
      BY <1>3, <2>2, NobodyElse
    <2> QED BY <1>3, <2>1, <2>2, <2>3 DEF UInv, RebuildsAlone
  <1> QED BY <1>2, <1>3 DEF RebuildsAlone

LEMMA UEnterStep ==
  ASSUME IsFiniteSet(Threads), IInv, OInv, OInv', UInv, NEW t \in Threads, Enter(t)
  PROVE  UInv'
  <1>1. PICK h \in Handles : h = HandleOf[t] /\ h \notin closed
    BY AtWork DEF Enter
  <1>2. refs \in [Handles -> Nat] /\ open \in [Handles -> BOOLEAN] /\ pc \in [Threads -> PCs]
    BY DEF IInv, LocksTyped, OInv, StateTyped
  <1>3. /\ UNCHANGED <<txRunning, doing, inTx, closed>> /\ doing[t] # "rebuild"
        /\ pc[t] = "locked" /\ Goto(t, "inside") /\ refs' = [refs EXCEPT ![h] = refs[h] + 1]
        /\ open' = IF txRunning[h] THEN open ELSE [open EXCEPT ![h] = TRUE]
    BY <1>1 DEF Enter, ghostVars
  <1>4. pc' = [pc EXCEPT ![t] = "inside"] /\ "inside" \in PCs
    BY <1>3 DEF Goto, PCs
  <1>5. UseForEach'
    <2>1. refs'[h] - InsideOne("inside") - TxOne(inTx'[t]) >= refs[h] - InsideOne(pc[t]) - TxOne(inTx[t])
      BY <1>2, <1>3 DEF InsideOne, TxOne
    <2> QED BY <1>1, <1>2, <1>3, <1>4, <2>1, OneUses DEF OInv
  <1>6. TxHasOwner'
    BY <1>3 DEF UInv, TxHasOwner, AreInTx
  <1>7. BeginsOutside' /\ NotInside'
    BY <1>2, <1>3, <1>4 DEF UInv, BeginsOutside, NotInside
  <1>8. RebuildsAlone'
    BY <1>3, NobodyRebuilds DEF AtRebuild
  <1>9. open'[h]
    <2>1. txRunning[h] => open[h]
      BY <1>1 DEF UInv, TxHasOwner, AreInTx, OpenWhileUsed, Inside
    <2> QED BY <1>2, <1>3, <2>1
  <1>10. OpenWhileUsed'
    BY <1>1, <1>2, <1>3, <1>4, <1>9, Belongs DEF UInv, OpenWhileUsed, Inside
  <1> QED BY <1>5, <1>6, <1>7, <1>8, <1>10 DEF UInv

LEMMA UTxStep ==
  ASSUME IsFiniteSet(Threads), IInv, OInv, OInv', UInv, NEW t \in Threads, KeepForTx(t) \/ EndTx(t)
  PROVE  UInv'
  <1>1. PICK h \in Handles : h = HandleOf[t] /\ h \notin closed
    BY AtWork DEF KeepForTx, EndTx
  <1>2. /\ refs \in [Handles -> Nat] /\ pc \in [Threads -> PCs] /\ inTx \in [Threads -> BOOLEAN]
        /\ txRunning \in [Handles -> BOOLEAN] /\ doing \in [Threads -> {"op", "begin", "rebuild"}]
    BY DEF IInv, LocksTyped, OInv, StateTyped
  <1>3. UNCHANGED <<refs, open, closed>>
    BY DEF KeepForTx, EndTx, ghostVars
  <1>4. CASE KeepForTx(t)
    <2>1. /\ pc[t] = "inside" /\ doing[t] = "begin" /\ doing' = doing /\ Goto(t, "idle")
          /\ inTx' = [inTx EXCEPT ![t] = TRUE] /\ txRunning' = [txRunning EXCEPT ![h] = TRUE]
      BY <1>1, <1>4 DEF KeepForTx
    <2>2. pc' = [pc EXCEPT ![t] = "idle"] /\ "idle" \in PCs /\ ~inTx[t]
      BY <2>1 DEF Goto, PCs, UInv, BeginsOutside
    <2>3. UseForEach'
      <3>1. refs'[h] - InsideOne("idle") - TxOne(inTx'[t]) >= refs[h] - InsideOne(pc[t]) - TxOne(inTx[t])
        BY <1>2, <1>3, <2>1, <2>2 DEF InsideOne, TxOne
      <3> QED BY <1>1, <1>2, <1>3, <2>1, <2>2, <3>1, OneUses DEF OInv
    <2>4. TxHasOwner'
      <3>1. t \in AreInTx(h)' /\ \A g \in Handles : AreInTx(g) \subseteq AreInTx(g)'
        BY <1>1, <1>2, <2>1 DEF AreInTx
      <3>2. \A g \in Handles : g # h => txRunning'[g] = txRunning[g]
        BY <1>2, <2>1
      <3>3. ASSUME NEW g \in Handles, txRunning'[g] PROVE AreInTx(g)' # {}
        BY <3>1, <3>2, <3>3 DEF UInv, TxHasOwner
      <3> QED BY <3>3 DEF TxHasOwner
    <2>5. BeginsOutside' /\ NotInside'
      BY <1>2, <2>1, <2>2 DEF UInv, BeginsOutside, NotInside
    <2>6. RebuildsAlone'
      BY <1>2, <2>1, NobodyRebuilds DEF AtRebuild
    <2>7. OpenWhileUsed'
      BY <1>2, <1>3, <2>1, <2>2 DEF UInv, OpenWhileUsed, Inside
    <2> QED BY <2>3, <2>4, <2>5, <2>6, <2>7 DEF UInv
  <1>5. CASE EndTx(t)
    <2>1. PICK to \in {"idle", "inside"} :
            /\ Goto(t, to) /\ pc[t] = "idle" /\ inTx[t] /\ inTx' = [inTx EXCEPT ![t] = FALSE]
            /\ txRunning' = [txRunning EXCEPT ![h] = FALSE]
            /\ to = "idle" => doing' = doing
            /\ to = "inside" => doing' = [doing EXCEPT ![t] = "op"]
      <3>1. CASE txRelease[h] = "none"
        BY <1>1, <1>2, <1>5, <3>1 DEF EndTx, Goto
      <3>2. CASE txRelease[h] # "none"
        BY <1>1, <1>5, <3>2 DEF EndTx
      <3> QED BY <3>1, <3>2
    <2>2. pc' = [pc EXCEPT ![t] = to] /\ to \in PCs
      BY <2>1 DEF Goto, PCs
    <2>3. UseForEach'
      <3>1. refs'[h] - InsideOne(to) - TxOne(inTx'[t]) >= refs[h] - InsideOne(pc[t]) - TxOne(inTx[t])
        BY <1>2, <1>3, <2>1 DEF InsideOne, TxOne
      <3> QED BY <1>1, <1>2, <1>3, <2>1, <2>2, <3>1, OneUses DEF OInv
    <2>4. TxHasOwner'
      <3>1. \A g \in Handles : g # h => AreInTx(g)' = AreInTx(g) /\ txRunning'[g] = txRunning[g]
        BY <1>1, <1>2, <2>1 DEF AreInTx
      <3>2. ~txRunning'[h]
        BY <1>2, <2>1
      <3> QED BY <3>1, <3>2 DEF UInv, TxHasOwner
    <2>5. \A u \in Threads : u # t => doing'[u] = doing[u] /\ inTx'[u] = inTx[u] /\ pc'[u] = pc[u]
      BY <1>2, <2>1, <2>2
    <2>6. ~inTx'[t] /\ pc'[t] = to /\ (to = "inside" => doing'[t] = "op")
      BY <1>2, <2>1, <2>2
    <2>7. BeginsOutside' /\ NotInside'
      BY <2>5, <2>6 DEF UInv, BeginsOutside, NotInside
    <2>8. RebuildsAlone'
      <3>1. ASSUME NEW u \in Threads, Rebuilding(u)' \/ pc'[u] \in AtRebuild
            PROVE  /\ doing'[u] = "rebuild" /\ ~inTx'[u]
                   /\ \A v \in Threads : v # u /\ HandleOf[v] = HandleOf[u] => pc'[v] = "idle" /\ ~inTx'[v]
        <4>1. u # t
          BY <2>6, <3>1 DEF Rebuilding, AtRebuild
        <4>2. Rebuilding(u) \/ pc[u] \in AtRebuild
          BY <2>5, <3>1, <4>1 DEF Rebuilding
        <4>3. HandleOf[u] # HandleOf[t]
          BY <2>1, <4>1, <4>2, NobodyElse
        <4> QED BY <2>5, <4>1, <4>2, <4>3 DEF UInv, RebuildsAlone
      <3> QED BY <3>1 DEF RebuildsAlone
    <2>9. OpenWhileUsed'
      BY <1>3, <2>1, <2>5, <2>6 DEF UInv, OpenWhileUsed, Inside
    <2> QED BY <2>3, <2>4, <2>7, <2>8, <2>9 DEF UInv
  <1> QED BY <1>4, <1>5

\* The last one out closes, and leaves nobody behind.
LEMMA UExitStep ==
  ASSUME IsFiniteSet(Threads), IInv, OInv, OInv', UInv, NEW t \in Threads, Exit(t)
  PROVE  UInv'
  <1>1. PICK h \in Handles : h = HandleOf[t] /\ h \notin closed
    BY AtWork DEF Exit
  <1>2. refs \in [Handles -> Nat] /\ open \in [Handles -> BOOLEAN] /\ pc \in [Threads -> PCs]
    BY DEF IInv, LocksTyped, OInv, StateTyped
  <1>3. PICK to \in {"idle", "release"} : pc[t] = "inside" /\ Goto(t, to)
    BY DEF Exit
  <1>4. pc' = [pc EXCEPT ![t] = to] /\ to \in PCs
    BY <1>3 DEF Goto, PCs
  <1>5. /\ Cardinality(AreInside(h)) \in Nat /\ Cardinality(AreInside(h)) >= 1
        /\ Cardinality(AreInside(h)') = Cardinality(AreInside(h)) - 1
    BY <1>1, <1>3, <1>4, Moves DEF IInv
  <1>6. /\ AreInside(h)' \in SUBSET Threads /\ AreInTx(h) \in SUBSET Threads
        /\ Cardinality(AreInTx(h)) \in Nat
    <2>1. AreInside(h)' \in SUBSET Threads /\ AreInTx(h) \in SUBSET Threads
      BY DEF AreInside, AreInTx
    <2>2. IsFiniteSet(AreInTx(h))
      BY <2>1, FS_Subset
    <2> QED BY <2>1, <2>2, FS_CardinalityType
  <1>7. refs[h] >= Cardinality(AreInside(h)) + Cardinality(AreInTx(h))
    BY <1>1 DEF UInv, UseForEach
  <1>8. /\ UNCHANGED <<txRunning, doing, inTx, closed>> /\ doing[t] = "op"
        /\ refs' = [refs EXCEPT ![h] = refs[h] - 1]
        /\ open' = open \/ (refs[h] = 1 /\ open' = [open EXCEPT ![h] = FALSE])
    <2>1. refs[h] # 0
      BY <1>2, <1>5, <1>6, <1>7
    <2> QED BY <1>1, <2>1 DEF Exit, callVars, ghostVars, LastOut
  <1>9. UseForEach'
    <2>1. refs'[h] - InsideOne(to) - TxOne(inTx'[t]) >= refs[h] - InsideOne(pc[t]) - TxOne(inTx[t])
      BY <1>2, <1>3, <1>8 DEF InsideOne, TxOne
    <2> QED BY <1>1, <1>2, <1>4, <1>3, <1>8, <2>1, OneUses DEF OInv
  <1>10. TxHasOwner'
    BY <1>8 DEF UInv, TxHasOwner, AreInTx
  <1>11. BeginsOutside' /\ NotInside'
    BY <1>2, <1>3, <1>4, <1>8 DEF UInv, BeginsOutside, NotInside
  <1>12. RebuildsAlone'
    BY <1>3, <1>8, NobodyRebuilds DEF AtRebuild
  <1>13. OpenWhileUsed'
    <2>1. CASE open' = open
      BY <1>2, <1>3, <1>4, <1>8, <2>1 DEF UInv, OpenWhileUsed, Inside
    <2>2. CASE refs[h] = 1 /\ open' = [open EXCEPT ![h] = FALSE]
      <3>1. Cardinality(AreInside(h)') = 0 /\ Cardinality(AreInTx(h)) = 0
        BY <1>5, <1>6, <1>7, <2>2
      <3>2. IsFiniteSet(AreInside(h)') /\ IsFiniteSet(AreInTx(h))
        BY <1>6, FS_Subset
      <3>3. AreInside(h)' = {} /\ AreInTx(h) = {}
        BY <3>1, <3>2, FS_EmptySet
      <3>4. ASSUME NEW u \in Threads, pc'[u] = "inside" \/ inTx'[u] PROVE HandleOf[u] # h
        BY <1>8, <3>3, <3>4 DEF AreInside, AreInTx
      <3>5. \A u \in Threads : pc'[u] = "inside" => pc[u] = "inside"
        BY <1>2, <1>3, <1>4
      <3> QED BY <1>2, <1>8, <2>2, <3>4, <3>5, Belongs DEF UInv, OpenWhileUsed, Inside
    <2> QED BY <1>8, <2>1, <2>2
  <1> QED BY <1>9, <1>10, <1>11, <1>12, <1>13 DEF UInv

LEMMA UCloseStep ==
  ASSUME UInv, OInv, NEW h \in Handles, closeShared(h)
  PROVE  UInv'
  <1>1. /\ UNCHANGED <<pc, rel, doing, inTx>> /\ closed' = closed \union {h}
        /\ open' = [open EXCEPT ![h] = FALSE] /\ txRunning' = [txRunning EXCEPT ![h] = FALSE]
        /\ \A g \in Handles : g # h => refs'[g] = refs[g]
    BY DEF closeShared, callVars, OInv, StateTyped
  <1>2. open \in [Handles -> BOOLEAN] /\ txRunning \in [Handles -> BOOLEAN]
    BY DEF OInv, StateTyped
  <1>3. \A g \in Handles : AreInside(g)' = AreInside(g) /\ AreInTx(g)' = AreInTx(g)
    BY <1>1 DEF AreInside, AreInTx
  <1>4. UseForEach'
    BY <1>1, <1>3 DEF UInv, UseForEach
  <1>5. TxHasOwner'
    BY <1>1, <1>2, <1>3 DEF UInv, TxHasOwner
  <1>6. BeginsOutside' /\ RebuildsAlone' /\ NotInside'
    BY <1>1 DEF UInv, BeginsOutside, RebuildsAlone, NotInside, Rebuilding
  <1>7. OpenWhileUsed'
    BY <1>1, <1>2, Belongs DEF UInv, OpenWhileUsed, Inside
  <1> QED BY <1>4, <1>5, <1>6, <1>7 DEF UInv

LEMMA UIdleStep ==
  ASSUME UInv, UNCHANGED <<stateVars, pc, callVars, ghostVars>>
  PROVE  UInv'
  BY DEF stateVars, callVars, ghostVars, UInv, UseForEach, TxHasOwner, BeginsOutside, RebuildsAlone,
         NotInside, OpenWhileUsed, Inside, Rebuilding, AreInside, AreInTx

LEMMA UInductive ==
  ASSUME IsFiniteSet(Threads), QuietRebuild, IInv, OInv, OInv', UInv, [Next]_vars
  PROVE  UInv'
  <1>1. CASE UNCHANGED vars
    BY <1>1, UIdleStep DEF vars
  <1>2. ASSUME NEW p \in Procs, GhostTakes(p) \/ GhostDrops(p) PROVE UInv'
    BY <1>2, UIdleStep DEF GhostTakes, GhostDrops
  <1> QED BY <1>1, <1>2, UQuietStep, UDropsStep, UEnterStep, UTxStep, UExitStep, UCloseStep DEF Next

\* Nobody who is inside a handle, or has a transaction of it, finds the core
\* closed under it (connection.go: the last one out closes, not the first), for
\* any goroutines, handles and processes, where handles are rebuilt and closed
\* when they are idle.
THEOREM InUseIsOpen ==
  ASSUME Distinct, IsFiniteSet(Threads), QuietRebuild, QuietClose
  PROVE  Spec => []OpenWhileUsed
  <1>1. Init => UInv
    BY UFirst
  <1>2. IInv /\ OInv /\ OInv' /\ UInv /\ [Next]_vars => UInv'
    BY UInductive
  <1>3. UInv => OpenWhileUsed
    BY DEF UInv
  <1> QED BY <1>1, <1>2, <1>3, Invariant, OpenIsCounted, PTL DEF Spec
=============================================================================
