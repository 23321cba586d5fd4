------------------------- MODULE LockServiceProofs -------------------------
(***************************************************************************)
(* Proofs about LockService, for any number of goroutines and collections  *)
(* and any limits: type correctness, counters that agree with the          *)
(* processes they count, mutual exclusion at the gate, no lock without an  *)
(* open transaction behind it, no lost wakeup, no ring of waiters, and a   *)
(* page budget of which no page is lost or minted.                         *)
(*                                                                         *)
(* The liveness of checkpoints is left to model checking.                  *)
(***************************************************************************)
EXTENDS LockService, WellFoundedInduction, FiniteSetTheorems, TLAPS

\* Where a process is says whether its transaction is registered.
Placed ==
    \A p \in Procs :
        /\ pc[p] \in {"in", "enterCollection", "releasing"} => p \in open
        /\ pc[p] \in {"out", "enterShared", "entered", "refused", "released", "committed"}
              => p \notin open

\* Only a parked transaction waits, and only the parked can have been woken.
Waits ==
    /\ \A p \in Procs : waiting[p] # NoCol <=> pc[p] = "enterCollection"
    /\ woken \subseteq Parked

\* The gate in a form that needs no cardinality.
OneInside ==
    /\ \A p, q \in ExclusiveHolders : p = q
    /\ ExclusiveHolders # {} => SharedHolders = {} /\ open = {}

\* Every action needs all of it: a counter can go down only because somebody is
\* counted, a lock is given back only because its depth says it is held, and a
\* sleeper's reason stays true only because the counters mean what they say.
IInv ==
    /\ TypeOK
    /\ CountsAgree
    /\ OneInside
    /\ Placed
    /\ NoOrphanLock
    /\ Waits
    /\ NoLostWakeup

-----------------------------------------------------------------------------
(* Counting.                                                               *)

\* The sets that the counters stand for are finite.
LEMMA FiniteSets ==
    /\ IsFiniteSet(Procs)
    /\ IsFiniteSet(Parked)
    /\ IsFiniteSet(Queuers)
    /\ IsFiniteSet(SharedHolders)
    /\ IsFiniteSet(ExclusiveHolders)
  <1>1. IsFiniteSet(Procs)
    BY ProcsAssumption
  <1>2. /\ Parked \in SUBSET Procs
        /\ Queuers \in SUBSET Procs
        /\ SharedHolders \in SUBSET Procs
        /\ ExclusiveHolders \in SUBSET Procs
    BY DEF Parked, Queuers, SharedHolders, ExclusiveHolders
  <1>3. QED
    BY <1>1, <1>2, FS_Subset

\* Adding or removing one element changes a count by at most one.
LEMMA Counted ==
    ASSUME NEW S \in {Parked, Queuers, SharedHolders, ExclusiveHolders}, NEW p
    PROVE  /\ Cardinality(S) \in Nat
           /\ Cardinality(S) = 0 <=> S = {}
           /\ p \in S => Cardinality(S \ {p}) = Cardinality(S) - 1
           /\ p \notin S => Cardinality(S \cup {p}) = Cardinality(S) + 1
  <1>1. IsFiniteSet(S)
    BY FiniteSets
  <1>2. QED
    BY <1>1, FS_CardinalityType, FS_EmptySet, FS_AddElement, FS_RemoveElement

\* Whether process p at pc = at counts as a holder of the shared gate.
Inside(at, p, registered) == at \in InsideAt \/ (at \in Queueing /\ p \in registered)

\* One process moves: what happens to the four sets.
LEMMA Moved ==
    ASSUME TypeOK, NEW p \in Procs, NEW to \in PCs, Goto(p, to),
           \A q \in Procs \ {p} : q \in open' <=> q \in open
    PROVE  /\ pc'[p] = to /\ \A q \in Procs \ {p} : pc'[q] = pc[q]
           /\ to \in ParkedAt => Parked' = Parked \cup {p}
           /\ to \notin ParkedAt => Parked' = Parked \ {p}
           /\ (p \in Parked <=> to \in ParkedAt) => Parked' = Parked
           /\ to \notin Queueing \cup {"granted"} => Queuers' = Queuers \ {p}
           /\ to \in Queueing \cup {"granted"} => Queuers' = Queuers \cup {p}
           /\ (p \in Queuers <=> to \in Queueing \cup {"granted"}) => Queuers' = Queuers
           /\ to \in {"granted", "excl"} => ExclusiveHolders' = ExclusiveHolders \cup {p}
           /\ to \notin {"granted", "excl"} => ExclusiveHolders' = ExclusiveHolders \ {p}
           /\ (p \in ExclusiveHolders <=> to \in {"granted", "excl"})
                  => ExclusiveHolders' = ExclusiveHolders
           /\ Inside(to, p, open') => SharedHolders' = SharedHolders \cup {p}
           /\ ~Inside(to, p, open') => SharedHolders' = SharedHolders \ {p}
           /\ (p \in SharedHolders <=> Inside(to, p, open')) => SharedHolders' = SharedHolders
  <1>1. pc'[p] = to /\ \A q \in Procs \ {p} : pc'[q] = pc[q]
    BY DEF TypeOK, Goto
  <1>2. \A q \in Procs : q \in Parked' <=> IF q = p THEN to \in ParkedAt ELSE q \in Parked
    BY <1>1 DEF Parked
  <1>3. \A q \in Procs : q \in Queuers' <=> IF q = p THEN to \in Queueing \cup {"granted"}
                                            ELSE q \in Queuers
    BY <1>1 DEF Queuers
  <1>4. \A q \in Procs : q \in ExclusiveHolders' <=> IF q = p THEN to \in {"granted", "excl"}
                                                     ELSE q \in ExclusiveHolders
    BY <1>1 DEF ExclusiveHolders
  <1>5. \A q \in Procs : q \in SharedHolders' <=> IF q = p THEN Inside(to, p, open')
                                                  ELSE q \in SharedHolders
    BY <1>1 DEF SharedHolders, Inside
  <1>6. /\ Parked \subseteq Procs /\ Parked' \subseteq Procs
        /\ Queuers \subseteq Procs /\ Queuers' \subseteq Procs
        /\ ExclusiveHolders \subseteq Procs /\ ExclusiveHolders' \subseteq Procs
        /\ SharedHolders \subseteq Procs /\ SharedHolders' \subseteq Procs
    BY DEF Parked, Queuers, ExclusiveHolders, SharedHolders
  <1>7. /\ to \in ParkedAt => Parked' = Parked \cup {p}
        /\ to \notin ParkedAt => Parked' = Parked \ {p}
        /\ (p \in Parked <=> to \in ParkedAt) => Parked' = Parked
    BY <1>2, <1>6
  <1>8. /\ to \notin Queueing \cup {"granted"} => Queuers' = Queuers \ {p}
        /\ to \in Queueing \cup {"granted"} => Queuers' = Queuers \cup {p}
        /\ (p \in Queuers <=> to \in Queueing \cup {"granted"}) => Queuers' = Queuers
    BY <1>3, <1>6
  <1>9. /\ to \in {"granted", "excl"} => ExclusiveHolders' = ExclusiveHolders \cup {p}
        /\ to \notin {"granted", "excl"} => ExclusiveHolders' = ExclusiveHolders \ {p}
        /\ (p \in ExclusiveHolders <=> to \in {"granted", "excl"})
               => ExclusiveHolders' = ExclusiveHolders
    BY <1>4, <1>6
  <1>10. /\ Inside(to, p, open') => SharedHolders' = SharedHolders \cup {p}
         /\ ~Inside(to, p, open') => SharedHolders' = SharedHolders \ {p}
         /\ (p \in SharedHolders <=> Inside(to, p, open')) => SharedHolders' = SharedHolders
    BY <1>5, <1>6
  <1>11. QED
    BY <1>1, <1>7, <1>8, <1>9, <1>10

\* Where p is says which of the sets it is in.
LEMMA Whereabouts ==
    ASSUME NEW p \in Procs
    PROVE  /\ p \in Parked <=> pc[p] \in ParkedAt
           /\ p \in Queuers <=> pc[p] \in Queueing \cup {"granted"}
           /\ p \in ExclusiveHolders <=> pc[p] \in {"granted", "excl"}
           /\ p \in SharedHolders <=> Inside(pc[p], p, open)
  BY DEF Parked, Queuers, ExclusiveHolders, SharedHolders, Inside

\* After notify nobody who was parked sleeps on an open channel.
LEMMA Notified ==
    ASSUME CountsAgree, Waits, notify
    PROVE  /\ Parked \subseteq woken'
           /\ woken' \subseteq Parked
  <1>1. waiters = 0 => Parked = {}
    BY Counted DEF CountsAgree
  <1>2. QED
    BY <1>1 DEF notify, Waits

\* The counters are numbers in the next state because they count there.
LEMMA CounterTypes ==
    ASSUME CountsAgree'
    PROVE  shared' \in Nat /\ pending' \in Nat /\ waiters' \in Nat
  <1>1. /\ Parked' \in SUBSET Procs
        /\ Queuers' \in SUBSET Procs
        /\ SharedHolders' \in SUBSET Procs
    BY DEF Parked, Queuers, SharedHolders
  <1>2. IsFiniteSet(Parked') /\ IsFiniteSet(Queuers') /\ IsFiniteSet(SharedHolders')
    BY <1>1, ProcsAssumption, FS_Subset
  <1>3. QED
    BY <1>2, FS_CardinalityType DEF CountsAgree

\* A process that leaves wait is counted once less, if it was counted at all.
LEMMA Proceeded ==
    ASSUME TypeOK, CountsAgree, Waits, NEW p \in Procs, NEW to \in PCs \ ParkedAt, Proceed(p, to),
           \A q \in Procs \ {p} : q \in open' <=> q \in open
    PROVE  /\ waiters' = Cardinality(Parked')
           /\ Parked' = Parked \ {p}
           /\ woken' \subseteq Parked'
           /\ pc' \in [Procs -> PCs]
  <1>1. Parked' = Parked \ {p}
    BY Moved DEF Proceed
  <1>2. CASE p \in Parked
    BY <1>1, <1>2, Counted DEF Proceed, Unparked, CountsAgree, Waits, Goto, TypeOK
  <1>3. CASE p \notin Parked
    <2>1. Parked' = Parked
      BY <1>1, <1>3
    <2>2. QED
      BY <1>1, <1>3, <2>1 DEF Proceed, Unparked, CountsAgree, Waits, Goto, TypeOK
  <1>4. QED
    BY <1>2, <1>3

\* A process that goes to sleep is counted once more, unless it was counted before.
LEMMA ParkedAgain ==
    ASSUME TypeOK, CountsAgree, Waits, NEW p \in Procs, NEW at \in ParkedAt, park(p, at),
           \A q \in Procs \ {p} : q \in open' <=> q \in open
    PROVE  /\ waiters' = Cardinality(Parked')
           /\ Parked' = Parked \cup {p}
           /\ woken' = woken \ {p}
           /\ woken' \subseteq Parked'
           /\ pc' \in [Procs -> PCs]
  <1>1. at \in PCs
    BY DEF PCs
  <1>2. Parked' = Parked \cup {p}
    BY <1>1, Moved DEF park
  <1>3. CASE p \in Parked
    <2>1. Parked' = Parked
      BY <1>2, <1>3
    <2>2. waiters' = waiters
      BY <1>3 DEF park, Unparked, TypeOK
    <2>3. woken' = woken \ {p} /\ pc' \in [Procs -> PCs]
      BY <1>1 DEF park, Goto, TypeOK
    <2>4. QED
      BY <1>2, <2>1, <2>2, <2>3 DEF CountsAgree, Waits
  <1>4. CASE p \notin Parked
    BY <1>1, <1>2, <1>4, Counted DEF park, Unparked, CountsAgree, Waits, Goto, TypeOK
  <1>5. QED
    BY <1>3, <1>4

-----------------------------------------------------------------------------
(* The steps.                                                              *)

\* The shared gate is entered, or p goes to sleep in front of it.
LEMMA EnterSharedStep ==
    ASSUME IInv, NEW p \in Procs, EnterShared(p)
    PROVE  IInv'
  <1>1. /\ pc[p] \in {"out", "enterShared"}
        /\ p \notin open
        /\ p \in Parked <=> pc[p] = "enterShared"
        /\ p \notin ExclusiveHolders /\ p \notin Queuers /\ p \notin SharedHolders
    BY Whereabouts DEF IInv, EnterShared, AtDoor, Placed, ParkedAt, Queueing, Inside, InsideAt
  <1>2. UNCHANGED <<exclusive, pending, owner, depth, waiting, open, budget, quota>>
    BY DEF EnterShared, colVars, txVars
  <1>3. CASE ~exclusive /\ pending = 0 /\ shared' = shared + 1 /\ Proceed(p, "entered")
    <2>1. Goto(p, "entered") /\ "entered" \in PCs
      BY <1>3 DEF Proceed, PCs
    <2>2. /\ pc'[p] = "entered" /\ \A q \in Procs \ {p} : pc'[q] = pc[q]
          /\ Parked' = Parked \ {p} /\ Queuers' = Queuers
          /\ ExclusiveHolders' = ExclusiveHolders
          /\ SharedHolders' = SharedHolders \cup {p}
      BY <1>1, <1>2, <2>1, Moved DEF IInv, ParkedAt, Queueing, Inside, InsideAt
    <2>3. CountsAgree'
      BY <1>1, <1>2, <1>3, <2>2, Counted DEF IInv, CountsAgree, Proceed, Unparked
    <2>4. TypeOK'
      BY <1>2, <1>3, <2>1, <2>3, CounterTypes DEF IInv, TypeOK, Proceed, Goto
    <2>5. OneInside'
      BY <1>2, <1>3, <2>2 DEF IInv, CountsAgree, OneInside
    <2>6. Placed' /\ Waits' /\ NoOrphanLock'
      BY <1>1, <1>2, <1>3, <2>2 DEF IInv, Placed, Waits, NoOrphanLock, Proceed
    <2>7. NoLostWakeup'
      BY <1>2, <1>3, <2>2 DEF IInv, NoLostWakeup, Proceed, TypeOK, Parked
    <2>8. QED
      BY <2>3, <2>4, <2>5, <2>6, <2>7 DEF IInv
  <1>4. CASE (exclusive \/ pending > 0) /\ park(p, "enterShared") /\ UNCHANGED shared
    <2>1. Goto(p, "enterShared") /\ "enterShared" \in PCs
      BY <1>4 DEF park, PCs, ParkedAt
    <2>2. /\ pc'[p] = "enterShared" /\ \A q \in Procs \ {p} : pc'[q] = pc[q]
          /\ Parked' = Parked \cup {p} /\ Queuers' = Queuers
          /\ ExclusiveHolders' = ExclusiveHolders /\ SharedHolders' = SharedHolders
      BY <1>1, <1>2, <2>1, Moved DEF IInv, ParkedAt, Queueing, Inside, InsideAt
    <2>3. waiters' = Cardinality(Parked') /\ woken' = woken \ {p} /\ woken' \subseteq Parked'
      BY <1>2, <1>4, ParkedAgain DEF IInv, ParkedAt
    <2>4. CountsAgree'
      BY <1>2, <1>4, <2>2, <2>3 DEF IInv, CountsAgree
    <2>5. TypeOK'
      BY <1>2, <2>1, <2>3, <2>4, CounterTypes DEF IInv, TypeOK, Goto
    <2>6. OneInside' /\ Placed' /\ Waits' /\ NoOrphanLock'
      BY <1>1, <1>2, <2>2, <2>3 DEF IInv, OneInside, Placed, Waits, NoOrphanLock
    <2>7. NoLostWakeup'
      BY <1>2, <1>4, <2>2, <2>3 DEF IInv, NoLostWakeup, TypeOK, Parked
    <2>8. QED
      BY <2>4, <2>5, <2>6, <2>7 DEF IInv
  <1>5. QED
    BY <1>3, <1>4 DEF EnterShared

\* A transaction that gives up in front of the shared gate was never counted in it.
LEMMA EnterSharedTimeoutStep ==
    ASSUME IInv, NEW p \in Procs, EnterSharedTimeout(p)
    PROVE  IInv'
  <1>1. /\ pc[p] = "enterShared" /\ Proceed(p, "out") /\ Goto(p, "out")
        /\ "out" \in PCs /\ "out" \in PCs \ ParkedAt
    BY DEF EnterSharedTimeout, GiveUp, Proceed, PCs, ParkedAt
  <1>2. UNCHANGED <<exclusive, shared, pending, owner, depth, waiting, open, budget, quota>>
    BY DEF EnterSharedTimeout, gateVars, colVars, txVars
  <1>3. p \notin open /\ p \notin ExclusiveHolders /\ p \notin Queuers /\ p \notin SharedHolders
    BY <1>1, Whereabouts DEF IInv, Placed, ParkedAt, Queueing, Inside, InsideAt
  <1>4. /\ pc'[p] = "out" /\ \A q \in Procs \ {p} : pc'[q] = pc[q]
        /\ Queuers' = Queuers /\ ExclusiveHolders' = ExclusiveHolders
        /\ SharedHolders' = SharedHolders
    <2>1. ~Inside("out", p, open')
      BY DEF Inside, InsideAt, Queueing
    <2>2. Goto(p, "out") /\ "out" \in PCs
      BY <1>1
    <2>3. QED
      BY <1>2, <1>3, <2>1, <2>2, Moved DEF IInv, Queueing
  <1>5. /\ waiters' = Cardinality(Parked') /\ Parked' = Parked \ {p}
        /\ woken' \subseteq Parked' /\ pc' \in [Procs -> PCs]
    BY <1>1, <1>2, Proceeded DEF IInv
  <1>6. CountsAgree'
    BY <1>2, <1>4, <1>5 DEF IInv, CountsAgree
  <1>7. TypeOK'
    BY <1>2, <1>5, <1>6, CounterTypes DEF IInv, TypeOK, Parked
  <1>8. OneInside' /\ Placed' /\ Waits' /\ NoOrphanLock'
    BY <1>1, <1>2, <1>3, <1>4, <1>5 DEF IInv, OneInside, Placed, Waits, NoOrphanLock
  <1>9. NoLostWakeup'
    BY <1>1, <1>2, <1>4, <1>5 DEF IInv, NoLostWakeup, Proceed, Parked
  <1>10. QED
    BY <1>6, <1>7, <1>8, <1>9 DEF IInv

\* A quota is a number of pages that the budget still has.
LEMMA QuotaBounds ==
    ASSUME NEW b \in Nat
    PROVE  QuotaOf(b) \in 0 .. b
  <1>1. b \div MaxOpen \in Nat
    BY LimitsAssumption
  <1>2. QED
    BY <1>1, LimitsAssumption DEF QuotaOf

\* Registering happens inside the shared gate, so no checkpoint can be running.
LEMMA RegisterStep ==
    ASSUME IInv, NEW p \in Procs, Register(p)
    PROVE  IInv'
  <1>1. /\ pc[p] = "entered" /\ p \notin open /\ p \in SharedHolders /\ p \notin Parked
        /\ p \notin ExclusiveHolders /\ p \notin Queuers /\ ExclusiveHolders = {}
    BY Whereabouts DEF IInv, Register, Placed, OneInside, ParkedAt, Queueing, Inside, InsideAt
  <1>2. UNCHANGED <<exclusive, shared, pending, owner, depth, waiting, waiters, woken>>
    BY DEF Register, gateVars, colVars, parkVars
  <1>3. PICK to \in {"refused", "in"} :
            /\ Goto(p, to) /\ to \in PCs
            /\ to = "refused" => UNCHANGED txVars
            /\ to = "in" => /\ open' = open \cup {p}
                            /\ quota' = [quota EXCEPT ![p] = QuotaOf(budget)]
                            /\ budget' = budget - QuotaOf(budget)
    BY DEF Register, PCs
  <1>4. /\ pc'[p] = to /\ \A q \in Procs \ {p} : pc'[q] = pc[q]
        /\ Parked' = Parked /\ Queuers' = Queuers /\ ExclusiveHolders' = ExclusiveHolders
        /\ SharedHolders' = SharedHolders
    BY <1>1, <1>3, Moved DEF IInv, ParkedAt, Queueing, Inside, InsideAt, txVars
  <1>5. CountsAgree'
    BY <1>2, <1>4 DEF IInv, CountsAgree
  <1>6. TypeOK'
    BY <1>2, <1>3, QuotaBounds DEF IInv, TypeOK, Goto, txVars
  <1>7. OneInside' /\ Placed'
    BY <1>1, <1>3, <1>4 DEF IInv, OneInside, Placed, txVars
  <1>8. Waits' /\ NoOrphanLock' /\ NoLostWakeup'
    BY <1>1, <1>2, <1>3, <1>4 DEF IInv, Waits, NoOrphanLock, NoLostWakeup, Parked, txVars, TypeOK
  <1>9. QED
    BY <1>5, <1>6, <1>7, <1>8 DEF IInv

\* A transaction leaves the table only after all its locks: none is orphaned.
LEMMA DeregisterStep ==
    ASSUME IInv, NEW p \in Procs, Deregister(p)
    PROVE  IInv'
  <1>1. /\ pc[p] = "releasing" /\ p \in SharedHolders /\ p \notin Parked
        /\ p \notin ExclusiveHolders /\ p \notin Queuers /\ ExclusiveHolders = {}
    BY Whereabouts DEF IInv, Deregister, OneInside, ParkedAt, Queueing, Inside, InsideAt
  <1>2. UNCHANGED <<exclusive, shared, pending, owner, depth, waiting, waiters, woken>>
    BY DEF Deregister, gateVars, colVars, parkVars
  <1>3. /\ Goto(p, "released") /\ "released" \in PCs /\ open' = open \ {p}
        /\ quota' = [quota EXCEPT ![p] = 0] /\ budget' = budget + quota[p]
        /\ \A c \in Cols : owner[c] # p
    BY DEF Deregister, PCs
  <1>4. /\ pc'[p] = "released" /\ \A q \in Procs \ {p} : pc'[q] = pc[q]
        /\ Parked' = Parked /\ Queuers' = Queuers /\ ExclusiveHolders' = ExclusiveHolders
        /\ SharedHolders' = SharedHolders
    BY <1>1, <1>3, Moved DEF IInv, ParkedAt, Queueing, Inside, InsideAt
  <1>5. CountsAgree'
    BY <1>2, <1>4 DEF IInv, CountsAgree
  <1>6. TypeOK'
    BY <1>2, <1>3 DEF IInv, TypeOK, Goto
  <1>7. OneInside' /\ Placed'
    BY <1>1, <1>3, <1>4 DEF IInv, OneInside, Placed
  <1>8. Waits' /\ NoOrphanLock' /\ NoLostWakeup'
    BY <1>1, <1>2, <1>3, <1>4 DEF IInv, Waits, NoOrphanLock, NoLostWakeup, Parked, TypeOK
  <1>9. QED
    BY <1>5, <1>6, <1>7, <1>8 DEF IInv

\* The last one out wakes whoever waits for an empty gate.
LEMMA ExitSharedStep ==
    ASSUME IInv, NEW p \in Procs, ExitShared(p)
    PROVE  IInv'
  <1>1. /\ pc[p] \in {"released", "refused"} /\ p \notin open /\ p \in SharedHolders
        /\ p \notin Parked /\ p \notin ExclusiveHolders /\ p \notin Queuers
    BY Whereabouts DEF IInv, ExitShared, Placed, ParkedAt, Queueing, Inside, InsideAt
  <1>2. UNCHANGED <<exclusive, pending, owner, depth, waiting, waiters, open, budget, quota>>
    BY DEF ExitShared, colVars, txVars
  <1>3. PICK to \in {"committed", "out"} : Goto(p, to) /\ to \in PCs
    BY DEF ExitShared, PCs
  <1>4. /\ pc'[p] = to /\ \A q \in Procs \ {p} : pc'[q] = pc[q]
        /\ Parked' = Parked /\ Queuers' = Queuers /\ ExclusiveHolders' = ExclusiveHolders
        /\ SharedHolders' = SharedHolders \ {p}
    BY <1>1, <1>2, <1>3, Moved DEF IInv, ParkedAt, Queueing, Inside, InsideAt
  <1>5. CountsAgree'
    BY <1>1, <1>2, <1>4, Counted DEF IInv, CountsAgree, ExitShared
  <1>6. woken' \subseteq Parked /\ woken \subseteq woken' /\ (shared' = 0 => Parked \subseteq woken')
    BY Notified DEF IInv, ExitShared, Waits
  <1>7. TypeOK'
    BY <1>2, <1>3, <1>5, <1>6, CounterTypes DEF IInv, TypeOK, Goto, Parked
  <1>8. OneInside' /\ Placed'
    BY <1>1, <1>2, <1>3, <1>4 DEF IInv, OneInside, Placed
  <1>9. Waits' /\ NoOrphanLock'
    BY <1>1, <1>2, <1>3, <1>4, <1>6 DEF IInv, Waits, NoOrphanLock
  <1>10. NoLostWakeup'
    BY <1>1, <1>2, <1>4, <1>6, <1>7 DEF IInv, NoLostWakeup, Parked, TypeOK
  <1>11. QED
    BY <1>5, <1>7, <1>8, <1>9, <1>10 DEF IInv

\* Queueing for a checkpoint only adds to what holds newcomers back.
LEMMA QueueExclusiveStep ==
    ASSUME IInv, NEW p \in Procs, QueueExclusive(p)
    PROVE  IInv'
  <1>1. /\ pc[p] \in {"out", "in", "committed"}
        /\ p \in open <=> pc[p] = "in"
        /\ p \in SharedHolders <=> pc[p] = "in"
        /\ p \notin Parked /\ p \notin ExclusiveHolders /\ p \notin Queuers
    BY Whereabouts DEF IInv, QueueExclusive, Placed, ParkedAt, Queueing, Inside, InsideAt
  <1>2. UNCHANGED <<exclusive, shared, owner, depth, waiting, waiters, woken, open, budget, quota>>
    BY DEF QueueExclusive, colVars, parkVars, txVars
  <1>3. Goto(p, "queued") /\ "queued" \in PCs /\ pending' = pending + 1
    BY DEF QueueExclusive, PCs
  <1>4. /\ pc'[p] = "queued" /\ \A q \in Procs \ {p} : pc'[q] = pc[q]
        /\ Parked' = Parked /\ Queuers' = Queuers \cup {p} /\ ExclusiveHolders' = ExclusiveHolders
        /\ SharedHolders' = SharedHolders
    <2>1. Inside("queued", p, open') <=> p \in SharedHolders
      BY <1>1, <1>2 DEF Inside, InsideAt, Queueing
    <2>2. QED
      BY <1>1, <1>2, <1>3, <2>1, Moved DEF IInv, ParkedAt, Queueing
  <1>5. CountsAgree'
    BY <1>1, <1>2, <1>3, <1>4, Counted DEF IInv, CountsAgree
  <1>6. TypeOK'
    BY <1>2, <1>3 DEF IInv, TypeOK, Goto
  <1>7. OneInside' /\ Placed' /\ Waits' /\ NoOrphanLock'
    BY <1>1, <1>2, <1>3, <1>4 DEF IInv, OneInside, Placed, Waits, NoOrphanLock
  <1>8. NoLostWakeup'
    BY <1>1, <1>2, <1>3, <1>4 DEF IInv, NoLostWakeup, Parked, TypeOK
  <1>9. QED
    BY <1>5, <1>6, <1>7, <1>8 DEF IInv

\* An empty gate nobody holds exclusively: no transaction is open at all.
LEMMA EmptyGate ==
    ASSUME IInv, ~exclusive, shared = 0
    PROVE  SharedHolders = {} /\ ExclusiveHolders = {} /\ open = {}
  <1>1. SharedHolders = {} /\ ExclusiveHolders = {}
    BY Counted DEF IInv, CountsAgree
  <1>2. ASSUME NEW q \in open PROVE FALSE
    <2>1. q \in Procs /\ pc[q] \in PCs
      BY <1>2 DEF IInv, TypeOK
    <2>2. q \notin SharedHolders /\ q \notin ExclusiveHolders
      BY <1>1
    <2>3. QED
      BY <1>2, <2>1, <2>2 DEF IInv, Placed, PCs, ParkedAt, SharedHolders, ExclusiveHolders,
                              InsideAt, Queueing
  <1>3. QED
    BY <1>1, <1>2

\* The checkpoint gets an empty gate, or p goes to sleep in front of it.
LEMMA EnterExclusiveStep ==
    ASSUME IInv, NEW p \in Procs, EnterExclusive(p)
    PROVE  IInv'
  <1>1. /\ pc[p] \in {"queued", "enterExclusive"}
        /\ p \in Queuers /\ p \notin ExclusiveHolders
        /\ p \in SharedHolders <=> p \in open
    BY Whereabouts DEF IInv, EnterExclusive, AtDoor, Queueing, Inside, InsideAt
  <1>2. UNCHANGED <<shared, pending, owner, depth, waiting, open, budget, quota>>
    BY DEF EnterExclusive, colVars, txVars
  <1>3. CASE ~exclusive /\ shared = 0 /\ exclusive' = TRUE /\ Proceed(p, "granted")
    <2>1. Goto(p, "granted") /\ "granted" \in PCs /\ "granted" \in PCs \ ParkedAt
      BY <1>3 DEF Proceed, PCs, ParkedAt
    <2>2. SharedHolders = {} /\ ExclusiveHolders = {} /\ open = {}
      BY <1>3, EmptyGate
    <2>3. /\ pc'[p] = "granted" /\ \A q \in Procs \ {p} : pc'[q] = pc[q]
          /\ Queuers' = Queuers /\ ExclusiveHolders' = {p} /\ SharedHolders' = {}
      BY <1>1, <1>2, <2>1, <2>2, Moved DEF IInv, Inside, InsideAt, Queueing
    <2>4. /\ waiters' = Cardinality(Parked') /\ Parked' = Parked \ {p}
          /\ woken' \subseteq Parked' /\ pc' \in [Procs -> PCs]
      BY <1>2, <1>3, <2>1, Proceeded DEF IInv
    <2>5. CountsAgree'
      BY <1>2, <1>3, <2>2, <2>3, <2>4 DEF IInv, CountsAgree
    <2>6. TypeOK'
      BY <1>2, <1>3, <2>4, <2>5, CounterTypes DEF IInv, TypeOK, Parked
    <2>7. OneInside' /\ Placed' /\ Waits' /\ NoOrphanLock'
      BY <1>1, <1>2, <2>2, <2>3, <2>4 DEF IInv, OneInside, Placed, Waits, NoOrphanLock
    <2>8. NoLostWakeup'
      BY <1>2, <1>3, <2>3, <2>4 DEF IInv, NoLostWakeup, Proceed, Parked
    <2>9. QED
      BY <2>5, <2>6, <2>7, <2>8 DEF IInv
  <1>4. CASE (exclusive \/ shared > 0) /\ park(p, "enterExclusive") /\ UNCHANGED exclusive
    <2>1. Goto(p, "enterExclusive") /\ "enterExclusive" \in PCs /\ "enterExclusive" \in ParkedAt
      BY <1>4 DEF park, PCs, ParkedAt
    <2>2. Inside("enterExclusive", p, open') <=> p \in SharedHolders
      BY <1>1, <1>2 DEF Inside, InsideAt, Queueing
    <2>3. /\ pc'[p] = "enterExclusive" /\ \A q \in Procs \ {p} : pc'[q] = pc[q]
          /\ Queuers' = Queuers /\ ExclusiveHolders' = ExclusiveHolders
          /\ SharedHolders' = SharedHolders
      BY <1>1, <1>2, <2>1, <2>2, Moved DEF IInv, Queueing
    <2>4. /\ waiters' = Cardinality(Parked') /\ Parked' = Parked \cup {p}
          /\ woken' = woken \ {p} /\ woken' \subseteq Parked' /\ pc' \in [Procs -> PCs]
      BY <1>2, <1>4, <2>1, ParkedAgain DEF IInv
    <2>5. CountsAgree'
      BY <1>2, <1>4, <2>3, <2>4 DEF IInv, CountsAgree
    <2>6. TypeOK'
      BY <1>2, <1>4, <2>4, <2>5, CounterTypes DEF IInv, TypeOK, Parked
    <2>7. OneInside' /\ Placed' /\ Waits' /\ NoOrphanLock'
      BY <1>1, <1>2, <2>3, <2>4 DEF IInv, OneInside, Placed, Waits, NoOrphanLock
    <2>8. NoLostWakeup'
      BY <1>2, <1>4, <2>3, <2>4 DEF IInv, NoLostWakeup, Parked
    <2>9. QED
      BY <2>5, <2>6, <2>7, <2>8 DEF IInv
  <1>5. QED
    BY <1>3, <1>4 DEF EnterExclusive

\* Giving up is noticed in two steps: p stays in pending until SettleExclusive.
LEMMA EnterExclusiveTimeoutStep ==
    ASSUME IInv, NEW p \in Procs, EnterExclusiveTimeout(p)
    PROVE  IInv'
  <1>1. /\ pc[p] = "enterExclusive" /\ Proceed(p, "denied") /\ Goto(p, "denied")
        /\ "denied" \in PCs /\ "denied" \in PCs \ ParkedAt
    BY DEF EnterExclusiveTimeout, GiveUp, Proceed, PCs, ParkedAt
  <1>2. UNCHANGED <<exclusive, shared, pending, owner, depth, waiting, open, budget, quota>>
    BY DEF EnterExclusiveTimeout, gateVars, colVars, txVars
  <1>3. /\ p \in Queuers /\ p \notin ExclusiveHolders
        /\ Inside("denied", p, open') <=> p \in SharedHolders
    BY <1>1, <1>2, Whereabouts DEF Queueing, Inside, InsideAt
  <1>4. /\ pc'[p] = "denied" /\ \A q \in Procs \ {p} : pc'[q] = pc[q]
        /\ Queuers' = Queuers /\ ExclusiveHolders' = ExclusiveHolders
        /\ SharedHolders' = SharedHolders
    <2>1. Goto(p, "denied") /\ "denied" \in PCs
      BY <1>1
    <2>2. QED
      BY <1>2, <1>3, <2>1, Moved DEF IInv, Queueing
  <1>5. /\ waiters' = Cardinality(Parked') /\ Parked' = Parked \ {p}
        /\ woken' \subseteq Parked' /\ pc' \in [Procs -> PCs]
    BY <1>1, <1>2, Proceeded DEF IInv
  <1>6. CountsAgree'
    BY <1>2, <1>4, <1>5 DEF IInv, CountsAgree
  <1>7. TypeOK'
    BY <1>2, <1>5, <1>6, CounterTypes DEF IInv, TypeOK, Parked
  <1>8. OneInside' /\ Placed' /\ Waits' /\ NoOrphanLock'
    BY <1>1, <1>2, <1>3, <1>4, <1>5 DEF IInv, OneInside, Placed, Waits, NoOrphanLock
  <1>9. NoLostWakeup'
    BY <1>1, <1>2, <1>4, <1>5 DEF IInv, NoLostWakeup, Proceed, Parked
  <1>10. QED
    BY <1>6, <1>7, <1>8, <1>9 DEF IInv

\* Leaving the queue may free newcomers: then somebody has to wake them.
LEMMA SettleExclusiveStep ==
    ASSUME IInv, NEW p \in Procs, SettleExclusive(p)
    PROVE  IInv'
  <1>1. UNCHANGED <<exclusive, shared, owner, depth, waiting, waiters, open, budget, quota>>
    BY DEF SettleExclusive, colVars, txVars
  <1>2. pending' = pending - 1
    BY DEF SettleExclusive
  <1>3. CASE pc[p] = "granted" /\ Goto(p, "excl") /\ UNCHANGED woken
    <2>1. Goto(p, "excl") /\ "excl" \in PCs
      BY <1>3 DEF PCs
    <2>2. /\ p \in Queuers /\ p \in ExclusiveHolders /\ p \notin Parked /\ exclusive
          /\ p \notin SharedHolders
      BY <1>3, Whereabouts DEF IInv, CountsAgree, OneInside, Inside, InsideAt, Queueing, ParkedAt
    <2>3. /\ pc'[p] = "excl" /\ \A q \in Procs \ {p} : pc'[q] = pc[q]
          /\ Parked' = Parked /\ Queuers' = Queuers \ {p}
          /\ ExclusiveHolders' = ExclusiveHolders /\ SharedHolders' = SharedHolders
      BY <1>1, <2>1, <2>2, Moved DEF IInv, Inside, InsideAt, Queueing, ParkedAt
    <2>4. CountsAgree'
      BY <1>1, <1>2, <2>2, <2>3, Counted DEF IInv, CountsAgree
    <2>5. TypeOK'
      BY <1>1, <1>3, <2>1, <2>4, CounterTypes DEF IInv, TypeOK, Goto
    <2>6. OneInside' /\ Placed' /\ Waits' /\ NoOrphanLock'
      BY <1>1, <1>3, <2>3 DEF IInv, OneInside, Placed, Waits, NoOrphanLock
    <2>7. NoLostWakeup'
      BY <1>1, <1>3, <2>2, <2>3 DEF IInv, NoLostWakeup, Parked
    <2>8. QED
      BY <2>4, <2>5, <2>6, <2>7 DEF IInv
  <1>4. CASE pc[p] = "denied" /\ Goto(p, Back(p)) /\ notify
    <2>1. Back(p) \in PCs
      BY DEF Back, PCs
    <2>2. /\ p \in Queuers /\ p \notin ExclusiveHolders /\ p \notin Parked
          /\ Inside(Back(p), p, open') <=> p \in SharedHolders
          /\ Back(p) \notin ParkedAt /\ Back(p) \notin Queueing \cup {"granted"}
          /\ Back(p) \notin {"granted", "excl"}
      BY <1>1, <1>4, Whereabouts DEF Back, Inside, InsideAt, Queueing, ParkedAt
    <2>3. /\ pc'[p] = Back(p) /\ \A q \in Procs \ {p} : pc'[q] = pc[q]
          /\ Parked' = Parked /\ Queuers' = Queuers \ {p}
          /\ ExclusiveHolders' = ExclusiveHolders /\ SharedHolders' = SharedHolders
      BY <1>1, <1>4, <2>1, <2>2, Moved DEF IInv
    <2>4. CountsAgree'
      BY <1>1, <1>2, <2>2, <2>3, Counted DEF IInv, CountsAgree
    <2>5. Parked \subseteq woken' /\ woken' \subseteq Parked
      BY <1>4, Notified DEF IInv
    <2>6. TypeOK'
      BY <1>1, <1>4, <2>1, <2>4, <2>5, CounterTypes DEF IInv, TypeOK, Goto, Parked
    <2>7. OneInside' /\ Placed' /\ Waits' /\ NoOrphanLock'
      BY <1>1, <1>4, <2>3, <2>5 DEF IInv, OneInside, Placed, Waits, NoOrphanLock, Back
    <2>8. NoLostWakeup'
      BY <2>3, <2>5 DEF NoLostWakeup
    <2>9. QED
      BY <2>4, <2>6, <2>7, <2>8 DEF IInv
  <1>5. QED
    BY <1>3, <1>4 DEF SettleExclusive

\* The checkpoint after a commit takes an empty gate without queueing, or none.
LEMMA TryEnterExclusiveStep ==
    ASSUME IInv, NEW p \in Procs, TryEnterExclusive(p)
    PROVE  IInv'
  <1>1. /\ pc[p] = "committed" /\ p \notin open /\ p \notin SharedHolders
        /\ p \notin Parked /\ p \notin ExclusiveHolders /\ p \notin Queuers
    BY Whereabouts DEF IInv, TryEnterExclusive, Placed, ParkedAt, Queueing, Inside, InsideAt
  <1>2. UNCHANGED <<shared, pending, owner, depth, waiting, waiters, woken, open, budget, quota>>
    BY DEF TryEnterExclusive, colVars, parkVars, txVars
  <1>3. CASE ~exclusive /\ shared = 0 /\ exclusive' = TRUE /\ Goto(p, "excl")
    <2>1. "excl" \in PCs
      BY DEF PCs
    <2>2. SharedHolders = {} /\ ExclusiveHolders = {} /\ open = {}
      BY <1>3, EmptyGate
    <2>3. /\ pc'[p] = "excl" /\ \A q \in Procs \ {p} : pc'[q] = pc[q]
          /\ Parked' = Parked /\ Queuers' = Queuers
          /\ ExclusiveHolders' = {p} /\ SharedHolders' = SharedHolders
      BY <1>1, <1>2, <1>3, <2>1, <2>2, Moved DEF IInv, Inside, InsideAt, Queueing, ParkedAt
    <2>4. CountsAgree' /\ TypeOK'
      BY <1>2, <1>3, <2>1, <2>3 DEF IInv, CountsAgree, TypeOK, Goto
    <2>5. OneInside' /\ Placed' /\ Waits' /\ NoOrphanLock'
      BY <1>1, <1>2, <2>2, <2>3 DEF IInv, OneInside, Placed, Waits, NoOrphanLock
    <2>6. NoLostWakeup'
      BY <1>2, <1>3, <2>3 DEF IInv, NoLostWakeup, Parked
    <2>7. QED
      BY <2>4, <2>5, <2>6 DEF IInv
  <1>4. CASE Goto(p, "out") /\ UNCHANGED exclusive
    <2>1. "out" \in PCs
      BY DEF PCs
    <2>2. /\ pc'[p] = "out" /\ \A q \in Procs \ {p} : pc'[q] = pc[q]
          /\ Parked' = Parked /\ Queuers' = Queuers
          /\ ExclusiveHolders' = ExclusiveHolders /\ SharedHolders' = SharedHolders
      BY <1>1, <1>2, <1>4, <2>1, Moved DEF IInv, Inside, InsideAt, Queueing, ParkedAt
    <2>3. CountsAgree' /\ TypeOK'
      BY <1>2, <1>4, <2>1, <2>2 DEF IInv, CountsAgree, TypeOK, Goto
    <2>4. OneInside' /\ Placed' /\ Waits' /\ NoOrphanLock'
      BY <1>1, <1>2, <2>2 DEF IInv, OneInside, Placed, Waits, NoOrphanLock
    <2>5. NoLostWakeup'
      BY <1>2, <1>4, <2>2 DEF IInv, NoLostWakeup, Parked
    <2>6. QED
      BY <2>3, <2>4, <2>5 DEF IInv
  <1>5. QED
    BY <1>3, <1>4 DEF TryEnterExclusive

\* The end of a checkpoint wakes everybody the gate held back.
LEMMA ExitExclusiveStep ==
    ASSUME IInv, NEW p \in Procs, ExitExclusive(p)
    PROVE  IInv'
  <1>1. /\ pc[p] = "excl" /\ ExclusiveHolders = {p} /\ SharedHolders = {} /\ open = {}
        /\ p \notin Parked /\ p \notin Queuers
    BY Whereabouts DEF IInv, ExitExclusive, OneInside, ParkedAt, Queueing
  <1>2. /\ UNCHANGED <<shared, pending, owner, depth, waiting, waiters, open, budget, quota>>
        /\ exclusive' = FALSE
    BY DEF ExitExclusive, colVars, txVars
  <1>3. Goto(p, "out") /\ "out" \in PCs
    BY <1>1 DEF ExitExclusive, Back, PCs
  <1>4. /\ pc'[p] = "out" /\ \A q \in Procs \ {p} : pc'[q] = pc[q]
        /\ Parked' = Parked /\ Queuers' = Queuers
        /\ ExclusiveHolders' = {} /\ SharedHolders' = SharedHolders
    BY <1>1, <1>2, <1>3, Moved DEF IInv, Inside, InsideAt, Queueing, ParkedAt
  <1>5. CountsAgree'
    BY <1>2, <1>4 DEF IInv, CountsAgree
  <1>6. Parked \subseteq woken' /\ woken' \subseteq Parked
    BY Notified DEF IInv, ExitExclusive
  <1>7. TypeOK'
    BY <1>2, <1>3, <1>6 DEF IInv, TypeOK, Goto, Parked
  <1>8. OneInside' /\ Placed' /\ Waits' /\ NoOrphanLock'
    BY <1>1, <1>2, <1>4, <1>6 DEF IInv, OneInside, Placed, Waits, NoOrphanLock
  <1>9. NoLostWakeup'
    BY <1>4, <1>6 DEF NoLostWakeup
  <1>10. QED
    BY <1>5, <1>7, <1>8, <1>9 DEF IInv

\* A lock is taken, refused because of a ring, or waited for; whoever waits for a
\* lock that changes hands still waits for somebody else.
LEMMA EnterCollectionStep ==
    ASSUME IInv, NEW p \in Procs, NEW c \in Cols, EnterCollection(p, c)
    PROVE  IInv'
  <1>1. /\ pc[p] \in {"in", "enterCollection"} /\ p \in open /\ p \in SharedHolders
        /\ p \notin ExclusiveHolders /\ p \notin Queuers
    BY Whereabouts DEF IInv, EnterCollection, Placed, Queueing, Inside, InsideAt
  <1>2. UNCHANGED <<exclusive, shared, pending, open, budget, quota>>
    BY DEF EnterCollection, gateVars, txVars
  <1>3. CASE /\ Proceed(p, "in")
             /\ waiting' = [waiting EXCEPT ![p] = NoCol]
             /\ \/ /\ owner[c] \in {NoProc, p}
                   /\ owner' = [owner EXCEPT ![c] = p]
                   /\ depth' = [depth EXCEPT ![c] = @ + 1]
                \/ UNCHANGED <<owner, depth>>
    <2>1. Goto(p, "in") /\ "in" \in PCs /\ "in" \in PCs \ ParkedAt
      BY <1>3 DEF Proceed, PCs, ParkedAt
    <2>2. /\ pc'[p] = "in" /\ \A q \in Procs \ {p} : pc'[q] = pc[q]
          /\ Queuers' = Queuers /\ ExclusiveHolders' = ExclusiveHolders
          /\ SharedHolders' = SharedHolders
      BY <1>1, <1>2, <2>1, Moved DEF IInv, Inside, InsideAt, Queueing
    <2>3. /\ waiters' = Cardinality(Parked') /\ Parked' = Parked \ {p}
          /\ woken' \subseteq Parked' /\ pc' \in [Procs -> PCs]
      BY <1>2, <1>3, <2>1, Proceeded DEF IInv
    <2>4. CountsAgree'
      BY <1>2, <2>2, <2>3 DEF IInv, CountsAgree
    <2>5. TypeOK'
      <3>1. owner' \in [Cols -> Procs \cup {NoProc}] /\ depth' \in [Cols -> Nat]
        BY <1>3 DEF IInv, TypeOK
      <3>2. waiting' \in [Procs -> Cols \cup {NoCol}] /\ woken' \subseteq Procs
        BY <1>3, <2>3 DEF IInv, TypeOK, Parked
      <3>3. QED
        BY <1>2, <2>3, <2>4, <3>1, <3>2, CounterTypes DEF IInv, TypeOK
    <2>6. OneInside' /\ Placed' /\ Waits'
      BY <1>1, <1>2, <1>3, <2>2, <2>3 DEF IInv, OneInside, Placed, Waits, TypeOK
    <2>7. NoOrphanLock'
      BY <1>1, <1>2, <1>3, ProcsAssumption DEF IInv, NoOrphanLock, TypeOK
    <2>8. NoLostWakeup'
      <3> SUFFICES ASSUME NEW q \in Parked' \ woken'
                   PROVE  /\ pc'[q] = "enterShared" => exclusive' \/ pending' > 0
                          /\ pc'[q] = "enterExclusive" => exclusive' \/ shared' > 0
                          /\ pc'[q] = "enterCollection" => owner'[waiting'[q]] \notin {NoProc, q}
        BY DEF NoLostWakeup
      <3>1. q \in Procs \ {p} /\ q \in Parked \ woken /\ pc'[q] = pc[q] /\ waiting'[q] = waiting[q]
        BY <1>3, <2>2, <2>3 DEF IInv, TypeOK, Proceed, Parked
      <3>2. /\ pc'[q] = "enterShared" => exclusive' \/ pending' > 0
            /\ pc'[q] = "enterExclusive" => exclusive' \/ shared' > 0
        BY <1>2, <3>1 DEF IInv, NoLostWakeup
      <3>3. pc'[q] = "enterCollection" => owner'[waiting'[q]] \notin {NoProc, q}
        <4>1. pc[q] = "enterCollection" =>
                  waiting[q] \in Cols /\ owner[waiting[q]] \notin {NoProc, q}
          BY <3>1 DEF IInv, NoLostWakeup, Waits, TypeOK
        <4>2. QED
          BY <1>3, <3>1, <4>1, ProcsAssumption DEF IInv, TypeOK
      <3>4. QED
        BY <3>2, <3>3
    <2>9. QED
      BY <2>4, <2>5, <2>6, <2>7, <2>8 DEF IInv
  <1>4. CASE /\ owner[c] \notin {NoProc, p}
             /\ waiting' = [waiting EXCEPT ![p] = c]
             /\ park(p, "enterCollection")
             /\ UNCHANGED <<owner, depth>>
    <2>1. Goto(p, "enterCollection") /\ "enterCollection" \in PCs /\ "enterCollection" \in ParkedAt
      BY <1>4 DEF park, PCs, ParkedAt
    <2>2. /\ pc'[p] = "enterCollection" /\ \A q \in Procs \ {p} : pc'[q] = pc[q]
          /\ Queuers' = Queuers /\ ExclusiveHolders' = ExclusiveHolders
          /\ SharedHolders' = SharedHolders
      BY <1>1, <1>2, <2>1, Moved DEF IInv, Inside, InsideAt, Queueing
    <2>3. /\ waiters' = Cardinality(Parked') /\ Parked' = Parked \cup {p}
          /\ woken' = woken \ {p} /\ woken' \subseteq Parked' /\ pc' \in [Procs -> PCs]
      BY <1>2, <1>4, <2>1, ParkedAgain DEF IInv
    <2>4. CountsAgree'
      BY <1>2, <2>2, <2>3 DEF IInv, CountsAgree
    <2>5. TypeOK'
      BY <1>2, <1>4, <2>3, <2>4, CounterTypes DEF IInv, TypeOK, Parked
    <2>6. OneInside' /\ Placed' /\ NoOrphanLock'
      BY <1>1, <1>2, <1>4, <2>2 DEF IInv, OneInside, Placed, NoOrphanLock
    <2>7. Waits'
      BY <1>4, <2>2, <2>3, ColsAssumption DEF IInv, Waits, TypeOK
    <2>8. NoLostWakeup'
      BY <1>2, <1>4, <2>2, <2>3 DEF IInv, NoLostWakeup, Parked, TypeOK
    <2>9. QED
      BY <2>4, <2>5, <2>6, <2>7, <2>8 DEF IInv
  <1>5. QED
    BY <1>3, <1>4 DEF EnterCollection

\* A transaction whose context ends while it waits goes on without the lock.
LEMMA EnterCollectionTimeoutStep ==
    ASSUME IInv, NEW p \in Procs, EnterCollectionTimeout(p)
    PROVE  IInv'
  <1>1. /\ pc[p] = "enterCollection" /\ Proceed(p, "in") /\ Goto(p, "in")
        /\ "in" \in PCs /\ "in" \in PCs \ ParkedAt
        /\ waiting' = [waiting EXCEPT ![p] = NoCol]
    BY DEF EnterCollectionTimeout, GiveUp, Proceed, PCs, ParkedAt
  <1>2. UNCHANGED <<exclusive, shared, pending, owner, depth, open, budget, quota>>
    BY DEF EnterCollectionTimeout, gateVars, txVars
  <1>3. /\ p \in open /\ p \in SharedHolders /\ p \notin ExclusiveHolders /\ p \notin Queuers
    BY <1>1, Whereabouts DEF IInv, Placed, Queueing, Inside, InsideAt
  <1>4. /\ pc'[p] = "in" /\ \A q \in Procs \ {p} : pc'[q] = pc[q]
        /\ Queuers' = Queuers /\ ExclusiveHolders' = ExclusiveHolders
        /\ SharedHolders' = SharedHolders
    <2>1. Inside("in", p, open')
      BY DEF Inside, InsideAt
    <2>2. Goto(p, "in") /\ "in" \in PCs
      BY <1>1
    <2>3. QED
      BY <1>2, <1>3, <2>1, <2>2, Moved DEF IInv, Queueing
  <1>5. /\ waiters' = Cardinality(Parked') /\ Parked' = Parked \ {p}
        /\ woken' \subseteq Parked' /\ pc' \in [Procs -> PCs]
    BY <1>1, <1>2, Proceeded DEF IInv
  <1>6. CountsAgree'
    BY <1>2, <1>4, <1>5 DEF IInv, CountsAgree
  <1>7. TypeOK'
    BY <1>1, <1>2, <1>5, <1>6, CounterTypes DEF IInv, TypeOK, Parked
  <1>8. OneInside' /\ Placed' /\ Waits' /\ NoOrphanLock'
    BY <1>1, <1>2, <1>3, <1>4, <1>5 DEF IInv, OneInside, Placed, Waits, NoOrphanLock, TypeOK
  <1>9. NoLostWakeup'
    BY <1>1, <1>2, <1>4, <1>5 DEF IInv, NoLostWakeup, Proceed, Parked, TypeOK
  <1>10. QED
    BY <1>6, <1>7, <1>8, <1>9 DEF IInv

\* Ending a transaction starts inside the gate and stays there.
LEMMA FinishStep ==
    ASSUME IInv, NEW p \in Procs, Finish(p)
    PROVE  IInv'
  <1>1. /\ pc[p] = "in" /\ p \in open /\ p \in SharedHolders /\ p \notin Parked
        /\ p \notin ExclusiveHolders /\ p \notin Queuers
    BY Whereabouts DEF IInv, Finish, Placed, ParkedAt, Queueing, Inside, InsideAt
  <1>2. UNCHANGED <<exclusive, shared, pending, owner, depth, waiting, waiters, woken,
                    open, budget, quota>>
    BY DEF Finish, gateVars, colVars, parkVars, txVars
  <1>3. Goto(p, "releasing") /\ "releasing" \in PCs
    BY DEF Finish, PCs
  <1>4. /\ pc'[p] = "releasing" /\ \A q \in Procs \ {p} : pc'[q] = pc[q]
        /\ Parked' = Parked /\ Queuers' = Queuers /\ ExclusiveHolders' = ExclusiveHolders
        /\ SharedHolders' = SharedHolders
    BY <1>1, <1>2, <1>3, Moved DEF IInv, ParkedAt, Queueing, Inside, InsideAt
  <1>5. CountsAgree' /\ TypeOK'
    BY <1>2, <1>3, <1>4 DEF IInv, CountsAgree, TypeOK, Goto
  <1>6. OneInside' /\ Placed' /\ Waits' /\ NoOrphanLock' /\ NoLostWakeup'
    BY <1>1, <1>2, <1>4 DEF IInv, OneInside, Placed, Waits, NoOrphanLock, NoLostWakeup, Parked
  <1>7. QED
    BY <1>5, <1>6 DEF IInv

\* Only the exit that matches the first entrance frees the lock, and wakes.
LEMMA ExitCollectionStep ==
    ASSUME IInv, NEW p \in Procs, NEW c \in Cols, ExitCollection(p, c)
    PROVE  IInv'
  <1>1. /\ pc[p] \in {"in", "releasing"} /\ p \in open /\ owner[c] = p
        /\ depth' = [depth EXCEPT ![c] = @ - 1]
    BY DEF IInv, ExitCollection, Placed
  <1>2. UNCHANGED <<exclusive, shared, pending, waiting, waiters, open, budget, quota, pc>>
    BY DEF ExitCollection, gateVars, txVars
  <1>3. /\ Parked' = Parked /\ Queuers' = Queuers
        /\ ExclusiveHolders' = ExclusiveHolders /\ SharedHolders' = SharedHolders
    BY <1>2 DEF Parked, Queuers, ExclusiveHolders, SharedHolders
  <1>4. CountsAgree'
    BY <1>2, <1>3 DEF IInv, CountsAgree
  <1>5. OneInside' /\ Placed'
    BY <1>2, <1>3 DEF IInv, OneInside, Placed
  <1>6. CASE depth[c] > 1 /\ UNCHANGED <<owner, woken>>
    <2>1. TypeOK'
      BY <1>1, <1>2, <1>6 DEF IInv, TypeOK
    <2>2. NoOrphanLock'
      BY <1>1, <1>2, <1>6, ProcsAssumption DEF IInv, NoOrphanLock, TypeOK
    <2>3. Waits' /\ NoLostWakeup'
      BY <1>2, <1>3, <1>6 DEF IInv, Waits, NoLostWakeup
    <2>4. QED
      BY <1>4, <1>5, <2>1, <2>2, <2>3 DEF IInv
  <1>7. CASE depth[c] = 1 /\ owner' = [owner EXCEPT ![c] = NoProc] /\ notify
    <2>1. Parked \subseteq woken' /\ woken' \subseteq Parked
      BY <1>7, Notified DEF IInv
    <2>2. TypeOK'
      BY <1>1, <1>2, <1>7, <2>1 DEF IInv, TypeOK, Parked
    <2>3. NoOrphanLock'
      BY <1>1, <1>2, <1>7 DEF IInv, NoOrphanLock, TypeOK
    <2>4. Waits' /\ NoLostWakeup'
      BY <1>2, <1>3, <2>1 DEF IInv, Waits, NoLostWakeup
    <2>5. QED
      BY <1>4, <1>5, <2>2, <2>3, <2>4 DEF IInv
  <1>8. QED
    BY <1>6, <1>7 DEF ExitCollection

-----------------------------------------------------------------------------
(* The invariant and what follows from it.                                 *)

\* A service just opened: nobody inside, nobody parked, all counters zero.
LEMMA InitIInv == Init => IInv
  <1> SUFFICES ASSUME Init PROVE IInv
    OBVIOUS
  <1>1. /\ Parked = {} /\ Queuers = {} /\ ExclusiveHolders = {} /\ SharedHolders = {}
    BY DEF Init, Parked, Queuers, ExclusiveHolders, SharedHolders, ParkedAt, Queueing, InsideAt
  <1>2. CountsAgree
    BY <1>1, FS_EmptySet DEF Init, CountsAgree
  <1>3. TypeOK
    BY LimitsAssumption DEF Init, TypeOK, PCs
  <1>4. OneInside /\ Placed /\ NoOrphanLock /\ Waits /\ NoLostWakeup
    BY <1>1 DEF Init, OneInside, Placed, NoOrphanLock, Waits, NoLostWakeup
  <1>5. QED
    BY <1>2, <1>3, <1>4 DEF IInv

\* Every step of every goroutine, and every stutter, keeps the invariant.
LEMMA StepKeepsIInv == IInv /\ [Next]_vars => IInv'
  <1> SUFFICES ASSUME IInv, [Next]_vars PROVE IInv'
    OBVIOUS
  <1>1. CASE UNCHANGED vars
    BY <1>1 DEF vars, gateVars, colVars, parkVars, txVars, IInv, TypeOK, CountsAgree, OneInside,
                Placed, NoOrphanLock, Waits, NoLostWakeup, Parked, Queuers, SharedHolders,
                ExclusiveHolders
  <1>2. ASSUME NEW p \in Procs, Step(p) PROVE IInv'
    <2>1. CASE \E c \in Cols : EnterCollection(p, c) \/ ExitCollection(p, c)
      BY <2>1, EnterCollectionStep, ExitCollectionStep
    <2>2. CASE Timeout(p)
      BY <2>2, EnterSharedTimeoutStep, EnterExclusiveTimeoutStep, EnterCollectionTimeoutStep
         DEF Timeout
    <2>3. QED
      BY <1>2, <2>1, <2>2, EnterSharedStep, RegisterStep, DeregisterStep, ExitSharedStep,
         QueueExclusiveStep, EnterExclusiveStep, SettleExclusiveStep, TryEnterExclusiveStep,
         ExitExclusiveStep, FinishStep DEF Step
  <1>3. QED
    BY <1>1, <1>2 DEF Next

\* The invariant holds in every reachable state.
THEOREM Invariant == Spec => []IInv
  BY InitIInv, StepKeepsIInv, PTL DEF Spec

\* Counters, lock table and processes keep their types: no count goes below zero.
THEOREM TypesHold == Spec => []TypeOK
  <1>1. IInv => TypeOK
    BY DEF IInv
  <1>2. QED
    BY <1>1, Invariant, PTL

\* The counters under the mutex count exactly the processes they stand for.
THEOREM CountsHold == Spec => []CountsAgree
  <1>1. IInv => CountsAgree
    BY DEF IInv
  <1>2. QED
    BY <1>1, Invariant, PTL

\* Checkpoints exclude each other and every open transaction.
THEOREM GateExcludes == Spec => []GateExclusion
  <1>1. ASSUME IInv PROVE GateExclusion
    <2>1. ExclusiveHolders # {} => \E p \in ExclusiveHolders : ExclusiveHolders = {p}
      BY <1>1 DEF IInv, OneInside
    <2>2. Cardinality(ExclusiveHolders) <= 1
      <3>1. CASE ExclusiveHolders = {}
        BY <3>1, FS_EmptySet
      <3>2. CASE ExclusiveHolders # {}
        <4>1. PICK p : ExclusiveHolders = {p}
          BY <2>1, <3>2
        <4>2. Cardinality({p}) = 1
          BY FS_Singleton
        <4>3. QED
          BY <4>1, <4>2
      <3>3. QED
        BY <3>1, <3>2
    <2>3. QED
      BY <1>1, <2>2 DEF IInv, OneInside, GateExclusion
  <1>2. QED
    BY <1>1, Invariant, PTL

\* No transaction leaves a collection lock behind, however it ends.
THEOREM NoLockIsOrphaned == Spec => []NoOrphanLock
  <1>1. IInv => NoOrphanLock
    BY DEF IInv
  <1>2. QED
    BY <1>1, Invariant, PTL

\* No wakeup is lost: whoever sleeps unnoticed still has a reason to sleep.
THEOREM NoWakeupIsLost == Spec => []NoLostWakeup
  <1>1. IInv => NoLostWakeup
    BY DEF IInv
  <1>2. QED
    BY <1>1, Invariant, PTL

-----------------------------------------------------------------------------
(* Induction, as the existence of a least element.                         *)

\* A set of naturals that is not empty has a least element.
LEMMA LeastNatural ==
    ASSUME NEW X \in SUBSET Nat, X # {}
    PROVE  \E n \in X : \A m \in X : n <= m
  <1> DEFINE T == {0 .. n : n \in X}
  <1>1. ASSUME NEW n \in X PROVE 0 .. n \in FiniteSubsetsOf(Nat)
    <2>1. IsFiniteSet(0 .. n) /\ 0 .. n \in SUBSET Nat
      BY FS_Interval
    <2>2. QED
      BY <2>1 DEF FiniteSubsetsOf
  <1>2. T \subseteq FiniteSubsetsOf(Nat) /\ T # {}
    BY <1>1
  <1>3. \E x \in T : \A y \in T : ~ (<<y, x>> \in StrictSubsetOrdering(Nat))
    BY <1>2, FS_StrictSubsetOrderingWellFounded, WFMin
  <1>4. PICK n \in X : \A m \in X : ~ (<<0 .. m, 0 .. n>> \in StrictSubsetOrdering(Nat))
    BY <1>3
  <1>5. ASSUME NEW m \in X, m < n PROVE FALSE
    <2>1. /\ 0 .. m \subseteq 0 .. n /\ 0 .. m # 0 .. n
          /\ 0 .. m \in SUBSET Nat /\ 0 .. n \in SUBSET Nat
      BY <1>5
    <2>2. QED
      BY <1>4, <2>1 DEF StrictSubsetOrdering
  <1>6. QED
    BY <1>5

\* A set of naturals that holds 0 and the successor of each member holds them all.
LEMMA AllNaturals ==
    ASSUME NEW X \in SUBSET Nat, 0 \in X, \A n \in X : n + 1 \in X
    PROVE  X = Nat
  <1> SUFFICES ASSUME Nat \ X # {} PROVE FALSE
    OBVIOUS
  <1>1. PICK n \in Nat \ X : \A m \in Nat \ X : n <= m
    BY LeastNatural
  <1>2. n - 1 \in Nat /\ n - 1 \in X
    BY <1>1
  <1>3. QED
    BY <1>1, <1>2

\* A walk along a function, as a function of the number of steps.
Walks(next, h, w) == w[0] = h /\ \A n \in Nat : w[n + 1] = next[w[n]]

\* There is one, for any number of steps.
LEMMA WalkExists ==
    ASSUME NEW D, NEW next \in [D -> D], NEW h \in D
    PROVE  \E w \in [Nat -> D] : Walks(next, h, w)
  <1> DEFINE Upto(n, w) == w[0] = h /\ \A i \in 0 .. n - 1 : w[i + 1] = next[w[i]]
             X == {n \in Nat : \E w \in [Nat -> D] : Upto(n, w)}
             Y(v, w, n) == {i \in Nat : i <= n => v[i] = w[i]}
  <1>1. X = Nat
    <2>1. 0 \in X
      <3>1. [i \in Nat |-> h] \in [Nat -> D] /\ Upto(0, [i \in Nat |-> h])
        OBVIOUS
      <3>2. QED
        BY <3>1
    <2>2. ASSUME NEW n \in X PROVE n + 1 \in X
      <3>1. PICK w \in [Nat -> D] : Upto(n, w)
        OBVIOUS
      <3> DEFINE v == [w EXCEPT ![n + 1] = next[w[n]]]
      <3>2. v \in [Nat -> D] /\ n + 1 \in Nat
        OBVIOUS
      <3>3. Upto(n + 1, v)
        BY <3>1
      <3>4. QED
        BY <3>2, <3>3
    <2>3. QED
      BY <2>1, <2>2, AllNaturals
  <1>2. ASSUME NEW n \in Nat, NEW v \in [Nat -> D], NEW w \in [Nat -> D], Upto(n, v), Upto(n, w)
        PROVE  \A i \in 0 .. n : v[i] = w[i]
    <2>1. 0 \in Y(v, w, n) /\ \A i \in Y(v, w, n) : i + 1 \in Y(v, w, n)
      BY <1>2
    <2>2. Y(v, w, n) = Nat
      BY <2>1, AllNaturals
    <2>3. QED
      BY <2>2
  <1> DEFINE best[n \in Nat] == CHOOSE w \in [Nat -> D] : Upto(n, w)
             walk == [n \in Nat |-> best[n][n]]
  <1>3. ASSUME NEW n \in Nat PROVE best[n] \in [Nat -> D] /\ Upto(n, best[n])
    <2>1. \E w \in [Nat -> D] : Upto(n, w)
      BY <1>1
    <2>2. QED
      BY <2>1
  <1> HIDE DEF X, Y, best
  <1>4. walk \in [Nat -> D]
    BY <1>3
  <1>5. walk[0] = h
    BY <1>3
  <1>6. ASSUME NEW n \in Nat PROVE walk[n + 1] = next[walk[n]]
    <2>1. n + 1 \in Nat /\ Upto(n + 1, best[n + 1]) /\ best[n + 1] \in [Nat -> D]
      BY <1>3
    <2>2. Upto(n, best[n + 1])
      BY <2>1
    <2>3. best[n] \in [Nat -> D] /\ Upto(n, best[n])
      BY <1>3
    <2>4. \A i \in 0 .. n : best[n + 1][i] = best[n][i]
      BY <1>2, <2>1, <2>2, <2>3, Zenon
    <2>5. best[n + 1][n] = best[n][n] /\ best[n + 1][n + 1] = next[best[n + 1][n]]
      BY <2>1, <2>4
    <2>6. QED
      BY <2>1, <2>5
  <1>7. QED
    BY <1>4, <1>5, <1>6 DEF Walks

-----------------------------------------------------------------------------
(* No ring of waiters.                                                     *)

\* The walk of wouldCycle, from one waiter to the owner of what it waits for.
LEMMA ChainFollows ==
    ASSUME TypeOK, NEW h \in Procs \cup {NoProc}
    PROVE  /\ Chain(h)[0] = h
           /\ \A n \in Nat : Chain(h)[n + 1] =
                  IF Chain(h)[n] = NoProc \/ waiting[Chain(h)[n]] = NoCol THEN NoProc
                  ELSE owner[waiting[Chain(h)[n]]]
  <1> DEFINE D == Procs \cup {NoProc}
             next == [q \in D |-> IF q = NoProc \/ waiting[q] = NoCol THEN NoProc
                                  ELSE owner[waiting[q]]]
             Rec(w) == [n \in Nat |-> IF n = 0 THEN h
                                      ELSE IF w[n - 1] = NoProc \/ waiting[w[n - 1]] = NoCol THEN NoProc
                                      ELSE owner[waiting[w[n - 1]]]]
  <1>1. next \in [D -> D]
    BY DEF TypeOK
  <1>2. PICK w \in [Nat -> D] : Walks(next, h, w)
    BY <1>1, WalkExists
  <1>3. ASSUME NEW n \in Nat PROVE w[n] = Rec(w)[n]
    <2>1. CASE n = 0
      BY <1>2, <2>1 DEF Walks
    <2>2. CASE n # 0
      <3>1. n - 1 \in Nat /\ (n - 1) + 1 = n
        BY <2>2
      <3>2. w[n - 1] \in D /\ w[n] = next[w[n - 1]]
        BY <1>2, <3>1 DEF Walks
      <3>3. QED
        BY <2>2, <3>2
    <2>3. QED
      BY <2>1, <2>2
  <1>4. w = Rec(w)
    BY <1>3
  <1>5. Chain(h) = Rec(Chain(h))
    BY <1>4 DEF Chain
  <1> HIDE DEF next
  <1>6. ASSUME NEW n \in Nat PROVE Chain(h)[n] = Rec(Chain(h))[n]
    BY <1>5
  <1>7. ASSUME NEW n \in Nat
        PROVE  Chain(h)[n + 1] = IF Chain(h)[n] = NoProc \/ waiting[Chain(h)[n]] = NoCol THEN NoProc
                                 ELSE owner[waiting[Chain(h)[n]]]
    <2>1. n + 1 \in Nat /\ n + 1 # 0 /\ (n + 1) - 1 = n
      OBVIOUS
    <2>2. Chain(h)[n + 1] = Rec(Chain(h))[n + 1]
      BY <1>6, <2>1
    <2>3. QED
      BY <2>1, <2>2
  <1>8. QED
    BY <1>6, <1>7

\* Nobody begins to wait, and a lock that changes hands goes to somebody who runs:
\* no ring comes about.
LEMMA NoRingByRelease ==
    ASSUME IInv, NoWaitRing,
           \A q \in Procs : pc'[q] = "enterCollection" =>
               /\ pc[q] = "enterCollection" /\ waiting'[q] = waiting[q]
               /\ \/ owner'[waiting[q]] = owner[waiting[q]]
                  \/ owner'[waiting[q]] = NoProc
                  \/ pc'[owner'[waiting[q]]] # "enterCollection"
    PROVE  NoWaitRing'
  <1> SUFFICES ASSUME NEW S \in (SUBSET Procs) \ {{}},
                      \A q \in S : pc'[q] = "enterCollection" /\ owner'[waiting'[q]] \in S
               PROVE  FALSE
    BY DEF NoWaitRing
  <1>1. ASSUME NEW q \in S PROVE pc[q] = "enterCollection" /\ owner[waiting[q]] \in S
    BY ProcsAssumption
  <1>2. QED
    BY <1>1 DEF NoWaitRing

\* A transaction parks for a lock whose owner does not wait for it, however far the
\* walk of wouldCycle looks: the walk is long enough to have met every ring.
LEMMA NoRingByParking ==
    ASSUME IInv, NoWaitRing, NEW p \in Procs, NEW c \in Cols,
           owner[c] \notin {NoProc, p}, ~wouldCycle(p, owner[c]),
           waiting' = [waiting EXCEPT ![p] = c], owner' = owner,
           \A q \in Procs \ {p} : pc'[q] = pc[q]
    PROVE  NoWaitRing'
  <1> DEFINE h == owner[c]
             W == {q \in Procs : waiting[q] # NoCol}
             K == Cardinality(W) + 1
             at(n) == Chain(h)[n]
  <1>1. h \in Procs /\ waiting \in [Procs -> Cols \cup {NoCol}] /\ TypeOK
    BY DEF IInv, TypeOK
  <1>2. IsFiniteSet(W) /\ Cardinality(W) \in Nat /\ K \in Nat
    <2>1. IsFiniteSet(W)
      BY ProcsAssumption, FS_Subset, W \in SUBSET Procs
    <2>2. QED
      BY <2>1, FS_CardinalityType
  <1>3. \A n \in 0 .. K : at(n) # p
    BY DEF wouldCycle
  <1>4. /\ at(0) = h
        /\ \A n \in Nat : at(n) \in Procs /\ waiting[at(n)] # NoCol => at(n + 1) = owner[waiting[at(n)]]
    BY <1>1, ChainFollows, ProcsAssumption
  <1> SUFFICES ASSUME NEW S \in (SUBSET Procs) \ {{}},
                      \A q \in S : pc'[q] = "enterCollection" /\ owner'[waiting'[q]] \in S
               PROVE  FALSE
    BY DEF NoWaitRing
  <1> HIDE DEF at, K
  <1>5. ASSUME NEW q \in S \ {p}
        PROVE  /\ pc[q] = "enterCollection" /\ waiting[q] # NoCol /\ owner[waiting[q]] \in S
    BY <1>1 DEF IInv, Waits
  <1>6. p \in S
    BY <1>5 DEF NoWaitRing
  <1>7. h \in S
    BY <1>1, <1>6
  <1>8. \A n \in 0 .. K : at(n) \in S \ {p}
    <2> DEFINE X == {n \in Nat : n <= K => at(n) \in S}
    <2>1. 0 \in X
      BY <1>4, <1>7
    <2>2. ASSUME NEW n \in X PROVE n + 1 \in X
      <3>1. CASE n + 1 <= K
        <4>1. n \in 0 .. K /\ at(n) \in S \ {p}
          BY <1>2, <1>3, <3>1
        <4>2. at(n + 1) \in S
          BY <1>4, <1>5, <4>1
        <4>3. QED
          BY <4>2
      <3>2. QED
        BY <1>2, <3>1
    <2>3. X = Nat
      BY <2>1, <2>2, AllNaturals
    <2>4. QED
      BY <1>3, <2>3
  <1> DEFINE steps == [n \in 0 .. K |-> at(n)]
  <1>9. PICK i \in 0 .. K, j \in 0 .. K : i < j /\ at(i) = at(j)
    <2>1. IsFiniteSet(0 .. K) /\ Cardinality(0 .. K) = K + 1
      BY <1>2, FS_Interval
    <2>2. Cardinality(W) < Cardinality(0 .. K)
      BY <1>2, <2>1 DEF K
    <2>3. steps \in [0 .. K -> W]
      BY <1>5, <1>8
    <2>4. \E x, y \in 0 .. K : x # y /\ steps[x] = steps[y]
      <3> HIDE DEF steps, W
      <3>1. QED
        BY <1>2, <2>1, <2>2, <2>3, FS_PigeonHole
    <2>5. PICK x \in 0 .. K, y \in 0 .. K : x # y /\ at(x) = at(y)
      BY <2>4
    <2>6. QED
      BY <1>2, <2>5
  <1> DEFINE R == {at(n) : n \in i .. j - 1}
  <1>10. i .. j - 1 \subseteq 0 .. K /\ i \in i .. j - 1
    BY <1>2, <1>9
  <1>11. R \in (SUBSET Procs) \ {{}} /\ at(j) \in R
    BY <1>8, <1>9, <1>10
  <1>12. ASSUME NEW n \in i .. j - 1 PROVE pc[at(n)] = "enterCollection" /\ owner[waiting[at(n)]] \in R
    <2>1. at(n) \in S \ {p} /\ n \in Nat
      BY <1>8, <1>10
    <2>2. at(n + 1) = owner[waiting[at(n)]]
      BY <1>4, <1>5, <2>1
    <2>3. n + 1 \in i .. j - 1 \/ n + 1 = j
      BY <1>2, <1>9
    <2>4. at(n + 1) \in R
      BY <1>11, <2>3
    <2>5. QED
      BY <1>5, <2>1, <2>2, <2>4
  <1>13. \A q \in R : pc[q] = "enterCollection" /\ owner[waiting[q]] \in R
    BY <1>12
  <1>14. QED
    BY <1>11, <1>13 DEF NoWaitRing

\* Deadlock detection at park time suffices: no step closes a ring of waiters.
LEMMA NoRingStep == IInv /\ NoWaitRing /\ [Next]_vars => NoWaitRing'
  <1> SUFFICES ASSUME IInv, NoWaitRing, [Next]_vars PROVE NoWaitRing'
    OBVIOUS
  <1>1. CASE UNCHANGED vars
    BY <1>1 DEF NoWaitRing, vars, colVars
  <1>2. ASSUME NEW p \in Procs, Step(p) PROVE NoWaitRing'
    <2>1. pc \in [Procs -> PCs] /\ waiting \in [Procs -> Cols \cup {NoCol}]
          /\ owner \in [Cols -> Procs \cup {NoProc}]
      BY DEF IInv, TypeOK
    <2>2. CASE \E c \in Cols : EnterCollection(p, c)
      <3>1. PICK c \in Cols : EnterCollection(p, c)
        BY <2>2
      <3>2. CASE /\ Proceed(p, "in") /\ waiting' = [waiting EXCEPT ![p] = NoCol]
                 /\ \/ owner' = [owner EXCEPT ![c] = p]
                    \/ UNCHANGED owner
        <4>1. pc'[p] = "in" /\ \A q \in Procs \ {p} : pc'[q] = pc[q] /\ waiting'[q] = waiting[q]
          BY <2>1, <3>2 DEF Proceed, Goto
        <4>2. \A d : d \in Cols => owner'[d] = owner[d] \/ owner'[d] = p
          BY <2>1, <3>2
        <4>3. \A q \in Procs : pc[q] = "enterCollection" => waiting[q] \in Cols
          BY <2>1 DEF IInv, Waits
        <4>4. QED
          BY <4>1, <4>2, <4>3, NoRingByRelease
      <3>3. CASE /\ owner[c] \notin {NoProc, p} /\ ~wouldCycle(p, owner[c])
                 /\ waiting' = [waiting EXCEPT ![p] = c]
                 /\ park(p, "enterCollection") /\ UNCHANGED <<owner, depth>>
        <4>1. \A q \in Procs \ {p} : pc'[q] = pc[q]
          BY <2>1, <3>3 DEF park, Goto
        <4>2. QED
          BY <3>3, <4>1, NoRingByParking
      <3>4. QED
        BY <3>1, <3>2, <3>3 DEF EnterCollection
    <2>3. CASE \E c \in Cols : ExitCollection(p, c)
      <3>1. PICK c \in Cols : ExitCollection(p, c)
        BY <2>3
      <3>2. UNCHANGED <<pc, waiting>> /\ (owner' = [owner EXCEPT ![c] = NoProc] \/ UNCHANGED owner)
        BY <3>1 DEF ExitCollection
      <3>3. \A q \in Procs : pc[q] = "enterCollection" => waiting[q] \in Cols
        BY <2>1 DEF IInv, Waits
      <3>4. QED
        BY <2>1, <3>2, <3>3, NoRingByRelease
    <2>4. CASE EnterCollectionTimeout(p)
      BY <2>1, <2>4, NoRingByRelease DEF EnterCollectionTimeout, GiveUp, Proceed, Goto
    <2>5. ASSUME UNCHANGED <<owner, waiting>>, NEW to \in PCs \ {"enterCollection"}, Goto(p, to)
          PROVE  NoWaitRing'
      BY <2>1, <2>5, NoRingByRelease DEF Goto
    <2>6. QED
      <3>1. CASE EnterShared(p) \/ EnterSharedTimeout(p)
        BY <2>5, <3>1 DEF EnterShared, EnterSharedTimeout, GiveUp, Proceed, park, colVars, PCs, ParkedAt
      <3>2. CASE Register(p) \/ Deregister(p) \/ ExitShared(p) \/ QueueExclusive(p) \/ Finish(p)
        BY <2>5, <3>2 DEF Register, Deregister, ExitShared, QueueExclusive, Finish, colVars, PCs
      <3>3. CASE EnterExclusive(p) \/ EnterExclusiveTimeout(p)
        BY <2>5, <3>3 DEF EnterExclusive, EnterExclusiveTimeout, GiveUp, Proceed, park, colVars, PCs, ParkedAt
      <3>4. CASE SettleExclusive(p) \/ TryEnterExclusive(p) \/ ExitExclusive(p)
        BY <2>5, <3>4 DEF SettleExclusive, TryEnterExclusive, ExitExclusive, Back, colVars, PCs
      <3>5. QED
        BY <1>2, <2>2, <2>3, <2>4, <3>1, <3>2, <3>3, <3>4 DEF Step, Timeout
  <1>3. QED
    BY <1>1, <1>2 DEF Next

\* Transactions never wait for each other in a ring, although locks change hands
\* while others sleep (lock.go: a wait that would close a ring is refused).
THEOREM NoRingForms == Spec => []NoWaitRing
  <1>1. ASSUME Init PROVE NoWaitRing
    <2>1. \A p \in Procs : pc[p] # "enterCollection"
      BY <1>1 DEF Init
    <2>2. ASSUME NEW S \in (SUBSET Procs) \ {{}}, \A p \in S : pc[p] = "enterCollection"
          PROVE  FALSE
      <3>1. S # {} /\ S \subseteq Procs
        OBVIOUS
      <3>2. QED
        BY <2>1, <2>2, <3>1
    <2>3. QED
      BY <2>2 DEF NoWaitRing
  <1>2. QED
    BY <1>1, Invariant, NoRingStep, PTL DEF Spec

-----------------------------------------------------------------------------
(* The budget.                                                             *)

\* Of finite sets that are given at least one is least.
LEMMA LeastSet ==
    ASSUME NEW S, NEW F, F # {}, \A T \in F : T \in FiniteSubsetsOf(S)
    PROVE  \E T \in F : \A U \in F : U \subseteq T => U = T
  <1>1. F \subseteq FiniteSubsetsOf(S)
    OBVIOUS
  <1>2. \E T \in F : \A U \in F : ~ (<<U, T>> \in StrictSubsetOrdering(S))
    BY <1>1, FS_StrictSubsetOrderingWellFounded, WFMin
  <1>3. QED
    BY <1>2 DEF StrictSubsetOrdering, FiniteSubsetsOf

\* The sum of f over S, element by element.
Sums(f, S, sum) ==
    \A T \in SUBSET S :
        sum[T] = IF T = {} THEN 0
                 ELSE f[CHOOSE x \in T : TRUE] + sum[T \ {CHOOSE x \in T : TRUE}]

\* There is such a function.
LEMMA SumExists ==
    ASSUME NEW S, IsFiniteSet(S), NEW f \in [S -> Int]
    PROVE  \E sum \in [SUBSET S -> Int] : Sums(f, S, sum)
  <1> DEFINE some(T) == CHOOSE x \in T : TRUE
             Upto(n, sum) == \A T \in SUBSET S : Cardinality(T) <= n =>
                                sum[T] = IF T = {} THEN 0 ELSE f[some(T)] + sum[T \ {some(T)}]
             X == {n \in Nat : \E sum \in [SUBSET S -> Int] : Upto(n, sum)}
  <1>1. \A T \in SUBSET S : /\ IsFiniteSet(T) /\ Cardinality(T) \in Nat
                            /\ Cardinality(T) <= Cardinality(S)
                            /\ Cardinality(T) = 0 <=> T = {}
    BY FS_Subset, FS_CardinalityType, FS_EmptySet
  <1>2. \A T \in SUBSET S : T # {} => /\ some(T) \in T /\ T \ {some(T)} \in SUBSET S
                                     /\ Cardinality(T \ {some(T)}) = Cardinality(T) - 1
    BY <1>1, FS_RemoveElement
  <1> HIDE DEF some
  <1>3. 0 \in X
    <2>1. [T \in SUBSET S |-> 0] \in [SUBSET S -> Int] /\ Upto(0, [T \in SUBSET S |-> 0])
      BY <1>1
    <2>2. QED
      BY <2>1
  <1>4. ASSUME NEW n \in X PROVE n + 1 \in X
    <2>1. PICK sum \in [SUBSET S -> Int] : Upto(n, sum)
      OBVIOUS
    <2> DEFINE next == [T \in SUBSET S |-> IF T = {} THEN 0 ELSE f[some(T)] + sum[T \ {some(T)}]]
    <2>2. next \in [SUBSET S -> Int]
      BY <1>2
    <2>3. ASSUME NEW T \in SUBSET S, Cardinality(T) <= n PROVE next[T] = sum[T]
      BY <2>1, <2>3
    <2>4. ASSUME NEW T \in SUBSET S, Cardinality(T) <= n + 1, T # {}
          PROVE  next[T] = f[some(T)] + next[T \ {some(T)}]
      <3>1. T \ {some(T)} \in SUBSET S /\ Cardinality(T \ {some(T)}) <= n
        BY <1>1, <1>2, <2>4
      <3>2. next[T \ {some(T)}] = sum[T \ {some(T)}]
        BY <2>3, <3>1
      <3>3. QED
        BY <2>4, <3>2
    <2>5. Upto(n + 1, next)
      BY <2>4
    <2>6. n + 1 \in Nat
      OBVIOUS
    <2> HIDE DEF Upto, next
    <2>7. \E s \in [SUBSET S -> Int] : Upto(n + 1, s)
      BY <2>2, <2>5
    <2>8. QED
      BY <2>6, <2>7
  <1>5. X = Nat
    BY <1>3, <1>4, AllNaturals
  <1>6. PICK sum \in [SUBSET S -> Int] : Upto(Cardinality(S), sum)
    BY <1>1, <1>5
  <1>7. Sums(f, S, sum)
    BY <1>1, <1>6 DEF Sums, some
  <1>8. QED
    BY <1>7

\* Changing f at one element changes its sum over every set with that element by as
\* much; two sums of one function are the same.
LEMMA SumChanges ==
    ASSUME NEW S, IsFiniteSet(S), NEW f \in [S -> Int], NEW g \in [S -> Int], NEW x \in S,
           \A y \in S \ {x} : g[y] = f[y],
           NEW v, NEW w, Sums(f, S, v), Sums(g, S, w)
    PROVE  \A T \in SUBSET S : v[T] \in Int /\ w[T] = v[T] + IF x \in T THEN g[x] - f[x] ELSE 0
  <1>1. \A T \in SUBSET S : T \in FiniteSubsetsOf(S)
    BY FS_FiniteSubsetsOfFinite
  <1> DEFINE good(T) == v[T] \in Int /\ w[T] = v[T] + IF x \in T THEN g[x] - f[x] ELSE 0
             F == {T \in SUBSET S : ~good(T)}
  <1> SUFFICES ASSUME F # {} PROVE FALSE
    OBVIOUS
  <1>2. PICK T \in F : \A U \in F : U \subseteq T => U = T
    <2>1. \A T \in F : T \in FiniteSubsetsOf(S)
      BY <1>1
    <2>2. F # {}
      OBVIOUS
    <2>3. \A G : G # {} /\ (\A T \in G : T \in FiniteSubsetsOf(S))
               => \E T \in G : \A U \in G : U \subseteq T => U = T
      BY LeastSet
    <2> HIDE DEF F
    <2>4. QED
      BY <2>1, <2>2, <2>3
  <1> DEFINE y == CHOOSE z \in T : TRUE
             U == T \ {y}
  <1>3. T # {}
    <2>1. v[{}] = 0 /\ w[{}] = 0
      BY DEF Sums
    <2>2. good({})
      BY <2>1
    <2>3. QED
      BY <1>2, <2>2
  <1>4. y \in T /\ U \in SUBSET S /\ U # T /\ U \subseteq T
    BY <1>3
  <1>5. good(U)
    BY <1>2, <1>4
  <1>6. v[T] = f[y] + v[U] /\ w[T] = g[y] + w[U]
    BY <1>3 DEF Sums
  <1>7. f[y] \in Int /\ g[y] \in Int /\ f[x] \in Int /\ g[x] \in Int
    BY <1>4
  <1> HIDE DEF y, U
  <1>8. CASE x = y
    <2>1. x \in T /\ x \notin U
      BY <1>4, <1>8 DEF U
    <2>2. QED
      BY <1>2, <1>5, <1>6, <1>7, <1>8, <2>1
  <1>9. CASE x # y
    <2>1. x \in T <=> x \in U
      BY <1>9 DEF U
    <2>2. f[y] = g[y]
      BY <1>4, <1>9
    <2>3. QED
      BY <1>2, <1>5, <1>6, <1>7, <2>1, <2>2
  <1>10. QED
    BY <1>8, <1>9

\* What BudgetKept adds up is such a sum.
LEMMA QuotasSum ==
    ASSUME NEW q \in [Procs -> Int]
    PROVE  \E sum : Sums(q, Procs, sum) /\ Total(q) = sum[Procs]
  <1> DEFINE Rec(sum) == [T \in SUBSET Procs |->
                             IF T = {} THEN 0
                             ELSE q[CHOOSE x \in T : TRUE] + sum[T \ {CHOOSE x \in T : TRUE}]]
             total == CHOOSE sum : sum = Rec(sum)
  <1>1. PICK sum \in [SUBSET Procs -> Int] : Sums(q, Procs, sum)
    BY ProcsAssumption, SumExists
  <1>2. sum = Rec(sum)
    BY <1>1 DEF Sums
  <1>3. total = Rec(total)
    BY <1>2
  <1>4. Sums(q, Procs, total)
    BY <1>3 DEF Sums
  <1>5. Total(q) = total[Procs]
    BY DEF Total, MapThenSumSet, MapThenFoldSet
  <1>6. QED
    BY <1>4, <1>5

\* A total of quotas is a number, and changes by what one of them changes.
LEMMA TotalChanges ==
    ASSUME NEW q \in [Procs -> Int], NEW r \in [Procs -> Int], NEW p \in Procs,
           \A y \in Procs \ {p} : r[y] = q[y]
    PROVE  /\ Total(q) \in Int
           /\ Total(r)
                = Total(q) + (r[p] - q[p])
  <1>1. PICK s : Sums(q, Procs, s) /\ Total(q) = s[Procs]
    BY QuotasSum
  <1>2. PICK t : Sums(r, Procs, t) /\ Total(r) = t[Procs]
    BY QuotasSum
  <1>3. IsFiniteSet(Procs)
    BY ProcsAssumption
  <1>4. \A T \in SUBSET Procs :
            s[T] \in Int /\ t[T] = s[T] + IF p \in T THEN r[p] - q[p] ELSE 0
    <2>1. Sums(q, Procs, s) /\ Sums(r, Procs, t)
      BY <1>1, <1>2
    <2>2. QED
      BY <1>3, <2>1, SumChanges
  <1>5. s[Procs] \in Int /\ t[Procs] = s[Procs] + (r[p] - q[p])
    BY <1>4
  <1>6. QED
    BY <1>1, <1>2, <1>5

\* The pages handed out.
Granted == Total(quota)

LEMMA GrantedChanges ==
    ASSUME quota \in [Procs -> Nat], NEW p \in Procs, NEW v \in Nat,
           quota' = [quota EXCEPT ![p] = v]
    PROVE  Granted \in Int /\ Granted' = Granted + v - quota[p]
  <1> DEFINE q == quota'
  <1>1. /\ quota \in [Procs -> Int] /\ q \in [Procs -> Int] /\ q[p] = v
        /\ \A y \in Procs \ {p} : q[y] = quota[y]
    OBVIOUS
  <1>2. Granted' = Total(q)
    BY DEF Granted
  <1>3. \A r \in [Procs -> Int] : (\A y \in Procs \ {p} : r[y] = quota[y])
            => /\ Granted \in Int
               /\ Total(r) = Granted + (r[p] - quota[p])
    BY <1>1, TotalChanges DEF Granted
  <1> HIDE DEF q
  <1>4. Granted \in Int /\ Granted' = Granted + (q[p] - quota[p])
    BY <1>1, <1>2, <1>3
  <1>5. quota[p] \in Nat
    OBVIOUS
  <1>6. QED
    BY <1>1, <1>4, <1>5

\* Nothing handed out yet.
LEMMA NothingGranted == (\A p \in Procs : quota[p] = 0) /\ quota \in [Procs -> Nat] => Granted = 0
  <1> SUFFICES ASSUME \A p \in Procs : quota[p] = 0, quota \in [Procs -> Nat] PROVE Granted = 0
    OBVIOUS
  <1>1. quota \in [Procs -> Int]
    OBVIOUS
  <1>2. PICK s : Sums(quota, Procs, s) /\ Granted = s[Procs]
    BY <1>1, QuotasSum DEF Granted
  <1> DEFINE none == [T \in SUBSET Procs |-> 0]
             F == {T \in SUBSET Procs : s[T] # 0}
  <1>3. \A T \in SUBSET Procs : T \in FiniteSubsetsOf(Procs)
    BY ProcsAssumption, FS_FiniteSubsetsOfFinite
  <1>4. ASSUME F # {} PROVE FALSE
    <2>1. \A G : G # {} /\ (\A T \in G : T \in FiniteSubsetsOf(Procs))
               => \E T \in G : \A U \in G : U \subseteq T => U = T
      BY LeastSet
    <2>a. \A T \in F : T \in FiniteSubsetsOf(Procs)
      BY <1>3
    <2> HIDE DEF F
    <2>2. PICK T \in F : \A U \in F : U \subseteq T => U = T
      BY <1>4, <2>a, <2>1
    <2> USE DEF F
    <2>3. T # {}
      BY <1>2, <2>2 DEF Sums
    <2>4. PICK x \in T : s[T] = quota[x] + s[T \ {x}]
      BY <1>2, <2>3 DEF Sums
    <2>5. T \ {x} \in SUBSET Procs /\ T \ {x} \subseteq T /\ T \ {x} # T
      BY <2>4
    <2>6. s[T \ {x}] = 0
      BY <2>2, <2>5
    <2>7. QED
      BY <2>2, <2>4, <2>6
  <1>5. QED
    BY <1>2, <1>4

\* One budget, and every page of it is either there or in somebody's quota.
LEMMA BudgetStep == IInv /\ BudgetKept /\ [Next]_vars => BudgetKept'
  <1> SUFFICES ASSUME IInv, BudgetKept, [Next]_vars PROVE BudgetKept'
    OBVIOUS
  <1>1. /\ budget \in Nat /\ quota \in [Procs -> Nat] /\ budget + Granted = MaxPages
        /\ \A p \in Procs : p \notin open => quota[p] = 0
    BY DEF IInv, TypeOK, BudgetKept, Granted
  <1>2. ASSUME UNCHANGED txVars PROVE BudgetKept'
    <2>1. open' = open /\ budget' = budget /\ quota' = quota
      BY <1>2 DEF txVars
    <2>2. Granted' = Granted
      BY <2>1 DEF Granted
    <2>3. budget' + Granted' = MaxPages
      BY <1>1, <2>1, <2>2
    <2>4. \A q \in Procs : q \notin open' => quota'[q] = 0
      BY <1>1, <2>1
    <2>5. QED
      BY <2>3, <2>4 DEF BudgetKept, Granted
  <1>3. ASSUME NEW p \in Procs, Register(p) PROVE BudgetKept'
    <2>1. CASE UNCHANGED txVars
      BY <1>2, <2>1
    <2>2. CASE /\ open' = open \cup {p}
               /\ quota' = [quota EXCEPT ![p] = QuotaOf(budget)]
               /\ budget' = budget - QuotaOf(budget)
      <3>1. QuotaOf(budget) \in Nat /\ quota[p] = 0
        BY <1>1, <1>3, QuotaBounds DEF IInv, Placed, Register
      <3>2. Granted \in Int /\ Granted' = Granted + QuotaOf(budget) - quota[p]
        BY <1>1, <2>2, <3>1, GrantedChanges
      <3>3. budget' + Granted' = MaxPages
        BY <1>1, <2>2, <3>1, <3>2
      <3>4. \A q \in Procs : q \notin open' => quota'[q] = 0
        BY <1>1, <2>2
      <3>5. QED
        BY <3>3, <3>4 DEF BudgetKept, Granted
    <2>3. QED
      BY <1>3, <2>1, <2>2 DEF Register
  <1>4. ASSUME NEW p \in Procs, Deregister(p) PROVE BudgetKept'
    <2>1. /\ open' = open \ {p} /\ quota' = [quota EXCEPT ![p] = 0]
          /\ budget' = budget + quota[p]
      BY <1>4 DEF Deregister
    <2>2. Granted \in Int /\ Granted' = Granted + 0 - quota[p]
      BY <1>1, <2>1, GrantedChanges
    <2>3. quota[p] \in Nat
      BY <1>1
    <2>4. budget' + Granted' = MaxPages
      BY <1>1, <2>1, <2>2, <2>3
    <2>5. \A q \in Procs : q \notin open' => quota'[q] = 0
      BY <1>1, <2>1
    <2>6. QED
      BY <2>4, <2>5 DEF BudgetKept, Granted
  <1>5. QED
    <2>1. ASSUME NEW p \in Procs, Step(p) PROVE UNCHANGED txVars \/ Register(p) \/ Deregister(p)
      BY <2>1 DEF Step, Timeout, EnterShared, EnterSharedTimeout, ExitShared, QueueExclusive,
                  EnterExclusive, EnterExclusiveTimeout, SettleExclusive, TryEnterExclusive,
                  ExitExclusive, EnterCollection, EnterCollectionTimeout, ExitCollection, Finish
    <2>2. QED
      BY <1>2, <1>3, <1>4, <2>1 DEF Next, vars

\* Whatever begins, is refused, ends or times out: no page of the budget is lost and
\* none is made.
THEOREM BudgetIsKept == Spec => []BudgetKept
  <1>1. ASSUME Init PROVE BudgetKept
    <2>1. budget = MaxPages /\ quota \in [Procs -> Nat] /\ \A p \in Procs : quota[p] = 0
      BY <1>1 DEF Init
    <2>2. budget + Granted = MaxPages
      BY <2>1, NothingGranted, LimitsAssumption
    <2>3. QED
      BY <2>1, <2>2 DEF BudgetKept, Granted
  <1>2. QED
    BY <1>1, Invariant, BudgetStep, PTL DEF Spec
=============================================================================
