------------------------------ MODULE CoreGate ------------------------------
(***************************************************************************)
(* The lock of a database handle opened directly (src/connection.go,       *)
(* coreGate) together with its callers: plain operations, nested reads,    *)
(* iterations that let go of the handle while the caller has a row,        *)
(* notifications after a commit, the batches of the TTL sweeper, and       *)
(* Rebuild, which waits for every operation in flight and then swaps the   *)
(* core alone.                                                             *)
(*                                                                         *)
(* A goroutine is a stack of frames.  Only the frames of RefFrames count   *)
(* in refs; the body of an iteration, a notification and the rebuild       *)
(* itself do not.                                                          *)
(***************************************************************************)
EXTENDS Naturals, Sequences, FiniteSets

CONSTANTS Threads,       \* goroutines that share the handle
          Sweepers,      \* those of them that run the TTL sweeper
          MaxDepth,      \* bound: frames of one goroutine
          MaxRebuilds,   \* bound: calls of Rebuild
          Timed,         \* does the database have a lock timeout
          OuterReads     \* may a read that does not give way start on its own

VARIABLES refs,     \* coreGate.refs
          pending,  \* coreGate.pending
          held,     \* coreGate.held
          stack,    \* stack[t]: the frames of t, innermost last
          pc,       \* pc[t]: "run", or the gate call t is in
          want,     \* want[t]: the frame the call pushes
          parked,   \* parked[t]: "no", "asleep" on changed, or "woken"
          rebuilds  \* calls of Rebuild so far

vars == <<refs, pending, held, stack, pc, want, parked, rebuilds>>

RefFrames == {"op", "sweep", "read", "iter", "last"}
Frames == RefFrames \union {"body", "callback", "rebuild"}

Top(t) == IF stack[t] = <<>> THEN "none" ELSE stack[t][Len(stack[t])]
Below(t) == SubSeq(stack[t], 1, Len(stack[t]) - 1)
Holders == {h \in Threads \X (1..MaxDepth) :
              h[2] <= Len(stack[h[1]]) /\ stack[h[1]][h[2]] \in RefFrames}
Waiting == {"enter", "join", "rejoin", "hold"}

Init == /\ refs = 0
        /\ pending = 0
        /\ held = FALSE
        /\ stack = [t \in Threads |-> <<>>]
        /\ pc = [t \in Threads |-> "run"]
        /\ want = [t \in Threads |-> "op"]
        /\ parked = [t \in Threads |-> "no"]
        /\ rebuilds = 0

-----------------------------------------------------------------------------
(* The wait loop: ready is evaluated under the mutex; a caller that is not *)
(* ready sleeps on the channel the next notify closes.                     *)

notifyNobody(p) == p

notify(p) == [t \in Threads |-> IF p[t] = "asleep" THEN "woken" ELSE p[t]]

readyToJoin(t) == CASE pc[t] = "enter" -> ~held /\ pending = 0
              [] pc[t] \in {"join", "rejoin"} -> TRUE
              [] pc[t] = "hold" -> ~held /\ refs = 0

ready(t) == CASE pc[t] = "enter" -> ~held /\ pending = 0
              [] pc[t] \in {"join", "rejoin"} -> ~held
              [] pc[t] = "hold" -> ~held /\ refs = 0

Park(t) ==
  /\ pc[t] \in Waiting
  /\ parked[t] # "asleep"
  /\ ~ready(t)
  /\ parked' = [parked EXCEPT ![t] = "asleep"]
  /\ UNCHANGED <<refs, pending, held, stack, pc, want, rebuilds>>

Admit(t) ==
  /\ pc[t] \in Waiting
  /\ parked[t] # "asleep"
  /\ ready(t)
  /\ parked' = [parked EXCEPT ![t] = "no"]
  /\ IF pc[t] = "hold"
     THEN /\ held' = TRUE
          /\ pc' = [pc EXCEPT ![t] = "got"]
          /\ UNCHANGED <<refs, stack>>
     ELSE /\ refs' = refs + 1
          /\ stack' = [stack EXCEPT ![t] =
                         Append(IF pc[t] = "rejoin" THEN Below(t) ELSE @, want[t])]
          /\ pc' = [pc EXCEPT ![t] = "run"]
          /\ UNCHANGED held
  /\ UNCHANGED <<pending, want, rebuilds>>

\* The context of the call ends while it waits.  An iteration that cannot
\* take the handle back ends there, its frame is gone.
Cancel(t) ==
  /\ pc[t] \in Waiting
  /\ parked[t] # "no"
  /\ pc[t] = "hold" => Timed
  /\ parked' = [parked EXCEPT ![t] = "no"]
  /\ pc' = [pc EXCEPT ![t] = IF @ = "hold" THEN "failed" ELSE "run"]
  /\ stack' = [stack EXCEPT ![t] = IF pc[t] = "rejoin" THEN Below(t) ELSE @]
  /\ UNCHANGED <<refs, pending, held, want, rebuilds>>

-----------------------------------------------------------------------------
(* Who calls.  A user's code runs at the bottom of the stack, in a         *)
(* notification, or in the body of an iteration it started; the library's  *)
(* own code runs inside an operation, and in the bodies of its iterations. *)

UserCode(t) ==
  /\ pc[t] = "run"
  /\ Top(t) \in {"none", "callback", "body"}
  /\ Top(t) = "body" /\ Len(stack[t]) > 1
       => stack[t][Len(stack[t]) - 1] \notin {"op", "sweep", "read"}
LibraryCode(t) ==
  pc[t] = "run" /\ Top(t) \in {"op", "sweep", "read", "body"} /\ ~UserCode(t)
Room(t) == Len(stack[t]) < MaxDepth
Request(t, call, frame) ==
  /\ pc' = [pc EXCEPT ![t] = call]
  /\ want' = [want EXCEPT ![t] = frame]

\* DB.enter: an operation; or the sweeper, whose goroutine runs nothing else.
CallOp(t) ==
  /\ UserCode(t) /\ Room(t)
  /\ Request(t, "enter", IF t \in Sweepers /\ stack[t] = <<>> THEN "sweep" ELSE "op")
  /\ UNCHANGED <<refs, pending, held, stack, parked, rebuilds>>

\* DB.join, enterSeq and beginCore: reads, iterations and the start of a
\* transaction, on their own or inside an operation.
CallRead(t) ==
  /\ Room(t)
  /\ LibraryCode(t) \/ (UserCode(t) /\ OuterReads)
  /\ \E f \in {"read", "iter"} : Request(t, "join", f)
  /\ UNCHANGED <<refs, pending, held, stack, parked, rebuilds>>

\* enterSeq gives the handle back before it yields a row ...
Yield(t) ==
  /\ pc[t] = "run" /\ Top(t) = "iter"
  /\ refs' = refs - 1
  /\ parked' = IF refs = 1 THEN notify(parked) ELSE parked
  /\ stack' = [stack EXCEPT ![t] = Append(Below(t), "body")]
  /\ UNCHANGED <<pending, held, pc, want, rebuilds>>

\* ... and joins again after the body, with the next row or to clean up.
Resume(t) ==
  /\ pc[t] = "run" /\ Top(t) = "body"
  /\ Request(t, "rejoin", "last")
  /\ UNCHANGED <<refs, pending, held, stack, parked, rebuilds>>

\* A frame ends.  A write hands its changes to the callbacks only after it
\* has left the gate: the flush of the outbox is deferred before enter.
Exit(t) ==
  /\ pc[t] = "run" /\ Top(t) \in RefFrames
  /\ refs' = refs - 1
  /\ parked' = IF refs = 1 THEN notify(parked) ELSE parked
  /\ \/ stack' = [stack EXCEPT ![t] = Below(t)]
     \/ /\ Top(t) = "op"
        /\ stack' = [stack EXCEPT ![t] = Append(Below(t), "callback")]
  /\ UNCHANGED <<pending, held, pc, want, rebuilds>>

\* The end of a transaction of the caller: it counts as no operation, its
\* callbacks run at once.
CommitTx(t) ==
  /\ UserCode(t) /\ Room(t)
  /\ stack' = [stack EXCEPT ![t] = Append(@, "callback")]
  /\ UNCHANGED <<refs, pending, held, pc, want, parked, rebuilds>>

\* The sweeper notifies before its deferred release: with the handle entered.
SettleSweep(t) ==
  /\ pc[t] = "run" /\ Top(t) = "sweep" /\ Room(t)
  /\ stack' = [stack EXCEPT ![t] = Append(@, "callback")]
  /\ UNCHANGED <<refs, pending, held, pc, want, parked, rebuilds>>

EndCallback(t) ==
  /\ pc[t] = "run" /\ Top(t) = "callback"
  /\ stack' = [stack EXCEPT ![t] = Below(t)]
  /\ UNCHANGED <<refs, pending, held, pc, want, parked, rebuilds>>

-----------------------------------------------------------------------------
(* Rebuild: coreGate.hold, the swap of the core, and the release.          *)

CallRebuild(t) ==
  /\ UserCode(t) /\ Room(t)
  /\ rebuilds < MaxRebuilds
  /\ rebuilds' = rebuilds + 1
  /\ pending' = pending + 1
  /\ pc' = [pc EXCEPT ![t] = "hold"]
  /\ UNCHANGED <<refs, held, stack, want, parked>>

SettledWhenIn == IF \E t \in Threads : pc[t] = "got" THEN pending - 1 ELSE pending

\* Taken or given up, the caller of hold no longer counts as pending.
Settled == pending - 1

Settle(t) ==
  /\ pc[t] \in {"got", "failed"}
  /\ pending' = Settled
  /\ parked' = notify(parked)
  /\ pc' = [pc EXCEPT ![t] = "run"]
  /\ stack' = [stack EXCEPT ![t] = IF pc[t] = "got" THEN Append(@, "rebuild") ELSE @]
  /\ UNCHANGED <<refs, held, want, rebuilds>>

Release(t) ==
  /\ pc[t] = "run" /\ Top(t) = "rebuild"
  /\ held' = FALSE
  /\ parked' = notify(parked)
  /\ stack' = [stack EXCEPT ![t] = Below(t)]
  /\ UNCHANGED <<refs, pending, pc, want, rebuilds>>

Step(t) == \/ Park(t) \/ Admit(t) \/ Cancel(t)
           \/ CallOp(t) \/ CallRead(t) \/ Yield(t) \/ Resume(t) \/ Exit(t)
           \/ CommitTx(t) \/ SettleSweep(t) \/ EndCallback(t)
           \/ CallRebuild(t) \/ Settle(t) \/ Release(t)

Next == \E t \in Threads : Step(t)

Spec == Init /\ [][Next]_vars

\* The scheduler runs every goroutine that can run; every operation, body
\* and callback ends, however many calls it makes first.  No timer is relied
\* upon.
Ends(t, d) == Len(stack[t]) = d /\ (Exit(t) \/ Resume(t) \/ EndCallback(t))
Fairness ==
  \A t \in Threads :
    /\ WF_vars(Park(t)) /\ WF_vars(Admit(t)) /\ WF_vars(Settle(t)) /\ WF_vars(Release(t))
    /\ \A d \in 1..MaxDepth : SF_vars(Ends(t, d))

-----------------------------------------------------------------------------
TypeOK ==
  /\ refs \in Nat /\ pending \in Nat /\ held \in BOOLEAN /\ rebuilds \in 0..MaxRebuilds
  /\ stack \in [Threads -> Seq(Frames)]
  /\ \A t \in Threads : Len(stack[t]) <= MaxDepth
  /\ pc \in [Threads -> Waiting \union {"run", "got", "failed"}]
  /\ want \in [Threads -> RefFrames]
  /\ parked \in [Threads -> {"no", "asleep", "woken"}]

\* The counters of the gate are the goroutines they stand for: a reference
\* per frame that entered, a pending rebuild per caller of hold that has not
\* settled, and held for the one rebuild that got in.
CountsAgree ==
  /\ refs = Cardinality(Holders)
  /\ pending = Cardinality({t \in Threads : pc[t] \in {"hold", "got", "failed"}})

\* While a rebuild swaps the core no operation is inside, no second rebuild
\* is, and nobody gets in: an operation never sees the core change under it.
Swapping(t) == pc[t] = "got" \/ Top(t) = "rebuild"
RebuildAlone ==
  /\ \A t, u \in Threads : Swapping(t) /\ Swapping(u) => t = u
  /\ (\E t \in Threads : Swapping(t)) => held /\ Holders = {}

\* A goroutine asleep at the gate has a reason to: what it waits for has not
\* come true since it looked (coreGate.wait registers the channel under the
\* mutex that notify holds).
NoLostWakeup == \A t \in Threads : parked[t] = "asleep" => ~ready(t)

\* A notification runs with the handle's lock given back, so that it may use
\* the handle, rebuild it included (hooks.go: "settle ... the locks must be
\* gone when it is called").
CallbackHoldsNothing ==
  \A t \in Threads : \A i \in 1..Len(stack[t]) :
    stack[t][i] = "callback" => \A j \in 1..i : stack[t][j] \notin RefFrames

\* With no timeout to help, every call of the gate returns: a rebuild gets
\* its turn although operations keep coming, and an operation waits for the
\* rebuilds in front of it only.
EveryCallReturns == \A t \in Threads : (pc[t] # "run") ~> (pc[t] = "run")
=============================================================================
