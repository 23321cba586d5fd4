--------------------------- MODULE CoreGateProofs ---------------------------
(***************************************************************************)
(* Proofs about the gate of a handle, for any goroutines, any depth of     *)
(* calls and any number of rebuilds: the counters agree with the           *)
(* goroutines they count, a rebuild is alone, and nobody sleeps without a  *)
(* reason.                                                                 *)
(* Then, about the TTL sweepers the gate lets in: a collection has one,    *)
(* and none is left after Close.                                           *)
(***************************************************************************)
EXTENDS CoreGate, FiniteSetTheorems, SequenceTheorems, TLAPS

Sensible == IsFiniteSet(Threads) /\ MaxDepth \in Nat

Typed ==
  /\ refs \in Nat /\ pending \in Nat /\ held \in BOOLEAN
  /\ stack \in [Threads -> Seq(Frames)]
  /\ pc \in [Threads -> Waiting \union {"run", "got", "failed"}]
  /\ want \in [Threads -> RefFrames]
  /\ parked \in [Threads -> {"no", "asleep", "woken"}]

\* Where a goroutine is says what its stack looks like: a caller has room for
\* the frame it asks for, an iteration that comes back has its body on top,
\* and nothing is called from inside a rebuild.
Shaped(t) ==
  /\ Len(stack[t]) <= MaxDepth
  /\ pc[t] \in {"enter", "join", "hold", "got"} => Len(stack[t]) < MaxDepth
  /\ pc[t] = "rejoin" => Top(t) = "body"
  /\ Top(t) = "rebuild" => pc[t] = "run"
  /\ \A i \in 1..(Len(stack[t]) - 1) : stack[t][i] # "rebuild"
  /\ parked[t] # "no" => pc[t] \in Waiting
AllShaped == \A t \in Threads : Shaped(t)

\* held is the goroutine that swaps, and there is one at most.
HeldIsSwapping ==
  /\ \A t, u \in Threads : Swapping(t) /\ Swapping(u) => t = u
  /\ held <=> \E t \in Threads : Swapping(t)
  /\ held => Holders = {}

Queue == {t \in Threads : pc[t] \in {"hold", "got", "failed"}}
CountersTrue == refs = Cardinality(Holders) /\ pending = Cardinality(Queue)

IInv == Typed /\ AllShaped /\ CountersTrue /\ HeldIsSwapping /\ NoLostWakeup

-----------------------------------------------------------------------------
(* Counting.                                                               *)

LEMMA Finite ==
  ASSUME Sensible
  PROVE  IsFiniteSet(Holders) /\ IsFiniteSet(Queue)
  <1>1. IsFiniteSet(1..MaxDepth)
    BY FS_Interval DEF Sensible
  <1>2. IsFiniteSet(Threads \X (1..MaxDepth))
    BY <1>1, FS_Product DEF Sensible
  <1>3. Holders \in SUBSET (Threads \X (1..MaxDepth)) /\ Queue \in SUBSET Threads
    BY DEF Holders, Queue
  <1>4. QED
    BY <1>2, <1>3, FS_Subset DEF Sensible

LEMMA Counted ==
  ASSUME Sensible, NEW S \in {Holders, Queue}, NEW x
  PROVE  /\ Cardinality(S) \in Nat
         /\ Cardinality(S) = 0 <=> S = {}
         /\ x \in S => Cardinality(S \ {x}) = Cardinality(S) - 1
         /\ x \notin S => Cardinality(S \cup {x}) = Cardinality(S) + 1
  <1>1. IsFiniteSet(S)
    BY Finite
  <1>2. QED
    BY <1>1, FS_CardinalityType, FS_EmptySet, FS_AddElement, FS_RemoveElement

-----------------------------------------------------------------------------
(* Stacks.                                                                 *)

LEMMA FrameNames ==
  /\ RefFrames \subseteq Frames
  /\ {"body", "callback", "rebuild"} \subseteq Frames
  /\ "none" \notin Frames /\ "body" \notin RefFrames /\ "callback" \notin RefFrames
  /\ "rebuild" \notin RefFrames
  BY DEF Frames, RefFrames

LEMMA TopIs ==
  ASSUME Typed, NEW t \in Threads
  PROVE  /\ stack[t] \in Seq(Frames) /\ Len(stack[t]) \in Nat
         /\ Top(t) = "none" <=> Len(stack[t]) = 0
         /\ Top(t) # "none" => Len(stack[t]) >= 1 /\ Top(t) = stack[t][Len(stack[t])]
  <1>1. stack[t] \in Seq(Frames) /\ Len(stack[t]) \in Nat
    BY DEF Typed
  <1>2. CASE stack[t] = <<>>
    BY <1>1, <1>2 DEF Top
  <1>3. CASE stack[t] # <<>>
    <2>1. Len(stack[t]) >= 1
      BY <1>1, <1>3
    <2>2. stack[t][Len(stack[t])] \in Frames
      BY <1>1, <2>1
    <2>3. QED
      BY <1>1, <1>3, <2>1, <2>2, FrameNames DEF Top
  <1>4. QED
    BY <1>2, <1>3

LEMMA BelowIs ==
  ASSUME Typed, NEW t \in Threads, Top(t) # "none"
  PROVE  /\ Below(t) \in Seq(Frames)
         /\ Len(Below(t)) = Len(stack[t]) - 1
         /\ \A i \in 1..(Len(stack[t]) - 1) : Below(t)[i] = stack[t][i]
  <1> DEFINE n == Len(stack[t])
  <1>1. stack[t] \in Seq(Frames) /\ n \in Nat /\ n >= 1
    BY TopIs
  <1>2. \A i \in 1..(n - 1) : stack[t][i] \in Frames
    BY <1>1
  <1>3. n - 1 \in Int /\ 1 \in Int /\ (n - 1) - 1 + 1 = n - 1
    BY <1>1
  <1> HIDE DEF n
  <1>4. /\ SubSeq(stack[t], 1, n - 1) \in Seq(Frames)
        /\ Len(SubSeq(stack[t], 1, n - 1)) = IF 1 <= n - 1 THEN (n - 1) - 1 + 1 ELSE 0
        /\ \A i \in 1..((n - 1) - 1 + 1) : SubSeq(stack[t], 1, n - 1)[i] = stack[t][1 + i - 1]
    BY <1>2, <1>3, SubSeqProperties
  <1>5. \A i \in 1..(n - 1) : 1 + i - 1 = i
    BY <1>3
  <1>6. QED
    BY <1>1, <1>3, <1>4, <1>5 DEF Below, n

\* Only the frame at place k + 1 of one goroutine comes, goes or changes.
FrameChange(t, s, k) ==
  /\ s \in Seq(Frames) /\ k \in Nat /\ k + 1 \in 1..MaxDepth
  /\ stack' = [stack EXCEPT ![t] = s]
  /\ Len(stack[t]) = k \/ Len(stack[t]) = k + 1
  /\ Len(s) = k \/ Len(s) = k + 1
  /\ \A i \in 1..k : s[i] = stack[t][i]

LEMMA FrameChanges ==
  ASSUME Typed, NEW t \in Threads, NEW s, NEW k, FrameChange(t, s, k)
  PROVE  /\ stack' \in [Threads -> Seq(Frames)] /\ stack'[t] = s
         /\ \A u \in Threads \ {t} : stack'[u] = stack[u]
         /\ <<t, k + 1>> \in Holders <=> Len(stack[t]) = k + 1 /\ stack[t][k + 1] \in RefFrames
         /\ Holders' = IF Len(s) = k + 1 /\ s[k + 1] \in RefFrames
                       THEN Holders \cup {<<t, k + 1>>} ELSE Holders \ {<<t, k + 1>>}
  <1> USE DEF FrameChange
  <1>1. /\ stack'[t] = s
        /\ \A u \in Threads \ {t} : stack'[u] = stack[u]
        /\ stack' \in [Threads -> Seq(Frames)]
    BY DEF Typed
  <1>2. <<t, k + 1>> \in Holders <=> Len(stack[t]) = k + 1 /\ stack[t][k + 1] \in RefFrames
    BY DEF Holders
  <1>3. ASSUME NEW h \in Threads \X (1..MaxDepth), h # <<t, k + 1>>
        PROVE  h \in Holders' <=> h \in Holders
    <2>1. /\ h[1] \in Threads /\ h[2] \in 1..MaxDepth
          /\ ~(h[1] = t /\ h[2] = k + 1)
      BY <1>3
    <2>2. h \in Holders' <=> h[2] <= Len(stack'[h[1]]) /\ stack'[h[1]][h[2]] \in RefFrames
      BY DEF Holders
    <2>3. h \in Holders <=> h[2] <= Len(stack[h[1]]) /\ stack[h[1]][h[2]] \in RefFrames
      BY DEF Holders
    <2>4. CASE h[1] # t
      BY <1>1, <2>1, <2>2, <2>3, <2>4
    <2>5. CASE h[1] = t /\ h[2] \in 1..k
      <3>1. h[2] <= Len(s) /\ h[2] <= Len(stack[t])
        BY <2>5
      <3>2. QED
        BY <1>1, <2>2, <2>3, <2>5, <3>1
    <2>6. CASE h[1] = t /\ h[2] > k + 1
      <3>1. ~(h[2] <= Len(s)) /\ ~(h[2] <= Len(stack[t]))
        BY <2>1, <2>6
      <3>2. QED
        BY <1>1, <2>2, <2>3, <2>6, <3>1
    <2>7. QED
      BY <2>1, <2>4, <2>5, <2>6
  <1>4. <<t, k + 1>> \in Holders' <=> Len(s) = k + 1 /\ s[k + 1] \in RefFrames
    <2>1. <<t, k + 1>> \in Holders' <=> k + 1 <= Len(stack'[t]) /\ stack'[t][k + 1] \in RefFrames
      BY DEF Holders
    <2>2. QED
      BY <1>1, <2>1
  <1>5. Holders \subseteq Threads \X (1..MaxDepth) /\ Holders' \subseteq Threads \X (1..MaxDepth)
    BY DEF Holders
  <1>6. CASE Len(s) = k + 1 /\ s[k + 1] \in RefFrames
    <2>1. \A h : h \in Holders' <=> h \in Holders \cup {<<t, k + 1>>}
      BY <1>3, <1>4, <1>5, <1>6
    <2>2. QED
      BY <1>1, <1>2, <1>6, <2>1
  <1>7. CASE ~(Len(s) = k + 1 /\ s[k + 1] \in RefFrames)
    <2>1. \A h : h \in Holders' <=> h \in Holders \ {<<t, k + 1>>}
      BY <1>3, <1>4, <1>5, <1>7
    <2>2. QED
      BY <1>1, <1>2, <1>7, <2>1
  <1>8. QED
    BY <1>6, <1>7

\* A frame more: it counts if it entered the gate.
LEMMA Pushed ==
  ASSUME Sensible, Typed, NEW t \in Threads, NEW f \in Frames,
         stack' = [stack EXCEPT ![t] = Append(stack[t], f)], Len(stack[t]) < MaxDepth
  PROVE  /\ stack' \in [Threads -> Seq(Frames)]
         /\ Len(stack'[t]) = Len(stack[t]) + 1 /\ Top(t)' = f
         /\ \A i \in 1..Len(stack[t]) : stack'[t][i] = stack[t][i]
         /\ \A u \in Threads \ {t} : stack'[u] = stack[u]
         /\ f \notin RefFrames => Holders' = Holders
         /\ f \in RefFrames => Cardinality(Holders') = Cardinality(Holders) + 1
  <1> DEFINE n == Len(stack[t])
             s == Append(stack[t], f)
  <1>1. stack[t] \in Seq(Frames) /\ n \in Nat /\ n + 1 \in 1..MaxDepth
    BY TopIs DEF Sensible
  <1>2. /\ s \in Seq(Frames) /\ s # <<>> /\ Len(s) = n + 1
        /\ \A i \in 1..n : s[i] = stack[t][i]
        /\ s[n + 1] = f
    BY <1>1, AppendProperties
  <1> HIDE DEF n, s
  <1>3. /\ stack' \in [Threads -> Seq(Frames)] /\ stack'[t] = s
        /\ \A u \in Threads \ {t} : stack'[u] = stack[u]
        /\ <<t, n + 1>> \notin Holders
        /\ Holders' = IF f \in RefFrames THEN Holders \cup {<<t, n + 1>>}
                      ELSE Holders \ {<<t, n + 1>>}
    <2>1. stack' = [stack EXCEPT ![t] = s] /\ n = Len(stack[t])
      BY DEF s, n
    <2>2. n # n + 1
      BY <1>1
    <2>3. FrameChange(t, s, n)
      BY <1>1, <1>2, <2>1 DEF FrameChange
    <2>4. QED
      BY <1>2, <2>1, <2>2, <2>3, FrameChanges
  <1>4. Top(t)' = f
    BY <1>2, <1>3 DEF Top
  <1>5. QED
    BY <1>2, <1>3, <1>4, Counted DEF n

\* The top frame gives way to one that does not count.
LEMMA Replaced ==
  ASSUME Sensible, Typed, AllShaped, NEW t \in Threads, NEW f \in Frames, Top(t) # "none",
         stack' = [stack EXCEPT ![t] = Append(Below(t), f)]
  PROVE  /\ stack' \in [Threads -> Seq(Frames)]
         /\ Len(stack'[t]) = Len(stack[t]) /\ Top(t)' = f
         /\ \A i \in 1..(Len(stack[t]) - 1) : stack'[t][i] = stack[t][i]
         /\ \A u \in Threads \ {t} : stack'[u] = stack[u]
         /\ Top(t) \in RefFrames /\ f \notin RefFrames =>
              Cardinality(Holders') = Cardinality(Holders) - 1 /\ Holders # {}
         /\ Top(t) \notin RefFrames /\ f \in RefFrames =>
              Cardinality(Holders') = Cardinality(Holders) + 1
  <1> DEFINE k == Len(stack[t]) - 1
             s == Append(Below(t), f)
  <1>1. /\ Below(t) \in Seq(Frames) /\ k \in Nat /\ k + 1 \in 1..MaxDepth
        /\ Len(Below(t)) = k /\ Len(stack[t]) = k + 1 /\ Top(t) = stack[t][k + 1]
        /\ \A i \in 1..k : Below(t)[i] = stack[t][i]
    BY TopIs, BelowIs DEF Sensible, AllShaped, Shaped
  <1>2. /\ s \in Seq(Frames) /\ s # <<>> /\ Len(s) = k + 1
        /\ \A i \in 1..k : s[i] = stack[t][i]
        /\ s[k + 1] = f
    BY <1>1, AppendProperties
  <1> HIDE DEF k, s
  <1>3. /\ stack' \in [Threads -> Seq(Frames)] /\ stack'[t] = s
        /\ \A u \in Threads \ {t} : stack'[u] = stack[u]
        /\ <<t, k + 1>> \in Holders <=> Top(t) \in RefFrames
        /\ Holders' = IF f \in RefFrames THEN Holders \cup {<<t, k + 1>>}
                      ELSE Holders \ {<<t, k + 1>>}
    <2>1. stack' = [stack EXCEPT ![t] = s]
      BY DEF s
    <2>2. FrameChange(t, s, k)
      BY <1>1, <1>2, <2>1 DEF FrameChange
    <2>3. QED
      BY <1>1, <1>2, <2>2, FrameChanges
  <1>4. Top(t)' = f
    BY <1>2, <1>3 DEF Top
  <1>5. QED
    BY <1>1, <1>2, <1>3, <1>4, Counted DEF k

\* The top frame goes.
LEMMA Popped ==
  ASSUME Sensible, Typed, AllShaped, NEW t \in Threads, Top(t) # "none",
         stack' = [stack EXCEPT ![t] = Below(t)]
  PROVE  /\ stack' \in [Threads -> Seq(Frames)]
         /\ Len(stack'[t]) = Len(stack[t]) - 1
         /\ \A i \in 1..(Len(stack[t]) - 1) : stack'[t][i] = stack[t][i]
         /\ Top(t)' # "rebuild"
         /\ \A u \in Threads \ {t} : stack'[u] = stack[u]
         /\ Top(t) \notin RefFrames => Holders' = Holders
         /\ Top(t) \in RefFrames =>
              Cardinality(Holders') = Cardinality(Holders) - 1 /\ Holders # {}
  <1> DEFINE k == Len(stack[t]) - 1
  <1>1. /\ Below(t) \in Seq(Frames) /\ k \in Nat /\ k + 1 \in 1..MaxDepth
        /\ Len(Below(t)) = k /\ Len(stack[t]) = k + 1 /\ Top(t) = stack[t][k + 1]
        /\ \A i \in 1..k : Below(t)[i] = stack[t][i]
    BY TopIs, BelowIs DEF Sensible, AllShaped, Shaped
  <1> HIDE DEF k
  <1>2. /\ stack' \in [Threads -> Seq(Frames)] /\ stack'[t] = Below(t)
        /\ \A u \in Threads \ {t} : stack'[u] = stack[u]
        /\ <<t, k + 1>> \in Holders <=> Top(t) \in RefFrames
        /\ Holders' = Holders \ {<<t, k + 1>>}
    <2>1. k # k + 1
      BY <1>1
    <2>2. FrameChange(t, Below(t), k)
      BY <1>1 DEF FrameChange
    <2>3. QED
      BY <1>1, <2>1, <2>2, FrameChanges
  <1>3. Top(t)' # "rebuild"
    <2>1. \A i \in 1..k : stack[t][i] # "rebuild"
      BY DEF AllShaped, Shaped, k
    <2>2. CASE k = 0
      BY <1>1, <1>2, <2>2 DEF Top
    <2>3. CASE k # 0
      <3>1. k \in 1..k /\ Below(t) # <<>>
        BY <1>1, <2>3
      <3>2. Top(t)' = Below(t)[k]
        BY <1>1, <1>2, <3>1 DEF Top
      <3>3. QED
        BY <1>1, <2>1, <3>1, <3>2
    <2>4. QED
      BY <2>2, <2>3
  <1>4. QED
    BY <1>1, <1>2, <1>3, Counted DEF k

-----------------------------------------------------------------------------
(* What a step of one goroutine leaves to the others.                      *)

\* Another goroutine keeps its place and its stack; at most it is woken.
Elsewhere(t) ==
  \A u \in Threads \ {t} :
    /\ stack'[u] = stack[u] /\ pc'[u] = pc[u]
    /\ parked'[u] = parked[u] \/ (parked[u] = "asleep" /\ parked'[u] = "woken")

\* Nobody's reason to sleep has gone, or everybody was woken.
ReasonsKept(t) ==
  \/ \A u \in Threads \ {t} : parked'[u] # "asleep"
  \/ /\ refs' = 0 => refs = 0
     /\ pending' = 0 => pending = 0
     /\ held => held'

LEMMA OthersStay ==
  ASSUME IInv, NEW t \in Threads, Elsewhere(t), Shaped(t)'
  PROVE  /\ AllShaped'
         /\ \A u \in Threads \ {t} : Swapping(u)' <=> Swapping(u)
  <1>1. ASSUME NEW u \in Threads \ {t} PROVE Shaped(u)' /\ (Swapping(u)' <=> Swapping(u))
    <2>1. Shaped(u)
      BY DEF IInv, AllShaped
    <2>2. /\ stack'[u] = stack[u] /\ pc'[u] = pc[u] /\ Top(u)' = Top(u)
          /\ parked'[u] # "no" => parked[u] # "no"
      BY DEF Elsewhere, Top
    <2>3. QED
      BY <2>1, <2>2 DEF Shaped, Swapping
  <1>2. QED
    BY <1>1 DEF AllShaped

LEMMA NobodySleepsIn ==
  ASSUME IInv, NEW t \in Threads, Elsewhere(t), ReasonsKept(t), Typed',
         parked'[t] = "asleep" => ~ready(t)'
  PROVE  NoLostWakeup'
  <1> SUFFICES ASSUME NEW u \in Threads, u # t, parked'[u] = "asleep" PROVE ~ready(u)'
    BY DEF NoLostWakeup
  <1>1. parked[u] = "asleep" /\ pc'[u] = pc[u] /\ pc[u] \in Waiting
    BY DEF Elsewhere, IInv, AllShaped, Shaped
  <1>2. ~ready(u)
    BY <1>1 DEF IInv, NoLostWakeup
  <1>3. /\ refs' = 0 => refs = 0
        /\ pending' = 0 => pending = 0
        /\ held => held'
    BY DEF ReasonsKept
  <1>4. QED
    BY <1>1, <1>2, <1>3 DEF ready, Waiting

\* A goroutine joins the queue of rebuilds, leaves it, or does neither.
LEMMA QueueChanges ==
  ASSUME Sensible, IInv, NEW t \in Threads, Elsewhere(t)
  PROVE  LET in == pc[t] \in {"hold", "got", "failed"}
             out == pc'[t] \in {"hold", "got", "failed"}
         IN /\ in <=> out => Cardinality(Queue') = Cardinality(Queue)
            /\ ~in /\ out => Cardinality(Queue') = Cardinality(Queue) + 1
            /\ in /\ ~out => Cardinality(Queue') = Cardinality(Queue) - 1 /\ Queue # {}
  <1>1. \A u \in Threads \ {t} : u \in Queue' <=> u \in Queue
    BY DEF Elsewhere, Queue
  <1>2. /\ t \in Queue <=> pc[t] \in {"hold", "got", "failed"}
        /\ t \in Queue' <=> pc'[t] \in {"hold", "got", "failed"}
    BY DEF Queue
  <1>3. Queue \subseteq Threads /\ Queue' \subseteq Threads
    BY DEF Queue
  <1>4. CASE t \in Queue <=> t \in Queue'
    <2>1. Queue' = Queue
      BY <1>1, <1>3, <1>4
    <2>2. QED
      BY <1>2, <1>4, <2>1
  <1>5. CASE t \notin Queue /\ t \in Queue'
    <2>1. Queue' = Queue \cup {t}
      BY <1>1, <1>3, <1>5
    <2>2. QED
      BY <1>2, <1>5, <2>1, Counted
  <1>6. CASE t \in Queue /\ t \notin Queue'
    <2>1. Queue' = Queue \ {t}
      BY <1>1, <1>3, <1>6
    <2>2. QED
      BY <1>2, <1>6, <2>1, Counted
  <1>7. QED
    BY <1>4, <1>5, <1>6

\* A step that is no part of a rebuild.
LEMMA OrdinaryStep ==
  ASSUME Sensible, IInv, NEW t \in Threads, Elsewhere(t), ReasonsKept(t), Typed', Shaped(t)',
         parked'[t] = "asleep" => ~ready(t)',
         CountersTrue', held' = held, Swapping(t)' <=> Swapping(t), held => Holders' = {}
  PROVE  IInv'
  <1>1. AllShaped' /\ \A u \in Threads : Swapping(u)' <=> Swapping(u)
    BY OthersStay
  <1>2. HeldIsSwapping'
    BY <1>1 DEF IInv, HeldIsSwapping
  <1>3. NoLostWakeup'
    BY NobodySleepsIn
  <1>4. QED
    BY <1>1, <1>2, <1>3 DEF IInv

-----------------------------------------------------------------------------
(* The steps.                                                              *)

LEMMA TypedOf ==
  ASSUME IInv, NEW t \in Threads
  PROVE  /\ Typed /\ AllShaped /\ Shaped(t) /\ CountersTrue
         /\ refs \in Nat /\ pending \in Nat /\ held \in BOOLEAN
         /\ pc[t] \in Waiting \union {"run", "got", "failed"} /\ want[t] \in RefFrames
         /\ parked[t] \in {"no", "asleep", "woken"}
         /\ pc[t] \notin Waiting => parked[t] = "no"
  BY DEF IInv, Typed, AllShaped, Shaped

LEMMA Initially == ASSUME Sensible, Init PROVE IInv
  <1>1. Typed
    <2>1. <<>> \in Seq(Frames)
      OBVIOUS
    <2>2. QED
      BY <2>1, FrameNames DEF Init, Typed, Waiting, RefFrames
  <1>2. \A t \in Threads : Len(stack[t]) = 0 /\ Top(t) = "none" /\ pc[t] = "run" /\ parked[t] = "no"
    BY DEF Init, Top
  <1>3. AllShaped
    BY <1>2 DEF AllShaped, Shaped, Sensible, Waiting
  <1>4. Holders = {} /\ Queue = {}
    BY <1>2 DEF Holders, Queue
  <1>5. CountersTrue
    BY <1>4, FS_EmptySet DEF CountersTrue, Init
  <1>6. HeldIsSwapping
    BY <1>2, <1>4 DEF HeldIsSwapping, Init, Swapping
  <1>7. NoLostWakeup
    BY <1>2 DEF NoLostWakeup
  <1>8. QED
    BY <1>1, <1>3, <1>5, <1>6, <1>7 DEF IInv

LEMMA ParkStep ==
  ASSUME Sensible, IInv, NEW t \in Threads, Park(t)
  PROVE  IInv'
  <1>1. /\ pc[t] \in Waiting /\ ~ready(t) /\ parked' = [parked EXCEPT ![t] = "asleep"]
        /\ UNCHANGED <<refs, pending, held, stack, pc, want, rebuilds>>
    BY DEF Park
  <1>2. /\ parked'[t] = "asleep" /\ Elsewhere(t) /\ ReasonsKept(t)
        /\ parked' \in [Threads -> {"no", "asleep", "woken"}]
    BY <1>1 DEF IInv, Typed, Elsewhere, ReasonsKept
  <1>3. Typed'
    BY <1>1, <1>2 DEF IInv, Typed
  <1>4. Holders' = Holders /\ Queue' = Queue /\ Top(t)' = Top(t) /\ (ready(t)' <=> ready(t))
    BY <1>1 DEF Holders, Queue, Top, ready
  <1>5. Shaped(t)' /\ (Swapping(t)' <=> Swapping(t))
    BY <1>1, <1>2, <1>4, TypedOf DEF Shaped, Swapping
  <1>6. CountersTrue' /\ (held => Holders' = {})
    BY <1>1, <1>4 DEF IInv, CountersTrue, HeldIsSwapping
  <1>7. QED
    BY <1>1, <1>2, <1>3, <1>4, <1>5, <1>6, OrdinaryStep

\* A rebuild gets in: nothing is held and nobody is inside.
LEMMA AdmitHoldStep ==
  ASSUME Sensible, IInv, NEW t \in Threads, Admit(t), pc[t] = "hold"
  PROVE  IInv'
  <1>1. /\ ~held /\ refs = 0 /\ held' = TRUE /\ pc' = [pc EXCEPT ![t] = "got"]
        /\ parked' = [parked EXCEPT ![t] = "no"]
        /\ UNCHANGED <<refs, pending, stack, want>>
    BY DEF Admit, ready
  <1>2. /\ Elsewhere(t) /\ ReasonsKept(t) /\ pc'[t] = "got" /\ parked'[t] = "no"
    BY <1>1 DEF IInv, Typed, Elsewhere, ReasonsKept
  <1>3. Typed'
    BY <1>1 DEF IInv, Typed
  <1>4. Holders' = Holders /\ Top(t)' = Top(t)
    BY <1>1 DEF Holders, Top
  <1>5. Shaped(t)' /\ Swapping(t)'
    BY <1>1, <1>2, <1>4, TypedOf DEF Shaped, Swapping, Waiting
  <1>6. AllShaped' /\ \A u \in Threads \ {t} : ~Swapping(u)'
    BY <1>1, <1>2, <1>5, OthersStay DEF IInv, HeldIsSwapping
  <1>7. Holders = {}
    BY <1>1, Counted DEF IInv, CountersTrue
  <1>8. HeldIsSwapping'
    BY <1>1, <1>4, <1>5, <1>6, <1>7 DEF HeldIsSwapping
  <1>9. CountersTrue'
    BY <1>1, <1>2, <1>4, QueueChanges DEF IInv, CountersTrue
  <1>10. NoLostWakeup'
    BY <1>2, <1>3, NobodySleepsIn
  <1>11. QED
    BY <1>3, <1>6, <1>8, <1>9, <1>10 DEF IInv

\* An operation or a read gets in: no rebuild does what it does alone.
LEMMA AdmitStep ==
  ASSUME Sensible, IInv, NEW t \in Threads, Admit(t), pc[t] # "hold"
  PROVE  IInv'
  <1>1. /\ pc[t] \in {"enter", "join", "rejoin"} /\ ~held
        /\ refs' = refs + 1 /\ held' = held /\ pending' = pending /\ want' = want
        /\ pc' = [pc EXCEPT ![t] = "run"] /\ parked' = [parked EXCEPT ![t] = "no"]
        /\ stack' = [stack EXCEPT ![t] =
                       Append(IF pc[t] = "rejoin" THEN Below(t) ELSE @, want[t])]
    BY DEF Admit, ready, Waiting
  <1>2. /\ pc'[t] = "run" /\ parked'[t] = "no" /\ ReasonsKept(t)
        /\ \A u \in Threads \ {t} : pc'[u] = pc[u] /\ parked'[u] = parked[u]
    BY <1>1, TypedOf DEF Typed, ReasonsKept
  <1>3. want[t] \in RefFrames /\ want[t] \in Frames /\ want[t] # "rebuild"
    BY TypedOf, FrameNames
  <1>4. /\ stack' \in [Threads -> Seq(Frames)] /\ Top(t)' = want[t]
        /\ Cardinality(Holders') = Cardinality(Holders) + 1
        /\ \A u \in Threads \ {t} : stack'[u] = stack[u]
        /\ Len(stack'[t]) <= MaxDepth
        /\ \A i \in 1..(Len(stack'[t]) - 1) : stack'[t][i] # "rebuild"
        /\ Top(t) # "rebuild"
    <2>1. CASE pc[t] = "rejoin"
      <3>1. Top(t) = "body" /\ stack' = [stack EXCEPT ![t] = Append(Below(t), want[t])]
        BY <1>1, <2>1, TypedOf DEF Shaped
      <3>2. Top(t) # "none" /\ Top(t) \notin RefFrames
        BY <3>1, FrameNames
      <3>3. /\ stack' \in [Threads -> Seq(Frames)] /\ Top(t)' = want[t]
            /\ Len(stack'[t]) = Len(stack[t])
            /\ \A i \in 1..(Len(stack[t]) - 1) : stack'[t][i] = stack[t][i]
            /\ \A u \in Threads \ {t} : stack'[u] = stack[u]
            /\ Cardinality(Holders') = Cardinality(Holders) + 1
        BY <1>3, <3>1, <3>2, TypedOf, Replaced
      <3>4. /\ Len(stack[t]) <= MaxDepth
            /\ \A i \in 1..(Len(stack[t]) - 1) : stack[t][i] # "rebuild"
        BY TypedOf DEF Shaped
      <3>5. QED
        BY <3>1, <3>3, <3>4
    <2>2. CASE pc[t] # "rejoin"
      <3>1. stack' = [stack EXCEPT ![t] = Append(stack[t], want[t])] /\ Len(stack[t]) < MaxDepth
            /\ Top(t) # "rebuild"
        BY <1>1, <2>2, TypedOf DEF Shaped
      <3>2. /\ stack' \in [Threads -> Seq(Frames)] /\ Top(t)' = want[t]
            /\ Len(stack'[t]) = Len(stack[t]) + 1
            /\ \A i \in 1..Len(stack[t]) : stack'[t][i] = stack[t][i]
            /\ \A u \in Threads \ {t} : stack'[u] = stack[u]
            /\ Cardinality(Holders') = Cardinality(Holders) + 1
        BY <1>3, <3>1, TypedOf, Pushed
      <3>3. ASSUME NEW i \in 1..Len(stack[t]) PROVE stack[t][i] # "rebuild"
        <4>1. Len(stack[t]) \in Nat /\ Len(stack[t]) >= 1
          BY TypedOf, TopIs
        <4>2. CASE i = Len(stack[t])
          BY <3>1, <4>1, <4>2, TypedOf, TopIs
        <4>3. CASE i # Len(stack[t])
          BY <4>1, <4>3, TypedOf DEF Shaped
        <4>4. QED
          BY <4>2, <4>3
      <3>4. Len(stack[t]) \in Nat /\ MaxDepth \in Nat
        BY TypedOf, TopIs DEF Sensible
      <3>5. Len(stack'[t]) <= MaxDepth /\ Len(stack'[t]) - 1 = Len(stack[t])
        BY <3>1, <3>2, <3>4
      <3>6. QED
        BY <3>1, <3>2, <3>3, <3>5
    <2>3. QED
      BY <2>1, <2>2
  <1>5. Elsewhere(t)
    BY <1>2, <1>4 DEF Elsewhere
  <1>6. Typed'
    <2>1. /\ pc' \in [Threads -> Waiting \union {"run", "got", "failed"}]
          /\ parked' \in [Threads -> {"no", "asleep", "woken"}]
      BY <1>1, TypedOf DEF Typed
    <2>2. QED
      BY <1>1, <1>4, <2>1, TypedOf DEF Typed
  <1>7. Shaped(t)' /\ ~Swapping(t)' /\ ~Swapping(t)
    BY <1>1, <1>2, <1>3, <1>4 DEF Shaped, Swapping
  <1>8. CountersTrue'
    <2>1. Cardinality(Queue') = Cardinality(Queue)
      BY <1>1, <1>2, <1>5, QueueChanges
    <2>2. QED
      BY <1>1, <1>4, <2>1, TypedOf DEF CountersTrue
  <1>9. QED
    BY <1>1, <1>2, <1>5, <1>6, <1>7, <1>8, OrdinaryStep

\* The wait is given up; the body of an iteration goes with it.
LEMMA CancelStep ==
  ASSUME Sensible, IInv, NEW t \in Threads, Cancel(t)
  PROVE  IInv'
  <1>1. /\ pc[t] \in Waiting
        /\ pc' = [pc EXCEPT ![t] = IF @ = "hold" THEN "failed" ELSE "run"]
        /\ parked' = [parked EXCEPT ![t] = "no"]
        /\ UNCHANGED <<refs, pending, held, want>>
    BY DEF Cancel
  <1>2. /\ pc'[t] = (IF pc[t] = "hold" THEN "failed" ELSE "run") /\ parked'[t] = "no"
        /\ ReasonsKept(t)
        /\ \A u \in Threads \ {t} : pc'[u] = pc[u] /\ parked'[u] = parked[u]
    BY <1>1, TypedOf DEF Typed, ReasonsKept
  <1>3. Top(t) # "rebuild" /\ pc[t] \notin {"run", "got", "failed"}
    BY <1>1, TypedOf DEF Shaped, Waiting
  <1>4. /\ stack' \in [Threads -> Seq(Frames)] /\ Top(t)' # "rebuild"
        /\ Holders' = Holders
        /\ \A u \in Threads \ {t} : stack'[u] = stack[u]
        /\ Len(stack'[t]) <= MaxDepth
        /\ \A i \in 1..(Len(stack'[t]) - 1) : stack'[t][i] # "rebuild"
    <2>1. CASE pc[t] = "rejoin"
      <3>1. Top(t) = "body" /\ stack' = [stack EXCEPT ![t] = Below(t)]
        BY <1>1, <2>1, TypedOf DEF Cancel, Shaped
      <3>2. Top(t) # "none" /\ Top(t) \notin RefFrames
        BY <3>1, FrameNames
      <3>3. /\ stack' \in [Threads -> Seq(Frames)] /\ Top(t)' # "rebuild"
            /\ Len(stack'[t]) = Len(stack[t]) - 1
            /\ \A i \in 1..(Len(stack[t]) - 1) : stack'[t][i] = stack[t][i]
            /\ \A u \in Threads \ {t} : stack'[u] = stack[u]
            /\ Holders' = Holders
        BY <3>1, <3>2, TypedOf, Popped
      <3>4. Len(stack[t]) \in Nat /\ Len(stack[t]) <= MaxDepth /\ MaxDepth \in Nat
            /\ \A i \in 1..(Len(stack[t]) - 1) : stack[t][i] # "rebuild"
        BY TypedOf, TopIs DEF Shaped, Sensible
      <3>5. Len(stack'[t]) <= MaxDepth
            /\ \A i \in 1..(Len(stack'[t]) - 1) : i \in 1..(Len(stack[t]) - 1)
        BY <3>3, <3>4
      <3>6. QED
        BY <3>3, <3>4, <3>5
    <2>2. CASE pc[t] # "rejoin"
      <3>1. stack' = stack
        BY <2>2, TypedOf DEF Cancel, Typed
      <3>2. Holders' = Holders /\ Top(t)' = Top(t)
        BY <3>1 DEF Holders, Top
      <3>3. QED
        BY <1>3, <3>1, <3>2, TypedOf DEF Shaped, Typed
    <2>3. QED
      BY <2>1, <2>2
  <1>5. Elsewhere(t)
    BY <1>2, <1>4 DEF Elsewhere
  <1>6. Typed'
    <2>1. /\ pc' \in [Threads -> Waiting \union {"run", "got", "failed"}]
          /\ parked' \in [Threads -> {"no", "asleep", "woken"}]
      BY <1>1, TypedOf DEF Typed
    <2>2. QED
      BY <1>1, <1>4, <2>1, TypedOf DEF Typed
  <1>7. Shaped(t)' /\ ~Swapping(t)' /\ ~Swapping(t)
    BY <1>2, <1>3, <1>4 DEF Shaped, Swapping
  <1>8. CountersTrue'
    <2>1. Cardinality(Queue') = Cardinality(Queue)
      BY <1>2, <1>3, <1>5, QueueChanges
    <2>2. QED
      BY <1>1, <1>4, <2>1, TypedOf DEF CountersTrue
  <1>9. QED
    BY <1>1, <1>2, <1>4, <1>5, <1>6, <1>7, <1>8, OrdinaryStep DEF IInv, HeldIsSwapping

\* A call comes to the gate.
LEMMA RequestStep ==
  ASSUME Sensible, IInv, NEW t \in Threads, NEW c, NEW f \in RefFrames,
         pc[t] = "run", Top(t) # "rebuild", Request(t, c, f),
         \/ c \in {"enter", "join"} /\ Len(stack[t]) < MaxDepth
         \/ c = "rejoin" /\ Top(t) = "body",
         UNCHANGED <<refs, pending, held, stack, parked>>
  PROVE  IInv'
  <1>1. /\ c \in {"enter", "join", "rejoin"} /\ c \in Waiting
        /\ pc' = [pc EXCEPT ![t] = c] /\ want' = [want EXCEPT ![t] = f]
    BY DEF Request, Waiting
  <1>2. pc'[t] = c /\ parked[t] = "no" /\ parked'[t] = "no" /\ Elsewhere(t) /\ ReasonsKept(t)
    <2>1. parked[t] = "no"
      BY TypedOf DEF Waiting
    <2>2. QED
      BY <1>1, <2>1, TypedOf DEF Typed, Elsewhere, ReasonsKept
  <1>3. Typed'
    <2>1. /\ pc' \in [Threads -> Waiting \union {"run", "got", "failed"}]
          /\ want' \in [Threads -> RefFrames]
      BY <1>1, TypedOf DEF Typed
    <2>2. QED
      BY <2>1, TypedOf DEF Typed
  <1>4. Holders' = Holders /\ Top(t)' = Top(t)
    BY DEF Holders, Top
  <1>5. Shaped(t)' /\ ~Swapping(t)' /\ ~Swapping(t)
    BY <1>1, <1>2, <1>4, TypedOf DEF Shaped, Swapping
  <1>6. CountersTrue'
    <2>1. Cardinality(Queue') = Cardinality(Queue)
      BY <1>1, <1>2, QueueChanges
    <2>2. QED
      BY <1>4, <2>1, TypedOf DEF CountersTrue
  <1>7. QED
    BY <1>2, <1>3, <1>4, <1>5, <1>6, OrdinaryStep DEF IInv, HeldIsSwapping

\* What a notification does to the sleepers.
LEMMA Notified ==
  ASSUME IInv, NEW t \in Threads, pc[t] \notin Waiting,
         parked' = notify(parked) \/ parked' = parked
  PROVE  /\ parked' \in [Threads -> {"no", "asleep", "woken"}] /\ parked'[t] = "no"
         /\ \A u \in Threads : \/ parked'[u] = parked[u]
                               \/ parked[u] = "asleep" /\ parked'[u] = "woken"
         /\ parked' = notify(parked) => \A u \in Threads : parked'[u] # "asleep"
  <1>1. parked \in [Threads -> {"no", "asleep", "woken"}] /\ parked[t] = "no"
    BY TypedOf DEF Typed
  <1>2. QED
    BY <1>1 DEF notify

\* The end of a frame that counts; with the last one the sleepers are woken.
LEMMA LeaveStep ==
  ASSUME Sensible, IInv, NEW t \in Threads, pc[t] = "run", Top(t) \in RefFrames,
         refs' = refs - 1, parked' = IF refs = 1 THEN notify(parked) ELSE parked,
         \/ stack' = [stack EXCEPT ![t] = Below(t)]
         \/ \E f \in {"body", "callback"} : stack' = [stack EXCEPT ![t] = Append(Below(t), f)],
         UNCHANGED <<pending, held, pc, want>>
  PROVE  IInv'
  <1>1. Top(t) # "none" /\ Top(t) # "rebuild"
    BY FrameNames
  <1>2. /\ parked' \in [Threads -> {"no", "asleep", "woken"}] /\ parked'[t] = "no"
        /\ \A u \in Threads : \/ parked'[u] = parked[u]
                              \/ parked[u] = "asleep" /\ parked'[u] = "woken"
        /\ refs = 1 => \A u \in Threads : parked'[u] # "asleep"
    BY Notified DEF Waiting
  <1>3. /\ stack' \in [Threads -> Seq(Frames)] /\ Top(t)' # "rebuild"
        /\ Len(stack'[t]) \in {Len(stack[t]) - 1, Len(stack[t])}
        /\ \A i \in 1..(Len(stack[t]) - 1) : stack'[t][i] = stack[t][i]
        /\ \A u \in Threads \ {t} : stack'[u] = stack[u]
        /\ Cardinality(Holders') = Cardinality(Holders) - 1 /\ Holders # {}
    <2>1. CASE stack' = [stack EXCEPT ![t] = Below(t)]
      BY <1>1, <2>1, TypedOf, Popped
    <2>2. ASSUME NEW f \in {"body", "callback"},
                 stack' = [stack EXCEPT ![t] = Append(Below(t), f)]
          PROVE  <1>3
      <3>1. f \in Frames /\ f \notin RefFrames /\ f # "rebuild"
        BY FrameNames
      <3>2. QED
        BY <1>1, <2>2, <3>1, TypedOf, Replaced
    <2>3. QED
      BY <2>1, <2>2
  <1>4. /\ Len(stack[t]) \in Nat /\ Len(stack[t]) >= 1 /\ Len(stack[t]) <= MaxDepth
        /\ MaxDepth \in Nat
        /\ \A i \in 1..(Len(stack[t]) - 1) : stack[t][i] # "rebuild"
    BY <1>1, TypedOf, TopIs DEF Shaped, Sensible
  <1>5. /\ Len(stack'[t]) <= MaxDepth
        /\ \A i \in 1..(Len(stack'[t]) - 1) : stack'[t][i] # "rebuild"
    <2>1. \A i \in 1..(Len(stack'[t]) - 1) : i \in 1..(Len(stack[t]) - 1)
      BY <1>3, <1>4
    <2>2. QED
      BY <1>3, <1>4, <2>1
  <1>6. Cardinality(Holders) \in Nat /\ Cardinality(Holders) # 0 /\ refs = Cardinality(Holders)
    BY <1>3, Counted DEF IInv, CountersTrue
  <1>7. ~held
    BY <1>3 DEF IInv, HeldIsSwapping
  <1>8. Elsewhere(t) /\ ReasonsKept(t)
    BY <1>2, <1>3, <1>6, <1>7 DEF Elsewhere, ReasonsKept
  <1>9. Typed'
    BY <1>2, <1>3, <1>6, TypedOf DEF Typed
  <1>10. Shaped(t)' /\ ~Swapping(t)' /\ ~Swapping(t)
    BY <1>1, <1>2, <1>3, <1>5 DEF Shaped, Swapping
  <1>11. CountersTrue'
    <2>1. Cardinality(Queue') = Cardinality(Queue)
      BY <1>8, QueueChanges
    <2>2. QED
      BY <1>3, <1>6, <2>1, TypedOf DEF CountersTrue
  <1>12. QED
    BY <1>2, <1>7, <1>8, <1>9, <1>10, <1>11, OrdinaryStep

\* A callback begins or ends: neither touches the gate.
LEMMA CallbackStep ==
  ASSUME Sensible, IInv, NEW t \in Threads, pc[t] = "run", Top(t) # "rebuild",
         \/ Len(stack[t]) < MaxDepth /\ stack' = [stack EXCEPT ![t] = Append(@, "callback")]
         \/ Top(t) = "callback" /\ stack' = [stack EXCEPT ![t] = Below(t)],
         UNCHANGED <<refs, pending, held, pc, want, parked>>
  PROVE  IInv'
  <1>1. parked'[t] = "no"
    BY TypedOf DEF Waiting
  <1>2. /\ stack' \in [Threads -> Seq(Frames)] /\ Top(t)' # "rebuild"
        /\ Holders' = Holders
        /\ \A u \in Threads \ {t} : stack'[u] = stack[u]
        /\ Len(stack'[t]) <= MaxDepth
        /\ \A i \in 1..(Len(stack'[t]) - 1) : stack'[t][i] # "rebuild"
    <2>1. /\ Len(stack[t]) \in Nat /\ Len(stack[t]) <= MaxDepth /\ MaxDepth \in Nat
          /\ \A i \in 1..(Len(stack[t]) - 1) : stack[t][i] # "rebuild"
      BY TypedOf, TopIs DEF Shaped, Sensible
    <2>2. CASE Top(t) = "callback" /\ stack' = [stack EXCEPT ![t] = Below(t)]
      <3>1. Top(t) # "none" /\ Top(t) \notin RefFrames
        BY <2>2, FrameNames
      <3>2. /\ stack' \in [Threads -> Seq(Frames)] /\ Top(t)' # "rebuild"
            /\ Len(stack'[t]) = Len(stack[t]) - 1
            /\ \A i \in 1..(Len(stack[t]) - 1) : stack'[t][i] = stack[t][i]
            /\ \A u \in Threads \ {t} : stack'[u] = stack[u]
            /\ Holders' = Holders
        BY <2>2, <3>1, TypedOf, Popped
      <3>3. Len(stack'[t]) <= MaxDepth
            /\ \A i \in 1..(Len(stack'[t]) - 1) : i \in 1..(Len(stack[t]) - 1)
        BY <2>1, <3>2
      <3>4. QED
        BY <2>1, <3>2, <3>3
    <2>3. CASE Len(stack[t]) < MaxDepth /\ stack' = [stack EXCEPT ![t] = Append(@, "callback")]
      <3>1. stack' = [stack EXCEPT ![t] = Append(stack[t], "callback")]
            /\ "callback" \in Frames /\ "callback" \notin RefFrames
        BY <2>3, FrameNames
      <3>2. /\ stack' \in [Threads -> Seq(Frames)] /\ Top(t)' = "callback"
            /\ Len(stack'[t]) = Len(stack[t]) + 1
            /\ \A i \in 1..Len(stack[t]) : stack'[t][i] = stack[t][i]
            /\ \A u \in Threads \ {t} : stack'[u] = stack[u]
            /\ Holders' = Holders
        BY <2>3, <3>1, TypedOf, Pushed
      <3>3. ASSUME NEW i \in 1..Len(stack[t]) PROVE stack[t][i] # "rebuild"
        <4>1. CASE i = Len(stack[t])
          BY <2>1, <4>1, TypedOf, TopIs
        <4>2. CASE i # Len(stack[t])
          BY <2>1, <4>2
        <4>3. QED
          BY <4>1, <4>2
      <3>4. Len(stack'[t]) <= MaxDepth /\ Len(stack'[t]) - 1 = Len(stack[t])
        BY <2>1, <2>3, <3>2
      <3>5. QED
        BY <3>2, <3>3, <3>4
    <2>4. QED
      BY <2>2, <2>3
  <1>3. Elsewhere(t) /\ ReasonsKept(t)
    BY <1>2 DEF Elsewhere, ReasonsKept
  <1>4. Typed'
    BY <1>2, TypedOf DEF Typed
  <1>5. Shaped(t)' /\ ~Swapping(t)' /\ ~Swapping(t)
    BY <1>1, <1>2 DEF Shaped, Swapping
  <1>6. CountersTrue'
    <2>1. Cardinality(Queue') = Cardinality(Queue)
      BY <1>3, QueueChanges
    <2>2. QED
      BY <1>2, <2>1, TypedOf DEF CountersTrue
  <1>7. QED
    BY <1>1, <1>2, <1>3, <1>4, <1>5, <1>6, OrdinaryStep DEF IInv, HeldIsSwapping

\* Rebuild asks for the gate.
LEMMA CallRebuildStep ==
  ASSUME Sensible, IInv, NEW t \in Threads, CallRebuild(t)
  PROVE  IInv'
  <1>1. /\ pc[t] = "run" /\ Top(t) # "rebuild" /\ Len(stack[t]) < MaxDepth
        /\ pending' = pending + 1 /\ pc' = [pc EXCEPT ![t] = "hold"]
        /\ UNCHANGED <<refs, held, stack, want, parked>>
    BY DEF CallRebuild, UserCode, Room
  <1>2. pc'[t] = "hold" /\ parked[t] = "no" /\ parked'[t] = "no" /\ Elsewhere(t) /\ ReasonsKept(t)
    <2>1. parked[t] = "no"
      BY <1>1, TypedOf DEF Waiting
    <2>2. QED
      BY <1>1, <2>1, TypedOf DEF Typed, Elsewhere, ReasonsKept
  <1>3. Typed'
    <2>1. pc' \in [Threads -> Waiting \union {"run", "got", "failed"}]
      BY <1>1, TypedOf DEF Typed, Waiting
    <2>2. QED
      BY <1>1, <2>1, TypedOf DEF Typed
  <1>4. Holders' = Holders /\ Top(t)' = Top(t)
    BY <1>1 DEF Holders, Top
  <1>5. Shaped(t)' /\ ~Swapping(t)' /\ ~Swapping(t)
    BY <1>1, <1>2, <1>4, TypedOf DEF Shaped, Swapping, Waiting
  <1>6. CountersTrue'
    <2>1. Cardinality(Queue') = Cardinality(Queue) + 1
      BY <1>1, <1>2, QueueChanges
    <2>2. QED
      BY <1>1, <1>4, <2>1, TypedOf DEF CountersTrue
  <1>7. QED
    BY <1>1, <1>2, <1>3, <1>4, <1>5, <1>6, OrdinaryStep DEF IInv, HeldIsSwapping

\* The caller of hold leaves the queue: with the gate it goes on to the swap,
\* without it it returns.
LEMMA SettleStep ==
  ASSUME Sensible, IInv, NEW t \in Threads, Settle(t)
  PROVE  IInv'
  <1>1. /\ pc[t] \in {"got", "failed"} /\ pending' = pending - 1 /\ parked' = notify(parked)
        /\ pc' = [pc EXCEPT ![t] = "run"]
        /\ stack' = [stack EXCEPT ![t] = IF pc[t] = "got" THEN Append(@, "rebuild") ELSE @]
        /\ UNCHANGED <<refs, held, want>>
    BY DEF Settle, Settled
  <1>2. /\ parked' \in [Threads -> {"no", "asleep", "woken"}] /\ parked'[t] = "no"
        /\ \A u \in Threads : \/ parked'[u] = parked[u]
                              \/ parked[u] = "asleep" /\ parked'[u] = "woken"
        /\ \A u \in Threads : parked'[u] # "asleep"
    <2>1. pc[t] \notin Waiting
      BY <1>1 DEF Waiting
    <2>2. QED
      BY <1>1, <2>1, Notified
  <1>3. pc'[t] = "run" /\ \A u \in Threads \ {t} : pc'[u] = pc[u]
    BY <1>1, TypedOf DEF Typed
  <1>4. /\ Len(stack[t]) \in Nat /\ Len(stack[t]) <= MaxDepth /\ MaxDepth \in Nat
        /\ \A i \in 1..(Len(stack[t]) - 1) : stack[t][i] # "rebuild"
        /\ Top(t) # "rebuild"
    BY <1>1, TypedOf, TopIs DEF Shaped, Sensible
  <1>5. /\ stack' \in [Threads -> Seq(Frames)] /\ Holders' = Holders
        /\ pc[t] = "got" <=> Top(t)' = "rebuild"
        /\ \A u \in Threads \ {t} : stack'[u] = stack[u]
        /\ Len(stack'[t]) <= MaxDepth
        /\ \A i \in 1..(Len(stack'[t]) - 1) : stack'[t][i] # "rebuild"
    <2>1. CASE pc[t] = "got"
      <3>1. /\ stack' = [stack EXCEPT ![t] = Append(stack[t], "rebuild")]
            /\ Len(stack[t]) < MaxDepth /\ "rebuild" \in Frames /\ "rebuild" \notin RefFrames
        BY <1>1, <2>1, TypedOf, FrameNames DEF Shaped
      <3>2. /\ stack' \in [Threads -> Seq(Frames)] /\ Top(t)' = "rebuild"
            /\ Len(stack'[t]) = Len(stack[t]) + 1
            /\ \A i \in 1..Len(stack[t]) : stack'[t][i] = stack[t][i]
            /\ \A u \in Threads \ {t} : stack'[u] = stack[u]
            /\ Holders' = Holders
        BY <3>1, TypedOf, Pushed
      <3>3. ASSUME NEW i \in 1..Len(stack[t]) PROVE stack[t][i] # "rebuild"
        <4>1. CASE i = Len(stack[t])
          BY <1>4, <4>1, TypedOf, TopIs
        <4>2. CASE i # Len(stack[t])
          BY <1>4, <4>2
        <4>3. QED
          BY <4>1, <4>2
      <3>4. Len(stack'[t]) <= MaxDepth /\ Len(stack'[t]) - 1 = Len(stack[t])
        BY <1>4, <3>1, <3>2
      <3>5. QED
        BY <2>1, <3>2, <3>3, <3>4
    <2>2. CASE pc[t] # "got"
      <3>1. stack' = stack
        BY <1>1, <2>2, TypedOf DEF Typed
      <3>2. Holders' = Holders /\ Top(t)' = Top(t)
        BY <3>1 DEF Holders, Top
      <3>3. QED
        BY <1>4, <2>2, <3>1, <3>2, TypedOf DEF Typed
    <2>3. QED
      BY <2>1, <2>2
  <1>6. Elsewhere(t) /\ ReasonsKept(t)
    BY <1>2, <1>3, <1>5 DEF Elsewhere, ReasonsKept
  <1>7. /\ Cardinality(Queue') = Cardinality(Queue) - 1
        /\ Cardinality(Queue) \in Nat /\ Cardinality(Queue) # 0
    <2>1. Cardinality(Queue') = Cardinality(Queue) - 1 /\ Queue # {}
      BY <1>1, <1>3, <1>6, QueueChanges
    <2>2. QED
      BY <2>1, Counted
  <1>8. CountersTrue' /\ pending' \in Nat
    BY <1>1, <1>5, <1>7, TypedOf DEF CountersTrue
  <1>9. Typed'
    <2>1. pc' \in [Threads -> Waiting \union {"run", "got", "failed"}]
      BY <1>1, TypedOf DEF Typed
    <2>2. QED
      BY <1>1, <1>2, <1>5, <1>8, <2>1, TypedOf DEF Typed
  <1>10. Shaped(t)' /\ (Swapping(t)' <=> Swapping(t))
    <2>1. Shaped(t)'
      BY <1>2, <1>3, <1>5 DEF Shaped
    <2>2. QED
      BY <1>3, <1>4, <1>5, <2>1 DEF Swapping
  <1>11. QED
    BY <1>1, <1>2, <1>5, <1>6, <1>8, <1>9, <1>10, OrdinaryStep DEF IInv, HeldIsSwapping

\* The one rebuild that held the gate is over.
LEMMA ReleaseStep ==
  ASSUME Sensible, IInv, NEW t \in Threads, Release(t)
  PROVE  IInv'
  <1>1. /\ pc[t] = "run" /\ Top(t) = "rebuild" /\ held' = FALSE /\ parked' = notify(parked)
        /\ stack' = [stack EXCEPT ![t] = Below(t)]
        /\ UNCHANGED <<refs, pending, pc, want>>
    BY DEF Release
  <1>2. Top(t) # "none" /\ Top(t) \notin RefFrames
    BY <1>1, FrameNames
  <1>3. /\ parked' \in [Threads -> {"no", "asleep", "woken"}] /\ parked'[t] = "no"
        /\ \A u \in Threads : \/ parked'[u] = parked[u]
                              \/ parked[u] = "asleep" /\ parked'[u] = "woken"
        /\ \A u \in Threads : parked'[u] # "asleep"
    <2>1. pc[t] \notin Waiting
      BY <1>1 DEF Waiting
    <2>2. QED
      BY <1>1, <2>1, Notified
  <1>4. /\ Len(stack[t]) \in Nat /\ Len(stack[t]) <= MaxDepth /\ MaxDepth \in Nat
        /\ \A i \in 1..(Len(stack[t]) - 1) : stack[t][i] # "rebuild"
    BY <1>1, TypedOf, TopIs DEF Shaped, Sensible
  <1>5. /\ stack' \in [Threads -> Seq(Frames)] /\ Top(t)' # "rebuild"
        /\ Len(stack'[t]) = Len(stack[t]) - 1
        /\ \A i \in 1..(Len(stack[t]) - 1) : stack'[t][i] = stack[t][i]
        /\ \A u \in Threads \ {t} : stack'[u] = stack[u]
        /\ Holders' = Holders
    BY <1>1, <1>2, TypedOf, Popped
  <1>6. /\ Len(stack'[t]) <= MaxDepth
        /\ \A i \in 1..(Len(stack'[t]) - 1) : stack'[t][i] # "rebuild"
    <2>1. Len(stack'[t]) <= MaxDepth
          /\ \A i \in 1..(Len(stack'[t]) - 1) : i \in 1..(Len(stack[t]) - 1)
      BY <1>4, <1>5
    <2>2. QED
      BY <1>4, <1>5, <2>1
  <1>7. Elsewhere(t) /\ ReasonsKept(t)
    BY <1>1, <1>3, <1>5 DEF Elsewhere, ReasonsKept
  <1>8. Shaped(t)' /\ ~Swapping(t)' /\ Swapping(t)
    BY <1>1, <1>3, <1>5, <1>6 DEF Shaped, Swapping
  <1>9. AllShaped' /\ \A u \in Threads : ~Swapping(u)'
    BY <1>7, <1>8, OthersStay DEF IInv, HeldIsSwapping
  <1>10. HeldIsSwapping'
    BY <1>1, <1>9 DEF HeldIsSwapping
  <1>11. Typed'
    BY <1>1, <1>3, <1>5, TypedOf DEF Typed
  <1>12. CountersTrue'
    <2>1. Cardinality(Queue') = Cardinality(Queue)
      BY <1>1, <1>7, QueueChanges
    <2>2. QED
      BY <1>1, <1>5, <2>1, TypedOf DEF CountersTrue
  <1>13. NoLostWakeup'
    BY <1>3 DEF NoLostWakeup
  <1>14. QED
    BY <1>9, <1>10, <1>11, <1>12, <1>13 DEF IInv

LEMMA Inductive == ASSUME Sensible, IInv, [Next]_vars PROVE IInv'
  <1>1. ASSUME NEW t \in Threads, Step(t) PROVE IInv'
    <2>1. CASE Park(t)
      BY <2>1, ParkStep
    <2>2. CASE Admit(t)
      BY <2>2, AdmitStep, AdmitHoldStep
    <2>3. CASE Cancel(t)
      BY <2>3, CancelStep
    <2>4. CASE CallOp(t)
      <3>1. PICK f \in RefFrames : Request(t, "enter", f)
        BY <2>4 DEF CallOp, RefFrames
      <3>2. /\ pc[t] = "run" /\ Top(t) # "rebuild" /\ Len(stack[t]) < MaxDepth
            /\ UNCHANGED <<refs, pending, held, stack, parked>>
        BY <2>4 DEF CallOp, UserCode, Room
      <3>3. QED
        BY <3>1, <3>2, RequestStep
    <2>5. CASE CallRead(t)
      <3>1. PICK f \in RefFrames : Request(t, "join", f)
        BY <2>5 DEF CallRead, RefFrames
      <3>2. /\ pc[t] = "run" /\ Top(t) # "rebuild" /\ Len(stack[t]) < MaxDepth
            /\ UNCHANGED <<refs, pending, held, stack, parked>>
        BY <2>5 DEF CallRead, UserCode, LibraryCode, Room
      <3>3. QED
        BY <3>1, <3>2, RequestStep
    <2>6. CASE Yield(t)
      BY <2>6, LeaveStep DEF Yield, RefFrames
    <2>7. CASE Resume(t)
      <3>1. "last" \in RefFrames
        BY DEF RefFrames
      <3>2. QED
        BY <2>7, <3>1, RequestStep DEF Resume
    <2>8. CASE Exit(t)
      BY <2>8, LeaveStep DEF Exit
    <2>9. CASE CommitTx(t)
      BY <2>9, CallbackStep DEF CommitTx, UserCode, Room
    <2>10. CASE SettleSweep(t)
      BY <2>10, CallbackStep DEF SettleSweep, Room
    <2>11. CASE EndCallback(t)
      BY <2>11, CallbackStep DEF EndCallback
    <2>12. CASE CallRebuild(t)
      BY <2>12, CallRebuildStep
    <2>13. CASE Settle(t)
      BY <2>13, SettleStep
    <2>14. CASE Release(t)
      BY <2>14, ReleaseStep
    <2>15. QED
      BY <1>1, <2>1, <2>2, <2>3, <2>4, <2>5, <2>6, <2>7, <2>8, <2>9, <2>10, <2>11,
         <2>12, <2>13, <2>14 DEF Step
  <1>2. CASE UNCHANGED vars
    <2>1. UNCHANGED <<refs, pending, held, stack, pc, want, parked>>
      BY <1>2 DEF vars
    <2>2. /\ Holders' = Holders /\ Queue' = Queue
          /\ \A t \in Threads : /\ Top(t)' = Top(t) /\ (ready(t)' <=> ready(t))
                              /\ (Swapping(t)' <=> Swapping(t))
      BY <2>1 DEF Holders, Queue, Top, ready, Swapping
    <2>3. Typed' /\ CountersTrue'
      BY <2>1, <2>2 DEF IInv, Typed, CountersTrue
    <2>4. AllShaped'
      BY <2>1, <2>2 DEF IInv, AllShaped, Shaped
    <2>5. HeldIsSwapping' /\ NoLostWakeup'
      BY <2>1, <2>2 DEF IInv, HeldIsSwapping, NoLostWakeup
    <2>6. QED
      BY <2>3, <2>4, <2>5 DEF IInv
  <1>3. QED
    BY <1>1, <1>2 DEF Next

-----------------------------------------------------------------------------
(* The theorems.                                                           *)

\* The inductive invariant holds in every state of the gate
\* (src/connection.go, coreGate).
THEOREM Invariant == ASSUME Sensible PROVE Spec => []IInv
  <1>1. Init => IInv
    BY Initially
  <1>2. IInv /\ [Next]_vars => IInv'
    BY Inductive
  <1>3. QED
    BY <1>1, <1>2, PTL DEF Spec

\* refs and pending are, at all times, the number of frames inside the gate
\* and of callers of Rebuild that have not settled: no path of the code
\* forgets to give one back or gives one back twice.
THEOREM CountersAreTrue == ASSUME Sensible PROVE Spec => []CountsAgree
  <1>1. IInv => CountsAgree
    BY DEF IInv, CountersTrue, CountsAgree, Queue
  <1>2. QED
    BY <1>1, Invariant, PTL

\* While a rebuild swaps the core there is one rebuild, the gate is held and
\* no operation, read or iteration of any goroutine is inside.
THEOREM RebuildsAreAlone == ASSUME Sensible PROVE Spec => []RebuildAlone
  <1>1. IInv => RebuildAlone
    BY DEF IInv, HeldIsSwapping, RebuildAlone
  <1>2. QED
    BY <1>1, Invariant, PTL

\* A goroutine asleep at the gate waits for something that has not come
\* true: every change that could let it in has woken it.
THEOREM NoWakeupIsLost == ASSUME Sensible PROVE Spec => []NoLostWakeup
  <1>1. IInv => NoLostWakeup
    BY DEF IInv
  <1>2. QED
    BY <1>1, Invariant, PTL

-----------------------------------------------------------------------------
(* The sweepers of a handle, which run behind its gate (TtlSweeper): for   *)
(* any callers, collections, documents and batch sizes, one sweeper for    *)
(* each collection, none after Close, and no document deleted before its   *)
(* date.                                                                   *)

CONSTANTS Callers, Colls, Exprs, Docs, Batch, MaxTime
VARIABLES exprs, closed, close, call, sweeper, now, expires, lock
Ttl == INSTANCE TtlSweeper


\* A time is a number, and "none" is neither a collection nor an expression.
TtlSensible == MaxTime \in Nat /\ Ttl!None \notin Colls /\ Ttl!None \notin Exprs

SweepPlaces == {"first", "select", "delete", "yield", "asleep"}
SweeperRecs == [coll : Colls, at : SweepPlaces, until : Nat, ids : SUBSET Docs, id : Nat]

TtlTyped ==
  /\ exprs \in [Colls -> Exprs \cup {Ttl!None}]
  /\ closed \in BOOLEAN
  /\ close \in {"no", "waiting", "done"}
  /\ sweeper \subseteq SweeperRecs
  /\ now \in Nat
  /\ expires \in [Colls \X Docs -> Nat \ {0}]
  /\ lock \in [Colls -> Colls \cup {Ttl!None}]
  /\ DOMAIN call = Callers

\* A call that builds its index has a collection and an expression.
TtlCallsTyped ==
  \A u \in Callers : call[u].at \in {"index", "register"} =>
    /\ call[u].coll \in Colls /\ call[u].expr \in Exprs
    /\ call[u] = [at |-> call[u].at, coll |-> call[u].coll, expr |-> call[u].expr]

\* What keeps a second sweeper away: a registration is never undone.
SweepersRegistered == \A s \in sweeper : exprs[s.coll] # Ttl!None

\* What keeps a registration away after Close.
CloseCloses == close # "no" => closed

\* The documents of a batch are held by the write lock from the moment their
\* dates are looked at, and the time a sweep compares with has passed.
BatchHeld ==
  \A s \in sweeper :
    /\ s.until <= now
    /\ s.at = "delete" =>
         /\ lock[s.coll] = s.coll
         /\ \A d \in s.ids : expires[<<s.coll, d>>] <= s.until

TtlIInv ==
  /\ TtlTyped /\ TtlCallsTyped /\ SweepersRegistered /\ CloseCloses /\ BatchHeld
  /\ Ttl!OneSweeperEach /\ Ttl!NoneAfterClose

-----------------------------------------------------------------------------
LEMMA TtlInitially == ASSUME TtlSensible, Ttl!Init PROVE TtlIInv
  <1>1. TtlTyped
    <2>1. expires \in [Colls \X Docs -> Nat \ {0}]
      BY DEF Ttl!Init
    <2>2. QED
      BY <2>1 DEF TtlSensible, Ttl!Init, TtlTyped
  <1>2. TtlCallsTyped
    BY DEF Ttl!Init, TtlCallsTyped
  <1>3. SweepersRegistered /\ CloseCloses /\ BatchHeld /\ Ttl!OneSweeperEach /\ Ttl!NoneAfterClose
    BY DEF Ttl!Init, SweepersRegistered, CloseCloses, BatchHeld, Ttl!OneSweeperEach, Ttl!NoneAfterClose
  <1>4. QED
    BY <1>1, <1>2, <1>3 DEF TtlIInv

\* Neither the sweepers nor what they look at changes.
LEMMA TtlCallStep ==
  ASSUME TtlSensible, TtlIInv, NEW u \in Callers,
         (\E c \in Colls, e \in Exprs : Ttl!EnsureTTL(u, c, e)) \/ Ttl!EnsureIndexOn(u)
  PROVE  TtlIInv'
  <1>1. UNCHANGED <<exprs, closed, close, sweeper, now, expires, lock>>
    BY DEF Ttl!EnsureTTL, Ttl!EnsureIndexOn
  <1>2. DOMAIN call' = Callers
    BY DEF Ttl!EnsureTTL, Ttl!EnsureIndexOn, TtlIInv, TtlTyped
  <1>3. TtlCallsTyped'
    <2> SUFFICES ASSUME NEW v \in Callers, call'[v].at \in {"index", "register"}
                 PROVE  /\ call'[v].coll \in Colls /\ call'[v].expr \in Exprs
                        /\ call'[v] = [at |-> call'[v].at, coll |-> call'[v].coll,
                                       expr |-> call'[v].expr]
      BY DEF TtlCallsTyped
    <2>1. CASE v # u
      <3>1. call'[v] = call[v]
        BY <2>1 DEF Ttl!EnsureTTL, Ttl!EnsureIndexOn, TtlIInv, TtlTyped
      <3>2. QED
        BY <3>1 DEF TtlIInv, TtlCallsTyped
    <2>2. CASE v = u /\ Ttl!EnsureIndexOn(u)
      <3>1. call[u].at = "index"
        BY <2>2 DEF Ttl!EnsureIndexOn
      <3>2. call[u] = [at |-> "index", coll |-> call[u].coll, expr |-> call[u].expr]
            /\ call[u].coll \in Colls /\ call[u].expr \in Exprs
        BY <3>1 DEF TtlIInv, TtlCallsTyped
      <3>3. call'[u] = [call[u] EXCEPT !.at = "register"]
        BY <2>2 DEF Ttl!EnsureIndexOn, TtlIInv, TtlTyped
      <3>4. call'[u] = [at |-> "register", coll |-> call[u].coll, expr |-> call[u].expr]
        BY <3>2, <3>3
      <3>5. QED
        BY <2>2, <3>2, <3>4
    <2>3. CASE v = u /\ ~Ttl!EnsureIndexOn(u)
      <3>1. PICK c \in Colls, e \in Exprs : Ttl!EnsureTTL(u, c, e)
        BY <2>3
      <3>2. call'[u] = [at |-> "index", coll |-> c, expr |-> e] \/ call'[u] = [at |-> "returned"]
        BY <3>1 DEF Ttl!EnsureTTL, TtlIInv, TtlTyped
      <3>3. call'[u] = [at |-> "index", coll |-> c, expr |-> e]
        BY <2>3, <3>2
      <3>4. QED
        BY <2>3, <3>3
    <2>4. QED
      BY <2>1, <2>2, <2>3
  <1>4. QED
    BY <1>1, <1>2, <1>3 DEF TtlIInv, TtlTyped, SweepersRegistered, CloseCloses, BatchHeld,
                            Ttl!OneSweeperEach, Ttl!NoneAfterClose

\* Both modules count in the same way.
LEMMA SameCount == ASSUME NEW S PROVE Ttl!Cardinality(S) = Cardinality(S)
  BY DEF Ttl!Cardinality, Cardinality

\* The second check, under the lock of the set: a new sweeper is the only one
\* of its collection, and there is none after Close.
LEMMA TtlRegisterStep ==
  ASSUME TtlSensible, TtlIInv, NEW u \in Callers, Ttl!Register(u)
  PROVE  TtlIInv'
  <1> DEFINE c == call[u].coll
             e == call[u].expr
  <1>1. c \in Colls /\ e \in Exprs
    BY DEF Ttl!Register, TtlIInv, TtlCallsTyped
  <1>2. /\ UNCHANGED <<closed, close, now, expires, lock>>
        /\ call' = [call EXCEPT ![u] = [at |-> "returned"]]
    BY DEF Ttl!Register
  <1>3. TtlCallsTyped' /\ DOMAIN call' = Callers
    BY <1>2 DEF TtlIInv, TtlTyped, TtlCallsTyped
  <1>4. CASE Ttl!Rechecked(c, e) = "new"
    <2>1. exprs[c] = Ttl!None /\ ~closed
      BY <1>4 DEF Ttl!Rechecked, Ttl!checkLocked
    <2>2. exprs' = [exprs EXCEPT ![c] = e] /\ sweeper' = sweeper \cup {Ttl!Started(c)}
      BY <1>4 DEF Ttl!Register
    <2>3. {s \in sweeper : s.coll = c} = {}
      BY <2>1 DEF TtlIInv, SweepersRegistered
    <2>4. Ttl!Started(c) = [coll |-> c, at |-> "first", until |-> 0, ids |-> {}, id |-> 0]
      <3>1. Cardinality({s \in sweeper : s.coll = c}) = 0
        BY <2>3, FS_EmptySet
      <3>2. QED
        BY <3>1, SameCount DEF Ttl!Started, Ttl!Sweeper
    <2> HIDE DEF c, e
    <2>5. TtlTyped'
      BY <1>1, <1>2, <1>3, <2>2, <2>4 DEF TtlIInv, TtlTyped, SweeperRecs, SweepPlaces
    <2>6. SweepersRegistered'
      <3>1. exprs'[c] # Ttl!None /\ \A x \in Colls : exprs[x] # Ttl!None => exprs'[x] # Ttl!None
        BY <1>1, <2>2 DEF TtlIInv, TtlTyped, TtlSensible
      <3>2. \A s \in sweeper : s.coll \in Colls
        BY DEF TtlIInv, TtlTyped, SweeperRecs
      <3>3. QED
        BY <2>2, <2>4, <3>1, <3>2 DEF TtlIInv, SweepersRegistered
    <2>7. BatchHeld'
      BY <1>2, <2>2, <2>4 DEF TtlIInv, TtlTyped, BatchHeld
    <2>8. Ttl!OneSweeperEach'
      BY <2>2, <2>3, <2>4 DEF TtlIInv, Ttl!OneSweeperEach
    <2>9. Ttl!NoneAfterClose' /\ CloseCloses'
      BY <1>2, <2>1 DEF TtlIInv, Ttl!NoneAfterClose, CloseCloses
    <2>10. QED
      BY <1>3, <2>5, <2>6, <2>7, <2>8, <2>9 DEF TtlIInv
  <1>5. CASE Ttl!Rechecked(c, e) # "new"
    <2>1. UNCHANGED <<exprs, sweeper>>
      BY <1>5 DEF Ttl!Register
    <2>2. QED
      BY <1>2, <1>3, <2>1 DEF TtlIInv, TtlTyped, SweepersRegistered, CloseCloses, BatchHeld,
                              Ttl!OneSweeperEach, Ttl!NoneAfterClose
  <1>6. QED
    BY <1>4, <1>5

-----------------------------------------------------------------------------
(* A sweep.                                                                *)

\* What becomes of a sweeper, written out field by field.
LEMMA MovesTo ==
  ASSUME NEW s \in SweeperRecs, NEW at
  PROVE  [s EXCEPT !.at = at] =
           [coll |-> s.coll, at |-> at, until |-> s.until, ids |-> s.ids, id |-> s.id]
  BY DEF SweeperRecs

LEMMA MovesWithTime ==
  ASSUME NEW s \in SweeperRecs, NEW at, NEW until
  PROVE  [s EXCEPT !.at = at, !.until = until] =
           [coll |-> s.coll, at |-> at, until |-> until, ids |-> s.ids, id |-> s.id]
  <1> DEFINE r == [s EXCEPT !.at = at]
  <1>1. r = [coll |-> s.coll, at |-> at, until |-> s.until, ids |-> s.ids, id |-> s.id]
    BY DEF SweeperRecs
  <1>2. [s EXCEPT !.at = at, !.until = until] = [r EXCEPT !.until = until]
    OBVIOUS
  <1> HIDE DEF r
  <1>3. QED
    BY <1>1, <1>2

LEMMA MovesWithBatch ==
  ASSUME NEW s \in SweeperRecs, NEW at, NEW ids
  PROVE  [s EXCEPT !.at = at, !.ids = ids] =
           [coll |-> s.coll, at |-> at, until |-> s.until, ids |-> ids, id |-> s.id]
  <1> DEFINE r == [s EXCEPT !.at = at]
  <1>1. r = [coll |-> s.coll, at |-> at, until |-> s.until, ids |-> s.ids, id |-> s.id]
    BY DEF SweeperRecs
  <1>2. [s EXCEPT !.at = at, !.ids = ids] = [r EXCEPT !.ids = ids]
    OBVIOUS
  <1> HIDE DEF r
  <1>3. QED
    BY <1>1, <1>2

LEMMA MovesWithBoth ==
  ASSUME NEW s \in SweeperRecs, NEW at, NEW until, NEW ids
  PROVE  [s EXCEPT !.at = at, !.until = until, !.ids = ids] =
           [coll |-> s.coll, at |-> at, until |-> until, ids |-> ids, id |-> s.id]
  <1> DEFINE r == [s EXCEPT !.at = at, !.until = until]
  <1>1. r = [coll |-> s.coll, at |-> at, until |-> until, ids |-> s.ids, id |-> s.id]
    BY MovesWithTime
  <1>2. [s EXCEPT !.at = at, !.until = until, !.ids = ids] = [r EXCEPT !.ids = ids]
    OBVIOUS
  <1> HIDE DEF r
  <1>3. QED
    BY <1>1, <1>2

\* A sweeper goes on, or ends, and touches at most its own lock and the dates
\* of its own collection.
LEMMA SweeperMoves ==
  ASSUME TtlSensible, TtlIInv, NEW s \in sweeper, NEW t \in SweeperRecs,
         t.coll = s.coll, t.until <= now,
         t.at = "delete" => /\ lock'[s.coll] = s.coll
                            /\ \A d \in t.ids : expires'[<<s.coll, d>>] <= t.until,
         sweeper' = (sweeper \ {s}) \cup {t} \/ sweeper' = sweeper \ {s},
         UNCHANGED <<exprs, closed, close, call, now>>,
         expires' \in [Colls \X Docs -> Nat \ {0}],
         lock' \in [Colls -> Colls \cup {Ttl!None}],
         \A c \in Colls : c # s.coll =>
            /\ lock'[c] = lock[c]
            /\ \A d \in Docs : expires'[<<c, d>>] = expires[<<c, d>>]
  PROVE  TtlIInv'
  <1>1. \A r \in sweeper : r \in SweeperRecs /\ (r # s => r.coll # s.coll)
    BY DEF TtlIInv, TtlTyped, Ttl!OneSweeperEach
  <1>2. TtlTyped' /\ TtlCallsTyped' /\ CloseCloses'
    BY DEF TtlIInv, TtlTyped, TtlCallsTyped, CloseCloses
  <1>3. SweepersRegistered'
    BY DEF TtlIInv, SweepersRegistered
  <1>4. BatchHeld'
    <2> SUFFICES ASSUME NEW r \in sweeper'
                 PROVE  /\ r.until <= now
                        /\ r.at = "delete" =>
                             /\ lock'[r.coll] = r.coll
                             /\ \A d \in r.ids : expires'[<<r.coll, d>>] <= r.until
      BY DEF BatchHeld
    <2>1. CASE r = t
      BY <2>1
    <2>2. CASE r # t
      <3>1. r \in sweeper /\ r # s /\ r.coll # s.coll /\ r.coll \in Colls /\ r.ids \subseteq Docs
        BY <1>1, <2>2 DEF SweeperRecs
      <3>2. QED
        BY <3>1 DEF TtlIInv, BatchHeld
    <2>3. QED
      BY <2>1, <2>2
  <1>5. Ttl!OneSweeperEach'
    BY <1>1 DEF TtlIInv, Ttl!OneSweeperEach
  <1>6. Ttl!NoneAfterClose'
    BY DEF TtlIInv, Ttl!NoneAfterClose
  <1>7. QED
    BY <1>2, <1>3, <1>4, <1>5, <1>6 DEF TtlIInv

LEMMA SweepStep ==
  ASSUME TtlSensible, TtlIInv, NEW s \in sweeper, Ttl!Sweep(s)
  PROVE  TtlIInv'
  <1>1. /\ s \in SweeperRecs /\ now \in Nat
        /\ expires \in [Colls \X Docs -> Nat \ {0}]
        /\ lock \in [Colls -> Colls \cup {Ttl!None}]
    BY DEF TtlIInv, TtlTyped
  <1>2. s = [coll |-> s.coll, at |-> s.at, until |-> s.until, ids |-> s.ids, id |-> s.id]
        /\ s.coll \in Colls /\ s.until \in Nat /\ s.ids \subseteq Docs /\ s.id \in Nat
    BY <1>1 DEF SweeperRecs
  <1>3. s.until <= now
    BY DEF TtlIInv, BatchHeld
  <1>4. UNCHANGED <<exprs, closed, close, call, now>>
    BY DEF Ttl!Sweep, Ttl!LookForWork, Ttl!SelectBatch, Ttl!GiveUp, Ttl!ttlDeleteBatch, Ttl!NextBatch, Ttl!Wake
  <1> DEFINE to(at, until, ids) ==
               [coll |-> s.coll, at |-> at, until |-> until, ids |-> ids, id |-> s.id]
  <1>5. \A at \in SweepPlaces, until \in Nat, ids \in SUBSET Docs :
          /\ to(at, until, ids) \in SweeperRecs
          /\ to(at, until, ids).coll = s.coll /\ to(at, until, ids).until = until
          /\ to(at, until, ids).at = at /\ to(at, until, ids).ids = ids
    BY <1>2 DEF SweeperRecs
  <1>6. CASE Ttl!LookForWork(s)
    <2>1. UNCHANGED <<expires, lock>>
      BY <1>6 DEF Ttl!LookForWork
    <2>2. \/ sweeper' = (sweeper \ {s}) \cup {[s EXCEPT !.at = "asleep"]}
          \/ sweeper' = (sweeper \ {s}) \cup {[s EXCEPT !.at = "select", !.until = now]}
      BY <1>6 DEF Ttl!LookForWork, Ttl!Becomes
    <2>3. /\ [s EXCEPT !.at = "asleep"] = to("asleep", s.until, s.ids)
          /\ [s EXCEPT !.at = "select", !.until = now] = to("select", now, s.ids)
      BY <1>1, MovesTo, MovesWithTime
    <2> HIDE DEF to
    <2>4. PICK at \in {"asleep", "select"}, until \in {s.until, now} :
            sweeper' = (sweeper \ {s}) \cup {to(at, until, s.ids)}
      BY <2>2, <2>3
    <2>5. QED
      BY <1>1, <1>2, <1>3, <1>4, <1>5, <2>1, <2>4, SweeperMoves DEF SweepPlaces
  <1>7. CASE Ttl!SelectBatch(s)
    <2>1. /\ lock[s.coll] = Ttl!None /\ lock' = [lock EXCEPT ![s.coll] = s.coll]
          /\ UNCHANGED expires
      BY <1>7 DEF Ttl!SelectBatch, Ttl!ForUpdate
    <2>2. PICK ids \in SUBSET Ttl!Expired(s.coll, s.until) :
            sweeper' = (sweeper \ {s}) \cup {[s EXCEPT !.at = "delete", !.ids = ids]}
      BY <1>7 DEF Ttl!SelectBatch, Ttl!Becomes
    <2>3. [s EXCEPT !.at = "delete", !.ids = ids] = to("delete", s.until, ids)
      BY <1>1, MovesWithBatch
    <2>4. ids \in SUBSET Docs /\ \A d \in ids : expires[<<s.coll, d>>] <= s.until
      BY <2>2 DEF Ttl!Expired
    <2>5. /\ lock' \in [Colls -> Colls \cup {Ttl!None}] /\ lock'[s.coll] = s.coll
          /\ \A c \in Colls : c # s.coll => lock'[c] = lock[c]
      BY <1>1, <1>2, <2>1
    <2> HIDE DEF to
    <2>6. QED
      BY <1>1, <1>2, <1>3, <1>4, <1>5, <2>1, <2>2, <2>3, <2>4, <2>5, SweeperMoves DEF SweepPlaces
  <1>8. CASE Ttl!GiveUp(s)
    <2>1. lock' = [lock EXCEPT ![s.coll] = IF s.at = "delete" /\ @ = s.coll THEN Ttl!None ELSE @]
          /\ UNCHANGED expires
      BY <1>8 DEF Ttl!GiveUp
    <2>2. sweeper' = (sweeper \ {s}) \cup {to("asleep", 0, {})}
      <3>1. \A ids : [s EXCEPT !.at = "asleep", !.until = 0, !.ids = ids] = to("asleep", 0, ids)
        BY <1>1, MovesWithBoth
      <3>2. [s EXCEPT !.at = "asleep", !.until = 0, !.ids = {}] = to("asleep", 0, {})
        BY <3>1
      <3> HIDE DEF to
      <3>3. QED
        BY <1>8, <3>2 DEF Ttl!GiveUp, Ttl!Becomes
    <2>3. /\ lock' \in [Colls -> Colls \cup {Ttl!None}]
          /\ \A c \in Colls : c # s.coll => lock'[c] = lock[c]
      BY <1>1, <1>2, <2>1
    <2> HIDE DEF to
    <2>4. QED
      BY <1>1, <1>2, <1>4, <1>5, <2>1, <2>2, <2>3, SweeperMoves DEF SweepPlaces
  <1>9. CASE Ttl!ttlDeleteBatch(s)
    <2>1. lock' = [lock EXCEPT ![s.coll] = IF @ = s.coll THEN Ttl!None ELSE @]
      BY <1>9 DEF Ttl!ttlDeleteBatch
    <2>2. PICK at \in {"asleep", "yield"}, until \in {0, s.until} :
            sweeper' = (sweeper \ {s}) \cup {to(at, until, {})}
      <3>1. \/ sweeper' = (sweeper \ {s}) \cup {[s EXCEPT !.at = "asleep", !.until = 0, !.ids = {}]}
            \/ sweeper' = (sweeper \ {s}) \cup {[s EXCEPT !.at = "yield", !.ids = {}]}
        BY <1>9 DEF Ttl!ttlDeleteBatch, Ttl!Becomes
      <3>2. \A ids : [s EXCEPT !.at = "asleep", !.until = 0, !.ids = ids] = to("asleep", 0, ids)
        BY <1>1, MovesWithBoth
      <3>3. \A ids : [s EXCEPT !.at = "yield", !.ids = ids] = to("yield", s.until, ids)
        BY <1>1, MovesWithBatch
      <3>4. /\ [s EXCEPT !.at = "asleep", !.until = 0, !.ids = {}] = to("asleep", 0, {})
            /\ [s EXCEPT !.at = "yield", !.ids = {}] = to("yield", s.until, {})
        BY <3>2, <3>3
      <3> HIDE DEF to
      <3>5. QED
        BY <3>1, <3>4
    <2>3. /\ lock' \in [Colls -> Colls \cup {Ttl!None}]
          /\ \A c \in Colls : c # s.coll => lock'[c] = lock[c]
      BY <1>1, <1>2, <2>1
    <2>4. expires' = [cd \in Colls \X Docs |->
                        IF cd[1] = s.coll /\ cd[2] \in s.ids THEN Ttl!Gone ELSE expires[cd]]
      BY <1>1, <1>9 DEF Ttl!ttlDeleteBatch
    <2>5. Ttl!Gone \in Nat \ {0}
      BY DEF TtlSensible, Ttl!Gone
    <2>6. /\ expires' \in [Colls \X Docs -> Nat \ {0}]
          /\ \A c \in Colls, d \in Docs : c # s.coll => expires'[<<c, d>>] = expires[<<c, d>>]
      BY <1>1, <2>4, <2>5
    <2> HIDE DEF to
    <2>7. /\ to(at, until, {}) \in SweeperRecs /\ to(at, until, {}).coll = s.coll
          /\ to(at, until, {}).at # "delete" /\ to(at, until, {}).until <= now
      <3>1. at \in SweepPlaces /\ until \in Nat /\ {} \in SUBSET Docs /\ at # "delete"
        BY <1>2 DEF SweepPlaces
      <3>2. until <= now
        BY <1>1, <1>3
      <3>3. QED
        BY <1>5, <3>1, <3>2
    <2>8. QED
      BY <1>2, <1>4, <2>2, <2>3, <2>6, <2>7, SweeperMoves
  <1>10. CASE Ttl!NextBatch(s)
    <2>1. UNCHANGED <<expires, lock>>
      BY <1>10 DEF Ttl!NextBatch
    <2>2. sweeper' = (sweeper \ {s}) \cup {to("select", s.until, s.ids)}
      BY <1>2, <1>10 DEF Ttl!NextBatch, Ttl!Becomes
    <2> HIDE DEF to
    <2>3. QED
      BY <1>1, <1>2, <1>3, <1>4, <1>5, <2>1, <2>2, SweeperMoves DEF SweepPlaces
  <1>11. CASE Ttl!Wake(s)
    <2>1. UNCHANGED <<expires, lock>>
      BY <1>11 DEF Ttl!Wake
    <2>2. \/ sweeper' = sweeper \ {s}
          \/ sweeper' = (sweeper \ {s}) \cup {to("first", s.until, s.ids)}
      BY <1>2, <1>11 DEF Ttl!Wake, Ttl!Becomes
    <2> HIDE DEF to
    <2>3. QED
      BY <1>1, <1>2, <1>3, <1>4, <1>5, <2>1, <2>2, SweeperMoves DEF SweepPlaces
  <1>12. QED
    BY <1>6, <1>7, <1>8, <1>9, <1>10, <1>11 DEF Ttl!Sweep

-----------------------------------------------------------------------------
(* Writers, the clock and Ttl!Close.                                           *)

\* A document that a batch holds cannot be renewed: the lock is taken.
LEMMA RenewStep ==
  ASSUME TtlSensible, TtlIInv, NEW c \in Colls, NEW d \in Docs, NEW t \in 1 .. Ttl!Never, Ttl!Renew(c, d, t)
  PROVE  TtlIInv'
  <1>1. /\ lock[c] = Ttl!None /\ expires' = [expires EXCEPT ![<<c, d>>] = t]
        /\ UNCHANGED <<exprs, closed, close, call, sweeper, now, lock>>
    BY DEF Ttl!Renew
  <1>2. t \in Nat \ {0}
    BY DEF TtlSensible, Ttl!Never
  <1>3. TtlTyped'
    BY <1>1, <1>2 DEF TtlIInv, TtlTyped
  <1>4. BatchHeld'
    <2> SUFFICES ASSUME NEW s \in sweeper, s.at = "delete", NEW e \in s.ids
                 PROVE  expires'[<<s.coll, e>>] <= s.until
      BY <1>1 DEF TtlIInv, BatchHeld
    <2>1. s.coll \in Colls /\ e \in Docs
      BY DEF TtlIInv, TtlTyped, SweeperRecs
    <2>2. s.coll # c
      BY <1>1, <2>1 DEF TtlIInv, BatchHeld, TtlSensible
    <2>3. expires'[<<s.coll, e>>] = expires[<<s.coll, e>>]
      BY <1>1, <2>1, <2>2 DEF TtlIInv, TtlTyped
    <2>4. QED
      BY <2>3 DEF TtlIInv, BatchHeld
  <1>5. QED
    BY <1>1, <1>3, <1>4 DEF TtlIInv, TtlCallsTyped, SweepersRegistered, CloseCloses, Ttl!OneSweeperEach,
                            Ttl!NoneAfterClose

LEMMA TtlOtherStep ==
  ASSUME TtlSensible, TtlIInv, Ttl!Tick \/ Ttl!Close \/ Ttl!CloseReturns
  PROVE  TtlIInv'
  <1>1. UNCHANGED <<exprs, call, sweeper, expires, lock>>
    BY DEF Ttl!Tick, Ttl!Close, Ttl!CloseReturns
  <1>2. now' \in Nat /\ now' >= now
    BY DEF Ttl!Tick, Ttl!Close, Ttl!CloseReturns, TtlIInv, TtlTyped
  <1>3. TtlTyped'
    BY <1>1, <1>2 DEF Ttl!Tick, Ttl!Close, Ttl!CloseReturns, TtlIInv, TtlTyped
  <1>4. CloseCloses' /\ Ttl!NoneAfterClose'
    BY DEF Ttl!Tick, Ttl!Close, Ttl!CloseReturns, TtlIInv, CloseCloses, Ttl!NoneAfterClose
  <1>5. BatchHeld'
    <2>1. \A s \in sweeper : s.until \in Nat
      BY DEF TtlIInv, TtlTyped, SweeperRecs
    <2>2. now \in Nat
      BY DEF TtlIInv, TtlTyped
    <2>3. QED
      BY <1>1, <1>2, <2>1, <2>2 DEF TtlIInv, BatchHeld
  <1>6. QED
    BY <1>1, <1>3, <1>4, <1>5 DEF TtlIInv, TtlCallsTyped, SweepersRegistered, Ttl!OneSweeperEach

LEMMA TtlInductive == TtlSensible /\ TtlIInv /\ [Ttl!Next]_(Ttl!vars) => TtlIInv'
  <1> SUFFICES ASSUME TtlSensible, TtlIInv, [Ttl!Next]_(Ttl!vars) PROVE TtlIInv'
    OBVIOUS
  <1>1. ASSUME NEW u \in Callers,
               (\E c \in Colls, e \in Exprs : Ttl!EnsureTTL(u, c, e)) \/ Ttl!EnsureIndexOn(u)
        PROVE  TtlIInv'
    BY <1>1, TtlCallStep
  <1>2. ASSUME NEW u \in Callers, Ttl!Register(u) PROVE TtlIInv'
    BY <1>2, TtlRegisterStep
  <1>3. ASSUME NEW s \in sweeper, Ttl!Sweep(s) PROVE TtlIInv'
    BY <1>3, SweepStep
  <1>4. ASSUME NEW c \in Colls, NEW d \in Docs, NEW t \in 1 .. Ttl!Never, Ttl!Renew(c, d, t)
        PROVE  TtlIInv'
    BY <1>4, RenewStep
  <1>5. CASE UNCHANGED Ttl!vars
    BY <1>5 DEF Ttl!vars, TtlIInv, TtlTyped, TtlCallsTyped, SweepersRegistered, CloseCloses, BatchHeld,
                Ttl!OneSweeperEach, Ttl!NoneAfterClose
  <1>6. QED
    BY <1>1, <1>2, <1>3, <1>4, <1>5, TtlOtherStep DEF Ttl!Next

\* The batches, locks and registrations agree in every reachable state.
THEOREM TtlInvariant == ASSUME TtlSensible PROVE Ttl!Spec => []TtlIInv
  BY TtlInitially, TtlInductive, PTL DEF Ttl!Spec

LEMMA InTime == ASSUME TtlSensible, TtlIInv PROVE Ttl!OnlyTheExpiredGo
  <1> SUFFICES ASSUME NEW s \in sweeper, s.at = "delete", NEW d \in s.ids
               PROVE  expires[<<s.coll, d>>] \in 1 .. now
    BY DEF Ttl!OnlyTheExpiredGo
  <1>1. s.coll \in Colls /\ d \in Docs /\ s.until \in Nat /\ now \in Nat
    BY DEF TtlIInv, TtlTyped, SweeperRecs
  <1>2. expires[<<s.coll, d>>] \in Nat \ {0}
    BY <1>1 DEF TtlIInv, TtlTyped
  <1>3. expires[<<s.coll, d>>] <= s.until /\ s.until <= now
    BY DEF TtlIInv, BatchHeld
  <1>4. QED
    BY <1>1, <1>2, <1>3

\* ttl.go: a document a sweep deletes was past its date when the sweep looked,
\* and nobody renews it before it is deleted; two registrations of one
\* collection start one sweeper; and when Close returns no sweeper is left,
\* whatever registration was half way.
THEOREM SweepsAreSound ==
  ASSUME TtlSensible PROVE Ttl!Spec => [](Ttl!OnlyTheExpiredGo /\ Ttl!OneSweeperEach /\ Ttl!NoneAfterClose)
  <1>1. TtlIInv => Ttl!OnlyTheExpiredGo /\ Ttl!OneSweeperEach /\ Ttl!NoneAfterClose
    BY InTime DEF TtlIInv
  <1>2. QED
    BY <1>1, TtlInvariant, PTL
=============================================================================
