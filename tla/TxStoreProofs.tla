--------------------------- MODULE TxStoreProofs ---------------------------
(***************************************************************************)
(* Proofs about TxStore, for any number of transactions, collections and   *)
(* pages, any faults and any crashes: every page of the log, the data file *)
(* and the memory is one of the kinds it may be, no page past the size     *)
(* limit is ever handed out, no transaction id is taken twice, the table   *)
(* of collections fits, and what has been confirmed is on the device after *)
(* every loss of power, unless a checkpoint that failed had moved it and   *)
(* cut off the log.                                                        *)
(***************************************************************************)
EXTENDS TxStore, FiniteSetTheorems, SequenceTheorems, WellFoundedInduction, TLAPS

-----------------------------------------------------------------------------
(* What everything is.                                                     *)

AllPages == {Header} \cup Pages
Links == Pages \cup {NoPage}
Maps(D, X) == UNION {[E -> X] : E \in SUBSET D}

\* How many names a collection table holds.
Named(table) == Cardinality({c \in Cols : table[c] # NoPage})
Tables == {table \in [Cols -> Links] : Named(table) <= MaxCols}
Headers == [kind : {"header"}, free : Links, last : Pages, table : Tables]

\* The pages that are not the header.
Bodies == {Blank} \cup [kind : {"empty"}, next : Links] \cup [kind : {"data"}, val : Nat]
                  \cup [kind : {"coll"}, pages : SUBSET Pages]
BodyOf(p) == IF p = Header THEN Headers ELSE Bodies

Recs == {BlankRec} \cup
        {r \in [page : AllPages, tx : Nat \ {0}, confirmed : BOOLEAN, body : Bodies \cup Headers] :
             r.body \in BodyOf(r.page)}
DataFiles == {f \in [AllPages -> Bodies \cup Headers] : \A p \in AllPages : f[p] \in BodyOf(p)}
Entries == [version : Nat \ {0}, offset : Nat \ {0}]

Locals == Maps(Pages, [body : Bodies, dirty : BOOLEAN])
Snaps == [mode : {"none", "read", "write"}, version : Nat, loaded : BOOLEAN, coll : Links,
          body : Bodies, collDirty : BOOLEAN, local : Locals]
Ops == [op : {"add"}, col : Cols, page : Pages] \cup [op : {"drop"}, col : Cols, page : {NoPage}]
OffsetMaps == Maps(AllPages, Nat \ {0})
States == {"idle", "active", "appended", "aborting", "returning"}
TxRecs == [st : States, id : Nat, snaps : [Cols -> Snaps], dirty : OffsetMaps,
           newPages : Seq(Pages), firstDelete : Links, lastDelete : Links,
           lastDeleteColl : Cols \cup {""}, headerChanged : BOOLEAN, onCommit : Seq(Ops),
           save : Headers \cup {Blank}, retID : Nat, offs : OffsetMaps]

Typed ==
    /\ logFile \in Seq(Recs) /\ logDisk \in Seq(Recs) /\ logEnd \in Nat
    /\ dataFile \in DataFiles /\ dataDisk \in DataFiles
    /\ index \in [AllPages -> SUBSET Entries]
    /\ readVersion \in Nat /\ \A p \in AllPages : \A e \in index[p] : e.version <= readVersion
    /\ lastTxID \in Nat /\ confirmed \subseteq 1 .. lastTxID
    /\ header \in Headers
    /\ tx \in [Txs -> TxRecs]
    /\ mu \in Txs \cup {NoTx} /\ broken \in BOOLEAN
    /\ ckpt \in [st : {"off", "copy", "synced", "truncated"}, pos : Nat]
    /\ ckpt.st = "copy" => ckpt.pos # 0
    /\ faults \in Nat /\ faults <= MaxFaults

-----------------------------------------------------------------------------
(* The inductive invariant.                                                *)

\* A transaction object: where the collection page of a snapshot is, where the last
\* page deleted was, and what a transaction that is not open holds.
Sound(r) ==
    /\ \A c \in Cols : r.snaps[c].collDirty \/ r.snaps[c].body.kind = "coll"
                          => r.snaps[c].coll \in Pages
    /\ r.lastDelete # NoPage => r.lastDeleteColl \in Cols
    /\ r.st = "idle" => r = Idle
    /\ r.st \in {"appended", "returning"} => r.save \in Headers

\* headerMu is held across a write of the log, by the one transaction that writes.
Mutex == \A t \in Txs : tx[t].st \in {"appended", "returning"} <=> mu = t

\* A checkpoint has the core to itself.
Quiet == ckpt.st # "off" => \A t \in Txs : tx[t].st = "idle"

\* Ids: taken in order, one each, and never one that is confirmed or on its way.
Ids ==
    \A t \in Txs : tx[t].st # "idle" =>
        /\ tx[t].id \in (1 .. lastTxID) \ confirmed
        /\ tx[t].st = "returning" => tx[t].retID \in 1 .. lastTxID
        /\ \A u \in Txs : tx[u].st # "idle" =>
               /\ t # u => tx[t].id # tx[u].id
               /\ tx[u].st = "returning" => tx[t].id # tx[u].retID

LogIDs == \A i \in DOMAIN logFile : logFile[i].tx <= lastTxID

\* What a transaction spilled lies no further in the log than its last spilled page.
SpilledBy(r) ==
    \A i \in 1 .. logEnd : i \in DOMAIN logFile /\ logFile[i].tx = r.id =>
        \E p \in DOMAIN r.dirty : r.dirty[p] >= i
Spilled == \A t \in Txs : tx[t].st = "active" => SpilledBy(tx[t])

\* The page p at offset o of a log.
At(log, p, o) == o \in DOMAIN log /\ log[o].page = p

\* Where a transaction says its pages are, they are.
OffsetsTrue(offs) == \A p \in DOMAIN offs : offs[p] <= logEnd /\ At(logFile, p, offs[p])
SpillsTrue == \A t \in Txs : /\ OffsetsTrue(tx[t].dirty)
                             /\ tx[t].st = "returning" => OffsetsTrue(tx[t].offs)

IInv ==
    /\ Typed
    /\ \A t \in Txs : Sound(tx[t])
    /\ Mutex
    /\ Quiet
    /\ Ids
    /\ LogIDs
    /\ Spilled
    /\ SpillsTrue

\* The log is being cut off; nothing is left of it.
CuttingOff == ckpt.st = "truncated"

\* A version found in the index is in the log and on the device, unless the log was
\* cut off under the index.
Durable ==
    /\ CuttingOff => logFile = <<>>
    /\ \A p \in AllPages : \A e \in index[p] :
          /\ e.offset <= logEnd
          /\ At(logFile, p, e.offset) \/ CutOff(e.offset) \/ CuttingOff
          /\ At(logDisk, p, e.offset) \/ CutOff(e.offset)

-----------------------------------------------------------------------------
(* Finite sets, sequences and maps.                                        *)

\* Among sets of finite subsets there is one with no smaller one.
LEMMA LeastSet ==
    ASSUME NEW S, NEW F, F # {}, \A T \in F : T \in FiniteSubsetsOf(S)
    PROVE  \E T \in F : \A U \in F : U \subseteq T => U = T
  <1>1. F \subseteq FiniteSubsetsOf(S)
    OBVIOUS
  <1>2. \E T \in F : \A U \in F : ~ (<<U, T>> \in StrictSubsetOrdering(S))
    BY <1>1, FS_StrictSubsetOrderingWellFounded, WFMin
  <1>3. QED
    BY <1>2 DEF StrictSubsetOrdering, FiniteSubsetsOf

\* What holds of the empty set, and of a finite set if it holds of what is left when
\* any one element is taken out, holds of all finite sets.  G collects what it holds of.
LEMMA EverySet ==
    ASSUME NEW S, IsFiniteSet(S), NEW G, {} \in G,
           \A T \in SUBSET S : T # {} /\ (\A x \in T : T \ {x} \in G) => T \in G
    PROVE  S \in G
  <1> DEFINE F == (SUBSET S) \ G
  <1> SUFFICES ASSUME F # {} PROVE FALSE
    OBVIOUS
  <1>1. \A T \in F : T \in FiniteSubsetsOf(S)
    BY FS_Subset DEF FiniteSubsetsOf
  <1>2. \E T \in F : \A U \in F : U \subseteq T => U = T
    <2> HIDE DEF F
    <2>1. QED
      BY <1>1, LeastSet
  <1>3. PICK T \in F : \A U \in F : U \subseteq T => U = T
    BY <1>2
  <1>4. T \in SUBSET S /\ T \notin G /\ T # {}
    OBVIOUS
  <1>5. ASSUME NEW x \in T PROVE T \ {x} \in G
    BY <1>3, <1>4
  <1>6. QED
    BY <1>4, <1>5

\* Max, of a finite set of integers, is its greatest element.
LEMMA MaxIs ==
    ASSUME NEW S \in SUBSET Int, IsFiniteSet(S), S # {}
    PROVE  Max(S) \in S /\ \A y \in S : Max(S) >= y
  <1> DEFINE G == {T \in SUBSET S : T # {} => \E x \in T : \A y \in T : x >= y}
  <1>1. {} \in G
    OBVIOUS
  <1>2. ASSUME NEW T \in SUBSET S, T # {}, \A x \in T : T \ {x} \in G PROVE T \in G
    <2> PICK x \in T : T \ {x} \in G
      BY <1>2
    <2>1. CASE T = {x}
      BY <2>1
    <2>2. CASE T # {x}
      <3>1. PICK m \in T \ {x} : \A y \in T \ {x} : m >= y
        BY <2>2
      <3>2. CASE x >= m
        BY <3>1, <3>2
      <3>3. CASE ~ (x >= m)
        BY <3>1, <3>3
      <3>4. QED
        BY <3>2, <3>3
    <2>3. QED
      BY <2>1, <2>2
  <1>3. S \in G
    <2> HIDE DEF G
    <2>1. \A T \in SUBSET S : T # {} /\ (\A x \in T : T \ {x} \in G) => T \in G
      BY <1>2
    <2>2. QED
      BY <1>1, <2>1, EverySet
  <1>4. QED
    BY <1>3 DEF Max

\* Ascending lists the elements of a finite set of integers.
LEMMA AscendingIs ==
    ASSUME NEW S \in SUBSET Int, IsFiniteSet(S)
    PROVE  /\ Ascending(S) \in [1 .. Cardinality(S) -> S]
           /\ \A x \in S : \E i \in 1 .. Cardinality(S) : Ascending(S)[i] = x
  <1> DEFINE G == {T \in SUBSET S : \E f \in [1 .. Cardinality(T) -> T] :
                                        \A i, j \in 1 .. Cardinality(T) : i < j => f[i] < f[j]}
  <1>1. {} \in G
    <2>1. Cardinality({}) = 0 /\ 1 .. 0 = {}
      BY FS_EmptySet
    <2>2. [i \in {} |-> 0] \in [{} -> {}]
      OBVIOUS
    <2>3. QED
      BY <2>1, <2>2
  <1>2. ASSUME NEW T \in SUBSET S, T # {}, \A x \in T : T \ {x} \in G PROVE T \in G
    <2> DEFINE m == Max(T)
               n == Cardinality(T)
    <2>1. IsFiniteSet(T) /\ T \in SUBSET Int
      BY FS_Subset
    <2>2. m \in T /\ \A y \in T : m >= y
      BY <1>2, <2>1, MaxIs
    <2>3. n \in Nat \ {0} /\ Cardinality(T \ {m}) = n - 1
      BY <1>2, <2>1, <2>2, FS_RemoveElement, FS_CardinalityType, FS_EmptySet
    <2> HIDE DEF m, n
    <2>4. PICK f \in [1 .. n - 1 -> T \ {m}] : \A i, j \in 1 .. n - 1 : i < j => f[i] < f[j]
      BY <1>2, <2>2, <2>3
    <2> DEFINE g == [i \in 1 .. n |-> IF i < n THEN f[i] ELSE m]
    <2>5. g \in [1 .. n -> T]
      BY <2>2, <2>3, <2>4
    <2>6. ASSUME NEW i \in 1 .. n, NEW j \in 1 .. n, i < j PROVE g[i] < g[j]
      <3>1. i \in 1 .. n - 1 /\ f[i] \in T \ {m} /\ g[i] = f[i]
        BY <2>3, <2>4, <2>6
      <3>2. CASE j < n
        BY <2>3, <2>4, <2>6, <3>1, <3>2
      <3>3. CASE j = n
        <4>1. g[j] = m
          BY <2>3, <3>3
        <4>2. f[i] \in Int /\ m \in Int /\ f[i] # m /\ m >= f[i]
          BY <2>1, <2>2, <3>1
        <4>3. QED
          BY <3>1, <4>1, <4>2
      <3>4. QED
        BY <2>3, <3>2, <3>3
    <2>7. QED
      BY <2>5, <2>6 DEF n
  <1>3. S \in G
    <2> HIDE DEF G
    <2>1. \A T \in SUBSET S : T # {} /\ (\A x \in T : T \ {x} \in G) => T \in G
      BY <1>2
    <2>2. QED
      BY <1>1, <2>1, EverySet
  <1>4. \E f \in [1 .. Cardinality(S) -> S] : \A i, j \in DOMAIN f : i < j => f[i] < f[j]
    BY <1>3
  <1> DEFINE n == Cardinality(S)
             ids == Ascending(S)
  <1>5. ids \in [1 .. n -> S] /\ \A i, j \in 1 .. n : i < j => ids[i] < ids[j]
    BY <1>4 DEF Ascending
  <1>6. n \in Nat /\ \A i \in 1 .. n : ids[i] \in Int
    BY <1>5, FS_CardinalityType
  <1> HIDE DEF n, ids
  <1>7. \A i, j \in 1 .. n : ids[i] = ids[j] => i = j
    <2> SUFFICES ASSUME NEW i \in 1 .. n, NEW j \in 1 .. n, ids[i] = ids[j] PROVE i = j
      OBVIOUS
    <2>1. ~ (i < j) /\ ~ (j < i) /\ i \in Int /\ j \in Int
      BY <1>5, <1>6
    <2>2. QED
      BY <2>1
  <1>8. ids \in Injection(1 .. n, S)
    BY <1>5, <1>7 DEF Injection, IsInjective
  <1>9. Cardinality(1 .. n) = Cardinality(S)
    BY <1>6, FS_Interval DEF n
  <1>10. ids \in Surjection(1 .. n, S)
    BY <1>8, <1>9, FS_Injection
  <1>11. QED
    BY <1>5, <1>10 DEF Surjection, n, ids

\* A set of naturals that holds 0 and the successor of each member holds them all.
LEMMA AllNaturals ==
    ASSUME NEW X \in SUBSET Nat, 0 \in X, \A n \in X : n + 1 \in X
    PROVE  X = Nat
  <1> SUFFICES ASSUME NEW n \in Nat PROVE n \in X
    OBVIOUS
  <1> DEFINE H == {T \in SUBSET (0 .. n) : \A m \in T : (\A k \in 0 .. m : k \in T) => m \in X}
  <1>1. {} \in H
    OBVIOUS
  <1>2. ASSUME NEW T \in SUBSET (0 .. n), T # {}, \A x \in T : T \ {x} \in H PROVE T \in H
    <2> SUFFICES ASSUME NEW m \in T, \A k \in 0 .. m : k \in T PROVE m \in X
      OBVIOUS
    <2>1. CASE m = 0
      BY <2>1
    <2>2. CASE m # 0
      BY <1>2, <2>2
    <2>3. QED
      BY <2>1, <2>2
  <1>3. 0 .. n \in H
    <2>a. IsFiniteSet(0 .. n)
      BY FS_Interval
    <2> HIDE DEF H
    <2>1. \A T \in SUBSET (0 .. n) : T # {} /\ (\A x \in T : T \ {x} \in H) => T \in H
      BY <1>2
    <2>2. QED
      BY <1>1, <2>1, <2>a, EverySet
  <1>4. QED
    BY <1>3

LEMMA JoinedIs ==
    ASSUME NEW X, NEW s \in Seq(X), NEW u \in Seq(X)
    PROVE  s \o u \in Seq(X) /\ ToSet(s \o u) = ToSet(s) \cup ToSet(u)
  <1> DEFINE m == Len(s)
             n == Len(u)
  <1>1. m \in Nat /\ n \in Nat /\ DOMAIN s = 1 .. m /\ DOMAIN u = 1 .. n
    BY LenProperties
  <1>2. /\ s \o u \in Seq(X) /\ Len(s \o u) = m + n
        /\ \A i \in 1 .. m : (s \o u)[i] = s[i]
        /\ \A i \in 1 .. n : (s \o u)[m + i] = u[i]
    BY <1>1, ConcatProperties
  <1>3. DOMAIN (s \o u) = 1 .. m + n
    BY <1>2, LenProperties
  <1> HIDE DEF m, n
  <1>4. \A i \in 1 .. m + n : i \in 1 .. m \/ (i - m \in 1 .. n /\ m + (i - m) = i)
    BY <1>1
  <1>5. \A i \in 1 .. m : i \in 1 .. m + n
    BY <1>1
  <1>6. \A i \in 1 .. n : m + i \in 1 .. m + n
    BY <1>1
  <1>7. \A i \in 1 .. m + n : (s \o u)[i] \in ToSet(s) \cup ToSet(u)
    BY <1>1, <1>2, <1>4 DEF ToSet
  <1>8. /\ ToSet(s \o u) = {(s \o u)[i] : i \in 1 .. m + n}
        /\ ToSet(s) = {s[i] : i \in 1 .. m} /\ ToSet(u) = {u[i] : i \in 1 .. n}
    BY <1>1, <1>3 DEF ToSet
  <1>9. ToSet(s) \subseteq ToSet(s \o u)
    BY <1>2, <1>5, <1>8
  <1>10. ToSet(u) \subseteq ToSet(s \o u)
    BY <1>2, <1>6, <1>8
  <1>11. ToSet(s \o u) \subseteq ToSet(s) \cup ToSet(u)
    BY <1>7, <1>8
  <1>12. QED
    BY <1>2, <1>9, <1>10, <1>11

\* Sequences strung together are a sequence of what they are sequences of, and hold
\* all that these hold.
LEMMA FlattenIs ==
    ASSUME NEW X, NEW L \in Nat, NEW ss, Len(ss) = L, L = 0 => ss = <<>>,
           \A i \in 1 .. L : ss[i] \in Seq(X)
    PROVE  FlattenSeq(ss) \in Seq(X) /\ \A i \in 1 .. L : ToSet(ss[i]) \subseteq ToSet(FlattenSeq(ss))
  <1> DEFINE Step(f, i) == IF i = 1 THEN ss[i] ELSE f[i - 1] \o ss[i]
             Upto(f, n) == \A i \in 1 .. n : f[i] = Step(f, i)
             N == {n \in Nat : n <= L => \E f \in [1 .. L -> Seq(X)] : Upto(f, n)}
             whole == CHOOSE f : f = [i \in 1 .. L |-> Step(f, i)]
  <1>1. 0 \in N
    <2>1. [i \in 1 .. L |-> <<>>] \in [1 .. L -> Seq(X)]
      OBVIOUS
    <2>2. \A f : Upto(f, 0)
      OBVIOUS
    <2> HIDE DEF Upto
    <2>3. QED
      BY <2>1, <2>2
  <1>2. ASSUME NEW n \in N PROVE n + 1 \in N
    <2>a. n \in Nat /\ (n <= L => \E f \in [1 .. L -> Seq(X)] : Upto(f, n))
      <3> HIDE DEF Upto
      <3>1. QED
        BY <1>2
    <2>b. SUFFICES ASSUME n + 1 <= L PROVE \E f \in [1 .. L -> Seq(X)] : Upto(f, n + 1)
      <3> HIDE DEF Upto
      <3>1. QED
        BY <2>a
    <2>1. PICK f \in [1 .. L -> Seq(X)] : Upto(f, n)
      <3> HIDE DEF Upto
      <3>1. QED
        BY <2>a, <2>b
    <2> DEFINE g == [i \in 1 .. L |-> IF i = n + 1 THEN Step(f, i) ELSE f[i]]
    <2>2. Step(f, n + 1) \in Seq(X)
      <3>1. n + 1 \in 1 .. L /\ ss[n + 1] \in Seq(X)
        BY <2>a, <2>b
      <3>2. CASE n = 0
        BY <3>1, <3>2
      <3>3. CASE n # 0
        <4>1. n \in 1 .. L /\ f[n] \in Seq(X) /\ (n + 1) - 1 = n
          BY <2>a, <2>b, <3>3
        <4>2. f[n] \o ss[n + 1] \in Seq(X)
          BY <3>1, <4>1, ConcatProperties
        <4>3. QED
          BY <3>3, <4>1, <4>2
      <3>4. QED
        BY <3>2, <3>3
    <2>3. g \in [1 .. L -> Seq(X)]
      BY <2>2
    <2>4. ASSUME NEW i \in 1 .. n + 1 PROVE g[i] = Step(g, i)
      BY <2>a, <2>b, <2>1
    <2>5. QED
      BY <2>3, <2>4
  <1>3. L \in N
    <2> HIDE DEF N
    <2>1. N \in SUBSET Nat
      BY DEF N
    <2>2. QED
      BY <1>1, <1>2, <2>1, AllNaturals
  <1>4. PICK f \in [1 .. L -> Seq(X)] : Upto(f, L)
    <2> HIDE DEF Upto
    <2>1. QED
      BY <1>3
  <1>5. f = [i \in 1 .. L |-> Step(f, i)]
    BY <1>4
  <1>6. whole = [i \in 1 .. L |-> Step(whole, i)]
    BY <1>5
  <1>7. CASE L = 0
    BY <1>7 DEF FlattenSeq
  <1>8. CASE L # 0
    <2> DEFINE Has(n) == \A i \in 1 .. n : ToSet(ss[i]) \subseteq ToSet(whole[n])
               M == {n \in Nat : n \in 1 .. L => whole[n] \in Seq(X) /\ Has(n)}
    <2>1. 0 \in M
      <3> HIDE DEF Has
      <3>1. QED
        OBVIOUS
    <2>2. ASSUME NEW n \in M PROVE n + 1 \in M
      <3>a. n \in Nat /\ n + 1 \in Nat
        OBVIOUS
      <3> SUFFICES ASSUME n + 1 \in 1 .. L PROVE whole[n + 1] \in Seq(X) /\ Has(n + 1)
        <4> HIDE DEF Has, whole
        <4>1. QED
          BY <3>a
      <3>1. whole[n + 1] = Step(whole, n + 1)
        BY <1>6
      <3> HIDE DEF whole
      <3>2. CASE n = 0
        BY <3>1, <3>2
      <3>3. CASE n # 0
        <4>1. /\ n \in 1 .. L /\ (n + 1) - 1 = n /\ n + 1 # 1
              /\ whole[n] \in Seq(X) /\ ss[n + 1] \in Seq(X) /\ Has(n)
          BY <3>3
        <4>2. whole[n] \o ss[n + 1] \in Seq(X)
              /\ ToSet(whole[n] \o ss[n + 1]) = ToSet(whole[n]) \cup ToSet(ss[n + 1])
          BY <4>1, JoinedIs
        <4>3. whole[n + 1] = whole[n] \o ss[n + 1]
          BY <3>1, <3>3, <4>1
        <4>4. ASSUME NEW i \in 1 .. n + 1 PROVE i \in 1 .. n \/ i = n + 1
          BY <4>1
        <4>5. Has(n + 1)
          <5> SUFFICES ASSUME NEW i \in 1 .. n + 1 PROVE ToSet(ss[i]) \subseteq ToSet(whole[n + 1])
            OBVIOUS
          <5>1. QED
            BY <4>1, <4>2, <4>3, <4>4
        <4>6. QED
          BY <4>2, <4>3, <4>5
      <3>4. QED
        BY <3>2, <3>3
    <2>3. L \in M
      <3> HIDE DEF M
      <3>1. M \in SUBSET Nat
        BY DEF M
      <3>2. QED
        BY <2>1, <2>2, <3>1, AllNaturals
    <2>4. whole[L] \in Seq(X) /\ Has(L)
      <3> HIDE DEF Has, whole
      <3>1. L \in 1 .. L
        BY <1>8
      <3>2. QED
        BY <2>3, <3>1
    <2>5. FlattenSeq(ss) = whole[L]
      BY <1>8 DEF FlattenSeq
    <2>6. QED
      BY <2>4, <2>5
  <1>9. QED
    BY <1>7, <1>8

\* Maps with a few keys.
LEMMA EmptyMap == ASSUME NEW D, NEW X PROVE <<>> \in Maps(D, X) /\ DOMAIN <<>> = {}
  BY DEF Maps

LEMMA OverIs ==
    ASSUME NEW D, NEW X, NEW f \in Maps(D, X), NEW g \in Maps(D, X)
    PROVE  /\ Over(f, g) \in Maps(D, X)
           /\ DOMAIN Over(f, g) = DOMAIN f \cup DOMAIN g
           /\ \A x \in DOMAIN f : Over(f, g)[x] = f[x]
           /\ \A x \in DOMAIN g \ DOMAIN f : Over(f, g)[x] = g[x]
  <1>1. PICK E \in SUBSET D : f \in [E -> X]
    BY DEF Maps
  <1>2. PICK F \in SUBSET D : g \in [F -> X]
    BY DEF Maps
  <1>3. Over(f, g) \in [E \cup F -> X] /\ E \cup F \in SUBSET D
    BY <1>1, <1>2 DEF Over
  <1>4. QED
    BY <1>1, <1>2, <1>3 DEF Maps, Over

LEMMA MapIs ==
    ASSUME NEW D, NEW X, NEW f \in Maps(D, X)
    PROVE  DOMAIN f \in SUBSET D /\ \A x \in DOMAIN f : f[x] \in X
  BY DEF Maps

LEMMA OffsetMapIs ==
    ASSUME NEW offs \in OffsetMaps
    PROVE  DOMAIN offs \in SUBSET AllPages /\ \A p \in DOMAIN offs : offs[p] \in Nat \ {0}
  BY DEF OffsetMaps, Maps

LEMMA OverOffsets ==
    ASSUME NEW f \in OffsetMaps, NEW g \in OffsetMaps
    PROVE  /\ Over(f, g) \in OffsetMaps
           /\ DOMAIN Over(f, g) = DOMAIN f \cup DOMAIN g
           /\ \A x \in DOMAIN f : Over(f, g)[x] = f[x]
           /\ \A x \in DOMAIN g \ DOMAIN f : Over(f, g)[x] = g[x]
  <1> DEFINE X == Nat \ {0}
  <1>1. f \in Maps(AllPages, X) /\ g \in Maps(AllPages, X)
    BY DEF OffsetMaps
  <1> HIDE DEF X
  <1>2. Over(f, g) \in Maps(AllPages, X)
    BY <1>1, OverIs
  <1>3. /\ DOMAIN Over(f, g) = DOMAIN f \cup DOMAIN g
        /\ \A x \in DOMAIN f : Over(f, g)[x] = f[x]
        /\ \A x \in DOMAIN g \ DOMAIN f : Over(f, g)[x] = g[x]
    BY DEF Over
  <1>4. QED
    BY <1>2, <1>3 DEF OffsetMaps, X

LEMMA MapMade ==
    ASSUME NEW D, NEW X, NEW E \in SUBSET D, NEW f \in [E -> X]
    PROVE  f \in Maps(D, X)
  BY DEF Maps

-----------------------------------------------------------------------------
(* Pages and transaction objects.                                          *)

LEMMA PageIds ==
    /\ Header \notin Pages /\ NoPage \notin Pages /\ Header # NoPage
    /\ Pages \subseteq Nat \ {0} /\ Pages \subseteq Int
    /\ 1 \in Pages /\ 2 \in Pages
  BY BoundsAssumption DEF Header, NoPage, Pages

LEMMA SomeCols == IsFiniteSet(Cols) /\ Names \in Seq(Cols) /\ Names[1] \in Cols /\ Len(Names) \in Nat
  <1>1. Len(Names) \in Nat \ {0} /\ DOMAIN Names = 1 .. Len(Names)
    BY NamesAssumption
  <1>2. IsFiniteSet(DOMAIN Names)
    BY <1>1, FS_Interval
  <1>3. IsFiniteSet(Cols)
    <2>a. Names \in [1 .. Len(Names) -> STRING]
      BY NamesAssumption, LenProperties
    <2>1. Names \in [DOMAIN Names -> Cols]
      BY <2>a, <1>1 DEF Cols, ToSet
    <2>2. Cols = {Names[i] : i \in DOMAIN Names}
      BY DEF Cols, ToSet
    <2>3. Names \in Surjection(DOMAIN Names, Cols)
      BY <2>1, <2>2 DEF Surjection
    <2>4. QED
      BY <1>2, <2>3, FS_Surjection
  <1>4. \A i \in DOMAIN Names : Names[i] \in Cols
    BY DEF Cols, ToSet
  <1>5. QED
    BY <1>1, <1>3, <1>4, NamesAssumption

LEMMA BodiesAre ==
    /\ Blank \in Bodies
    /\ \A n \in Links : Empty(n) \in Bodies
    /\ \A i \in Nat : Data(i) \in Bodies
    /\ \A S \in SUBSET Pages : Coll(S) \in Bodies
    /\ \A b \in Bodies : /\ b.kind = "empty" => b.next \in Links
                         /\ b.kind = "coll" => b.pages \in SUBSET Pages
                         /\ b.kind \in {"blank", "empty", "data", "coll"}
  BY DEF Bodies, Blank, Empty, Data, Coll

LEMMA NoSnapIs == NoSnap \in Snaps /\ NoSnap.collDirty = FALSE /\ NoSnap.body = Blank
  BY EmptyMap, BodiesAre DEF NoSnap, Snaps, Locals, Links

LEMMA IdleIs ==
    /\ Idle \in TxRecs /\ Sound(Idle) /\ Idle.st = "idle" /\ Idle.id = 0
    /\ DOMAIN Idle.dirty = {} /\ DOMAIN Idle.offs = {}
  BY EmptyMap, NoSnapIs DEF OffsetMaps, Idle, TxRecs, States, Links, Sound, Blank

LEMMA LocalIs ==
    ASSUME NEW local \in Locals
    PROVE  /\ DOMAIN local \in SUBSET Pages
           /\ \A p \in DOMAIN local : local[p].body \in Bodies /\ local[p].dirty \in BOOLEAN
  <1>1. DOMAIN local \in SUBSET Pages
    BY MapIs DEF Locals
  <1>2. \A p \in DOMAIN local : local[p] \in [body : Bodies, dirty : BOOLEAN]
    <2> DEFINE X == [body : Bodies, dirty : BOOLEAN]
    <2>1. local \in Maps(Pages, X)
      BY DEF Locals
    <2> HIDE DEF X
    <2>2. \A p \in DOMAIN local : local[p] \in X
      BY <2>1, MapIs
    <2>3. QED
      BY <2>2 DEF X
  <1>3. QED
    BY <1>1, <1>2

LEMMA PutIs ==
    ASSUME NEW local \in Locals, NEW p \in Pages, NEW body \in Bodies
    PROVE  Put(local, p, body) \in Locals
  BY MapMade, OverIs DEF Locals, Put

\* The parts of a snapshot and of a transaction object, and what they are after a change.
LEMMA SnapIs ==
    ASSUME NEW s \in Snaps
    PROVE  /\ s.mode \in {"none", "read", "write"} /\ s.version \in Nat /\ s.coll \in Links
           /\ s.body \in Bodies /\ s.local \in Locals
           /\ s.loaded \in BOOLEAN /\ s.collDirty \in BOOLEAN
           /\ \A b \in Bodies : [s EXCEPT !.body = b] \in Snaps
           /\ \A l \in Locals : [s EXCEPT !.local = l] \in Snaps
           /\ \A p \in Links : [s EXCEPT !.coll = p] \in Snaps
           /\ [s EXCEPT !.collDirty = TRUE] \in Snaps /\ [s EXCEPT !.loaded = TRUE] \in Snaps
  BY DEF Snaps

LEMMA TxIs ==
    ASSUME NEW r \in TxRecs
    PROVE  /\ r.st \in States /\ r.id \in Nat /\ r.dirty \in OffsetMaps /\ r.newPages \in Seq(Pages)
           /\ r.snaps \in [Cols -> Snaps] /\ \A c \in Cols : r.snaps[c] \in Snaps
           /\ r.firstDelete \in Links /\ r.lastDelete \in Links
           /\ r.lastDeleteColl \in Cols \cup {""} /\ r.headerChanged \in BOOLEAN
           /\ r.onCommit \in Seq(Ops) /\ r.save \in Headers \cup {Blank}
           /\ r.retID \in Nat /\ r.offs \in OffsetMaps
  BY DEF TxRecs

\* What a transaction reads as a page is one.
LEMMA readLogIs ==
    ASSUME Typed, NEW p \in Pages, NEW off
    PROVE  readLog(p, off) \in Bodies
  BY ElementOfSeq, PageIds, BodiesAre DEF Typed, AllPages, Recs, BlankRec, Rec, readLog, BodyOf

LEMMA readAtIs ==
    ASSUME Typed, NEW p \in Pages, NEW v
    PROVE  readAt(p, v) \in Bodies
  BY PageIds, readLogIs DEF Typed, DataFiles, AllPages, BodyOf, readAt

LEMMA getPageIs ==
    ASSUME Typed, NEW t \in Txs, NEW c \in Cols, NEW p \in Pages, NEW latest \in BOOLEAN
    PROVE  getPage(t, c, p, latest) \in Bodies
  BY TxIs, SnapIs, LocalIs, readLogIs, readAtIs DEF Typed, getPage

\* The header after any of its changes is a header.
LEMMA HeaderIs ==
    ASSUME NEW h \in Headers
    PROVE  /\ h.free \in Links /\ h.last \in Pages /\ h.table \in Tables /\ h.kind = "header"
           /\ \A n \in Links : [h EXCEPT !.free = n] \in Headers
           /\ \A n \in Pages : [h EXCEPT !.last = n] \in Headers
           /\ \A n \in Tables : [h EXCEPT !.table = n] \in Headers
  BY DEF Headers

LEMMA AllocIs ==
    ASSUME Typed, NEW t \in Txs, NEW c \in Cols
    PROVE  Alloc(t, c).page \in Links /\ Alloc(t, c).header \in Headers
  <1>1. header \in Headers
    BY DEF Typed
  <1>2. CASE header.free # NoPage
    <2>1. header.free \in Pages
      BY <1>1, <1>2, HeaderIs DEF Links
    <2> DEFINE body == getPage(t, c, header.free, TRUE)
    <2>2. body \in Bodies
      BY <2>1, getPageIs
    <2>3. body.kind = "empty" => body.next \in Links
      BY <2>2, BodiesAre
    <2>4. body.kind = "empty" => [header EXCEPT !.free = body.next] \in Headers
      BY <1>1, <2>3, HeaderIs
    <2>5. Alloc(t, c) = IF body.kind = "empty"
                        THEN [page |-> header.free, header |-> [header EXCEPT !.free = body.next]]
                        ELSE [page |-> NoPage, header |-> header]
      BY <1>2 DEF Alloc
    <2> HIDE DEF body
    <2>6. QED
      BY <1>1, <2>1, <2>4, <2>5 DEF Links
  <1>3. CASE header.free = NoPage
    BY <1>1, <1>3, HeaderIs, BoundsAssumption DEF Pages, Alloc, Links
  <1>4. QED
    BY <1>2, <1>3

-----------------------------------------------------------------------------
(* What goes to the log.                                                   *)

Batches == Seq({b \in AllPages \X (Bodies \cup Headers) : b[2] \in BodyOf(b[1])})

LEMMA DirtyOfIs ==
    ASSUME NEW s \in Snaps, s.collDirty => s.coll \in Pages
    PROVE  DirtyOf(s) \in Batches
  <1> DEFINE S == {p \in DOMAIN s.local : s.local[p].dirty}
             B == {b \in AllPages \X (Bodies \cup Headers) : b[2] \in BodyOf(b[1])}
             ids == Ascending(S)
             changed == [i \in DOMAIN ids |-> <<ids[i], s.local[ids[i]].body>>]
             page == IF s.collDirty THEN << <<s.coll, s.body>> >> ELSE <<>>
  <1>1. \A p \in Pages, b \in Bodies : <<p, b>> \in B
    BY PageIds DEF AllPages, BodyOf
  <1>2. S \in SUBSET Pages /\ \A p \in S : s.local[p].body \in Bodies
    BY SnapIs, LocalIs
  <1>3. IsFiniteSet(S) /\ S \in SUBSET Int /\ Cardinality(S) \in Nat
    <2>1. IsFiniteSet(Pages)
      BY BoundsAssumption, FS_Interval DEF Pages
    <2>2. IsFiniteSet(S)
      BY <1>2, <2>1, FS_Subset
    <2>3. QED
      BY <1>2, <2>2, FS_CardinalityType, PageIds
  <1>4. ids \in [1 .. Cardinality(S) -> S]
    BY <1>3, AscendingIs
  <1> HIDE DEF S, ids
  <1>5. changed \in Seq(B)
    <2>1. \A i \in 1 .. Cardinality(S) : <<ids[i], s.local[ids[i]].body>> \in B
      BY <1>1, <1>2, <1>4
    <2>2. changed \in [1 .. Cardinality(S) -> B]
      BY <1>4, <2>1
    <2> HIDE DEF B, changed
    <2>3. QED
      BY <1>3, <2>2, SeqDef
  <1>6. page \in Seq(B)
    <2>1. CASE s.collDirty
      <3>1. <<s.coll, s.body>> \in B
        BY <1>1, <2>1, SnapIs
      <3>2. QED
        BY <2>1, <3>1
    <2>2. CASE ~ s.collDirty
      BY <2>2
    <2>3. QED
      BY <2>1, <2>2
  <1>7. DirtyOf(s) = changed \o page
    BY DEF DirtyOf, ids, S
  <1> HIDE DEF B, changed, page
  <1>8. changed \o page \in Seq(B)
    BY <1>5, <1>6, ConcatProperties
  <1>9. QED
    BY <1>7, <1>8 DEF Batches, B

LEMMA collectDirtyIs ==
    ASSUME NEW r \in TxRecs, Sound(r)
    PROVE  collectDirty(r) \in Batches
  <1> DEFINE B == {b \in AllPages \X (Bodies \cup Headers) : b[2] \in BodyOf(b[1])}
             ss == [i \in DOMAIN Names |->
                       IF r.snaps[Names[i]].mode = "write" THEN DirtyOf(r.snaps[Names[i]]) ELSE <<>>]
  <1>1. DOMAIN Names = 1 .. Len(Names) /\ Len(Names) \in Nat \ {0}
    BY NamesAssumption
  <1>2. \A i \in 1 .. Len(Names) : ss[i] \in Seq(B)
    <2>1. ASSUME NEW i \in 1 .. Len(Names) PROVE ss[i] \in Seq(B)
      <3>1. Names[i] \in Cols
        BY <1>1 DEF Cols, ToSet
      <3>2. DirtyOf(r.snaps[Names[i]]) \in Batches
        BY <3>1, TxIs, DirtyOfIs DEF Sound
      <3>3. QED
        BY <1>1, <3>2 DEF Batches
    <2>2. QED
      BY <2>1
  <1>3. Len(ss) = Len(Names)
    BY <1>1
  <1> HIDE DEF B, ss
  <1>4. FlattenSeq(ss) \in Seq(B)
    BY <1>1, <1>2, <1>3, FlattenIs
  <1>5. QED
    BY <1>4 DEF collectDirty, Batches, B, ss

LEMMA SplicedIs ==
    ASSUME NEW r \in TxRecs, Sound(r), header \in Headers, r.st # "idle"
    PROVE  /\ Spliced(r) \in TxRecs /\ Sound(Spliced(r))
           /\ Spliced(r).st = r.st /\ Spliced(r).id = r.id /\ Spliced(r).dirty = r.dirty
           /\ Spliced(r).offs = r.offs /\ Spliced(r).newPages = r.newPages
           /\ SplicedHeader(r) \in Headers /\ SplicedHeader(r).table = header.table
  <1>1. CASE r.lastDelete = NoPage
    BY <1>1 DEF Spliced, SplicedHeader, Headers
  <1>2. CASE r.lastDelete # NoPage
    <2> DEFINE c == r.lastDeleteColl
               s == r.snaps[c]
               local == Put(s.local, r.lastDelete, Empty(header.free))
               snaps == [r.snaps EXCEPT ![c] = [s EXCEPT !.local = local]]
               r1 == [r EXCEPT !.snaps = snaps]
               r2 == [r1 EXCEPT !.firstDelete = NoPage]
               r3 == [r2 EXCEPT !.lastDelete = NoPage]
    <2>1. c \in Cols /\ r.lastDelete \in Pages
      BY <1>2, TxIs DEF Sound, Links
    <2>2. s \in Snaps /\ local \in Locals
      BY <2>1, TxIs, SnapIs, PutIs, BodiesAre, HeaderIs
    <2>3. [s EXCEPT !.local = local] \in Snaps
      BY <2>2, SnapIs
    <2>4. snaps \in [Cols -> Snaps]
      BY <2>1, <2>3, TxIs
    <2>5. Spliced(r) = r3
      BY <1>2, <2>1, <2>2 DEF Spliced, TxRecs, Snaps
    <2> HIDE DEF c, s, local
    <2>6. r1 \in TxRecs
      BY <2>4 DEF TxRecs
    <2>7. r2 \in TxRecs /\ r3 \in TxRecs
      BY <2>6 DEF TxRecs, Links
    <2>8. /\ r3.st = r.st /\ r3.id = r.id /\ r3.dirty = r.dirty /\ r3.offs = r.offs
          /\ r3.newPages = r.newPages /\ r3.lastDelete = NoPage /\ r3.snaps = snaps
          /\ r3.save = r.save
      BY DEF TxRecs
    <2>9. \A d \in Cols : /\ snaps[d].collDirty = r.snaps[d].collDirty
                          /\ snaps[d].body = r.snaps[d].body /\ snaps[d].coll = r.snaps[d].coll
      BY <2>1, TxIs, ZenonT(60) DEF s, Snaps
    <2>10. SplicedHeader(r) \in Headers /\ SplicedHeader(r).table = header.table
      BY TxIs, HeaderIs DEF SplicedHeader, Headers
    <2> HIDE DEF r3
    <2>11. Sound(r3)
      BY <2>8, <2>9 DEF Sound
    <2>12. QED
      BY <2>5, <2>7, <2>8, <2>10, <2>11
  <1>3. QED
    BY <1>1, <1>2

\* One more operation on the collection table, and what it does to its size.
LEMMA EnteredStep ==
    ASSUME NEW table \in [Cols -> Links], NEW ops \in Seq(Ops), NEW n \in Nat, n + 1 <= Len(ops)
    PROVE  Entered(table, ops, n + 1)
             = [Entered(table, ops, n) EXCEPT ![ops[n + 1].col] = ops[n + 1].page]
  <1> DEFINE is(c, m) == {i \in 1 .. m : ops[i].col = c}
             now(c, m) == IF is(c, m) = {} THEN table[c] ELSE ops[Max(is(c, m))].page
  <1>1. \A m \in Nat : Entered(table, ops, m) = [c \in Cols |-> now(c, m)]
    BY DEF Entered
  <1>2. ops[n + 1].col \in Cols
    BY ElementOfSeq DEF Ops
  <1>3. ASSUME NEW c \in Cols, c # ops[n + 1].col PROVE now(c, n + 1) = now(c, n)
    <2>1. is(c, n + 1) = is(c, n)
      BY <1>3
    <2>2. QED
      BY <2>1
  <1>4. ASSUME NEW c \in Cols, c = ops[n + 1].col PROVE now(c, n + 1) = ops[n + 1].page
    <2> DEFINE S == is(c, n + 1)
    <2>1. n + 1 \in S /\ S \in SUBSET Int /\ \A i \in S : i <= n + 1
      BY <1>4
    <2>2. IsFiniteSet(S)
      <3>1. IsFiniteSet(1 .. n + 1) /\ S \subseteq 1 .. n + 1
        BY FS_Interval
      <3>2. QED
        BY <3>1, FS_Subset
    <2> HIDE DEF S
    <2>3. Max(S) \in S /\ Max(S) >= n + 1
      BY <2>1, <2>2, MaxIs
    <2>4. Max(S) = n + 1
      <3>1. Max(S) \in Int /\ Max(S) <= n + 1
        BY <2>1, <2>3
      <3>2. QED
        BY <2>3, <3>1
    <2>5. QED
      BY <2>1, <2>4 DEF S
  <1> HIDE DEF now
  <1>5. QED
    BY <1>1, <1>2, <1>3, <1>4

LEMMA TableStep ==
    ASSUME NEW table \in Tables, NEW op \in Ops, Admits(table, op)
    PROVE  [table EXCEPT ![op.col] = op.page] \in Tables
  <1> DEFINE after == [table EXCEPT ![op.col] = op.page]
             S == {c \in Cols : table[c] # NoPage}
             T == {c \in Cols : after[c] # NoPage}
  <1>1. /\ op.col \in Cols /\ op.page \in Links /\ op.op \in {"add", "drop"}
        /\ op.op = "drop" => op.page = NoPage
    BY DEF Ops, Links
  <1>2. table \in [Cols -> Links] /\ Cardinality(S) <= MaxCols
    BY DEF Tables, Named
  <1>3. after \in [Cols -> Links]
    BY <1>1, <1>2
  <1>4. IsFiniteSet(S) /\ Cardinality(S) \in Nat /\ MaxCols \in Nat
    BY SomeCols, FS_Subset, FS_CardinalityType, BoundsAssumption
  <1>5. CASE op.op = "add"
    BY <1>1, <1>2, <1>3, <1>4, <1>5, FS_AddElement, FS_Subset, FS_CardinalityType DEF Admits,
       Tables, Named
  <1>6. CASE op.op = "drop"
    BY <1>1, <1>2, <1>3, <1>4, <1>6, FS_Subset, FS_CardinalityType DEF Tables, Named
  <1>7. QED
    BY <1>1, <1>5, <1>6

\* Operations that are all admitted leave a table that fits.
LEMMA EnteredIs ==
    ASSUME NEW table \in Tables, NEW ops \in Seq(Ops),
           \A i \in DOMAIN ops : Admits(Entered(table, ops, i - 1), ops[i])
    PROVE  Entered(table, ops, Len(ops)) \in Tables
  <1> DEFINE X == {n \in Nat : n <= Len(ops) => Entered(table, ops, n) \in Tables}
  <1>1. table \in [Cols -> Links] /\ Len(ops) \in Nat /\ DOMAIN ops = 1 .. Len(ops)
    BY LenProperties DEF Tables
  <1>2. 0 \in X
    BY <1>1 DEF Entered
  <1>3. ASSUME NEW n \in X PROVE n + 1 \in X
    <2> SUFFICES ASSUME n + 1 <= Len(ops) PROVE Entered(table, ops, n + 1) \in Tables
      OBVIOUS
    <2>1. n \in Nat /\ Entered(table, ops, n) \in Tables
      BY <1>1
    <2>2. n + 1 \in DOMAIN ops /\ (n + 1) - 1 = n /\ ops[n + 1] \in Ops
      BY <1>1, <2>1, ElementOfSeq
    <2>3. Admits(Entered(table, ops, n), ops[n + 1])
      BY <2>2
    <2>4. [Entered(table, ops, n) EXCEPT ![ops[n + 1].col] = ops[n + 1].page] \in Tables
      BY <2>1, <2>2, <2>3, TableStep
    <2>5. QED
      BY <1>1, <2>1, <2>4, EnteredStep
  <1>4. Len(ops) \in X
    <2> HIDE DEF X
    <2>1. X \in SUBSET Nat
      BY DEF X
    <2>2. QED
      BY <1>1, <1>2, <1>3, <2>1, AllNaturals
  <1>5. QED
    BY <1>1, <1>4

LEMMA CommitHeaderIs ==
    ASSUME NEW r \in TxRecs, Sound(r), r.st # "idle", header \in Headers, ~ Refused(r)
    PROVE  CommitHeader(r) \in Headers
  BY SplicedIs, HeaderIs, TxIs, EnteredIs DEF Refused, CommitHeader

\* A batch with a header page at the end.
LEMMA AppendBatch ==
    ASSUME NEW pages \in Batches, NEW h \in Headers
    PROVE  Append(pages, <<Header, h>>) \in Batches
  <1> DEFINE B == {b \in AllPages \X (Bodies \cup Headers) : b[2] \in BodyOf(b[1])}
  <1>1. <<Header, h>> \in B
    BY DEF AllPages, BodyOf
  <1> HIDE DEF B
  <1>2. pages \in Seq(B)
    BY DEF B, Batches
  <1>3. Append(pages, <<Header, h>>) \in Seq(B)
    BY <1>1, <1>2, AppendProperties
  <1>4. QED
    BY <1>3 DEF B, Batches

LEMMA CommitPagesIs ==
    ASSUME NEW r \in TxRecs, Sound(r), r.st # "idle", header \in Headers, ~ Refused(r)
    PROVE  CommitPages(r) \in Batches
  BY SplicedIs, collectDirtyIs, CommitHeaderIs, AppendBatch DEF CommitPages

LEMMA ReturnPagesIs ==
    ASSUME NEW r \in TxRecs, header \in Headers, r.newPages # <<>>
    PROVE  ReturnPages(r) \in Batches /\ ReturnHeader(r) \in Headers /\ ReturnPages(r) # <<>>
  <1> DEFINE B == {b \in AllPages \X (Bodies \cup Headers) : b[2] \in BodyOf(b[1])}
             n == Len(r.newPages)
             chain == [i \in DOMAIN r.newPages |->
                          <<r.newPages[i],
                            Empty(IF i < Len(r.newPages) THEN r.newPages[i + 1] ELSE header.free)>>]
  <1>1. n \in Nat \ {0} /\ DOMAIN r.newPages = 1 .. n /\ \A i \in 1 .. n : r.newPages[i] \in Pages
    BY TxIs, LenProperties, ElementOfSeq, EmptySeq
  <1>2. ReturnHeader(r) \in Headers
    BY <1>1, HeaderIs DEF ReturnHeader, Links
  <1>3. \A p \in Pages, b \in Bodies : <<p, b>> \in B
    BY PageIds DEF AllPages, BodyOf
  <1>4. \A i \in 1 .. n : chain[i] \in B
    <2>1. ASSUME NEW i \in 1 .. n PROVE chain[i] \in B
      <3>1. (IF i < Len(r.newPages) THEN r.newPages[i + 1] ELSE header.free) \in Links
        BY <1>1, HeaderIs DEF Links
      <3>2. QED
        BY <1>1, <1>3, <3>1, BodiesAre
    <2>2. QED
      BY <2>1
  <1>5. chain \in [1 .. n -> B]
    BY <1>1, <1>4
  <1>6. <<Header, ReturnHeader(r)>> \in B
    BY <1>2 DEF AllPages, BodyOf
  <1> HIDE DEF B, chain
  <1>7. chain \in Seq(B) /\ << <<Header, ReturnHeader(r)>> >> \in Seq(B)
    BY <1>1, <1>5, <1>6, SeqDef
  <1>8. chain \o << <<Header, ReturnHeader(r)>> >> \in Seq(B)
    BY <1>7, ConcatProperties
  <1>9. ReturnPages(r) # <<>>
    BY <1>7, ConcatProperties DEF ReturnPages, chain
  <1>10. QED
    BY <1>2, <1>8, <1>9 DEF ReturnPages, Batches, B, chain

\* The records of a batch carry its pages under one id.
LEMMA MarkedIs ==
    ASSUME NEW pages \in Batches, NEW id \in Nat \ {0}, NEW flag \in BOOLEAN
    PROVE  /\ Marked(pages, id, flag) \in Seq(Recs) /\ Len(Marked(pages, id, flag)) = Len(pages)
           /\ Marked(pages, id, flag) = <<>> <=> pages = <<>>
           /\ \A i \in DOMAIN Marked(pages, id, flag) : Marked(pages, id, flag)[i].tx = id
  <1> DEFINE m == Marked(pages, id, flag)
             B == {b \in AllPages \X (Bodies \cup Headers) : b[2] \in BodyOf(b[1])}
  <1>1. pages \in Seq(B)
    BY DEF Batches
  <1>2. Len(pages) \in Nat /\ DOMAIN pages = 1 .. Len(pages)
        /\ \A i \in 1 .. Len(pages) : pages[i] \in B
    <2> HIDE DEF B
    <2>1. QED
      BY <1>1, LenProperties, ElementOfSeq
  <1>3. m = [i \in 1 .. Len(pages) |-> Rec(pages[i][1], id, flag /\ i = Len(pages), pages[i][2])]
    BY <1>2 DEF Marked
  <1>4. ASSUME NEW i \in 1 .. Len(pages)
        PROVE  Rec(pages[i][1], id, flag /\ i = Len(pages), pages[i][2]) \in Recs
    BY <1>2 DEF Rec, Recs
  <1>5. m \in [1 .. Len(pages) -> Recs]
    BY <1>3, <1>4
  <1>6. m \in Seq(Recs) /\ Len(m) = Len(pages) /\ DOMAIN m = 1 .. Len(pages)
    BY <1>2, <1>5, SeqDef, LenProperties
  <1>7. \A i \in DOMAIN m : m[i].tx = id
    BY <1>3, <1>6 DEF Rec
  <1>8. m = <<>> <=> pages = <<>>
    BY <1>1, <1>6, EmptySeq
  <1>9. QED
    BY <1>6, <1>7, <1>8

LEMMA RecsAre ==
    ASSUME NEW r \in Recs
    PROVE  /\ r.page \in AllPages /\ r.tx \in Nat /\ r.confirmed \in BOOLEAN
           /\ r # BlankRec => r.tx \in Nat \ {0} /\ r.body \in BodyOf(r.page)
           /\ r.confirmed => r # BlankRec
           /\ BlankRec \in Recs /\ BlankRec.tx = 0 /\ BlankRec.confirmed = FALSE
  <1>1. /\ BlankRec.page = Header /\ BlankRec.tx = 0 /\ BlankRec.confirmed = FALSE
        /\ BlankRec \in Recs
    BY DEF Recs, BlankRec, Rec
  <1>2. CASE r = BlankRec
    <2>1. r.page \in AllPages /\ r.tx \in Nat
      BY <1>1, <1>2 DEF AllPages
    <2>2. r.confirmed = FALSE
      BY <1>1, <1>2
    <2>3. r.confirmed \in BOOLEAN /\ ~ r.confirmed
      BY <2>2
    <2>4. QED
      BY <1>1, <1>2, <2>1, <2>3
  <1>3. CASE r # BlankRec
    BY <1>1, <1>3 DEF Recs
  <1>4. QED
    BY <1>2, <1>3

LEMMA LogIs ==
    ASSUME NEW log \in Seq(Recs)
    PROVE  /\ Len(log) \in Nat /\ DOMAIN log = 1 .. Len(log) /\ IsFiniteSet(DOMAIN log)
           /\ \A i \in DOMAIN log : i \in Nat \ {0} /\ log[i] \in Recs
  <1>1. Len(log) \in Nat /\ DOMAIN log = 1 .. Len(log)
    BY LenProperties
  <1>2. IsFiniteSet(1 .. Len(log))
    BY <1>1, FS_Interval
  <1>3. \A i \in 1 .. Len(log) : log[i] \in Recs
    BY <1>1, ElementOfSeq
  <1>4. QED
    BY <1>1, <1>2, <1>3

\* Writing to the log leaves what is in front of its end alone.
LEMMA WrittenIs ==
    ASSUME Typed, NEW recs \in Seq(Recs), NEW n \in 0 .. Len(recs)
    PROVE  /\ Written(recs, n) \in Seq(Recs)
           /\ \A i \in DOMAIN logFile : i <= logEnd \/ i > logEnd + n =>
                  i \in DOMAIN Written(recs, n) /\ Written(recs, n)[i] = logFile[i]
           /\ \A j \in 1 .. n : /\ logEnd + j \in DOMAIN Written(recs, n)
                                /\ Written(recs, n)[logEnd + j] = recs[j]
           /\ \A i \in DOMAIN Written(recs, n) :
                  \/ i \in DOMAIN logFile /\ Written(recs, n)[i] = logFile[i]
                  \/ i \notin DOMAIN logFile /\ Written(recs, n)[i] = BlankRec
                  \/ i - logEnd \in 1 .. n /\ Written(recs, n)[i] = recs[i - logEnd]
  <1> DEFINE w == Written(recs, n)
             len == IF logEnd + n > Len(logFile) THEN logEnd + n ELSE Len(logFile)
             at(i) == IF i > logEnd /\ i <= logEnd + n THEN recs[i - logEnd]
                      ELSE IF i <= Len(logFile) THEN logFile[i] ELSE BlankRec
  <1>1. /\ logEnd \in Nat /\ Len(logFile) \in Nat /\ DOMAIN logFile = 1 .. Len(logFile)
        /\ Len(recs) \in Nat /\ DOMAIN recs = 1 .. Len(recs)
        /\ \A i \in 1 .. Len(logFile) : logFile[i] \in Recs
        /\ \A i \in 1 .. Len(recs) : recs[i] \in Recs
    BY LenProperties, ElementOfSeq DEF Typed
  <1>2. BlankRec \in Recs
    BY DEF Recs
  <1>3. len \in Nat /\ n \in Nat
    BY <1>1
  <1>4. w = [i \in 1 .. len |-> at(i)]
    BY DEF Written
  <1>5. ASSUME NEW i \in 1 .. len PROVE at(i) \in Recs
    BY <1>1, <1>2, <1>3
  <1>6. w \in [1 .. len -> Recs] /\ DOMAIN w = 1 .. len
    BY <1>4, <1>5
  <1>7. w \in Seq(Recs)
    BY <1>3, <1>6, SeqDef
  <1>8. \A i \in DOMAIN logFile : i <= logEnd \/ i > logEnd + n => i \in DOMAIN w /\ w[i] = logFile[i]
    BY <1>1, <1>3, <1>4
  <1>9. \A j \in 1 .. n : logEnd + j \in DOMAIN w /\ w[logEnd + j] = recs[j]
    BY <1>1, <1>3, <1>4
  <1>10. ASSUME NEW i \in DOMAIN w
         PROVE  \/ i \in DOMAIN logFile /\ w[i] = logFile[i]
                \/ i \notin DOMAIN logFile /\ w[i] = BlankRec
                \/ i - logEnd \in 1 .. n /\ w[i] = recs[i - logEnd]
    BY <1>1, <1>3, <1>4, <1>6
  <1>11. QED
    BY <1>7, <1>8, <1>9, <1>10

\* The offsets a batch gets: each page is where its offset says, and the last page of
\* the batch is the last in the log.
LEMMA OffsetsIs ==
    ASSUME logEnd \in Nat, NEW recs \in Seq(Recs)
    PROVE  /\ Offsets(recs) \in OffsetMaps
           /\ \A p \in DOMAIN Offsets(recs) : /\ Offsets(recs)[p] - logEnd \in 1 .. Len(recs)
                                              /\ recs[Offsets(recs)[p] - logEnd].page = p
           /\ \A i \in 1 .. Len(recs) : /\ recs[i].page \in DOMAIN Offsets(recs)
                                        /\ logEnd + i <= Offsets(recs)[recs[i].page]
           /\ recs # <<>> => \E p \in DOMAIN Offsets(recs) : Offsets(recs)[p] = logEnd + Len(recs)
  <1> DEFINE ps == {recs[i].page : i \in DOMAIN recs}
             last(p) == CHOOSE i \in DOMAIN recs :
                           recs[i].page = p /\ \A j \in DOMAIN recs : recs[j].page = p => j <= i
             o == Offsets(recs)
  <1>1. Len(recs) \in Nat /\ DOMAIN recs = 1 .. Len(recs)
    BY LenProperties
  <1>2. ps \in SUBSET AllPages
    BY <1>1, ElementOfSeq, RecsAre
  <1>3. ASSUME NEW p \in ps
        PROVE  /\ last(p) \in 1 .. Len(recs) /\ recs[last(p)].page = p
               /\ \A j \in 1 .. Len(recs) : recs[j].page = p => j <= last(p)
    <2> DEFINE S == {i \in 1 .. Len(recs) : recs[i].page = p}
    <2>1. S \in SUBSET Int /\ S # {}
      BY <1>1
    <2>2. IsFiniteSet(S)
      <3>1. IsFiniteSet(1 .. Len(recs)) /\ S \subseteq 1 .. Len(recs)
        BY <1>1, FS_Interval
      <3>2. QED
        BY <3>1, FS_Subset
    <2>3. Max(S) \in S /\ \A y \in S : Max(S) >= y
      <3> HIDE DEF S
      <3>1. QED
        BY <2>1, <2>2, MaxIs
    <2>4. \E i \in DOMAIN recs :
             recs[i].page = p /\ \A j \in DOMAIN recs : recs[j].page = p => j <= i
      BY <1>1, <2>1, <2>3
    <2>5. QED
      BY <1>1, <2>4
  <1>4. o = [p \in ps |-> logEnd + last(p)]
    BY DEF Offsets
  <1> HIDE DEF last, ps
  <1>5. \A p \in ps : logEnd + last(p) \in Nat \ {0} /\ (logEnd + last(p)) - logEnd = last(p)
    BY <1>1, <1>3
  <1>6. o \in [ps -> Nat \ {0}]
    BY <1>4, <1>5
  <1>7. o \in OffsetMaps
    BY <1>2, <1>6, MapMade DEF OffsetMaps
  <1>8. ASSUME recs # <<>> PROVE \E p \in DOMAIN o : o[p] = logEnd + Len(recs)
    <2>1. Len(recs) \in 1 .. Len(recs)
      BY <1>1, <1>8, EmptySeq
    <2> DEFINE p == recs[Len(recs)].page
    <2>2. p \in ps
      BY <1>1, <2>1 DEF ps
    <2>3. Len(recs) <= last(p) /\ last(p) \in 1 .. Len(recs)
      BY <1>3, <2>1, <2>2
    <2>4. last(p) = Len(recs)
      BY <1>1, <2>3
    <2>5. QED
      BY <1>4, <2>2, <2>4
  <1>9. ASSUME NEW i \in 1 .. Len(recs) PROVE recs[i].page \in DOMAIN o /\ logEnd + i <= o[recs[i].page]
    BY <1>1, <1>3, <1>4 DEF ps
  <1>10. QED
    BY <1>3, <1>4, <1>5, <1>7, <1>8, <1>9

-----------------------------------------------------------------------------
(* The inductive invariant holds.                                          *)

LEMMA InitialPages == InitHeader \in Headers /\ InitData \in DataFiles
  <1> DEFINE table == [c \in Cols |-> IF c = Names[1] THEN 1 ELSE NoPage]
  <1>1. table \in [Cols -> Links]
    BY PageIds DEF Links
  <1>2. Named(table) = 1
    <2>1. {c \in Cols : table[c] # NoPage} = {Names[1]}
      BY SomeCols DEF NoPage
    <2>2. QED
      BY <2>1, FS_Singleton DEF Named
  <1>3. table \in Tables
    BY <1>1, <1>2, BoundsAssumption DEF Tables
  <1>4. (IF MaxPage > 3 THEN 3 ELSE NoPage) \in Links /\ (IF MaxPage > 3 THEN 4 ELSE 2) \in Pages
    BY BoundsAssumption DEF Links, Pages
  <1>5. InitHeader \in Headers
    BY <1>3, <1>4 DEF InitHeader, Headers
  <1>6. ASSUME NEW p \in Pages PROVE InitData[p] \in Bodies
    BY BodiesAre, PageIds, BoundsAssumption DEF Links, Pages, InitData
  <1>7. InitData[Header] = InitHeader
    BY PageIds DEF InitData, Header
  <1>8. DOMAIN InitData = AllPages
    BY DEF InitData, AllPages
  <1>9. \A p \in AllPages : InitData[p] \in Bodies \cup Headers /\ InitData[p] \in BodyOf(p)
    BY <1>5, <1>6, <1>7, PageIds DEF AllPages, BodyOf
  <1>10. InitData \in [AllPages -> Bodies \cup Headers]
    BY <1>8, <1>9 DEF InitData
  <1>11. QED
    BY <1>5, <1>9, <1>10 DEF DataFiles

LEMMA Initially == Init => IInv
  <1> SUFFICES ASSUME Init PROVE IInv
    OBVIOUS
  <1>1. \A t \in Txs : tx[t] = Idle
    BY DEF Init
  <1>2. Typed
    <2>1. <<>> \in Seq(Recs)
      BY EmptySeq
    <2>2. index \in [AllPages -> SUBSET Entries] /\ \A p \in AllPages : index[p] = {}
      BY DEF Init, AllPages
    <2>3. tx \in [Txs -> TxRecs]
      BY IdleIs DEF Init
    <2>4. faults \in Nat /\ faults <= MaxFaults
      BY BoundsAssumption DEF Init
    <2>5. QED
      BY <2>1, <2>2, <2>3, <2>4, InitialPages DEF Init, Typed
  <1>3. \A t \in Txs : Sound(tx[t]) /\ tx[t].st = "idle" /\ DOMAIN tx[t].dirty = {}
    BY <1>1, IdleIs
  <1>4. mu \notin Txs /\ ckpt.st = "off" /\ DOMAIN logFile = {}
    BY TxsAssumption, EmptyMap DEF Init
  <1>5. QED
    BY <1>2, <1>3, <1>4
       DEF IInv, Mutex, Quiet, Ids, LogIDs, Spilled, SpillsTrue, OffsetsTrue

\* A call of an open transaction that writes nothing to the files.
LEMMA CallStep ==
    ASSUME IInv, NEW t \in Txs, tx[t].st \in {"active", "aborting"}, NEW r \in TxRecs, Sound(r),
           \/ r = Idle
           \/ /\ r.st \in {"active", "aborting"} /\ r.id = tx[t].id /\ r.dirty = tx[t].dirty
              /\ r.st = "active" => tx[t].st = "active",
           tx' = [tx EXCEPT ![t] = r], header' \in Headers,
           UNCHANGED <<fileVars, walVars, mu, broken, ckpt>>,
           faults' \in Nat, faults' <= MaxFaults
    PROVE  IInv'
  <1> USE DEF IInv
  <1>1. UNCHANGED <<logFile, logDisk, logEnd, dataFile, dataDisk, index, confirmed, readVersion,
                    lastTxID, mu, broken, ckpt>>
    BY DEF fileVars, walVars
  <1>2. /\ tx' \in [Txs -> TxRecs] /\ tx'[t] = r
        /\ \A u \in Txs \ {t} : tx'[u] = tx[u]
    BY DEF Typed
  <1>3. /\ r.st \in {"idle", "active", "aborting"} /\ DOMAIN r.dirty \subseteq DOMAIN tx[t].dirty
        /\ \A p \in DOMAIN r.dirty : r.dirty[p] = tx[t].dirty[p]
        /\ r.st # "idle" => r.id = tx[t].id /\ r.dirty = tx[t].dirty
        /\ r.st = "active" => tx[t].st = "active"
    BY IdleIs
  <1>4. Typed'
    BY <1>1, <1>2 DEF Typed
  <1>5. \A u \in Txs : Sound(tx'[u])
    BY <1>2
  <1>6. Mutex'
    BY <1>1, <1>2, <1>3 DEF Mutex
  <1>7. Quiet'
    BY <1>1, <1>2, <1>3 DEF Quiet
  <1>8. Ids'
    BY <1>1, <1>2, <1>3 DEF Ids
  <1>9. LogIDs'
    BY <1>1 DEF LogIDs
  <1>10. Spilled'
    BY <1>1, <1>2, <1>3 DEF Spilled, SpilledBy
  <1>11. SpillsTrue'
    BY <1>1, <1>2, <1>3 DEF SpillsTrue, OffsetsTrue, At
  <1>12. QED
    BY <1>4, <1>5, <1>6, <1>7, <1>8, <1>9, <1>10, <1>11

\* A change of one snapshot.
LEMMA SnapStep ==
    ASSUME IInv, NEW t \in Txs, tx[t].st \in {"active", "aborting"}, NEW c \in Cols, NEW s \in Snaps,
           s.collDirty \/ s.body.kind = "coll" => s.coll \in Pages,
           tx' = [tx EXCEPT ![t].snaps[c] = s], UNCHANGED header, UNCHANGED restVars
    PROVE  IInv'
  <1> DEFINE snaps == [tx[t].snaps EXCEPT ![c] = s]
             r == [tx[t] EXCEPT !.snaps = snaps]
  <1>1. tx[t] \in TxRecs /\ Sound(tx[t]) /\ tx \in [Txs -> TxRecs]
    BY DEF IInv, Typed
  <1>2. snaps \in [Cols -> Snaps] /\ \A d \in Cols : snaps[d] = IF d = c THEN s ELSE tx[t].snaps[d]
    BY <1>1, TxIs
  <1>3. /\ r.st = tx[t].st /\ r.id = tx[t].id /\ r.dirty = tx[t].dirty
        /\ r.lastDelete = tx[t].lastDelete /\ r.lastDeleteColl = tx[t].lastDeleteColl
        /\ r.snaps = snaps
    BY <1>1 DEF TxRecs
  <1>4. r \in TxRecs
    BY <1>1, <1>2 DEF TxRecs
  <1>5. tx' = [tx EXCEPT ![t] = r]
    BY <1>1
  <1>6. header \in Headers /\ faults \in Nat /\ faults <= MaxFaults
    BY DEF IInv, Typed
  <1> HIDE DEF r, snaps
  <1>7. Sound(r)
    BY <1>1, <1>2, <1>3 DEF Sound
  <1>8. QED
    BY <1>3, <1>4, <1>5, <1>6, <1>7, CallStep DEF restVars

\* Whoever opens a snapshot, and finds headerMu free, has not begun to commit.
LEMMA OpeningIs ==
    ASSUME IInv, NEW t \in Txs, NEW c \in Cols, tx[t].snaps[c].mode # "none", mu = NoTx
    PROVE  tx[t].st \in {"active", "aborting"}
  <1>1. tx[t].st \in States /\ (tx[t].st = "idle" => tx[t] = Idle)
    BY TxIs DEF IInv, Typed, Sound
  <1>2. tx[t].st # "idle"
    <2>1. Idle.snaps[c] = NoSnap /\ NoSnap.mode = "none"
      BY DEF Idle, NoSnap
    <2>2. QED
      BY <1>1, <2>1
  <1>3. tx[t].st \notin {"appended", "returning"}
    BY TxsAssumption DEF IInv, Mutex
  <1>4. QED
    BY <1>1, <1>2, <1>3 DEF States

LEMMA SnapshotStep ==
    ASSUME IInv, NEW t \in Txs, NEW c \in Cols, NEW mode \in {"read", "write"}, Snapshot(t, c, mode)
    PROVE  IInv'
  <1>1. tx[t].st = "active"
    BY DEF Snapshot, Active
  <1>2. NewSnap(mode) \in Snaps /\ NewSnap(mode).collDirty = FALSE /\ NewSnap(mode).body = Blank
    BY EmptyMap, BodiesAre DEF NewSnap, NoSnap, Snaps, Locals, Links, IInv, Typed
  <1>3. Blank.kind # "coll"
    BY DEF Blank
  <1>4. QED
    BY <1>1, <1>2, <1>3, NoSnapIs, SnapStep DEF Snapshot

LEMMA LoadStep ==
    ASSUME IInv, NEW t \in Txs, NEW c \in Cols, LoadCollection(t, c)
    PROVE  IInv'
  <1> DEFINE s == tx[t].snaps[c]
             p == header.table[c]
             b == getPage(t, c, p, FALSE)
  <1>1. tx[t].st \in {"active", "aborting"}
    BY OpeningIs DEF LoadCollection, Opening
  <1>2. /\ Typed /\ s \in Snaps /\ p \in Links
        /\ s.collDirty \/ s.body.kind = "coll" => s.coll \in Pages
    BY TxIs, HeaderIs DEF IInv, Typed, Sound, Tables
  <1>3. p # NoPage => p \in Pages /\ b \in Bodies
    BY <1>2, getPageIs DEF Links
  <1>4. UNCHANGED header /\ UNCHANGED restVars
    BY DEF LoadCollection
  <1>5. Blank.kind # "coll"
    BY DEF Blank
  <1>6. CASE tx' = [tx EXCEPT ![t].snaps[c].loaded = TRUE]
    <2> DEFINE n == [s EXCEPT !.loaded = TRUE]
    <2>1. n \in Snaps /\ n.collDirty = s.collDirty /\ n.body = s.body /\ n.coll = s.coll
      BY <1>2, SnapIs DEF Snaps
    <2>2. tx' = [tx EXCEPT ![t].snaps[c] = n]
      BY <1>6
    <2> HIDE DEF n
    <2>3. QED
      BY <1>1, <1>2, <1>4, <2>1, <2>2, SnapStep
  <1>7. CASE tx' = [tx EXCEPT ![t].snaps[c] = NoSnap]
    BY <1>1, <1>4, <1>5, <1>7, NoSnapIs, SnapStep
  <1>8. CASE /\ p # NoPage
             /\ tx' = [tx EXCEPT ![t].snaps[c] =
                          [s EXCEPT !.loaded = TRUE, !.coll = p, !.body = b]]
    <2> HIDE DEF b
    <2> DEFINE n1 == [s EXCEPT !.loaded = TRUE]
               n2 == [n1 EXCEPT !.coll = p]
               n == [n2 EXCEPT !.body = b]
    <2>1. n1 \in Snaps
      BY <1>2, SnapIs
    <2>2. n2 \in Snaps /\ n2.coll = p
      BY <1>2, <2>1, SnapIs DEF Snaps
    <2>3. n \in Snaps /\ n.coll = p
      BY <1>3, <1>8, <2>2, SnapIs DEF Snaps
    <2>4. tx' = [tx EXCEPT ![t].snaps[c] = n]
      BY <1>8
    <2>5. n.coll \in Pages
      BY <1>3, <1>8, <2>3
    <2> HIDE DEF n
    <2>6. QED
      BY <1>1, <1>4, <2>3, <2>4, <2>5, SnapStep
  <1>9. QED
    BY <1>6, <1>7, <1>8 DEF LoadCollection

LEMMA UpdateStep ==
    ASSUME IInv, NEW t \in Txs, NEW c \in Cols, NEW p \in Pages, Update(t, c, p)
    PROVE  IInv'
  <1> DEFINE s == tx[t].snaps[c]
             local == Put(s.local, p, Data(tx[t].id))
             n == [s EXCEPT !.local = local]
  <1>1. tx[t].st \in {"active", "aborting"} /\ UNCHANGED header /\ UNCHANGED restVars
    BY DEF Update, Active
  <1>2. /\ s \in Snaps /\ tx[t].id \in Nat
        /\ s.collDirty \/ s.body.kind = "coll" => s.coll \in Pages
    BY TxIs DEF IInv, Typed, Sound
  <1>3. local \in Locals
    BY <1>2, SnapIs, PutIs, BodiesAre
  <1> HIDE DEF local
  <1>4. n \in Snaps /\ n.collDirty = s.collDirty /\ n.body = s.body /\ n.coll = s.coll
    BY <1>2, <1>3, SnapIs DEF Snaps
  <1>5. tx' = [tx EXCEPT ![t].snaps[c] = n]
    BY DEF Update, local
  <1> HIDE DEF n
  <1>6. QED
    BY <1>1, <1>2, <1>4, <1>5, SnapStep

LEMMA ScanStep ==
    ASSUME IInv, NEW t \in Txs, NEW c \in Cols, Scan(t, c)
    PROVE  IInv'
  <1> DEFINE s == tx[t].snaps[c]
             range == {p \in 1 .. header.last : canSee(t, c, p)}
             bad(p) == getPage(t, c, p, FALSE) = Blank
             seen == {p \in range : \A q \in range : q <= p => ~bad(q)} \ DOMAIN s.local
             clean == [p \in seen |-> [body |-> getPage(t, c, p, FALSE), dirty |-> FALSE]]
             local == Over(s.local, clean)
             n == [s EXCEPT !.local = local]
  <1>1. tx[t].st \in {"active", "aborting"} /\ UNCHANGED header /\ UNCHANGED restVars
    BY DEF Scan, CanLock, Active
  <1>2. /\ Typed /\ s \in Snaps /\ header \in Headers
        /\ s.collDirty \/ s.body.kind = "coll" => s.coll \in Pages
    BY TxIs DEF IInv, Typed, Sound
  <1>3. seen \subseteq Pages
    <2>1. 1 .. header.last \subseteq Pages
      BY <1>2, HeaderIs, BoundsAssumption DEF Pages
    <2>2. QED
      BY <2>1
  <1> HIDE DEF seen
  <1>4. clean \in Locals
    <2>1. \A p \in seen : getPage(t, c, p, FALSE) \in Bodies
      BY <1>2, <1>3, getPageIs
    <2>2. clean \in [seen -> [body : Bodies, dirty : BOOLEAN]]
      BY <2>1
    <2> HIDE DEF clean
    <2>3. QED
      BY <1>3, <2>2, MapMade DEF Locals
  <1>5. local \in Locals
    <2> HIDE DEF clean
    <2>1. s.local \in Locals
      BY <1>2, SnapIs
    <2>2. QED
      BY <1>4, <2>1, OverIs DEF Locals
  <1> HIDE DEF local
  <1>6. n \in Snaps /\ n.collDirty = s.collDirty /\ n.body = s.body /\ n.coll = s.coll
    BY <1>2, <1>5, SnapIs DEF Snaps
  <1>7. tx' = [tx EXCEPT ![t].snaps[c] = n]
    BY DEF Scan, local, clean, seen
  <1> HIDE DEF n
  <1>8. QED
    BY <1>1, <1>2, <1>6, <1>7, SnapStep

LEMMA CreateStep ==
    ASSUME IInv, NEW t \in Txs, NEW c \in Cols, CreateCollection(t, c)
    PROVE  IInv'
  <1> DEFINE a == Alloc(t, c)
             s == tx[t].snaps[c]
             s1 == [s EXCEPT !.loaded = TRUE]
             s2 == [s1 EXCEPT !.coll = a.page]
             s3 == [s2 EXCEPT !.body = Coll({})]
             n == [s3 EXCEPT !.collDirty = TRUE]
             snaps == [tx[t].snaps EXCEPT ![c] = n]
             op == [op |-> "add", col |-> c, page |-> a.page]
             r1 == [tx[t] EXCEPT !.snaps = snaps]
             r2 == [r1 EXCEPT !.newPages = Append(tx[t].newPages, a.page)]
             r3 == [r2 EXCEPT !.headerChanged = TRUE]
             r == [r3 EXCEPT !.onCommit = Append(tx[t].onCommit, op)]
  <1>1. tx[t].st \in {"active", "aborting"}
    BY OpeningIs DEF CreateCollection
  <1>2. /\ tx[t] \in TxRecs /\ Sound(tx[t]) /\ s \in Snaps /\ tx \in [Txs -> TxRecs]
        /\ faults \in Nat /\ faults <= MaxFaults
    BY TxIs DEF IInv, Typed
  <1>3. a.page \in Pages /\ a.header \in Headers
    BY AllocIs DEF CreateCollection, Links, IInv
  <1> HIDE DEF a
  <1>4. n \in Snaps /\ n.coll = a.page
    BY <1>2, <1>3, SnapIs, BodiesAre DEF Snaps, Links
  <1> HIDE DEF n
  <1>5. snaps \in [Cols -> Snaps] /\ \A d \in Cols : snaps[d] = IF d = c THEN n ELSE tx[t].snaps[d]
    BY <1>2, <1>4, TxIs
  <1>6. Append(tx[t].newPages, a.page) \in Seq(Pages) /\ Append(tx[t].onCommit, op) \in Seq(Ops)
    <2>1. op \in Ops
      BY <1>3 DEF Ops
    <2>2. QED
      BY <1>2, <1>3, <2>1, TxIs, AppendProperties
  <1> HIDE DEF snaps, op
  <1>7. r1 \in TxRecs
    BY <1>2, <1>5 DEF TxRecs
  <1>8. r2 \in TxRecs
    BY <1>6, <1>7 DEF TxRecs
  <1>9. r3 \in TxRecs
    BY <1>8 DEF TxRecs
  <1>10. r \in TxRecs
    BY <1>6, <1>9 DEF TxRecs
  <1>11. /\ r.st = tx[t].st /\ r.id = tx[t].id /\ r.dirty = tx[t].dirty
         /\ r.lastDelete = tx[t].lastDelete /\ r.lastDeleteColl = tx[t].lastDeleteColl
         /\ r.snaps = snaps
    BY <1>2 DEF TxRecs
  <1>12. tx' = [tx EXCEPT ![t] = r]
    BY <1>2 DEF CreateCollection, a, n, snaps, op
  <1>13. header' = a.header /\ UNCHANGED restVars
    BY DEF CreateCollection, a
  <1> HIDE DEF r
  <1>14. Sound(r)
    BY <1>1, <1>2, <1>3, <1>4, <1>5, <1>11 DEF Sound
  <1>15. QED
    BY <1>1, <1>2, <1>3, <1>10, <1>11, <1>12, <1>13, <1>14, CallStep DEF restVars

LEMMA GrowStep ==
    ASSUME IInv, NEW t \in Txs, NEW c \in Cols, Grow(t, c)
    PROVE  IInv'
  <1> DEFINE a == Alloc(t, c)
             s == tx[t].snaps[c]
             s1 == [s EXCEPT !.body = Coll(s.body.pages \cup {a.page})]
             s2 == [s1 EXCEPT !.collDirty = TRUE]
             n == [s2 EXCEPT !.local = Put(s.local, a.page, Data(tx[t].id))]
             snaps == [tx[t].snaps EXCEPT ![c] = n]
             r1 == [tx[t] EXCEPT !.snaps = snaps]
             r2 == [r1 EXCEPT !.newPages = Append(tx[t].newPages, a.page)]
             r == [r2 EXCEPT !.headerChanged = TRUE]
  <1>1. tx[t].st \in {"active", "aborting"}
    BY DEF Grow, CanLock, Active
  <1>2. /\ tx[t] \in TxRecs /\ Sound(tx[t]) /\ s \in Snaps /\ tx \in [Txs -> TxRecs]
        /\ faults \in Nat /\ faults <= MaxFaults
    BY TxIs DEF IInv, Typed
  <1>3. a.page \in Pages /\ a.header \in Headers
    BY AllocIs DEF Grow, Links, IInv
  <1>4. s.body.kind = "coll" /\ s.coll \in Pages /\ s.body.pages \in SUBSET Pages
    BY <1>2, SnapIs, BodiesAre DEF Grow, Writable, Sound
  <1> HIDE DEF a
  <1>5. n \in Snaps /\ n.coll \in Pages
    <2>1. s1 \in Snaps /\ s1.coll = s.coll /\ s1.local = s.local
      BY <1>2, <1>3, <1>4, SnapIs, BodiesAre DEF Snaps
    <2>2. s2 \in Snaps /\ s2.coll = s.coll /\ s2.local = s.local
      BY <2>1, SnapIs DEF Snaps
    <2>3. Put(s.local, a.page, Data(tx[t].id)) \in Locals
      BY <1>2, <1>3, SnapIs, TxIs, BodiesAre, PutIs
    <2>4. QED
      BY <1>4, <2>2, <2>3, SnapIs DEF Snaps
  <1> HIDE DEF n
  <1>6. snaps \in [Cols -> Snaps] /\ \A d \in Cols : snaps[d] = IF d = c THEN n ELSE tx[t].snaps[d]
    BY <1>2, <1>5, TxIs
  <1>7. Append(tx[t].newPages, a.page) \in Seq(Pages)
    BY <1>2, <1>3, TxIs, AppendProperties
  <1> HIDE DEF snaps
  <1>8. r1 \in TxRecs
    BY <1>2, <1>6 DEF TxRecs
  <1>9. r2 \in TxRecs
    BY <1>7, <1>8 DEF TxRecs
  <1>10. r \in TxRecs
    BY <1>9 DEF TxRecs
  <1>11. /\ r.st = tx[t].st /\ r.id = tx[t].id /\ r.dirty = tx[t].dirty
         /\ r.lastDelete = tx[t].lastDelete /\ r.lastDeleteColl = tx[t].lastDeleteColl
         /\ r.snaps = snaps
    BY <1>2 DEF TxRecs
  <1>12. tx' = [tx EXCEPT ![t] = r]
    BY <1>2 DEF Grow, a, n, snaps
  <1>13. header' = a.header /\ UNCHANGED restVars
    BY DEF Grow, a
  <1> HIDE DEF r
  <1>14. Sound(r)
    BY <1>1, <1>2, <1>5, <1>6, <1>11 DEF Sound
  <1>15. QED
    BY <1>1, <1>2, <1>3, <1>10, <1>11, <1>12, <1>13, <1>14, CallStep DEF restVars

\* A transaction object with another snapshot, and with a page in its deleted chain.
LEMMA EditedIs ==
    ASSUME NEW r \in TxRecs, Sound(r), r.st # "idle", NEW c \in Cols, NEW s \in Snaps,
           s.collDirty \/ s.body.kind = "coll" => s.coll \in Pages
    PROVE  /\ [r EXCEPT !.snaps[c] = s] \in TxRecs /\ Sound([r EXCEPT !.snaps[c] = s])
           /\ [r EXCEPT !.snaps[c] = s].st = r.st /\ [r EXCEPT !.snaps[c] = s].id = r.id
           /\ [r EXCEPT !.snaps[c] = s].dirty = r.dirty
           /\ [r EXCEPT !.snaps[c] = s].onCommit = r.onCommit
  <1> DEFINE snaps == [r.snaps EXCEPT ![c] = s]
             r1 == [r EXCEPT !.snaps = snaps]
  <1>1. snaps \in [Cols -> Snaps] /\ \A d \in Cols : snaps[d] = IF d = c THEN s ELSE r.snaps[d]
    BY TxIs
  <1>2. [r EXCEPT !.snaps[c] = s] = r1
    OBVIOUS
  <1> HIDE DEF snaps
  <1>3. /\ r1.st = r.st /\ r1.id = r.id /\ r1.dirty = r.dirty /\ r1.lastDelete = r.lastDelete
        /\ r1.lastDeleteColl = r.lastDeleteColl /\ r1.snaps = snaps /\ r1.save = r.save
        /\ r1.onCommit = r.onCommit
    BY DEF TxRecs
  <1>4. r1 \in TxRecs
    BY <1>1 DEF TxRecs
  <1> HIDE DEF r1
  <1>5. Sound(r1)
    BY <1>1, <1>3 DEF Sound
  <1>6. QED
    BY <1>2, <1>3, <1>4, <1>5

LEMMA ChainedIs ==
    ASSUME NEW r \in TxRecs, Sound(r), r.st # "idle", NEW c \in Cols, NEW p \in Pages
    PROVE  /\ Chained(r, c, p) \in TxRecs /\ Sound(Chained(r, c, p))
           /\ Chained(r, c, p).st = r.st /\ Chained(r, c, p).id = r.id
           /\ Chained(r, c, p).dirty = r.dirty /\ Chained(r, c, p).onCommit = r.onCommit
  <1> DEFINE last == IF r.firstDelete = NoPage THEN p ELSE r.lastDelete
             coll == IF r.firstDelete = NoPage THEN c ELSE r.lastDeleteColl
             r1 == [r EXCEPT !.firstDelete = p]
             r2 == [r1 EXCEPT !.lastDelete = last]
             r3 == [r2 EXCEPT !.lastDeleteColl = coll]
             r4 == [r3 EXCEPT !.headerChanged = TRUE]
  <1>1. last \in Links /\ coll \in Cols \cup {""} /\ (last # NoPage => coll \in Cols)
    BY TxIs DEF Links, Sound
  <1>2. Chained(r, c, p) = r4
    BY DEF Chained, TxRecs
  <1> HIDE DEF last, coll
  <1>3. r1 \in TxRecs
    BY DEF TxRecs, Links
  <1>4. r2 \in TxRecs
    BY <1>1, <1>3 DEF TxRecs
  <1>5. r3 \in TxRecs
    BY <1>1, <1>4 DEF TxRecs
  <1>6. r4 \in TxRecs
    BY <1>5 DEF TxRecs
  <1>7. /\ r4.st = r.st /\ r4.id = r.id /\ r4.dirty = r.dirty /\ r4.snaps = r.snaps
        /\ r4.save = r.save /\ r4.lastDelete = last /\ r4.lastDeleteColl = coll
        /\ r4.onCommit = r.onCommit
    BY DEF TxRecs
  <1> HIDE DEF r4
  <1>8. Sound(r4)
    BY <1>1, <1>7 DEF Sound
  <1>9. QED
    BY <1>2, <1>6, <1>7, <1>8

LEMMA ShrinkStep ==
    ASSUME IInv, NEW t \in Txs, NEW c \in Cols, NEW p \in Pages, Shrink(t, c, p)
    PROVE  IInv'
  <1> DEFINE s == tx[t].snaps[c]
             local == Put(s.local, p, Empty(tx[t].firstDelete))
             s1 == [s EXCEPT !.body = Coll(s.body.pages \ {p})]
             s2 == [s1 EXCEPT !.collDirty = TRUE]
             n == [s2 EXCEPT !.local = local]
             q == Chained(tx[t], c, p)
             r == [q EXCEPT !.snaps[c] = n]
  <1>1. /\ tx[t].st = "active" /\ UNCHANGED header /\ UNCHANGED restVars
        /\ s.body.kind = "coll"
    BY DEF Shrink, Active, Writable
  <1>2. /\ tx[t] \in TxRecs /\ Sound(tx[t]) /\ s \in Snaps /\ header \in Headers
        /\ faults \in Nat /\ faults <= MaxFaults /\ tx \in [Txs -> TxRecs]
    BY TxIs DEF IInv, Typed
  <1>3. s.coll \in Pages /\ s.body.pages \in SUBSET Pages
    BY <1>1, <1>2, SnapIs, BodiesAre DEF Sound
  <1>4. local \in Locals
    BY <1>2, SnapIs, TxIs, BodiesAre, PutIs
  <1>5. tx' = [tx EXCEPT ![t] = r]
    BY <1>2 DEF Shrink
  <1> HIDE DEF local
  <1>6. n \in Snaps /\ n.coll \in Pages
    BY <1>2, <1>3, <1>4, SnapIs, BodiesAre DEF Snaps
  <1> HIDE DEF n
  <1>7. q \in TxRecs /\ Sound(q) /\ q.st = "active" /\ q.id = tx[t].id /\ q.dirty = tx[t].dirty
    BY <1>1, <1>2, ChainedIs
  <1> HIDE DEF q
  <1>8. r \in TxRecs /\ Sound(r) /\ r.st = "active" /\ r.id = tx[t].id /\ r.dirty = tx[t].dirty
    BY <1>6, <1>7, EditedIs
  <1> HIDE DEF r
  <1>9. QED
    BY <1>1, <1>2, <1>5, <1>8, CallStep DEF restVars

LEMMA DropStep ==
    ASSUME IInv, NEW t \in Txs, NEW c \in Cols, Drop(t, c)
    PROVE  IInv'
  <1> DEFINE s == tx[t].snaps[c]
             s1 == [s EXCEPT !.body = Empty(tx[t].firstDelete)]
             n == [s1 EXCEPT !.collDirty = TRUE]
             op == [op |-> "drop", col |-> c, page |-> NoPage]
             q == Chained(tx[t], c, s.coll)
             q1 == [q EXCEPT !.snaps[c] = n]
             r == [q1 EXCEPT !.onCommit = Append(q1.onCommit, op)]
  <1>1. /\ tx[t].st = "active" /\ UNCHANGED header /\ UNCHANGED restVars
        /\ s.body.kind = "coll"
    BY DEF Drop, Active, Writable
  <1>2. /\ tx[t] \in TxRecs /\ Sound(tx[t]) /\ s \in Snaps /\ header \in Headers
        /\ faults \in Nat /\ faults <= MaxFaults /\ tx \in [Txs -> TxRecs]
    BY TxIs DEF IInv, Typed
  <1>3. s.coll \in Pages
    BY <1>1, <1>2 DEF Sound
  <1>4. n \in Snaps /\ n.coll \in Pages
    BY <1>2, <1>3, TxIs, SnapIs, BodiesAre DEF Snaps
  <1>5. q \in TxRecs /\ Sound(q) /\ q.st = "active" /\ q.id = tx[t].id /\ q.dirty = tx[t].dirty
        /\ q.onCommit = tx[t].onCommit
    BY <1>1, <1>2, <1>3, ChainedIs
  <1>6. tx' = [tx EXCEPT ![t] = r]
    BY <1>2, <1>5 DEF Drop
  <1> HIDE DEF n, q
  <1>7. q1 \in TxRecs /\ Sound(q1) /\ q1.st = "active" /\ q1.id = tx[t].id /\ q1.dirty = tx[t].dirty
    BY <1>4, <1>5, EditedIs
  <1>8. Append(q1.onCommit, op) \in Seq(Ops)
    <2>1. op \in Ops
      BY DEF Ops
    <2> HIDE DEF q1, op
    <2>2. QED
      BY <1>7, <2>1, TxIs, AppendProperties
  <1> HIDE DEF q1, op
  <1>9. r \in TxRecs
    BY <1>7, <1>8 DEF TxRecs
  <1>10. /\ r.st = "active" /\ r.id = tx[t].id /\ r.dirty = tx[t].dirty /\ r.snaps = q1.snaps
         /\ r.lastDelete = q1.lastDelete /\ r.lastDeleteColl = q1.lastDeleteColl /\ r.save = q1.save
    BY <1>7 DEF TxRecs
  <1> HIDE DEF r
  <1>11. Sound(r)
    BY <1>7, <1>10 DEF Sound
  <1>12. QED
    BY <1>1, <1>2, <1>6, <1>9, <1>10, <1>11, CallStep DEF restVars

\* A transaction that has given back its snapshots, and one that is over.
LEMMA ReleasedIs ==
    ASSUME NEW r \in TxRecs, Sound(r), r.st # "idle"
    PROVE  /\ Released(r) \in TxRecs /\ Sound(Released(r)) /\ Released(r).st = "aborting"
           /\ Released(r).id = r.id /\ Released(r).dirty = r.dirty
  <1> DEFINE snaps == [c \in Cols |-> NoSnap]
             r1 == [r EXCEPT !.snaps = snaps]
             r2 == [r1 EXCEPT !.st = "aborting"]
  <1>1. snaps \in [Cols -> Snaps] /\ \A c \in Cols : snaps[c] = NoSnap
    BY NoSnapIs
  <1>2. Released(r) = r2
    BY DEF Released
  <1> HIDE DEF snaps
  <1>3. r1 \in TxRecs
    BY <1>1 DEF TxRecs
  <1>4. r2 \in TxRecs
    BY <1>3 DEF TxRecs, States
  <1>5. /\ r2.st = "aborting" /\ r2.id = r.id /\ r2.dirty = r.dirty /\ r2.lastDelete = r.lastDelete
        /\ r2.lastDeleteColl = r.lastDeleteColl /\ r2.snaps = snaps
    BY DEF TxRecs
  <1> HIDE DEF r2
  <1>6. Blank.kind # "coll"
    BY DEF Blank
  <1>7. Sound(r2)
    BY <1>1, <1>5, <1>6, NoSnapIs DEF Sound
  <1>8. QED
    BY <1>2, <1>4, <1>5, <1>7

LEMMA FinishStep ==
    ASSUME IInv, NEW t \in Txs, tx[t].st \in {"active", "aborting"}, Finish(t),
           UNCHANGED <<header, fileVars, walVars, mu, broken, ckpt>>,
           faults' \in Nat, faults' <= MaxFaults
    PROVE  IInv'
  BY IdleIs, CallStep DEF IInv, Typed, Finish

LEMMA FaultIs == ASSUME Typed, UNCHANGED faults \/ Fault PROVE faults' \in Nat /\ faults' <= MaxFaults
  BY BoundsAssumption DEF Typed, Fault

LEMMA CommitNothingStep ==
    ASSUME IInv, NEW t \in Txs, CommitNothing(t)
    PROVE  IInv'
  BY FaultIs, FinishStep, ReleasedIs, CallStep DEF CommitNothing, CanLock, Active, IInv, Typed,
     Finish

LEMMA RollbackStep == ASSUME IInv, NEW t \in Txs, Rollback(t) PROVE IInv'
  BY FaultIs, FinishStep DEF Rollback, Active, restVars, IInv

LEMMA GiveUpStep == ASSUME IInv, NEW t \in Txs, GiveUp(t) PROVE IInv'
  BY FaultIs, FinishStep DEF GiveUp, Ending, Active, restVars, IInv

LEMMA BeginStep == ASSUME IInv, NEW t \in Txs, Begin(t) PROVE IInv'
  <1> USE DEF IInv
  <1> DEFINE id == lastTxID + 1
             r0 == [Idle EXCEPT !.st = "active"]
             r == [r0 EXCEPT !.id = id]
  <1>1. /\ tx[t].st = "idle" /\ ckpt.st = "off" /\ lastTxID' = id /\ tx' = [tx EXCEPT ![t] = r]
        /\ UNCHANGED <<logFile, logDisk, logEnd, dataFile, dataDisk, index, confirmed, readVersion,
                       header, mu, broken, ckpt, faults>>
    BY DEF Begin, fileVars
  <1>2. /\ lastTxID \in Nat /\ confirmed \subseteq 1 .. lastTxID /\ Idle \in TxRecs
        /\ tx \in [Txs -> TxRecs] /\ id \in Nat
    BY IdleIs DEF Typed
  <1>3. r0 \in TxRecs
    BY <1>2 DEF TxRecs, States
  <1>4. r \in TxRecs
    BY <1>2, <1>3 DEF TxRecs
  <1>5. /\ r.st = "active" /\ r.id = id /\ r.dirty = Idle.dirty /\ r.snaps = Idle.snaps
        /\ r.lastDelete = Idle.lastDelete /\ r.lastDeleteColl = Idle.lastDeleteColl
    BY <1>2 DEF TxRecs
  <1> HIDE DEF r, id
  <1>6. tx' \in [Txs -> TxRecs] /\ tx'[t] = r /\ \A u \in Txs \ {t} : tx'[u] = tx[u]
    BY <1>1, <1>2, <1>4
  <1>7. \A u \in Txs : Sound(tx'[u])
    BY <1>5, <1>6, IdleIs DEF Sound
  <1>8. confirmed \subseteq 1 .. id
    BY <1>2 DEF id
  <1>9. Typed'
    BY <1>1, <1>2, <1>6, <1>8 DEF Typed
  <1>10. Mutex' /\ Quiet'
    BY <1>1, <1>5, <1>6 DEF Mutex, Quiet
  <1>11. Ids'
    <2>1. \A u \in Txs : tx[u].st # "idle" => tx[u].id \in (1 .. lastTxID) \ confirmed
      BY DEF Ids
    <2>2. \A u \in Txs : tx[u].st = "returning" => tx[u].retID \in 1 .. lastTxID
      BY DEF Ids
    <2>3. id \in (1 .. id) \ confirmed /\ id \notin 1 .. lastTxID /\ 1 .. lastTxID \subseteq 1 .. id
      BY <1>2 DEF id
    <2>4. \A u \in Txs : tx'[u].st # "idle" => tx'[u].id \in (1 .. id) \ confirmed
      BY <1>5, <1>6, <2>1, <2>3
    <2>5. \A u \in Txs : tx'[u].st = "returning" =>
              u # t /\ tx'[u] = tx[u] /\ tx'[u].retID \in 1 .. id /\ tx'[u].retID # id
      BY <1>5, <1>6, <2>2, <2>3
    <2>6. \A u \in Txs \ {t} : tx'[u].st # "idle" => tx'[u] = tx[u] /\ tx'[u].id # id
      BY <1>6, <2>1, <2>3
    <2>7. \A u, v \in Txs : tx'[u].st # "idle" /\ tx'[v].st # "idle" /\ u # v => tx'[u].id # tx'[v].id
      BY <1>5, <1>6, <2>6 DEF Ids
    <2>8. \A u, v \in Txs : tx'[u].st # "idle" /\ tx'[v].st = "returning" => tx'[u].id # tx'[v].retID
      BY <1>5, <1>6, <2>5 DEF Ids
    <2>9. QED
      BY <1>1, <2>4, <2>5, <2>7, <2>8 DEF Ids
  <1>12. LogIDs'
    <2>1. \A i \in DOMAIN logFile : logFile[i].tx \in Nat
      BY LogIs, RecsAre DEF Typed
    <2>2. \A i \in DOMAIN logFile : logFile[i].tx <= id
      BY <1>2, <2>1 DEF LogIDs, id
    <2>3. QED
      BY <1>1, <2>2 DEF LogIDs
  <1>13. Spilled'
    <2>1. \A i \in DOMAIN logFile : logFile[i].tx # id
      <3>1. \A i \in DOMAIN logFile : logFile[i].tx \in Nat /\ logFile[i].tx <= lastTxID
        BY LogIs, RecsAre DEF Typed, LogIDs
      <3>2. QED
        BY <1>2, <3>1 DEF id
    <2>2. QED
      BY <1>1, <1>5, <1>6, <2>1 DEF Spilled, SpilledBy
  <1>14. SpillsTrue'
    BY <1>1, <1>5, <1>6, IdleIs DEF SpillsTrue, OffsetsTrue, At
  <1>15. QED
    BY <1>7, <1>9, <1>10, <1>11, <1>12, <1>13, <1>14

-----------------------------------------------------------------------------
(* Steps that write the log.                                               *)

\* The log after a batch, or a part of one, has been written.
LEMMA AppendIs ==
    ASSUME Typed, NEW recs \in Seq(Recs), NEW id \in Nat \ {0}, \A i \in DOMAIN recs : recs[i].tx = id,
           AppendLogPages(recs) \/ AppendFails(recs)
    PROVE  /\ logFile' \in Seq(Recs) /\ logEnd' \in Nat /\ logEnd <= logEnd'
           /\ \A i \in DOMAIN logFile : i <= logEnd => i \in DOMAIN logFile' /\ logFile'[i] = logFile[i]
           /\ \A i \in DOMAIN logFile' :
                  \/ i \in DOMAIN logFile /\ logFile'[i] = logFile[i]
                     /\ (i <= logEnd' => i <= logEnd)
                  \/ i \notin DOMAIN logFile /\ logFile'[i] = BlankRec
                  \/ i > logEnd /\ logFile'[i].tx = id
           /\ AppendLogPages(recs) => /\ logEnd' = logEnd + Len(recs)
                                      /\ \A j \in 1 .. Len(recs) : /\ logEnd + j \in DOMAIN logFile'
                                                                   /\ logFile'[logEnd + j] = recs[j]
  <1>1. /\ logEnd \in Nat /\ Len(recs) \in Nat /\ DOMAIN recs = 1 .. Len(recs)
        /\ DOMAIN logFile = 1 .. Len(logFile) /\ Len(logFile) \in Nat
    BY LogIs DEF Typed
  <1>2. PICK n \in 0 .. Len(recs) : /\ logFile' = Written(recs, n)
                                    /\ logEnd' \in {logEnd, logEnd + n}
                                    /\ AppendLogPages(recs) => n = Len(recs) /\ logEnd' = logEnd + n
    <2>1. CASE AppendLogPages(recs)
      <3>1. Len(recs) \in 0 .. Len(recs)
        BY <1>1
      <3>2. QED
        BY <2>1, <3>1 DEF AppendLogPages
    <2>2. CASE ~ AppendLogPages(recs) /\ AppendFails(recs)
      <3>1. PICK n \in 0 .. Len(recs) - 1 : logFile' = Written(recs, n)
        BY <2>2 DEF AppendFails
      <3>2. n \in 0 .. Len(recs)
        BY <1>1
      <3>3. QED
        BY <2>2, <3>1, <3>2 DEF AppendFails
    <2>3. QED
      BY <2>1, <2>2
  <1>11. n \in Nat /\ n <= Len(recs) /\ logEnd \in Nat /\ Len(recs) \in Nat
    BY <1>1
  <1>12. logEnd' = logEnd \/ logEnd' = logEnd + n
    BY <1>2
  <1> DEFINE w == Written(recs, n)
  <1>3. /\ w \in Seq(Recs)
        /\ \A i \in DOMAIN logFile : i <= logEnd \/ i > logEnd + n =>
               i \in DOMAIN w /\ w[i] = logFile[i]
        /\ \A j \in 1 .. n : logEnd + j \in DOMAIN w /\ w[logEnd + j] = recs[j]
        /\ \A i \in DOMAIN w : \/ i \in DOMAIN logFile /\ w[i] = logFile[i]
                               \/ i \notin DOMAIN logFile /\ w[i] = BlankRec
                               \/ i - logEnd \in 1 .. n /\ w[i] = recs[i - logEnd]
    BY WrittenIs
  <1> HIDE DEF w
  <1>4. logFile' = w
    BY <1>2 DEF w
  <1>5. logEnd' \in Nat /\ logEnd <= logEnd' /\ logEnd' <= logEnd + n
    BY <1>11, <1>12
  <1>6. ASSUME NEW i \in DOMAIN w
        PROVE  \/ i \in DOMAIN logFile /\ w[i] = logFile[i] /\ (i <= logEnd' => i <= logEnd)
               \/ i \notin DOMAIN logFile /\ w[i] = BlankRec
               \/ i > logEnd /\ w[i].tx = id
    <2>1. i \in Nat
      BY <1>3, LogIs
    <2>2. CASE i > logEnd /\ i <= logEnd + n
      BY <1>1, <1>3, <1>11, <2>1, <2>2
    <2>3. CASE ~ (i > logEnd /\ i <= logEnd + n)
      BY <1>3, <1>5, <1>11, <2>1, <2>3
    <2>4. QED
      BY <2>2, <2>3
  <1>7. QED
    BY <1>2, <1>3, <1>4, <1>5, <1>6

\* A transaction writes to the log, under its own id or a new one.
LEMMA WriteStep ==
    ASSUME IInv, NEW t \in Txs, mu = NoTx, tx[t].st \in {"active", "aborting"},
           NEW recs \in Seq(Recs), NEW id \in Nat \ {0}, \A i \in DOMAIN recs : recs[i].tx = id,
           AppendLogPages(recs) \/ AppendFails(recs),
           \/ id = tx[t].id /\ lastTxID' = lastTxID
           \/ id = lastTxID + 1 /\ lastTxID' = id,
           NEW r \in TxRecs, Sound(r), tx' = [tx EXCEPT ![t] = r],
           r.st # "idle" => r.id = tx[t].id,
           r.st = "returning" => r.retID = lastTxID + 1 /\ id = lastTxID + 1,
           r.st = "active" => SpilledBy(r)',
           OffsetsTrue(r.dirty)', r.st = "returning" => OffsetsTrue(r.offs)',
           mu' = IF r.st \in {"appended", "returning"} THEN t ELSE NoTx,
           header' \in Headers, broken' \in BOOLEAN, faults' \in Nat, faults' <= MaxFaults,
           UNCHANGED <<logDisk, dataFile, dataDisk, index, confirmed, readVersion, ckpt>>
    PROVE  IInv'
  <1> USE DEF IInv
  <1>1. tx' \in [Txs -> TxRecs] /\ tx'[t] = r /\ \A u \in Txs \ {t} : tx'[u] = tx[u]
    BY DEF Typed
  <1>2. \A u \in Txs : tx[u].st \notin {"appended", "returning"}
    BY TxsAssumption DEF Mutex
  <1>3. lastTxID \in Nat /\ confirmed \subseteq 1 .. lastTxID
    BY DEF Typed
  <1>4. lastTxID' \in Nat /\ lastTxID <= lastTxID' /\ 1 .. lastTxID \subseteq 1 .. lastTxID'
        /\ (r.st = "returning" => r.retID \in 1 .. lastTxID')
    BY <1>3 DEF Ids
  <1>5. /\ logFile' \in Seq(Recs) /\ logEnd' \in Nat /\ logEnd <= logEnd'
        /\ \A i \in DOMAIN logFile : i <= logEnd => i \in DOMAIN logFile' /\ logFile'[i] = logFile[i]
        /\ \A i \in DOMAIN logFile' : \/ i \in DOMAIN logFile /\ logFile'[i] = logFile[i]
                                         /\ (i <= logEnd' => i <= logEnd)
                                      \/ i \notin DOMAIN logFile /\ logFile'[i] = BlankRec
                                      \/ i > logEnd /\ logFile'[i].tx = id
    <2>1. Typed
      OBVIOUS
    <2>2. \A i \in DOMAIN recs : recs[i].tx = id
      OBVIOUS
    <2>3. AppendLogPages(recs) \/ AppendFails(recs)
      OBVIOUS
    <2>4. logFile' \in Seq(Recs) /\ logEnd' \in Nat
      BY <2>1, <2>2, <2>3, AppendIs
    <2>5. logEnd <= logEnd'
      BY <2>1, <2>2, <2>3, AppendIs
    <2>6. \A i \in DOMAIN logFile : i <= logEnd => i \in DOMAIN logFile' /\ logFile'[i] = logFile[i]
      BY <2>1, <2>2, <2>3, AppendIs
    <2>7. \A i \in DOMAIN logFile' :
              \/ i \in DOMAIN logFile /\ logFile'[i] = logFile[i] /\ (i <= logEnd' => i <= logEnd)
              \/ i \notin DOMAIN logFile /\ logFile'[i] = BlankRec
              \/ i > logEnd /\ logFile'[i].tx = id
      BY <2>1, <2>2, <2>3, AppendIs
    <2>8. QED
      BY <2>4, <2>5, <2>6, <2>7
  <1>6. Typed'
    BY <1>1, <1>3, <1>4, <1>5 DEF Typed
  <1>7. \A u \in Txs : Sound(tx'[u])
    BY <1>1
  <1>8. Mutex'
    BY <1>1, <1>2, TxsAssumption DEF Mutex
  <1>9. Quiet'
    BY DEF Quiet
  <1>10. \A u \in Txs \ {t} : tx[u].st # "idle" => tx[u].id # id /\ tx[u].id \in Nat \ {0}
    BY <1>3 DEF Ids
  <1>11. Ids'
    BY <1>1, <1>2, <1>3, <1>4 DEF Ids
  <1>12. LogIDs'
    <2>1. \A i \in DOMAIN logFile : logFile[i].tx \in Nat /\ logFile[i].tx <= lastTxID'
      <3>1. \A i \in DOMAIN logFile : logFile[i].tx \in Nat /\ logFile[i].tx <= lastTxID
        BY LogIs, RecsAre DEF Typed, LogIDs
      <3>2. QED
        BY <1>3, <1>4, <3>1
    <2>2. id <= lastTxID' /\ BlankRec.tx <= lastTxID'
      BY <1>3, <1>4 DEF Ids, BlankRec, Rec
    <2>3. QED
      BY <1>5, <2>1, <2>2 DEF LogIDs
  <1>13. Spilled'
    <2>1. ASSUME NEW u \in Txs, u # t, tx[u].st = "active" PROVE SpilledBy(tx[u])'
      <3>1. tx'[u] = tx[u] /\ SpilledBy(tx[u]) /\ tx[u].id # id /\ tx[u].id # BlankRec.tx
        BY <1>1, <1>10, <2>1 DEF Spilled, BlankRec, Rec
      <3>2. ASSUME NEW i \in 1 .. logEnd', i \in DOMAIN logFile', logFile'[i].tx = tx[u].id
            PROVE  \E p \in DOMAIN tx[u].dirty : tx[u].dirty[p] >= i
        <4>1. i \in DOMAIN logFile /\ logFile[i].tx = tx[u].id /\ i <= logEnd
          BY <1>5, <3>1, <3>2
        <4>2. i \in 1 .. logEnd
          BY <1>5, <4>1 DEF Typed
        <4>3. QED
          BY <3>1, <4>1, <4>2 DEF SpilledBy
      <3>3. QED
        BY <3>1, <3>2 DEF SpilledBy
    <2>2. r.st = "active" => SpilledBy(tx[t])'
      BY <1>1 DEF SpilledBy
    <2>3. QED
      BY <1>1, <2>1, <2>2 DEF Spilled
  <1>14. SpillsTrue'
    <2>1. ASSUME NEW u \in Txs, u # t PROVE OffsetsTrue(tx[u].dirty)'
      <3>1. OffsetsTrue(tx[u].dirty) /\ tx'[u] = tx[u]
        BY <1>1, <2>1 DEF SpillsTrue
      <3>2. \A p \in DOMAIN tx[u].dirty : tx[u].dirty[p] \in Nat
        BY TxIs, OffsetMapIs DEF Typed
      <3>3. ASSUME NEW p \in DOMAIN tx[u].dirty
            PROVE  tx[u].dirty[p] <= logEnd' /\ At(logFile, p, tx[u].dirty[p])'
        BY <1>5, <3>1, <3>2 DEF OffsetsTrue, At, Typed
      <3>4. QED
        BY <3>1, <3>3, SMTT(30) DEF OffsetsTrue, At
    <2>2. OffsetsTrue(tx[t].dirty)' /\ (r.st = "returning" => OffsetsTrue(tx[t].offs)')
      BY <1>1 DEF OffsetsTrue, At
    <2>3. QED
      BY <1>1, <1>2, <2>1, <2>2 DEF SpillsTrue
  <1>15. QED
    BY <1>6, <1>7, <1>8, <1>9, <1>11, <1>12, <1>13, <1>14

\* Offsets that were true before a write are true after it; those of the batch become true.
LEMMA KeptOffsets ==
    ASSUME Typed, NEW recs \in Seq(Recs), NEW id \in Nat \ {0}, \A i \in DOMAIN recs : recs[i].tx = id,
           AppendLogPages(recs) \/ AppendFails(recs), NEW o \in OffsetMaps, OffsetsTrue(o)
    PROVE  OffsetsTrue(o)'
  <1>1. /\ logEnd \in Nat /\ logEnd' \in Nat /\ logEnd <= logEnd'
        /\ \A i \in DOMAIN logFile : i <= logEnd => i \in DOMAIN logFile' /\ logFile'[i] = logFile[i]
    BY AppendIs DEF Typed
  <1>2. \A p \in DOMAIN o : o[p] \in Nat /\ o[p] <= logEnd /\ At(logFile, p, o[p])
    BY OffsetMapIs DEF OffsetsTrue
  <1>3. \A p \in DOMAIN o : o[p] <= logEnd' /\ At(logFile', p, o[p])
    BY <1>1, <1>2 DEF At
  <1>4. QED
    BY <1>3 DEF OffsetsTrue

LEMMA PlacedOffsets ==
    ASSUME Typed, NEW recs \in Seq(Recs), NEW id \in Nat \ {0}, \A i \in DOMAIN recs : recs[i].tx = id,
           AppendLogPages(recs), NEW o \in OffsetMaps, o = Offsets(recs)
    PROVE  OffsetsTrue(o)'
  <1>1. /\ logEnd \in Nat /\ logEnd' = logEnd + Len(recs) /\ Len(recs) \in Nat
        /\ \A j \in 1 .. Len(recs) : logEnd + j \in DOMAIN logFile' /\ logFile'[logEnd + j] = recs[j]
    BY AppendIs, LenProperties DEF Typed
  <1>2. \A p \in DOMAIN o : /\ o[p] \in Nat
                            /\ o[p] - logEnd \in 1 .. Len(recs) /\ recs[o[p] - logEnd].page = p
    BY <1>1, OffsetsIs, OffsetMapIs
  <1>3. ASSUME NEW p \in DOMAIN o PROVE o[p] <= logEnd' /\ At(logFile', p, o[p])
    BY <1>1, <1>2 DEF At
  <1>4. QED
    BY <1>3 DEF OffsetsTrue

LEMMA BothOffsets ==
    ASSUME NEW f \in OffsetMaps, NEW g \in OffsetMaps, OffsetsTrue(f)', OffsetsTrue(g)',
           NEW o, o = Over(f, g)
    PROVE  OffsetsTrue(o)'
  <1>1. /\ DOMAIN o = DOMAIN f \cup DOMAIN g /\ \A p \in DOMAIN f : o[p] = f[p]
        /\ \A p \in DOMAIN g \ DOMAIN f : o[p] = g[p]
    BY OverOffsets
  <1>2. QED
    BY <1>1 DEF OffsetsTrue

\* dropLocalPages.
LEMMA DroppedIs ==
    ASSUME logEnd \in Nat, NEW r \in TxRecs, Sound(r), r.st # "idle", NEW recs \in Seq(Recs)
    PROVE  /\ Dropped(r, recs) \in TxRecs /\ Sound(Dropped(r, recs))
           /\ Dropped(r, recs).st = r.st /\ Dropped(r, recs).id = r.id
           /\ Dropped(r, recs).dirty = Over(Offsets(recs), r.dirty)
  <1> DEFINE dirty == Over(Offsets(recs), r.dirty)
             snaps == [c \in Cols |-> [r.snaps[c] EXCEPT !.local = <<>>]]
             r1 == [r EXCEPT !.dirty = dirty]
             r2 == [r1 EXCEPT !.snaps = snaps]
  <1>1. dirty \in OffsetMaps
    BY OffsetsIs, OverOffsets, TxIs
  <1>2. ASSUME NEW c \in Cols
        PROVE  /\ snaps[c] \in Snaps /\ snaps[c].collDirty = r.snaps[c].collDirty
               /\ snaps[c].body = r.snaps[c].body /\ snaps[c].coll = r.snaps[c].coll
    BY TxIs, EmptyMap, ZenonT(60) DEF Snaps, Locals
  <1>3. snaps \in [Cols -> Snaps]
    BY <1>2
  <1>4. Dropped(r, recs) = r2
    BY DEF Dropped
  <1> HIDE DEF dirty, snaps
  <1>5. r1 \in TxRecs
    BY <1>1 DEF TxRecs
  <1>6. r2 \in TxRecs
    BY <1>3, <1>5 DEF TxRecs
  <1>7. /\ r2.st = r.st /\ r2.id = r.id /\ r2.dirty = dirty /\ r2.snaps = snaps
        /\ r2.save = r.save /\ r2.lastDelete = r.lastDelete /\ r2.lastDeleteColl = r.lastDeleteColl
    BY DEF TxRecs
  <1> HIDE DEF r2
  <1>8. Sound(r2)
    BY <1>2, <1>7 DEF Sound
  <1>9. QED
    BY <1>4, <1>6, <1>7, <1>8 DEF dirty

\* What an open transaction has.
LEMMA OpenIs ==
    ASSUME IInv, NEW t \in Txs, tx[t].st # "idle"
    PROVE  /\ Typed /\ tx[t] \in TxRecs /\ Sound(tx[t]) /\ tx[t].id \in Nat \ {0}
           /\ tx[t].id \in 1 .. lastTxID /\ tx \in [Txs -> TxRecs] /\ lastTxID \in Nat
           /\ header \in Headers /\ broken \in BOOLEAN /\ logEnd \in Nat
           /\ tx[t].st = "active" => SpilledBy(tx[t])
           /\ OffsetsTrue(tx[t].dirty) /\ tx[t].dirty \in OffsetMaps
           /\ tx[t].st = "returning" => OffsetsTrue(tx[t].offs)
  <1>1. tx[t].id \in 1 .. lastTxID /\ lastTxID \in Nat
    BY DEF IInv, Ids, Typed
  <1>2. tx[t].id \in Nat \ {0}
    BY <1>1
  <1>3. Typed /\ tx[t] \in TxRecs /\ Sound(tx[t]) /\ tx \in [Txs -> TxRecs]
    BY DEF IInv, Typed
  <1>4. header \in Headers /\ broken \in BOOLEAN /\ logEnd \in Nat
    BY DEF IInv, Typed
  <1>5. /\ tx[t].st = "active" => SpilledBy(tx[t])
        /\ OffsetsTrue(tx[t].dirty)
        /\ tx[t].st = "returning" => OffsetsTrue(tx[t].offs)
    BY DEF IInv, Spilled, SpillsTrue
  <1>6. tx[t].dirty \in OffsetMaps
    BY <1>3, TxIs
  <1>7. QED
    BY <1>1, <1>2, <1>3, <1>4, <1>5, <1>6

\* A transaction that is over after a failed write.
LEMMA FailedWrite ==
    ASSUME IInv, NEW t \in Txs, mu = NoTx, tx[t].st \in {"active", "aborting"},
           NEW recs \in Seq(Recs), NEW id \in Nat \ {0}, \A i \in DOMAIN recs : recs[i].tx = id,
           AppendFails(recs), Finish(t), UNCHANGED <<header, mu>>, broken' \in BOOLEAN,
           \/ id = tx[t].id /\ lastTxID' = lastTxID
           \/ id = lastTxID + 1 /\ lastTxID' = id,
           UNCHANGED <<logDisk, dataFile, dataDisk, index, confirmed, readVersion, ckpt>>
    PROVE  IInv'
  <1>1. /\ Idle \in TxRecs /\ Sound(Idle) /\ tx' = [tx EXCEPT ![t] = Idle] /\ Idle.st = "idle"
        /\ DOMAIN Idle.dirty = {}
    BY IdleIs DEF Finish
  <1>2. OffsetsTrue(Idle.dirty)'
    BY <1>1 DEF OffsetsTrue
  <1>3. faults' \in Nat /\ faults' <= MaxFaults /\ header' \in Headers
    BY FaultIs DEF AppendFails, IInv, Typed
  <1>4. mu' = NoTx
    OBVIOUS
  <1>5. QED
    BY <1>1, <1>2, <1>3, <1>4, WriteStep

LEMMA SafepointStep == ASSUME IInv, NEW t \in Txs, Safepoint(t) PROVE IInv'
  <1>a. tx[t].st = "active" /\ mu = NoTx
    BY DEF Safepoint, CanLock, Active
  <1>b. PICK id \in Nat \ {0} : id = tx[t].id
    BY <1>a, OpenIs
  <1> DEFINE recs == Marked(collectDirty(tx[t]), id, FALSE)
  <1>1. /\ Typed /\ tx[t] \in TxRecs /\ Sound(tx[t]) /\ id \in Nat \ {0} /\ tx \in [Txs -> TxRecs]
        /\ header \in Headers /\ broken \in BOOLEAN /\ logEnd \in Nat /\ SpilledBy(tx[t])
        /\ OffsetsTrue(tx[t].dirty) /\ tx[t].st = "active" /\ mu = NoTx /\ tx[t].dirty \in OffsetMaps
    BY <1>a, <1>b, OpenIs
  <1>2. recs \in Seq(Recs) /\ \A i \in DOMAIN recs : recs[i].tx = id
    BY <1>1, collectDirtyIs, MarkedIs
  <1> HIDE DEF recs
  <1>3. /\ recs # <<>> /\ lastTxID' = lastTxID
        /\ UNCHANGED <<logDisk, dataFile, dataDisk, index, confirmed, readVersion, ckpt, mu, header, broken>>
    BY <1>b DEF Safepoint, recs, walVars
  <1>4. CASE AppendLogPages(recs) /\ tx' = [tx EXCEPT ![t] = Dropped(tx[t], recs)] /\ UNCHANGED faults
    <2>1. PICK r \in TxRecs : r = Dropped(tx[t], recs)
      BY <1>1, <1>2, DroppedIs
    <2>2. PICK f \in OffsetMaps : f = Offsets(recs)
      BY <1>1, <1>2, OffsetsIs
    <2>3. Sound(r) /\ r.st = "active" /\ r.id = id /\ r.dirty = Over(f, tx[t].dirty)
      BY <1>1, <1>2, <1>b, <2>1, <2>2, DroppedIs
    <2>4. PICK g \in OffsetMaps : g = tx[t].dirty
      BY <1>1
    <2>5. OffsetsTrue(f)' /\ OffsetsTrue(g)'
      BY <1>1, <1>2, <1>4, <2>2, <2>4, PlacedOffsets, KeptOffsets
    <2>6. OffsetsTrue(r.dirty)'
      BY <2>3, <2>4, <2>5, BothOffsets
    <2>7. \E p \in DOMAIN f : f[p] = logEnd'
      BY <1>1, <1>2, <1>3, <1>4, <2>2, OffsetsIs DEF AppendLogPages
    <2>8. SpilledBy(r)'
      <3>1. PICK p \in DOMAIN f : f[p] = logEnd'
        BY <2>7
      <3>2. p \in DOMAIN r.dirty /\ r.dirty[p] = f[p]
        BY <2>3, <2>4 DEF Over
      <3>3. \A i \in 1 .. logEnd' : logEnd' >= i
        BY <1>1, <1>2, <1>4, AppendIs
      <3>4. \A i \in 1 .. logEnd' : r.dirty[p] >= i
        BY <3>1, <3>2, <3>3
      <3>5. QED
        BY <3>2, <3>4 DEF SpilledBy
    <2>9. faults' \in Nat /\ faults' <= MaxFaults /\ header' \in Headers /\ broken' \in BOOLEAN
      BY <1>1, <1>3, <1>4, FaultIs
    <2>10. tx' = [tx EXCEPT ![t] = r] /\ mu' = IF r.st \in {"appended", "returning"} THEN t ELSE NoTx
      BY <1>1, <1>3, <1>4, <2>1, <2>3
    <2>11. r.st = "returning" => /\ r.retID = lastTxID + 1 /\ id = lastTxID + 1 /\ OffsetsTrue(r.offs)'
      BY <2>3
    <2>12. UNCHANGED <<logDisk, dataFile, dataDisk, index, confirmed, readVersion, ckpt>>
      BY <1>3
    <2>13. AppendLogPages(recs) \/ AppendFails(recs)
      BY <1>4
    <2>14. mu = NoTx /\ tx[t].st \in {"active", "aborting"} /\ Sound(r) /\ (r.st # "idle" => r.id = tx[t].id)
      BY <1>1, <1>b, <2>3
    <2>15. \/ id = tx[t].id /\ lastTxID' = lastTxID
           \/ id = lastTxID + 1 /\ lastTxID' = id
      BY <1>b, <1>3
    <2>16. r.st = "active" => SpilledBy(r)'
      BY <2>8
    <2>17. QED
      BY <1>2, <2>6, <2>9, <2>10, <2>11, <2>12, <2>13, <2>14, <2>15, <2>16, WriteStep, Zenon
  <1>5. CASE AppendFails(recs) /\ UNCHANGED tx
    <2>1. PICK r \in TxRecs : r = tx[t]
      BY <1>1
    <2>2. OffsetsTrue(r.dirty)'
      BY <1>1, <1>2, <1>5, <2>1, KeptOffsets
    <2>3. SpilledBy(r)'
      <3>1. logEnd' = logEnd
        BY <1>5 DEF AppendFails
      <3>2. ASSUME NEW i \in 1 .. logEnd, i \in DOMAIN logFile', logFile'[i].tx = r.id
            PROVE  i \in DOMAIN logFile /\ logFile[i].tx = r.id
        <4>1. /\ \A j \in DOMAIN logFile' : \/ j \in DOMAIN logFile /\ logFile'[j] = logFile[j]
                                            \/ logFile'[j] = BlankRec
                                            \/ j > logEnd
          BY <1>1, <1>2, <1>5, AppendIs
        <4>2. BlankRec.tx # r.id
          BY <1>b, <2>1 DEF BlankRec, Rec
        <4>3. QED
          BY <1>1, <3>2, <4>1, <4>2
      <3>3. QED
        BY <1>1, <2>1, <3>1, <3>2 DEF SpilledBy
    <2>4. faults' \in Nat /\ faults' <= MaxFaults /\ header' \in Headers /\ broken' \in BOOLEAN
      BY <1>1, <1>3, <1>5, FaultIs DEF AppendFails
    <2>5. tx' = [tx EXCEPT ![t] = r] /\ mu' = IF r.st \in {"appended", "returning"} THEN t ELSE NoTx
      BY <1>1, <1>3, <1>5, <2>1
    <2>6. r.st = "returning" => /\ r.retID = lastTxID + 1 /\ id = lastTxID + 1 /\ OffsetsTrue(r.offs)'
      BY <1>1, <2>1
    <2>7. Sound(r) /\ r.st = "active" /\ r.id = id
      BY <1>1, <1>b, <2>1
    <2>8. UNCHANGED <<logDisk, dataFile, dataDisk, index, confirmed, readVersion, ckpt>>
      BY <1>3
    <2>9. AppendLogPages(recs) \/ AppendFails(recs)
      BY <1>5
    <2>10. mu = NoTx /\ tx[t].st \in {"active", "aborting"} /\ Sound(r) /\ (r.st # "idle" => r.id = tx[t].id)
      BY <1>1, <1>b, <2>7
    <2>11. \/ id = tx[t].id /\ lastTxID' = lastTxID
           \/ id = lastTxID + 1 /\ lastTxID' = id
      BY <1>b, <1>3
    <2>12. r.st = "active" => SpilledBy(r)'
      BY <2>3
    <2>13. QED
      BY <1>2, <2>2, <2>4, <2>5, <2>6, <2>8, <2>9, <2>10, <2>11, <2>12, WriteStep, Zenon
  <1>6. QED
    BY <1>b, <1>4, <1>5 DEF Safepoint, recs

LEMMA CommitAppendStep == ASSUME IInv, NEW t \in Txs, CommitAppend(t) PROVE IInv'
  <1>1. tx[t].st = "active" /\ mu = NoTx /\ ~ Refused(tx[t])
    BY DEF CommitAppend, CanLock, Active
  <1>2. PICK id \in Nat \ {0} : id = tx[t].id
    BY <1>1, OpenIs
  <1> DEFINE recs == Marked(CommitPages(tx[t]), id, TRUE)
  <1>3. /\ Typed /\ tx[t] \in TxRecs /\ Sound(tx[t]) /\ tx \in [Txs -> TxRecs]
        /\ header \in Headers /\ logEnd \in Nat /\ tx[t].dirty \in OffsetMaps
        /\ OffsetsTrue(tx[t].dirty)
    BY <1>1, OpenIs
  <1>4. recs \in Seq(Recs) /\ \A i \in DOMAIN recs : recs[i].tx = id
    BY <1>1, <1>3, CommitPagesIs, MarkedIs
  <1> HIDE DEF recs
  <1>5. /\ UNCHANGED <<logDisk, dataFile, dataDisk, index, confirmed, readVersion, ckpt>>
        /\ lastTxID' = lastTxID
    BY DEF CommitAppend, walVars
  <1>6. \/ id = tx[t].id /\ lastTxID' = lastTxID
        \/ id = lastTxID + 1 /\ lastTxID' = id
    BY <1>2, <1>5
  <1>7. mu = NoTx /\ tx[t].st \in {"active", "aborting"}
    BY <1>1
  <1>8. CASE /\ AppendLogPages(recs) /\ header' = CommitHeader(tx[t])
             /\ tx' = [tx EXCEPT ![t] =
                    [Dropped(Spliced(tx[t]), recs) EXCEPT !.st = "appended", !.save = header]]
             /\ mu' = t /\ UNCHANGED <<broken, faults>>
    <2> DEFINE q == Spliced(tx[t])
               d == Dropped(q, recs)
               d1 == [d EXCEPT !.st = "appended"]
               d2 == [d1 EXCEPT !.save = header]
    <2>1. q \in TxRecs /\ Sound(q) /\ q.st = "active" /\ q.id = id /\ q.dirty = tx[t].dirty
      BY <1>1, <1>2, <1>3, SplicedIs
    <2> HIDE DEF q
    <2>2. d \in TxRecs /\ Sound(d) /\ d.id = id /\ d.dirty = Over(Offsets(recs), q.dirty)
      BY <1>3, <1>4, <2>1, DroppedIs
    <2> HIDE DEF d
    <2>3. d1 \in TxRecs
      BY <2>2 DEF TxRecs, States
    <2>4. d2 \in TxRecs
      BY <1>3, <2>3 DEF TxRecs
    <2>5. PICK r \in TxRecs : r = d2
      BY <2>4
    <2>6. /\ r.st = "appended" /\ r.id = id /\ r.dirty = d.dirty /\ r.snaps = d.snaps
          /\ r.lastDelete = d.lastDelete /\ r.lastDeleteColl = d.lastDeleteColl
          /\ r.save = header
      BY <2>2, <2>5 DEF TxRecs
    <2>7. Sound(r)
      BY <1>3, <2>2, <2>6 DEF Sound
    <2>8. PICK f \in OffsetMaps : f = Offsets(recs)
      BY <1>3, <1>4, OffsetsIs
    <2>9. PICK g \in OffsetMaps : g = tx[t].dirty
      BY <1>3
    <2>10. OffsetsTrue(f)' /\ OffsetsTrue(g)'
      BY <1>3, <1>4, <1>8, <2>8, <2>9, PlacedOffsets, KeptOffsets
    <2>11. r.dirty = Over(f, g)
      BY <2>1, <2>2, <2>6, <2>8, <2>9
    <2>12. OffsetsTrue(r.dirty)'
      BY <2>10, <2>11, BothOffsets
    <2>13. mu' = IF r.st \in {"appended", "returning"} THEN t ELSE NoTx
      BY <1>8, <2>6
    <2>14. tx' = [tx EXCEPT ![t] = r]
      BY <1>8, <2>5 DEF d, q
    <2>15. header' \in Headers /\ broken' \in BOOLEAN /\ faults' \in Nat /\ faults' <= MaxFaults
      BY <1>1, <1>3, <1>8, CommitHeaderIs, FaultIs DEF Typed
    <2>16. /\ r.st = "active" => SpilledBy(r)'
           /\ r.st = "returning" => r.retID = lastTxID + 1 /\ id = lastTxID + 1
           /\ r.st = "returning" => OffsetsTrue(r.offs)'
           /\ r.st # "idle" => r.id = tx[t].id
      BY <1>2, <2>6
    <2>17. AppendLogPages(recs) \/ AppendFails(recs)
      BY <1>8
    <2>18. QED
      BY <1>4, <1>5, <1>6, <1>7, <2>7, <2>12, <2>13, <2>14, <2>15, <2>16, <2>17, WriteStep, Zenon
  <1>9. CASE AppendFails(recs) /\ broken' = TRUE /\ Finish(t) /\ UNCHANGED <<header, mu>>
    BY <1>4, <1>5, <1>6, <1>7, <1>9, FailedWrite, Zenon
  <1>10. QED
    BY <1>2, <1>8, <1>9 DEF CommitAppend, recs

LEMMA ReturnAppendStep == ASSUME IInv, NEW t \in Txs, ReturnAppend(t) PROVE IInv'
  <1>1. tx[t].st \in {"active", "aborting"} /\ mu = NoTx /\ tx[t].newPages # <<>>
    BY DEF ReturnAppend, Ending, Active
  <1>2. /\ Typed /\ tx[t] \in TxRecs /\ Sound(tx[t]) /\ tx \in [Txs -> TxRecs] /\ lastTxID \in Nat
        /\ header \in Headers /\ logEnd \in Nat /\ tx[t].dirty \in OffsetMaps
        /\ OffsetsTrue(tx[t].dirty) /\ broken \in BOOLEAN
    BY <1>1, OpenIs
  <1>3. PICK id \in Nat \ {0} : id = lastTxID + 1
    BY <1>2
  <1> DEFINE recs == Marked(ReturnPages(tx[t]), id, TRUE)
  <1>4. recs \in Seq(Recs) /\ \A i \in DOMAIN recs : recs[i].tx = id
    BY <1>1, <1>2, ReturnPagesIs, MarkedIs
  <1> HIDE DEF recs
  <1>5. /\ UNCHANGED <<logDisk, dataFile, dataDisk, index, confirmed, readVersion, ckpt>>
        /\ lastTxID' = id /\ UNCHANGED broken
    BY <1>3 DEF ReturnAppend
  <1>6. \/ id = tx[t].id /\ lastTxID' = lastTxID
        \/ id = lastTxID + 1 /\ lastTxID' = id
    BY <1>3, <1>5
  <1>7. broken' \in BOOLEAN
    BY <1>2, <1>5
  <1>8. CASE /\ AppendLogPages(recs) /\ header' = ReturnHeader(tx[t])
             /\ tx' = [tx EXCEPT ![t] = [tx[t] EXCEPT !.st = "returning", !.save = header,
                                                      !.retID = id, !.offs = Offsets(recs)]]
             /\ mu' = t /\ UNCHANGED faults
    <2>1. PICK f \in OffsetMaps : f = Offsets(recs)
      BY <1>2, <1>4, OffsetsIs
    <2> DEFINE d == tx[t]
               d1 == [d EXCEPT !.st = "returning"]
               d2 == [d1 EXCEPT !.save = header]
               d3 == [d2 EXCEPT !.retID = id]
               d4 == [d3 EXCEPT !.offs = f]
    <2>2. tx' = [tx EXCEPT ![t] = d4]
      BY <1>8, <2>1
    <2>3. d \in TxRecs /\ Sound(d)
      BY <1>2
    <2>4. d1 \in TxRecs
      BY <2>3 DEF TxRecs, States
    <2>5. d2 \in TxRecs
      BY <1>2, <2>4 DEF TxRecs
    <2>6. d3 \in TxRecs
      BY <2>5 DEF TxRecs
    <2>7. d4 \in TxRecs
      BY <2>6 DEF TxRecs
    <2>8. PICK r \in TxRecs : r = d4
      BY <2>7
    <2>9. /\ r.st = "returning" /\ r.id = d.id /\ r.dirty = d.dirty /\ r.snaps = d.snaps
          /\ r.lastDelete = d.lastDelete /\ r.lastDeleteColl = d.lastDeleteColl
          /\ r.save = header /\ r.retID = id /\ r.offs = f
      BY <2>3, <2>8 DEF TxRecs
    <2>10. tx' = [tx EXCEPT ![t] = r]
      BY <2>2, <2>8
    <2> HIDE DEF d1, d2, d3, d4
    <2>11. Sound(r)
      BY <1>2, <2>3, <2>9 DEF Sound
    <2>12. PICK g \in OffsetMaps : g = tx[t].dirty
      BY <1>2
    <2>13. OffsetsTrue(f)' /\ OffsetsTrue(g)'
      BY <1>2, <1>4, <1>8, <2>1, <2>12, PlacedOffsets, KeptOffsets
    <2>14. OffsetsTrue(r.dirty)' /\ OffsetsTrue(r.offs)'
      BY <2>9, <2>12, <2>13
    <2>15. mu' = IF r.st \in {"appended", "returning"} THEN t ELSE NoTx
      BY <1>8, <2>9
    <2>16. header' \in Headers /\ faults' \in Nat /\ faults' <= MaxFaults
      BY <1>1, <1>2, <1>8, ReturnPagesIs, FaultIs
    <2>17. /\ r.st = "active" => SpilledBy(r)'
           /\ r.st = "returning" => r.retID = lastTxID + 1 /\ id = lastTxID + 1
           /\ r.st = "returning" => OffsetsTrue(r.offs)'
           /\ r.st # "idle" => r.id = tx[t].id
      BY <1>3, <2>9, <2>14
    <2>18. AppendLogPages(recs) \/ AppendFails(recs)
      BY <1>8
    <2>19. QED
      BY <1>1, <1>4, <1>5, <1>6, <1>7, <2>10, <2>11, <2>14, <2>15, <2>16, <2>17, <2>18, WriteStep, Zenon
  <1>9. CASE AppendFails(recs) /\ Finish(t) /\ UNCHANGED <<header, mu>>
    BY <1>1, <1>4, <1>5, <1>6, <1>7, <1>9, FailedWrite, Zenon
  <1>10. QED
    BY <1>3, <1>8, <1>9 DEF ReturnAppend, recs

-----------------------------------------------------------------------------
(* The end of a commit.                                                    *)

\* Whoever was writing is done, whichever way it went.
LEMMA EndStep ==
    ASSUME IInv, NEW t \in Txs, tx[t].st \in {"appended", "returning"}, Finish(t), mu' = NoTx, Typed',
           UNCHANGED <<logFile, logEnd, lastTxID, ckpt>>,
           \A u \in Txs \ {t} : tx[u].st # "idle" => tx[u].id \notin confirmed'
    PROVE  IInv'
  <1> USE DEF IInv
  <1>1. /\ tx'[t] = Idle /\ \A u \in Txs \ {t} : tx'[u] = tx[u]
        /\ Idle.st = "idle" /\ Sound(Idle) /\ DOMAIN Idle.dirty = {}
    BY IdleIs DEF Typed, Finish
  <1>2. mu = t /\ \A u \in Txs \ {t} : tx[u].st \notin {"appended", "returning"}
    BY DEF Mutex
  <1>3. \A u \in Txs : Sound(tx'[u])
    BY <1>1
  <1>4. Mutex'
    BY <1>1, <1>2, TxsAssumption DEF Mutex
  <1>5. Quiet'
    BY <1>1 DEF Quiet
  <1>6. Ids'
    BY <1>1, <1>2 DEF Ids
  <1>7. LogIDs'
    BY DEF LogIDs
  <1>8. Spilled'
    BY <1>1 DEF Spilled, SpilledBy
  <1>9. SpillsTrue'
    BY <1>1 DEF SpillsTrue, OffsetsTrue, At
  <1>10. QED
    BY <1>3, <1>4, <1>5, <1>6, <1>7, <1>8, <1>9

LEMMA ConfirmTyped ==
    ASSUME Typed, NEW t \in Txs, Finish(t), NEW id \in 1 .. lastTxID, NEW offs \in OffsetMaps, Confirm(id, offs),
           logDisk' = logFile, mu' = NoTx,
           UNCHANGED <<logFile, logEnd, dataFile, dataDisk, lastTxID, header, broken, ckpt, faults>>
    PROVE  Typed'
  <1>1. tx' \in [Txs -> TxRecs]
    BY IdleIs DEF Typed, Finish
  <1>2. /\ readVersion \in Nat /\ readVersion' = readVersion + 1 /\ readVersion' \in Nat \ {0}
        /\ confirmed' = confirmed \cup {id} /\ confirmed' \subseteq 1 .. lastTxID
    BY DEF Typed, Confirm
  <1>3. ASSUME NEW p \in AllPages
        PROVE  index'[p] \in SUBSET Entries /\ \A e \in index'[p] : e.version <= readVersion'
    <2>1. /\ index[p] \in SUBSET Entries
          /\ index'[p] = IF p \in DOMAIN offs
                         THEN index[p] \cup {[version |-> readVersion + 1, offset |-> offs[p]]}
                         ELSE index[p]
      BY DEF Typed, Confirm
    <2>2. \A e \in index[p] : e.version \in Nat /\ e.version <= readVersion'
      BY <1>2, <2>1 DEF Entries, Typed
    <2>3. CASE p \in DOMAIN offs
      <3> DEFINE n == [version |-> readVersion + 1, offset |-> offs[p]]
      <3>1. n \in Entries /\ n.version <= readVersion'
        BY <1>2, <2>3, OffsetMapIs DEF Entries
      <3>2. index'[p] = index[p] \cup {n}
        BY <2>1, <2>3
      <3> HIDE DEF n
      <3>3. QED
        BY <2>1, <2>2, <3>1, <3>2
    <2>4. CASE p \notin DOMAIN offs
      BY <2>1, <2>2, <2>4
    <2>5. QED
      BY <2>3, <2>4
  <1>4. index' \in [AllPages -> SUBSET Entries]
    BY <1>3 DEF Typed, Confirm
  <1>5. QED
    BY <1>1, <1>2, <1>3, <1>4 DEF Typed

LEMMA CommitConfirmStep == ASSUME IInv, NEW t \in Txs, CommitConfirm(t) PROVE IInv'
  BY OpenIs, ConfirmTyped, EndStep DEF CommitConfirm, Confirm, IInv, Ids

LEMMA ReturnConfirmStep == ASSUME IInv, NEW t \in Txs, ReturnConfirm(t) PROVE IInv'
  BY TxIs, ConfirmTyped, EndStep DEF ReturnConfirm, IInv, Ids, Typed, Confirm

\* The device does not answer.
LEMMA SyncFailsStep ==
    ASSUME IInv, NEW t \in Txs, tx[t].st \in {"appended", "returning"}, Fault, header' = tx[t].save,
           broken' \in BOOLEAN, mu' = NoTx, Finish(t), UNCHANGED <<fileVars, walVars, ckpt>>
    PROVE  IInv'
  BY IdleIs, FaultIs, EndStep DEF IInv, Sound, Typed, Finish, fileVars, walVars, Ids

-----------------------------------------------------------------------------
(* The checkpoint.                                                         *)

\* While it runs there is no transaction to speak of.
LEMMA IdleStep ==
    ASSUME IInv, \A t \in Txs : tx[t].st = "idle", UNCHANGED tx, UNCHANGED mu, Typed', LogIDs'
    PROVE  IInv'
  BY IdleIs DEF IInv, Sound, Mutex, Quiet, Ids, Spilled, SpillsTrue, OffsetsTrue

LEMMA CheckpointIs ==
    ASSUME IInv, ckpt.st # "off"
    PROVE  Typed /\ LogIDs /\ \A t \in Txs : tx[t].st = "idle"
  BY DEF IInv, Quiet

LEMMA CheckpointStep ==
    ASSUME IInv,
           CheckpointStart \/ CheckpointCopy \/ CheckpointSync \/ CheckpointTruncate
           \/ CheckpointClear \/ CheckpointFails
    PROVE  IInv'
  <1>1. /\ \A t \in Txs : tx[t].st = "idle"
        /\ UNCHANGED tx /\ UNCHANGED mu /\ Typed /\ LogIDs
    BY CheckpointIs DEF CheckpointStart, CheckpointCopy, CheckpointSync, CheckpointTruncate,
       CheckpointClear, CheckpointFails, IInv
  <1> DEFINE C == [st : {"off", "copy", "synced", "truncated"}, pos : Nat]
  <1>2. ckptIdle \in C /\ ckptIdle.st = "off" /\ ckpt \in C
    BY <1>1 DEF ckptIdle, Typed
  <1> USE DEF fileVars, walVars
  <1>3. CASE CheckpointStart
    BY <1>1, <1>3, IdleStep DEF CheckpointStart, Typed, LogIDs
  <1>4. CASE CheckpointCopy
    <2>1. ckpt' \in C /\ ckpt'.pos # 0
      BY <1>2, <1>4 DEF CheckpointCopy
    <2> DEFINE r == logFile[ckpt.pos]
    <2>2. ckpt.pos \in DOMAIN logFile /\ r \in Recs
      BY <1>1, <1>2, <1>4, LogIs DEF CheckpointCopy, Typed
    <2>3. dataFile' \in DataFiles
      BY <1>1, <1>4, <2>2 DEF Typed, Recs, DataFiles, CheckpointCopy
    <2>4. Typed' /\ LogIDs'
      BY <1>1, <1>4, <2>1, <2>3 DEF CheckpointCopy, Typed, LogIDs
    <2>5. QED
      BY <1>1, <2>4, IdleStep
  <1>5. CASE CheckpointSync
    BY <1>1, <1>2, <1>5, IdleStep DEF CheckpointSync, Typed, LogIDs
  <1>6. CASE CheckpointTruncate
    BY <1>1, <1>2, <1>6, EmptySeq, EmptyMap, IdleStep DEF CheckpointTruncate, Typed, LogIDs
  <1>7. CASE CheckpointClear
    BY <1>1, <1>2, <1>7, IdleStep DEF CheckpointClear, Typed, LogIDs
  <1>8. CASE CheckpointFails
    BY <1>1, <1>2, <1>8, FaultIs, IdleStep DEF CheckpointFails, Typed, LogIDs
  <1>9. QED
    BY <1>3, <1>4, <1>5, <1>6, <1>7, <1>8

-----------------------------------------------------------------------------
(* A crash, and the replay of the log.                                     *)

LEMMA LogAfterIs ==
    ASSUME Typed, NEW mode \in {"process", "power", "reordered"}, NEW log \in LogAfter(mode)
    PROVE  log \in Seq(Recs)
  <1>1. /\ logFile \in Seq(Recs) /\ logDisk \in Seq(Recs) /\ BlankRec \in Recs
        /\ Len(logFile) \in Nat /\ DOMAIN logFile = 1 .. Len(logFile) /\ IsFiniteSet(DOMAIN logFile)
        /\ Len(logDisk) \in Nat /\ DOMAIN logDisk = 1 .. Len(logDisk)
        /\ \A i \in 1 .. Len(logFile) : logFile[i] \in Recs
        /\ \A i \in 1 .. Len(logDisk) : logDisk[i] \in Recs
    BY LogIs DEF Typed, Recs
  <1>2. CASE log = logFile
    BY <1>1, <1>2
  <1>3. ASSUME NEW n \in 0 .. Len(logFile),
               log = [i \in 1 .. (IF n > Len(logDisk) THEN n ELSE Len(logDisk)) |->
                         IF i <= n THEN logFile[i] ELSE logDisk[i]]
        PROVE  log \in Seq(Recs)
    <2> DEFINE l == IF n > Len(logDisk) THEN n ELSE Len(logDisk)
    <2>1. n \in Nat /\ n <= Len(logFile) /\ l \in Nat
      BY <1>1
    <2>2. \A i \in 1 .. l : (IF i <= n THEN logFile[i] ELSE logDisk[i]) \in Recs
      BY <1>1, <2>1
    <2>3. log \in [1 .. l -> Recs]
      BY <1>3, <2>2
    <2>4. QED
      BY <2>1, <2>3, SeqDef
  <1>4. ASSUME NEW S \in SUBSET DOMAIN logFile,
               log = [i \in 1 .. Max({Len(logDisk)} \cup S) |->
                         IF i \in S THEN logFile[i]
                         ELSE IF i <= Len(logDisk) THEN logDisk[i] ELSE BlankRec]
        PROVE  log \in Seq(Recs)
    <2> DEFINE M == {Len(logDisk)} \cup S
               l == Max(M)
    <2>1. IsFiniteSet(S)
      BY <1>1, FS_Subset
    <2>2. M \in SUBSET Int /\ M # {} /\ M \subseteq Nat
      BY <1>1
    <2>3. IsFiniteSet(M)
      BY <2>1, FS_Singleton, FS_Union
    <2> HIDE DEF M
    <2>4. l \in M
      BY <2>2, <2>3, MaxIs
    <2>5. l \in Nat
      BY <2>2, <2>4
    <2>6. log = [i \in 1 .. l |-> IF i \in S THEN logFile[i]
                                  ELSE IF i <= Len(logDisk) THEN logDisk[i] ELSE BlankRec]
      BY <1>4 DEF M
    <2> HIDE DEF l
    <2>7. \A i \in 1 .. l : (IF i \in S THEN logFile[i]
                             ELSE IF i <= Len(logDisk) THEN logDisk[i] ELSE BlankRec) \in Recs
      BY <1>1, <2>5
    <2>8. log \in [1 .. l -> Recs]
      BY <2>6, <2>7
    <2>9. QED
      BY <2>5, <2>8, SeqDef
  <1>5. QED
    BY <1>2, <1>3, <1>4 DEF LogAfter

LEMMA DataAfterIs ==
    ASSUME Typed, NEW mode, NEW data \in DataAfter(mode)
    PROVE  data \in DataFiles
  <1>1. dataFile \in DataFiles /\ dataDisk \in DataFiles /\ DOMAIN dataFile = AllPages
    BY DEF Typed, DataFiles
  <1>2. ASSUME NEW S, data = [p \in DOMAIN dataFile |-> IF p \in S THEN dataFile[p] ELSE dataDisk[p]]
        PROVE  data \in DataFiles
    BY <1>1, <1>2 DEF DataFiles
  <1>3. QED
    BY <1>1, <1>2 DEF DataAfter

\* The flags of a log, and what the replay makes of them.
LEMMA FlagsAre ==
    ASSUME NEW log \in Seq(Recs)
    PROVE  /\ Flags(log) \subseteq DOMAIN log /\ IsFiniteSet(Flags(log))
           /\ Cardinality(Flags(log)) \in Nat
           /\ \A i \in Flags(log) : /\ VersionAt(log, i) \in Nat \ {0}
                                    /\ VersionAt(log, i) <= Cardinality(Flags(log))
  <1>1. /\ Flags(log) \subseteq DOMAIN log /\ IsFiniteSet(DOMAIN log)
        /\ \A i \in DOMAIN log : i \in Nat
    BY LogIs DEF Flags
  <1>2. IsFiniteSet(Flags(log)) /\ Cardinality(Flags(log)) \in Nat
    BY <1>1, FS_Subset, FS_CardinalityType
  <1>3. ASSUME NEW i \in Flags(log)
        PROVE  /\ VersionAt(log, i) \in Nat \ {0}
               /\ VersionAt(log, i) <= Cardinality(Flags(log))
    <2> DEFINE S == {j \in Flags(log) : j <= i}
    <2>1. S \subseteq Flags(log) /\ i \in S
      BY <1>1
    <2> HIDE DEF S
    <2>2. IsFiniteSet(S) /\ Cardinality(S) <= Cardinality(Flags(log))
      BY <1>2, <2>1, FS_Subset
    <2>3. Cardinality(S) \in Nat /\ Cardinality(S) # 0
      BY <2>1, <2>2, FS_CardinalityType, FS_EmptySet
    <2>4. QED
      BY <2>2, <2>3 DEF VersionAt, S
  <1>4. QED
    BY <1>1, <1>2, <1>3

LEMMA ReplayedIs ==
    ASSUME NEW log \in Seq(Recs)
    PROVE  /\ Replayed(log) \in [AllPages -> SUBSET Entries]
           /\ \A p \in AllPages : \A e \in Replayed(log)[p] :
                  e.version <= Cardinality(Flags(log)) /\ At(log, p, e.offset) /\ e.offset <= Len(log)
  <1> DEFINE found(p) == {g \in (DOMAIN log) \X Flags(log) :
                            /\ log[g[1]] # BlankRec
                            /\ log[g[1]].page = p
                            /\ log[g[1]].tx = log[g[2]].tx
                            /\ g[1] <= g[2]}
             at(p) == {[version |-> VersionAt(log, f[2]), offset |-> f[1]] : f \in found(p)}
  <1>1. Replayed(log) = [p \in AllPages |-> at(p)]
    BY DEF Replayed, AllPages
  <1>2. ASSUME NEW p \in AllPages, NEW e \in at(p)
        PROVE  /\ e \in Entries /\ e.version <= Cardinality(Flags(log))
               /\ At(log, p, e.offset) /\ e.offset <= Len(log)
    <2>1. PICK f \in found(p) : e = [version |-> VersionAt(log, f[2]), offset |-> f[1]]
      BY <1>2
    <2>2. f[1] \in DOMAIN log /\ f[2] \in Flags(log) /\ log[f[1]].page = p
      OBVIOUS
    <2>3. f[1] \in Nat \ {0} /\ f[1] <= Len(log)
      BY <2>2, LogIs
    <2>4. VersionAt(log, f[2]) \in Nat \ {0} /\ VersionAt(log, f[2]) <= Cardinality(Flags(log))
      BY <2>2, FlagsAre
    <2>5. QED
      BY <2>1, <2>2, <2>3, <2>4 DEF Entries, At
  <1> HIDE DEF at
  <1>3. \A p \in AllPages : at(p) \in SUBSET Entries
    BY <1>2
  <1>4. QED
    BY <1>1, <1>2, <1>3

LEMMA MaxIDInIs ==
    ASSUME NEW log \in Seq(Recs)
    PROVE  /\ MaxIDIn(log) \in Nat /\ \A i \in DOMAIN log : log[i].tx <= MaxIDIn(log)
           /\ MaxIDIn(log) = 0 \/ \E i \in DOMAIN log : log[i].tx = MaxIDIn(log)
  <1> DEFINE ids == {log[i].tx : i \in DOMAIN log}
             M == {0} \cup ids
  <1>1. IsFiniteSet(DOMAIN log) /\ \A i \in DOMAIN log : log[i].tx \in Nat
    BY LogIs, RecsAre
  <1>2. IsFiniteSet(ids)
    <2> DEFINE f == [i \in DOMAIN log |-> log[i].tx]
    <2>1. f \in Surjection(DOMAIN log, ids)
      BY DEF Surjection
    <2> HIDE DEF f, ids
    <2>2. QED
      BY <1>1, <2>1, FS_Surjection
  <1>3. IsFiniteSet(M)
    BY <1>2, FS_Singleton, FS_Union
  <1>4. M \in SUBSET Int /\ M # {} /\ M \subseteq Nat
    BY <1>1
  <1> HIDE DEF M
  <1>5. Max(M) \in M /\ \A y \in M : Max(M) >= y
    BY <1>3, <1>4, MaxIs
  <1>6. MaxIDIn(log) = Max(M)
    BY DEF MaxIDIn, M
  <1>7. ASSUME NEW i \in DOMAIN log PROVE log[i].tx <= Max(M)
    BY <1>1, <1>4, <1>5 DEF M
  <1>8. Max(M) = 0 \/ \E i \in DOMAIN log : log[i].tx = Max(M)
    BY <1>5 DEF M
  <1>9. QED
    BY <1>4, <1>5, <1>6, <1>7, <1>8

LEMMA ReplayedHeaderIs ==
    ASSUME NEW log \in Seq(Recs), NEW data \in DataFiles
    PROVE  ReplayedHeader(log, data) \in Headers
  <1> DEFINE hs == {i \in Flags(log) : log[i].page = Header}
  <1>1. data[Header] \in Headers
    BY DEF DataFiles, AllPages, BodyOf
  <1>2. CASE hs # {}
    <2>1. IsFiniteSet(hs)
      BY FlagsAre, FS_Subset
    <2>2. hs \in SUBSET Int
      BY FlagsAre, LogIs
    <2> HIDE DEF hs
    <2>3. Max(hs) \in hs
      BY <1>2, <2>1, <2>2, MaxIs
    <2>4. Max(hs) \in DOMAIN log /\ log[Max(hs)].confirmed /\ log[Max(hs)].page = Header
      BY <2>3 DEF hs, Flags
    <2>5. log[Max(hs)] \in Recs
      BY <2>4, LogIs
    <2>6. log[Max(hs)].body \in BodyOf(Header)
      BY <2>4, <2>5, RecsAre
    <2>7. QED
      BY <1>2, <2>6 DEF ReplayedHeader, BodyOf, hs
  <1>3. QED
    BY <1>1, <1>2 DEF ReplayedHeader

LEMMA ReopenTyped ==
    ASSUME IInv, CrashAndReopen
    PROVE  Typed' /\ LogIDs'
  <1> PICK mode \in CrashModes : \E log \in LogAfter(mode), data \in DataAfter(mode) :
               /\ Reopen(log, data)
               /\ logDisk' = IF mode = "process" THEN logDisk ELSE log
               /\ dataDisk' = IF mode = "process" THEN dataDisk ELSE data
    BY DEF CrashAndReopen
  <1> PICK log \in LogAfter(mode), data \in DataAfter(mode) :
               /\ Reopen(log, data)
               /\ logDisk' = IF mode = "process" THEN logDisk ELSE log
               /\ dataDisk' = IF mode = "process" THEN dataDisk ELSE data
    OBVIOUS
  <1>1. Typed /\ mode \in {"process", "power", "reordered"}
    BY BoundsAssumption DEF IInv
  <1>2. log \in Seq(Recs) /\ data \in DataFiles
    BY <1>1, LogAfterIs, DataAfterIs
  <1>3. /\ logFile' = log /\ logEnd' = Len(log) /\ dataFile' = data /\ index' = Replayed(log)
        /\ confirmed' = {log[i].tx : i \in Flags(log)} /\ readVersion' = Cardinality(Flags(log))
        /\ lastTxID' = MaxIDIn(log) /\ header' = ReplayedHeader(log, data)
    BY DEF Reopen
  <1>4. logDisk' \in Seq(Recs) /\ dataDisk' \in DataFiles /\ logEnd' \in Nat
    BY <1>1, <1>2, <1>3, LogIs DEF Typed
  <1>5. /\ index' \in [AllPages -> SUBSET Entries] /\ readVersion' \in Nat
        /\ \A p \in AllPages : \A e \in index'[p] : e.version <= readVersion'
    BY <1>2, <1>3, ReplayedIs, FlagsAre
  <1>6. lastTxID' \in Nat /\ \A i \in DOMAIN log : log[i].tx <= lastTxID'
    BY <1>2, <1>3, MaxIDInIs
  <1>7. \A i \in Flags(log) : log[i].tx \in 1 .. lastTxID'
    <2>1. ASSUME NEW i \in Flags(log) PROVE log[i].tx \in 1 .. lastTxID'
      <3>1. i \in DOMAIN log /\ log[i].confirmed /\ log[i] \in Recs
        BY <1>2, LogIs DEF Flags
      <3>2. log[i].tx \in Nat \ {0}
        BY <3>1, RecsAre
      <3>3. QED
        BY <1>6, <3>1, <3>2
    <2>2. QED
      BY <2>1
  <1>8. header' \in Headers
    BY <1>2, <1>3, ReplayedHeaderIs
  <1>9. /\ tx' = [t \in Txs |-> Idle] /\ mu' = NoTx /\ broken' = FALSE /\ ckpt' = [st |-> "off", pos |-> 0]
        /\ UNCHANGED faults
    BY DEF CrashAndReopen, ckptIdle
  <1>10. tx' \in [Txs -> TxRecs]
    BY <1>9, IdleIs
  <1>11. confirmed' \subseteq 1 .. lastTxID'
    BY <1>3, <1>7
  <1>12. Typed'
    BY <1>1, <1>2, <1>3, <1>4, <1>5, <1>6, <1>8, <1>9, <1>10, <1>11 DEF Typed
  <1>13. QED
    BY <1>3, <1>6, <1>12 DEF LogIDs

LEMMA CrashStep == ASSUME IInv, CrashAndReopen PROVE IInv'
  BY ReopenTyped, IdleIs, TxsAssumption DEF CrashAndReopen, ckptIdle, IInv, Mutex, Quiet, Ids,
     Spilled, SpillsTrue, OffsetsTrue

-----------------------------------------------------------------------------
(* The theorems.                                                           *)

LEMMA Inductive == IInv /\ [Next]_vars => IInv'
  <1> SUFFICES ASSUME IInv, [Next]_vars PROVE IInv'
    OBVIOUS
  <1>1. ASSUME NEW t \in Txs, NEW c \in Cols, NEW p \in Pages, Update(t, c, p) \/ Shrink(t, c, p)
        PROVE  IInv'
    BY <1>1, UpdateStep, ShrinkStep
  <1>2. ASSUME NEW t \in Txs, NEW c \in Cols,
               \/ \E mode \in {"read", "write"} : Snapshot(t, c, mode)
               \/ LoadCollection(t, c) \/ CreateCollection(t, c) \/ Grow(t, c)
               \/ Drop(t, c) \/ Scan(t, c)
        PROVE  IInv'
    BY <1>2, SnapshotStep, LoadStep, CreateStep, GrowStep, DropStep, ScanStep
  <1>3. ASSUME NEW t \in Txs,
               \/ Begin(t) \/ Safepoint(t)
               \/ CommitNothing(t) \/ CommitAppend(t) \/ CommitConfirm(t) \/ CommitSyncFails(t)
               \/ Rollback(t) \/ GiveUp(t) \/ ReturnAppend(t) \/ ReturnConfirm(t)
               \/ ReturnSyncFails(t)
        PROVE  IInv'
    BY <1>3, SyncFailsStep, BeginStep, SafepointStep, CommitNothingStep, CommitAppendStep,
       CommitConfirmStep, RollbackStep, GiveUpStep, ReturnAppendStep, ReturnConfirmStep DEF
       CommitSyncFails, ReturnSyncFails, IInv, Typed
  <1>4. CASE UNCHANGED vars
    BY <1>4 DEF vars, fileVars, walVars, IInv, Typed, Mutex, Quiet, Ids, LogIDs, Spilled,
       SpilledBy, SpillsTrue, OffsetsTrue, At
  <1>5. CASE CheckpointStart \/ CheckpointCopy \/ CheckpointSync \/ CheckpointTruncate
             \/ CheckpointClear \/ CheckpointFails
    BY <1>5, CheckpointStep
  <1>6. CASE CrashAndReopen
    BY <1>6, CrashStep
  <1>7. QED
    BY <1>1, <1>2, <1>3, <1>4, <1>5, <1>6 DEF Next

\* The inductive invariant holds of every reachable state.
THEOREM Invariant == Spec => []IInv
  BY Initially, Inductive, PTL DEF Spec

LEMMA TypesFollow == IInv => TypeOK
  <1> SUFFICES ASSUME IInv PROVE TypeOK
    OBVIOUS
  <1>1. Typed
    BY DEF IInv
  <1>2. \A log \in {logFile, logDisk} : \A i \in DOMAIN log :
            log[i].page \in AllPages /\ log[i].tx \in Nat /\ log[i].confirmed \in BOOLEAN
    BY <1>1, LogIs, RecsAre DEF Typed
  <1>3. DOMAIN index = AllPages /\ \A p \in AllPages : \A e \in index[p] :
            e.offset \in Nat \ {0} /\ e.version \in 1 .. readVersion
    BY <1>1 DEF Typed, Entries
  <1>4. header.free \in Links /\ header.last \in Pages
    BY <1>1, HeaderIs DEF Typed
  <1>5. ASSUME NEW t \in Txs PROVE tx[t].st \in States /\ Held(t) \subseteq Pages
    <2>1. tx[t].st \in States /\ tx[t].newPages \in Seq(Pages)
      BY <1>1, TxIs DEF Typed
    <2>2. QED
      BY <2>1, LenProperties, ElementOfSeq DEF Held, ToSet
  <1>6. QED
    BY <1>1, <1>2, <1>3, <1>4, <1>5 DEF TypeOK, Typed, AllPages, Links, States

\* Pages, offsets, versions and ids stay in their ranges, whatever fails and crashes: a
\* database at its size limit never takes one page more.
THEOREM Types == Spec => []TypeOK
  BY Invariant, TypesFollow, PTL

\* A transaction id found in the log is never taken again, after any crash.
THEOREM IDsAreTakenOnce == Spec => []NoIDTwice
  <1>1. IInv => NoIDTwice
    <2> SUFFICES ASSUME IInv PROVE NoIDTwice
      OBVIOUS
    <2>1. Typed /\ LogIDs /\ lastTxID \in Nat
      BY DEF IInv, Typed
    <2>2. MaxIDIn(logFile) <= lastTxID
      BY <2>1, MaxIDInIs DEF Typed, LogIDs
    <2>3. ASSUME NEW t \in Txs, tx[t].st = "active"
          PROVE  tx[t].id \notin confirmed /\ SpilledBy(tx[t])
      BY <2>3 DEF IInv, Ids, Spilled
    <2>4. QED
      BY <2>2, <2>3 DEF NoIDTwice, SpilledBy
  <1>2. QED
    BY <1>1, Invariant, PTL

\* The collection table never holds more names than it has room for, whoever creates
\* and drops collections at the same time.
THEOREM TheTableFits == Spec => []TableFits
  <1>1. IInv => TableFits
    <2> SUFFICES ASSUME IInv PROVE TableFits
      OBVIOUS
    <2>1. SettledHeader \in Headers
      BY DEF IInv, Typed, Mutex, Sound, SettledHeader
    <2>2. QED
      BY <2>1, HeaderIs DEF TableFits, Tables, Named
  <1>2. QED
    BY <1>1, Invariant, PTL

-----------------------------------------------------------------------------
(* Durability, where a crash loses what is not on the device.              *)

\* Of a step that confirms nothing, and leaves the log in front of its end alone.
LEMMA StillDurable ==
    ASSUME Typed, Durable, UNCHANGED <<index, logDisk>>, CuttingOff' = CuttingOff,
           CuttingOff => logFile' = logFile,
           logEnd' \in Nat, logEnd <= logEnd', faults > 0 => faults' > 0,
           \A i \in DOMAIN logFile : i <= logEnd => i \in DOMAIN logFile' /\ logFile'[i] = logFile[i],
           \A i \in DOMAIN logFile' : i <= logEnd => \/ i \in DOMAIN logFile /\ logFile'[i] = logFile[i]
                                                     \/ logFile'[i] = BlankRec
    PROVE  Durable'
  BY DEF Durable, Typed, Entries, At, CutOff

LEMMA UnwrittenDurable ==
    ASSUME IInv, Durable, UNCHANGED <<index, logDisk, logFile, logEnd>>, CuttingOff' = CuttingOff,
           Fault \/ UNCHANGED faults
    PROVE  Durable'
  BY StillDurable DEF IInv, Typed, Fault

LEMMA WrittenDurable ==
    ASSUME IInv, Durable, UNCHANGED <<index, logDisk, ckpt>>, Fault \/ UNCHANGED faults,
           NEW t \in Txs, tx[t].st # "idle",
           NEW recs \in Seq(Recs), NEW id \in Nat \ {0}, \A i \in DOMAIN recs : recs[i].tx = id,
           AppendLogPages(recs) \/ AppendFails(recs)
    PROVE  Durable'
  <1>1. Typed /\ (faults > 0 => faults' > 0) /\ ~ CuttingOff /\ ~ CuttingOff'
    BY DEF IInv, Typed, Fault, Quiet, CuttingOff
  <1>2. /\ logEnd' \in Nat /\ logEnd <= logEnd'
        /\ \A i \in DOMAIN logFile : i <= logEnd => i \in DOMAIN logFile' /\ logFile'[i] = logFile[i]
    BY <1>1, AppendIs
  <1>3. \A i \in DOMAIN logFile' : i <= logEnd => \/ i \in DOMAIN logFile /\ logFile'[i] = logFile[i]
                                                  \/ logFile'[i] = BlankRec
    <2>1. \A i \in DOMAIN logFile' : \/ i \in DOMAIN logFile /\ logFile'[i] = logFile[i]
                                     \/ logFile'[i] = BlankRec
                                     \/ i > logEnd
      BY <1>1, AppendIs
    <2>2. logEnd \in Nat /\ \A i \in DOMAIN logFile' : i \in Nat
      BY <1>1, AppendIs, LogIs DEF Typed
    <2>3. QED
      BY <2>1, <2>2
  <1>4. CuttingOff' = CuttingOff
    BY DEF CuttingOff
  <1>5. QED
    BY <1>1, <1>2, <1>3, <1>4, StillDurable

LEMMA ConfirmedDurable ==
    ASSUME IInv, Durable, NEW t \in Txs, tx[t].st # "idle", NEW id, NEW offs \in OffsetMaps,
           OffsetsTrue(offs), Confirm(id, offs), logDisk' = logFile,
           UNCHANGED <<logFile, logEnd, ckpt, faults>>
    PROVE  Durable'
  BY DEF IInv, Quiet, CuttingOff, Durable, Confirm, Typed, OffsetsTrue, At, CutOff

LEMMA CrashDurable ==
    ASSUME IInv, "process" \notin CrashModes, CrashAndReopen
    PROVE  Durable'
  <1>1. PICK mode \in CrashModes : \E log \in LogAfter(mode), data \in DataAfter(mode) :
               /\ Reopen(log, data)
               /\ logDisk' = IF mode = "process" THEN logDisk ELSE log
    BY DEF CrashAndReopen
  <1>2. PICK log \in LogAfter(mode), data \in DataAfter(mode) :
               /\ Reopen(log, data)
               /\ logDisk' = IF mode = "process" THEN logDisk ELSE log
    BY <1>1
  <1>3. log \in Seq(Recs)
    BY LogAfterIs, BoundsAssumption DEF IInv
  <1>4. logFile' = log /\ logDisk' = log /\ logEnd' = Len(log) /\ index' = Replayed(log)
    BY <1>2 DEF Reopen
  <1>5. ~ CuttingOff'
    BY DEF CrashAndReopen, ckptIdle, CuttingOff
  <1>6. QED
    BY <1>3, <1>4, <1>5, ReplayedIs DEF Durable

LEMMA DurableStep == IInv /\ Durable /\ "process" \notin CrashModes /\ [Next]_vars => Durable'
  <1> SUFFICES ASSUME IInv, Durable, "process" \notin CrashModes, [Next]_vars PROVE Durable'
    OBVIOUS
  <1> USE DEF fileVars, walVars, restVars
  <1>1. ASSUME NEW t \in Txs, NEW c \in Cols, NEW p \in Pages, Update(t, c, p) \/ Shrink(t, c, p)
        PROVE  Durable'
    BY <1>1, UnwrittenDurable DEF Update, Shrink, CuttingOff
  <1>2. ASSUME NEW t \in Txs, NEW c \in Cols,
               \/ \E mode \in {"read", "write"} : Snapshot(t, c, mode)
               \/ LoadCollection(t, c) \/ CreateCollection(t, c) \/ Grow(t, c)
               \/ Drop(t, c) \/ Scan(t, c)
        PROVE  Durable'
    BY <1>2, UnwrittenDurable DEF Snapshot, LoadCollection, CreateCollection, Grow, Drop, Scan,
       CuttingOff
  <1>3. ASSUME NEW t \in Txs,
               \/ Begin(t) \/ CommitNothing(t) \/ CommitSyncFails(t) \/ Rollback(t) \/ GiveUp(t)
               \/ ReturnSyncFails(t)
        PROVE  Durable'
    BY <1>3, UnwrittenDurable DEF Begin, CommitNothing, CommitSyncFails, Rollback, GiveUp,
       ReturnSyncFails, CuttingOff
  <1>4. ASSUME NEW t \in Txs, Safepoint(t) PROVE Durable'
    <2>1. tx[t].st # "idle"
      BY <1>4 DEF Safepoint, CanLock, Active
    <2>2. PICK id \in Nat \ {0} : id = tx[t].id
      BY <2>1, OpenIs
    <2> DEFINE recs == Marked(collectDirty(tx[t]), id, FALSE)
    <2>3. recs \in Seq(Recs) /\ \A i \in DOMAIN recs : recs[i].tx = id
      BY <2>1, OpenIs, collectDirtyIs, MarkedIs
    <2> HIDE DEF recs
    <2>4. /\ UNCHANGED <<index, logDisk, ckpt>> /\ (Fault \/ UNCHANGED faults)
          /\ AppendLogPages(recs) \/ AppendFails(recs)
      BY <1>4, <2>2 DEF Safepoint, AppendFails, recs
    <2>5. QED
      BY <2>1, <2>3, <2>4, WrittenDurable
  <1>5. ASSUME NEW t \in Txs, CommitAppend(t) PROVE Durable'
    <2>1. tx[t].st # "idle" /\ ~ Refused(tx[t])
      BY <1>5 DEF CommitAppend, CanLock, Active
    <2>2. PICK id \in Nat \ {0} : id = tx[t].id
      BY <2>1, OpenIs
    <2> DEFINE recs == Marked(CommitPages(tx[t]), id, TRUE)
    <2>3. recs \in Seq(Recs) /\ \A i \in DOMAIN recs : recs[i].tx = id
      BY <2>1, OpenIs, CommitPagesIs, MarkedIs
    <2> HIDE DEF recs
    <2>4. /\ UNCHANGED <<index, logDisk, ckpt>> /\ (Fault \/ UNCHANGED faults)
          /\ AppendLogPages(recs) \/ AppendFails(recs)
      BY <1>5, <2>2 DEF CommitAppend, AppendFails, recs
    <2>5. QED
      BY <2>1, <2>3, <2>4, WrittenDurable
  <1>6. ASSUME NEW t \in Txs, ReturnAppend(t) PROVE Durable'
    <2>1. tx[t].st # "idle" /\ tx[t].newPages # <<>>
      BY <1>6 DEF ReturnAppend, Ending, Active
    <2>2. PICK id \in Nat \ {0} : id = lastTxID + 1
      BY <2>1, OpenIs
    <2> DEFINE recs == Marked(ReturnPages(tx[t]), id, TRUE)
    <2>3. recs \in Seq(Recs) /\ \A i \in DOMAIN recs : recs[i].tx = id
      BY <2>1, OpenIs, ReturnPagesIs, MarkedIs
    <2> HIDE DEF recs
    <2>4. /\ UNCHANGED <<index, logDisk, ckpt>> /\ (Fault \/ UNCHANGED faults)
          /\ AppendLogPages(recs) \/ AppendFails(recs)
      BY <1>6, <2>2 DEF ReturnAppend, AppendFails, recs
    <2>5. QED
      BY <2>1, <2>3, <2>4, WrittenDurable
  <1>7. ASSUME NEW t \in Txs, CommitConfirm(t) PROVE Durable'
    BY <1>7, OpenIs, ConfirmedDurable DEF CommitConfirm
  <1>8. ASSUME NEW t \in Txs, ReturnConfirm(t) PROVE Durable'
    BY <1>8, OpenIs, TxIs, ConfirmedDurable DEF ReturnConfirm
  <1>9. CASE CheckpointStart \/ CheckpointCopy \/ CheckpointSync
    BY <1>9, UnwrittenDurable DEF CheckpointStart, CheckpointCopy, CheckpointSync, IInv, Typed,
       CuttingOff
  <1>10. CASE CheckpointTruncate
    BY <1>10, EmptyMap DEF CheckpointTruncate, IInv, Typed, CutOff, Durable, CuttingOff, At
  <1>11. CASE CheckpointClear
    BY <1>11 DEF CheckpointClear, ckptIdle, IInv, Typed, Durable, CuttingOff
  <1>12. CASE CheckpointFails
    BY <1>12, UnwrittenDurable, EmptyMap DEF CheckpointFails, ckptIdle, CuttingOff, Durable, Fault,
       IInv, Typed, CutOff
  <1>13. CASE CrashAndReopen
    BY <1>13, CrashDurable
  <1>14. CASE UNCHANGED vars
    BY <1>14, UnwrittenDurable DEF vars, CuttingOff
  <1>15. QED
    BY <1>1, <1>2, <1>3, <1>4, <1>5, <1>6, <1>7, <1>8, <1>9, <1>10, <1>11, <1>12, <1>13, <1>14
       DEF Next

\* After any loss of power, with the pages of one append on the device in any order, what
\* had been confirmed is on the device, and no transaction id is taken twice.  A crash of
\* the process alone is another matter: what is replayed then may not be on the device.
THEOREM WhatIsConfirmedIsKept ==
    ASSUME "process" \notin CrashModes
    PROVE  Spec => []ConfirmedIsKept
  <1>1. Init => Durable
    BY DEF Init, CuttingOff, AllPages, Durable
  <1>2. IInv /\ Durable /\ [Next]_vars => Durable'
    BY DurableStep
  <1>3. IInv /\ Durable => ConfirmedIsDurable
    BY DEF IInv, Typed, Durable, ConfirmedIsDurable, At
  <1>4. Spec => []ConfirmedIsDurable
    BY <1>1, <1>2, <1>3, Invariant, PTL DEF Spec
  <1>5. QED
    BY <1>4, IDsAreTakenOnce, PTL DEF ConfirmedIsKept
=============================================================================
