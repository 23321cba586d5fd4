---------------------------- MODULE BackupProofs ----------------------------
(***************************************************************************)
(* Proofs about backups, for any number of them, any number of pages and   *)
(* commits: a copy is the database at one moment, and two backups to one   *)
(* path do not overwrite each other.                                       *)
(* Then about the page cache such a copy is read through: what it holds is *)
(* what was committed, and its ring is in step with its index.             *)
(***************************************************************************)
EXTENDS Backup, FiniteSetTheorems, SequenceTheorems, WellFoundedInduction, TLAPS

Sensible == MaxPage \in Nat /\ "none" \notin Backups

Records == [value : Int, last : Nat]
Entries == [page : PageIDs, rec : Records, ver : Nat]

StoreTyped ==
  /\ log \in Seq(Entries)
  /\ data \in [PageIDs -> Records]
  /\ now \in [PageIDs -> Records]
  /\ live \in PageIDs
  /\ now[0].last \in 0..live
  /\ version \in Nat
  /\ commits \in Nat

\* What one version of a page is: the newest record up to it, else what is in
\* the data file.
Upto(p, v) == {i \in 1..Len(log) : log[i].page = p /\ log[i].ver <= v}
At(p, v) == IF Upto(p, v) # {} THEN log[Max(Upto(p, v))].rec ELSE Emptied(data[p])
Greatest(S, m) == m \in S /\ \A k \in S : k <= m

\* There is a newest record among those of a page, and the log holds none
\* after the version that a backup would fix now.
LogOrdered ==
  /\ \A p \in PageIDs, v \in Nat : Upto(p, v) # {} => \E m \in Upto(p, v) : Greatest(Upto(p, v), m)
  /\ \A i \in 1..Len(log) : log[i].ver <= version /\ log[i].rec.value # Blank

\* The version of now is what was committed.
NowIsThere == \A p \in PageIDs : At(p, version) = now[p]

\* A backup that reads has a version the log keeps, what it will find there is
\* what was committed when it fixed the version, and what it has is the
\* beginning of that.
Copying ==
  /\ next \in [Backups -> Nat] /\ fixed \in [Backups -> Nat]
  /\ snap \in [Backups -> [PageIDs -> Records]]
  /\ copy \in [Backups -> Seq(Records)]
  /\ DOMAIN pc = Backups
  /\ \A b \in Backups : snap[b][0].last \in PageIDs
  /\ \A b \in Backups : pc[b] \in {"stat", "gate", "version"} => next[b] = 0 /\ copy[b] = <<>>
  /\ \A b \in Backups : pc[b] = "read" =>
       /\ fixed[b] <= version
       /\ \A p \in PageIDs : At(p, fixed[b]) = snap[b][p]
       /\ next[b] <= snap[b][0].last
       /\ Len(copy[b]) = next[b]
       /\ \A i \in 1..next[b] : copy[b][i] = snap[b][i - 1]

\* The file at the path came from a backup that is done, and with links from
\* the only one.
Placing ==
  /\ \A b \in Backups : pc[b] = "done" => target # "none"
  /\ target # "none" => target \in Backups /\ pc[target] = "done"
  /\ HardLinks => \A b \in Backups : pc[b] # "rename" /\ (pc[b] = "done" => target = b)

IInv ==
  StoreTyped /\ LogOrdered /\ NowIsThere /\ Copying /\ BackupIsOneVersion /\ Placing

-----------------------------------------------------------------------------
(* The newest record of a page.                                            *)

LEMMA MaxIs ==
  ASSUME NEW S \in SUBSET Nat, NEW m, Greatest(S, m)
  PROVE  Max(S) = m
  <1>1. \A y \in S : m >= y
    BY DEF Greatest
  <1>2. \A x \in S : (\A y \in S : x >= y) => x = m
    BY DEF Greatest
  <1>3. QED
    BY <1>1, <1>2 DEF Max, Greatest

LEMMA NewestIn ==
  ASSUME IInv, NEW p \in PageIDs, NEW v \in Nat, Upto(p, v) # {}
  PROVE  /\ Max(Upto(p, v)) \in Upto(p, v)
         /\ Greatest(Upto(p, v), Max(Upto(p, v)))
  <1>1. PICK m \in Upto(p, v) : Greatest(Upto(p, v), m)
    BY DEF IInv, LogOrdered
  <1>2. Upto(p, v) \in SUBSET Nat
    BY DEF Upto
  <1>3. QED
    BY <1>1, <1>2, MaxIs

LEMMA AtTyped ==
  ASSUME IInv, NEW p \in PageIDs, NEW v \in Nat
  PROVE  At(p, v) \in Records
  <1>1. CASE Upto(p, v) # {}
    <2>1. Max(Upto(p, v)) \in 1..Len(log)
      BY <1>1, NewestIn DEF Upto
    <2>2. log[Max(Upto(p, v))] \in Entries
      BY <2>1, ElementOfSeq DEF IInv, StoreTyped
    <2>3. QED
      BY <1>1, <2>2 DEF At, Entries
  <1>2. CASE Upto(p, v) = {}
    <2>1. data[p] \in Records
      BY DEF IInv, StoreTyped
    <2>2. Emptied(data[p]) \in Records
      BY <2>1 DEF Emptied, Records, Empty
    <2>3. QED
      BY <1>2, <2>2 DEF At
  <1>3. QED
    BY <1>1, <1>2

LEMMA backupPageIsAt ==
  ASSUME NEW b, NEW p
  PROVE  backupPage(b, p) = At(p, fixed[b])
  BY DEF backupPage, Lookup, At, Upto

-----------------------------------------------------------------------------
(* Steps of the store.                                                     *)

LEMMA Initially == ASSUME Sensible, Init PROVE IInv
  <1>1. 0 \in PageIDs /\ \A p \in PageIDs : p \in Int
    BY DEF Sensible, PageIDs
  <1>2. Len(log) = 0 /\ \A p, v : Upto(p, v) = {}
    BY DEF Init, Upto
  <1>3. now \in [PageIDs -> Records] /\ data \in [PageIDs -> Records] /\ now[0].last = 0
    BY <1>1 DEF Init, Records, Never, Blank, Empty
  <1>4. StoreTyped
    BY <1>1, <1>3 DEF Init, StoreTyped
  <1>5. LogOrdered
    BY <1>2 DEF Init, LogOrdered
  <1>6. NowIsThere
    <2> SUFFICES ASSUME NEW p \in PageIDs PROVE Emptied(data[p]) = now[p]
      BY <1>2 DEF NowIsThere, At
    <2>1. CASE p = 0
      BY <2>1, <1>1 DEF Init, Emptied, Blank
    <2>2. CASE p # 0
      BY <2>2, <1>1 DEF Init, Emptied, Never, Blank, Empty
    <2>3. QED
      BY <2>1, <2>2
  <1>7. Copying
    BY <1>1, <1>3 DEF Init, Copying
  <1>8. BackupIsOneVersion /\ Placing
    BY DEF Init, BackupIsOneVersion, Placing
  <1>9. QED
    BY <1>4, <1>5, <1>6, <1>7, <1>8 DEF IInv

LEMMA ExtendStep ==
  ASSUME Sensible, IInv, Extend
  PROVE  IInv'
  <1>1. live < MaxPage /\ live' = live + 1
        /\ UNCHANGED <<log, data, version, commits, now, pc, next, copy, fixed, snap, target>>
    BY DEF Extend, copyVars
  <1>2. StoreTyped'
    BY <1>1 DEF IInv, StoreTyped, Sensible, PageIDs
  <1>3. \A p, v : Upto(p, v)' = Upto(p, v) /\ At(p, v)' = At(p, v)
    BY <1>1 DEF Upto, At, Emptied
  <1>4. LogOrdered' /\ NowIsThere' /\ Copying'
    BY <1>1, <1>3 DEF IInv, LogOrdered, NowIsThere, Copying, Greatest
  <1>5. BackupIsOneVersion' /\ Placing'
    BY <1>1 DEF IInv, BackupIsOneVersion, Placing
  <1>6. QED
    BY <1>2, <1>4, <1>5 DEF IInv

\* Nothing of a version that was there before a commit changes with it.
LEMMA CommitAppends ==
  ASSUME Sensible, IInv, Commit
  PROVE  \E p \in 1..live :
           LET n == commits + 1
               body == [page |-> p, rec |-> [value |-> n, last |-> 0], ver |-> version + 1]
               head == [page |-> 0, rec |-> [value |-> n, last |-> live], ver |-> version + 1]
           IN /\ body \in Entries /\ head \in Entries /\ p \in PageIDs /\ p # 0 /\ 0 \in PageIDs
              /\ log' \in Seq(Entries) /\ Len(log) \in Nat /\ Len(log') = Len(log) + 2
              /\ \A i \in 1..Len(log) : log'[i] = log[i]
              /\ log'[Len(log) + 1] = body /\ log'[Len(log) + 2] = head
              /\ now' = [now EXCEPT ![p] = body.rec, ![0] = head.rec]
  <1>1. PICK p \in 1..live :
          /\ log' = log \o << [page |-> p, rec |-> [value |-> commits + 1, last |-> 0], ver |-> version + 1],
                              [page |-> 0, rec |-> [value |-> commits + 1, last |-> live], ver |-> version + 1] >>
          /\ now' = [now EXCEPT ![p] = [value |-> commits + 1, last |-> 0],
                                ![0] = [value |-> commits + 1, last |-> live]]
    BY DEF Commit
  <1> DEFINE body == [page |-> p, rec |-> [value |-> commits + 1, last |-> 0], ver |-> version + 1]
             head == [page |-> 0, rec |-> [value |-> commits + 1, last |-> live], ver |-> version + 1]
  <1>2. p \in PageIDs /\ p # 0 /\ 0 \in PageIDs /\ live \in Nat
    BY DEF IInv, StoreTyped, Sensible, PageIDs
  <1>3. commits + 1 \in Int /\ version + 1 \in Nat
    BY DEF IInv, StoreTyped
  <1>4. body \in Entries /\ head \in Entries
    BY <1>2, <1>3 DEF Entries, Records
  <1>5. log' = log \o << body, head >>
    BY <1>1
  <1>6. now' = [now EXCEPT ![p] = body.rec, ![0] = head.rec]
    BY <1>1
  <1> HIDE DEF body, head
  <1>7. log \in Seq(Entries) /\ Len(log) \in Nat /\ << body, head >> \in Seq(Entries)
        /\ Len(<< body, head >>) = 2
    BY <1>4 DEF IInv, StoreTyped
  <1>8. /\ log' \in Seq(Entries) /\ Len(log') = Len(log) + 2
        /\ \A i \in 1..Len(log) : log'[i] = log[i]
        /\ log'[Len(log) + 1] = body /\ log'[Len(log) + 2] = head
    BY <1>5, <1>7
  <1>9. QED
    BY <1>2, <1>4, <1>6, <1>7, <1>8 DEF body, head

LEMMA CommitStep ==
  ASSUME Sensible, IInv, Commit
  PROVE  IInv'
  <1> DEFINE n == Len(log)
  <1>1. /\ version' = version + 1 /\ commits' = commits + 1
        /\ UNCHANGED <<data, live, pc, next, copy, fixed, snap, target>>
    BY DEF Commit, copyVars
  <1>2. PICK q \in 1..live, body \in Entries, head \in Entries :
          /\ body.page = q /\ body.ver = version + 1 /\ body.rec.value = commits + 1
          /\ head.page = 0 /\ head.ver = version + 1 /\ head.rec.value = commits + 1
          /\ head.rec.last = live
          /\ q \in PageIDs /\ q # 0 /\ 0 \in PageIDs
          /\ log' \in Seq(Entries) /\ n \in Nat /\ Len(log') = n + 2
          /\ \A i \in 1..n : log'[i] = log[i]
          /\ log'[n + 1] = body /\ log'[n + 2] = head
          /\ now' = [now EXCEPT ![q] = body.rec, ![0] = head.rec]
    <2> DEFINE new(q) == [page |-> q, rec |-> [value |-> commits + 1, last |-> IF q = 0 THEN live ELSE 0],
                          ver |-> version + 1]
    <2>1. PICK q \in 1..live :
            /\ new(q) \in Entries /\ new(0) \in Entries /\ q \in PageIDs /\ q # 0 /\ 0 \in PageIDs
            /\ log' \in Seq(Entries) /\ n \in Nat /\ Len(log') = n + 2
            /\ \A i \in 1..n : log'[i] = log[i]
            /\ log'[n + 1] = new(q) /\ log'[n + 2] = new(0)
            /\ now' = [now EXCEPT ![q] = new(q).rec, ![0] = new(0).rec]
      BY CommitAppends
    <2>2. /\ new(q).page = q /\ new(q).ver = version + 1 /\ new(q).rec.value = commits + 1
          /\ new(0).page = 0 /\ new(0).ver = version + 1 /\ new(0).rec.value = commits + 1
          /\ new(0).rec.last = live
      OBVIOUS
    <2> HIDE DEF new, n
    <2>3. QED
      BY <2>1, <2>2
  <1>3. /\ version \in Nat /\ commits \in Nat /\ live \in PageIDs /\ live \in Nat
        /\ now \in [PageIDs -> Records] /\ log \in Seq(Entries)
        /\ \A p \in PageIDs : p \in Nat
    BY DEF IInv, StoreTyped, Sensible, PageIDs
  <1> HIDE DEF n
  <1>4. body.rec \in Records /\ head.rec \in Records
    BY DEF Entries
  <1>5. StoreTyped'
    <2>1. now' \in [PageIDs -> Records] /\ now'[0].last = live
      BY <1>2, <1>3, <1>4
    <2>2. now'[0].last \in 0..live
      BY <1>3, <2>1
    <2>3. data' \in [PageIDs -> Records] /\ log' \in Seq(Entries)
      BY <1>1, <1>2 DEF IInv, StoreTyped
    <2>4. live' = live /\ version' \in Nat /\ commits' \in Nat
      BY <1>1, <1>3
    <2>5. QED
      BY <1>3, <2>1, <2>2, <2>3, <2>4 DEF StoreTyped
  <1>6. \A i \in 1..n : log[i].ver \in Nat /\ log[i].ver <= version /\ log[i].rec.value # Blank
    <2> SUFFICES ASSUME NEW i \in 1..n PROVE log[i].ver \in Nat /\ log[i].ver <= version
                                             /\ log[i].rec.value # Blank
      OBVIOUS
    <2>1. log[i] \in Entries
      BY <1>3, ElementOfSeq DEF n
    <2>2. QED
      BY <2>1 DEF Entries, IInv, LogOrdered, n
  <1>new. ASSUME NEW i \in 1..(n + 2), i \notin 1..n PROVE log'[i].ver = version + 1
    <2>1. n \in Nat
      BY DEF n, IInv, StoreTyped
    <2>2. i = n + 1 \/ i = n + 2
      BY <1>new, <2>1
    <2>3. QED
      BY <1>2, <2>2
  \* A version from before finds what it found.
  <1>7. ASSUME NEW p \in PageIDs, NEW v \in Nat, v <= version
        PROVE  Upto(p, v)' = Upto(p, v) /\ At(p, v)' = At(p, v)
    <2>1. Upto(p, v)' = {i \in 1..(n + 2) : log'[i].page = p /\ log'[i].ver <= v}
      BY <1>2 DEF Upto
    <2>2. Upto(p, v) = {i \in 1..n : log[i].page = p /\ log[i].ver <= v}
      BY DEF Upto, n
    <2>3. Upto(p, v)' = Upto(p, v)
      <3>1. ASSUME NEW i PROVE i \in Upto(p, v)' <=> i \in Upto(p, v)
        <4>1. CASE i \in 1..n
          BY <1>2, <2>1, <2>2, <4>1
        <4>2. CASE i \notin 1..n
          <5>1. i \in 1..(n + 2) => log'[i].ver = version + 1
            BY <1>new, <4>2
          <5>2. ~(version + 1 <= v)
            BY <1>3, <1>7
          <5>3. QED
            BY <2>1, <2>2, <4>2, <5>1, <5>2
        <4>3. QED
          BY <4>1, <4>2
      <3>2. QED
        BY <3>1
    <2>4. CASE Upto(p, v) # {}
      <3>1. Max(Upto(p, v)) \in 1..n
        BY <2>4, NewestIn DEF Upto, n
      <3>2. log'[Max(Upto(p, v))] = log[Max(Upto(p, v))]
        BY <1>2, <3>1
      <3>3. QED
        BY <2>3, <2>4, <3>2 DEF At
    <2>5. CASE Upto(p, v) = {}
      BY <1>1, <2>3, <2>5 DEF At, Emptied
    <2>6. QED
      BY <2>3, <2>4, <2>5
  \* The new version, and any after it, finds the two new records too.
  <1>8. ASSUME NEW p \in PageIDs, NEW v \in Nat, v > version
        PROVE  Upto(p, v)' = Upto(p, version)
                               \cup (IF p = q THEN {n + 1} ELSE IF p = 0 THEN {n + 2} ELSE {})
    <2>1. Upto(p, v)' = {i \in 1..(n + 2) : log'[i].page = p /\ log'[i].ver <= v}
      BY <1>2 DEF Upto
    <2>2. Upto(p, version) = {i \in 1..n : log[i].page = p /\ log[i].ver <= version}
      BY DEF Upto, n
    <2>3. Upto(p, version) = {i \in 1..n : log[i].page = p}
      BY <1>6, <2>2
    <2>4. Upto(p, v)' = {i \in 1..(n + 2) : log'[i].page = p}
      <3>1. \A i \in 1..(n + 2) : log'[i].ver <= v
        <4> SUFFICES ASSUME NEW i \in 1..(n + 2) PROVE log'[i].ver <= v
          OBVIOUS
        <4>1. CASE i \in 1..n
          <5>1. log'[i].ver = log[i].ver /\ log[i].ver \in Nat /\ log[i].ver <= version
            BY <1>2, <1>6, <4>1
          <5>2. QED
            BY <1>3, <1>8, <5>1
        <4>2. CASE i \notin 1..n
          <5>1. log'[i].ver = version + 1
            BY <1>new, <4>2
          <5>2. QED
            BY <1>3, <1>8, <5>1
        <4>3. QED
          BY <4>1, <4>2
      <3>2. QED
        BY <2>1, <3>1
    <2>5. ASSUME NEW i
          PROVE  i \in Upto(p, v)' <=>
                   i \in Upto(p, version) \/ (i = n + 1 /\ p = q) \/ (i = n + 2 /\ p = 0)
      <3>1. CASE i \in 1..n
        BY <1>2, <2>3, <2>4, <3>1
      <3>2. CASE i \notin 1..n
        <4>1. i \in 1..(n + 2) <=> i = n + 1 \/ i = n + 2
          BY <1>2, <3>2
        <4>2. i \notin Upto(p, version)
          BY <2>3, <3>2
        <4>3. QED
          BY <1>2, <2>4, <4>1, <4>2
      <3>3. QED
        BY <3>1, <3>2
    <2>6. QED
      BY <1>2, <2>5
  <1>9. ASSUME NEW p \in PageIDs, NEW v \in Nat, v > version
        PROVE  /\ Upto(p, v)' # {} => \E m \in Upto(p, v)' : Greatest(Upto(p, v)', m)
               /\ At(p, v)' = now'[p]
    <2>1. Upto(p, version) \in SUBSET (1..n)
      BY DEF Upto, n
    <2>2. CASE p = q
      <3>1. Upto(p, v)' = Upto(p, version) \cup {n + 1}
        BY <1>8, <1>9, <2>2
      <3>2. Greatest(Upto(p, v)', n + 1)
        BY <1>2, <2>1, <3>1 DEF Greatest
      <3>3. Max(Upto(p, v)') = n + 1
        <4>1. Upto(p, v)' \in SUBSET Nat
          BY <1>2, <2>1, <3>1
        <4>2. QED
          BY <3>2, <4>1, MaxIs
      <3>4. At(p, v)' = log'[n + 1].rec
        BY <3>1, <3>3 DEF At
      <3>5. now'[p] = body.rec
        BY <1>2, <1>3, <2>2
      <3>6. QED
        BY <1>2, <3>1, <3>2, <3>4, <3>5
    <2>3. CASE p = 0
      <3>1. Upto(p, v)' = Upto(p, version) \cup {n + 2}
        BY <1>2, <1>8, <1>9, <2>3
      <3>2. Greatest(Upto(p, v)', n + 2)
        BY <1>2, <2>1, <3>1 DEF Greatest
      <3>3. Max(Upto(p, v)') = n + 2
        <4>1. Upto(p, v)' \in SUBSET Nat
          BY <1>2, <2>1, <3>1
        <4>2. QED
          BY <3>2, <4>1, MaxIs
      <3>4. At(p, v)' = log'[n + 2].rec
        BY <3>1, <3>3 DEF At
      <3>5. now'[p] = head.rec
        BY <1>2, <1>3, <2>3
      <3>6. QED
        BY <1>2, <3>1, <3>2, <3>4, <3>5
    <2>4. CASE p # q /\ p # 0
      <3>1. Upto(p, v)' = Upto(p, version)
        BY <1>8, <1>9, <2>4
      <3>3. now'[p] = now[p]
        BY <1>2, <1>3, <2>4
      <3>4. At(p, v)' = At(p, version)
        <4>1. CASE Upto(p, version) # {}
          <5>1. Max(Upto(p, version)) \in 1..n
            BY <1>3, <4>1, NewestIn DEF Upto, n
          <5>2. log'[Max(Upto(p, version))] = log[Max(Upto(p, version))]
            BY <1>2, <5>1
          <5>3. QED
            BY <3>1, <4>1, <5>2 DEF At
        <4>2. CASE Upto(p, version) = {}
          BY <1>1, <3>1, <4>2 DEF At, Emptied
        <4>3. QED
          BY <4>1, <4>2
      <3>5. Upto(p, v)' # {} => \E m \in Upto(p, v)' : Greatest(Upto(p, v)', m)
        BY <1>3, <3>1 DEF IInv, LogOrdered
      <3>6. QED
        BY <3>3, <3>4, <3>5 DEF IInv, NowIsThere
    <2>5. QED
      BY <2>2, <2>3, <2>4
  <1>10. LogOrdered'
    <2>1. ASSUME NEW p \in PageIDs, NEW v \in Nat, Upto(p, v)' # {}
          PROVE  \E m \in Upto(p, v)' : Greatest(Upto(p, v)', m)
      <3>1. CASE v <= version
        BY <1>7, <2>1, <3>1 DEF IInv, LogOrdered
      <3>2. CASE v > version
        BY <1>9, <2>1, <3>2
      <3>3. QED
        BY <1>3, <3>1, <3>2
    <2>2. ASSUME NEW i \in 1..Len(log')
          PROVE  log'[i].ver <= version' /\ log'[i].rec.value # Blank
      <3>1. CASE i \in 1..n
        BY <1>1, <1>2, <1>3, <1>6, <3>1
      <3>2. CASE i = n + 1 \/ i = n + 2
        BY <1>1, <1>2, <1>3, <3>2 DEF Blank
      <3>3. QED
        BY <1>2, <2>2, <3>1, <3>2
    <2>3. QED
      BY <2>1, <2>2 DEF LogOrdered, Greatest
  <1>11. NowIsThere'
    BY <1>1, <1>3, <1>9 DEF NowIsThere
  <1>12. Copying'
    <2>1. ASSUME NEW b \in Backups, pc[b] = "read", NEW p \in PageIDs
          PROVE  At(p, fixed[b])' = At(p, fixed[b])
      <3>1. fixed[b] \in Nat /\ fixed[b] <= version /\ fixed' = fixed
        BY <1>1, <2>1 DEF IInv, Copying
      <3>2. At(p, fixed[b])' = [v \in Nat |-> At(p, v)'][fixed[b]]
        BY <1>1, <3>1 DEF At, Upto
      <3>3. QED
        BY <1>7, <3>1, <3>2
    <2>2. ASSUME NEW b \in Backups, pc'[b] = "read"
          PROVE  /\ fixed'[b] <= version'
                 /\ \A p \in PageIDs : At(p, fixed[b])' = snap'[b][p]
                 /\ next'[b] <= snap'[b][0].last
                 /\ Len(copy'[b]) = next'[b]
                 /\ \A i \in 1..next'[b] : copy'[b][i] = snap'[b][i - 1]
      <3>1. pc[b] = "read" /\ fixed[b] \in Nat /\ fixed[b] <= version
        BY <1>1, <2>2 DEF IInv, Copying
      <3>2. fixed'[b] <= version'
        BY <1>1, <1>3, <3>1
      <3>3. \A p \in PageIDs : At(p, fixed[b])' = snap'[b][p]
        BY <1>1, <2>1, <3>1 DEF IInv, Copying
      <3>4. QED
        BY <1>1, <3>1, <3>2, <3>3 DEF IInv, Copying
    <2>3. \A b \in Backups : pc'[b] \in {"stat", "gate", "version"} => next'[b] = 0 /\ copy'[b] = <<>>
      BY <1>1 DEF IInv, Copying
    <2>4. /\ next' \in [Backups -> Nat] /\ fixed' \in [Backups -> Nat]
          /\ snap' \in [Backups -> [PageIDs -> Records]]
          /\ copy' \in [Backups -> Seq(Records)] /\ DOMAIN pc' = Backups
          /\ \A b \in Backups : snap'[b][0].last \in PageIDs
      BY <1>1 DEF IInv, Copying
    <2>5. QED
      BY <2>2, <2>3, <2>4 DEF Copying
  <1>13. BackupIsOneVersion' /\ Placing'
    BY <1>1 DEF IInv, BackupIsOneVersion, Placing
  <1>14. QED
    BY <1>5, <1>10, <1>11, <1>12, <1>13 DEF IInv

\* The newest records move to the data file, and nobody is reading.
LEMMA CheckpointStep ==
  ASSUME Sensible, IInv, Checkpoint
  PROVE  IInv'
  <1>1. /\ log' = <<>> /\ version' = 0 /\ \A b \in Backups : pc[b] # "read"
        /\ UNCHANGED <<live, commits, now, pc, next, copy, fixed, snap, target>>
    BY DEF Checkpoint, Inside, copyVars
  <1>2. version \in Nat /\ data \in [PageIDs -> Records] /\ log \in Seq(Entries)
    BY DEF IInv, StoreTyped
  <1>3. \A p \in PageIDs : Upto(p, version) = {i \in 1..Len(log) : log[i].page = p}
    BY DEF IInv, LogOrdered, Upto
  <1>4. data' = [p \in PageIDs |-> IF Upto(p, version) = {} THEN data[p]
                                   ELSE log[Max(Upto(p, version))].rec]
    BY <1>3 DEF Checkpoint
  <1>5. ASSUME NEW p \in PageIDs
        PROVE  data'[p] \in Records /\ Emptied(data'[p]) = now[p]
    <2>1. CASE Upto(p, version) = {}
      <3>1. data'[p] = data[p] /\ Emptied(data[p]) = At(p, version)
        BY <1>4, <2>1 DEF At
      <3>2. QED
        BY <1>2, <3>1 DEF IInv, NowIsThere
    <2>2. CASE Upto(p, version) # {}
      <3>1. data'[p] = log[Max(Upto(p, version))].rec /\ data'[p] = At(p, version)
        BY <1>4, <2>2 DEF At
      <3>2. Max(Upto(p, version)) \in 1..Len(log)
        BY <1>2, <2>2, NewestIn DEF Upto
      <3>3. data'[p].value # Blank
        BY <3>1, <3>2 DEF IInv, LogOrdered
      <3>4. Emptied(data'[p]) = At(p, version)
        BY <3>1, <3>3 DEF Emptied
      <3>5. QED
        BY <1>2, <3>1, <3>4, AtTyped DEF IInv, NowIsThere
    <2>3. QED
      BY <2>1, <2>2
  <1>6. Len(log') = 0 /\ log' \in Seq(Entries)
    BY <1>1
  <1>7. \A p, v : Upto(p, v)' = {}
    BY <1>6 DEF Upto
  <1>8. StoreTyped'
    <2>1. data' \in [PageIDs -> Records]
      BY <1>4, <1>5
    <2>2. QED
      BY <1>1, <1>6, <2>1 DEF IInv, StoreTyped
  <1>9. LogOrdered'
    BY <1>6, <1>7 DEF LogOrdered
  <1>10. NowIsThere'
    <2> SUFFICES ASSUME NEW p \in PageIDs PROVE At(p, version)' = now'[p]
      BY DEF NowIsThere
    <2>1. Upto(p, version)' = {}
      BY <1>6 DEF Upto
    <2>2. At(p, version)' = Emptied(data'[p])
      BY <2>1 DEF At, Emptied
    <2>3. QED
      BY <1>1, <1>5, <2>2
  <1>11. Copying'
    BY <1>1 DEF IInv, Copying
  <1>12. BackupIsOneVersion' /\ Placing'
    BY <1>1 DEF IInv, BackupIsOneVersion, Placing
  <1>13. QED
    BY <1>8, <1>9, <1>10, <1>11, <1>12 DEF IInv

-----------------------------------------------------------------------------
(* Steps of a backup.                                                      *)

\* They leave the store alone, and what they do not change of a backup too.
LEMMA StoreStays ==
  ASSUME IInv, UNCHANGED storeVars
  PROVE  /\ StoreTyped' /\ LogOrdered' /\ NowIsThere'
         /\ \A p \in PageIDs, v \in Nat : At(p, v)' = At(p, v)
  <1>1. UNCHANGED <<log, data, live, version, commits, now>>
    BY DEF storeVars
  <1>2. \A p, v : Upto(p, v)' = Upto(p, v) /\ At(p, v)' = At(p, v)
    BY <1>1 DEF Upto, At, Emptied
  <1>3. StoreTyped'
    BY <1>1 DEF IInv, StoreTyped
  <1>4. LogOrdered' /\ NowIsThere'
    BY <1>1, <1>2 DEF IInv, LogOrdered, NowIsThere, Greatest
  <1>5. QED
    BY <1>2, <1>3, <1>4

\* One backup goes from one place to another with its copy as it is: neither
\* into reading nor to a finished copy it did not have.
LEMMA Moves ==
  ASSUME IInv, UNCHANGED <<storeVars, copyVars>>, NEW b \in Backups, NEW at, Goto(b, at),
         at \notin {"stat", "read"},
         at \in {"gate", "version"} => pc[b] \in {"stat", "gate", "version"},
         at \in {"sync", "place", "rename", "done"} => pc[b] \in {"sync", "place", "rename", "done"}
  PROVE  StoreTyped' /\ LogOrdered' /\ NowIsThere' /\ Copying' /\ BackupIsOneVersion'
  <1>1. UNCHANGED <<log, data, live, version, commits, now, next, copy, fixed, snap>>
    BY DEF storeVars, copyVars
  <1>2. /\ pc'[b] = at /\ DOMAIN pc' = Backups
        /\ \A c \in Backups : c # b => pc'[c] = pc[c]
    BY DEF Goto, IInv, Copying
  <1>3. /\ StoreTyped' /\ LogOrdered' /\ NowIsThere'
        /\ \A p \in PageIDs, v \in Nat : At(p, v)' = At(p, v)
    BY StoreStays
  <1>4. Copying'
    <2>1. ASSUME NEW c \in Backups, pc'[c] = "read"
          PROVE  /\ fixed[c] <= version
                 /\ \A p \in PageIDs : At(p, fixed[c])' = snap[c][p]
                 /\ next[c] <= snap[c][0].last
                 /\ Len(copy[c]) = next[c]
                 /\ \A i \in 1..next[c] : copy[c][i] = snap[c][i - 1]
      <3>1. pc[c] = "read" /\ fixed[c] \in Nat
        BY <1>2, <2>1 DEF IInv, Copying
      <3>2. \A p \in PageIDs : At(p, fixed[c])' = At(p, fixed[c])
        BY <1>1 DEF At, Upto, Emptied
      <3>3. QED
        BY <3>1, <3>2 DEF IInv, Copying
    <2>2. \A c \in Backups : pc'[c] \in {"stat", "gate", "version"} => next[c] = 0 /\ copy[c] = <<>>
      BY <1>2 DEF IInv, Copying
    <2>3. QED
      BY <1>1, <1>2, <2>1, <2>2 DEF IInv, Copying
  <1>5. BackupIsOneVersion'
    BY <1>1, <1>2 DEF IInv, BackupIsOneVersion
  <1>6. QED
    BY <1>3, <1>4, <1>5

LEMMA SimpleStep ==
  ASSUME Sensible, IInv, NEW b \in Backups,
         Stat(b) \/ EnterShared(b) \/ Fail(b) \/ Sync(b) \/ Place(b) \/ Rename(b)
  PROVE  IInv'
  <1>1. UNCHANGED <<storeVars, copyVars>>
    BY DEF Stat, EnterShared, Fail, Sync, Place, Rename
  <1>2. PICK at \in {"gate", "version", "failed", "place", "done", "rename"} :
          /\ Goto(b, at)
          /\ at \in {"gate", "version"} => pc[b] \in {"stat", "gate", "version"}
          /\ at \in {"place", "rename", "done"} => pc[b] \in {"sync", "place", "rename", "done"}
    BY DEF Stat, EnterShared, Fail, Sync, Place, Rename
  <1>3. StoreTyped' /\ LogOrdered' /\ NowIsThere' /\ Copying' /\ BackupIsOneVersion'
    BY <1>1, <1>2, Moves
  <1>4. /\ pc'[b] = at
        /\ \A c \in Backups : c # b => pc'[c] = pc[c]
    BY <1>2 DEF Goto, IInv, Copying
  <1>5. Placing'
    <2>1. CASE Stat(b) \/ EnterShared(b) \/ Fail(b) \/ Sync(b)
      <3>1. target' = target /\ at \notin {"rename", "done"} /\ pc[b] # "done"
        BY <1>2, <1>4, <2>1 DEF Stat, EnterShared, Fail, Sync, Goto, IInv, Copying
      <3>2. QED
        BY <1>4, <3>1 DEF IInv, Placing
    <2>2. CASE Place(b)
      <3>1. pc[b] = "place"
        BY <2>2 DEF Place
      <3>2. CASE target = "none" /\ HardLinks
        <4>1. target' = b /\ at = "done"
          BY <1>4, <2>2, <3>2 DEF Place, Free, Goto, IInv, Copying
        <4>2. \A c \in Backups : pc[c] # "done"
          BY <3>2 DEF IInv, Placing
        <4>3. QED
          BY <1>4, <3>2, <4>1, <4>2 DEF IInv, Placing, Sensible
      <3>3. CASE ~(target = "none" /\ HardLinks)
        <4>1. target' = target /\ at # "done" /\ (HardLinks => at # "rename")
          BY <1>4, <2>2, <3>3 DEF Place, Free, Goto, IInv, Copying
        <4>2. QED
          BY <1>4, <3>1, <4>1 DEF IInv, Placing
      <3>4. QED
        BY <3>2, <3>3
    <2>3. CASE Rename(b)
      <3>1. pc[b] = "rename" /\ target' = b /\ at = "done"
        BY <1>4, <2>3 DEF Rename, Goto, IInv, Copying
      <3>2. ~HardLinks
        BY <3>1 DEF IInv, Placing
      <3>3. QED
        BY <1>4, <3>1, <3>2 DEF IInv, Placing, Sensible
    <2>4. QED
      BY <2>1, <2>2, <2>3
  <1>6. QED
    BY <1>3, <1>5 DEF IInv

\* The moment of the backup: what is committed now is what it will find.
LEMMA FixStep ==
  ASSUME Sensible, IInv, NEW b \in Backups, FixVersion(b)
  PROVE  IInv'
  <1>1. /\ pc[b] = "version" /\ pc' = [pc EXCEPT ![b] = "read"]
        /\ fixed' = [fixed EXCEPT ![b] = version] /\ snap' = [snap EXCEPT ![b] = now]
        /\ UNCHANGED <<storeVars, next, copy, target>>
    BY DEF FixVersion, Fixed, Goto
  <1>2. /\ StoreTyped' /\ LogOrdered' /\ NowIsThere'
        /\ \A p \in PageIDs, v \in Nat : At(p, v)' = At(p, v)
    BY <1>1, StoreStays
  <1>3. /\ version \in Nat /\ now \in [PageIDs -> Records] /\ now[0].last \in PageIDs
        /\ now[0].last \in Nat /\ version' = version
    BY <1>1 DEF IInv, StoreTyped, storeVars, Sensible, PageIDs
  <1>4. /\ DOMAIN pc' = Backups /\ pc'[b] = "read" /\ fixed'[b] = version /\ snap'[b] = now
        /\ \A c \in Backups : c # b => pc'[c] = pc[c] /\ fixed'[c] = fixed[c] /\ snap'[c] = snap[c]
        /\ fixed' \in [Backups -> Nat] /\ snap' \in [Backups -> [PageIDs -> Records]]
    BY <1>1, <1>3 DEF IInv, Copying
  <1>5. ASSUME NEW c \in Backups, pc'[c] = "read"
        PROVE  /\ fixed'[c] <= version'
               /\ \A p \in PageIDs : At(p, fixed[c])' = snap'[c][p]
               /\ next'[c] <= snap'[c][0].last
               /\ Len(copy'[c]) = next'[c]
               /\ \A i \in 1..next'[c] : copy'[c][i] = snap'[c][i - 1]
    <2>1. fixed'[c] \in Nat
      BY <1>4
    <2>2. \A p \in PageIDs : At(p, fixed[c])' = At(p, fixed'[c])
      BY <1>1 DEF At, Upto, Emptied, storeVars
    <2>3. CASE c = b
      <3>1. next[b] = 0 /\ copy[b] = <<>>
        BY <1>1 DEF IInv, Copying
      <3>2. \A p \in PageIDs : At(p, fixed[c])' = snap'[c][p]
        BY <1>4, <2>2, <2>3 DEF IInv, NowIsThere
      <3>3. QED
        BY <1>1, <1>3, <1>4, <2>3, <3>1, <3>2
    <2>4. CASE c # b
      <3>1. pc[c] = "read" /\ fixed'[c] = fixed[c] /\ snap'[c] = snap[c]
        BY <1>4, <1>5, <2>4
      <3>2. QED
        BY <1>1, <1>3, <2>2, <3>1 DEF IInv, Copying
    <2>5. QED
      BY <2>3, <2>4
  <1>6. Copying'
    <2>1. \A c \in Backups : pc'[c] \in {"stat", "gate", "version"} => next'[c] = 0 /\ copy'[c] = <<>>
      BY <1>1, <1>4 DEF IInv, Copying
    <2>2. \A c \in Backups : snap'[c][0].last \in PageIDs
      BY <1>3, <1>4 DEF IInv, Copying
    <2>3. QED
      BY <1>1, <1>4, <1>5, <2>1, <2>2 DEF IInv, Copying
  <1>7. BackupIsOneVersion'
    <2> SUFFICES ASSUME NEW c \in Backups, pc'[c] \in {"sync", "place", "rename", "done"}
                 PROVE  /\ Len(copy'[c]) = snap'[c][0].last + 1
                        /\ \A p \in 0..snap'[c][0].last : copy'[c][p + 1] = snap'[c][p]
      BY DEF BackupIsOneVersion
    <2>1. c # b
      BY <1>4
    <2>2. QED
      BY <1>1, <1>4, <2>1 DEF IInv, BackupIsOneVersion
  <1>8. Placing'
    BY <1>1, <1>4 DEF IInv, Placing
  <1>9. QED
    BY <1>2, <1>6, <1>7, <1>8 DEF IInv

\* One more page; the first page of the copy says which is the last.
LEMMA ReadStep ==
  ASSUME Sensible, IInv, NEW b \in Backups, ReadPage(b)
  PROVE  IInv'
  <1> DEFINE last == snap[b][0].last
             page == At(next[b], fixed[b])
             at == IF next[b] = copy'[b][1].last THEN "sync" ELSE "read"
  <1>1. /\ pc[b] = "read" /\ pc' = [pc EXCEPT ![b] = at]
        /\ copy' = [copy EXCEPT ![b] = Append(@, page)]
        /\ next' = [next EXCEPT ![b] = @ + 1]
        /\ UNCHANGED <<storeVars, fixed, snap, target>>
    BY backupPageIsAt DEF ReadPage, Goto
  <1>2. /\ StoreTyped' /\ LogOrdered' /\ NowIsThere'
        /\ \A p \in PageIDs, v \in Nat : At(p, v)' = At(p, v)
    BY <1>1, StoreStays
  <1>3. /\ next[b] \in Nat /\ last \in Nat /\ last \in PageIDs /\ next[b] <= last
        /\ copy[b] \in Seq(Records) /\ Len(copy[b]) = next[b] /\ fixed[b] \in Nat
        /\ \A i \in 1..next[b] : copy[b][i] = snap[b][i - 1]
    BY <1>1 DEF IInv, Copying, Sensible, PageIDs
  <1>4. next[b] \in PageIDs
    BY <1>3 DEF Sensible, PageIDs
  <1>5. page \in Records /\ page = snap[b][next[b]]
    BY <1>1, <1>3, <1>4, AtTyped DEF IInv, Copying
  <1> HIDE DEF page, at, last
  <1>6. /\ copy'[b] = Append(copy[b], page) /\ next'[b] = next[b] + 1 /\ pc'[b] = at
        /\ \A c \in Backups : c # b => copy'[c] = copy[c] /\ next'[c] = next[c] /\ pc'[c] = pc[c]
        /\ DOMAIN pc' = Backups /\ next' \in [Backups -> Nat]
        /\ copy' \in [Backups -> Seq(Records)]
    BY <1>1, <1>3, <1>5 DEF IInv, Copying
  <1>7. /\ Len(copy'[b]) = next[b] + 1
        /\ \A i \in 1..(next[b] + 1) : copy'[b][i] = snap[b][i - 1]
    <2>1. /\ Len(Append(copy[b], page)) = next[b] + 1
          /\ \A i \in 1..next[b] : Append(copy[b], page)[i] = copy[b][i]
          /\ Append(copy[b], page)[next[b] + 1] = page
      BY <1>3, <1>5
    <2>2. \A i \in 1..(next[b] + 1) : i \in 1..next[b] \/ (i = next[b] + 1 /\ i - 1 = next[b])
      BY <1>3
    <2>3. QED
      BY <1>3, <1>5, <1>6, <2>1, <2>2
  <1>8. copy'[b][1].last = last
    BY <1>3, <1>7 DEF last
  <1>9. ASSUME NEW c \in Backups, pc'[c] = "read"
        PROVE  /\ fixed'[c] <= version'
               /\ \A p \in PageIDs : At(p, fixed[c])' = snap'[c][p]
               /\ next'[c] <= snap'[c][0].last
               /\ Len(copy'[c]) = next'[c]
               /\ \A i \in 1..next'[c] : copy'[c][i] = snap'[c][i - 1]
    <2>1. pc[c] = "read"
      BY <1>1, <1>6, <1>9
    <2>2. /\ fixed[c] <= version
          /\ \A p \in PageIDs : At(p, fixed[c]) = snap[c][p]
      BY <2>1 DEF IInv, Copying
    <2>3. /\ fixed'[c] <= version'
          /\ \A p \in PageIDs : At(p, fixed[c])' = snap'[c][p]
      BY <1>1, <2>2 DEF At, Upto, Emptied, storeVars
    <2>4. CASE c = b
      <3>1. next[b] # last
        BY <1>6, <1>8, <1>9, <2>4 DEF at
      <3>2. next[b] + 1 <= last
        BY <1>3, <3>1
      <3>3. next'[c] = next[b] + 1 /\ snap'[c] = snap[b] /\ next'[c] <= snap'[c][0].last
        BY <1>1, <1>6, <2>4, <3>2 DEF last
      <3>4. QED
        BY <1>7, <2>3, <2>4, <3>3
    <2>5. CASE c # b
      BY <1>1, <1>6, <2>1, <2>3, <2>5 DEF IInv, Copying
    <2>6. QED
      BY <2>4, <2>5
  <1>10. Copying'
    <2>1. \A c \in Backups : pc'[c] \in {"stat", "gate", "version"} => next'[c] = 0 /\ copy'[c] = <<>>
      <3>1. pc'[b] \notin {"stat", "gate", "version"}
        BY <1>6 DEF at
      <3>2. QED
        BY <1>6, <3>1 DEF IInv, Copying
    <2>2. /\ fixed' \in [Backups -> Nat] /\ snap' \in [Backups -> [PageIDs -> Records]]
          /\ \A c \in Backups : snap'[c][0].last \in PageIDs
      BY <1>1 DEF IInv, Copying
    <2>3. QED
      BY <1>6, <1>9, <2>1, <2>2 DEF Copying
  <1>11. BackupIsOneVersion'
    <2> SUFFICES ASSUME NEW c \in Backups, pc'[c] \in {"sync", "place", "rename", "done"}
                 PROVE  /\ Len(copy'[c]) = snap'[c][0].last + 1
                        /\ \A p \in 0..snap'[c][0].last : copy'[c][p + 1] = snap'[c][p]
      BY DEF BackupIsOneVersion
    <2>1. CASE c = b
      <3>1. next[b] = last
        BY <1>6, <1>8, <2>1 DEF at
      <3>2. Len(copy'[b]) = last + 1
        BY <1>7, <3>1
      <3>3. \A p \in 0..last : p + 1 \in 1..(next[b] + 1) /\ (p + 1) - 1 = p
        BY <1>3, <3>1
      <3>4. \A p \in 0..last : copy'[b][p + 1] = snap[b][p]
        BY <1>7, <3>3
      <3>5. QED
        BY <1>1, <2>1, <3>2, <3>4 DEF last
    <2>2. CASE c # b
      BY <1>1, <1>6, <2>2 DEF IInv, BackupIsOneVersion
    <2>3. QED
      BY <2>1, <2>2
  <1>12. Placing'
    <2>1. pc'[b] \notin {"done", "rename"}
      BY <1>6 DEF at
    <2>2. QED
      BY <1>1, <1>6, <2>1 DEF IInv, Placing
  <1>13. QED
    BY <1>2, <1>10, <1>11, <1>12 DEF IInv

-----------------------------------------------------------------------------
LEMMA Inductive == Sensible /\ IInv /\ [Next]_vars => IInv'
  <1> SUFFICES ASSUME Sensible, IInv, [Next]_vars PROVE IInv'
    OBVIOUS
  <1>1. CASE Extend \/ Commit \/ Checkpoint
    BY <1>1, ExtendStep, CommitStep, CheckpointStep
  <1>2. ASSUME NEW b \in Backups,
               Stat(b) \/ EnterShared(b) \/ Fail(b) \/ Sync(b) \/ Place(b) \/ Rename(b)
        PROVE  IInv'
    BY <1>2, SimpleStep
  <1>3. ASSUME NEW b \in Backups, FixVersion(b) PROVE IInv'
    BY <1>3, FixStep
  <1>4. ASSUME NEW b \in Backups, ReadPage(b) PROVE IInv'
    BY <1>4, ReadStep
  <1>5. CASE UNCHANGED vars
    <2>1. UNCHANGED <<storeVars, pc, next, copy, fixed, snap, target>>
      BY <1>5 DEF vars, copyVars
    <2>2. /\ StoreTyped' /\ LogOrdered' /\ NowIsThere'
          /\ \A p, v : At(p, v)' = At(p, v)
      BY <2>1, StoreStays DEF At, Upto, Emptied, storeVars
    <2>3. Copying'
      BY <2>1, <2>2 DEF IInv, Copying, storeVars
    <2>4. BackupIsOneVersion' /\ Placing'
      BY <2>1 DEF IInv, BackupIsOneVersion, Placing
    <2>5. QED
      BY <2>2, <2>3, <2>4 DEF IInv
  <1>6. QED
    BY <1>1, <1>2, <1>3, <1>4, <1>5 DEF Next

\* The log, the data file and every copy agree in every reachable state.
THEOREM Invariant == ASSUME Sensible PROVE Spec => []IInv
  BY Initially, Inductive, PTL DEF Spec

\* backup.go: the copy of a backup is the database as it was committed when
\* the version was fixed, page for page, whatever transactions extend, commit
\* or checkpoint meanwhile.
THEOREM CopyIsOneVersion == ASSUME Sensible PROVE Spec => []BackupIsOneVersion
  <1>1. IInv => BackupIsOneVersion
    BY DEF IInv
  <1>2. QED
    BY <1>1, Invariant, PTL

\* placeBackup: what is at the path is a complete copy, and with hard links
\* one backup at most has put its copy there.
THEOREM PathIsTakenOnce == ASSUME Sensible PROVE Spec => []PlacedOnce
  <1>1. ASSUME IInv PROVE PlacedOnce
    <2> DEFINE D == {b \in Backups : pc[b] = "done"}
    <2>1. ASSUME HardLinks PROVE Cardinality(D) <= 1
      <3>1. D = {} \/ D = {target}
        BY <1>1, <2>1 DEF IInv, Placing
      <3>2. Cardinality({}) = 0 /\ Cardinality({target}) = 1
        BY FS_EmptySet, FS_Singleton
      <3> HIDE DEF D
      <3>3. QED
        BY <3>1, <3>2
    <2>2. target # "none" => pc[target] = "done"
      BY <1>1 DEF IInv, Placing
    <2>3. QED
      BY <2>1, <2>2 DEF PlacedOnce
  <1>2. QED
    BY <1>1, Invariant, PTL

-----------------------------------------------------------------------------
(* The page cache, which backups and snapshots read through (PageCache):   *)
(* it serves what was committed last, and the map and the ring of a shard  *)
(* stay in step, for any number of pages, commits and failing checkpoints  *)
(* and any capacity.                                                       *)

CONSTANTS Paged, Capacity, MaxPuts, MaxFaults
VARIABLES records, file, index, items, ring, hand, puts, faults
Cache == INSTANCE PageCache WITH PageIDs <- Paged, MaxCommits <- MaxPuts,
                                 log <- records, data <- file, commits <- puts


\* What is in the files.
FilesTyped ==
  /\ records \in Seq([page : Paged, value : Nat])
  /\ file \in [Paged -> Nat]
  /\ index \in [Paged -> Nat]
  /\ puts \in Nat
  /\ \A p \in Paged : index[p] <= Len(records)

\* An entry of the log is there only for a position the log has now, used by
\* the index or not.  That is what makes positions safe to use again: what
\* Commit puts at a new position finds no entry in its way.
LogEntriesTrue ==
  \A i \in Nat : Cache!Holds(Cache!LogKey(i)) => i \in 1..Len(records) /\ items[Cache!LogKey(i)] = records[i].value

\* An entry of the data file may be out of date only while the log has a
\* newer version of the page.
DataEntriesTrue ==
  \A p \in Paged : index[p] = 0 /\ Cache!Holds(Cache!DataKey(p)) => items[Cache!DataKey(p)] = file[p]

CacheIInv == FilesTyped /\ LogEntriesTrue /\ DataEntriesTrue

\* The keys of the two files differ, and so do those of two positions.
LEMMA KeysApart ==
  ASSUME NEW i, NEW j
  PROVE  /\ Cache!LogKey(i) # Cache!DataKey(j)
         /\ Cache!LogKey(i) = Cache!LogKey(j) => i = j
         /\ Cache!DataKey(i) = Cache!DataKey(j) => i = j
  BY DEF Cache!LogKey, Cache!DataKey

\* Whatever Get and Put do to the ring, an entry that is there afterwards was
\* there before, with the same content, or is the one that was put.
LEMMA PutAddsOne ==
  ASSUME NEW k, NEW v, Cache!Put(k, v) \/ Cache!Get(k)
  PROVE  \A x \in DOMAIN items' :
           \/ x \in DOMAIN items /\ items'[x] = items[x]
           \/ ~Cache!Holds(k) /\ x = k /\ items'[x] = v
  <1>1. CASE Cache!Get(k)
    BY <1>1 DEF Cache!Get
  <1>2. CASE Cache!Put(k, v) /\ ~Cache!Holds(k)
    <2>1. PICK D \in SUBSET DOMAIN items :
            items' = [x \in D \union {k} |-> IF x = k THEN v ELSE items[x]]
      <3>1. CASE Len(ring) < Capacity
        BY <1>2, <3>1 DEF Cache!Put
      <3>2. CASE ~(Len(ring) < Capacity)
        <4>1. items' = [x \in (DOMAIN items \ {ring[Cache!Victim].key}) \union {k} |->
                          IF x = k THEN v ELSE [y \in DOMAIN items \ {ring[Cache!Victim].key} |-> items[y]][x]]
          BY <1>2, <3>2 DEF Cache!Put
        <4>2. items' = [x \in (DOMAIN items \ {ring[Cache!Victim].key}) \union {k} |->
                          IF x = k THEN v ELSE items[x]]
          BY <4>1
        <4>3. QED
          BY <4>2
      <3>3. QED
        BY <3>1, <3>2
    <2>2. QED
      BY <1>2, <2>1
  <1>3. CASE Cache!Put(k, v) /\ Cache!Holds(k)
    BY <1>3 DEF Cache!Put, Cache!Get
  <1>4. QED
    BY <1>1, <1>2, <1>3

-----------------------------------------------------------------------------

LEMMA CacheInitially == Cache!Init => CacheIInv
  BY DEF Cache!Init, CacheIInv, FilesTyped, LogEntriesTrue, DataEntriesTrue, Cache!Holds

LEMMA CacheReadStep ==
  ASSUME CacheIInv, NEW p \in Paged, Cache!Read(p)
  PROVE  CacheIInv'
  <1>1. UNCHANGED <<records, file, index, puts>>
    BY DEF Cache!Read, Cache!fileVars
  <1>2. FilesTyped'
    BY <1>1 DEF CacheIInv, FilesTyped
  <1> DEFINE k == IF index[p] # 0 THEN Cache!LogKey(index[p]) ELSE Cache!DataKey(p)
             v == IF index[p] # 0 THEN records[index[p]].value ELSE file[p]
  <1>3. Cache!Put(k, v) \/ Cache!Get(k)
    BY DEF Cache!Read
  <1> HIDE DEF k, v
  <1>4. \A x \in DOMAIN items' :
           \/ x \in DOMAIN items /\ items'[x] = items[x]
           \/ x = k /\ items'[x] = v
    BY <1>3, PutAddsOne
  <1>5. LogEntriesTrue'
    <2> SUFFICES ASSUME NEW i \in Nat, Cache!LogKey(i) \in DOMAIN items'
                 PROVE  i \in 1..Len(records) /\ items'[Cache!LogKey(i)] = records[i].value
      BY <1>1 DEF LogEntriesTrue, Cache!Holds, Cache!LogKey
    <2>1. CASE Cache!LogKey(i) \in DOMAIN items /\ items'[Cache!LogKey(i)] = items[Cache!LogKey(i)]
      BY <2>1 DEF CacheIInv, LogEntriesTrue, Cache!Holds
    <2>2. CASE Cache!LogKey(i) = k /\ items'[Cache!LogKey(i)] = v
      <3>1. index[p] # 0 /\ i = index[p]
        BY <2>2, KeysApart DEF k
      <3>2. index[p] \in 1..Len(records)
        BY <3>1 DEF CacheIInv, FilesTyped
      <3>3. QED
        BY <2>2, <3>1, <3>2 DEF v
    <2>3. QED
      BY <1>4, <2>1, <2>2
  <1>6. DataEntriesTrue'
    <2> SUFFICES ASSUME NEW q \in Paged, index[q] = 0, Cache!DataKey(q) \in DOMAIN items'
                 PROVE  items'[Cache!DataKey(q)] = file[q]
      BY <1>1 DEF DataEntriesTrue, Cache!Holds, Cache!DataKey
    <2>1. CASE Cache!DataKey(q) \in DOMAIN items /\ items'[Cache!DataKey(q)] = items[Cache!DataKey(q)]
      BY <2>1 DEF CacheIInv, DataEntriesTrue, Cache!Holds
    <2>2. CASE Cache!DataKey(q) = k /\ items'[Cache!DataKey(q)] = v
      <3>1. index[p] = 0 /\ p = q
        BY <2>2, KeysApart DEF k
      <3>2. QED
        BY <2>2, <3>1 DEF v
    <2>3. QED
      BY <1>4, <2>1, <2>2
  <1>7. QED
    BY <1>2, <1>5, <1>6 DEF CacheIInv

\* Commit and SpillAndRollBack: a record is appended, and put into the cache
\* at the position it got.
LEMMA AppendStep ==
  ASSUME CacheIInv, NEW p \in Paged, NEW v \in Nat,
         records' = Append(records, [page |-> p, value |-> v]),
         Cache!Put(Cache!LogKey(Len(records) + 1), v),
         UNCHANGED file, puts' \in Nat,
         index' = index \/ index' = [index EXCEPT ![p] = Len(records) + 1]
  PROVE  CacheIInv'
  <1> DEFINE n == Len(records) + 1
  <1>1. records \in Seq([page : Paged, value : Nat]) /\ n \in Nat /\ n # 0
    BY DEF CacheIInv, FilesTyped
  <1>2. /\ records' \in Seq([page : Paged, value : Nat])
        /\ Len(records') = n
        /\ \A i \in 1..Len(records) : records'[i] = records[i]
        /\ records'[n].value = v
    BY <1>1
  <1>3. \A x \in DOMAIN items' :
           \/ x \in DOMAIN items /\ items'[x] = items[x]
           \/ x = Cache!LogKey(n) /\ items'[x] = v
    BY PutAddsOne
  <1>4. FilesTyped'
    <2>1. index' \in [Paged -> Nat] /\ \A q \in Paged : index'[q] <= n
      <3>1. /\ index \in [Paged -> Nat] /\ Len(records) \in Nat
            /\ \A q \in Paged : index[q] <= Len(records)
        BY DEF CacheIInv, FilesTyped
      <3>2. CASE index' = index
        BY <3>1, <3>2
      <3>3. CASE index' = [index EXCEPT ![p] = n]
        <4> HIDE DEF n
        <4>1. n = Len(records) + 1
          BY DEF n
        <4>2. QED
          BY <3>1, <3>3, <4>1, <1>1
      <3>4. QED
        BY <3>2, <3>3
    <2>2. QED
      BY <1>2, <2>1 DEF CacheIInv, FilesTyped
  <1>5. LogEntriesTrue'
    <2> SUFFICES ASSUME NEW i \in Nat, Cache!LogKey(i) \in DOMAIN items'
                 PROVE  i \in 1..Len(records') /\ items'[Cache!LogKey(i)] = records'[i].value
      BY DEF LogEntriesTrue, Cache!Holds, Cache!LogKey
    <2>1. CASE Cache!LogKey(i) \in DOMAIN items /\ items'[Cache!LogKey(i)] = items[Cache!LogKey(i)]
      <3>1. i \in 1..Len(records) /\ items[Cache!LogKey(i)] = records[i].value
        BY <2>1 DEF CacheIInv, LogEntriesTrue, Cache!Holds
      <3>2. QED
        BY <1>1, <1>2, <2>1, <3>1
    <2>2. CASE Cache!LogKey(i) = Cache!LogKey(n) /\ items'[Cache!LogKey(i)] = v
      <3>1. i = n
        BY <2>2, KeysApart
      <3>2. QED
        BY <1>1, <1>2, <2>2, <3>1
    <2>3. QED
      BY <1>3, <2>1, <2>2
  <1>6. DataEntriesTrue'
    <2> SUFFICES ASSUME NEW q \in Paged, index'[q] = 0, Cache!DataKey(q) \in DOMAIN items'
                 PROVE  items'[Cache!DataKey(q)] = file[q]
      BY DEF DataEntriesTrue, Cache!Holds, Cache!DataKey
    <2>1. index[q] = 0
      BY <1>1 DEF CacheIInv, FilesTyped
    <2>2. Cache!DataKey(q) \in DOMAIN items /\ items'[Cache!DataKey(q)] = items[Cache!DataKey(q)]
      BY <1>3, KeysApart
    <2>3. QED
      BY <2>1, <2>2 DEF CacheIInv, DataEntriesTrue, Cache!Holds
  <1>7. QED
    BY <1>4, <1>5, <1>6 DEF CacheIInv

LEMMA DataAfterTyped == ASSUME CacheIInv PROVE Cache!DataAfter \in [Paged -> Nat]
  <1> SUFFICES ASSUME NEW p \in Paged, index[p] # 0
               PROVE  records[index[p]].value \in Nat
    BY DEF CacheIInv, FilesTyped, Cache!DataAfter
  <1>1. index[p] \in 1..Len(records)
    BY DEF CacheIInv, FilesTyped
  <1>2. records \in Seq([page : Paged, value : Nat])
    BY DEF CacheIInv, FilesTyped
  <1>3. records[index[p]] \in [page : Paged, value : Nat]
    BY <1>1, <1>2, ElementOfSeq
  <1>4. QED
    BY <1>3

\* All entries of the log go, and those of the pages that were moved.
LEMMA CacheCheckpointStep ==
  ASSUME CacheIInv, Cache!Checkpoint
  PROVE  CacheIInv'
  <1>1. /\ records' = <<>> /\ file' = Cache!DataAfter /\ index' = [p \in Paged |-> 0]
        /\ puts' = puts
        /\ items' = [k \in {x \in DOMAIN items : ~Cache!Drops(x, Cache!MovedPages)} |-> items[k]]
    BY DEF Cache!Checkpoint, Cache!DropLogAndData
  <1>2. FilesTyped'
    BY <1>1, DataAfterTyped DEF CacheIInv, FilesTyped
  <1>3. LogEntriesTrue'
    <2> SUFFICES ASSUME NEW i \in Nat, Cache!LogKey(i) \in DOMAIN items'
                 PROVE  FALSE
      BY DEF LogEntriesTrue, Cache!Holds, Cache!LogKey
    <2>1. Cache!Drops(Cache!LogKey(i), Cache!MovedPages)
      BY DEF Cache!Drops, Cache!LogKey
    <2>2. QED
      BY <1>1, <2>1
  <1>4. DataEntriesTrue'
    <2> SUFFICES ASSUME NEW q \in Paged, Cache!DataKey(q) \in DOMAIN items'
                 PROVE  items'[Cache!DataKey(q)] = Cache!DataAfter[q]
      BY <1>1 DEF DataEntriesTrue, Cache!Holds, Cache!DataKey
    <2>1. Cache!DataKey(q) \in DOMAIN items /\ ~Cache!Drops(Cache!DataKey(q), Cache!MovedPages)
          /\ items'[Cache!DataKey(q)] = items[Cache!DataKey(q)]
      BY <1>1
    <2>2. index[q] = 0
      BY <2>1 DEF Cache!Drops, Cache!DataKey, Cache!MovedPages
    <2>3. QED
      BY <2>1, <2>2 DEF CacheIInv, DataEntriesTrue, Cache!Holds, Cache!DataAfter
  <1>5. QED
    BY <1>2, <1>3, <1>4 DEF CacheIInv

\* Only pages the log has newer versions of change in the data file.
LEMMA CheckpointFailsStep ==
  ASSUME CacheIInv, Cache!CheckpointFails
  PROVE  CacheIInv'
  <1>1. UNCHANGED <<records, index, items, puts>> /\ file' = Cache!DataAfter
    BY DEF Cache!CheckpointFails, Cache!cacheVars
  <1>2. FilesTyped'
    BY <1>1, DataAfterTyped DEF CacheIInv, FilesTyped
  <1>3. LogEntriesTrue'
    BY <1>1 DEF CacheIInv, LogEntriesTrue, Cache!Holds, Cache!LogKey
  <1>4. DataEntriesTrue'
    BY <1>1 DEF CacheIInv, DataEntriesTrue, Cache!Holds, Cache!DataKey, Cache!DataAfter
  <1>5. QED
    BY <1>2, <1>3, <1>4 DEF CacheIInv

LEMMA CacheInductive == CacheIInv /\ [Cache!Next]_(Cache!vars) => CacheIInv'
  <1> SUFFICES ASSUME CacheIInv, [Cache!Next]_(Cache!vars) PROVE CacheIInv'
    OBVIOUS
  <1>1. ASSUME NEW p \in Paged, Cache!Read(p) PROVE CacheIInv'
    BY <1>1, CacheReadStep
  <1>2. ASSUME NEW p \in Paged, Cache!Commit(p) PROVE CacheIInv'
    <2>1. puts + 1 \in Nat
      BY DEF CacheIInv, FilesTyped
    <2>2. QED
      BY <1>2, <2>1, AppendStep DEF Cache!Commit
  <1>3. ASSUME NEW p \in Paged, Cache!SpillAndRollBack(p) PROVE CacheIInv'
    <2>1. puts + 1 \in Nat
      BY DEF CacheIInv, FilesTyped
    <2>2. QED
      BY <1>3, <2>1, AppendStep DEF Cache!SpillAndRollBack
  <1>4. CASE UNCHANGED Cache!vars
    BY <1>4 DEF Cache!vars, Cache!fileVars, Cache!cacheVars, CacheIInv, FilesTyped, LogEntriesTrue, DataEntriesTrue,
                Cache!Holds, Cache!LogKey, Cache!DataKey
  <1>5. QED
    BY <1>1, <1>2, <1>3, <1>4, CacheCheckpointStep, CheckpointFailsStep DEF Cache!Next

\* The entries of the cache are true in every reachable state.
THEOREM CacheInvariant == Cache!Spec => []CacheIInv
  BY CacheInitially, CacheInductive, PTL DEF Cache!Spec

LEMMA CacheSuffices == CacheIInv => Cache!CacheServesCommitted
  <1> SUFFICES ASSUME CacheIInv, NEW p \in Paged
               PROVE  IF index[p] # 0
                      THEN Cache!Holds(Cache!LogKey(index[p])) => items[Cache!LogKey(index[p])] = records[index[p]].value
                      ELSE Cache!Holds(Cache!DataKey(p)) => items[Cache!DataKey(p)] = file[p]
    BY DEF Cache!CacheServesCommitted
  <1>1. index[p] \in Nat
    BY DEF CacheIInv, FilesTyped
  <1>2. QED
    BY <1>1 DEF CacheIInv, LogEntriesTrue, DataEntriesTrue

\* A snapshot that finds a page in the cache reads what was committed last,
\* whatever was evicted, spilled and rolled back, or left by a checkpoint
\* that failed, and although every checkpoint starts the positions of the
\* log anew.
THEOREM CacheIsTrue == Cache!Spec => []Cache!CacheServesCommitted
  BY CacheInvariant, CacheSuffices, PTL

-----------------------------------------------------------------------------
(* The map and the ring.                                                   *)

\* The numbers of elements and the least elements that the model speaks of are
\* those of the theorems about finite sets.
LEMMA CacheCount == ASSUME NEW S PROVE Cache!Cardinality(S) = Cardinality(S)
  BY DEF Cache!Cardinality, Cardinality

LEMMA CacheMin == ASSUME NEW S PROVE Cache!Min(S) = Min(S)
  BY DEF Cache!Min, Min

\* Among sets of finite subsets there is one with no smaller one.
LEMMA LeastSet ==
  ASSUME NEW S, NEW F, F # {}, \A T \in F : T \in FiniteSubsetsOf(S)
  PROVE  \E T \in F : \A U \in F : U \subseteq T => U = T
  <1>1. F \subseteq FiniteSubsetsOf(S)
    OBVIOUS
  <1>2. \E T \in F : \A U \in F : ~ (<<U, T>> \in StrictSubsetOrdering(S))
    BY <1>1, FS_StrictSubsetOrderingWellFounded, WFMin
  <1>3. QED
    BY <1>2 DEF StrictSubsetOrdering, FiniteSubsetsOf

\* What holds of the empty set, and of a finite set if it holds of what is left
\* when any one element is taken out, holds of all finite sets.
LEMMA EverySet ==
  ASSUME NEW S, IsFiniteSet(S), NEW G, {} \in G,
         \A T \in SUBSET S : T # {} /\ (\A x \in T : T \ {x} \in G) => T \in G
  PROVE  S \in G
  <1> DEFINE F == (SUBSET S) \ G
  <1> SUFFICES ASSUME F # {} PROVE FALSE
    OBVIOUS
  <1>1. \A T \in F : T \in FiniteSubsetsOf(S)
    BY FS_Subset DEF FiniteSubsetsOf
  <1>2. \E T \in F : \A U \in F : U \subseteq T => U = T
    <2> HIDE DEF F
    <2>1. QED
      BY <1>1, LeastSet
  <1>3. PICK T \in F : \A U \in F : U \subseteq T => U = T
    BY <1>2
  <1>4. T \in SUBSET S /\ T \notin G /\ T # {}
    OBVIOUS
  <1>5. ASSUME NEW x \in T PROVE T \ {x} \in G
    <2>1. T \ {x} \in SUBSET S /\ T \ {x} # T /\ T \ {x} \subseteq T
      BY <1>4
    <2>2. QED
      BY <1>3, <2>1
  <1>6. QED
    BY <1>4, <1>5

\* Min, of a finite set of naturals, is its least element.
LEMMA MinIs ==
  ASSUME NEW S \in SUBSET Nat, IsFiniteSet(S), S # {}
  PROVE  Min(S) \in S /\ \A y \in S : Min(S) <= y
  <1> DEFINE G == {T \in SUBSET S : T # {} => \E x \in T : \A y \in T : x <= y}
  <1>1. {} \in G
    OBVIOUS
  <1>2. ASSUME NEW T \in SUBSET S, T # {}, \A x \in T : T \ {x} \in G PROVE T \in G
    <2> PICK x \in T : T \ {x} \in G
      BY <1>2
    <2>1. CASE T = {x}
      BY <2>1
    <2>2. CASE T # {x}
      <3>1. PICK m \in T \ {x} : \A y \in T \ {x} : m <= y
        BY <2>2
      <3>2. CASE x <= m
        <4>1. \A y \in T : x <= y
          BY <3>1, <3>2
        <4>2. QED
          BY <4>1
      <3>3. CASE ~ (x <= m)
        <4>1. \A y \in T : m <= y
          BY <3>1, <3>3
        <4>2. QED
          BY <3>1, <4>1
      <3>4. QED
        BY <3>2, <3>3
    <2>3. QED
      BY <2>1, <2>2
  <1>3. S \in G
    <2> HIDE DEF G
    <2>1. \A T \in SUBSET S : T # {} /\ (\A x \in T : T \ {x} \in G) => T \in G
      BY <1>2
    <2>2. QED
      BY <1>1, <2>1, EverySet
  <1>4. QED
    BY <1>3 DEF Min

\* InOrder lists a finite set of numbers: each of its elements, and each once.
LEMMA InOrderIs ==
  ASSUME NEW S \in SUBSET Nat, IsFiniteSet(S)
  PROVE  Cache!InOrder(S) \in Bijection(1..Cardinality(S), S)
  <1> DEFINE Listed(f, n) == \A i, j \in 1..n : i < j => f[i] < f[j]
             G == {T \in SUBSET S : \E f \in [1..Cardinality(T) -> T] : Listed(f, Cardinality(T))}
  <1>1. {} \in G
    <2>1. Cardinality({}) = 0 /\ 1..0 = {}
      BY FS_EmptySet
    <2>2. [i \in {} |-> 0] \in [{} -> {}]
      OBVIOUS
    <2>3. QED
      BY <2>1, <2>2
  <1>2. ASSUME NEW T \in SUBSET S, T # {}, \A x \in T : T \ {x} \in G PROVE T \in G
    <2> DEFINE n == Cardinality(T)
    <2>1. IsFiniteSet(T) /\ T \in SUBSET Nat
      BY FS_Subset
    <2>2. PICK m \in T : \A y \in T : m <= y
      BY <1>2, <2>1, MinIs
    <2>3. n \in Nat \ {0} /\ Cardinality(T \ {m}) = n - 1
      <3>1. n \in Nat /\ Cardinality(T \ {m}) = n - 1 /\ (n = 0 <=> T = {})
        BY <2>1, <2>2, FS_RemoveElement, FS_CardinalityType, FS_EmptySet
      <3>2. QED
        BY <1>2, <3>1
    <2>4. PICK f \in [1..(n - 1) -> T \ {m}] : Listed(f, n - 1)
      BY <1>2, <2>2, <2>3
    <2> HIDE DEF n
    <2> DEFINE g == [i \in 1..n |-> IF i = 1 THEN m ELSE f[i - 1]]
    <2>5. g \in [1..n -> T]
      BY <2>2, <2>3, <2>4
    <2>6. ASSUME NEW i \in 1..n, NEW j \in 1..n, i < j PROVE g[i] < g[j]
      <3>1. j - 1 \in 1..(n - 1) /\ g[j] = f[j - 1] /\ f[j - 1] \in T \ {m}
        BY <2>3, <2>4, <2>6
      <3>2. CASE i = 1
        <4>1. g[i] = m /\ m \in Nat /\ g[j] \in Nat /\ g[j] # m /\ m <= g[j]
          BY <2>1, <2>2, <2>3, <3>1, <3>2
        <4>2. QED
          BY <4>1
      <3>3. CASE i # 1
        <4>1. i - 1 \in 1..(n - 1) /\ g[i] = f[i - 1] /\ i - 1 < j - 1
          BY <2>3, <2>6, <3>3
        <4>2. QED
          BY <2>4, <3>1, <4>1
      <3>4. QED
        BY <3>2, <3>3
    <2>7. Listed(g, n)
      BY <2>6
    <2>8. QED
      BY <2>5, <2>7 DEF n
  <1>3. S \in G
    <2> HIDE DEF G
    <2>1. \A T \in SUBSET S : T # {} /\ (\A x \in T : T \ {x} \in G) => T \in G
      BY <1>2
    <2>2. QED
      BY <1>1, <2>1, EverySet
  <1> DEFINE f == Cache!InOrder(S)
             n == Cardinality(S)
  <1>4. f \in [1..n -> S] /\ Listed(f, n)
    BY <1>3, CacheCount DEF Cache!InOrder
  <1>5. n \in Nat /\ IsFiniteSet(1..n) /\ Cardinality(1..n) = n
    BY FS_CardinalityType, FS_Interval
  <1> HIDE DEF f, n
  <1>6. f \in Injection(1..n, S)
    <2>1. ASSUME NEW i \in 1..n, NEW j \in 1..n, f[i] = f[j] PROVE i = j
      <3>0. f[i] \in S /\ f[j] \in S
        BY <1>4
      <3>1. f[i] \in Nat /\ f[j] \in Nat
        BY <3>0
      <3>n. n \in Nat
        BY <1>5
      <3>m. i \in Int /\ j \in Int
        BY <3>n
      <3>2. ~(i < j) /\ ~(j < i)
        BY <1>4, <2>1, <3>1
      <3>3. QED
        BY <3>m, <3>2
    <2>2. QED
      BY <1>4, <2>1 DEF Injection, IsInjective
  <1>7. f \in Surjection(1..n, S)
    BY <1>5, <1>6, FS_Injection DEF n
  <1>8. QED
    BY <1>6, <1>7 DEF Bijection, f, n

-----------------------------------------------------------------------------

CacheKeys == ({"log"} \X Nat) \union ({"data"} \X Paged)
RingEntries == [key : CacheKeys, ref : BOOLEAN]

\* The ring holds the entries of the map, each once, and the hand is on one of
\* them.
RingInv ==
  /\ ring \in Seq(RingEntries)
  /\ Len(ring) <= Capacity
  /\ \A i, j \in 1..Len(ring) : i # j => ring[i].key # ring[j].key
  /\ DOMAIN items = {ring[i].key : i \in 1..Len(ring)}
  /\ hand \in 1..(IF ring = <<>> THEN 1 ELSE Len(ring))

\* Reading an entry sets its bit and nothing else.
LEMMA GetKeeps ==
  ASSUME RingInv, NEW k, Cache!Get(k)
  PROVE  RingInv'
  <1>1. /\ UNCHANGED <<items, hand>>
        /\ ring' = [i \in 1..Len(ring) |->
                      IF ring[i].key = k THEN [ring[i] EXCEPT !.ref = TRUE] ELSE ring[i]]
    BY DEF Cache!Get, Cache!Touched
  <1>2. \A i \in 1..Len(ring) : ring[i] \in RingEntries
    BY DEF RingInv
  <1>3. \A i \in 1..Len(ring) : ring'[i] \in RingEntries /\ ring'[i].key = ring[i].key
    BY <1>1, <1>2 DEF RingEntries
  <1>4. Len(ring) \in Nat
    BY DEF RingInv
  <1>5. ring' \in Seq(RingEntries) /\ Len(ring') = Len(ring)
    BY <1>1, <1>3, <1>4
  <1>6. ring' = <<>> <=> ring = <<>>
    BY <1>4, <1>5 DEF RingInv
  <1>7. {ring'[i].key : i \in 1..Len(ring')} = {ring[i].key : i \in 1..Len(ring)}
    BY <1>3, <1>5
  <1>8. \A i, j \in 1..Len(ring) : i # j => ring'[i].key # ring'[j].key
    BY <1>3 DEF RingInv
  <1>9. /\ Len(ring') <= Capacity /\ DOMAIN items' = {ring'[i].key : i \in 1..Len(ring')}
        /\ hand' \in 1..(IF ring' = <<>> THEN 1 ELSE Len(ring'))
    BY <1>1, <1>5, <1>6, <1>7 DEF RingInv
  <1>10. QED
    BY <1>5, <1>8, <1>9 DEF RingInv

\* The hand stops at an entry of the ring.
LEMMA VictimIs ==
  ASSUME RingInv, ring # <<>>
  PROVE  Cache!Victim \in 1..Len(ring)
  <1>1. Len(ring) \in Nat \ {0} /\ hand \in 1..Len(ring)
    BY DEF RingInv
  <1>2. \A j \in 1..Len(ring) : Cache!Turn[j] \in 1..Len(ring)
    BY <1>1 DEF Cache!Turn
  <1>3. ASSUME Cache!Unread # {} PROVE Cache!Steps \in 1..Len(ring)
    <2>1. Cache!Unread \subseteq 1..Len(ring) /\ IsFiniteSet(1..Len(ring))
      BY <1>1, FS_Interval DEF Cache!Unread
    <2>2. IsFiniteSet(Cache!Unread)
      BY <2>1, FS_Subset
    <2>a. Cache!Unread \in SUBSET Nat
      BY <1>1, <2>1
    <2>3. QED
      BY <1>3, <2>1, <2>2, <2>a, MinIs, CacheMin DEF Cache!Steps
  <1>4. QED
    BY <1>1, <1>2, <1>3 DEF Cache!Victim

\* One more entry, or one in the place of another: the map follows.
LEMMA PutKeeps ==
  ASSUME RingInv, Capacity \in Nat \ {0}, NEW k \in CacheKeys, NEW v, Cache!Put(k, v)
  PROVE  RingInv'
  <1> DEFINE it == [key |-> k, ref |-> FALSE]
             n == Len(ring)
  <1>1. it \in RingEntries /\ it.key = k
    BY DEF RingEntries
  <1>2. n \in Nat /\ n <= Capacity /\ \A i \in 1..n : ring[i] \in RingEntries
    BY DEF RingInv
  <1>3. CASE Cache!Holds(k)
    BY <1>3, GetKeeps DEF Cache!Put
  <1>4. CASE ~Cache!Holds(k) /\ n < Capacity
    <2>1. /\ ring' = Append(ring, it) /\ hand' = hand
          /\ items' = [x \in DOMAIN items \union {k} |-> IF x = k THEN v ELSE items[x]]
      BY <1>4 DEF Cache!Put
    <2>2. \A i \in 1..n : ring[i].key # k
      BY <1>4 DEF RingInv, Cache!Holds
    <2>3. /\ ring' \in Seq(RingEntries) /\ Len(ring') = n + 1 /\ ring'[n + 1] = it
          /\ \A i \in 1..n : ring'[i] = ring[i]
      BY <1>1, <2>1 DEF RingInv
    <2> HIDE DEF it, n
    <2>4. \A i, j \in 1..(n + 1) : i # j => ring'[i].key # ring'[j].key
      <3>1. \A i, j \in 1..n : i # j => ring[i].key # ring[j].key
        BY DEF RingInv, n
      <3>2. \A i \in 1..(n + 1) : i \in 1..n \/ i = n + 1
        BY <1>2
      <3>3. QED
        BY <1>1, <2>2, <2>3, <3>1, <3>2
    <2>5. DOMAIN items' = {ring'[i].key : i \in 1..(n + 1)}
      <3>1. DOMAIN items' = {ring[i].key : i \in 1..n} \union {k}
        BY <2>1 DEF RingInv, n
      <3>2. 1..(n + 1) = 1..n \union {n + 1}
        BY <1>2
      <3>3. QED
        BY <1>1, <2>3, <3>1, <3>2
    <2>6. hand' \in 1..(IF ring' = <<>> THEN 1 ELSE n + 1)
      <3>1. hand \in 1..(IF ring = <<>> THEN 1 ELSE n) /\ ring' # <<>>
        BY <1>2, <2>3 DEF RingInv, n
      <3>2. ring = <<>> => n = 0
        BY DEF n
      <3>3. QED
        BY <1>2, <2>1, <3>1, <3>2
    <2>7. n + 1 <= Capacity
      BY <1>2, <1>4
    <2>8. QED
      BY <2>3, <2>4, <2>5, <2>6, <2>7 DEF RingInv
  <1>5. CASE ~Cache!Holds(k) /\ ~(n < Capacity)
    <2>1. ring # <<>> /\ n # 0
      BY <1>2, <1>5
    <2>2. Cache!Victim \in 1..n
      BY <2>1, VictimIs
    <2>3. /\ ring' = [i \in 1..n |->
                        IF i = Cache!Victim THEN it
                        ELSE IF i \in Cache!Passed THEN [ring[i] EXCEPT !.ref = FALSE] ELSE ring[i]]
          /\ hand' = Cache!After(Cache!Victim, n)
          /\ DOMAIN items' = (DOMAIN items \ {ring[Cache!Victim].key}) \union {k}
      BY <1>5 DEF Cache!Put
    <2>4. \A i \in 1..n : ring[i].key # k
      BY <1>5 DEF RingInv, Cache!Holds
    <2> HIDE DEF it
    <2>5. \A i \in 1..n : /\ ring'[i] \in RingEntries
                          /\ ring'[i].key = IF i = Cache!Victim THEN k ELSE ring[i].key
      BY <1>1, <1>2, <2>3 DEF RingEntries
    <2>6. ring' \in Seq(RingEntries) /\ Len(ring') = n
      BY <1>2, <2>3, <2>5
    <2>7. \A i, j \in 1..n : i # j => ring[i].key # ring[j].key
      BY DEF RingInv
    <2>8. \A i, j \in 1..n : i # j => ring'[i].key # ring'[j].key
      BY <2>4, <2>5, <2>7
    <2>9. DOMAIN items' = {ring'[i].key : i \in 1..n}
      <3>1. DOMAIN items = {ring[i].key : i \in 1..n}
        BY DEF RingInv
      <3> HIDE DEF n
      <3>2. DOMAIN items \ {ring[Cache!Victim].key} = {ring[i].key : i \in 1..n \ {Cache!Victim}}
        BY <2>2, <2>7, <3>1
      <3>3. {ring'[i].key : i \in 1..n} = {ring[i].key : i \in 1..n \ {Cache!Victim}} \union {k}
        BY <2>2, <2>5
      <3>4. QED
        BY <2>3, <3>2, <3>3
    <2>10. hand' \in 1..(IF ring' = <<>> THEN 1 ELSE n)
      <3>1. ring' # <<>>
        BY <2>1, <2>6
      <3>2. Cache!After(Cache!Victim, n) \in 1..n
        BY <1>2, <2>1, <2>2 DEF Cache!After
      <3>3. QED
        BY <2>3, <3>1, <3>2
    <2>11. QED
      BY <1>2, <2>6, <2>8, <2>9, <2>10 DEF RingInv
  <1>6. QED
    BY <1>3, <1>4, <1>5

\* What is dropped goes from both, and the hand comes back if the ring no
\* longer reaches it.
LEMMA DropKeeps ==
  ASSUME RingInv, Capacity \in Nat \ {0}, NEW moved, Cache!DropLogAndData(moved)
  PROVE  RingInv'
  <1> DEFINE K == Cache!Kept(moved)
             n == Cardinality(K)
             f == Cache!InOrder(K)
  <1>1. /\ ring' = [i \in 1..n |-> ring[f[i]]]
        /\ DOMAIN items' = {x \in DOMAIN items : ~Cache!Drops(x, moved)}
        /\ hand' = IF n = 0 THEN 1 ELSE Cache!HandBack(hand, n)
    BY CacheCount DEF Cache!DropLogAndData
  <1>2. Len(ring) \in Nat /\ \A i \in 1..Len(ring) : ring[i] \in RingEntries
    BY DEF RingInv
  <1>3. K \subseteq 1..Len(ring) /\ \A i \in 1..Len(ring) : i \in K <=> ~Cache!Drops(ring[i].key, moved)
    BY DEF Cache!Kept
  <1> HIDE DEF K
  <1>4. IsFiniteSet(K) /\ K \in SUBSET Nat
    <2>1. IsFiniteSet(1..Len(ring))
      BY <1>2, FS_Interval
    <2>2. 1..Len(ring) \subseteq Nat
      BY <1>2
    <2>3. QED
      BY <1>3, <2>1, <2>2, FS_Subset
  <1>5. n \in Nat /\ n <= Len(ring)
    <2>1. IsFiniteSet(1..Len(ring)) /\ Cardinality(1..Len(ring)) = Len(ring)
      BY <1>2, FS_Interval
    <2>2. QED
      BY <1>3, <1>4, <2>1, FS_Subset, FS_CardinalityType
  <1>6. f \in Bijection(1..n, K)
    BY <1>4, InOrderIs
  <1> HIDE DEF n, f
  <1>7. /\ \A i \in 1..n : f[i] \in K
        /\ \A i, j \in 1..n : i # j => f[i] # f[j]
        /\ \A x \in K : \E i \in 1..n : f[i] = x
    BY <1>6 DEF Bijection, Injection, IsInjective, Surjection
  <1>8. \A i \in 1..n : ring'[i] = ring[f[i]] /\ ring'[i] \in RingEntries
    BY <1>1, <1>2, <1>3, <1>7
  <1>9. ring' \in Seq(RingEntries) /\ Len(ring') = n
    BY <1>1, <1>5, <1>8
  <1>10. \A i, j \in 1..n : i # j => ring'[i].key # ring'[j].key
    <2> SUFFICES ASSUME NEW i \in 1..n, NEW j \in 1..n, i # j PROVE ring'[i].key # ring'[j].key
      OBVIOUS
    <2>1. f[i] \in 1..Len(ring) /\ f[j] \in 1..Len(ring) /\ f[i] # f[j]
      BY <1>3, <1>7
    <2>2. ring[f[i]].key # ring[f[j]].key
      BY <2>1 DEF RingInv
    <2>3. QED
      BY <1>8, <2>2
  <1>11. DOMAIN items' = {ring'[i].key : i \in 1..n}
    <2>1. DOMAIN items = {ring[i].key : i \in 1..Len(ring)}
      BY DEF RingInv
    <2>2. DOMAIN items' = {ring[i].key : i \in K}
      BY <1>1, <1>3, <2>1
    <2>3. {ring[i].key : i \in K} = {ring'[i].key : i \in 1..n}
      BY <1>7, <1>8
    <2>4. QED
      BY <2>2, <2>3
  <1>12. hand' \in 1..(IF ring' = <<>> THEN 1 ELSE n)
    <2>1. ring' = <<>> <=> n = 0
      BY <1>5, <1>9
    <2>2. hand \in Nat \ {0}
      BY <1>2 DEF RingInv
    <2>3. QED
      BY <1>1, <1>5, <2>1, <2>2 DEF Cache!HandBack
  <1>13. n <= Capacity
    BY <1>2, <1>5 DEF RingInv
  <1>14. QED
    BY <1>9, <1>10, <1>11, <1>12, <1>13 DEF RingInv

LEMMA RingStep ==
  ASSUME CacheIInv, RingInv, Capacity \in Nat \ {0}, [Cache!Next]_(Cache!vars)
  PROVE  RingInv'
  <1>1. ASSUME NEW p \in Paged, Cache!Read(p) PROVE RingInv'
    <2>1. index[p] \in Nat
      BY DEF CacheIInv, FilesTyped
    <2>2. Cache!LogKey(index[p]) \in CacheKeys /\ Cache!DataKey(p) \in CacheKeys
      BY <2>1 DEF CacheKeys, Cache!LogKey, Cache!DataKey
    <2>3. PICK k \in CacheKeys, v \in {records[index[p]].value, file[p]} : Cache!Get(k) \/ Cache!Put(k, v)
      BY <1>1, <2>2 DEF Cache!Read
    <2>4. QED
      BY <2>3, GetKeeps, PutKeeps
  <1>2. Cache!LogKey(Len(records) + 1) \in CacheKeys
    <2>1. Len(records) + 1 \in Nat
      BY DEF CacheIInv, FilesTyped
    <2>2. QED
      BY <2>1 DEF CacheKeys, Cache!LogKey
  <1>3. ASSUME NEW p \in Paged, Cache!Commit(p) \/ Cache!SpillAndRollBack(p) PROVE RingInv'
    BY <1>2, <1>3, PutKeeps DEF Cache!Commit, Cache!SpillAndRollBack
  <1>4. CASE Cache!Checkpoint
    BY <1>4, DropKeeps DEF Cache!Checkpoint
  <1>5. CASE Cache!CheckpointFails \/ UNCHANGED Cache!vars
    BY <1>5 DEF Cache!CheckpointFails, Cache!vars, Cache!cacheVars, RingInv
  <1>6. QED
    BY <1>1, <1>3, <1>4, <1>5 DEF Cache!Next

LEMMA RingSuffices ==
  ASSUME RingInv, Capacity \in Nat \ {0}
  PROVE  Cache!RingAgrees
  <1> DEFINE n == Len(ring)
             f == [i \in 1..n |-> ring[i].key]
  <1>1. n \in Nat /\ DOMAIN items = {ring[i].key : i \in 1..n}
    BY DEF RingInv
  <1>2. f \in Bijection(1..n, DOMAIN items)
    <2>1. f \in [1..n -> DOMAIN items]
      BY <1>1
    <2>2. \A i, j \in 1..n : f[i] = f[j] => i = j
      BY DEF RingInv
    <2>3. \A x \in DOMAIN items : \E i \in 1..n : f[i] = x
      BY <1>1
    <2> HIDE DEF f
    <2>4. QED
      BY <2>1, <2>2, <2>3 DEF Bijection, Injection, IsInjective, Surjection
  <1>3. Cardinality(DOMAIN items) = n
    <2>1. IsFiniteSet(1..n) /\ Cardinality(1..n) = n
      <3>1. n \in Nat
        BY <1>1
      <3> HIDE DEF n
      <3>2. QED
        BY <3>1, FS_Interval
    <2>2. ExistsBijection(1..n, DOMAIN items)
      BY <1>2 DEF ExistsBijection
    <2>3. QED
      BY <2>1, <2>2, FS_Bijection
  <1>4. QED
    BY <1>1, <1>3, CacheCount DEF RingInv, Cache!RingAgrees

\* The map and the ring of a shard stay in step, each entry once and no more of
\* them than the shard has room for, with the hand inside the ring, whatever is
\* read, committed, spilled and dropped.
THEOREM RingStaysInStep ==
  ASSUME Capacity \in Nat \ {0}
  PROVE  Cache!Spec => []Cache!RingAgrees
  <1>1. Cache!Init => CacheIInv /\ RingInv
    <2>1. Cache!Init => RingInv
      BY DEF Cache!Init, RingInv
    <2>2. QED
      BY <2>1, CacheInitially
  <1>2. CacheIInv /\ RingInv /\ [Cache!Next]_(Cache!vars) => (CacheIInv /\ RingInv)'
    BY CacheInductive, RingStep
  <1>3. CacheIInv /\ RingInv => Cache!RingAgrees
    BY RingSuffices
  <1>4. QED
    BY <1>1, <1>2, <1>3, PTL DEF Cache!Spec
=============================================================================
