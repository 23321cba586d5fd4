----------------------------- MODULE PageCache -----------------------------
(***************************************************************************)
(* The page cache (src/internal/xtx/buffer.go) between snapshots and the   *)
(* two files, with the commits that fill it and the checkpoints that move  *)
(* the log (tx.go persist, snapshot.go readLog and readData,               *)
(* checkpoint.go).  An entry is found by file and position, and a position *)
(* of the log is used again after every checkpoint.                        *)
(***************************************************************************)
EXTENDS Naturals, Sequences, FiniteSets, FiniteSetsExt

CONSTANTS PageIDs,     \* pages of the database
          Capacity,    \* pages one shard holds
          MaxCommits,  \* bound: commits
          MaxFaults    \* bound: checkpoints that fail

VARIABLES log,     \* log[i]: the page and value at position i of the log
          data,    \* data[p]: the value in the data file
          index,   \* index[p]: position of the newest version in the log, 0 for none
          items,   \* items: key -> value, the map of the shard
          ring,    \* the CLOCK: records [key, ref]
          hand,    \* where it points, counted from 1
          commits, faults

fileVars == <<log, data, index>>
cacheVars == <<items, ring, hand>>
vars == <<fileVars, cacheVars, commits, faults>>

Init ==
  /\ log = <<>>
  /\ data = [p \in PageIDs |-> 0]
  /\ index = [p \in PageIDs |-> 0]
  /\ items = [k \in {} |-> 0]
  /\ ring = <<>>
  /\ hand = 1
  /\ commits = 0 /\ faults = 0

LogKey(i) == <<"log", i>>
DataKey(p) == <<"data", p>>
Holds(k) == k \in DOMAIN items
After(h, n) == IF h = n THEN 1 ELSE h + 1

-----------------------------------------------------------------------------
(* Cache.Get, Put and DropLogAndData, of one shard                         *)

Touched(k) == [i \in 1..Len(ring) |-> IF ring[i].key = k THEN [ring[i] EXCEPT !.ref = TRUE] ELSE ring[i]]
Get(k) == Holds(k) /\ ring' = Touched(k) /\ UNCHANGED <<items, hand>>

\* The hand passes entries that were read, clearing their bit, and stops at
\* the first that was not; a whole turn finds the one it started from.
Turn == [j \in 1..Len(ring) |-> IF hand + j - 1 > Len(ring) THEN hand + j - 1 - Len(ring) ELSE hand + j - 1]
Unread == {j \in 1..Len(ring) : ~ring[Turn[j]].ref}
Steps == IF Unread = {} THEN Len(ring) + 1 ELSE Min(Unread)
Victim == IF Unread = {} THEN hand ELSE Turn[Steps]
Passed == IF Unread = {} THEN 1..Len(ring) ELSE {Turn[j] : j \in 1..(Steps - 1)}

\* What is there already is not overwritten.
Put(k, v) ==
  LET it == [key |-> k, ref |-> FALSE]
      with(m) == [x \in DOMAIN m \union {k} |-> IF x = k THEN v ELSE m[x]]
  IN IF Holds(k) THEN Get(k)
     ELSE IF Len(ring) < Capacity
     THEN /\ ring' = Append(ring, it)
          /\ items' = with(items)
          /\ UNCHANGED hand
     ELSE /\ items' = with([x \in DOMAIN items \ {ring[Victim].key} |-> items[x]])
          /\ ring' = [i \in 1..Len(ring) |->
                        IF i = Victim THEN it
                        ELSE IF i \in Passed THEN [ring[i] EXCEPT !.ref = FALSE] ELSE ring[i]]
          /\ hand' = After(Victim, Len(ring))

DropsLogOnly(k, moved) == k[1] = "log"
Drops(k, moved) == k[1] = "log" \/ k[2] \in moved
HandLeft(h, n) == h
HandBack(h, n) == IF h > n THEN 1 ELSE h
\* What is kept moves up, in the order it had.
InOrder(K) ==
  CHOOSE f \in [1..Cardinality(K) -> K] : \A i, j \in DOMAIN f : i < j => f[i] < f[j]
Kept(moved) == {i \in 1..Len(ring) : ~Drops(ring[i].key, moved)}
DropLogAndData(moved) ==
  LET K == Kept(moved)
      n == Cardinality(K)
  IN /\ ring' = [i \in 1..n |-> ring[InOrder(K)[i]]]
     /\ items' = [k \in {x \in DOMAIN items : ~Drops(x, moved)} |-> items[k]]
     /\ hand' = IF n = 0 THEN 1 ELSE HandBack(hand, n)

-----------------------------------------------------------------------------
(* Who uses it                                                             *)

\* Snapshot.getPage of what is committed: the log if the index knows the
\* page, else the data file; from the cache if it is there.
Read(p) ==
  /\ LET k == IF index[p] # 0 THEN LogKey(index[p]) ELSE DataKey(p)
         v == IF index[p] # 0 THEN log[index[p]].value ELSE data[p]
     IN Get(k) \/ (~Holds(k) /\ Put(k, v))
  /\ UNCHANGED <<fileVars, commits, faults>>

\* Transaction.persist: the pages are appended and put into the cache at
\* the position they got.
Commit(p) ==
  /\ commits < MaxCommits
  /\ commits' = commits + 1
  /\ log' = Append(log, [page |-> p, value |-> commits + 1])
  /\ index' = [index EXCEPT ![p] = Len(log) + 1]
  /\ Put(LogKey(Len(log) + 1), commits + 1)
  /\ UNCHANGED <<data, faults>>

\* A transaction spills a page and rolls back: the position is used, the
\* index never hears of it.
SpillAndRollBack(p) ==
  /\ commits < MaxCommits
  /\ commits' = commits + 1
  /\ log' = Append(log, [page |-> p, value |-> 0])
  /\ Put(LogKey(Len(log) + 1), 0)
  /\ UNCHANGED <<data, index, faults>>

MovedPages == {p \in PageIDs : index[p] # 0}
DataAfter == [p \in PageIDs |-> IF index[p] # 0 THEN log[index[p]].value ELSE data[p]]
Checkpoint ==
  /\ log # <<>>
  /\ data' = DataAfter
  /\ log' = <<>>
  /\ index' = [p \in PageIDs |-> 0]
  /\ DropLogAndData(MovedPages)
  /\ UNCHANGED <<commits, faults>>

\* The pages are moved, then the sync or the truncation fails: the log and
\* the index stay, and so does the cache.
CheckpointFails ==
  /\ log # <<>> /\ faults < MaxFaults
  /\ faults' = faults + 1
  /\ data' = DataAfter
  /\ UNCHANGED <<log, index, cacheVars, commits>>

Next ==
  \/ \E p \in PageIDs : Read(p) \/ Commit(p) \/ SpillAndRollBack(p)
  \/ Checkpoint \/ CheckpointFails

Spec == Init /\ [][Next]_vars

-----------------------------------------------------------------------------
\* Whatever was evicted, dropped or left in the cache, a snapshot reads what
\* was committed last: an entry of a position that was used again, or of a
\* page that a checkpoint has rewritten, is never served.
CacheServesCommitted ==
  \A p \in PageIDs :
    IF index[p] # 0
    THEN Holds(LogKey(index[p])) => items[LogKey(index[p])] = log[index[p]].value
    ELSE Holds(DataKey(p)) => items[DataKey(p)] = data[p]

\* The map and the ring of a shard hold the same entries, each once, at most
\* as many as its capacity, and the hand points into the ring: eviction
\* deletes what it replaces.
RingAgrees ==
  /\ DOMAIN items = {ring[i].key : i \in 1..Len(ring)}
  /\ Cardinality(DOMAIN items) = Len(ring) /\ Len(ring) <= Capacity
  /\ hand \in 1..(IF ring = <<>> THEN 1 ELSE Len(ring))
=============================================================================
