---------------------------- MODULE ExternalSort ----------------------------
(***************************************************************************)
(* The external sort (src/internal/xsort): queries that run side by side   *)
(* cut their records into runs, sort each, lay all but a lone one out in   *)
(* fixed slots of one temporary file, and merge them back through windows  *)
(* of one page.                                                            *)
(*                                                                         *)
(* A record is its key, its address (here: its place in the input) and the *)
(* bytes it takes; a byte of a run is <<record, its place in the record>>. *)
(***************************************************************************)
EXTENDS Integers, Sequences, SequencesExt, Functions

CONSTANTS Sorters,   \* the queries
          Keys,      \* sort keys: sequences of numbers
          Orders,    \* one direction per segment, 1 or -1
          Sizes,     \* what a record may take, in bytes
          Overhead,  \* what it takes in memory beyond that
          PageSize, RunSize,
          MaxRecords \* bound: records per sorter

VARIABLES input,   \* sorter -> what it was given, in order
          batch,   \* sorter -> records in memory
          runs,    \* sorter -> [data, pos, size, count]
          phase,   \* "insert", "merge", "failed" or "closed"
          readers, \* sorter -> one per run: [win, off, read, left, rec]
          heap,    \* sorter -> merger.idx
          output,  \* sorter -> what it handed out
          disk,    \* slot -> bytes
          next, free

vars == <<input, batch, runs, phase, readers, heap, output, disk, next, free>>

Slots == 0..(2 * MaxRecords)
MaxRecord == CHOOSE n \in Sizes : \A m \in Sizes : m <= n
InFile == -1

Init ==
  /\ input = [s \in Sorters |-> <<>>] /\ batch = [s \in Sorters |-> <<>>]
  /\ runs = [s \in Sorters |-> <<>>] /\ phase = [s \in Sorters |-> "insert"]
  /\ readers = [s \in Sorters |-> <<>>] /\ heap = [s \in Sorters |-> <<>>]
  /\ output = [s \in Sorters |-> <<>>]
  /\ disk = [p \in Slots |-> <<>>] /\ next = 0 /\ free = <<>>

-----------------------------------------------------------------------------
(* Comparing.                                                              *)

Sign(a, b) == IF a < b THEN -1 ELSE IF a > b THEN 1 ELSE 0
Compare(a, b) ==
  LET n == CHOOSE m \in {Len(a), Len(b), Len(Orders)} : \A k \in {Len(a), Len(b), Len(Orders)} : m <= k
      differ == {i \in 1..n : a[i] # b[i]}
      i == CHOOSE j \in differ : \A k \in differ : j <= k
  IN IF differ = {} THEN Sign(Len(a), Len(b)) ELSE Orders[i] * Sign(a[i], b[i])

\* The order of the result: equal keys stay as they came.
Precedes(x, y) == LET c == Compare(x.key, y.key) IN c < 0 \/ (c = 0 /\ x.addr < y.addr)
Sorted(recs) == SortSeq(recs, Precedes)
Bytes(recs) == FlattenSeq([i \in DOMAIN recs |-> [k \in 1..recs[i].size |-> <<recs[i], k>>]])

-----------------------------------------------------------------------------
(* The temporary file.                                                     *)

alloc == IF free # <<>> THEN <<free[Len(free)], next, Front(free)>> ELSE <<next, next + 1, free>>
\* A shorter run leaves the rest of an old one behind it.
Written(old, bytes) == bytes \o SubSeq(old, Len(bytes) + 1, Len(old))
GivenBackAll(rs) == free \o SetToSeq({rs[i].pos : i \in DOMAIN rs})
GivenBack(rs) == free \o SetToSeq({rs[i].pos : i \in {j \in DOMAIN rs : rs[j].data = <<>>}})

\* Sorter.flush: a lone last run stays in memory.
Flush(s, recs, inMemory, rest) ==
  LET bytes == Bytes(Sorted(recs))
      slot == alloc
      run(data, pos) == [data |-> data, pos |-> pos, size |-> Len(bytes), count |-> Len(recs)]
  IN IF inMemory
     THEN /\ runs' = [runs EXCEPT ![s] = Append(@, run(bytes, InFile))]
          /\ batch' = [batch EXCEPT ![s] = rest]
          /\ UNCHANGED <<disk, next, free>>
     ELSE /\ runs' = [runs EXCEPT ![s] = Append(@, run(<<>>, slot[1]))]
          /\ disk' = [disk EXCEPT ![slot[1]] = Written(@, bytes)]
          /\ next' = slot[2] /\ free' = slot[3]
          /\ batch' = [batch EXCEPT ![s] = rest]

-----------------------------------------------------------------------------
(* Sorter.Insert.                                                          *)

RECURSIVE InMemorySize(_)
InMemorySize(recs) == IF recs = <<>> THEN 0 ELSE Head(recs).size + Overhead + InMemorySize(Tail(recs))

Overflows(recs, rec) == Len(recs) > 0 /\ InMemorySize(Append(recs, rec)) > RunSize
Insert(s, key, size) ==
  /\ phase[s] = "insert" /\ Len(input[s]) < MaxRecords
  /\ LET rec == [key |-> key, addr |-> Len(input[s]) + 1, size |-> size]
     IN /\ input' = [input EXCEPT ![s] = Append(@, rec)]
        /\ IF Overflows(batch[s], rec) THEN Flush(s, batch[s], FALSE, <<rec>>)
           ELSE /\ batch' = [batch EXCEPT ![s] = Append(@, rec)]
                /\ UNCHANGED <<runs, disk, next, free>>
  /\ UNCHANGED <<phase, readers, heap, output>>

\* A run that cannot be written gives its slot back.
FlushFails(s) ==
  /\ phase[s] = "insert" /\ batch[s] # <<>>
  /\ runs[s] # <<>> \/ \E size \in Sizes : Overflows(batch[s], [size |-> size])
  /\ free' = Append(alloc[3], alloc[1]) /\ next' = alloc[2]
  /\ phase' = [phase EXCEPT ![s] = "failed"]
  /\ UNCHANGED <<input, batch, runs, readers, heap, output, disk>>

-----------------------------------------------------------------------------
(* Reading a run: the window is filled page by page until it holds a whole *)
(* record, then one is decoded.                                            *)

NewReader(r) ==
  [win |-> r.data, off |-> 0, read |-> IF r.data # <<>> THEN r.size ELSE 0, left |-> r.count, rec |-> <<>>]

Enough(rr) == Len(rr.win) - rr.off >= MaxRecord
Unshifted(rr) == rr
Shifted(rr) == [rr EXCEPT !.win = SubSeq(@, rr.off + 1, Len(@)), !.off = 0]

RECURSIVE fill(_, _)
fill(r, rr) ==
  IF r.data # <<>> \/ Enough(rr) \/ rr.read >= r.size THEN rr
  ELSE LET n == IF PageSize < r.size - rr.read THEN PageSize ELSE r.size - rr.read
       IN fill(r, [Shifted(rr) EXCEPT !.win = @ \o SubSeq(disk[r.pos], rr.read + 1, rr.read + n),
                                      !.read = @ + n])

\* What lies at the window's place, when a whole record does.
Decoded(rr) ==
  LET rec == rr.win[rr.off + 1][1]
  IN IF /\ rr.off + rec.size <= Len(rr.win)
        /\ \A k \in 1..rec.size : rr.win[rr.off + k] = <<rec, k>>
     THEN rec ELSE [key |-> <<0>>, addr |-> 0, size |-> 1]
ReadNext(r, rr) ==
  LET f == fill(r, rr)
      rec == Decoded(f)
  IN [f EXCEPT !.off = @ + rec.size, !.left = @ - 1, !.rec = rec]

-----------------------------------------------------------------------------
(* The merge: a heap of the runs by their current records.                 *)

LessByKey(rs, a, b) == Compare(rs[a].rec.key, rs[b].rec.key) < 0
less(rs, a, b) == LET c == Compare(rs[a].rec.key, rs[b].rec.key) IN IF c # 0 THEN c < 0 ELSE a < b

RECURSIVE down(_, _, _)
down(rs, idx, i) ==
  LET l == 2 * i
      j == IF l + 1 <= Len(idx) /\ less(rs, idx[l + 1], idx[l]) THEN l + 1 ELSE l
  IN IF l > Len(idx) \/ ~less(rs, idx[j], idx[i]) THEN idx
     ELSE down(rs, [idx EXCEPT ![i] = idx[j], ![j] = idx[i]], j)
RECURSIVE Heaped(_, _, _)
Heaped(rs, idx, i) == IF i = 0 THEN idx ELSE Heaped(rs, down(rs, idx, i), i - 1)
Pop(rs, idx) == IF Len(idx) = 1 THEN <<>> ELSE down(rs, [Front(idx) EXCEPT ![1] = idx[Len(idx)]], 1)

\* Sorter.Insert ends, Sorter.All opens a reader per run.
FlushedOnce(s) == batch[s] = <<>> \/ runs[s] # <<>>
Flushed(s) == batch[s] = <<>>
EndInsert(s) ==
  /\ phase[s] = "insert" /\ ~Flushed(s)
  /\ Flush(s, batch[s], runs[s] = <<>>, <<>>)
  /\ UNCHANGED <<input, phase, readers, heap, output>>
Open(s) ==
  /\ phase[s] = "insert" /\ Flushed(s) /\ runs[s] # <<>>
  /\ LET rs == [i \in DOMAIN runs[s] |-> ReadNext(runs[s][i], NewReader(runs[s][i]))]
     IN /\ readers' = [readers EXCEPT ![s] = rs]
        /\ heap' = [heap EXCEPT ![s] = Heaped(rs, [i \in DOMAIN rs |-> i], Len(rs) \div 2)]
  /\ phase' = [phase EXCEPT ![s] = "merge"]
  /\ UNCHANGED <<input, batch, runs, output, disk, next, free>>
Yield(s) ==
  /\ phase[s] = "merge" /\ heap[s] # <<>>
  /\ LET top == heap[s][1]
         rr == readers[s][top]
         rs == IF rr.left = 0 THEN readers[s] ELSE [readers[s] EXCEPT ![top] = ReadNext(runs[s][top], rr)]
     IN /\ output' = [output EXCEPT ![s] = Append(@, rr.rec)]
        /\ readers' = [readers EXCEPT ![s] = rs]
        /\ heap' = [heap EXCEPT ![s] = IF rr.left = 0 THEN Pop(rs, @) ELSE down(rs, @, 1)]
  /\ UNCHANGED <<input, batch, runs, phase, disk, next, free>>

\* Sorter.Close, at the end, after an error, or when the query stops early.
Close(s) ==
  /\ phase[s] \in {"insert", "merge", "failed"}
  /\ free' = GivenBack(runs[s])
  /\ runs' = [runs EXCEPT ![s] = <<>>]
  /\ batch' = [batch EXCEPT ![s] = <<>>]
  /\ readers' = [readers EXCEPT ![s] = <<>>] /\ heap' = [heap EXCEPT ![s] = <<>>]
  /\ phase' = [phase EXCEPT ![s] = "closed"]
  /\ UNCHANGED <<input, output, disk, next>>

Next == \E s \in Sorters :
  \/ \E key \in Keys, size \in Sizes : Insert(s, key, size)
  \/ FlushFails(s) \/ EndInsert(s) \/ Open(s) \/ Yield(s) \/ Close(s)

-----------------------------------------------------------------------------
\* Whatever comes out, at every moment of the merge, is the beginning of
\* the stable sort of what went in: nothing lost, doubled, out of place or
\* taken from another query's run.
OutputIsSorted == \A s \in Sorters : IsPrefix(output[s], Sorted(input[s]))
AllComesOut == \A s \in Sorters : phase[s] = "merge" /\ heap[s] = <<>> => Len(output[s]) = Len(input[s])

\* The slots of live runs and the free ones are all different, and a run
\* fits its slot.
SlotsApart ==
  LET taken == {<<s, i>> \in Sorters \X (1..MaxRecords) : i \in DOMAIN runs[s] /\ runs[s][i].data = <<>>}
      pos(x) == runs[x[1]][x[2]].pos
  IN /\ \A x, y \in taken : x # y => pos(x) # pos(y)
     /\ \A x \in taken : pos(x) < next /\ ~Contains(free, pos(x)) /\ runs[x[1]][x[2]].size <= RunSize
     /\ IsInjective(free)

\* A window never outgrows the room it was made with: one page and one
\* record at most.
WindowHolds ==
  \A s \in Sorters : \A i \in DOMAIN readers[s] :
    runs[s][i].data = <<>> => Len(readers[s][i].win) <= PageSize + MaxRecord
=============================================================================
