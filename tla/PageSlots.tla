------------------------------ MODULE PageSlots ------------------------------
(***************************************************************************)
(* The inside of a page (src/internal/xpage/page.go): segments growing     *)
(* from the header, a table of slots growing from the end, and the         *)
(* bookkeeping between them.  A segment's content is one cell, found by    *)
(* its position: what the code hands out is a slice of the page, which     *)
(* stays where it was when the segments are compacted.                     *)
(***************************************************************************)
EXTENDS Naturals, FiniteSetsExt

CONSTANTS PageSize, HeaderSize, SlotSize, MaxItems

EmptyIndex == MaxItems          \* 255, the one slot number there is not
Indices == 0..(MaxItems - 1)
NoSlot == [pos |-> 0, len |-> 0]
NoCell == [k \in {} |-> 0]

EmptyPage ==
  [slots |-> [i \in Indices |-> NoSlot], hi |-> EmptyIndex, items |-> 0, used |-> 0,
   frag |-> 0, next |-> HeaderSize, start |-> 0, cells |-> NoCell, bad |-> FALSE]

InUse(p) == {i \in Indices : p.slots[i].pos # 0}
FooterSize(p) == IF p.hi = EmptyIndex THEN 0 ELSE (p.hi + 1) * SlotSize
FreeBytes(p) ==
  IF p.items = MaxItems THEN 0 ELSE PageSize - HeaderSize - p.used - FooterSize(p)

\* The page remembers that an operation found it corrupt.
Corrupt(p) == [p EXCEPT !.bad = TRUE]

SegmentSound(p, i) ==
  LET s == p.slots[i]
  IN /\ s.pos >= HeaderSize /\ s.pos < PageSize - FooterSize(p)
     /\ s.len > 0 /\ s.pos + s.len <= PageSize - FooterSize(p)
Has(p, i) == p.hi # EmptyIndex /\ i <= p.hi /\ SegmentSound(p, i)

Without(f, x) == [y \in DOMAIN f \ {x} |-> f[y]]
With(f, x, v) == [y \in DOMAIN f \union {x} |-> IF y = x THEN v ELSE f[y]]

\* Page.Defrag: segments move towards the header, in the order they lie.
Compacted(p, i) ==
  HeaderSize + MapThenSumSet(LAMBDA j : p.slots[j].len,
                             {j \in InUse(p) : p.slots[j].pos < p.slots[i].pos})
Defrag(p) ==
  IF p.frag = 0 THEN p
  ELSE IF p.hi = EmptyIndex \/ \E i \in InUse(p) : p.slots[i].pos < Compacted(p, i) THEN Corrupt(p)
  ELSE [p EXCEPT
          !.slots = [i \in Indices |->
                       IF i \in InUse(p) THEN [@[i] EXCEPT !.pos = Compacted(p, i)] ELSE NoSlot],
          !.cells = [x \in {Compacted(p, i) : i \in InUse(p)} |->
                       p.cells[p.slots[CHOOSE i \in InUse(p) : Compacted(p, i) = x].pos]],
          !.frag = 0,
          !.next = HeaderSize + MapThenSumSet(LAMBDA j : p.slots[j].len, InUse(p))]

\* Page.freeIndex.
Gaps(p) == {i \in Indices : p.hi # EmptyIndex /\ i >= p.start /\ i <= p.hi /\ p.slots[i].pos = 0}
FreeIndex(p) == IF Gaps(p) # {} THEN Min(Gaps(p)) ELSE (p.hi + 1) % (MaxItems + 1)

\* Page.insertAt: a new slot costs SlotSize even if an old number is free.
SlotCost(new) == IF new THEN SlotSize ELSE 0
Fits(p, new, len) == p.items < MaxItems /\ FreeBytes(p) >= len + SlotCost(new)
MustDefragLate(p, new, len) == len > FreeBytes(p) - p.frag
MustDefrag(p, new, len) == len > FreeBytes(p) - p.frag - SlotCost(new)
Room(p, new, len) == IF MustDefrag(p, new, len) THEN Defrag(p) ELSE p
Placed(p, i, len, cell) ==
  LET q == [p EXCEPT
              !.hi = IF p.hi = EmptyIndex \/ i > p.hi THEN i ELSE p.hi,
              !.slots[i] = [pos |-> p.next, len |-> len],
              !.items = @ + 1, !.used = @ + len, !.next = @ + len,
              !.cells = With(@, p.next, cell)]
  IN IF \/ p.bad \/ p.slots[i] # NoSlot \/ FreeBytes(p) < p.frag
        \/ p.next + len > PageSize - FooterSize(q)
     THEN Corrupt(q) ELSE q
Insert(p, len, cell) ==
  LET q == Room(p, TRUE, len)
      i == FreeIndex(q)
  IN [page |-> Placed(IF Gaps(q) # {} THEN [q EXCEPT !.start = i + 1] ELSE q, i, len, cell),
      index |-> i]

\* The room of a segment given back: at the end of the data it is free at
\* once, elsewhere it is a hole.
Freed(p, pos, len, keep) ==
  IF pos + len = p.next
  THEN [p EXCEPT !.next = pos + keep, !.used = @ - (len - keep)]
  ELSE [p EXCEPT !.frag = @ + (len - keep), !.used = @ - (len - keep)]

\* Page.updateHighestIndex.
NewHighest(p) == IF InUse(p) = {} THEN EmptyIndex ELSE Max(InUse(p))

Delete(p, i) ==
  LET s == p.slots[i]
      q == [Freed(p, s.pos, s.len, 0) EXCEPT
              !.slots[i] = NoSlot, !.items = @ - 1, !.cells = Without(@, s.pos), !.start = 0]
      r == IF p.hi = i THEN [q EXCEPT !.hi = NewHighest(q)] ELSE q
  IN IF ~Has(p, i) THEN Corrupt(p)
     ELSE IF r.items # 0 THEN r
     ELSE IF r.hi # EmptyIndex \/ r.used # 0 THEN Corrupt(r)
     ELSE [r EXCEPT !.next = HeaderSize, !.frag = 0]

\* Page.Update, with the content the caller writes into the segment: in
\* place if it does not grow, else given back and placed anew.
Update(p, i, len, cell) ==
  LET s == p.slots[i]
      freed == [Freed(p, s.pos, s.len, 0) EXCEPT
                  !.slots[i] = NoSlot, !.items = @ - 1, !.cells = Without(@, s.pos)]
  IN IF ~Has(p, i) THEN Corrupt(p)
     ELSE IF len = s.len THEN [p EXCEPT !.cells = With(@, s.pos, cell)]
     ELSE IF len < s.len
     THEN [Freed(p, s.pos, s.len, len) EXCEPT
             !.slots[i].len = len, !.cells = With(@, s.pos, cell)]
     ELSE IF ~Fits(freed, FALSE, len) THEN Corrupt(freed)
     ELSE Placed(Room(freed, FALSE, len), i, len, cell)

-----------------------------------------------------------------------------
\* What holds of a page between two operations: nothing was found corrupt,
\* the segments lie apart between header and slot table, each slot's cell is
\* where the slot points, and the counters are the sums of what is there.
PageSound(p) ==
  /\ ~p.bad
  /\ p.items = Cardinality(InUse(p))
  /\ p.used = MapThenSumSet(LAMBDA j : p.slots[j].len, InUse(p))
  /\ p.next - HeaderSize = p.used + p.frag
  /\ p.hi = (IF InUse(p) = {} THEN EmptyIndex ELSE Max(InUse(p)))
  /\ \A i \in InUse(p) : SegmentSound(p, i)
  /\ \A i, j \in InUse(p) : i # j => \/ p.slots[i].pos + p.slots[i].len <= p.slots[j].pos
                                     \/ p.slots[j].pos + p.slots[j].len <= p.slots[i].pos
  /\ DOMAIN p.cells = {p.slots[i].pos : i \in InUse(p)}
  /\ p.next <= PageSize - FooterSize(p)
=============================================================================
