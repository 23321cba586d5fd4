------------------------------ MODULE DataPages ------------------------------
(***************************************************************************)
(* Documents as chains of data blocks, and the lists that sort the data    *)
(* pages of a collection by the room they have (src/internal/xstore/       *)
(* data.go, pagelist.go, src/internal/xpage/freelist.go, datablock.go).    *)
(* One action is one turn of the loop of InsertDocument, UpdateDocument or *)
(* DeleteDocument, so that the slice of the block written last, which the  *)
(* loops carry from turn to turn, can grow stale when a page is compacted. *)
(***************************************************************************)
EXTENDS PageSlots, Sequences

CONSTANTS PageIDs,      \* numbers of the pages there are
          Docs,         \* documents
          Lens,         \* their lengths
          Thresholds,   \* dataFreeSlots: room a page needs for lists 0, 1, ...
          BlockHeader   \* DataBlockHeaderSize

VARIABLES pages,  \* [PageIDs -> the page, with list, prev and nxt]
          heads,  \* FreeDataPage: the heads of the lists
          docs,   \* what a document should read as: NoDoc or [first, len]
          op      \* the call under way

vars == <<pages, heads, docs, op>>

NoPage == 0
NoAddr == [page |-> NoPage, index |-> 0]
NoDoc == [first |-> NoAddr, len |-> 0]
NoList == Len(Thresholds) + 1     \* EmptyIndex in PageListSlot
Lists == 0..Len(Thresholds)
Fresh == [page |-> EmptyPage, list |-> NoList, prev |-> NoPage, nxt |-> NoPage, live |-> FALSE]
Idle == [kind |-> "idle", doc |-> 0, len |-> 0, off |-> 0, at |-> NoAddr,
         first |-> NoAddr, last |-> <<NoPage, 0>>]

Init ==
  /\ pages = [p \in PageIDs |-> Fresh]
  /\ heads = [l \in Lists |-> NoPage]
  /\ docs = [d \in Docs |-> NoDoc]
  /\ op = Idle

MaxData == PageSize - HeaderSize - SlotSize - BlockHeader
Lesser(a, b) == IF a < b THEN a ELSE b

\* dataFreeSlot and MinimumDataSlot (one more, to stay at or above zero).
FreeSlot(free) == Cardinality({i \in DOMAIN Thresholds : free < Thresholds[i]})
FirstList(need) == FreeSlot(need)

-----------------------------------------------------------------------------
(* The lists.  st is [pages, heads].                                       *)

Relinked(st, p) ==  \* the neighbours of p linked past it
  LET r == st.pages[p]
      a == IF r.prev = NoPage THEN st.pages ELSE [st.pages EXCEPT ![r.prev].nxt = r.nxt]
  IN IF r.nxt = NoPage THEN a ELSE [a EXCEPT ![r.nxt].prev = r.prev]
NewHeadStays(st, p, l) == st.heads[l]
NewHead(st, p, l) == IF st.heads[l] = p THEN st.pages[p].nxt ELSE st.heads[l]
RemoveFree(st, p) ==
  LET l == st.pages[p].list
  IN IF l = NoList THEN st
     ELSE [pages |-> [Relinked(st, p) EXCEPT ![p].prev = NoPage, ![p].nxt = NoPage, ![p].list = NoList],
           heads |-> [st.heads EXCEPT ![l] = NewHead(st, p, l)]]
AddFree(st, p, l) ==
  LET h == st.heads[l]
      a == IF h = NoPage THEN st.pages ELSE [st.pages EXCEPT ![h].prev = p]
  IN [pages |-> [a EXCEPT ![p].prev = NoPage, ![p].nxt = h, ![p].list = l],
      heads |-> [st.heads EXCEPT ![l] = p]]

\* syncDataFreeList.  An empty page goes back to the store (DeletePage).
SyncList(st, p) ==
  LET r == st.pages[p]
      l == FreeSlot(FreeBytes(r.page))
      out == RemoveFree(st, p)
  IN IF l = r.list /\ r.page.items > 0 THEN st
     ELSE IF r.page.items = 0 THEN [out EXCEPT !.pages[p] = Fresh]
     ELSE AddFree(out, p, l)

\* getFreeDataPage: from the list of the least room that does, towards the
\* emptier ones, else a new page.
Candidates(need) == {l \in Lists : l < FirstList(need) /\ heads[l] # NoPage}
Unused == {p \in PageIDs : ~pages[p].live}
FreeDataPage(need) == IF Candidates(need) # {} THEN heads[Max(Candidates(need))] ELSE Min(Unused)
HasPage(need) == Candidates(need) # {} \/ Unused # {}

-----------------------------------------------------------------------------
Block(doc, off, n, extend, next) ==
  [doc |-> doc, off |-> off, n |-> n, extend |-> extend, next |-> next]
SlotAt(a) == pages[a.page].page.slots[a.index]
BlockAt(a) == pages[a.page].page.cells[SlotAt(a).pos]
Slice(st, a) == <<a.page, st.pages[a.page].page.slots[a.index].pos>>

\* DataBlock.SetNextBlock through a slice of the page: it writes where the
\* block was when the slice was taken.
SetNext(st, slice, a) ==
  IF slice[2] \in DOMAIN st.pages[slice[1]].page.cells
  THEN [st EXCEPT !.pages[slice[1]].page.cells[slice[2]].next = a]
  ELSE st

Store(st) == pages' = st.pages /\ heads' = st.heads

\* A block of n bytes in a page with room for it, and its address.
NewBlock(n, extend) ==
  LET p == FreeDataPage(n + BlockHeader + SlotSize)
      r == Insert(pages[p].page, n + BlockHeader, Block(op.doc, op.off, n, extend, NoAddr))
      st == [pages |-> [pages EXCEPT ![p].page = r.page, ![p].live = TRUE], heads |-> heads]
  IN [st |-> SyncList(st, p), addr |-> [page |-> p, index |-> r.index]]

Finished(first) == [first |-> first, len |-> op.len]

StartInsert(d, n) ==
  /\ op.kind = "idle" /\ docs[d] = NoDoc
  /\ op' = [Idle EXCEPT !.kind = "insert", !.doc = d, !.len = n]
  /\ UNCHANGED <<pages, heads, docs>>

\* One turn of InsertDocument.
InsertBlock ==
  /\ op.kind = "insert"
  /\ LET n == Lesser(op.len - op.off, MaxData)
         new == NewBlock(n, op.off > 0)
         first == IF op.first = NoAddr THEN new.addr ELSE op.first
         done == op.off + n >= op.len
     IN /\ HasPage(n + BlockHeader + SlotSize)
        /\ Store(IF op.first = NoAddr THEN new.st ELSE SetNext(new.st, op.last, new.addr))
        /\ op' = IF done THEN Idle
                 ELSE [op EXCEPT !.off = @ + n, !.first = first, !.last = Slice(new.st, new.addr)]
        /\ docs' = IF done THEN [docs EXCEPT ![op.doc] = Finished(first)] ELSE docs

StartUpdate(d, n) ==
  /\ op.kind = "idle" /\ docs[d] # NoDoc
  /\ op' = [Idle EXCEPT !.kind = "update", !.doc = d, !.len = n, !.at = docs[d].first, !.first = docs[d].first]
  /\ UNCHANGED <<pages, heads, docs>>

\* The loop ends when the document is written; what is left of the old
\* chain is cut off and deleted.
AfterTurn(st, n, cur, next) ==
  LET tail == st.pages[cur[1]].page.cells[cur[2]].next
  IN IF op.off + n < op.len
     THEN /\ Store(st) /\ UNCHANGED docs
          /\ op' = [op EXCEPT !.off = @ + n, !.at = next, !.last = cur]
     ELSE /\ docs' = [docs EXCEPT ![op.doc] = Finished(op.first)]
          /\ IF tail = NoAddr THEN Store(st) /\ op' = Idle
             ELSE Store(SetNext(st, cur, NoAddr)) /\ op' = [Idle EXCEPT !.kind = "delete", !.at = tail]

\* A turn of UpdateDocument on a block of the old chain: it grows as far as
\* its page has room.
BlockRoom(a) == FreeBytes(pages[a.page].page) + SlotAt(a).len - BlockHeader
KeptNone(a) == NoAddr
KeptNext(a) == BlockAt(a).next
RewriteBlock ==
  /\ op.kind = "update" /\ op.at # NoAddr
  /\ LET a == op.at
         n == Lesser(op.len - op.off, BlockRoom(a))
         cell == Block(op.doc, op.off, n, op.off > 0, KeptNext(a))
         st == SyncList([pages |-> [pages EXCEPT ![a.page].page = Update(@, a.index, n + BlockHeader, cell)],
                         heads |-> heads], a.page)
     IN AfterTurn(st, n, Slice(st, a), BlockAt(a).next)

\* A turn past the end of the old chain.
AppendBlock ==
  /\ op.kind = "update" /\ op.at = NoAddr
  /\ LET n == Lesser(op.len - op.off, MaxData)
         new == NewBlock(n, TRUE)
     IN /\ HasPage(n + BlockHeader + SlotSize)
        /\ AfterTurn(SetNext(new.st, op.last, new.addr), n, Slice(new.st, new.addr), NoAddr)

StartDelete(d) ==
  /\ op.kind = "idle" /\ docs[d] # NoDoc
  /\ op' = [Idle EXCEPT !.kind = "delete", !.at = docs[d].first]
  /\ docs' = [docs EXCEPT ![d] = NoDoc]
  /\ UNCHANGED <<pages, heads>>

DeleteBlock ==
  /\ op.kind = "delete"
  /\ LET a == op.at
         next == BlockAt(a).next
     IN /\ Store(SyncList([pages |-> [pages EXCEPT ![a.page].page = Delete(@, a.index)], heads |-> heads], a.page))
        /\ op' = IF next = NoAddr THEN Idle ELSE [op EXCEPT !.at = next]
  /\ UNCHANGED docs

\* The transaction ends without room: what was written is thrown away with
\* it (Transaction.Rollback), which here is starting over.
GiveUp ==
  /\ op.kind \in {"insert", "update"} /\ op.at = NoAddr
  /\ ~HasPage(Lesser(op.len - op.off, MaxData) + BlockHeader + SlotSize)
  /\ pages' = [p \in PageIDs |-> Fresh]
  /\ heads' = [l \in Lists |-> NoPage]
  /\ docs' = [d \in Docs |-> NoDoc]
  /\ op' = Idle

Next ==
  \/ \E d \in Docs, n \in Lens : StartInsert(d, n) \/ StartUpdate(d, n)
  \/ \E d \in Docs : StartDelete(d)
  \/ InsertBlock \/ RewriteBlock \/ AppendBlock \/ DeleteBlock \/ GiveUp

Spec == Init /\ [][Next]_vars

-----------------------------------------------------------------------------
\* Every page stays sound through any sequence of insertions, rewrites and
\* deletions of blocks (page.go): nothing overlaps, no byte is lost from the
\* accounts, and no operation on a page it wrote itself reports corruption.
PagesSound == \A p \in PageIDs : PageSound(pages[p].page)

ChainFrom(a) ==
  LET chain[k \in Nat] ==
        IF k = 0 THEN a
        ELSE LET b == chain[k - 1] IN IF b = NoAddr THEN NoAddr ELSE BlockAt(b).next
  IN chain
LastHop == Cardinality(PageIDs) * MaxItems

\* A document reads back as what was written last (ReadDocument): its chain
\* ends, starts with a block that is no continuation, goes on with blocks
\* that are, and its pieces follow one another up to its length, whatever
\* compacting moved and whichever other documents shared the pages.
DocumentsReadBack ==
  op.kind = "idle" =>
    \A d \in {x \in Docs : docs[x] # NoDoc} :
      LET c == ChainFrom(docs[d].first)
          n == Cardinality({k \in 0..LastHop : c[k] # NoAddr})
          b(k) == BlockAt(c[k])
      IN /\ c[LastHop] = NoAddr
         /\ \A k \in 0..(n - 1) :
              /\ b(k).doc = d
              /\ b(k).extend = (k > 0)
              /\ b(k).off + b(k).n = (IF k = n - 1 THEN docs[d].len ELSE b(k + 1).off)
         /\ b(0).off = 0

\* Every data page hangs on the list of the room it has, and on no other,
\* the links of a list agree in both directions, and a page without blocks
\* is back with the store: what getFreeDataPage checks of the page it finds
\* never fails.
Follows(q, p) == pages[p].nxt = q /\ pages[q].prev = p
ListsAgree ==
  \A p \in PageIDs :
    LET r == pages[p]
    IN /\ r.live = (r.page.items > 0)
       /\ r.list = (IF r.live THEN FreeSlot(FreeBytes(r.page)) ELSE NoList)
       /\ r.live /\ r.prev = NoPage => heads[r.list] = p
       /\ \A l \in Lists : heads[l] = p => r.live /\ r.list = l /\ r.prev = NoPage
       /\ r.nxt # NoPage => Follows(r.nxt, p) /\ pages[r.nxt].list = r.list
       /\ r.prev # NoPage => Follows(p, r.prev)
=============================================================================
