---------------------------- MODULE RebuildCopy ----------------------------
(***************************************************************************)
(* What a rebuild carries from a damaged file into the new one             *)
(* (src/rebuild.go copyAll to copySalvagedByID, src/salvage.go): every     *)
(* collection in the order of its primary index; page by page where the    *)
(* index breaks off; and the collections the header no longer knows.       *)
(*                                                                         *)
(* A page holds at most the first block of one document, named after the   *)
(* page, and continuation blocks for whoever links to them.                *)
(***************************************************************************)
EXTENDS Naturals, Sequences, FiniteSets, SequencesExt

CONSTANTS PageCount,  \* pages of the source, the header not counted
          ColIDs,     \* collection ids that pages carry
          NameOf,     \* NameOf[c]: the name of collection c in the header
          orphanName, \* orphanName[c]: the name c gets when it has none
          Batch,      \* documents of one insert, 500 in the code
          maxHops     \* blocks of one document, 4096 in the code

Pages == 1..PageCount

VARIABLES pages,   \* pages[i]: "bad", "other", or a data page
          known,   \* the collections of the header
          breaks,  \* breaks[c]: documents after which the index of c breaks off
          todo,    \* collections copyAll has still to copy
          pc,
          dst,     \* dst[name]: documents in the new file, in order
          res      \* counters of RebuildResult

srcVars == <<pages, known, breaks>>
vars == <<srcVars, todo, pc, dst, res>>

DataPage == [kind : {"data"}, col : ColIDs, head : BOOLEAN, next : {0} \union Pages]
OtherPage == [kind : {"other", "bad"}, col : {0}, head : {FALSE}, next : {0}]
AllNames == {NameOf[c] : c \in ColIDs} \union {orphanName[c] : c \in ColIDs}

Init ==
  /\ pages = [i \in Pages |-> CHOOSE p \in OtherPage : p.kind = "other"]
  /\ known = {}
  /\ breaks = [c \in ColIDs |-> 0]
  /\ todo = <<>>
  /\ pc = "open"
  /\ dst = [n \in AllNames |-> <<>>]
  /\ res = [Documents |-> 0, Collections |-> 0, Salvaged |-> {}, Skipped |-> 0]

-----------------------------------------------------------------------------
\* The file is found in some state: pages unreadable or with links to
\* anywhere, indexes cut off, collections missing in the header.
OpenSource ==
  /\ pc = "open"
  /\ pages' \in [Pages -> DataPage \union OtherPage]
  /\ \A i \in Pages : ~pages'[i].head => pages'[i].next = 0
  /\ known' \in SUBSET ColIDs
  /\ breaks' \in [ColIDs -> {0, PageCount}]
  /\ \A c \in ColIDs \ known' : breaks'[c] = 0
  /\ todo' = SetToSeq(known')
  /\ pc' = "copy"
  /\ UNCHANGED <<dst, res>>

\* salvage.readDocument: along the chain of blocks, for at most maxHops.
Readable(i) ==
  LET at[h \in 0..(maxHops + 1)] ==
        IF h = 0 THEN i ELSE IF at[h - 1] = 0 THEN 0 ELSE pages[at[h - 1]].next
  IN /\ \A h \in 0..(maxHops + 1) : at[h] # 0 => pages[at[h]].kind = "data"
     /\ at[maxHops + 1] = 0

IsHead(i, c) == pages[i].kind = "data" /\ pages[i].col = c /\ pages[i].head
HeadsOf(c) == SetToSortSeq({i \in Pages : IsHead(i, c)}, <)

\* salvage.scan: every page, whatever the indexes say; what cannot be read
\* is noted and passed over.
scan(c) == SelectSeq(HeadsOf(c), Readable)
skipped(c) == Cardinality({i \in Pages : pages[i].kind = "bad" \/ (IsHead(i, c) /\ ~Readable(i))})

\* salvage.orphans: the collections that pages name and the header does not.
orphans == {pages[i].col : i \in {j \in Pages : pages[j].kind = "data"}} \ known

\* The walk along the primary index ends at the first document that cannot
\* be read, or where the index is damaged.
Walked(c) ==
  LET heads == HeadsOf(c)
      stops == {k \in 1..Len(heads) : ~Readable(heads[k]) \/ k > breaks[c]}
  IN IF stops = {} THEN heads ELSE SubSeq(heads, 1, Min(stops) - 1)
Complete(c) == Len(Walked(c)) = Len(HeadsOf(c))

\* copyDocuments: whole batches; a batch not full when the walk fails is dropped.
Inserted(c) ==
  LET w == Walked(c)
  IN IF Complete(c) THEN w ELSE SubSeq(w, 1, Len(w) - (Len(w) % Batch))

Count(moved, skips, salvaged) ==
  res' = [res EXCEPT !.Documents = @ + moved, !.Collections = @ + 1,
                     !.Skipped = @ + skips, !.Salvaged = @ \union salvaged]

\* copyAll, one collection.
CopyCollection ==
  /\ pc = "copy" /\ todo # <<>>
  /\ LET c == Head(todo)
         n == NameOf[c]
     IN /\ dst' = [dst EXCEPT ![n] = @ \o Inserted(c)]
        /\ IF Complete(c)
           THEN /\ Count(Len(Inserted(c)), 0, {})
                /\ todo' = Tail(todo)
                /\ pc' = "copy"
           ELSE /\ res' = [res EXCEPT !.Documents = @ + Len(Inserted(c))]
                /\ pc' = "salvage"
                /\ UNCHANGED todo
  /\ UNCHANGED srcVars

\* salvageCollection: the collection is dropped from the new file and what
\* was counted of it taken back.
ClearedNot(n) == dst[n]
Cleared(n) == <<>>
TakenBackNot(c) == 0
TakenBack(c) == Len(Inserted(c))
SalvageCollection ==
  /\ pc = "salvage"
  /\ LET c == Head(todo)
         n == NameOf[c]
     IN /\ dst' = [dst EXCEPT ![n] = Cleared(n) \o scan(c)]
        /\ res' = [res EXCEPT !.Documents = (@ - TakenBack(c)) + Len(scan(c)),
                              !.Collections = @ + 1, !.Skipped = @ + skipped(c),
                              !.Salvaged = @ \union {n}]
  /\ todo' = Tail(todo)
  /\ pc' = "copy"
  /\ UNCHANGED srcVars

\* copyOrphans, one collection; its name is cleared in the new file first.
CopyOrphan ==
  /\ pc = "copy" /\ todo = <<>>
  /\ \E c \in orphans :
       /\ orphanName[c] \notin res.Salvaged
       /\ \A b \in orphans : orphanName[b] \notin res.Salvaged => c <= b
       /\ dst' = [dst EXCEPT ![orphanName[c]] = scan(c)]
       /\ Count(Len(scan(c)), skipped(c), {orphanName[c]})
  /\ UNCHANGED <<srcVars, todo, pc>>

\* A file that has pages and gave no collection is left alone.
Finish ==
  /\ pc = "copy" /\ todo = <<>>
  /\ \A c \in orphans : orphanName[c] \in res.Salvaged
  /\ pc' = IF res.Collections = 0 THEN "refused" ELSE "done"
  /\ UNCHANGED <<srcVars, todo, dst, res>>

Next == OpenSource \/ CopyCollection \/ SalvageCollection \/ CopyOrphan \/ Finish

Spec == Init /\ [][Next]_vars

-----------------------------------------------------------------------------
CopyNameOf(c) == IF c \in known THEN NameOf[c] ELSE orphanName[c]

\* salvage.go:46: one bad page costs the documents on that page only.  What
\* a scan of the pages can read is in the new file under the name of its
\* collection, once, whether its index is whole or not.
NothingReadableIsLost ==
  pc = "done" => \A c \in known \union orphans : dst[CopyNameOf(c)] = scan(c)

\* The number of documents a rebuild reports is the number in the new file.
CountsTheDocuments ==
  pc = "done" =>
    LET n[S \in SUBSET AllNames] ==
          IF S = {} THEN 0 ELSE LET x == CHOOSE x \in S : TRUE IN Len(dst[x]) + n[S \ {x}]
    IN res.Documents = n[AllNames]
=============================================================================
