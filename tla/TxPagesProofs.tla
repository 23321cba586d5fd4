--------------------------- MODULE TxPagesProofs ----------------------------
(***************************************************************************)
(* What the transactions of TxStore and the store itself have of the pages *)
(* of the database: every page is in the free list, in one collection, or  *)
(* was taken by one transaction that has not given it back.  This module   *)
(* states the invariant, Contents and Ownership, proves what every call    *)
(* does to the working set of a transaction, and proves that no step       *)
(* changes what a page is read as unless it commits.                       *)
(***************************************************************************)
EXTENDS TxStoreProofs

-----------------------------------------------------------------------------
(* Who has which page.  The view of the store these definitions take is    *)
(* either the settled one, or, while headerMu is held across a write of    *)
(* the log, the one that comes when the write is confirmed.                *)

\* Lists of pages: no page twice, what comes first and what comes after, and a
\* store in which the pages of the list are empty and each points to the next.
OneToOne(f) == \A i, j \in DOMAIN f : f[i] = f[j] => i = j
First(ps, end) == IF ps = <<>> THEN end ELSE ps[1]
After(ps, i, end) == IF i < Len(ps) THEN ps[i + 1] ELSE end
Chain(B, ps, end) == \A i \in 1 .. Len(ps) : B[ps[i]] = Empty(After(ps, i, end))

\* Where each collection is, and its page, by a header and a store.
Place(h, B, c) ==
    IF h.table[c] = NoPage THEN [page |-> NoPage, body |-> Blank]
    ELSE [page |-> h.table[c], body |-> B[h.table[c]]]
Places(h, B) == [c \in Cols |-> Place(h, B, c)]

\* All pages of a collection: its own, and those its page names.
Of(K, c) == IF K[c].page = NoPage THEN {} ELSE {K[c].page} \cup K[c].body.pages

\* What a transaction may write to: the pages it took and those of the collections it
\* has locked.  What it leaves to them.
Writes(r) == {c \in Cols : r.snaps[c].mode = "write"}
Took(r) == ToSet(r.newPages)
Mine(K, r) == Took(r) \cup UNION {Of(K, c) : c \in Writes(r)}
Now(K, s, c) ==
    IF ~s.loaded THEN Of(K, c)
    ELSE IF s.body.kind = "coll" THEN {s.coll} \cup s.body.pages ELSE {}
Keeps(K, r) == UNION {Now(K, r.snaps[c], c) : c \in Writes(r)}
Whole(K, s, c) == Now(K, s, c) \cup ({s.coll} \ {NoPage})

\* A page a transaction has in memory, and what it says of a page it has changed.
InMemory(r, p) ==
    \E c \in Writes(r) : \/ p \in DOMAIN r.snaps[c].local
                         \/ r.snaps[c].collDirty /\ p = r.snaps[c].coll
Says(log, r, p, body) ==
    \/ \E c \in Writes(r) : p \in DOMAIN r.snaps[c].local /\ r.snaps[c].local[p].body = body
    \/ \E c \in Writes(r) : r.snaps[c].collDirty /\ p = r.snaps[c].coll /\ r.snaps[c].body = body
    \/ ~InMemory(r, p) /\ p \in DOMAIN r.dirty /\ log[r.dirty[p]].body = body

\* A snapshot for writing.
Opened(K, s, c) ==
    /\ ~s.loaded => s.coll = NoPage /\ DOMAIN s.local = {} /\ ~s.collDirty /\ s.body.kind # "coll"
    /\ s.loaded /\ s.coll = NoPage => K[c].page = NoPage /\ s.body.kind # "coll" /\ ~s.collDirty
    /\ s.loaded /\ s.coll # NoPage =>
           /\ K[c].page # NoPage => s.coll = K[c].page
           /\ ~s.collDirty => s.coll = K[c].page /\ s.body = K[c].body
    /\ s.body.kind = "coll" => s.coll # NoPage /\ s.coll \notin s.body.pages
    /\ s.collDirty => s.body # Blank

\* The collections a transaction writes to share no page.
Disjoint(K, r) ==
    \A c \in Writes(r) :
        /\ Whole(K, r.snaps[c], c) \subseteq Mine(K, r)
        /\ \A d \in Writes(r) : c # d => Whole(K, r.snaps[c], c) \cap Whole(K, r.snaps[d], d) = {}

\* A page changed in memory is the transaction's, is changed in one snapshot, and
\* is used by that snapshot or by none.
Changed(K, r) ==
    \A c \in Writes(r) : \A p \in DOMAIN r.snaps[c].local :
        /\ p \in Mine(K, r)
        /\ p \in Now(K, r.snaps[c], c) \/ p \notin Keeps(K, r)
        /\ r.snaps[c].local[p].dirty /\ r.snaps[c].local[p].body # Blank
        /\ \A d \in Writes(r) : p # r.snaps[d].coll /\ (d # c => p \notin DOMAIN r.snaps[d].local)

\* What was written to the log early is of pages of the transaction, and of
\* collections it has read.
Spills(K, r) ==
    /\ DOMAIN r.dirty \subseteq Mine(K, r)
    /\ \A c \in Writes(r) : ~r.snaps[c].collDirty => K[c].page \notin DOMAIN r.dirty
    /\ \A c \in Writes(r) : ~r.snaps[c].loaded => Of(K, c) \cap DOMAIN r.dirty = {}
LastOf(ds) == IF ds = <<>> THEN NoPage ELSE ds[Len(ds)]

\* The deleted pages, in their order: they are what the transaction has and does
\* not keep, and each of them but the last names the next, in memory or in the log.
Deleted(K, log, r, ds) ==
    /\ ds \in Seq(Pages) /\ OneToOne(ds)
    /\ ToSet(ds) = Mine(K, r) \ Keeps(K, r)
    /\ r.firstDelete = First(ds, NoPage)
    /\ r.lastDelete = LastOf(ds)
    /\ \A i \in 1 .. Len(ds) : i < Len(ds) => Says(log, r, ds[i], Empty(ds[i + 1]))

\* The last deleted page is in the snapshot that deleted it, where a commit finds it.
LastDeleted(r) ==
    r.lastDelete # NoPage =>
        /\ r.lastDeleteColl \in Writes(r) /\ r.snaps[r.lastDeleteColl].loaded
        /\ \A d \in Writes(r) : /\ r.lastDelete # r.snaps[d].coll
                                /\ d # r.lastDeleteColl => r.lastDelete \notin DOMAIN r.snaps[d].local

\* Where the operations registered for the commit put the collections is where
\* the snapshots have them.
Becomes(s) == IF s.body.kind = "coll" THEN s.coll ELSE NoPage
Then(K, r) == Entered([c \in Cols |-> K[c].page], r.onCommit, Len(r.onCommit))
Registered(K, r) ==
    /\ \A i \in DOMAIN r.onCommit : LET c == r.onCommit[i].col IN c \in Writes(r) /\ r.snaps[c].loaded
    /\ \A c \in Writes(r) : r.snaps[c].loaded => Then(K, r)[c] = Becomes(r.snaps[c])

\* The work of an open transaction is in order.
Works(K, log, r) ==
    /\ \A c \in Writes(r) : Opened(K, r.snaps[c], c)
    /\ Disjoint(K, r)
    /\ Changed(K, r)
    /\ Spills(K, r)
    /\ \E ds \in Seq(Pages) : Deleted(K, log, r, ds)
    /\ LastDeleted(r)
    /\ Registered(K, r)
    /\ r.newPages # <<>> => r.headerChanged

\* The free list of a header, and what else there is of pages.
Collected(K) == UNION {Of(K, c) : c \in Cols}
Taken(T, X) == UNION {Took(X[t]) : t \in T}
FreeList(h, B, K, T, X, whole, fs) ==
    /\ fs \in Seq(Pages) /\ OneToOne(fs)
    /\ h.free = First(fs, NoPage)
    /\ Chain(B, fs, NoPage)
    /\ ToSet(fs) \subseteq 1 .. h.last
    /\ \A c \in Cols : ToSet(fs) \cap Of(K, c) = {}
    /\ \A t \in T : ToSet(fs) \cap Took(X[t]) = {}
    /\ whole => 1 .. h.last \subseteq ToSet(fs) \cup Collected(K) \cup Taken(T, X)

\* The pages of the collections, in the file, and of one collection each.
Collections(h, K) ==
    \A c \in Cols :
        /\ K[c].page # NoPage => K[c].body.kind = "coll" /\ K[c].page \notin K[c].body.pages
        /\ Of(K, c) \subseteq 1 .. h.last
        /\ \A d \in Cols : c # d => Of(K, c) \cap Of(K, d) = {}

\* The pages transactions have taken and not given back: nobody else's.
Takers(h, K, T, X) ==
    \A t \in T :
        /\ Took(X[t]) \subseteq 1 .. h.last
        /\ OneToOne(X[t].newPages)
        /\ \A c \in Cols : Took(X[t]) \cap Of(K, c) = {}
        /\ \A u \in T : u # t => Took(X[t]) \cap Took(X[u]) = {} /\ Writes(X[t]) \cap Writes(X[u]) = {}

\* Who has what, by a header and a store, while the transactions in T are open;
\* "whole" says that no page is without an owner.
Shared(h, B, K, log, T, X, whole) ==
    /\ \E fs \in Seq(Pages) : FreeList(h, B, K, T, X, whole, fs)
    /\ Collections(h, K)
    /\ Takers(h, K, T, X)
    /\ \A t \in T : X[t].st = "active" => Works(K, log, X[t])

\* The store as it is read, and as it will be when the pages at offs are confirmed.
Store == [p \in Pages |-> Latest(p)]
Coming(offs) == [p \in Pages |-> IF p \in DOMAIN offs THEN logFile[offs[p]].body ELSE Latest(p)]
OffsOf(r) == IF r.st = "appended" THEN r.dirty ELSE r.offs

\* The invariant: with the header and the store that count now, and, while a
\* transaction that writes the log holds headerMu, with those that will.
Settled == Shared(SettledHeader, Store, Places(SettledHeader, Store), logFile, Txs, tx, faults = 0)
Underway == mu # NoTx =>
    /\ Shared(header, Coming(OffsOf(tx[mu])), Places(header, Coming(OffsOf(tx[mu]))), logFile, Txs \ {mu}, tx, faults = 0)
    /\ DOMAIN OffsOf(tx[mu]) \subseteq {Header} \cup Mine(Places(SettledHeader, Store), tx[mu])
    /\ \A c \in Cols \ Writes(tx[mu]) : header.table[c] = SettledHeader.table[c]

\* A collection that is locked and not read yet was not committed since the
\* snapshot began.
Visible == \A t \in Txs, c \in Cols :
    LET p == SettledHeader.table[c] IN
    c \in Writes(tx[t]) /\ ~tx[t].snaps[c].loaded /\ p # NoPage =>
        \A e \in index[p] : e.version <= tx[t].snaps[c].version

\* A transaction that failed has let its collections go.
Calm == /\ \A t \in Txs : tx[t].st = "aborting" => Writes(tx[t]) = {}
        /\ faults = 0 => ~broken

\* What a page is read as.  Ordered: the newest version of a page is the one that
\* was written last, and it is confirmed.  CutInFront: what has been cut off the log
\* is a beginning of it.  Indexed: everything confirmed is in the index.  Logged:
\* offs leads to the last page of transaction id.  Copied: what a checkpoint has
\* passed is in the data file.
Gone(i) == i \notin DOMAIN logFile \/ logFile[i] = BlankRec
Top(es, e) == e \in es /\ \A f \in es : f # e => f.version < e.version /\ f.offset < e.offset
Ordered ==
    \A p \in Pages :
        /\ index[p] # {} => \E e \in index[p] : Top(index[p], e)
        /\ \A e \in index[p] : At(logFile, p, e.offset) => logFile[e.offset].tx \in confirmed
CutInFront == \A i, j \in 1 .. logEnd : j <= i /\ Gone(i) => Gone(j)
Indexed ==
    \A i \in 1 .. logEnd : ~Gone(i) /\ logFile[i].page # Header /\ logFile[i].tx \in confirmed =>
        \E e \in index[logFile[i].page] : e.offset >= i
Logged(id, offs) ==
    /\ \A i \in 1 .. logEnd : ~Gone(i) /\ logFile[i].page # Header /\ logFile[i].tx = id =>
           logFile[i].page \in DOMAIN offs /\ i <= offs[logFile[i].page]
    /\ \A p \in Pages \cap DOMAIN offs : /\ logFile[offs[p]].tx = id
                                         /\ \A e \in index[p] : e.offset < offs[p]
LoggedAll == \A t \in Txs :
    /\ tx[t].st \in {"active", "appended"} => Logged(tx[t].id, tx[t].dirty)
    /\ tx[t].st = "returning" => Logged(tx[t].retID, tx[t].offs)
NoBlanks == \A i \in DOMAIN logFile : logFile[i].page # Header => logFile[i].body # Blank
Copied == \A p \in Pages :
    /\ ckpt.st = "copy" => \A e \in index[p] : Top(index[p], e) /\ e.offset < ckpt.pos => dataFile[p] = Latest(p)
    /\ ckpt.st \in {"synced", "truncated"} => dataFile[p] = Latest(p)
Contents == Ordered /\ CutInFront /\ Indexed /\ LoggedAll /\ NoBlanks /\ Copied
Ownership == Settled /\ Underway /\ Visible /\ Calm

-----------------------------------------------------------------------------
(* Lists of pages.                                                         *)

\* Two lists with no page in common, the first leading to the second.
LEMMA JoinedLists ==
    ASSUME NEW B, NEW end, NEW ds \in Seq(Pages), NEW fs \in Seq(Pages),
           OneToOne(ds), OneToOne(fs), ToSet(ds) \cap ToSet(fs) = {},
           Chain(B, fs, end), Chain(B, ds, First(fs, end))
    PROVE  /\ ds \o fs \in Seq(Pages) /\ OneToOne(ds \o fs)
           /\ ToSet(ds \o fs) = ToSet(ds) \cup ToSet(fs)
           /\ First(ds \o fs, end) = First(ds, First(fs, end))
           /\ Chain(B, ds \o fs, end)
  <1> DEFINE j == ds \o fs
             m == Len(ds)
             n == Len(fs)
  <1>1. m \in Nat /\ n \in Nat /\ DOMAIN ds = 1 .. m /\ DOMAIN fs = 1 .. n
    BY LenProperties
  <1>2. /\ j \in Seq(Pages) /\ Len(j) = m + n
        /\ \A i \in 1 .. m : j[i] = ds[i]
        /\ \A i \in 1 .. n : j[m + i] = fs[i]
    BY <1>1, ConcatProperties
  <1>3. DOMAIN j = 1 .. m + n
    BY <1>2, LenProperties
  <1> HIDE DEF j, m, n
  <1>4. \A i \in 1 .. m + n : i \in 1 .. m \/ (i - m \in 1 .. n /\ m + (i - m) = i)
    BY <1>1
  <1>5. \A i \in 1 .. m + n : IF i \in 1 .. m THEN j[i] = ds[i] ELSE i - m \in 1 .. n /\ j[i] = fs[i - m]
    BY <1>2, <1>4
  <1>6. \A i \in 1 .. m : i \in 1 .. m + n
    BY <1>1
  <1>7. \A i \in 1 .. n : m + i \in 1 .. m + n
    BY <1>1
  <1>8. ToSet(j) = ToSet(ds) \cup ToSet(fs)
    BY <1>1, <1>2, <1>3, <1>5, <1>6, <1>7, ZenonT(60) DEF ToSet
  <1>9. OneToOne(j)
    <2> SUFFICES ASSUME NEW i \in 1 .. m + n, NEW k \in 1 .. m + n, j[i] = j[k] PROVE i = k
      BY <1>3 DEF OneToOne
    <2>1. CASE i \in 1 .. m /\ k \in 1 .. m
      BY <2>1, <1>1, <1>5 DEF OneToOne
    <2>2. CASE i \notin 1 .. m /\ k \notin 1 .. m
      <3>1. i - m \in 1 .. n /\ k - m \in 1 .. n /\ fs[i - m] = fs[k - m]
        BY <2>2, <1>5
      <3>2. i - m = k - m
        BY <3>1, <1>1 DEF OneToOne
      <3>3. QED
        BY <3>2, <1>1
    <2>3. CASE ~ (i \in 1 .. m <=> k \in 1 .. m)
      BY <2>3, <1>1, <1>5 DEF ToSet
    <2>4. QED
      BY <2>1, <2>2, <2>3
  <1>10. ds = <<>> <=> m = 0
    BY EmptySeq DEF m
  <1>11. fs = <<>> <=> n = 0
    BY EmptySeq DEF n
  <1>12. j = <<>> <=> m + n = 0
    BY <1>2, EmptySeq
  <1>13. First(j, end) = First(ds, First(fs, end))
    BY <1>1, <1>2, <1>10, <1>11, <1>12 DEF First
  <1>14. Chain(B, j, end)
    <2> SUFFICES ASSUME NEW i \in 1 .. m + n PROVE B[j[i]] = Empty(After(j, i, end))
      BY <1>2 DEF Chain
    <2>1. CASE i \in 1 .. m
      BY <1>1, <1>2, <1>5, <1>11, <2>1 DEF Chain, m, After, First
    <2>2. CASE i \notin 1 .. m
      <3> DEFINE k == i - m
      <3>1. k \in 1 .. n /\ j[i] = fs[k] /\ i = m + k
        BY <2>2, <1>5, <1>4
      <3>2. B[fs[k]] = Empty(After(fs, k, end))
        BY <3>1 DEF Chain, n
      <3> HIDE DEF k
      <3>3. After(j, i, end) = After(fs, k, end)
        BY <1>1, <1>2, <3>1 DEF After, n
      <3>4. QED
        BY <3>1, <3>2, <3>3
    <2>3. QED
      BY <2>1, <2>2
  <1>15. QED
    BY <1>2, <1>8, <1>9, <1>13, <1>14 DEF j

\* What is left of a list when its first page is taken.
LEMMA TailOfList ==
    ASSUME NEW B, NEW end, NEW fs \in Seq(Pages), fs # <<>>, OneToOne(fs), Chain(B, fs, end)
    PROVE  /\ Tail(fs) \in Seq(Pages) /\ OneToOne(Tail(fs))
           /\ fs[1] \in ToSet(fs) /\ ToSet(Tail(fs)) = ToSet(fs) \ {fs[1]}
           /\ B[fs[1]] = Empty(First(Tail(fs), end))
           /\ Chain(B, Tail(fs), end)
  <1> DEFINE g == Tail(fs)
             n == Len(fs)
  <1>1. n \in Nat /\ n # 0 /\ DOMAIN fs = 1 .. n
    BY LenProperties, EmptySeq
  <1>2. g \in Seq(Pages) /\ Len(g) = n - 1 /\ \A i \in 1 .. n - 1 : g[i] = fs[i + 1]
    BY HeadTailProperties
  <1>3. DOMAIN g = 1 .. n - 1
    BY <1>2, LenProperties
  <1>4. g = <<>> <=> n = 1
    <2>1. g = <<>> <=> Len(g) = 0
      BY <1>2, EmptySeq
    <2>2. Len(g) = 0 <=> n = 1
      BY <1>1, <1>2
    <2>3. QED
      BY <2>1, <2>2
  <1> HIDE DEF g, n
  <1>5. \A i \in 1 .. n - 1 : i + 1 \in 1 .. n /\ i + 1 # 1 /\ i \in Int
    BY <1>1
  <1>6. \A i \in 1 .. n : i = 1 \/ (i - 1 \in 1 .. n - 1 /\ (i - 1) + 1 = i)
    BY <1>1
  <1>7. 1 \in 1 .. n
    BY <1>1
  <1>8. ToSet(g) = ToSet(fs) \ {fs[1]}
    <2>1. \A i \in 1 .. n - 1 : g[i] \in ToSet(fs) /\ g[i] # fs[1]
      BY <1>1, <1>2, <1>5, <1>7 DEF ToSet, OneToOne
    <2>2. \A i \in 1 .. n : fs[i] # fs[1] => \E k \in 1 .. n - 1 : g[k] = fs[i]
      BY <1>2, <1>6
    <2>3. ToSet(g) = {g[i] : i \in 1 .. n - 1} /\ ToSet(fs) = {fs[i] : i \in 1 .. n}
      BY <1>1, <1>3 DEF ToSet
    <2>4. QED
      BY <2>1, <2>2, <2>3
  <1>9. OneToOne(g)
    <2> SUFFICES ASSUME NEW i \in 1 .. n - 1, NEW k \in 1 .. n - 1, g[i] = g[k] PROVE i = k
      BY <1>3 DEF OneToOne
    <2>1. i + 1 = k + 1
      BY <1>1, <1>2, <1>5 DEF OneToOne
    <2>2. QED
      BY <2>1, <1>5
  <1>10. B[fs[1]] = Empty(First(g, end))
    BY <1>1, <1>2, <1>4, <1>7 DEF Chain, n, After, First
  <1>11. Chain(B, g, end)
    <2> SUFFICES ASSUME NEW i \in 1 .. n - 1 PROVE B[g[i]] = Empty(After(g, i, end))
      BY <1>2 DEF Chain
    <2>1. g[i] = fs[i + 1] /\ i + 1 \in 1 .. n
      BY <1>2, <1>5
    <2>2. B[fs[i + 1]] = Empty(After(fs, i + 1, end))
      BY <2>1 DEF Chain, n
    <2>3. CASE i + 1 < n
      BY <1>1, <1>2, <1>5, <2>1, <2>2, <2>3 DEF After, n
    <2>4. CASE ~ (i + 1 < n)
      BY <1>1, <1>2, <1>5, <2>1, <2>2, <2>4 DEF After, n
    <2>5. QED
      BY <2>3, <2>4
  <1>12. fs[1] \in ToSet(fs)
    BY <1>1, <1>7 DEF ToSet
  <1>13. QED
    BY <1>2, <1>8, <1>9, <1>10, <1>11, <1>12 DEF g

-----------------------------------------------------------------------------
(* What a transaction does before it commits.                              *)

\* Work rests only on the collections the transaction has locked, on what it has
\* spilled, and on the snapshots it opened for writing.
LEMMA SameWork ==
    ASSUME NEW K, NEW K2, NEW log, NEW log2, NEW r, NEW r2, Works(K, log, r),
           Writes(r2) = Writes(r), \A c \in Writes(r) : r2.snaps[c] = r.snaps[c],
           \A c \in Writes(r) : K2[c] = K[c],
           r2.dirty = r.dirty, \A p \in DOMAIN r.dirty : log2[r.dirty[p]] = log[r.dirty[p]],
           r2.newPages = r.newPages, r2.firstDelete = r.firstDelete, r2.lastDelete = r.lastDelete,
           r2.lastDeleteColl = r.lastDeleteColl, r2.onCommit = r.onCommit,
           r2.headerChanged = r.headerChanged
    PROVE  Works(K2, log2, r2) /\ Mine(K2, r2) = Mine(K, r)
  <1>1. \A c \in Writes(r) : Of(K2, c) = Of(K, c)
    BY DEF Of
  <1>2. \A c \in Writes(r) : Now(K2, r2.snaps[c], c) = Now(K, r.snaps[c], c)
    BY <1>1 DEF Now
  <1>3. \A c \in Writes(r) : Whole(K2, r2.snaps[c], c) = Whole(K, r.snaps[c], c)
    BY <1>2 DEF Whole
  <1>4. Mine(K2, r2) = Mine(K, r)
    BY <1>1 DEF Mine, Took
  <1>5. Keeps(K2, r2) = Keeps(K, r)
    BY <1>2 DEF Keeps
  <1>6. \A p : InMemory(r2, p) <=> InMemory(r, p)
    BY DEF InMemory
  <1>7. \A p, b : Says(log, r, p, b) => Says(log2, r2, p, b)
    BY <1>6 DEF Says
  <1>8. \A c \in Writes(r2) : Opened(K2, r2.snaps[c], c)
    BY DEF Works, Opened
  <1>9. Disjoint(K2, r2)
    BY <1>3, <1>4 DEF Works, Disjoint
  <1>10. Changed(K2, r2)
    BY <1>2, <1>4, <1>5 DEF Works, Changed
  <1>11. Spills(K2, r2)
    BY <1>1, <1>4 DEF Works, Spills
  <1>12. \E ds \in Seq(Pages) : Deleted(K2, log2, r2, ds)
    BY <1>4, <1>5, <1>7 DEF Works, Deleted
  <1>13. LastDeleted(r2)
    BY DEF Works, LastDeleted
  <1>14. Registered(K2, r2)
    <2>1. \A c \in Writes(r) : c \in Cols /\ Then(K2, r2)[c] = Then(K, r)[c]
      BY DEF Then, Entered, Writes
    <2>2. QED
      BY <2>1 DEF Works, Registered
  <1>15. r2.newPages # <<>> => r2.headerChanged
    BY DEF Works
  <1>16. QED
    BY <1>4, <1>8, <1>9, <1>10, <1>11, <1>12, <1>13, <1>14, <1>15 DEF Works

\* A transaction that has just begun.
LEMMA NoWork ==
    ASSUME NEW K, NEW log, NEW r, Writes(r) = {}, r.newPages = <<>>, DOMAIN r.dirty = {},
           r.firstDelete = NoPage, r.lastDelete = NoPage, r.onCommit = <<>>
    PROVE  Works(K, log, r)
  <1>1. Mine(K, r) = {} /\ Keeps(K, r) = {}
    BY DEF Mine, Keeps, Took, ToSet
  <1>2. <<>> \in Seq(Pages) /\ Len(<<>>) = 0 /\ ToSet(<<>>) = {} /\ OneToOne(<<>>) /\ DOMAIN <<>> = {}
    BY EmptySeq DEF ToSet, OneToOne
  <1>3. Deleted(K, log, r, <<>>)
    BY <1>1, <1>2 DEF Deleted, First, LastOf
  <1>4. Registered(K, r)
    BY <1>2 DEF Registered
  <1>5. QED
    BY <1>1, <1>2, <1>3, <1>4 DEF Works, Disjoint, Changed, Spills, LastDeleted

\* A change of one snapshot: L are the pages it changes, F the page it takes.
Edit(K, r, r2, c, F, L) ==
    LET s == r.snaps[c]
        s2 == r2.snaps[c]
        keeps == Now(K, s, c) \cup F
    IN  /\ Writes(r2) = Writes(r) /\ \A d \in Writes(r) : d # c => r2.snaps[d] = r.snaps[d]
        /\ r2.dirty = r.dirty
        /\ Took(r2) = Took(r) \cup F /\ F \cap Mine(K, r) = {} /\ NoPage \notin F \cup L
        /\ Now(K, s2, c) \subseteq keeps
        /\ s2.coll \in keeps \cup {s.coll}
        /\ DOMAIN s2.local = L \cup DOMAIN s.local /\ L \subseteq keeps
        /\ \A p \in L : s2.local[p].dirty /\ s2.local[p].body # Blank
        /\ \A p \in DOMAIN s.local \ L : s2.local[p] = s.local[p]
        /\ \A p \in DOMAIN s2.local : p # s2.coll
        /\ s.collDirty => s2.collDirty /\ s.coll \in Now(K, s, c)
        /\ s2.collDirty => s2.coll \in keeps
        /\ s2.loaded

Edited(K, log, r, r2, c, F) ==
    /\ Mine(K, r2) = Mine(K, r) \cup F
    /\ Keeps(K, r2) = (Keeps(K, r) \ Now(K, r.snaps[c], c)) \cup Now(K, r2.snaps[c], c)
    /\ Now(K, r.snaps[c], c) \subseteq Keeps(K, r) /\ Keeps(K, r) \subseteq Mine(K, r)
    /\ Disjoint(K, r2) /\ Changed(K, r2) /\ Spills(K, r2)
    /\ \A p \in Mine(K, r) \ Keeps(K, r) : \A b : Says(log, r, p, b) => Says(log, r2, p, b)
    /\ (/\ r2.lastDelete \in {NoPage} \cup (Mine(K, r) \ Keeps(K, r))
        /\ r2.lastDelete = r.lastDelete
        /\ r2.lastDeleteColl = r.lastDeleteColl) => LastDeleted(r2)
    /\ \A d \in Writes(r) : d # c => r2.snaps[d] = r.snaps[d]
    /\ Writes(r2) = Writes(r)

\* After such a change the snapshots are still apart, and the deleted pages still say
\* what they said.
LEMMA EditIs ==
    ASSUME NEW K, NEW log, NEW r, NEW r2, NEW c \in Writes(r), NEW F, NEW L, Works(K, log, r),
           Edit(K, r, r2, c, F, L)
    PROVE  Edited(K, log, r, r2, c, F)
  <1>0. /\ Writes(r2) = Writes(r) /\ \A d \in Writes(r) : d # c => r2.snaps[d] = r.snaps[d]
        /\ r2.dirty = r.dirty
        /\ Took(r2) = Took(r) \cup F /\ F \cap Mine(K, r) = {} /\ NoPage \notin F \cup L
        /\ Now(K, r2.snaps[c], c) \subseteq Now(K, r.snaps[c], c) \cup F
        /\ r2.snaps[c].coll \in Now(K, r.snaps[c], c) \cup F \cup {r.snaps[c].coll}
        /\ DOMAIN r2.snaps[c].local = L \cup DOMAIN r.snaps[c].local
        /\ L \subseteq Now(K, r.snaps[c], c) \cup F
        /\ \A p \in L : r2.snaps[c].local[p].dirty /\ r2.snaps[c].local[p].body # Blank
        /\ \A p \in DOMAIN r.snaps[c].local \ L : r2.snaps[c].local[p] = r.snaps[c].local[p]
        /\ \A p \in DOMAIN r2.snaps[c].local : p # r2.snaps[c].coll
        /\ r.snaps[c].collDirty => r2.snaps[c].collDirty
        /\ r.snaps[c].collDirty => r.snaps[c].coll \in Now(K, r.snaps[c], c)
        /\ r2.snaps[c].collDirty => r2.snaps[c].coll \in Now(K, r.snaps[c], c) \cup F
        /\ r2.snaps[c].loaded
    BY DEF Edit
  <1> USE <1>0
  <1> DEFINE s == r.snaps[c]
             s2 == r2.snaps[c]
             W == Writes(r)
             M == Mine(K, r)
             N(d) == Now(K, r.snaps[d], d)
             N2(d) == Now(K, r2.snaps[d], d)
             All(d) == Whole(K, r.snaps[d], d)
             All2(d) == Whole(K, r2.snaps[d], d)
  <1>1. \A d \in W : d # c => N2(d) = N(d) /\ All2(d) = All(d)
    OBVIOUS
  <1>2. \A d \in W : N(d) \subseteq All(d) /\ (r.snaps[d].coll # NoPage => r.snaps[d].coll \in All(d))
    BY DEF Whole
  <1>3. All2(c) \subseteq All(c) \cup F
    BY DEF Whole
  <1>4. \A d \in W : All(d) \subseteq M /\ \A e \in W : d # e => All(d) \cap All(e) = {}
    BY DEF Works, Disjoint
  <1>5. Mine(K, r2) = M \cup F
    BY DEF Mine
  <1>6. Keeps(K, r) = UNION {N(d) : d \in W} /\ Keeps(K, r2) = UNION {N2(d) : d \in W}
    BY DEF Keeps
  <1>7. \A d \in W : d # c => N(d) \cap N(c) = {} /\ N(d) \cap F = {} /\ N2(d) \cap N2(c) = {}
    BY <1>1, <1>2, <1>3, <1>4
  <1>8. Keeps(K, r2) = (Keeps(K, r) \ N(c)) \cup N2(c)
    BY <1>1, <1>6, <1>7
  <1>9. \A d \in W : \A p \in DOMAIN r.snaps[d].local :
            /\ p \in M
            /\ p \in N(d) \/ p \notin Keeps(K, r)
            /\ r.snaps[d].local[p].dirty /\ r.snaps[d].local[p].body # Blank
            /\ \A e \in W : p # r.snaps[e].coll /\ (e # d => p \notin DOMAIN r.snaps[e].local)
    BY DEF Works, Changed
  <1>10. Keeps(K, r2) \subseteq Keeps(K, r) \cup F /\ Keeps(K, r) \subseteq M
    BY <1>8, <1>2, <1>4, <1>6
  <1> HIDE DEF M, N, N2, All, All2, W
  <1>11. Disjoint(K, r2)
    BY <1>1, <1>3, <1>4, <1>5 DEF W, M, Disjoint, All2
  <1>12. \A d \in W : d # c => \A p \in DOMAIN r.snaps[d].local :
             p \notin N(c) /\ p \notin F /\ p # s.coll /\ p \notin DOMAIN s.local
    BY <1>6, <1>7, <1>9 DEF W, M
  <1>13. Changed(K, r2)
    <2>1. ASSUME NEW d \in W, NEW p \in DOMAIN r2.snaps[d].local
          PROVE  /\ p \in M \cup F
                 /\ p \in N2(d) \/ p \notin Keeps(K, r2)
                 /\ r2.snaps[d].local[p].dirty /\ r2.snaps[d].local[p].body # Blank
                 /\ \A e \in W : p # r2.snaps[e].coll /\ (e # d => p \notin DOMAIN r2.snaps[e].local)
      <3>1. CASE d # c
        BY <1>1, <1>9, <1>10, <1>12, <3>1 DEF W, N
      <3>2. CASE d = c
        <4>1. p \in L \/ p \in DOMAIN s.local
          BY <3>2
        <4>2. p \in M \cup F
          BY <4>1, <1>2, <1>4, <1>9 DEF N, W
        <4>3. p \in N2(c) \/ p \notin Keeps(K, r2)
          BY <1>8, <1>9, <1>10, <4>1 DEF N, W, M
        <4>4. s2.local[p].dirty /\ s2.local[p].body # Blank
          BY <4>1, <1>9 DEF W
        <4>5. ASSUME NEW e \in W, e # c PROVE p # r.snaps[e].coll /\ p \notin DOMAIN r.snaps[e].local
          BY <1>2, <1>4, <1>9, <1>12, <4>1, <4>5 DEF W, N, M
        <4>6. QED
          BY <3>2, <4>2, <4>3, <4>4, <4>5 DEF W
      <3>3. QED
        BY <3>1, <3>2
    <2>2. QED
      BY <2>1, <1>5 DEF Changed, W, N2
  <1>14. Spills(K, r2)
    BY <1>5 DEF Works, Spills, M
  <1>15. ASSUME NEW p \in M \ Keeps(K, r)
         PROVE  /\ InMemory(r2, p) <=> InMemory(r, p)
                /\ \A b : Says(log, r, p, b) => Says(log, r2, p, b)
    BY <1>6 DEF M, W, N, InMemory, Says
  <1>16. ASSUME r2.lastDelete \in {NoPage} \cup (M \ Keeps(K, r)), r2.lastDelete = r.lastDelete,
                r2.lastDeleteColl = r.lastDeleteColl
         PROVE  LastDeleted(r2)
    BY <1>6, <1>16 DEF M, W, Works, LastDeleted, N
  <1>17. \A p \in M \ Keeps(K, r) : \A b : Says(log, r, p, b) => Says(log, r2, p, b)
    BY <1>15
  <1>18. Keeps(K, r2) = (Keeps(K, r) \ Now(K, r.snaps[c], c)) \cup Now(K, r2.snaps[c], c)
    BY <1>8 DEF N, N2
  <1>20. Now(K, r.snaps[c], c) \subseteq Keeps(K, r)
    BY <1>6 DEF N, W
  <1>21. QED
    BY <1>5, <1>10, <1>11, <1>13, <1>14, <1>16, <1>17, <1>18, <1>20 DEF Edited, M

\* The first and the last of a list.
LEMMA LastIsOne ==
    ASSUME NEW ds \in Seq(Pages)
    PROVE  /\ LastOf(ds) \in {NoPage} \cup ToSet(ds) /\ First(ds, NoPage) \in {NoPage} \cup ToSet(ds)
           /\ LastOf(ds) = NoPage <=> ds = <<>>
           /\ First(ds, NoPage) = NoPage <=> ds = <<>>
           /\ ToSet(ds) \subseteq Pages
  BY LenProperties, EmptySeq, ElementOfSeq, PageIds DEF LastOf, First, ToSet

\* No operation is registered for a collection that is not read.
LEMMA NothingYet ==
    ASSUME NEW K, NEW r \in TxRecs, Registered(K, r), NEW c \in Cols,
           c \notin Writes(r) \/ ~r.snaps[c].loaded
    PROVE  Then(K, r)[c] = K[c].page
  <1>1. DOMAIN r.onCommit = 1 .. Len(r.onCommit)
    BY TxIs, LenProperties
  <1>2. \A i \in 1 .. Len(r.onCommit) : r.onCommit[i].col # c
    BY <1>1 DEF Registered
  <1>3. QED
    BY <1>2 DEF Then, Entered

\* One collection more is locked; nothing of it was spilled.
LEMMA SpillsMore ==
    ASSUME NEW K, NEW r, NEW r2, NEW c, Spills(K, r), Mine(K, r) \subseteq Mine(K, r2),
           Writes(r2) = Writes(r) \cup {c}, r2.dirty = r.dirty,
           \A d \in Writes(r) : r2.snaps[d] = r.snaps[d],
           Of(K, c) \cap DOMAIN r.dirty = {}, K[c].page \notin DOMAIN r.dirty
    PROVE  Spills(K, r2)
  BY DEF Spills

\* A collection is locked, its page not read yet.
LEMMA OpenedWork ==
    ASSUME NEW K, NEW log, NEW r, NEW r2, NEW c \in Cols, Works(K, log, r), c \notin Writes(r),
           Writes(r2) = Writes(r) \cup {c}, \A d \in Writes(r) : r2.snaps[d] = r.snaps[d],
           ~r2.snaps[c].loaded, r2.snaps[c].coll = NoPage, DOMAIN r2.snaps[c].local = {},
           ~r2.snaps[c].collDirty, r2.snaps[c].body.kind # "coll",
           Of(K, c) \cap Mine(K, r) = {}, NoPage \notin Mine(K, r), NoPage \notin Of(K, c),
           r2.dirty = r.dirty, r2.newPages = r.newPages, r2.firstDelete = r.firstDelete,
           r2.lastDelete = r.lastDelete, r2.lastDeleteColl = r.lastDeleteColl,
           r2.onCommit = r.onCommit, r2.headerChanged = r.headerChanged
    PROVE  Works(K, log, r2)
  <1> DEFINE W == Writes(r)
             M == Mine(K, r)
             N(d) == Now(K, r.snaps[d], d)
             N2(d) == Now(K, r2.snaps[d], d)
             All(d) == Whole(K, r.snaps[d], d)
             All2(d) == Whole(K, r2.snaps[d], d)
  <1>1. \A d \in W : N2(d) = N(d) /\ All2(d) = All(d) /\ N(d) \subseteq All(d)
    BY DEF Whole
  <1>2. N2(c) = Of(K, c) /\ All2(c) = Of(K, c)
    BY DEF Now, Whole
  <1>3. Mine(K, r2) = M \cup Of(K, c)
    BY DEF Mine, Took
  <1>4. Keeps(K, r2) = Keeps(K, r) \cup Of(K, c)
    BY <1>1, <1>2 DEF Keeps
  <1>5. \A d \in W : All(d) \subseteq M /\ \A e \in W : d # e => All(d) \cap All(e) = {}
    BY DEF Works, Disjoint
  <1>6. \A p : InMemory(r2, p) <=> InMemory(r, p)
    BY DEF InMemory
  <1>7. \A p, b : Says(log, r, p, b) => Says(log, r2, p, b)
    BY <1>6 DEF Says
  <1>8. \A d \in Writes(r2) : Opened(K, r2.snaps[d], d)
    BY DEF Works, Opened
  <1>9. Disjoint(K, r2)
    BY <1>1, <1>2, <1>3, <1>5 DEF Disjoint
  <1>10. Changed(K, r2)
    BY <1>1, <1>3, <1>4 DEF Works, Changed
  <1>11. Spills(K, r2)
    BY <1>3, SpillsMore DEF Of, Works, Spills
  <1>12. \E ds \in Seq(Pages) : Deleted(K, log, r2, ds)
    BY <1>1, <1>3, <1>4, <1>5, <1>7 DEF Keeps, Works, Deleted
  <1>13. LastDeleted(r2)
    BY DEF Works, LastDeleted
  <1>14. Registered(K, r2)
    BY DEF Then, Works, Registered
  <1>15. QED
    BY <1>8, <1>9, <1>10, <1>11, <1>12, <1>13, <1>14 DEF Works

\* The work is in order afterwards, and F is what the transaction has more.
Kept(K, log, r, r2, F) == Works(K, log, r2) /\ Mine(K, r2) = Mine(K, r) \cup F

\* What is deleted stays as it is.
Keeping(K, log, r, r2, c, F, L) ==
    /\ Works(K, log, r) /\ Edit(K, r, r2, c, F, L)
    /\ Now(K, r2.snaps[c], c) = Now(K, r.snaps[c], c) \cup F
    /\ r2.firstDelete = r.firstDelete /\ r2.lastDelete = r.lastDelete
    /\ r2.lastDeleteColl = r.lastDeleteColl
    /\ Opened(K, r2.snaps[c], c) /\ Registered(K, r2)
    /\ r2.newPages # <<>> => r2.headerChanged

\* A change that deletes nothing.
LEMMA KeptWork ==
    ASSUME NEW K, NEW log, NEW r, NEW r2, NEW c \in Writes(r), NEW F, NEW L,
           Keeping(K, log, r, r2, c, F, L)
    PROVE  Kept(K, log, r, r2, F)
  <1>0. /\ Works(K, log, r) /\ Edit(K, r, r2, c, F, L)
        /\ Now(K, r2.snaps[c], c) = Now(K, r.snaps[c], c) \cup F
        /\ r2.firstDelete = r.firstDelete /\ r2.lastDelete = r.lastDelete
        /\ r2.lastDeleteColl = r.lastDeleteColl
        /\ Opened(K, r2.snaps[c], c) /\ Registered(K, r2)
        /\ r2.newPages # <<>> => r2.headerChanged
    BY DEF Keeping
  <1> USE <1>0
  <1>1. /\ Mine(K, r2) = Mine(K, r) \cup F
        /\ Keeps(K, r2) = (Keeps(K, r) \ Now(K, r.snaps[c], c)) \cup Now(K, r2.snaps[c], c)
        /\ Now(K, r.snaps[c], c) \subseteq Keeps(K, r) /\ Keeps(K, r) \subseteq Mine(K, r)
        /\ Disjoint(K, r2) /\ Changed(K, r2) /\ Spills(K, r2)
        /\ \A p \in Mine(K, r) \ Keeps(K, r) : \A b : Says(log, r, p, b) => Says(log, r2, p, b)
        /\ (/\ r2.lastDelete \in {NoPage} \cup (Mine(K, r) \ Keeps(K, r))
            /\ r2.lastDelete = r.lastDelete
            /\ r2.lastDeleteColl = r.lastDeleteColl) => LastDeleted(r2)
        /\ \A d \in Writes(r) : d # c => r2.snaps[d] = r.snaps[d]
        /\ Writes(r2) = Writes(r)
    BY EditIs DEF Edited
  <1>2. F \cap Mine(K, r) = {}
    BY DEF Edit
  <1>3. Mine(K, r2) \ Keeps(K, r2) = Mine(K, r) \ Keeps(K, r)
    BY <1>1, <1>2
  <1>4. PICK ds \in Seq(Pages) : Deleted(K, log, r, ds)
    BY DEF Works
  <1>5. Deleted(K, log, r2, ds)
    <2>1. \A i \in 1 .. Len(ds) : ds[i] \in ToSet(ds)
      BY <1>4, LenProperties DEF ToSet
    <2>2. \A i \in 1 .. Len(ds) : i < Len(ds) => Says(log, r2, ds[i], Empty(ds[i + 1]))
      BY <2>1, <1>1, <1>4 DEF Deleted
    <2>3. QED
      BY <2>2, <1>3, <1>4 DEF Deleted
  <1>6. LastDeleted(r2)
    BY <1>1, <1>4, LastIsOne DEF Deleted
  <1>7. \A d \in Writes(r2) : Opened(K, r2.snaps[d], d)
    BY <1>1 DEF Works
  <1>8. QED
    BY <1>1, <1>5, <1>6, <1>7 DEF Works, Kept

\* A page more is deleted: it comes first.
Deleting(K, log, r, r2, c, L, p) ==
    /\ Works(K, log, r) /\ Edit(K, r, r2, c, {}, L)
    /\ p \in Now(K, r.snaps[c], c)
    /\ Now(K, r2.snaps[c], c) = Now(K, r.snaps[c], c) \ {p}
    /\ r2.firstDelete = p
    /\ r2.lastDelete = IF r.firstDelete = NoPage THEN p ELSE r.lastDelete
    /\ r2.lastDeleteColl = IF r.firstDelete = NoPage THEN c ELSE r.lastDeleteColl
    /\ r.firstDelete = NoPage => p \in DOMAIN r2.snaps[c].local
    /\ Says(log, r2, p, Empty(r.firstDelete))
    /\ Opened(K, r2.snaps[c], c) /\ Registered(K, r2)
    /\ r2.newPages # <<>> => r2.headerChanged

\* A change that deletes a page.
LEMMA DeletedWork ==
    ASSUME NEW K, NEW log, NEW r, NEW r2, NEW c \in Writes(r), NEW L, NEW p \in Pages,
           Deleting(K, log, r, r2, c, L, p)
    PROVE  Kept(K, log, r, r2, {})
  <1>00. /\ Works(K, log, r) /\ Edit(K, r, r2, c, {}, L)
         /\ p \in Now(K, r.snaps[c], c)
         /\ Now(K, r2.snaps[c], c) = Now(K, r.snaps[c], c) \ {p}
         /\ r2.firstDelete = p
         /\ r2.lastDelete = IF r.firstDelete = NoPage THEN p ELSE r.lastDelete
         /\ r2.lastDeleteColl = IF r.firstDelete = NoPage THEN c ELSE r.lastDeleteColl
         /\ r.firstDelete = NoPage => p \in DOMAIN r2.snaps[c].local
         /\ Says(log, r2, p, Empty(r.firstDelete))
         /\ Opened(K, r2.snaps[c], c) /\ Registered(K, r2)
         /\ r2.newPages # <<>> => r2.headerChanged
    BY DEF Deleting
  <1> USE <1>00
  <1> DEFINE F == {}
  <1> HIDE DEF F
  <1>0. F = {}
    BY DEF F
  <1>1. /\ Mine(K, r2) = Mine(K, r) \cup F
        /\ Keeps(K, r2) = (Keeps(K, r) \ Now(K, r.snaps[c], c)) \cup Now(K, r2.snaps[c], c)
        /\ Now(K, r.snaps[c], c) \subseteq Keeps(K, r) /\ Keeps(K, r) \subseteq Mine(K, r)
        /\ Disjoint(K, r2) /\ Changed(K, r2) /\ Spills(K, r2)
        /\ \A q \in Mine(K, r) \ Keeps(K, r) : \A b : Says(log, r, q, b) => Says(log, r2, q, b)
        /\ (/\ r2.lastDelete \in {NoPage} \cup (Mine(K, r) \ Keeps(K, r))
            /\ r2.lastDelete = r.lastDelete
            /\ r2.lastDeleteColl = r.lastDeleteColl) => LastDeleted(r2)
        /\ \A d \in Writes(r) : d # c => r2.snaps[d] = r.snaps[d]
        /\ Writes(r2) = Writes(r)
    <2>1. Edit(K, r, r2, c, F, L)
      BY <1>0
    <2>2. Edited(K, log, r, r2, c, F)
      BY <2>1, EditIs
    <2>3. QED
      BY <2>2 DEF Edited
  <1>2. Mine(K, r2) \ Keeps(K, r2) = {p} \cup (Mine(K, r) \ Keeps(K, r))
    BY <1>0, <1>1
  <1>3. PICK ds \in Seq(Pages) : Deleted(K, log, r, ds)
    BY DEF Works
  <1> DEFINE es == <<p>> \o ds
             n == Len(ds)
  <1>4. n \in Nat /\ DOMAIN ds = 1 .. n /\ (ds = <<>> <=> n = 0)
    BY LenProperties, EmptySeq
  <1>5. <<p>> \in Seq(Pages) /\ Len(<<p>>) = 1 /\ <<p>>[1] = p
    OBVIOUS
  <1>6. es \in Seq(Pages) /\ Len(es) = 1 + n /\ es[1] = p /\ \A i \in 1 .. n : es[1 + i] = ds[i]
    BY <1>4, <1>5, ConcatProperties
  <1>7. DOMAIN es = 1 .. 1 + n
    BY <1>6, LenProperties
  <1>8. es # <<>>
    BY <1>4, <1>6, EmptySeq
  <1> HIDE DEF es, n
  <1>9. \A i \in 1 .. 1 + n : i = 1 \/ (i - 1 \in 1 .. n /\ 1 + (i - 1) = i)
    BY <1>4
  <1>10. \A i \in 1 .. n : 1 + i \in 1 .. 1 + n /\ 1 \in 1 .. 1 + n
    BY <1>4
  <1>11. ToSet(es) = {p} \cup ToSet(ds)
    <2>1. ToSet(es) = {es[i] : i \in 1 .. 1 + n} /\ ToSet(ds) = {ds[i] : i \in 1 .. n}
      BY <1>4, <1>7 DEF ToSet
    <2>2. \A i \in 1 .. 1 + n : es[i] \in {p} \cup ToSet(ds)
      BY <2>1, <1>6, <1>9
    <2>3. \A i \in 1 .. n : ds[i] \in ToSet(es)
      BY <2>1, <1>6, <1>10
    <2>4. p \in ToSet(es)
      BY <2>1, <1>4, <1>6
    <2>5. QED
      BY <2>1, <2>2, <2>3, <2>4
  <1>12. ToSet(ds) = Mine(K, r) \ Keeps(K, r) /\ p \notin ToSet(ds)
    BY <1>1, <1>3 DEF Deleted
  <1>13. OneToOne(es)
    <2> SUFFICES ASSUME NEW i \in 1 .. 1 + n, NEW k \in 1 .. 1 + n, es[i] = es[k] PROVE i = k
      BY <1>7 DEF OneToOne
    <2>1. \A j \in 1 .. n : ds[j] # p
      BY <1>4, <1>12 DEF ToSet
    <2>2. i = 1 <=> k = 1
      BY <2>1, <1>6, <1>9, SMTT(30)
    <2>3. CASE i # 1
      <3>1. i - 1 \in 1 .. n /\ k - 1 \in 1 .. n /\ ds[i - 1] = ds[k - 1]
        BY <2>2, <2>3, <1>6, <1>9
      <3>2. i - 1 = k - 1
        BY <3>1, <1>3, <1>4 DEF Deleted, OneToOne
      <3>3. QED
        BY <3>2, <1>4
    <2>4. QED
      BY <2>2, <2>3
  <1>14. /\ (r.firstDelete = NoPage <=> ds = <<>>)
         /\ r.firstDelete = First(ds, NoPage) /\ r.lastDelete = LastOf(ds)
    BY <1>3, LastIsOne DEF Deleted
  <1>15. r2.lastDelete = LastOf(es)
    BY <1>4, <1>6, <1>8, <1>14 DEF LastOf, n
  <1>16. ASSUME NEW i \in 1 .. 1 + n, i < 1 + n PROVE Says(log, r2, es[i], Empty(es[i + 1]))
    <2>1. CASE i = 1
      BY <1>4, <1>6, <1>14, <1>16, <2>1 DEF First
    <2>2. CASE i # 1
      <3>1. i - 1 \in 1 .. n /\ 1 + (i - 1) = i
        BY <2>2, <1>9
      <3>2. i - 1 < n /\ (i - 1) + 1 = i /\ i \in 1 .. n
        BY <3>1, <1>16, <1>4
      <3>3. es[i] = ds[i - 1] /\ es[i + 1] = ds[i]
        BY <3>1, <3>2, <1>4, <1>6
      <3>4. Says(log, r, ds[i - 1], Empty(ds[i]))
        BY <3>1, <3>2, <1>3 DEF Deleted, n
      <3>5. ds[i - 1] \in ToSet(ds)
        BY <3>1, <1>4 DEF ToSet
      <3>6. QED
        BY <3>3, <3>4, <3>5, <1>1, <1>12
    <2>3. QED
      BY <2>1, <2>2
  <1>17. Deleted(K, log, r2, es)
    BY <1>2, <1>6, <1>8, <1>11, <1>12, <1>13, <1>15, <1>16 DEF First, Deleted
  <1>18. LastDeleted(r2)
    BY <1>1, <1>12, <1>14, LastIsOne DEF Edit, Changed, LastDeleted
  <1>19. \A d \in Writes(r2) : Opened(K, r2.snaps[d], d)
    BY <1>1 DEF Works
  <1>20. QED
    BY <1>0, <1>1, <1>6, <1>17, <1>18, <1>19 DEF Works, Kept

\* Where collections may be.
Catalogs == [Cols -> [page : Links, body : Bodies]]

\* One operation more is registered for the commit.
OpAdded(K, r, r2, op) ==
    /\ Then(K, r2) = [Then(K, r) EXCEPT ![op.col] = op.page]
    /\ op.col \in Cols /\ Then(K, r) \in [Cols -> Links]
    /\ \A i \in DOMAIN r2.onCommit : \/ r2.onCommit[i] = op
                                     \/ i \in DOMAIN r.onCommit /\ r2.onCommit[i] = r.onCommit[i]

\* Registering an operation.
LEMMA AppendedOp ==
    ASSUME NEW K \in Catalogs, NEW r \in TxRecs, NEW r2, NEW op \in Ops,
           r2.onCommit = Append(r.onCommit, op)
    PROVE  OpAdded(K, r, r2, op)
  <1> DEFINE ops == r.onCommit
             n == Len(ops)
             all == Append(ops, op)
             table == [c \in Cols |-> K[c].page]
  <1>1. ops \in Seq(Ops) /\ n \in Nat /\ DOMAIN ops = 1 .. n
    BY TxIs, LenProperties
  <1>2. /\ all \in Seq(Ops) /\ Len(all) = n + 1 /\ all[n + 1] = op
        /\ \A i \in 1 .. n : all[i] = ops[i]
    BY <1>1, AppendProperties
  <1>3. DOMAIN all = 1 .. n + 1
    BY <1>2, LenProperties
  <1>4. table \in [Cols -> Links]
    BY DEF Catalogs
  <1>5. op.col \in Cols /\ \A o \in Ops : o.page \in Links
    BY DEF Ops, Links
  <1> HIDE DEF table, all, n
  <1>6. Entered(table, all, n + 1) = [Entered(table, all, n) EXCEPT ![op.col] = op.page]
    BY <1>1, <1>2, <1>4, EnteredStep
  <1>7. Entered(table, all, n) = Entered(table, ops, n)
    <2>1. \A c : {i \in 1 .. n : all[i].col = c} = {i \in 1 .. n : ops[i].col = c}
      BY <1>2
    <2>2. ASSUME NEW c \in Cols PROVE Entered(table, all, n)[c] = Entered(table, ops, n)[c]
      <3> DEFINE S == {i \in 1 .. n : ops[i].col = c}
      <3>1. CASE S = {}
        BY <3>1, <2>1 DEF Entered
      <3>2. CASE S # {}
        <4>1. S \in SUBSET Int /\ S \subseteq 1 .. n
          BY <1>1
        <4>2. IsFiniteSet(S)
          BY <4>1, <1>1, FS_Interval, FS_Subset
        <4>3. Max(S) \in 1 .. n
          BY <3>2, <4>1, <4>2, MaxIs
        <4>4. all[Max(S)] = ops[Max(S)]
          BY <4>3, <1>2
        <4>5. QED
          BY <3>2, <4>4, <2>1 DEF Entered
      <3>3. QED
        BY <3>1, <3>2
    <2>3. QED
      BY <2>2 DEF Entered
  <1>8. Then(K, r) \in [Cols -> Links]
    <2>1. ASSUME NEW c \in Cols PROVE Entered(table, ops, n)[c] \in Links
      <3> DEFINE S == {i \in 1 .. n : ops[i].col = c}
      <3>1. CASE S = {}
        BY <3>1, <1>4 DEF Entered
      <3>2. CASE S # {}
        <4>1. S \in SUBSET Int /\ S \subseteq 1 .. n
          BY <1>1
        <4>2. IsFiniteSet(S)
          BY <4>1, <1>1, FS_Interval, FS_Subset
        <4>3. Max(S) \in 1 .. n
          BY <3>2, <4>1, <4>2, MaxIs
        <4>4. ops[Max(S)] \in Ops
          BY <4>3, <1>1, ElementOfSeq DEF n
        <4>5. QED
          BY <3>2, <4>4, <1>5 DEF Entered
      <3>3. QED
        BY <3>1, <3>2
    <2>2. QED
      BY <2>1 DEF Then, Entered, table, n
  <1>9. \A i \in DOMAIN all : all[i] = op \/ (i \in DOMAIN ops /\ all[i] = ops[i])
    BY <1>1, <1>2, <1>3
  <1>10. QED
    BY <1>2, <1>5, <1>6, <1>7, <1>8, <1>9 DEF OpAdded, Then, table, all, n

\* What putting a page into a snapshot changes.
PutEffect(new, local, p, body) ==
    /\ DOMAIN new = {p} \cup DOMAIN local
    /\ new[p].body = body /\ new[p].dirty
    /\ \A q \in DOMAIN local \ {p} : new[q] = local[q]

\* Putting a page.
LEMMA PutAt ==
    ASSUME NEW local, NEW p, NEW body
    PROVE  PutEffect(Put(local, p, body), local, p, body)
  BY DEF Put, Over, PutEffect

\* The same operations are registered, and one snapshot becomes what it became.
LEMMA SameOps ==
    ASSUME NEW K, NEW r, NEW r2, NEW c \in Writes(r), Registered(K, r),
           Writes(r2) = Writes(r), \A d \in Writes(r) : d # c => r2.snaps[d] = r.snaps[d],
           r2.onCommit = r.onCommit, r2.snaps[c].loaded,
           Becomes(r2.snaps[c]) = Then(K, r)[c]
    PROVE  Registered(K, r2)
  BY DEF Then, Registered

\* One operation more, and the snapshot becomes what it says.
LEMMA MoreOps ==
    ASSUME NEW K \in Catalogs, NEW r \in TxRecs, NEW r2, NEW op \in Ops, NEW c \in Writes(r),
           op.col = c, Registered(K, r), r2.onCommit = Append(r.onCommit, op),
           Writes(r2) = Writes(r), \A d \in Writes(r) : d # c => r2.snaps[d] = r.snaps[d],
           r2.snaps[c].loaded, Becomes(r2.snaps[c]) = op.page
    PROVE  Registered(K, r2)
  <1>1. /\ Then(K, r2) = [Then(K, r) EXCEPT ![c] = op.page]
        /\ c \in Cols /\ Then(K, r) \in [Cols -> Links]
        /\ \A i \in DOMAIN r2.onCommit : \/ r2.onCommit[i] = op
                                         \/ i \in DOMAIN r.onCommit /\ r2.onCommit[i] = r.onCommit[i]
    <2>1. OpAdded(K, r, r2, op)
      BY AppendedOp
    <2>2. QED
      BY <2>1 DEF OpAdded
  <1>2. \A d \in Writes(r) : d \in Cols /\ Then(K, r2)[d] = IF d = c THEN op.page ELSE Then(K, r)[d]
    BY <1>1 DEF Writes
  <1>3. QED
    BY <1>1, <1>2 DEF Registered

\* The page of a collection is read.
LEMMA LoadedWork ==
    ASSUME NEW K, NEW log, NEW r \in TxRecs, NEW r2, NEW c \in Writes(r), Works(K, log, r),
           Writes(r2) = Writes(r), \A d \in Writes(r) : d # c => r2.snaps[d] = r.snaps[d],
           ~r.snaps[c].loaded, r2.snaps[c].loaded, r2.snaps[c].local = r.snaps[c].local,
           r2.snaps[c].collDirty = r.snaps[c].collDirty,
           \/ /\ K[c].page = NoPage
              /\ r2.snaps[c].coll = r.snaps[c].coll /\ r2.snaps[c].body = r.snaps[c].body
           \/ /\ K[c].page # NoPage /\ K[c].body.kind = "coll" /\ K[c].page \notin K[c].body.pages
              /\ r2.snaps[c].coll = K[c].page /\ r2.snaps[c].body = K[c].body,
           r2.dirty = r.dirty, r2.newPages = r.newPages, r2.firstDelete = r.firstDelete,
           r2.lastDelete = r.lastDelete, r2.lastDeleteColl = r.lastDeleteColl,
           r2.onCommit = r.onCommit, r2.headerChanged = r.headerChanged
    PROVE  Kept(K, log, r, r2, {})
  <1> DEFINE s == r.snaps[c]
             s2 == r2.snaps[c]
             F == {}
  <1>0. F = {}
    OBVIOUS
  <1> HIDE DEF F
  <1>1. s.coll = NoPage /\ DOMAIN s.local = {} /\ ~s.collDirty /\ s.body.kind # "coll"
    BY DEF Works, Opened
  <1>2. Now(K, s, c) = Of(K, c) /\ Now(K, s2, c) = Of(K, c)
    BY <1>1 DEF Now, Of
  <1>3. s2.coll \in Of(K, c) \cup {s.coll}
    BY DEF Of
  <1>4. Edit(K, r, r2, c, F, F)
    BY <1>0, <1>1, <1>2, <1>3 DEF Edit, Took
  <1>5. Opened(K, s2, c)
    BY <1>1 DEF Opened
  <1>6. Registered(K, r2)
    <2>1. c \in Cols /\ Registered(K, r) /\ Then(K, r)[c] = K[c].page
      BY NothingYet DEF Works, Writes
    <2>2. Becomes(s2) = K[c].page
      BY <1>1 DEF Becomes
    <2>3. QED
      BY <2>1, <2>2, SameOps
  <1>7. Now(K, s2, c) = Now(K, s, c) \cup F
    BY <1>0, <1>2
  <1>8. r2.newPages # <<>> => r2.headerChanged
    BY DEF Works
  <1>9. Kept(K, log, r, r2, F)
    BY <1>4, <1>5, <1>6, <1>7, <1>8, KeptWork DEF Keeping
  <1>10. QED
    BY <1>0, <1>9

\* A collection is created on a page nobody has.
LEMMA CreatedWork ==
    ASSUME NEW K \in Catalogs, NEW log, NEW r \in TxRecs, NEW r2, NEW c \in Writes(r), NEW a \in Pages,
           Works(K, log, r), a \notin Mine(K, r), K[c].page = NoPage, r.snaps[c].coll = NoPage,
           Writes(r2) = Writes(r), \A d \in Writes(r) : d # c => r2.snaps[d] = r.snaps[d],
           r2.snaps[c].loaded, r2.snaps[c].coll = a, r2.snaps[c].body = Coll({}),
           r2.snaps[c].collDirty, r2.snaps[c].local = r.snaps[c].local,
           r2.onCommit = Append(r.onCommit, [op |-> "add", col |-> c, page |-> a]),
           r2.dirty = r.dirty, Took(r2) = Took(r) \cup {a}, r2.headerChanged,
           r2.firstDelete = r.firstDelete, r2.lastDelete = r.lastDelete,
           r2.lastDeleteColl = r.lastDeleteColl
    PROVE  Kept(K, log, r, r2, {a})
  <1> DEFINE s == r.snaps[c]
             s2 == r2.snaps[c]
             op == [op |-> "add", col |-> c, page |-> a]
             F == {a}
             L == {}
  <1>0. F = {a} /\ L = {} /\ a # NoPage
    BY PageIds
  <1> HIDE DEF F, L
  <1>1. ~s.collDirty /\ (s.loaded => s.body.kind # "coll")
    BY DEF Works, Opened
  <1>2. Now(K, s, c) = {}
    BY <1>1 DEF Now, Of
  <1>3. Coll({}).kind = "coll" /\ Coll({}).pages = {} /\ Coll({}) # Blank
    BY DEF Coll, Blank
  <1>4. Now(K, s2, c) = {a}
    BY <1>3 DEF Now
  <1>5. \A p \in DOMAIN s.local : p # a
    BY DEF Works, Changed
  <1>6. Edit(K, r, r2, c, F, L)
    BY <1>0, <1>1, <1>2, <1>4, <1>5 DEF Edit
  <1>7. Opened(K, s2, c)
    BY <1>0, <1>3 DEF Opened
  <1>8. Registered(K, r2)
    <2>1. op \in Ops /\ op.col = c /\ op.page = a
      BY DEF Ops, Writes
    <2>2. Becomes(s2) = a
      BY <1>3 DEF Becomes
    <2>3. Registered(K, r) /\ r2.onCommit = Append(r.onCommit, op)
      BY DEF Works
    <2> HIDE DEF op
    <2>4. QED
      BY <2>1, <2>2, <2>3, MoreOps
  <1>9. Now(K, s2, c) = Now(K, s, c) \cup F
    BY <1>0, <1>2, <1>4
  <1>10. Keeping(K, log, r, r2, c, F, L)
    BY <1>6, <1>7, <1>8, <1>9 DEF Keeping
  <1>11. Kept(K, log, r, r2, F)
    BY <1>10, KeptWork
  <1>12. QED
    BY <1>0, <1>11

\* A collection gets a page nobody has.
LEMMA GrownWork ==
    ASSUME NEW K \in Catalogs, NEW log, NEW r \in TxRecs, NEW r2, NEW c \in Writes(r), NEW a \in Pages,
           NEW body, body # Blank,
           Works(K, log, r), a \notin Mine(K, r), r.snaps[c].loaded, r.snaps[c].body.kind = "coll",
           Writes(r2) = Writes(r), \A d \in Writes(r) : d # c => r2.snaps[d] = r.snaps[d],
           r2.snaps[c].loaded, r2.snaps[c].coll = r.snaps[c].coll,
           r2.snaps[c].body = Coll(r.snaps[c].body.pages \cup {a}),
           r2.snaps[c].collDirty, r2.snaps[c].local = Put(r.snaps[c].local, a, body),
           r2.onCommit = r.onCommit,
           r2.dirty = r.dirty, Took(r2) = Took(r) \cup {a}, r2.headerChanged,
           r2.firstDelete = r.firstDelete, r2.lastDelete = r.lastDelete,
           r2.lastDeleteColl = r.lastDeleteColl
    PROVE  Kept(K, log, r, r2, {a})
  <1> DEFINE s == r.snaps[c]
             s2 == r2.snaps[c]
             F == {a}
  <1>0. F = {a} /\ a # NoPage
    BY PageIds
  <1> HIDE DEF F
  <1>1. /\ Coll(s.body.pages \cup {a}).kind = "coll" /\ Coll(s.body.pages \cup {a}) # Blank
        /\ Coll(s.body.pages \cup {a}).pages = s.body.pages \cup {a}
    BY DEF Coll, Blank
  <1>2. Now(K, s, c) = {s.coll} \cup s.body.pages /\ Now(K, s2, c) = {s.coll} \cup s.body.pages \cup {a}
    BY <1>1 DEF Now
  <1>3. Now(K, s, c) \subseteq Mine(K, r)
    BY DEF Works, Disjoint, Whole
  <1>4. /\ DOMAIN s2.local = {a} \cup DOMAIN s.local
        /\ s2.local[a].dirty /\ s2.local[a].body # Blank
        /\ \A p \in DOMAIN s.local \ {a} : s2.local[p] = s.local[p]
    <2>1. PutEffect(Put(s.local, a, body), s.local, a, body)
      BY PutAt
    <2>2. PutEffect(s2.local, s.local, a, body)
      BY <2>1
    <2>3. QED
      BY <2>2 DEF PutEffect
  <1>5. a # s.coll /\ \A p \in DOMAIN s.local : p # s.coll
    BY <1>2, <1>3 DEF Works, Changed
  <1>6. Edit(K, r, r2, c, F, F)
    BY <1>0, <1>2, <1>3, <1>4, <1>5 DEF Edit
  <1>7. s.coll # NoPage /\ s.coll \notin s.body.pages /\ (K[c].page # NoPage => s.coll = K[c].page)
    BY DEF Works, Opened
  <1>8. Opened(K, s2, c)
    BY <1>1, <1>5, <1>7 DEF Opened
  <1>9. Registered(K, r2)
    <2>1. Registered(K, r) /\ Then(K, r)[c] = s.coll
      BY DEF Works, Registered, Becomes
    <2>2. Becomes(s2) = s.coll
      BY <1>1 DEF Becomes
    <2>3. QED
      BY <2>1, <2>2, SameOps
  <1>10. Now(K, s2, c) = Now(K, s, c) \cup F
    BY <1>0, <1>2
  <1>11. Keeping(K, log, r, r2, c, F, F)
    BY <1>6, <1>8, <1>9, <1>10 DEF Keeping
  <1>12. Kept(K, log, r, r2, F)
    BY <1>11, KeptWork
  <1>13. QED
    BY <1>0, <1>12

\* A page of a collection is changed.
LEMMA UpdatedWork ==
    ASSUME NEW K \in Catalogs, NEW log, NEW r \in TxRecs, NEW r2, NEW c \in Writes(r), NEW p \in Pages,
           NEW body, body # Blank,
           Works(K, log, r), r.snaps[c].loaded, r.snaps[c].body.kind = "coll", p \in r.snaps[c].body.pages,
           Writes(r2) = Writes(r), \A d \in Writes(r) : d # c => r2.snaps[d] = r.snaps[d],
           r2.snaps[c].loaded, r2.snaps[c].coll = r.snaps[c].coll,
           r2.snaps[c].body = r.snaps[c].body, r2.snaps[c].collDirty = r.snaps[c].collDirty,
           r2.snaps[c].local = Put(r.snaps[c].local, p, body),
           r2.dirty = r.dirty, r2.newPages = r.newPages, r2.firstDelete = r.firstDelete,
           r2.lastDelete = r.lastDelete, r2.lastDeleteColl = r.lastDeleteColl,
           r2.onCommit = r.onCommit, r2.headerChanged = r.headerChanged
    PROVE  Kept(K, log, r, r2, {})
  <1> DEFINE s == r.snaps[c]
             s2 == r2.snaps[c]
             F == {}
             L == {p}
  <1>0. F = {} /\ L = {p} /\ p # NoPage
    BY PageIds
  <1> HIDE DEF F, L
  <1>1. Now(K, s, c) = {s.coll} \cup s.body.pages /\ Now(K, s2, c) = {s.coll} \cup s.body.pages
    BY DEF Now
  <1>2. /\ DOMAIN s2.local = {p} \cup DOMAIN s.local
        /\ s2.local[p].dirty /\ s2.local[p].body # Blank
        /\ \A q \in DOMAIN s.local \ {p} : s2.local[q] = s.local[q]
    <2>1. PutEffect(Put(s.local, p, body), s.local, p, body)
      BY PutAt
    <2>2. PutEffect(s2.local, s.local, p, body)
      BY <2>1
    <2>3. QED
      BY <2>2 DEF PutEffect
  <1>3. s.coll # NoPage /\ s.coll \notin s.body.pages
    BY DEF Works, Opened
  <1>4. p # s.coll /\ \A q \in DOMAIN s.local : q # s.coll
    BY <1>3 DEF Works, Changed
  <1>5. Took(r2) = Took(r)
    BY DEF Took
  <1>6. Edit(K, r, r2, c, F, L)
    BY <1>0, <1>1, <1>2, <1>4, <1>5 DEF Edit
  <1>7. Opened(K, s2, c)
    BY DEF Works, Opened
  <1>8. Registered(K, r2)
    <2>1. Registered(K, r) /\ Then(K, r)[c] = s.coll
      BY DEF Works, Registered, Becomes
    <2>2. Becomes(s2) = s.coll
      BY DEF Becomes
    <2>3. QED
      BY <2>1, <2>2, SameOps
  <1>9. Now(K, s2, c) = Now(K, s, c) \cup F
    BY <1>0, <1>1
  <1>10. r2.newPages # <<>> => r2.headerChanged
    BY DEF Works
  <1>11. Kept(K, log, r, r2, F)
    BY <1>6, <1>7, <1>8, <1>9, <1>10, KeptWork DEF Keeping
  <1>12. QED
    BY <1>0, <1>11

\* A page of a collection is deleted.
LEMMA ShrunkWork ==
    ASSUME NEW K \in Catalogs, NEW log, NEW r \in TxRecs, NEW r2, NEW c \in Writes(r), NEW p \in Pages,
           Works(K, log, r), r.snaps[c].loaded, r.snaps[c].body.kind = "coll", p \in r.snaps[c].body.pages,
           Writes(r2) = Writes(r), \A d \in Writes(r) : d # c => r2.snaps[d] = r.snaps[d],
           r2.snaps[c].loaded, r2.snaps[c].coll = r.snaps[c].coll,
           r2.snaps[c].body = Coll(r.snaps[c].body.pages \ {p}), r2.snaps[c].collDirty,
           r2.snaps[c].local = Put(r.snaps[c].local, p, Empty(r.firstDelete)),
           r2.dirty = r.dirty, r2.newPages = r.newPages, r2.firstDelete = p,
           r2.lastDelete = IF r.firstDelete = NoPage THEN p ELSE r.lastDelete,
           r2.lastDeleteColl = IF r.firstDelete = NoPage THEN c ELSE r.lastDeleteColl,
           r2.onCommit = r.onCommit, r2.headerChanged
    PROVE  Kept(K, log, r, r2, {})
  <1> DEFINE s == r.snaps[c]
             s2 == r2.snaps[c]
             L == {p}
  <1>0. L = {p} /\ p # NoPage
    BY PageIds
  <1> HIDE DEF L
  <1>1. /\ Coll(s.body.pages \ {p}).kind = "coll" /\ Coll(s.body.pages \ {p}) # Blank
        /\ Coll(s.body.pages \ {p}).pages = s.body.pages \ {p}
        /\ Empty(r.firstDelete) # Blank
    BY DEF Coll, Blank, Empty
  <1>2. s.coll # NoPage /\ s.coll \notin s.body.pages /\ (K[c].page # NoPage => s.coll = K[c].page)
    BY DEF Works, Opened
  <1>3. Now(K, s, c) = {s.coll} \cup s.body.pages /\ Now(K, s2, c) = Now(K, s, c) \ {p}
    BY <1>1, <1>2 DEF Now
  <1>4. /\ DOMAIN s2.local = {p} \cup DOMAIN s.local
        /\ s2.local[p].dirty /\ s2.local[p].body = Empty(r.firstDelete)
        /\ \A q \in DOMAIN s.local \ {p} : s2.local[q] = s.local[q]
    <2>1. PutEffect(Put(s.local, p, Empty(r.firstDelete)), s.local, p, Empty(r.firstDelete))
      BY PutAt
    <2>2. PutEffect(s2.local, s.local, p, Empty(r.firstDelete))
      BY <2>1
    <2>3. QED
      BY <2>2 DEF PutEffect
  <1>5. p # s.coll /\ \A q \in DOMAIN s.local : q # s.coll
    BY <1>2 DEF Works, Changed
  <1>6. Took(r2) = Took(r)
    BY DEF Took
  <1>7. Edit(K, r, r2, c, {}, L)
    BY <1>0, <1>1, <1>3, <1>4, <1>5, <1>6 DEF Edit
  <1>8. Opened(K, s2, c)
    BY <1>1, <1>2 DEF Opened
  <1>9. Registered(K, r2)
    <2>1. Registered(K, r) /\ Then(K, r)[c] = s.coll
      BY DEF Works, Registered, Becomes
    <2>2. Becomes(s2) = s.coll
      BY <1>1 DEF Becomes
    <2>3. QED
      BY <2>1, <2>2, SameOps
  <1>10. Says(log, r2, p, Empty(r.firstDelete))
    BY <1>4 DEF Says
  <1>11. p \in Now(K, s, c)
    BY <1>3
  <1>12. QED
    BY <1>3, <1>4, <1>7, <1>8, <1>9, <1>10, <1>11, DeletedWork DEF Deleting

\* An empty collection is dropped: its own page is deleted.
LEMMA DroppedWork ==
    ASSUME NEW K \in Catalogs, NEW log, NEW r \in TxRecs, NEW r2, NEW c \in Writes(r),
           Works(K, log, r), r.snaps[c].loaded, r.snaps[c].body.kind = "coll", r.snaps[c].body.pages = {},
           r.firstDelete # NoPage,
           Writes(r2) = Writes(r), \A d \in Writes(r) : d # c => r2.snaps[d] = r.snaps[d],
           r2.snaps[c].loaded, r2.snaps[c].coll = r.snaps[c].coll,
           r2.snaps[c].body = Empty(r.firstDelete), r2.snaps[c].collDirty,
           r2.snaps[c].local = r.snaps[c].local,
           r2.dirty = r.dirty, r2.newPages = r.newPages, r2.firstDelete = r.snaps[c].coll,
           r2.lastDelete = r.lastDelete, r2.lastDeleteColl = r.lastDeleteColl,
           r2.onCommit = Append(r.onCommit, [op |-> "drop", col |-> c, page |-> NoPage]),
           r2.headerChanged
    PROVE  Kept(K, log, r, r2, {})
  <1> DEFINE s == r.snaps[c]
             s2 == r2.snaps[c]
             op == [op |-> "drop", col |-> c, page |-> NoPage]
             L == {}
  <1>0. L = {}
    OBVIOUS
  <1> HIDE DEF L
  <1>1. Empty(r.firstDelete).kind = "empty" /\ Empty(r.firstDelete) # Blank
    BY DEF Blank, Empty
  <1>2. s.coll # NoPage /\ (K[c].page # NoPage => s.coll = K[c].page)
    BY DEF Works, Opened
  <1>3. s.coll \in Pages
    BY <1>2, TxIs, SnapIs DEF Writes, Links
  <1>4. Now(K, s, c) = {s.coll} /\ Now(K, s2, c) = Now(K, s, c) \ {s.coll}
    BY <1>1 DEF Now
  <1>5. \A q \in DOMAIN s.local : q # s.coll
    BY DEF Works, Changed
  <1>6. Took(r2) = Took(r)
    BY DEF Took
  <1>7. Edit(K, r, r2, c, {}, L)
    BY <1>0, <1>4, <1>5, <1>6 DEF Edit
  <1>8. Opened(K, s2, c)
    BY <1>1, <1>2 DEF Opened
  <1>9. Registered(K, r2)
    <2>1. op \in Ops /\ op.col = c /\ op.page = NoPage
      BY DEF Ops, Writes
    <2>2. Becomes(s2) = NoPage
      BY <1>1 DEF Becomes
    <2>3. Registered(K, r) /\ r2.onCommit = Append(r.onCommit, op)
      BY DEF Works
    <2> HIDE DEF op
    <2>4. QED
      BY <2>1, <2>2, <2>3, MoreOps
  <1>10. Says(log, r2, s.coll, Empty(r.firstDelete))
    BY DEF Says
  <1>11. s.coll \in Now(K, s, c)
    BY <1>4
  <1>12. /\ r2.lastDelete = IF r.firstDelete = NoPage THEN s.coll ELSE r.lastDelete
         /\ r2.lastDeleteColl = IF r.firstDelete = NoPage THEN c ELSE r.lastDeleteColl
    OBVIOUS
  <1>13. QED
    <2>1. Now(K, s2, c) = Now(K, s, c) \ {s.coll}
      BY <1>4
    <2>2. Deleting(K, log, r, r2, c, L, s.coll)
      BY <2>1, <1>7, <1>8, <1>9, <1>10, <1>11, <1>12 DEF Deleting
    <2>3. PICK p \in Pages : p = s.coll
      BY <1>3
    <2>4. Deleting(K, log, r, r2, c, L, p)
      BY <2>2, <2>3
    <2>5. QED
      BY <2>4, DeletedWork

\* What is in memory goes to the log.
LEMMA SpilledWork ==
    ASSUME NEW K, NEW log, NEW log2, NEW r, NEW r2, NEW offs, Works(K, log, r),
           NoPage \notin Mine(K, r), \A c \in Writes(r) : r.snaps[c].loaded,
           Writes(r2) = Writes(r),
           \A c \in Writes(r) : /\ r2.snaps[c].local = <<>> /\ r2.snaps[c].loaded
                                /\ r2.snaps[c].coll = r.snaps[c].coll
                                /\ r2.snaps[c].body = r.snaps[c].body
                                /\ r2.snaps[c].collDirty = r.snaps[c].collDirty,
           \A p \in DOMAIN offs : InMemory(r, p),
           \A c \in Writes(r) : \A p \in DOMAIN r.snaps[c].local :
               p \in DOMAIN offs /\ log2[offs[p]].body = r.snaps[c].local[p].body,
           r2.dirty = Over(offs, r.dirty), \A p \in DOMAIN r.dirty : log2[r.dirty[p]] = log[r.dirty[p]],
           r2.newPages = r.newPages, r2.firstDelete = r.firstDelete,
           r2.lastDelete = r.lastDelete, r2.lastDeleteColl = r.lastDeleteColl,
           r2.onCommit = r.onCommit, r2.headerChanged = r.headerChanged
    PROVE  Kept(K, log2, r, r2, {})
  <1> DEFINE W == Writes(r)
             M == Mine(K, r)
             N(d) == Now(K, r.snaps[d], d)
             N2(d) == Now(K, r2.snaps[d], d)
             All(d) == Whole(K, r.snaps[d], d)
             All2(d) == Whole(K, r2.snaps[d], d)
  <1>1. \A d \in W : N2(d) = N(d) /\ All2(d) = All(d)
    BY DEF Now, Whole
  <1>2. Mine(K, r2) = M
    BY DEF Mine, Took
  <1>3. Keeps(K, r2) = Keeps(K, r)
    BY <1>1 DEF Keeps
  <1>4. DOMAIN <<>> = {}
    OBVIOUS
  <1>5. \A p : InMemory(r2, p) <=> \E c \in W : r.snaps[c].collDirty /\ p = r.snaps[c].coll
    BY <1>4 DEF InMemory
  <1>6. /\ DOMAIN r2.dirty = DOMAIN offs \cup DOMAIN r.dirty
        /\ \A p \in DOMAIN offs : r2.dirty[p] = offs[p]
        /\ \A p \in DOMAIN r.dirty \ DOMAIN offs : r2.dirty[p] = r.dirty[p]
    BY DEF Over
  <1>7. \A d \in W : All(d) \subseteq M /\ \A e \in W : d # e => All(d) \cap All(e) = {}
    BY DEF Works, Disjoint
  <1>8. \A d \in W : /\ r.snaps[d].collDirty => r.snaps[d].coll # NoPage
                     /\ r.snaps[d].coll = NoPage => K[d].page = NoPage
                     /\ r.snaps[d].coll # NoPage => r.snaps[d].coll \in All(d)
                     /\ ~r.snaps[d].collDirty => K[d].page = r.snaps[d].coll
    BY DEF Works, Opened, Whole
  <1>9. \A d \in W : \A p \in DOMAIN r.snaps[d].local :
            /\ p \in M
            /\ \A e \in W : p # r.snaps[e].coll /\ (e # d => p \notin DOMAIN r.snaps[e].local)
    BY DEF Works, Changed
  <1>10. \A p : InMemory(r, p) => p \in M
    BY <1>7, <1>8, <1>9 DEF InMemory
  <1>11. DOMAIN r.dirty \subseteq M /\ \A d \in W : ~r.snaps[d].collDirty => K[d].page \notin DOMAIN r.dirty
    BY DEF Works, Spills
  <1>12. \A d \in Writes(r2) : Opened(K, r2.snaps[d], d)
    BY <1>4 DEF Works, Opened
  <1>13. Disjoint(K, r2)
    BY <1>1, <1>2, <1>7 DEF Disjoint
  <1>14. Changed(K, r2)
    BY <1>4 DEF Changed
  <1> HIDE DEF W, M, N, N2, All, All2
  <1>15. ASSUME NEW d \in W, ~r.snaps[d].collDirty PROVE ~InMemory(r, K[d].page)
    BY <1>7, <1>8, <1>9, <1>10, <1>15 DEF M, InMemory, W
  <1>16. Spills(K, r2)
    BY <1>2, <1>6, <1>10, <1>11, <1>15 DEF Spills, W
  <1>17. ASSUME NEW p, NEW b, Says(log, r, p, b) PROVE Says(log2, r2, p, b)
    BY <1>5, <1>6, <1>9, <1>17 DEF W, Says, InMemory
  <1>18. \E ds \in Seq(Pages) : Deleted(K, log2, r2, ds)
    BY <1>2, <1>3, <1>17 DEF Works, Deleted, M
  <1>19. LastDeleted(r2)
    BY <1>4 DEF Works, LastDeleted, W
  <1>20. Registered(K, r2)
    BY DEF Then, Becomes, W, Works, Registered
  <1>21. r2.newPages # <<>> => r2.headerChanged
    BY DEF Works
  <1>22. QED
    BY <1>2, <1>12, <1>13, <1>14, <1>16, <1>18, <1>19, <1>20, <1>21 DEF Works, Kept, M

\* A collection whose page could not be read is let go.
Closed(K, log, r, r2) == Works(K, log, r2) /\ Mine(K, r2) \subseteq Mine(K, r)

\* Letting a collection go changes nothing else.
LEMMA ClosedWork ==
    ASSUME NEW K, NEW log, NEW r, NEW r2, NEW c \in Writes(r), Works(K, log, r), ~r.snaps[c].loaded,
           Writes(r2) = Writes(r) \ {c}, \A d \in Writes(r2) : r2.snaps[d] = r.snaps[d],
           Of(K, c) \cap Took(r) = {}, \A d \in Writes(r) : c # d => Of(K, c) \cap Of(K, d) = {},
           NoPage \notin Mine(K, r),
           r2.dirty = r.dirty, r2.newPages = r.newPages, r2.firstDelete = r.firstDelete,
           r2.lastDelete = r.lastDelete, r2.lastDeleteColl = r.lastDeleteColl,
           r2.onCommit = r.onCommit, r2.headerChanged = r.headerChanged
    PROVE  Closed(K, log, r, r2)
  <1> DEFINE W == Writes(r)
             M == Mine(K, r)
             N(d) == Now(K, r.snaps[d], d)
             N2(d) == Now(K, r2.snaps[d], d)
             All(d) == Whole(K, r.snaps[d], d)
             All2(d) == Whole(K, r2.snaps[d], d)
             S == Of(K, c)
  <1>1. \A d \in W : d # c => N2(d) = N(d) /\ All2(d) = All(d)
    OBVIOUS
  <1>2. r.snaps[c].coll = NoPage /\ DOMAIN r.snaps[c].local = {} /\ ~r.snaps[c].collDirty
    BY DEF Works, Opened
  <1>3. N(c) = S /\ All(c) = S
    BY <1>2 DEF Now, Whole
  <1>4. \A d \in W : All(d) \subseteq M /\ N(d) \subseteq All(d) /\ \A e \in W : d # e => All(d) \cap All(e) = {}
    BY DEF Works, Disjoint, Whole
  <1>5. \A d \in W : d # c => All(d) \cap S = {} /\ N(d) \cap S = {}
    BY <1>3, <1>4
  <1>6. Mine(K, r2) = M \ S
    BY DEF Mine, Took
  <1>7. Keeps(K, r2) = Keeps(K, r) \ S
    <2> HIDE DEF N, N2, S, W
    <2>1. Keeps(K, r) = UNION {N(d) : d \in W}
      BY DEF Keeps, N, W
    <2>2. Keeps(K, r2) = UNION {N2(d) : d \in Writes(r2)}
      BY DEF Keeps, N2
    <2>3. Writes(r2) = W \ {c} /\ \A d \in Writes(r2) : N2(d) = N(d) /\ N(d) \cap S = {}
      BY <1>1, <1>5 DEF W
    <2>4. QED
      BY <2>1, <2>2, <2>3, <1>3
  <1>8. \A p : InMemory(r2, p) <=> InMemory(r, p)
    BY <1>2 DEF InMemory
  <1>9. \A p, b : Says(log, r, p, b) => Says(log, r2, p, b)
    BY <1>2, <1>8 DEF Says
  <1>10. \A d \in Writes(r2) : Opened(K, r2.snaps[d], d)
    BY DEF Works
  <1>11. Disjoint(K, r2)
    BY <1>1, <1>4, <1>5, <1>6 DEF Disjoint
  <1>12. Changed(K, r2)
    <2> HIDE DEF N, N2, S
    <2>1. \A d \in W : \A p \in DOMAIN r.snaps[d].local :
              /\ p \in M
              /\ p \in N(d) \/ p \notin Keeps(K, r)
              /\ r.snaps[d].local[p].dirty /\ r.snaps[d].local[p].body # Blank
              /\ \A e \in W : p # r.snaps[e].coll /\ (e # d => p \notin DOMAIN r.snaps[e].local)
      BY DEF Works, Changed, N
    <2>2. S \subseteq Keeps(K, r)
      BY <1>3 DEF Keeps, N
    <2>3. ASSUME NEW d \in Writes(r2), NEW p \in DOMAIN r.snaps[d].local
          PROVE  p \in Mine(K, r2) /\ (p \in N2(d) \/ p \notin Keeps(K, r2))
      BY <1>1, <1>5, <1>6, <1>7, <2>1, <2>2
    <2>4. QED
      BY <2>1, <2>3 DEF Changed, N2
  <1>13. Spills(K, r2)
    BY <1>6 DEF Works, Spills
  <1>14. \E ds \in Seq(Pages) : Deleted(K, log, r2, ds)
    BY <1>3, <1>6, <1>7, <1>9 DEF Keeps, Works, Deleted
  <1>15. LastDeleted(r2)
    BY DEF Works, LastDeleted
  <1>16. Registered(K, r2)
    BY DEF Then, Works, Registered
  <1>17. r2.newPages # <<>> => r2.headerChanged
    BY DEF Works
  <1>18. QED
    BY <1>6, <1>10, <1>11, <1>12, <1>13, <1>14, <1>15, <1>16, <1>17 DEF Works, Closed

-----------------------------------------------------------------------------
(* All transactions together.                                              *)

\* What a transaction has spilled is the same in two logs.
Same(log, log2, r) == \A p \in DOMAIN r.dirty : log2[r.dirty[p]] = log[r.dirty[p]]

\* Other transactions do not disturb the work of one.
LEMMA StillWorks ==
    ASSUME NEW K, NEW K2, NEW log, NEW log2, NEW r, Works(K, log, r), Same(log, log2, r),
           \A c \in Writes(r) : K2[c] = K[c]
    PROVE  Works(K2, log2, r)
  BY SameWork DEF Same

\* One transaction goes on, without a page more.
Stands(K, log, log2, T, X, X2, t, whole, whole2) ==
    /\ whole2 => whole
    /\ \A u \in T \ {t} : X2[u] = X[u] /\ (X[u].st = "active" => Same(log, log2, X[u]))
    /\ t \in T =>
           /\ Took(X2[t]) \subseteq Took(X[t]) /\ (whole2 => Took(X2[t]) = Took(X[t]))
           /\ OneToOne(X2[t].newPages)
           /\ \A u \in T \ {t} : Writes(X2[t]) \cap Writes(X[u]) = {}
           /\ X2[t].st = "active" => Works(K, log2, X2[t])

\* The pages are shared as before when one transaction goes on.
LEMMA GoesOn ==
    ASSUME NEW h, NEW B, NEW K, NEW log, NEW log2, NEW T, NEW X, NEW X2, NEW t, NEW whole, NEW whole2,
           Shared(h, B, K, log, T, X, whole), Stands(K, log, log2, T, X, X2, t, whole, whole2)
    PROVE  Shared(h, B, K, log2, T, X2, whole2)
  <1>1. /\ whole2 => whole
        /\ \A u \in T : u # t => X2[u] = X[u] /\ (X[u].st = "active" => Same(log, log2, X[u]))
        /\ t \in T =>
           /\ Took(X2[t]) \subseteq Took(X[t]) /\ (whole2 => Took(X2[t]) = Took(X[t]))
           /\ OneToOne(X2[t].newPages)
           /\ \A u \in T : u # t => Writes(X2[t]) \cap Writes(X[u]) = {}
           /\ X2[t].st = "active" => Works(K, log2, X2[t])
    BY DEF Stands
  <1>2. \A u \in T : Took(X2[u]) \subseteq Took(X[u]) /\ (whole2 => Took(X2[u]) = Took(X[u]))
    BY <1>1
  <1>3. \E fs \in Seq(Pages) : FreeList(h, B, K, T, X2, whole2, fs)
    <2>1. PICK fs \in Seq(Pages) : FreeList(h, B, K, T, X, whole, fs)
      BY DEF Shared
    <2>2. \A u \in T : ToSet(fs) \cap Took(X2[u]) = {}
      BY <2>1, <1>2 DEF FreeList
    <2>3. whole2 => Taken(T, X2) = Taken(T, X)
      BY <1>2 DEF Taken
    <2>4. QED
      BY <2>1, <2>2, <2>3, <1>1 DEF FreeList
  <1>4. Takers(h, K, T, X2)
    <2>1. \A u \in T : /\ Took(X[u]) \subseteq 1 .. h.last /\ OneToOne(X[u].newPages)
                       /\ \A c \in Cols : Took(X[u]) \cap Of(K, c) = {}
                       /\ \A v \in T : v # u => /\ Took(X[u]) \cap Took(X[v]) = {}
                                                /\ Writes(X[u]) \cap Writes(X[v]) = {}
      BY DEF Shared, Takers
    <2>2. \A u \in T : OneToOne(X2[u].newPages)
      BY <2>1, <1>1
    <2>3. \A u, v \in T : v # u => Took(X2[u]) \cap Took(X2[v]) = {}
      BY <2>1, <1>2
    <2>4. ASSUME NEW u \in T, NEW v \in T, v # u PROVE Writes(X2[u]) \cap Writes(X2[v]) = {}
      BY <1>1, <2>1, <2>4
    <2>5. \A u \in T : Took(X2[u]) \subseteq 1 .. h.last /\ \A c \in Cols : Took(X2[u]) \cap Of(K, c) = {}
      BY <2>1, <1>2
    <2>6. QED
      BY <2>2, <2>3, <2>4, <2>5 DEF Takers
  <1>5. ASSUME NEW u \in T, X2[u].st = "active" PROVE Works(K, log2, X2[u])
    <2>1. CASE u = t
      BY <2>1, <1>1, <1>5
    <2>2. CASE u # t
      <3>1. X2[u] = X[u] /\ X[u].st = "active" /\ Same(log, log2, X[u])
        BY <2>2, <1>1, <1>5
      <3>2. PICK r : r = X[u]
        OBVIOUS
      <3>3. Works(K, log, r) /\ Same(log, log2, r)
        BY <3>1, <3>2 DEF Shared
      <3>4. Works(K, log2, r)
        BY <3>3, StillWorks
      <3>5. QED
        BY <3>1, <3>2, <3>4
    <2>3. QED
      BY <2>1, <2>2
  <1>6. QED
    BY <1>3, <1>4, <1>5 DEF Shared

\* A page nobody has: the first of the free list, or the next one of the file.
Fresh(h, h2, B, a) ==
    /\ a \in Pages
    /\ \/ h.free # NoPage /\ a = h.free /\ h2.last = h.last /\ B[a] = Empty(h2.free)
       \/ h.free = NoPage /\ a = h.last + 1 /\ h2.free = NoPage /\ h2.last = a
Unused(K, T, X, a) ==
    /\ \A c \in Cols : a \notin Of(K, c)
    /\ \A t \in T : a \notin Took(X[t])

\* The page Alloc finds is nobody's.
LEMMA NobodyHasIt ==
    ASSUME NEW h, NEW h2, NEW B, NEW K, NEW log, NEW T, NEW X, NEW whole, NEW a,
           Shared(h, B, K, log, T, X, whole), Fresh(h, h2, B, a), h.last \in Nat
    PROVE  Unused(K, T, X, a)
  <1>1. PICK fs \in Seq(Pages) : FreeList(h, B, K, T, X, whole, fs)
    BY DEF Shared
  <1>2. CASE h.free # NoPage
    BY <1>1, <1>2, LastIsOne DEF Fresh, FreeList, First, Unused
  <1>3. CASE h.free = NoPage
    BY <1>3 DEF Fresh, Shared, Collections, Takers, Unused
  <1>4. QED
    BY <1>2, <1>3

\* A transaction takes that page.
Takes(K, log, T, X, X2, t, a) ==
    /\ t \in T
    /\ \A u \in T \ {t} : X2[u] = X[u]
    /\ Took(X2[t]) = Took(X[t]) \cup {a} /\ OneToOne(X2[t].newPages)
    /\ Writes(X2[t]) = Writes(X[t])
    /\ X2[t].st = "active" => Works(K, log, X2[t])

\* Then it is that transaction's, and the rest is as it was.
LEMMA OneTakesIt ==
    ASSUME NEW h, NEW h2, NEW B, NEW K, NEW log, NEW T, NEW X, NEW X2, NEW t, NEW whole, NEW a,
           Shared(h, B, K, log, T, X, whole), Fresh(h, h2, B, a), h.last \in Nat,
           Takes(K, log, T, X, X2, t, a)
    PROVE  Shared(h2, B, K, log, T, X2, whole)
  <1>1. PICK fs \in Seq(Pages) : FreeList(h, B, K, T, X, whole, fs)
    BY DEF Shared
  <1>2. Unused(K, T, X, a)
    BY NobodyHasIt
  <1>3. /\ t \in T /\ \A u \in T : u # t => X2[u] = X[u]
        /\ Took(X2[t]) = Took(X[t]) \cup {a} /\ OneToOne(X2[t].newPages)
        /\ Writes(X2[t]) = Writes(X[t])
    BY DEF Takes
  <1>4. 1 .. h2.last = 1 .. h.last \cup {a} /\ h2.last \in Nat
    BY <1>1, LastIsOne DEF Fresh, FreeList, First
  <1>5. PICK gs \in Seq(Pages) : /\ OneToOne(gs) /\ h2.free = First(gs, NoPage) /\ Chain(B, gs, NoPage)
                                 /\ ToSet(gs) \subseteq ToSet(fs) /\ a \notin ToSet(gs)
                                 /\ ToSet(fs) \subseteq ToSet(gs) \cup {a}
    <2>1. CASE h.free # NoPage
      <3>1. a = fs[1] /\ fs # <<>> /\ B[a] = Empty(h2.free)
        BY <1>1, <2>1 DEF Fresh, FreeList, First
      <3>2. /\ Tail(fs) \in Seq(Pages) /\ OneToOne(Tail(fs))
            /\ ToSet(Tail(fs)) = ToSet(fs) \ {fs[1]}
            /\ B[fs[1]] = Empty(First(Tail(fs), NoPage))
            /\ Chain(B, Tail(fs), NoPage)
        BY <3>1, <1>1, TailOfList DEF FreeList
      <3>3. h2.free = First(Tail(fs), NoPage)
        BY <3>1, <3>2 DEF Empty
      <3>4. QED
        BY <3>1, <3>2, <3>3
    <2>2. CASE h.free = NoPage
      <3>1. fs = <<>> /\ h2.free = NoPage
        BY <1>1, <2>2, LastIsOne DEF FreeList, Fresh
      <3>2. a \notin ToSet(fs)
        BY <3>1 DEF ToSet
      <3>3. QED
        BY <3>1, <3>2, <1>1, <2>2 DEF FreeList
    <2>3. QED
      BY <2>1, <2>2
  <1>6. Taken(T, X2) = Taken(T, X) \cup {a}
    BY <1>3 DEF Taken
  <1>7. FreeList(h2, B, K, T, X2, whole, gs)
    BY <1>1, <1>3, <1>4, <1>5, <1>6 DEF FreeList
  <1>8. Collections(h2, K)
    BY <1>4 DEF Shared, Collections
  <1>9. Takers(h2, K, T, X2)
    <2>1. \A u \in T : /\ Took(X[u]) \subseteq 1 .. h.last /\ OneToOne(X[u].newPages)
                       /\ \A c \in Cols : Took(X[u]) \cap Of(K, c) = {}
                       /\ \A v \in T : v # u => /\ Took(X[u]) \cap Took(X[v]) = {}
                                                /\ Writes(X[u]) \cap Writes(X[v]) = {}
      BY DEF Shared, Takers
    <2>2. (\A c \in Cols : a \notin Of(K, c)) /\ \A u \in T : a \notin Took(X[u])
      BY <1>2 DEF Unused
    <2>3. \A u \in T : OneToOne(X2[u].newPages) /\ Writes(X2[u]) = Writes(X[u])
      BY <2>1, <1>3
    <2>4. \A u \in T : Took(X2[u]) \subseteq 1 .. h2.last /\ \A c \in Cols : Took(X2[u]) \cap Of(K, c) = {}
      BY <2>1, <2>2, <1>3, <1>4
    <2>5. ASSUME NEW u \in T, NEW v \in T, v # u PROVE Took(X2[u]) \cap Took(X2[v]) = {}
      <3>1. Took(X[u]) \cap Took(X[v]) = {} /\ a \notin Took(X[u]) /\ a \notin Took(X[v])
        BY <2>1, <2>2, <2>5
      <3>2. (u # t => Took(X2[u]) = Took(X[u])) /\ (v # t => Took(X2[v]) = Took(X[v]))
        BY <1>3
      <3>3. QED
        BY <3>1, <3>2, <2>5, <1>3
    <2>6. QED
      BY <2>1, <2>3, <2>4, <2>5 DEF Takers
  <1>10. \A u \in T : X2[u].st = "active" => Works(K, log, X2[u])
    BY <1>3 DEF Takes, Shared
  <1>11. QED
    BY <1>7, <1>8, <1>9, <1>10 DEF Shared

\* A transaction that has nothing more counts no longer, or again.
LEMMA HasNothing ==
    ASSUME NEW h, NEW B, NEW K, NEW log, NEW T, NEW X, NEW t, NEW whole,
           Shared(h, B, K, log, T, X, whole), Took(X[t]) = {}, Writes(X[t]) = {},
           OneToOne(X[t].newPages), X[t].st # "active"
    PROVE  Shared(h, B, K, log, T \cup {t}, X, whole)
  <1> DEFINE T2 == T \cup {t}
  <1>1. PICK fs \in Seq(Pages) : FreeList(h, B, K, T, X, whole, fs)
    BY DEF Shared
  <1>2. Taken(T2, X) = Taken(T, X)
    BY DEF Taken
  <1> HIDE DEF T2
  <1>3. T2 = T \cup {t}
    BY DEF T2
  <1>4. FreeList(h, B, K, T2, X, whole, fs)
    BY <1>1, <1>2, <1>3 DEF FreeList
  <1>5. Takers(h, K, T2, X)
    BY <1>3 DEF Shared, Takers
  <1>6. QED
    BY <1>3, <1>4, <1>5 DEF Shared, T2

\* The pages of some of the collections.
Part(K, W) == UNION {Of(K, c) : c \in W}

\* A transaction hands its pages over: some become those of the collections in W, the
\* others, ds, come in front of the free list.
Hands(h, h2, B, B2, K, K2, log, log2, T, X, X2, t, W, ds) ==
    LET M == Took(X[t]) \cup Part(K, W)
    IN  /\ t \in T /\ W \subseteq Writes(X[t]) /\ h2.last = h.last
        /\ ds \in Seq(Pages) /\ OneToOne(ds) /\ ToSet(ds) = M \ Part(K2, W)
        /\ h2.free = First(ds, h.free) /\ Chain(B2, ds, h.free)
        /\ \A p \in Pages \ M : B2[p] = B[p]
        /\ \A c \in Cols \ W : K2[c] = K[c]
        /\ \A c \in W : /\ Of(K2, c) \subseteq M
                        /\ K2[c].page # NoPage => K2[c].body.kind = "coll" /\ K2[c].page \notin K2[c].body.pages
                        /\ \A d \in W : c # d => Of(K2, c) \cap Of(K2, d) = {}
        /\ \A u \in T \ {t} : X2[u] = X[u] /\ (X[u].st = "active" => Same(log, log2, X[u]))

\* The new owners are the only ones.
LEMMA HandedOver ==
    ASSUME NEW h, NEW h2, NEW B, NEW B2, NEW K, NEW K2, NEW log, NEW log2, NEW T, NEW X, NEW X2, NEW t,
           NEW W, NEW ds, NEW whole, Shared(h, B, K, log, T, X, whole),
           Hands(h, h2, B, B2, K, K2, log, log2, T, X, X2, t, W, ds)
    PROVE  Shared(h2, B2, K2, log2, T \ {t}, X2, whole)
  <1> DEFINE M == Took(X[t]) \cup Part(K, W)
             N == Part(K2, W)
             T2 == T \ {t}
  <1>1. /\ t \in T /\ W \subseteq Writes(X[t]) /\ h2.last = h.last
        /\ ds \in Seq(Pages) /\ OneToOne(ds) /\ ToSet(ds) = M \ N
        /\ h2.free = First(ds, h.free) /\ Chain(B2, ds, h.free)
        /\ \A p \in Pages \ M : B2[p] = B[p]
        /\ \A c \in Cols \ W : K2[c] = K[c]
        /\ \A c \in W : /\ Of(K2, c) \subseteq M
                        /\ K2[c].page # NoPage => K2[c].body.kind = "coll" /\ K2[c].page \notin K2[c].body.pages
                        /\ \A d \in W : c # d => Of(K2, c) \cap Of(K2, d) = {}
        /\ \A u \in T2 : X2[u] = X[u] /\ (X[u].st = "active" => Same(log, log2, X[u]))
    BY DEF Hands
  <1>2. W \subseteq Cols
    BY <1>1 DEF Writes
  <1>3. PICK fs \in Seq(Pages) : FreeList(h, B, K, T, X, whole, fs)
    BY DEF Shared
  <1>4. \A c \in Cols :
            /\ K[c].page # NoPage => K[c].body.kind = "coll" /\ K[c].page \notin K[c].body.pages
            /\ Of(K, c) \subseteq 1 .. h.last
            /\ \A d \in Cols : c # d => Of(K, c) \cap Of(K, d) = {}
    BY DEF Shared, Collections
  <1>5. \A u \in T : /\ Took(X[u]) \subseteq 1 .. h.last /\ OneToOne(X[u].newPages)
                     /\ \A c \in Cols : Took(X[u]) \cap Of(K, c) = {}
                     /\ \A v \in T : v # u => /\ Took(X[u]) \cap Took(X[v]) = {}
                                              /\ Writes(X[u]) \cap Writes(X[v]) = {}
    BY DEF Shared, Takers
  <1>6. M \subseteq 1 .. h.last
    BY <1>1, <1>2, <1>4, <1>5 DEF Part
  <1>7. N \subseteq M /\ \A c \in W : Of(K2, c) \subseteq N
    BY <1>1 DEF Part
  <1>8. \A c \in Cols \ W : Of(K2, c) = Of(K, c)
    BY <1>1 DEF Of
  <1>9. \A c \in Cols \ W : Of(K, c) \cap M = {}
    BY <1>1, <1>2, <1>4, <1>5 DEF Part
  <1>10. ASSUME NEW u \in T2 PROVE Took(X[u]) \cap M = {}
    <2>1. u \in T /\ u # t /\ t \in T
      BY <1>1
    <2>2. Took(X[u]) \cap Took(X[t]) = {} /\ \A c \in W : Took(X[u]) \cap Of(K, c) = {}
      BY <2>1, <1>2, <1>5
    <2>3. Took(X[u]) \cap Part(K, W) = {}
      BY <2>2 DEF Part
    <2>4. QED
      BY <2>2, <2>3
  <1>11. ToSet(fs) \cap M = {}
    BY <1>1, <1>2, <1>3 DEF Part, FreeList
  <1>12. Took(X[t]) \subseteq M
    OBVIOUS
  <1>13. Part(K, W) \subseteq M
    OBVIOUS
  <1> HIDE DEF M, N, T2
  <1>14. Chain(B2, fs, NoPage)
    BY <1>1, <1>3, <1>11, LenProperties, ElementOfSeq DEF ToSet, Chain, FreeList
  <1> DEFINE gs == ds \o fs
  <1>15. /\ gs \in Seq(Pages) /\ OneToOne(gs)
         /\ ToSet(gs) = ToSet(ds) \cup ToSet(fs)
         /\ First(gs, NoPage) = First(ds, First(fs, NoPage))
         /\ Chain(B2, gs, NoPage)
    <2>1. ToSet(ds) \cap ToSet(fs) = {}
      BY <1>1, <1>11
    <2>2. Chain(B2, ds, First(fs, NoPage)) /\ OneToOne(fs) /\ OneToOne(ds)
      BY <1>1, <1>3 DEF FreeList
    <2>3. PICK end : end = NoPage
      OBVIOUS
    <2>4. QED
      BY <2>1, <2>2, <2>3, <1>1, <1>14, JoinedLists
  <1> HIDE DEF gs
  <1>16. FreeList(h2, B2, K2, T2, X2, whole, gs)
    <2>1. h2.free = First(gs, NoPage)
      BY <1>1, <1>3, <1>15 DEF FreeList
    <2>2. ToSet(gs) \subseteq 1 .. h2.last
      BY <1>1, <1>3, <1>6, <1>15 DEF FreeList
    <2>3. ASSUME NEW c \in Cols PROVE ToSet(gs) \cap Of(K2, c) = {}
      BY <1>1, <1>3, <1>7, <1>8, <1>9, <1>11, <1>15 DEF FreeList
    <2>4. ASSUME NEW u \in T2 PROVE ToSet(gs) \cap Took(X2[u]) = {}
      BY <1>1, <1>3, <1>10, <1>15 DEF FreeList, T2
    <2>5. whole => 1 .. h2.last \subseteq ToSet(gs) \cup Collected(K2) \cup Taken(T2, X2)
      BY <1>1, <1>2, <1>3, <1>8, <1>12, <1>13, <1>15 DEF FreeList, T2, Taken, Part, Collected, N
    <2>6. QED
      BY <2>1, <2>2, <2>3, <2>4, <2>5, <1>15 DEF FreeList
  <1>17. Collections(h2, K2)
    BY <1>1, <1>4, <1>6, <1>8, <1>9 DEF Collections
  <1>18. Takers(h2, K2, T2, X2)
    BY <1>1, <1>5, <1>8, <1>10 DEF T2, Takers
  <1>19. ASSUME NEW u \in T2, X2[u].st = "active" PROVE Works(K2, log2, X2[u])
    <2>1. u \in T /\ u # t /\ X2[u] = X[u] /\ X[u].st = "active" /\ Same(log, log2, X[u])
      BY <1>1, <1>19 DEF T2
    <2>2. \A c \in Writes(X[u]) : c \in Cols \ W
      BY <2>1, <1>1, <1>5 DEF Writes
    <2>3. \A c \in Writes(X[u]) : K2[c] = K[c]
      BY <2>2, <1>1
    <2>4. PICK r : r = X[u]
      OBVIOUS
    <2>5. Works(K, log, r) /\ Same(log, log2, r) /\ \A c \in Writes(r) : K2[c] = K[c]
      BY <2>1, <2>3, <2>4 DEF Shared
    <2>6. Works(K2, log2, r)
      BY <2>5, StillWorks
    <2>7. QED
      BY <2>1, <2>4, <2>6
  <1>20. QED
    BY <1>15, <1>16, <1>17, <1>18, <1>19 DEF Shared, T2

\* What a transaction has in memory is its own, and no collection page it left alone.
Memory(K, r) ==
    /\ \A p : InMemory(r, p) => p \in Mine(K, r)
    /\ \A c \in Writes(r) : ~r.snaps[c].collDirty => ~InMemory(r, K[c].page)

\* It follows from the work being in order.
LEMMA MemoryIs ==
    ASSUME NEW K, NEW log, NEW r, Works(K, log, r), NoPage \notin Mine(K, r),
           \A c \in Writes(r) : r.snaps[c].loaded
    PROVE  Memory(K, r)
  <1> DEFINE W == Writes(r)
             M == Mine(K, r)
             All(d) == Whole(K, r.snaps[d], d)
  <1>1. \A d \in W : All(d) \subseteq M /\ \A e \in W : d # e => All(d) \cap All(e) = {}
    BY DEF Works, Disjoint
  <1>2. \A d \in W : /\ r.snaps[d].collDirty => r.snaps[d].coll # NoPage
                     /\ r.snaps[d].coll = NoPage => K[d].page = NoPage
                     /\ r.snaps[d].coll # NoPage => r.snaps[d].coll \in All(d)
                     /\ ~r.snaps[d].collDirty => K[d].page = r.snaps[d].coll
    BY DEF Works, Opened, Whole
  <1>3. \A d \in W : \A p \in DOMAIN r.snaps[d].local :
            /\ p \in M
            /\ \A e \in W : p # r.snaps[e].coll /\ (e # d => p \notin DOMAIN r.snaps[e].local)
    BY DEF Works, Changed
  <1>4. \A p : InMemory(r, p) => p \in M
    BY <1>1, <1>2, <1>3 DEF InMemory
  <1> HIDE DEF W, M, All
  <1>5. ASSUME NEW d \in W, ~r.snaps[d].collDirty PROVE ~InMemory(r, K[d].page)
    BY <1>1, <1>2, <1>3, <1>4, <1>5 DEF M, InMemory, W
  <1>6. QED
    BY <1>4, <1>5 DEF Memory, M, W

\* The end of the deleted pages is linked to what is free.
Splices(r, q, free) ==
    /\ Writes(q) = Writes(r) /\ q.dirty = r.dirty
    /\ \A c \in Writes(r) : /\ q.snaps[c].collDirty = r.snaps[c].collDirty
                            /\ q.snaps[c].coll = r.snaps[c].coll /\ q.snaps[c].body = r.snaps[c].body
                            /\ q.snaps[c].loaded = r.snaps[c].loaded
                            /\ IF r.lastDelete # NoPage /\ c = r.lastDeleteColl
                               THEN PutEffect(q.snaps[c].local, r.snaps[c].local, r.lastDelete, Empty(free))
                               ELSE q.snaps[c].local = r.snaps[c].local

\* The store once everything the transaction has changed is in it.
Saved(log, q, B, B2) ==
    /\ \A c \in Writes(q) : /\ \A p \in DOMAIN q.snaps[c].local : B2[p] = q.snaps[c].local[p].body
                            /\ q.snaps[c].collDirty => B2[q.snaps[c].coll] = q.snaps[c].body
    /\ \A p \in Pages : ~InMemory(q, p) =>
           B2[p] = IF p \in DOMAIN q.dirty THEN log[q.dirty[p]].body ELSE B[p]

\* It adds the last deleted page to what is in memory, at most.
SplicedMemory(r, q) ==
    \A p : InMemory(q, p) <=> InMemory(r, p) \/ (r.lastDelete # NoPage /\ p = r.lastDelete)

\* The splice of a commit touches one page.
LEMMA MemorySpliced ==
    ASSUME NEW r, NEW q, NEW free, Splices(r, q, free), LastDeleted(r)
    PROVE  SplicedMemory(r, q)
  BY DEF Splices, InMemory, SplicedMemory, PutEffect, LastDeleted

\* The header a commit writes.
Commits(h, h2, K, r) ==
    /\ h2.last = h.last
    /\ h2.free = IF r.lastDelete = NoPage THEN h.free ELSE r.firstDelete
    /\ h2.table = Then(K, r)

\* Where Places puts the collections, and that it depends on nothing else.
Placed(h, B, K) ==
    \A c \in Cols : /\ K[c].page = h.table[c]
                    /\ K[c].body = IF h.table[c] = NoPage THEN Blank ELSE B[h.table[c]]
Alike(h, h2, B, B2, K, K2) ==
    \A c \in Cols : h2.table[c] = h.table[c] /\ (h.table[c] # NoPage => B2[h.table[c]] = B[h.table[c]])
                        => K2[c] = K[c]

\* Collections are where the header has them.
LEMMA PlacesAre == ASSUME NEW h, NEW B PROVE Placed(h, B, Places(h, B))
  BY DEF Places, Place, Placed

\* A collection whose place and page are the same is the same.
LEMMA PlacesAlike == ASSUME NEW h, NEW h2, NEW B, NEW B2 PROVE Alike(h, h2, B, B2, Places(h, B), Places(h2, B2))
  BY DEF Places, Place, Alike

\* Where the collections are then.
Settles(K, K2, r) ==
    /\ \A c \in Cols \ Writes(r) : K2[c] = K[c]
    /\ \A c \in Writes(r) : /\ Of(K2, c) = Now(K, r.snaps[c], c)
                            /\ K2[c].page # NoPage => K2[c].body.kind = "coll" /\ K2[c].page \notin K2[c].body.pages

\* A commit makes of each collection it wrote to what its snapshot has.
LEMMA CollectionsSettle ==
    ASSUME NEW h, NEW h2, NEW B, NEW B2, NEW K, NEW K2, NEW log, NEW r \in TxRecs, NEW q, NEW free,
           Placed(h, B, K), Placed(h2, B2, K2), Alike(h, h2, B, B2, K, K2),
           Works(K, log, r), Mine(K, r) \subseteq Pages,
           \A c \in Cols \ Writes(r) : Of(K, c) \cap Mine(K, r) = {} /\ K[c].page \in Pages \cup {NoPage},
           \A c \in Writes(r) : r.snaps[c].loaded,
           Splices(r, q, free), Saved(log, q, B, B2), Commits(h, h2, K, r),
           \A p \in Pages \ Mine(K, r) : B2[p] = B[p]
    PROVE  Settles(K, K2, r)
  <1>0. NoPage \notin Mine(K, r)
    BY PageIds
  <1>1. \A c \in Cols : /\ K[c].body = IF K[c].page = NoPage THEN Blank ELSE B[K[c].page]
                        /\ K2[c].body = IF K2[c].page = NoPage THEN Blank ELSE B2[K2[c].page]
                        /\ h.table[c] = K[c].page /\ h2.table[c] = K2[c].page
    BY DEF Placed
  <1>2. \A c \in Cols : K2[c].page = Then(K, r)[c]
    BY DEF Placed, Commits
  <1>3. ASSUME NEW c \in Cols \ Writes(r) PROVE K2[c] = K[c]
    BY <1>1, <1>2, NothingYet DEF Works, Alike, Of
  <1>4. ASSUME NEW c \in Writes(r)
        PROVE  /\ Of(K2, c) = Now(K, r.snaps[c], c)
               /\ K2[c].page # NoPage => K2[c].body.kind = "coll" /\ K2[c].page \notin K2[c].body.pages
    <2> DEFINE s == r.snaps[c]
    <2>1. c \in Cols /\ s.loaded
      BY DEF Writes
    <2>2. K2[c].page = Becomes(s)
      BY <2>1, <1>2 DEF Works, Registered
    <2>3. CASE s.body.kind # "coll"
      BY <2>1, <2>2, <2>3 DEF Becomes, Of, Now
    <2>4. CASE s.body.kind = "coll"
      <3>1. K2[c].page = s.coll /\ s.coll # NoPage /\ s.coll \notin s.body.pages
        BY <2>2, <2>4 DEF Becomes, Works, Opened
      <3>2. s.coll \in Mine(K, r)
        BY <2>1, <2>4 DEF Works, Disjoint, Whole, Now
      <3>3. B2[s.coll] = s.body
        <4>1. CASE s.collDirty
          BY <4>1 DEF Splices, Saved
        <4>2. CASE ~s.collDirty
          <5>1. s.coll = K[c].page /\ s.body = K[c].body
            BY <4>2, <3>1, <2>1 DEF Works, Opened
          <5>2. ~InMemory(r, s.coll)
            BY <5>1, <4>2, <1>0, MemoryIs DEF Memory
          <5>3. r.lastDelete # NoPage => r.lastDelete # s.coll
            BY DEF Works, LastDeleted
          <5>4. ~InMemory(q, s.coll)
            BY <5>2, <5>3, MemorySpliced DEF Works, SplicedMemory
          <5>5. s.coll \notin DOMAIN q.dirty
            BY <5>1, <4>2 DEF Works, Spills, Splices
          <5>6. B2[s.coll] = B[s.coll]
            BY <5>4, <5>5, <3>2 DEF Saved
          <5>7. K[c].body = B[K[c].page]
            BY <1>1, <2>1, <3>1, <5>1
          <5>8. QED
            BY <5>1, <5>6, <5>7
        <4>3. QED
          BY <4>1, <4>2
      <3>4. K2[c].body = s.body
        BY <3>1, <3>3, <2>1, <1>1
      <3>5. QED
        BY <3>1, <3>4, <2>1, <2>4 DEF Of, Now
    <2>5. QED
      BY <2>3, <2>4
  <1>5. QED
    BY <1>3, <1>4 DEF Settles

\* The pages of a transaction are pages, and no other transaction's.
LEMMA MineIs ==
    ASSUME NEW h, NEW B, NEW K, NEW log, NEW T, NEW X, NEW t \in T, NEW whole,
           Shared(h, B, K, log, T, X, whole), h.last \in Pages
    PROVE  /\ Mine(K, X[t]) \subseteq 1 .. h.last /\ Mine(K, X[t]) \subseteq Pages
           /\ \A c \in Cols \ Writes(X[t]) : Of(K, c) \cap Mine(K, X[t]) = {}
           /\ \A u \in T : u # t => Mine(K, X[u]) \cap Mine(K, X[t]) = {}
  <1>1. \A u \in T : /\ Took(X[u]) \subseteq 1 .. h.last
                     /\ \A c \in Cols : Took(X[u]) \cap Of(K, c) = {}
                     /\ \A v \in T : v # u => /\ Took(X[u]) \cap Took(X[v]) = {}
                                              /\ Writes(X[u]) \cap Writes(X[v]) = {}
    BY DEF Shared, Takers
  <1>2. \A c \in Cols : /\ Of(K, c) \subseteq 1 .. h.last
                        /\ \A d \in Cols : c # d => Of(K, c) \cap Of(K, d) = {}
    BY DEF Shared, Collections
  <1>3. \A u \in T : Writes(X[u]) \subseteq Cols
    BY DEF Writes
  <1>4. 1 .. h.last \subseteq Pages
    BY BoundsAssumption DEF Pages
  <1>5. \A u \in T : \A p : p \in Mine(K, X[u]) <=> p \in Took(X[u]) \/ \E c \in Writes(X[u]) : p \in Of(K, c)
    BY DEF Mine
  <1>6. Mine(K, X[t]) \subseteq 1 .. h.last
    BY <1>1, <1>2, <1>3, <1>5
  <1>7. ASSUME NEW c \in Cols \ Writes(X[t]) PROVE Of(K, c) \cap Mine(K, X[t]) = {}
    BY <1>1, <1>2, <1>3, <1>5
  <1>8. ASSUME NEW u \in T, u # t PROVE Mine(K, X[u]) \cap Mine(K, X[t]) = {}
    <2>1. ASSUME NEW p \in Mine(K, X[u]), p \in Mine(K, X[t]) PROVE FALSE
      <3>1. CASE p \in Took(X[u])
        BY <3>1, <2>1, <1>1, <1>3, <1>5, <1>8
      <3>2. CASE p \notin Took(X[u])
        <4>1. PICK c \in Writes(X[u]) : p \in Of(K, c)
          BY <3>2, <2>1, <1>5
        <4>2. c \in Cols \ Writes(X[t])
          BY <4>1, <1>1, <1>3, <1>8
        <4>3. QED
          BY <4>1, <4>2, <2>1, <1>7
      <3>3. QED
        BY <3>1, <3>2
    <2>2. QED
      BY <2>1
  <1>9. QED
    BY <1>4, <1>6, <1>7, <1>8

\* A commit: the deleted pages come in front of the free list.
LEMMA CommitShared ==
    ASSUME NEW h, NEW h2, NEW B, NEW B2, NEW K, NEW K2, NEW log, NEW log2, NEW T, NEW X, NEW X2,
           NEW t \in T, NEW q, NEW whole, Shared(h, B, K, log, T, X, whole), h.last \in Pages,
           h.table \in [Cols -> Links],
           Placed(h, B, K), Placed(h2, B2, K2), Alike(h, h2, B, B2, K, K2),
           X[t] \in TxRecs, X[t].st = "active", \A c \in Writes(X[t]) : X[t].snaps[c].loaded,
           Splices(X[t], q, h.free), Saved(log, q, B, B2), Commits(h, h2, K, X[t]),
           \A u \in T \ {t} : X2[u] = X[u] /\ (X[u].st = "active" => Same(log, log2, X[u]))
    PROVE  Shared(h2, B2, K2, log2, T \ {t}, X2, whole)
  <1>1. PICK r \in TxRecs : r = X[t]
    OBVIOUS
  <1>2. Works(K, log, r) /\ Splices(r, q, h.free) /\ \A c \in Writes(r) : r.snaps[c].loaded
    BY <1>1 DEF Shared
  <1>3. /\ Mine(K, r) \subseteq 1 .. h.last /\ Mine(K, r) \subseteq Pages
        /\ \A c \in Cols \ Writes(r) : Of(K, c) \cap Mine(K, r) = {}
    BY <1>1, MineIs
  <1>4. \A c \in Cols : K[c].page \in Pages \cup {NoPage}
    BY DEF Placed, Links
  <1>5. Memory(K, r)
    BY <1>2, <1>3, PageIds, MemoryIs
  <1>6. SplicedMemory(r, q)
    <2>1. LastDeleted(r)
      BY <1>2 DEF Works
    <2>2. PICK free : free = h.free
      OBVIOUS
    <2>3. QED
      BY <2>1, <2>2, <1>2, MemorySpliced
  <1>7. PICK ds \in Seq(Pages) : Deleted(K, log, r, ds)
    BY <1>2 DEF Works
  <1>8. /\ OneToOne(ds) /\ ToSet(ds) = Mine(K, r) \ Keeps(K, r)
        /\ r.firstDelete = First(ds, NoPage) /\ r.lastDelete = LastOf(ds)
        /\ \A i \in 1 .. Len(ds) : i < Len(ds) => Says(log, r, ds[i], Empty(ds[i + 1]))
    BY <1>7 DEF Deleted
  <1>9. Len(ds) \in Nat /\ DOMAIN ds = 1 .. Len(ds) /\ (ds = <<>> <=> Len(ds) = 0)
    BY LenProperties, EmptySeq
  <1>10. /\ \A i \in 1 .. Len(ds) : ds[i] \in Mine(K, r) /\ ds[i] \in Pages
         /\ r.lastDelete # NoPage <=> ds # <<>>
         /\ r.lastDelete # NoPage => r.lastDelete = ds[Len(ds)] /\ r.lastDelete \in Mine(K, r)
    BY <1>3, <1>8, <1>9, LastIsOne DEF ToSet, LastOf
  <1>11. \A p \in Pages \ Mine(K, r) : B2[p] = B[p]
    BY <1>2, <1>5, <1>6, <1>10 DEF Memory, SplicedMemory, Works, Spills, Splices, Saved
  <1>12. Settles(K, K2, r)
    <2>1. \A c \in Cols \ Writes(r) : Of(K, c) \cap Mine(K, r) = {} /\ K[c].page \in Pages \cup {NoPage}
      BY <1>3, <1>4
    <2>2. Commits(h, h2, K, r)
      BY <1>1
    <2>3. PICK free : free = h.free
      OBVIOUS
    <2>4. Splices(r, q, free)
      BY <2>3, <1>2
    <2>5. QED
      BY <2>1, <2>2, <2>4, <1>2, <1>3, <1>11, CollectionsSettle
  <1> DEFINE W == Writes(r)
             end == h.free
  <1>13. /\ \A c \in W : Of(K2, c) = Now(K, r.snaps[c], c) /\ Of(K2, c) \subseteq Mine(K, r)
         /\ \A c, d \in W : c # d => Of(K2, c) \cap Of(K2, d) = {}
         /\ Part(K2, W) = Keeps(K, r) /\ Took(r) \cup Part(K, W) = Mine(K, r)
    <2>1. \A c \in W : Of(K2, c) = Now(K, r.snaps[c], c)
      BY <1>12 DEF Settles
    <2>2. \A c \in W : Now(K, r.snaps[c], c) \subseteq Whole(K, r.snaps[c], c)
      BY DEF Whole
    <2>3. \A c \in W : /\ Whole(K, r.snaps[c], c) \subseteq Mine(K, r)
                       /\ \A d \in W : c # d => Whole(K, r.snaps[c], c) \cap Whole(K, r.snaps[d], d) = {}
      BY <1>2 DEF Works, Disjoint
    <2>4. Part(K2, W) = Keeps(K, r)
      BY <2>1 DEF Part, Keeps
    <2>5. Took(r) \cup Part(K, W) = Mine(K, r)
      BY DEF Part, Mine
    <2> HIDE DEF W
    <2>6. \A c \in W : Of(K2, c) \subseteq Whole(K, r.snaps[c], c)
      BY <2>1, <2>2
    <2>7. \A c \in W : Of(K2, c) \subseteq Mine(K, r)
      BY <2>3, <2>6
    <2>8. \A c, d \in W : c # d => Of(K2, c) \cap Of(K2, d) = {}
      BY <2>3, <2>6
    <2>9. QED
      BY <2>1, <2>4, <2>5, <2>7, <2>8
  <1>14. h2.free = First(ds, end)
    BY <1>1, <1>8, <1>10 DEF Commits, First
  <1>15. Chain(B2, ds, end)
    <2> HIDE DEF end
    <2> SUFFICES ASSUME NEW i \in 1 .. Len(ds) PROVE B2[ds[i]] = Empty(After(ds, i, end))
      BY DEF Chain
    <2>1. ds # <<>> /\ r.lastDelete = ds[Len(ds)] /\ Len(ds) \in 1 .. Len(ds)
      BY <1>9, <1>10
    <2>2. CASE i = Len(ds)
      BY <1>2, <1>9, <1>10, <2>1, <2>2 DEF After, Works, LastDeleted, Splices, end, PutEffect, Saved
    <2>3. CASE i # Len(ds)
      <3>1. i < Len(ds) /\ After(ds, i, end) = ds[i + 1]
        BY <2>3, <1>9 DEF After
      <3>2. ds[i] # r.lastDelete
        BY <2>1, <2>3, <1>8, <1>9 DEF OneToOne
      <3>3. Says(log, r, ds[i], Empty(ds[i + 1]))
        BY <3>1, <1>8
      <3>4. PICK p \in Pages : p = ds[i]
        BY <1>10
      <3>5. PICK b : b = Empty(ds[i + 1])
        OBVIOUS
      <3>6. Says(log, r, p, b) /\ p # r.lastDelete
        BY <3>2, <3>3, <3>4, <3>5
      <3>7. \A c \in W : p \in DOMAIN r.snaps[c].local =>
                p \in DOMAIN q.snaps[c].local /\ q.snaps[c].local[p] = r.snaps[c].local[p]
        BY <3>6, <1>2 DEF Splices, PutEffect
      <3>8. B2[p] = b
        BY <1>2, <1>6, <3>6, <3>7 DEF Saved, Splices, SplicedMemory, Says
      <3>9. QED
        BY <3>1, <3>4, <3>5, <3>8
    <2>4. QED
      BY <2>2, <2>3
  <1>16. Hands(h, h2, B, B2, K, K2, log, log2, T, X, X2, t, W, ds)
    <2>1. W \subseteq Writes(X[t]) /\ Took(X[t]) \cup Part(K, W) = Mine(K, r)
      BY <1>1, <1>13
    <2>2. h2.last = h.last
      BY DEF Commits
    <2>3. \A c \in Cols \ W : K2[c] = K[c]
      BY <1>12 DEF Settles
    <2>4. \A c \in W : K2[c].page # NoPage => K2[c].body.kind = "coll" /\ K2[c].page \notin K2[c].body.pages
      BY <1>12 DEF Settles
    <2> HIDE DEF W
    <2>5. QED
      BY <2>1, <2>2, <2>3, <2>4, <1>8, <1>11, <1>13, <1>14, <1>15 DEF Hands
  <1> HIDE DEF W
  <1>17. QED
    BY <1>16, HandedOver

\* New pages are given back: all of them come in front of the free list.
LEMMA ReturnShared ==
    ASSUME NEW h, NEW h2, NEW B, NEW B2, NEW K, NEW K2, NEW log, NEW log2, NEW T, NEW X, NEW X2,
           NEW t \in T, NEW whole, Shared(h, B, K, log, T, X, whole), h.last \in Pages,
           Placed(h, B, K), Placed(h2, B2, K2), Alike(h, h2, B, B2, K, K2),
           X[t].newPages \in Seq(Pages), Chain(B2, X[t].newPages, h.free),
           h2.last = h.last, h2.table = h.table, h2.free = First(X[t].newPages, h.free),
           \A p \in Pages \ Took(X[t]) : B2[p] = B[p], \A c \in Cols : K[c].page \in Links,
           \A u \in T \ {t} : X2[u] = X[u] /\ (X[u].st = "active" => Same(log, log2, X[u]))
    PROVE  Shared(h2, B2, K2, log2, T \ {t}, X2, whole)
  <1>1. ASSUME NEW c \in Cols PROVE K2[c] = K[c]
    BY ZenonT(60) DEF Placed, Of, Links, Shared, Takers, Alike
  <1> DEFINE W == {}
             ds == X[t].newPages
  <1>2. Part(K, W) = {} /\ Part(K2, W) = {} /\ W = {}
    BY DEF Part
  <1>3. OneToOne(ds) /\ ToSet(ds) = Took(X[t])
    BY DEF Shared, Takers, Took
  <1> HIDE DEF W
  <1>4. Hands(h, h2, B, B2, K, K2, log, log2, T, X, X2, t, W, ds)
    BY <1>1, <1>2, <1>3 DEF Hands
  <1> HIDE DEF ds
  <1>5. QED
    BY <1>4, HandedOver

-----------------------------------------------------------------------------
(* What a batch of pages holds.                                            *)

\* The changed pages of a snapshot, with what they hold; a batch of pages that
\* has all of them, and nothing else but the header.
Dirtied(s) ==
    {<<p, s.local[p].body>> : p \in {q \in DOMAIN s.local : s.local[q].dirty}}
    \cup (IF s.collDirty THEN {<<s.coll, s.body>>} ELSE {})
Carries(pages, q) ==
    /\ \A i \in DOMAIN pages : \/ pages[i][1] = Header
                               \/ \E c \in Writes(q) : pages[i] \in Dirtied(q.snaps[c])
    /\ \A c \in Writes(q) : \A b \in Dirtied(q.snaps[c]) : \E i \in DOMAIN pages : pages[i] = b

OnlyDirtied(pages, q) == \A i \in DOMAIN pages : \E c \in Writes(q) : pages[i] \in Dirtied(q.snaps[c])

\* collectDirty, of one snapshot.
LEMMA DirtyOfHas ==
    ASSUME NEW s \in Snaps
    PROVE  DirtyOf(s) \in Seq(Dirtied(s)) /\ Dirtied(s) \subseteq ToSet(DirtyOf(s))
  <1> DEFINE S == {p \in DOMAIN s.local : s.local[p].dirty}
             n == Cardinality(S)
             B == Dirtied(s)
             ids == Ascending(S)
             changed == [i \in DOMAIN ids |-> <<ids[i], s.local[ids[i]].body>>]
             page == IF s.collDirty THEN << <<s.coll, s.body>> >> ELSE <<>>
  <1>1. S \in SUBSET Pages
    BY SnapIs, LocalIs
  <1>2. IsFiniteSet(S) /\ S \in SUBSET Int /\ n \in Nat
    <2>1. IsFiniteSet(Pages)
      BY BoundsAssumption, FS_Interval DEF Pages
    <2>2. IsFiniteSet(S)
      BY <1>1, <2>1, FS_Subset
    <2>3. QED
      BY <1>1, <2>2, FS_CardinalityType, PageIds
  <1>3. ids \in [1 .. n -> S] /\ \A x \in S : \E i \in 1 .. n : ids[i] = x
    BY <1>2, AscendingIs
  <1>4. /\ \A p \in S : <<p, s.local[p].body>> \in B
        /\ s.collDirty => <<s.coll, s.body>> \in B
        /\ \A b \in B : \/ \E p \in S : b = <<p, s.local[p].body>>
                        \/ s.collDirty /\ b = <<s.coll, s.body>>
    BY DEF Dirtied
  <1>5. DirtyOf(s) = changed \o page
    BY DEF DirtyOf
  <1>6. DOMAIN ids = 1 .. n
    BY <1>3
  <1> HIDE DEF S, ids, n, B
  <1>7. changed \in [1 .. n -> B] /\ \A i \in 1 .. n : changed[i] = <<ids[i], s.local[ids[i]].body>>
    BY <1>3, <1>4, <1>6
  <1>8. page \in Seq(B) /\ (s.collDirty => page[1] = <<s.coll, s.body>> /\ DOMAIN page = {1})
    BY <1>4
  <1> HIDE DEF changed, page
  <1>9. changed \in Seq(B) /\ DOMAIN changed = 1 .. n
    BY <1>2, <1>7, SeqDef
  <1>10. changed \o page \in Seq(B) /\ ToSet(changed \o page) = ToSet(changed) \cup ToSet(page)
    BY <1>8, <1>9, JoinedIs
  <1>11. ASSUME NEW b \in B PROVE b \in ToSet(changed) \cup ToSet(page)
    <2>1. CASE s.collDirty /\ b = <<s.coll, s.body>>
      BY <2>1, <1>8 DEF ToSet
    <2>2. ASSUME NEW p \in S, b = <<p, s.local[p].body>> PROVE b \in ToSet(changed)
      <3>1. PICK i \in 1 .. n : ids[i] = p
        BY <1>3
      <3>2. changed[i] = b
        BY <3>1, <2>2, <1>7
      <3>3. QED
        BY <3>2, <1>9 DEF ToSet
    <2>3. QED
      BY <2>1, <2>2, <1>4
  <1>12. QED
    BY <1>5, <1>10, <1>11 DEF B

\* collectDirty, of all of them.
LEMMA collectDirtyHas ==
    ASSUME NEW r \in TxRecs
    PROVE  Carries(collectDirty(r), r) /\ OnlyDirtied(collectDirty(r), r)
  <1> DEFINE U == UNION {Dirtied(r.snaps[c]) : c \in Writes(r)}
             ss == [i \in DOMAIN Names |->
                       IF r.snaps[Names[i]].mode = "write" THEN DirtyOf(r.snaps[Names[i]]) ELSE <<>>]
             L == Len(Names)
  <1>1. DOMAIN Names = 1 .. L /\ L \in Nat \ {0}
    BY NamesAssumption
  <1>2. ASSUME NEW i \in 1 .. L
        PROVE  /\ ss[i] \in Seq(U)
               /\ Names[i] \in Writes(r) => Dirtied(r.snaps[Names[i]]) \subseteq ToSet(ss[i])
    <2>1. Names[i] \in Cols
      BY <1>1 DEF Cols, ToSet
    <2>2. /\ DirtyOf(r.snaps[Names[i]]) \in Seq(Dirtied(r.snaps[Names[i]]))
          /\ Dirtied(r.snaps[Names[i]]) \subseteq ToSet(DirtyOf(r.snaps[Names[i]]))
      BY <2>1, TxIs, DirtyOfHas
    <2>3. CASE r.snaps[Names[i]].mode = "write"
      <3>1. Names[i] \in Writes(r) /\ ss[i] = DirtyOf(r.snaps[Names[i]])
        BY <2>1, <2>3, <1>1 DEF Writes
      <3>2. Dirtied(r.snaps[Names[i]]) \subseteq U
        BY <3>1
      <3> HIDE DEF U, ss
      <3>3. ss[i] \in Seq(U)
        BY <2>2, <3>1, <3>2, SeqDef
      <3>4. QED
        BY <3>1, <3>3, <2>2
    <2>4. CASE r.snaps[Names[i]].mode # "write"
      <3>1. Names[i] \notin Writes(r) /\ ss[i] = <<>>
        BY <2>4, <1>1 DEF Writes
      <3> HIDE DEF U, ss
      <3>2. QED
        BY <3>1
    <2>5. QED
      BY <2>3, <2>4
  <1>3. Len(ss) = L
    BY <1>1
  <1> DEFINE pages == collectDirty(r)
  <1>4. pages = FlattenSeq(ss)
    BY DEF collectDirty
  <1>5. \A b \in U : \E c \in Writes(r) : b \in Dirtied(r.snaps[c])
    OBVIOUS
  <1>6. \A c \in Writes(r) : \E i \in 1 .. L : c = Names[i]
    BY <1>1 DEF Writes, Cols, ToSet
  <1> HIDE DEF ss, L, pages, U
  <1>7. pages \in Seq(U) /\ \A i \in 1 .. L : ToSet(ss[i]) \subseteq ToSet(pages)
    BY <1>1, <1>2, <1>3, <1>4, FlattenIs
  <1>8. \A i \in DOMAIN pages : pages[i] \in U
    BY <1>7, ElementOfSeq, LenProperties
  <1>9. ASSUME NEW c \in Writes(r), NEW b \in Dirtied(r.snaps[c]) PROVE \E i \in DOMAIN pages : pages[i] = b
    <2>1. b \in ToSet(pages)
      BY <1>2, <1>6, <1>7
    <2>2. QED
      BY <2>1 DEF ToSet
  <1>10. QED
    BY <1>5, <1>8, <1>9 DEF Carries, OnlyDirtied, pages

\* The header comes with the batch.
LEMMA HeaderToo ==
    ASSUME NEW pages \in Batches, NEW q, Carries(pages, q), NEW h \in Headers
    PROVE  Carries(Append(pages, <<Header, h>>), q)
  <1> DEFINE B == {b \in AllPages \X (Bodies \cup Headers) : b[2] \in BodyOf(b[1])}
             n == Len(pages)
             e == <<Header, h>>
             p2 == Append(pages, e)
  <1>1. e \in B /\ e[1] = Header
    BY DEF AllPages, BodyOf
  <1> HIDE DEF B, e
  <1>2. pages \in Seq(B)
    BY DEF B, Batches
  <1>3. n \in Nat /\ DOMAIN pages = 1 .. n
    BY <1>2, LenProperties
  <1>4. /\ DOMAIN p2 = 1 .. n + 1 /\ p2[n + 1] = e
        /\ \A i \in 1 .. n : p2[i] = pages[i]
    BY <1>1, <1>2, <1>3, AppendProperties, LenProperties
  <1> HIDE DEF p2, n
  <1>5. \A i \in 1 .. n + 1 : i \in 1 .. n \/ i = n + 1
    BY <1>3
  <1>6. \A i \in 1 .. n : i \in 1 .. n + 1
    BY <1>3
  <1>7. Carries(p2, q)
    BY <1>1, <1>3, <1>4, <1>5, <1>6 DEF Carries
  <1>8. QED
    BY <1>7 DEF p2, e

-----------------------------------------------------------------------------
(* What a transaction has in memory, found again in the log.               *)

\* What is in memory does not contradict itself; and what a batch left in the log.
OneBody(q) ==
    \A c, d \in Writes(q) : \A x \in Dirtied(q.snaps[c]) : \A y \in Dirtied(q.snaps[d]) :
        x[1] = y[1] => x[2] = y[2]
Apart(q) ==
    /\ \A c \in Writes(q) : \A p \in DOMAIN q.snaps[c].local :
           /\ q.snaps[c].local[p].dirty
           /\ \A d \in Writes(q) : p # q.snaps[d].coll /\ (d # c => p \notin DOMAIN q.snaps[d].local)
    /\ \A c, d \in Writes(q) : c # d /\ q.snaps[c].collDirty /\ q.snaps[d].collDirty
                                   => q.snaps[c].coll # q.snaps[d].coll
InLog(q, offs, log2) ==
    /\ \A p \in DOMAIN offs : p = Header \/ InMemory(q, p)
    /\ \A c \in Writes(q) : \A p \in DOMAIN q.snaps[c].local :
           p \in DOMAIN offs /\ log2[offs[p]].body = q.snaps[c].local[p].body
    /\ \A c \in Writes(q) : q.snaps[c].collDirty =>
           q.snaps[c].coll \in DOMAIN offs /\ log2[offs[q.snaps[c].coll]].body = q.snaps[c].body

\* A changed page is one in memory, or the collection page.
LEMMA DirtiedIs ==
    ASSUME NEW s, NEW b
    PROVE  b \in Dirtied(s) <=> \/ \E p \in DOMAIN s.local : s.local[p].dirty /\ b = <<p, s.local[p].body>>
                                \/ s.collDirty /\ b = <<s.coll, s.body>>
  BY DEF Dirtied

\* Snapshots that are apart do not contradict each other.
LEMMA ApartOneBody == ASSUME NEW q, Apart(q) PROVE OneBody(q)
  <1> SUFFICES ASSUME NEW c \in Writes(q), NEW d \in Writes(q), NEW x \in Dirtied(q.snaps[c]),
                      NEW y \in Dirtied(q.snaps[d]), x[1] = y[1]
               PROVE  x[2] = y[2]
    BY DEF OneBody
  <1>1. CASE c = d
    BY <1>1, DirtiedIs DEF Apart
  <1>2. CASE c # d
    BY <1>2, DirtiedIs DEF Apart
  <1>3. QED
    BY <1>1, <1>2

\* Those of an open transaction are.
LEMMA WorksApart ==
    ASSUME NEW K, NEW log, NEW r \in TxRecs, Sound(r), Works(K, log, r)
    PROVE  Apart(r)
  <1>1. \A c \in Writes(r) : c \in Cols
    BY DEF Writes
  <1>2. \A c, d \in Writes(r) : c # d /\ r.snaps[c].collDirty /\ r.snaps[d].collDirty
                                   => r.snaps[c].coll # r.snaps[d].coll
    <2>1. \A c \in Writes(r) : r.snaps[c].collDirty => r.snaps[c].coll # NoPage
      BY <1>1, PageIds DEF Sound
    <2>2. \A c \in Writes(r) : r.snaps[c].collDirty => r.snaps[c].coll \in Whole(K, r.snaps[c], c)
      BY <2>1 DEF Whole
    <2>3. Disjoint(K, r)
      BY DEF Works
    <2>4. ASSUME NEW c \in Writes(r), NEW d \in Writes(r), c # d, r.snaps[c].collDirty, r.snaps[d].collDirty
          PROVE  r.snaps[c].coll # r.snaps[d].coll
      BY <2>2, <2>3, <2>4 DEF Disjoint
    <2>5. QED
      BY <2>4
  <1>3. Changed(K, r)
    BY DEF Works
  <1>4. ASSUME NEW c \in Writes(r), NEW p \in DOMAIN r.snaps[c].local
        PROVE  /\ r.snaps[c].local[p].dirty
               /\ \A d \in Writes(r) : p # r.snaps[d].coll /\ (d # c => p \notin DOMAIN r.snaps[d].local)
    BY <1>3 DEF Changed
  <1>5. QED
    BY <1>2, <1>4 DEF Apart

\* They still are after the splice.
LEMMA SplicedApart ==
    ASSUME NEW r, NEW q, NEW free, Apart(r), LastDeleted(r), Splices(r, q, free)
    PROVE  Apart(q)
  BY DEF Splices, PutEffect, Apart, LastDeleted

\* Spliced is that splice.
LEMMA SplicedSplices ==
    ASSUME NEW r \in TxRecs, Sound(r), header \in Headers, LastDeleted(r)
    PROVE  Splices(r, Spliced(r), header.free)
  <1>1. CASE r.lastDelete = NoPage
    BY <1>1 DEF Spliced, Splices
  <1>2. CASE r.lastDelete # NoPage
    <2> DEFINE c == r.lastDeleteColl
               s == r.snaps[c]
               local == Put(s.local, r.lastDelete, Empty(header.free))
               snaps == [r.snaps EXCEPT ![c] = [s EXCEPT !.local = local]]
               r1 == [r EXCEPT !.snaps = snaps]
               r2 == [r1 EXCEPT !.firstDelete = NoPage]
               r3 == [r2 EXCEPT !.lastDelete = NoPage]
    <2>1. c \in Cols
      BY <1>2, TxIs DEF Sound, Links
    <2>2. s \in Snaps
      BY <2>1, TxIs
    <2>3. r.snaps \in [Cols -> Snaps]
      BY TxIs
    <2>4. Spliced(r) = r3
      BY <1>2, <2>1, <2>2 DEF Spliced, TxRecs, Snaps
    <2>5. PutEffect(local, s.local, r.lastDelete, Empty(header.free))
      BY PutAt
    <2> HIDE DEF c, s, local
    <2>6. r3.snaps = snaps /\ r3.dirty = r.dirty
      BY DEF TxRecs
    <2>7. /\ \A d \in Cols : d # c => snaps[d] = r.snaps[d]
          /\ snaps[c] = [s EXCEPT !.local = local]
      BY <2>1, <2>3
    <2>8. /\ snaps[c].local = local /\ snaps[c].mode = s.mode /\ snaps[c].coll = s.coll
          /\ snaps[c].body = s.body /\ snaps[c].collDirty = s.collDirty /\ snaps[c].loaded = s.loaded
      BY <2>2, <2>7 DEF Snaps
    <2> HIDE DEF snaps, r3
    <2>9. s = r.snaps[c]
      BY DEF s
    <2>10. Writes(r3) = Writes(r)
      BY <2>1, <2>6, <2>7, <2>8, <2>9 DEF Writes
    <2>11. ASSUME NEW d \in Writes(r)
           PROVE  /\ r3.snaps[d].collDirty = r.snaps[d].collDirty
                  /\ r3.snaps[d].coll = r.snaps[d].coll /\ r3.snaps[d].body = r.snaps[d].body
                  /\ r3.snaps[d].loaded = r.snaps[d].loaded
                  /\ IF d = c THEN PutEffect(r3.snaps[d].local, r.snaps[d].local, r.lastDelete, Empty(header.free))
                     ELSE r3.snaps[d].local = r.snaps[d].local
      BY <2>5, <2>6, <2>7, <2>8, <2>9 DEF Writes
    <2>12. Splices(r, r3, header.free)
      BY <1>2, <2>6, <2>10, <2>11 DEF Splices, c
    <2>13. QED
      BY <2>4, <2>12
  <1>3. QED
    BY <1>1, <1>2

\* Records say what the pages of the batch say.
LEMMA MarkedAs ==
    ASSUME NEW pages \in Batches, NEW id, NEW flag
    PROVE  /\ DOMAIN Marked(pages, id, flag) = DOMAIN pages
           /\ \A i \in DOMAIN pages : /\ Marked(pages, id, flag)[i].page = pages[i][1]
                                      /\ Marked(pages, id, flag)[i].body = pages[i][2]
                                      /\ Marked(pages, id, flag)[i].tx = id
  BY DEF Marked, Rec

\* A written batch can be read back at its offsets.
LEMMA BatchInLog ==
    ASSUME logEnd \in Nat, NEW q \in TxRecs, Sound(q), Apart(q), NEW pages \in Batches, Carries(pages, q),
           NEW id \in Nat \ {0}, NEW flag \in BOOLEAN, NEW recs, recs = Marked(pages, id, flag), NEW log2,
           \A j \in 1 .. Len(recs) : log2[logEnd + j] = recs[j]
    PROVE  InLog(q, Offsets(recs), log2)
  <1> DEFINE offs == Offsets(recs)
             n == Len(recs)
  <1>1. recs \in Seq(Recs) /\ Len(recs) = n
    BY MarkedIs
  <1>2. n \in Nat /\ DOMAIN recs = 1 .. n
    BY <1>1, LenProperties
  <1>3. /\ \A p \in DOMAIN offs : offs[p] - logEnd \in 1 .. n /\ recs[offs[p] - logEnd].page = p
        /\ \A i \in 1 .. n : recs[i].page \in DOMAIN offs
        /\ offs \in OffsetMaps
    BY <1>1, OffsetsIs
  <1>4. \A p \in DOMAIN offs : offs[p] \in Nat
    BY <1>3, OffsetMapIs
  <1>5. /\ DOMAIN pages = 1 .. n
        /\ \A i \in 1 .. n : recs[i].page = pages[i][1] /\ recs[i].body = pages[i][2]
    BY <1>2, MarkedAs
  <1> HIDE DEF n, offs
  <1>6. ASSUME NEW p \in DOMAIN offs
        PROVE  \E i \in 1 .. n : log2[offs[p]] = recs[i] /\ recs[i].page = p
    <2>1. offs[p] - logEnd \in 1 .. n /\ logEnd + (offs[p] - logEnd) = offs[p]
      BY <1>3, <1>4
    <2>2. QED
      BY <2>1, <1>3 DEF n
  <1>7. OneBody(q)
    BY ApartOneBody
  <1>8. \A c \in Writes(q) : \A b \in Dirtied(q.snaps[c]) : b[1] # Header
    <2> SUFFICES ASSUME NEW c \in Writes(q), NEW b \in Dirtied(q.snaps[c]) PROVE b[1] # Header
      OBVIOUS
    <2>1. c \in Cols /\ q.snaps[c] \in Snaps
      BY TxIs DEF Writes
    <2>2. \A p \in DOMAIN q.snaps[c].local : p \in Pages
      BY <2>1, SnapIs, LocalIs
    <2>3. q.snaps[c].collDirty => q.snaps[c].coll \in Pages
      BY <2>1 DEF Sound
    <2>4. QED
      BY <2>2, <2>3, DirtiedIs, PageIds
  <1>9. ASSUME NEW p \in DOMAIN offs, p # Header PROVE InMemory(q, p)
    <2>1. PICK i \in 1 .. n : recs[i].page = p
      BY <1>6
    <2>2. PICK c \in Writes(q) : pages[i] \in Dirtied(q.snaps[c])
      BY <2>1, <1>5, <1>9 DEF Carries
    <2>3. pages[i][1] = p
      BY <2>1, <1>5
    <2>4. QED
      BY <2>2, <2>3, DirtiedIs DEF InMemory
  <1>10. ASSUME NEW c \in Writes(q), NEW b \in Dirtied(q.snaps[c])
         PROVE  b[1] \in DOMAIN offs /\ log2[offs[b[1]]].body = b[2]
    <2>1. PICK j \in 1 .. n : pages[j] = b
      BY <1>5 DEF Carries
    <2>2. b[1] \in DOMAIN offs
      BY <2>1, <1>3, <1>5
    <2>3. PICK i \in 1 .. n : log2[offs[b[1]]] = recs[i] /\ recs[i].page = b[1]
      BY <2>2, <1>6
    <2>4. pages[i][1] = b[1] /\ recs[i].body = pages[i][2]
      BY <2>3, <1>5
    <2>5. PICK d \in Writes(q) : pages[i] \in Dirtied(q.snaps[d])
      BY <2>4, <1>5, <1>8 DEF Carries
    <2>6. pages[i][2] = b[2]
      BY <2>4, <2>5, <1>7 DEF OneBody
    <2>7. QED
      BY <2>2, <2>3, <2>4, <2>6
  <1>11. ASSUME NEW c \in Writes(q), NEW p \in DOMAIN q.snaps[c].local
         PROVE  p \in DOMAIN offs /\ log2[offs[p]].body = q.snaps[c].local[p].body
    <2> DEFINE b == <<p, q.snaps[c].local[p].body>>
    <2>1. b \in Dirtied(q.snaps[c]) /\ b[1] = p /\ b[2] = q.snaps[c].local[p].body
      BY DirtiedIs DEF Apart
    <2> HIDE DEF b
    <2>2. QED
      BY <2>1, <1>10
  <1>12. ASSUME NEW c \in Writes(q), q.snaps[c].collDirty
         PROVE  q.snaps[c].coll \in DOMAIN offs /\ log2[offs[q.snaps[c].coll]].body = q.snaps[c].body
    <2> DEFINE b == <<q.snaps[c].coll, q.snaps[c].body>>
    <2>1. b \in Dirtied(q.snaps[c]) /\ b[1] = q.snaps[c].coll /\ b[2] = q.snaps[c].body
      BY <1>12, DirtiedIs
    <2> HIDE DEF b
    <2>2. QED
      BY <2>1, <1>10
  <1>13. QED
    BY <1>9, <1>11, <1>12 DEF InLog, offs

-----------------------------------------------------------------------------
(* What the store holds.                                                   *)

\* What a page is read as, from a log, an index and a data file.
LatestBy(log, es, v, d, p) ==
    LET seen == {e \in es : e.version <= v}
        off == IF v = 0 \/ seen = {} THEN 0 ELSE Newest(seen).offset
        body == IF off # 0 THEN IF off \in DOMAIN log /\ log[off].page = p THEN log[off].body ELSE Blank
                ELSE d
    IN  IF body = Blank THEN d ELSE body
Found(log, p, o, d) == IF At(log, p, o) /\ log[o].body # Blank THEN log[o].body ELSE d
Sees(log, es, d, p, b) ==
    /\ es = {} => b = d
    /\ \A e \in es : Top(es, e) => b = Found(log, p, e.offset, d)

\* It is what the newest version says, or the data file.
LEMMA LatestByIs ==
    ASSUME NEW log, NEW es \in SUBSET Entries, NEW v \in Nat, \A e \in es : e.version <= v, NEW d, NEW p
    PROVE  Sees(log, es, d, p, LatestBy(log, es, v, d, p))
  <1>1. {e \in es : e.version <= v} = es
    OBVIOUS
  <1>2. \A e \in es : e.version \in Nat \ {0} /\ e.offset \in Nat \ {0}
    BY DEF Entries
  <1>3. CASE es = {}
    BY <1>1, <1>3 DEF LatestBy, Sees
  <1>4. CASE es # {}
    <2> SUFFICES ASSUME NEW e \in es, Top(es, e) PROVE LatestBy(log, es, v, d, p) = Found(log, p, e.offset, d)
      BY <1>4 DEF Sees
    <2>1. v # 0
      BY <1>2
    <2>2. Newest(es) = e
      BY <1>2 DEF Top, Newest
    <2>3. QED
      BY <2>1, <2>2, <1>1, <1>2, <1>4 DEF LatestBy, Found, At
  <1>5. QED
    BY <1>3, <1>4

\* Latest is that, of the log, the index and the data file.
LEMMA LatestNow ==
    ASSUME Typed, NEW p \in Pages
    PROVE  Sees(logFile, index[p], dataFile[p], p, Latest(p))
  BY LatestByIs, ZenonT(60) DEF Latest, Readable, readAt, readLog, LookupVersion, LatestBy, Typed, AllPages

\* And so it is after a step.
LEMMA LatestNext ==
    ASSUME Typed', NEW p \in Pages
    PROVE  Sees(logFile', index'[p], dataFile'[p], p, Latest(p)')
  BY LatestByIs, ZenonT(60) DEF Latest, Readable, readAt, readLog, LookupVersion, LatestBy, Typed, AllPages

\* There is a newest version, if there is one.
HasTop(es) == es # {} => \E e \in es : Top(es, e)

\* Pages are read as before if what their versions say is the same.
LEMMA SeesSame ==
    ASSUME NEW log, NEW log2, NEW es, NEW d, NEW d2, NEW p, NEW b, NEW b2, HasTop(es),
           Sees(log, es, d, p, b), Sees(log2, es, d2, p, b2), es = {} => d = d2,
           \A e \in es : Found(log, p, e.offset, d) = Found(log2, p, e.offset, d2)
    PROVE  b = b2
  BY DEF Sees, HasTop, Top

-----------------------------------------------------------------------------
(* A write at the end of the log.                                          *)

\* A log that has grown by all or some of a batch.
Appends(log, n, log2, n2, recs) ==
    /\ n \in Nat /\ n2 \in Nat /\ n <= n2
    /\ \A o \in 1 .. n : IF o \in DOMAIN log THEN o \in DOMAIN log2 /\ log2[o] = log[o]
                         ELSE o \in DOMAIN log2 => log2[o] = BlankRec
    /\ \A o \in n + 1 .. n2 : o - n \in DOMAIN recs /\ o \in DOMAIN log2 /\ log2[o] = recs[o - n]
    /\ \A o \in DOMAIN log2 : \/ o \in DOMAIN log /\ log2[o] = log[o]
                              \/ log2[o] = BlankRec
                              \/ \E j \in DOMAIN recs : log2[o] = recs[j]

\* Writing a batch, or failing to, appends.
LEMMA AppendsIs ==
    ASSUME Typed, NEW recs \in Seq(Recs), AppendLogPages(recs) \/ AppendFails(recs)
    PROVE  Appends(logFile, logEnd, logFile', logEnd', recs)
  <1>1. Len(recs) \in Nat /\ logEnd \in Nat /\ DOMAIN recs = 1 .. Len(recs)
    BY LenProperties DEF Typed
  <1>2. DOMAIN logFile = 1 .. Len(logFile) /\ Len(logFile) \in Nat
    BY LenProperties DEF Typed
  <1>3. PICK n \in 0 .. Len(recs) : logFile' = Written(recs, n) /\ logEnd' \in {logEnd, logEnd + n}
    <2>1. CASE AppendLogPages(recs)
      BY <1>1, <2>1 DEF AppendLogPages
    <2>2. CASE AppendFails(recs)
      <3>1. PICK n \in 0 .. Len(recs) - 1 : logFile' = Written(recs, n)
        BY <2>2 DEF AppendFails
      <3>2. n \in 0 .. Len(recs) /\ logEnd' = logEnd
        BY <2>2, <1>1 DEF AppendFails
      <3>3. QED
        BY <3>1, <3>2
    <2>3. QED
      BY <2>1, <2>2
  <1>4. /\ \A i \in DOMAIN logFile : i <= logEnd \/ i > logEnd + n =>
               i \in DOMAIN Written(recs, n) /\ Written(recs, n)[i] = logFile[i]
        /\ \A j \in 1 .. n : /\ logEnd + j \in DOMAIN Written(recs, n)
                             /\ Written(recs, n)[logEnd + j] = recs[j]
        /\ \A i \in DOMAIN Written(recs, n) :
               \/ i \in DOMAIN logFile /\ Written(recs, n)[i] = logFile[i]
               \/ i \notin DOMAIN logFile /\ Written(recs, n)[i] = BlankRec
               \/ i - logEnd \in 1 .. n /\ Written(recs, n)[i] = recs[i - logEnd]
    BY WrittenIs
  <1>5. logEnd' \in Nat /\ logEnd <= logEnd' /\ logEnd' <= logEnd + n
    BY <1>1, <1>3
  <1>6. ASSUME NEW o \in 1 .. logEnd
        PROVE  IF o \in DOMAIN logFile THEN o \in DOMAIN logFile' /\ logFile'[o] = logFile[o]
               ELSE o \in DOMAIN logFile' => logFile'[o] = BlankRec
    BY <1>1, <1>3, <1>4
  <1>7. ASSUME NEW o \in logEnd + 1 .. logEnd'
        PROVE  o - logEnd \in DOMAIN recs /\ o \in DOMAIN logFile' /\ logFile'[o] = recs[o - logEnd]
    BY <1>1, <1>3, <1>4, <1>5
  <1>8. ASSUME NEW o \in DOMAIN logFile'
        PROVE  \/ o \in DOMAIN logFile /\ logFile'[o] = logFile[o]
               \/ logFile'[o] = BlankRec
               \/ \E j \in DOMAIN recs : logFile'[o] = recs[j]
    BY <1>1, <1>3, <1>4
  <1>9. QED
    BY <1>1, <1>5, <1>6, <1>7, <1>8 DEF Appends

\* Where it was written before, the log says the same.
Unmoved(log, log2, n) ==
    \A o \in 1 .. n :
        /\ \A p \in Pages : At(log2, p, o) <=> At(log, p, o)
        /\ \A p \in Pages : At(log, p, o) => log2[o] = log[o]
        /\ (o \in DOMAIN log2 /\ log2[o] # BlankRec) <=> (o \in DOMAIN log /\ log[o] # BlankRec)
        /\ (o \in DOMAIN log2 /\ log2[o] # BlankRec) => log2[o] = log[o]

\* Appending changes nothing that was there.
LEMMA AppendsUnmoved ==
    ASSUME NEW log, NEW n, NEW log2, NEW n2, NEW recs, Appends(log, n, log2, n2, recs)
    PROVE  Unmoved(log, log2, n)
  <1> SUFFICES ASSUME NEW o \in 1 .. n
               PROVE  /\ \A p \in Pages : At(log2, p, o) <=> At(log, p, o)
                      /\ \A p \in Pages : At(log, p, o) => log2[o] = log[o]
                      /\ (o \in DOMAIN log2 /\ log2[o] # BlankRec) <=> (o \in DOMAIN log /\ log[o] # BlankRec)
                      /\ (o \in DOMAIN log2 /\ log2[o] # BlankRec) => log2[o] = log[o]
    BY DEF Unmoved
  <1>1. IF o \in DOMAIN log THEN o \in DOMAIN log2 /\ log2[o] = log[o]
        ELSE o \in DOMAIN log2 => log2[o] = BlankRec
    BY DEF Appends
  <1>2. \A p \in Pages : p # BlankRec.page
    BY PageIds DEF BlankRec, Rec
  <1>3. QED
    BY <1>1, <1>2 DEF At

\* Nor what a page is read as.
LEMMA LatestUnmoved ==
    ASSUME Typed, Typed', Durable, Ordered, logEnd \in Nat, Unmoved(logFile, logFile', logEnd), UNCHANGED <<index, dataFile>>,
           NEW p \in Pages
    PROVE  Latest(p)' = Latest(p)
  <1>1. Sees(logFile, index[p], dataFile[p], p, Latest(p))
    BY LatestNow
  <1>2. Sees(logFile', index'[p], dataFile'[p], p, Latest(p)')
    BY LatestNext
  <1>3. HasTop(index[p])
    BY DEF Ordered, HasTop
  <1>4. index'[p] = index[p] /\ dataFile'[p] = dataFile[p]
    OBVIOUS
  <1>5. ASSUME NEW e \in index[p]
        PROVE  Found(logFile, p, e.offset, dataFile[p]) = Found(logFile', p, e.offset, dataFile[p])
    <2>1. e.offset \in 1 .. logEnd
      BY DEF Durable, Typed, AllPages, Entries
    <2>2. QED
      BY <2>1 DEF Unmoved, Found
  <1> DEFINE b == Latest(p)
             b2 == Latest(p)'
  <1>6. Sees(logFile', index[p], dataFile[p], p, b2) /\ Sees(logFile, index[p], dataFile[p], p, b)
    BY <1>1, <1>2, <1>4
  <1> HIDE DEF b, b2
  <1>7. b = b2
    BY <1>3, <1>5, <1>6, SeesSame
  <1>8. QED
    BY <1>7 DEF b, b2

\* The order of versions does not depend on what is appended.
LEMMA OrderedUnmoved ==
    ASSUME Typed, Durable, Ordered, Unmoved(logFile, logFile', logEnd), UNCHANGED <<index, confirmed>>
    PROVE  Ordered'
  <1>1. ASSUME NEW p \in Pages, NEW e \in index[p]
        PROVE  At(logFile', p, e.offset) => logFile'[e.offset].tx \in confirmed
    BY DEF Durable, Typed, AllPages, Entries, Unmoved, Ordered
  <1>2. \A p \in Pages : index[p] # {} => \E e \in index[p] : Top(index[p], e)
    BY DEF Ordered
  <1>3. QED
    BY <1>1, <1>2 DEF Ordered, At

\* What is appended is not cut off.
LEMMA CutAppends ==
    ASSUME CutInFront, NEW recs, Appends(logFile, logEnd, logFile', logEnd', recs),
           \A i \in DOMAIN recs : recs[i] # BlankRec
    PROVE  CutInFront'
  <1> SUFFICES ASSUME NEW i \in 1 .. logEnd', NEW j \in 1 .. logEnd', j <= i, Gone(i)' PROVE Gone(j)'
    BY DEF CutInFront
  <1>1. logEnd \in Nat /\ logEnd' \in Nat /\ logEnd <= logEnd'
    BY DEF Appends
  <1>2. i \in 1 .. logEnd
    BY <1>1 DEF Appends, Gone
  <1>3. j \in 1 .. logEnd
    BY <1>1, <1>2
  <1>4. Gone(i)
    BY <1>2 DEF Appends, Gone
  <1>5. Gone(j)
    BY <1>2, <1>3, <1>4 DEF CutInFront
  <1>6. QED
    BY <1>3, <1>5 DEF Appends, Gone

\* What is appended is not confirmed yet.
LEMMA IndexedAppends ==
    ASSUME Indexed, NEW recs, Appends(logFile, logEnd, logFile', logEnd', recs),
           NEW id, id \notin confirmed, \A i \in DOMAIN recs : recs[i].tx = id,
           UNCHANGED <<index, confirmed>>
    PROVE  Indexed'
  <1> SUFFICES ASSUME NEW i \in 1 .. logEnd', ~Gone(i)', logFile'[i].page # Header, logFile'[i].tx \in confirmed
               PROVE  \E e \in index[logFile'[i].page] : e.offset >= i
    BY DEF Indexed
  <1>1. logEnd \in Nat /\ logEnd' \in Nat /\ logEnd <= logEnd'
    BY DEF Appends
  <1>2. i \in 1 .. logEnd \/ i \in logEnd + 1 .. logEnd'
    BY <1>1
  <1>3. i \notin logEnd + 1 .. logEnd'
    BY DEF Appends
  <1>4. i \in 1 .. logEnd
    BY <1>2, <1>3
  <1>5. ~Gone(i) /\ logFile'[i] = logFile[i]
    BY <1>4 DEF Appends, Gone
  <1>6. QED
    BY <1>4, <1>5 DEF Indexed

\* No page is written blank.
LEMMA NoBlanksAppends ==
    ASSUME NoBlanks, NEW recs, Appends(logFile, logEnd, logFile', logEnd', recs),
           \A i \in DOMAIN recs : recs[i].page # Header => recs[i].body # Blank
    PROVE  NoBlanks'
  BY DEF BlankRec, Rec, NoBlanks, Appends

\* Other transactions have the last pages they had.
LEMMA LoggedOthers ==
    ASSUME NEW recs, Appends(logFile, logEnd, logFile', logEnd', recs), NEW id, NEW i, i # id,
           \A k \in DOMAIN recs : recs[k].tx = id, NEW offs \in OffsetMaps, OffsetsTrue(offs), Logged(i, offs),
           UNCHANGED index
    PROVE  Logged(i, offs)'
  BY OffsetMapIs DEF Appends, Gone, Logged, OffsetsTrue, At

\* The last page of a transaction that writes is in the new batch, or is the old one.
LEMMA LoggedMore ==
    ASSUME Typed, Durable, NEW recs \in Seq(Recs), Appends(logFile, logEnd, logFile', logEnd', recs),
           logEnd' = logEnd + Len(recs), NEW id, \A k \in DOMAIN recs : recs[k].tx = id,
           NEW old \in OffsetMaps, OffsetsTrue(old), Logged(id, old), NEW offs,
           DOMAIN offs = DOMAIN Offsets(recs) \cup DOMAIN old,
           \A p \in DOMAIN Offsets(recs) : offs[p] = Offsets(recs)[p],
           \A p \in DOMAIN old \ DOMAIN Offsets(recs) : offs[p] = old[p],
           UNCHANGED index
    PROVE  Logged(id, offs)'
  <1> DEFINE new == Offsets(recs)
             n == Len(recs)
  <1>1. logEnd \in Nat /\ logEnd' \in Nat /\ logEnd <= logEnd' /\ n \in Nat /\ DOMAIN recs = 1 .. n
    BY LenProperties DEF Appends
  <1>2. /\ \A p \in DOMAIN new : new[p] - logEnd \in 1 .. n /\ recs[new[p] - logEnd].page = p
        /\ \A i \in 1 .. n : recs[i].page \in DOMAIN new /\ logEnd + i <= new[recs[i].page]
        /\ new \in OffsetMaps
    BY <1>1, OffsetsIs
  <1>3. \A p \in DOMAIN new : new[p] \in Nat
    BY <1>2, OffsetMapIs
  <1>4. /\ DOMAIN offs = DOMAIN new \cup DOMAIN old
        /\ \A p \in DOMAIN new : offs[p] = new[p]
        /\ \A p \in DOMAIN old \ DOMAIN new : offs[p] = old[p]
        /\ logEnd' = logEnd + n
    OBVIOUS
  <1> HIDE DEF new, n
  <1>5. \A p \in DOMAIN new : new[p] \in logEnd + 1 .. logEnd' /\ new[p] > logEnd
    <2> SUFFICES ASSUME NEW p \in DOMAIN new PROVE new[p] \in logEnd + 1 .. logEnd' /\ new[p] > logEnd
      OBVIOUS
    <2>1. new[p] - logEnd \in 1 .. n /\ new[p] \in Nat
      BY <1>2, <1>3
    <2>2. QED
      BY <2>1, <1>1, <1>4
  <1>6. \A p \in DOMAIN old : old[p] \in 1 .. logEnd /\ At(logFile, p, old[p])
    BY <1>1, OffsetMapIs DEF OffsetsTrue
  <1>7. ASSUME NEW k \in 1 .. logEnd', ~Gone(k)', logFile'[k].page # Header, logFile'[k].tx = id
        PROVE  logFile'[k].page \in DOMAIN offs /\ k <= offs[logFile'[k].page]
    <2>1. CASE k \in 1 .. logEnd
      <3>1. ~Gone(k) /\ logFile'[k] = logFile[k]
        BY <2>1, <1>7 DEF Appends, Gone
      <3> DEFINE p == logFile'[k].page
      <3>2. p \in DOMAIN old /\ k <= old[p]
        BY <2>1, <3>1, <1>7 DEF Logged
      <3> HIDE DEF p
      <3>3. CASE p \in DOMAIN new
        BY <1>1, <1>3, <1>4, <1>5, <2>1, <3>3 DEF p
      <3>4. CASE p \notin DOMAIN new
        BY <3>2, <3>4, <1>4 DEF p
      <3>5. QED
        BY <3>3, <3>4
    <2>2. CASE k \in logEnd + 1 .. logEnd'
      <3>1. k - logEnd \in 1 .. n /\ logFile'[k] = recs[k - logEnd] /\ logEnd + (k - logEnd) = k
        BY <2>2, <1>1 DEF Appends
      <3>2. logFile'[k].page \in DOMAIN new /\ k <= new[logFile'[k].page]
        BY <3>1, <1>2
      <3>3. QED
        BY <3>2, <1>4
    <2>3. QED
      BY <2>1, <2>2, <1>1
  <1>8. ASSUME NEW p \in Pages \cap DOMAIN offs
        PROVE  logFile'[offs[p]].tx = id /\ \A e \in index[p] : e.offset < offs[p]
    <2>1. CASE p \in DOMAIN new
      <3>1. offs[p] - logEnd \in DOMAIN recs /\ logFile'[offs[p]] = recs[offs[p] - logEnd]
        BY <2>1, <1>4, <1>5 DEF Appends
      <3>2. ASSUME NEW e \in index[p] PROVE e.offset < offs[p]
        <4>1. e.offset <= logEnd /\ e.offset \in Nat
          BY DEF Durable, Typed, AllPages, Entries
        <4>2. offs[p] > logEnd /\ offs[p] \in Nat
          BY <2>1, <1>3, <1>4, <1>5
        <4>3. QED
          BY <4>1, <4>2, <1>1
      <3>3. QED
        BY <3>1, <3>2
    <2>2. CASE p \notin DOMAIN new
      <3>1. p \in DOMAIN old /\ offs[p] = old[p]
        BY <2>2, <1>4
      <3>2. old[p] \in 1 .. logEnd /\ old[p] \in DOMAIN logFile
        BY <3>1, <1>6 DEF At
      <3>3. logFile'[old[p]] = logFile[old[p]]
        BY <3>2 DEF Appends
      <3>4. QED
        BY <3>1, <3>3 DEF Logged
    <2>3. QED
      BY <2>1, <2>2
  <1>9. QED
    BY <1>7, <1>8 DEF Logged

\* Every page is read as before.
SameLatest == \A p \in Pages : Latest(p)' = Latest(p)

\* A call that leaves the log alone.
LEMMA CallContents ==
    ASSUME Contents, UNCHANGED <<fileVars, index, confirmed, readVersion, ckpt>>,
           NEW t \in Txs, \A u \in Txs \ {t} : tx'[u] = tx[u], tx'[t].st # "returning",
           tx'[t].st \in {"active", "appended"} => Logged(tx'[t].id, tx'[t].dirty)
    PROVE  Contents' /\ SameLatest
  <1>1. /\ logFile' = logFile /\ logEnd' = logEnd /\ dataFile' = dataFile /\ index' = index
        /\ confirmed' = confirmed /\ readVersion' = readVersion /\ ckpt' = ckpt
    BY DEF fileVars
  <1>2. SameLatest
    BY <1>1 DEF SameLatest, Latest, Readable, readAt, readLog, LookupVersion
  <1>3. Ordered' /\ CutInFront' /\ Indexed' /\ NoBlanks'
    BY <1>1 DEF Contents, Ordered, CutInFront, Indexed, NoBlanks, At, Gone
  <1>4. Copied'
    BY <1>1, <1>2 DEF Contents, Copied, SameLatest
  <1>5. ASSUME NEW i, NEW offs, Logged(i, offs) PROVE Logged(i, offs)'
    BY <1>1, <1>5 DEF Logged, Gone
  <1>6. ASSUME NEW u \in Txs
        PROVE  /\ tx'[u].st \in {"active", "appended"} => Logged(tx'[u].id, tx'[u].dirty)
               /\ tx'[u].st = "returning" => Logged(tx'[u].retID, tx'[u].offs)
    BY DEF Contents, LoggedAll
  <1>7. ASSUME NEW u \in Txs
        PROVE  /\ tx'[u].st \in {"active", "appended"} => Logged(tx[u].id, tx[u].dirty)'
               /\ tx'[u].st = "returning" => Logged(tx[u].retID, tx[u].offs)'
    BY <1>1, <1>6 DEF Logged, Gone
  <1>8. LoggedAll'
    BY <1>7 DEF LoggedAll
  <1>9. QED
    BY <1>2, <1>3, <1>4, <1>8 DEF Contents

\* A batch that is not confirmed changes nothing that is read.
LEMMA WriteContents ==
    ASSUME IInv, IInv', Durable, Contents, NEW t \in Txs, tx[t].st # "idle", mu = NoTx,
           NEW recs \in Seq(Recs), NEW id \in Nat \ {0}, \A i \in DOMAIN recs : recs[i].tx = id,
           \A i \in DOMAIN recs : recs[i].page # Header => recs[i].body # Blank,
           AppendLogPages(recs) \/ AppendFails(recs),
           UNCHANGED <<index, confirmed, readVersion, dataFile, ckpt>>,
           id = tx[t].id \/ id = lastTxID + 1,
           \A u \in Txs \ {t} : tx'[u] = tx[u],
           tx'[t].st \in {"active", "appended"} => Logged(tx[t].id, tx[t].dirty)',
           tx'[t].st = "returning" => Logged(tx[t].retID, tx[t].offs)'
    PROVE  Contents' /\ SameLatest
  <1>1. Typed /\ Typed' /\ Mutex /\ Ids /\ SpillsTrue /\ Quiet
    BY DEF IInv
  <1>2. Appends(logFile, logEnd, logFile', logEnd', recs)
    BY <1>1, AppendsIs
  <1>3. Unmoved(logFile, logFile', logEnd)
    BY <1>2, AppendsUnmoved
  <1>4. Ordered /\ CutInFront /\ Indexed /\ LoggedAll /\ NoBlanks
    BY DEF Contents
  <1>5. logEnd \in Nat /\ lastTxID \in Nat /\ confirmed \subseteq 1 .. lastTxID /\ tx \in [Txs -> TxRecs]
    BY <1>1 DEF Typed
  <1>6. SameLatest
    BY <1>1, <1>3, <1>4, <1>5, LatestUnmoved DEF SameLatest
  <1>7. Ordered'
    BY <1>1, <1>3, <1>4, OrderedUnmoved
  <1>8. \A i \in DOMAIN recs : recs[i] # BlankRec
    BY DEF BlankRec, Rec
  <1>9. CutInFront'
    BY <1>2, <1>4, <1>8, CutAppends
  <1>10. id \notin confirmed
    BY <1>1, <1>5 DEF Ids
  <1>11. Indexed'
    BY <1>2, <1>4, <1>10, IndexedAppends
  <1>12. NoBlanks'
    BY <1>2, <1>4, NoBlanksAppends
  <1>13. Copied'
    BY <1>1 DEF Quiet, Copied
  <1>14. ASSUME NEW u \in Txs \ {t}, tx[u].st \in {"active", "appended"} PROVE Logged(tx[u].id, tx[u].dirty)'
    <2>1. ASSUME NEW i, NEW offs, i = tx[u].id, offs = tx[u].dirty PROVE Logged(i, offs)'
      <3>1. offs \in OffsetMaps /\ OffsetsTrue(offs) /\ Logged(i, offs)
        BY <1>1, <1>4, <1>5, <1>14, <2>1, TxIs DEF SpillsTrue, LoggedAll
      <3>2. tx[u].st # "idle" /\ i \in 1 .. lastTxID /\ i # tx[t].id
        BY <1>1, <1>14, <2>1 DEF Ids
      <3>3. i # id
        BY <3>2, <1>5
      <3>4. QED
        BY <1>2, <3>1, <3>3, LoggedOthers
    <2>2. tx'[u].id = tx[u].id /\ tx'[u].dirty = tx[u].dirty
      OBVIOUS
    <2>3. QED
      BY <2>1, <2>2 DEF Logged, Gone
  <1>15. \A u \in Txs \ {t} : tx[u].st # "returning"
    BY <1>1, TxsAssumption DEF Mutex
  <1>16. ASSUME NEW u \in Txs
         PROVE  /\ tx'[u].st \in {"active", "appended"} => Logged(tx[u].id, tx[u].dirty)'
                /\ tx'[u].st = "returning" => Logged(tx[u].retID, tx[u].offs)'
    BY <1>14, <1>15
  <1>17. LoggedAll'
    BY <1>16 DEF LoggedAll
  <1>18. QED
    BY <1>6, <1>7, <1>9, <1>11, <1>12, <1>13, <1>17 DEF Contents

\* The version that is confirmed is the newest.
LEMMA OneMore ==
    ASSUME NEW es \in SUBSET Entries, NEW v \in Nat, NEW o \in Nat, \A e \in es : e.version <= v,
           \A e \in es : e.offset < o, NEW n, n = [version |-> v + 1, offset |-> o]
    PROVE  Top(es \cup {n}, n) /\ n.offset = o /\ n.version = v + 1
  BY DEF Entries, Top

\* A transaction is confirmed: its pages are read as it wrote them, the others as before.
LEMMA ConfirmContents ==
    ASSUME IInv, IInv', Durable, Contents, NEW t \in Txs, tx[t].st \in {"appended", "returning"},
           NEW id, NEW offs \in OffsetMaps, OffsetsTrue(offs), Logged(id, offs), Confirm(id, offs),
           UNCHANGED <<logFile, logEnd, dataFile, ckpt>>,
           \A u \in Txs \ {t} : tx'[u] = tx[u], tx'[t].st = "idle",
           \A u \in Txs \ {t} : tx[u].st = "active" => DOMAIN offs \cap DOMAIN tx[u].dirty \subseteq {Header}
    PROVE  Contents' /\ \A p \in Pages : Latest(p)' = Coming(offs)[p]
  <1>1. Typed /\ Typed' /\ Mutex /\ Quiet
    BY DEF IInv
  <1>2. Ordered /\ CutInFront /\ Indexed /\ LoggedAll /\ NoBlanks
    BY DEF Contents
  <1>3. /\ readVersion \in Nat /\ index \in [AllPages -> SUBSET Entries] /\ logEnd \in Nat
        /\ \A p \in AllPages : \A e \in index[p] : e.version <= readVersion
        /\ Pages \subseteq AllPages
    BY <1>1 DEF Typed, AllPages
  <1>4. PICK n : n = [p \in DOMAIN offs |-> [version |-> readVersion + 1, offset |-> offs[p]]]
    OBVIOUS
  <1>5. ASSUME NEW p \in AllPages
        PROVE  IF p \in DOMAIN offs THEN index'[p] = index[p] \cup {n[p]} ELSE index'[p] = index[p]
    BY <1>3, <1>4 DEF Confirm
  <1>6. ASSUME NEW p \in Pages, p \in DOMAIN offs
        PROVE  /\ Top(index'[p], n[p]) /\ n[p] \in index'[p] /\ n[p].offset = offs[p]
               /\ offs[p] \in 1 .. logEnd /\ At(logFile, p, offs[p]) /\ logFile[offs[p]].tx = id
               /\ logFile[offs[p]].body # Blank
    <2>1. offs[p] \in Nat \ {0} /\ offs[p] <= logEnd /\ At(logFile, p, offs[p])
      BY <1>6, OffsetMapIs DEF OffsetsTrue
    <2>2. logFile[offs[p]].tx = id /\ \A e \in index[p] : e.offset < offs[p]
      BY <1>6 DEF Logged
    <2>3. /\ index[p] \in SUBSET Entries /\ \A e \in index[p] : e.version <= readVersion
          /\ n[p] = [version |-> readVersion + 1, offset |-> offs[p]] /\ offs[p] \in Nat
      BY <1>3, <1>4, <1>6, <2>1
    <2>4. Top(index[p] \cup {n[p]}, n[p]) /\ n[p].offset = offs[p]
      <3>1. ASSUME NEW es, NEW o, NEW m, es = index[p], o = offs[p], m = n[p]
            PROVE  Top(es \cup {m}, m) /\ m.offset = o
        <4>1. /\ es \in SUBSET Entries /\ o \in Nat /\ m = [version |-> readVersion + 1, offset |-> o]
              /\ \A e \in es : e.version <= readVersion /\ e.offset < o
          BY <2>2, <2>3, <3>1
        <4>2. QED
          BY <4>1, <1>3, OneMore
      <3>2. QED
        BY <3>1
    <2>5. index'[p] = index[p] \cup {n[p]}
      BY <1>3, <1>5, <1>6
    <2>6. logFile[offs[p]].body # Blank
      BY <1>2, <2>1, PageIds DEF NoBlanks, At
    <2>7. QED
      BY <2>1, <2>2, <2>4, <2>5, <2>6, <1>3
  <1>7. confirmed' = confirmed \cup {id}
    BY DEF Confirm
  <1>8. Ordered'
    BY <1>2, <1>3, <1>5, <1>6, <1>7 DEF Ordered, At
  <1>9. CutInFront' /\ NoBlanks'
    BY <1>2 DEF CutInFront, NoBlanks, Gone
  <1>10. Indexed'
    <2> SUFFICES ASSUME NEW i \in 1 .. logEnd, ~Gone(i), logFile[i].page # Header, logFile[i].tx \in confirmed'
                 PROVE  \E e \in index'[logFile[i].page] : e.offset >= i
      BY DEF Indexed, Gone
    <2> DEFINE p == logFile[i].page
    <2>1. p \in Pages
      BY <1>1, LogIs, RecsAre DEF Gone, Typed, AllPages
    <2>2. CASE logFile[i].tx \in confirmed
      <3>1. PICK e \in index[p] : e.offset >= i
        BY <2>2, <1>2 DEF Indexed
      <3>2. e \in index'[p]
        BY <2>1, <1>3, <1>5
      <3>3. QED
        BY <3>1, <3>2
    <2>3. CASE logFile[i].tx = id
      BY <1>3, <1>6, <2>1, <2>3 DEF Logged
    <2>4. QED
      BY <2>2, <2>3, <1>7
  <1>11. Copied'
    BY <1>1 DEF Quiet, Copied
  <1>12. LoggedAll'
    BY <1>1, <1>2, <1>3, <1>5, PageIds DEF Mutex, LoggedAll, Logged, Gone
  <1>13. ASSUME NEW p \in Pages PROVE Latest(p)' = Coming(offs)[p]
    <2>1. Sees(logFile, index[p], dataFile[p], p, Latest(p))
      BY <1>1, LatestNow
    <2>2. Sees(logFile', index'[p], dataFile'[p], p, Latest(p)')
      BY <1>1, LatestNext
    <2>3. CASE p \in DOMAIN offs
      BY <1>6, <2>2, <2>3 DEF Sees, Found, At, Coming
    <2>4. CASE p \notin DOMAIN offs
      <3>1. index'[p] = index[p]
        BY <2>4, <1>3, <1>5
      <3> DEFINE b == Latest(p)
                 b2 == Latest(p)'
      <3>2. Sees(logFile, index[p], dataFile[p], p, b) /\ Sees(logFile, index[p], dataFile[p], p, b2)
        BY <2>1, <2>2, <3>1
      <3>3. HasTop(index[p])
        BY <1>2 DEF Ordered, HasTop
      <3> HIDE DEF b, b2
      <3>4. b = b2
        BY <3>2, <3>3, SeesSame
      <3>5. QED
        BY <3>4, <2>4 DEF Coming, b, b2
    <2>5. QED
      BY <2>3, <2>4
  <1>14. QED
    BY <1>8, <1>9, <1>10, <1>11, <1>12, <1>13 DEF Contents

\* Checkpoints run while no transaction is open.
LEMMA NobodyLogs ==
    ASSUME \A t \in Txs : tx[t].st = "idle", UNCHANGED tx
    PROVE  LoggedAll'
  BY DEF LoggedAll

\* A checkpoint starts.
LEMMA StartContents ==
    ASSUME IInv, Durable, Contents, CheckpointStart
    PROVE  Contents' /\ SameLatest
  <1>1. UNCHANGED <<logFile, logEnd, dataFile, index, confirmed, readVersion>>
    BY DEF CheckpointStart, fileVars, walVars
  <1>2. SameLatest
    BY <1>1 DEF SameLatest, Latest, Readable, readAt, readLog, LookupVersion
  <1>3. Ordered' /\ CutInFront' /\ Indexed' /\ NoBlanks'
    BY <1>1 DEF Contents, Ordered, CutInFront, Indexed, NoBlanks, At, Gone
  <1>4. LoggedAll'
    BY NobodyLogs DEF CheckpointStart
  <1>5. Copied'
    BY <1>1 DEF CheckpointStart, IInv, Typed, AllPages, Entries, Copied
  <1>6. QED
    BY <1>2, <1>3, <1>4, <1>5 DEF Contents

\* A checkpoint fails, and the log stays.
LEMMA FailsContents ==
    ASSUME IInv, Durable, Contents, CheckpointFails
    PROVE  Contents' /\ SameLatest
  BY CheckpointIs, NobodyLogs DEF CheckpointFails, fileVars, walVars, SameLatest, Latest, Readable,
     readAt, readLog, LookupVersion, Contents, Ordered, CutInFront, Indexed, NoBlanks, At, Gone,
     ckptIdle, Copied

\* An entry of the index leads into the log, or to what was cut off.
LEMMA EntryIs ==
    ASSUME Typed, Durable, NEW p \in Pages, NEW e \in index[p]
    PROVE  /\ e.offset \in Nat \ {0} /\ e.offset <= logEnd /\ e.offset \in 1 .. logEnd /\ logEnd \in Nat
           /\ At(logFile, p, e.offset) \/ Gone(e.offset)
  BY DEF Typed, AllPages, Entries, Durable, Gone, CutOff

\* The data file is synced.
LEMMA SyncContents ==
    ASSUME IInv, Durable, Contents, CheckpointSync
    PROVE  Contents' /\ SameLatest
  <1>1. UNCHANGED <<logFile, logEnd, dataFile, index, confirmed, readVersion>>
    BY DEF CheckpointSync, fileVars, walVars
  <1>2. SameLatest
    BY <1>1 DEF SameLatest, Latest, Readable, readAt, readLog, LookupVersion
  <1>3. Ordered' /\ CutInFront' /\ Indexed' /\ NoBlanks'
    BY <1>1 DEF Contents, Ordered, CutInFront, Indexed, NoBlanks, At, Gone
  <1>4. LoggedAll'
    BY CheckpointIs, NobodyLogs DEF CheckpointSync
  <1>5. ASSUME NEW p \in Pages PROVE dataFile[p] = Latest(p)
    <2>1. Typed /\ ckpt.st = "copy" /\ ckpt.pos > logEnd /\ ckpt.pos \in Nat
      BY DEF IInv, Typed, CheckpointSync
    <2>2. CASE index[p] = {}
      BY <2>1, <2>2, LatestNow DEF Sees
    <2>3. CASE index[p] # {}
      <3>1. PICK e \in index[p] : Top(index[p], e)
        BY <2>3 DEF Contents, Ordered
      <3>2. e.offset < ckpt.pos
        BY <2>1, EntryIs
      <3>3. QED
        BY <3>1, <3>2, <2>1 DEF Contents, Copied
    <2>4. QED
      BY <2>2, <2>3
  <1>6. Copied'
    BY <1>1, <1>2, <1>5 DEF CheckpointSync, IInv, Typed, SameLatest, Copied
  <1>7. QED
    BY <1>2, <1>3, <1>4, <1>6 DEF Contents

\* The log is cut off: everything in it is in the data file by then.
LEMMA TruncateContents ==
    ASSUME IInv, IInv', Durable, Contents, CheckpointTruncate
    PROVE  Contents' /\ SameLatest
  <1>1. UNCHANGED <<logEnd, dataFile, index, confirmed, readVersion>> /\ logFile' = <<>>
    BY DEF CheckpointTruncate, walVars
  <1>2. ASSUME NEW p \in Pages PROVE Latest(p)' = dataFile[p] /\ Latest(p) = dataFile[p]
    BY <1>1, LatestNext DEF Found, At, IInv, Contents, Ordered, HasTop, Sees, Copied,
       CheckpointTruncate
  <1>3. \A i : Gone(i)'
    BY <1>1 DEF Gone
  <1>4. Ordered' /\ CutInFront' /\ Indexed' /\ NoBlanks'
    BY <1>1, <1>3 DEF Contents, Ordered, CutInFront, Indexed, NoBlanks, At
  <1>5. LoggedAll'
    BY CheckpointIs, NobodyLogs DEF CheckpointTruncate
  <1>6. Copied'
    BY <1>1, <1>2 DEF CheckpointTruncate, IInv, Typed, Copied
  <1>7. SameLatest
    BY <1>2 DEF SameLatest
  <1>8. QED
    BY <1>4, <1>5, <1>6, <1>7 DEF Contents

\* The index is emptied.
LEMMA ClearContents ==
    ASSUME IInv, IInv', Durable, Contents, CheckpointClear
    PROVE  Contents' /\ SameLatest
  BY LatestNext, CheckpointIs, NobodyLogs DEF IInv, Typed, AllPages, CuttingOff, CheckpointClear,
     Durable, Sees, Contents, Copied, Ordered, CutInFront, Indexed, NoBlanks, ckptIdle, SameLatest

\* A page is copied: the newest versions come last, so what is passed stays right.
LEMMA CopyContents ==
    ASSUME IInv, IInv', Durable, Contents, CheckpointCopy
    PROVE  Contents' /\ SameLatest
  <1> DEFINE k == ckpt.pos
             r == logFile[k]
  <1>1. /\ UNCHANGED <<logFile, logEnd, index, confirmed, readVersion>>
        /\ ckpt.st = "copy" /\ k <= logEnd /\ k <= Len(logFile)
        /\ dataFile' = IF r # BlankRec /\ r.tx \in confirmed THEN [dataFile EXCEPT ![r.page] = r.body] ELSE dataFile
        /\ ckpt' = [ckpt EXCEPT !.pos = @ + 1]
    BY DEF CheckpointCopy, walVars
  <1>2. /\ Typed /\ Typed' /\ k \in Nat \ {0} /\ k \in 1 .. logEnd /\ k \in DOMAIN logFile /\ logEnd \in Nat
        /\ r \in Recs /\ dataFile \in DataFiles
    <2>1. Typed /\ Typed' /\ k \in Nat \ {0} /\ logEnd \in Nat /\ logFile \in Seq(Recs) /\ dataFile \in DataFiles
      BY <1>1 DEF IInv, Typed
    <2>2. k \in DOMAIN logFile /\ k \in 1 .. logEnd
      BY <1>1, <2>1, LogIs
    <2>3. r \in Recs
      BY <2>1, <2>2, LogIs
    <2>4. QED
      BY <2>1, <2>2, <2>3
  <1>3. ckpt'.st = "copy" /\ ckpt'.pos = k + 1
    BY <1>1, <1>2 DEF Typed
  <1>4. Ordered /\ CutInFront /\ Indexed /\ NoBlanks /\ Copied
    BY DEF Contents
  <1>5. ASSUME NEW p \in Pages, dataFile'[p] # dataFile[p]
        PROVE  r # BlankRec /\ r.tx \in confirmed /\ r.page = p
    BY <1>1, <1>2, <1>5 DEF DataFiles
  <1>6. ASSUME NEW p \in Pages, r # BlankRec, r.tx \in confirmed, r.page = p
        PROVE  dataFile'[p] = r.body
    BY <1>1, <1>2, <1>6 DEF DataFiles, AllPages
  <1> HIDE DEF k, r
  \* A page that is copied is still in the log as of its latest version.
  <1>7. ASSUME NEW p \in Pages, r # BlankRec, r.tx \in confirmed, r.page = p
        PROVE  \E e \in index[p] : /\ Top(index[p], e) /\ k <= e.offset
                                   /\ At(logFile, p, e.offset) /\ logFile[e.offset].body # Blank
    <2>1. ~Gone(k)
      BY <1>2, <1>7 DEF Gone, r
    <2>2. PICK f \in index[p] : f.offset >= k
      BY <1>2, <1>4, <1>7, <2>1, PageIds DEF Indexed, r
    <2>3. PICK e \in index[p] : Top(index[p], e)
      BY <1>4, <2>2 DEF Ordered
    <2>4. /\ f.offset \in Nat /\ e.offset \in Nat /\ e.offset \in 1 .. logEnd
          /\ At(logFile, p, e.offset) \/ Gone(e.offset)
      BY <1>2, EntryIs
    <2>5. f = e \/ f.offset < e.offset
      BY <2>3 DEF Top
    <2>6. k <= e.offset
      BY <1>2, <2>2, <2>4, <2>5
    <2>7. ~Gone(e.offset)
      BY <1>2, <1>4, <2>1, <2>4, <2>6 DEF CutInFront
    <2>8. logFile[e.offset].body # Blank
      BY <1>4, <2>4, <2>7, PageIds DEF NoBlanks, At
    <2>9. QED
      BY <2>3, <2>4, <2>6, <2>7, <2>8
  <1>8. ASSUME NEW p \in Pages PROVE Latest(p)' = Latest(p)
    <2>1. Sees(logFile, index[p], dataFile[p], p, Latest(p))
      BY <1>2, LatestNow
    <2>2. Sees(logFile', index'[p], dataFile'[p], p, Latest(p)')
      BY <1>2, LatestNext
    <2>3. HasTop(index[p])
      BY <1>4 DEF Ordered, HasTop
    <2>4. logFile' = logFile /\ index'[p] = index[p]
      BY <1>1
    <2>5. CASE dataFile'[p] = dataFile[p]
      <3> DEFINE b == Latest(p)
                 b2 == Latest(p)'
      <3>1. Sees(logFile, index[p], dataFile[p], p, b) /\ Sees(logFile, index[p], dataFile[p], p, b2)
        BY <2>1, <2>2, <2>4, <2>5
      <3> HIDE DEF b, b2
      <3>2. b = b2
        BY <3>1, <2>3, SeesSame
      <3>3. QED
        BY <3>2 DEF b, b2
    <2>6. CASE dataFile'[p] # dataFile[p]
      <3>1. PICK e \in index[p] : /\ Top(index[p], e) /\ At(logFile, p, e.offset)
                                  /\ logFile[e.offset].body # Blank
        BY <1>5, <1>7, <2>6
      <3>2. Latest(p) = logFile[e.offset].body
        BY <2>1, <3>1 DEF Sees, Found
      <3>3. Latest(p)' = logFile[e.offset].body
        BY <2>2, <2>4, <3>1 DEF Sees, Found, At
      <3>4. QED
        BY <3>2, <3>3
    <2>7. QED
      BY <2>5, <2>6
  <1>9. ASSUME NEW p \in Pages, NEW e \in index[p], Top(index[p], e), e.offset < k + 1
        PROVE  dataFile'[p] = Latest(p)
    <2>1. Sees(logFile, index[p], dataFile[p], p, Latest(p))
      BY <1>2, LatestNow
    <2>2. e.offset \in Nat
      BY <1>2, EntryIs
    <2>3. CASE r # BlankRec /\ r.tx \in confirmed /\ r.page = p
      <3>1. PICK g \in index[p] : /\ Top(index[p], g) /\ k <= g.offset
                                  /\ At(logFile, p, g.offset) /\ logFile[g.offset].body # Blank
        BY <1>7, <2>3
      <3>2. g = e
        <4>1. g # e => g.version < e.version /\ e.version < g.version
          BY <1>9, <3>1 DEF Top
        <4>2. g.version \in Nat /\ e.version \in Nat
          BY <1>2 DEF Typed, AllPages, Entries
        <4>3. QED
          BY <4>1, <4>2
      <3>3. e.offset = k
        BY <1>2, <1>9, <2>2, <3>1, <3>2
      <3>4. Latest(p) = r.body
        BY <2>1, <3>1, <3>2, <3>3 DEF Sees, Found, r
      <3>5. QED
        BY <1>6, <2>3, <3>4
    <2>4. CASE ~ (r # BlankRec /\ r.tx \in confirmed /\ r.page = p)
      <3>1. dataFile'[p] = dataFile[p]
        BY <1>5, <2>4
      <3>2. CASE e.offset < k
        BY <3>1, <3>2, <1>1, <1>4, <1>9 DEF Copied, k
      <3>3. CASE e.offset = k
        <4>1. ~At(logFile, p, e.offset)
          <5> SUFFICES ASSUME At(logFile, p, k) PROVE FALSE
            BY <3>3
          <5>1. r.page = p /\ r.tx \in confirmed
            BY <1>4, <3>3 DEF Ordered, At, r
          <5>2. r # BlankRec
            BY <5>1, PageIds DEF BlankRec, Rec
          <5>3. QED
            BY <5>1, <5>2, <2>4
        <4>2. Latest(p) = dataFile[p]
          BY <2>1, <4>1, <1>9 DEF Sees, Found
        <4>3. QED
          BY <3>1, <4>2
      <3>4. QED
        BY <1>2, <1>9, <2>2, <3>2, <3>3
    <2>5. QED
      BY <2>3, <2>4
  <1>10. Copied'
    BY <1>1, <1>3, <1>8, <1>9 DEF Copied
  <1>11. LoggedAll'
    BY CheckpointIs, NobodyLogs DEF CheckpointCopy
  <1>12. Ordered' /\ CutInFront' /\ Indexed' /\ NoBlanks'
    BY <1>1, <1>4 DEF Ordered, CutInFront, Indexed, NoBlanks, At, Gone
  <1>13. SameLatest
    BY <1>8 DEF SameLatest
  <1>14. QED
    BY <1>10, <1>11, <1>12, <1>13 DEF Contents

\* No step of a checkpoint changes what is read.
LEMMA CheckpointContents ==
    ASSUME IInv, IInv', Durable, Contents,
           CheckpointStart \/ CheckpointCopy \/ CheckpointSync \/ CheckpointTruncate
           \/ CheckpointClear \/ CheckpointFails
    PROVE  Contents' /\ SameLatest
  BY StartContents, CopyContents, SyncContents, TruncateContents, ClearContents, FailsContents
=============================================================================
