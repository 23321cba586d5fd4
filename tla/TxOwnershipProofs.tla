------------------------- MODULE TxOwnershipProofs --------------------------
(***************************************************************************)
(* Every step of TxStore keeps each page with the one owner it has, for    *)
(* any number of pages, transactions and collections: the invariant of     *)
(* TxPagesProofs is inductive, and with it the free list is what the       *)
(* header starts, no page has two owners and none is lost.  From it also   *)
(* follows that a commit that writes nothing forgets nothing.  It is about *)
(* the runs without a crash and without the scans of DiscardVectorPages.   *)
(***************************************************************************)
EXTENDS TxPagesProofs, TxStoreRefinement

-----------------------------------------------------------------------------
(* The views.                                                              *)

\* Stores, catalogs and headers are what their names say.
Stores == [Pages -> Bodies]

\* Places makes a catalog.
LEMMA CatalogIs ==
    ASSUME NEW h \in Headers, NEW B \in Stores
    PROVE  Places(h, B) \in Catalogs
  BY HeaderIs, BodiesAre DEF Tables, Place, Links, Stores, Places, Catalogs

\* What is read is a store.
LEMMA StoreIs == ASSUME Typed PROVE Store \in Stores
  BY readAtIs, PageIds DEF Typed, DataFiles, AllPages, BodyOf, Latest, Readable, Store, Stores

\* What the log has of a page is one.
LEMMA LogBody ==
    ASSUME Typed, NEW p \in Pages, NEW o, At(logFile, p, o)
    PROVE  logFile[o].body \in Bodies
  BY LogIs, PageIds, RecsAre DEF Typed, At, BlankRec, Rec, BodyOf

\* So is what will be read.
LEMMA ComingIs ==
    ASSUME Typed, NEW offs, OffsetsTrue(offs)
    PROVE  Coming(offs) \in Stores
  BY LogBody, StoreIs DEF OffsetsTrue, Store, Stores, Coming

\* The header that counts, and the offsets of the writer.
LEMMA SettledIs ==
    ASSUME IInv
    PROVE  /\ SettledHeader \in Headers /\ header \in Headers
           /\ mu # NoTx => mu \in Txs /\ tx[mu].st \in {"appended", "returning"} /\ OffsetsTrue(OffsOf(tx[mu]))
                           /\ OffsOf(tx[mu]) \in OffsetMaps
  BY TxIs DEF IInv, Typed, Mutex, SpillsTrue, OffsOf, Sound, SettledHeader

\* A transaction that changes nothing but itself leaves both views alone.
LEMMA LocalOwn ==
    ASSUME IInv, Ownership, NEW t \in Txs, tx[t].st \notin {"appended", "returning"},
           UNCHANGED <<fileVars, index, readVersion, header, mu>>,
           \A u \in Txs \ {t} : tx'[u] = tx[u],
           \A h \in Headers, B \in Stores, K \in Catalogs, T \in SUBSET Txs :
               /\ t \in T /\ Placed(h, B, K) /\ Shared(h, B, K, logFile, T, tx, faults = 0)
               /\ mu = NoTx => h = header /\ B = Store
               => Shared(h, B, K, logFile, T, tx', faults' = 0),
           Visible', Calm'
    PROVE  Ownership'
  <1>1. /\ logFile' = logFile /\ dataFile' = dataFile /\ index' = index /\ readVersion' = readVersion
        /\ header' = header /\ mu' = mu
    BY DEF fileVars
  <1>2. \A p \in Pages : Latest(p)' = Latest(p)
    BY <1>1 DEF Latest, Readable, readAt, readLog, LookupVersion
  <1>3. Store' = Store
    BY <1>2 DEF Store
  <1>4. mu # t
    BY DEF IInv, Mutex
  <1>5. mu # NoTx => tx'[mu] = tx[mu] /\ mu \in Txs \ {t}
    BY <1>4, SettledIs
  <1>6. SettledHeader' = SettledHeader
    BY <1>1, <1>5 DEF SettledHeader
  <1>7. Settled'
    BY <1>1, <1>3, <1>6, SettledIs, StoreIs, CatalogIs, PlacesAre DEF Ownership, Settled, IInv,
       SettledHeader
  <1>8. Underway'
    <2> SUFFICES ASSUME mu # NoTx
                 PROVE  /\ Shared(header, Coming(OffsOf(tx[mu]))', Places(header, Coming(OffsOf(tx[mu]))'),
                                  logFile, Txs \ {mu}, tx', faults' = 0)
                        /\ DOMAIN OffsOf(tx'[mu]) \subseteq {Header} \cup Mine(Places(SettledHeader', Store'), tx'[mu])
                        /\ \A c \in Cols \ Writes(tx'[mu]) : header.table[c] = SettledHeader'.table[c]
      BY <1>1 DEF Underway
    <2> DEFINE B == Coming(OffsOf(tx[mu]))
    <2>1. /\ Shared(header, B, Places(header, B), logFile, Txs \ {mu}, tx, faults = 0)
          /\ DOMAIN OffsOf(tx[mu]) \subseteq {Header} \cup Mine(Places(SettledHeader, Store), tx[mu])
          /\ \A c \in Cols \ Writes(tx[mu]) : header.table[c] = SettledHeader.table[c]
      BY DEF Ownership, Underway
    <2>2. tx'[mu] = tx[mu] /\ t \in Txs \ {mu}
      BY <1>4, <1>5
    <2>3. B' = B
      BY <1>1, <1>2, <2>2 DEF Coming
    <2>4. header \in Headers /\ B \in Stores /\ Places(header, B) \in Catalogs
          /\ Placed(header, B, Places(header, B))
      BY SettledIs, ComingIs, CatalogIs, PlacesAre DEF IInv
    <2>5. Shared(header, B, Places(header, B), logFile, Txs \ {mu}, tx', faults' = 0)
      <3> HIDE DEF B
      <3>1. QED
        BY <2>1, <2>2, <2>4
    <2>6. QED
      BY <1>3, <1>6, <2>1, <2>2, <2>3, <2>5
  <1>9. QED
    BY <1>7, <1>8 DEF Ownership

\* A call that leaves what the transaction has in the log alone.
Stays(t) == /\ tx'[t].id = tx[t].id /\ tx'[t].dirty = tx[t].dirty /\ tx'[t].st = tx[t].st
            /\ \A u \in Txs \ {t} : tx'[u] = tx[u]

\* One snapshot of a transaction is replaced.
Turned(r, r2, c, s) ==
    /\ r2.snaps[c] = s /\ \A d \in Cols \ {c} : r2.snaps[d] = r.snaps[d]
    /\ r2.st = r.st /\ r2.id = r.id /\ r2.dirty = r.dirty /\ r2.newPages = r.newPages
    /\ r2.firstDelete = r.firstDelete /\ r2.lastDelete = r.lastDelete
    /\ r2.lastDeleteColl = r.lastDeleteColl /\ r2.headerChanged = r.headerChanged
    /\ r2.onCommit = r.onCommit

\* One snapshot is replaced, and nothing else.
LEMMA SnapTurned ==
    ASSUME IInv, NEW t \in Txs, NEW c \in Cols, NEW s, tx' = [tx EXCEPT ![t].snaps[c] = s]
    PROVE  Turned(tx[t], tx'[t], c, s) /\ \A u \in Txs \ {t} : tx'[u] = tx[u]
  BY TxIs, ZenonT(60) DEF IInv, Typed, TxRecs, Turned

\* Then it is enough that the work is in order.
LEMMA TurnedOwn ==
    ASSUME IInv, Ownership, NEW t \in Txs, tx[t].st \in {"active", "aborting"},
           NEW c \in Cols, NEW s, Turned(tx[t], tx'[t], c, s),
           \A u \in Txs \ {t} : tx'[u] = tx[u],
           UNCHANGED <<fileVars, index, readVersion, header, mu, broken, faults>>,
           \A h \in Headers, B \in Stores, K \in Catalogs, T \in SUBSET Txs :
               /\ t \in T /\ Placed(h, B, K) /\ Shared(h, B, K, logFile, T, tx, faults = 0)
               /\ mu = NoTx => h = header /\ B = Store
               => (tx[t].st = "active" => Works(K, logFile, tx'[t])),
           s.mode = "write" => \A u \in Txs \ {t} : c \notin Writes(tx[u]),
           s.mode = "write" /\ tx[t].st = "aborting" => c \in Writes(tx[t]),
           s.mode = "write" /\ ~s.loaded =>
               \/ s.version = readVersion
               \/ c \in Writes(tx[t]) /\ ~tx[t].snaps[c].loaded /\ s.version = tx[t].snaps[c].version
    PROVE  Ownership'
  <1>1. \A d \in Cols : d \in Writes(tx'[t]) => (d = c /\ s.mode = "write") \/ (d # c /\ d \in Writes(tx[t]))
    BY DEF Turned, Writes
  <1>2. \A u \in Txs \ {t} : Writes(tx'[t]) \cap Writes(tx[u]) = {}
    BY <1>1 DEF Ownership, Settled, Shared, Takers, Writes
  <1>3. Took(tx'[t]) = Took(tx[t]) /\ tx'[t].newPages = tx[t].newPages /\ tx'[t].st = tx[t].st
    BY DEF Turned, Took
  <1>4. ASSUME NEW h \in Headers, NEW B \in Stores, NEW K \in Catalogs, NEW T \in SUBSET Txs, t \in T,
               Placed(h, B, K), Shared(h, B, K, logFile, T, tx, faults = 0),
               mu = NoTx => h = header /\ B = Store
        PROVE  Shared(h, B, K, logFile, T, tx', faults' = 0)
    <2>1. OneToOne(tx'[t].newPages)
      BY <1>3, <1>4 DEF Shared, Takers
    <2>2. Same(logFile, logFile, tx[t]) /\ \A u \in Txs : Same(logFile, logFile, tx[u])
      BY DEF Same
    <2>3. tx'[t].st = "active" => Works(K, logFile, tx'[t])
      BY <1>3, <1>4
    <2>4. Stands(K, logFile, logFile, T, tx, tx', t, faults = 0, faults' = 0)
      BY <1>2, <1>3, <2>1, <2>2, <2>3 DEF Stands
    <2>5. QED
      BY <1>4, <2>4, GoesOn
  <1>5. SettledHeader' = SettledHeader
    BY SettledIs DEF SettledHeader
  <1>6. Visible'
    <2> SUFFICES ASSUME NEW u \in Txs, NEW d \in Cols, d \in Writes(tx'[u]), ~tx'[u].snaps[d].loaded,
                        SettledHeader.table[d] # NoPage, NEW e \in index[SettledHeader.table[d]]
                 PROVE  e.version <= tx'[u].snaps[d].version
      BY <1>5 DEF Visible
    <2>1. SettledHeader.table[d] \in AllPages
      BY SettledIs, HeaderIs DEF Tables, Links, AllPages
    <2>2. e.version <= readVersion
      BY <2>1 DEF IInv, Typed
    <2>3. d \in Writes(tx[u]) /\ ~tx[u].snaps[d].loaded => e.version <= tx[u].snaps[d].version
      BY DEF Ownership, Visible
    <2>4. CASE u # t
      BY <2>3, <2>4
    <2>5. CASE u = t /\ d = c
      BY <2>2, <2>3, <2>5 DEF Turned, Writes
    <2>6. CASE u = t /\ d # c
      BY <2>3, <2>6 DEF Turned, Writes
    <2>7. QED
      BY <2>4, <2>5, <2>6
  <1>7. Calm'
    <2>1. \A u \in Txs : tx[u].st = "aborting" => Writes(tx[u]) = {}
      BY DEF Ownership, Calm
    <2>2. \A u \in Txs : tx'[u].st = "aborting" => Writes(tx'[u]) = {}
      <3> SUFFICES ASSUME NEW u \in Txs, tx'[u].st = "aborting" PROVE Writes(tx'[u]) = {}
        OBVIOUS
      <3>1. CASE u # t
        BY <2>1, <3>1
      <3>2. CASE u = t
        BY <1>1, <1>3, <2>1, <3>2 DEF Writes
      <3>3. QED
        BY <3>1, <3>2
    <2>3. faults' = 0 => ~broken'
      BY DEF Ownership, Calm
    <2>4. QED
      BY <2>2, <2>3 DEF Calm
  <1>8. tx[t].st \notin {"appended", "returning"}
    OBVIOUS
  <1>9. QED
    BY <1>4, <1>6, <1>7, <1>8, LocalOwn

\* What a view says to a transaction in it.
Viewed(K, log, r) ==
    /\ NoPage \notin Mine(K, r) /\ Mine(K, r) \subseteq Pages
    /\ \A c \in Cols :
           /\ NoPage \notin Of(K, c) /\ Of(K, c) \cap Took(r) = {}
           /\ c \notin Writes(r) => Of(K, c) \cap Mine(K, r) = {}
           /\ \A d \in Cols : c # d => Of(K, c) \cap Of(K, d) = {}
           /\ K[c].page # NoPage => K[c].body.kind = "coll" /\ K[c].page \notin K[c].body.pages
    /\ r.st = "active" => Works(K, log, r)

\* What a transaction has is its own, by every view it is in.
LEMMA ViewIs ==
    ASSUME NEW h \in Headers, NEW B, NEW K, NEW log, NEW T, NEW X, NEW whole, NEW t \in T,
           Shared(h, B, K, log, T, X, whole)
    PROVE  Viewed(K, log, X[t])
  <1>1. h.last \in Pages
    BY HeaderIs
  <1>2. /\ Mine(K, X[t]) \subseteq Pages
        /\ \A c \in Cols \ Writes(X[t]) : Of(K, c) \cap Mine(K, X[t]) = {}
    BY <1>1, MineIs
  <1>3. Collections(h, K) /\ Takers(h, K, T, X) /\ (X[t].st = "active" => Works(K, log, X[t]))
    BY DEF Shared
  <1>4. NoPage \notin Pages /\ NoPage \notin 1 .. h.last
    BY <1>1, PageIds DEF NoPage, Pages
  <1>5. \A c \in Cols : Of(K, c) \subseteq 1 .. h.last
    BY <1>3 DEF Collections
  <1>6. \A c \in Cols : Of(K, c) \cap Took(X[t]) = {}
    BY <1>3 DEF Takers
  <1>7. QED
    BY <1>2, <1>3, <1>4, <1>5, <1>6 DEF Viewed, Collections

\* A snapshot for reading adds no work.
LEMMA ReadTurned ==
    ASSUME NEW K, NEW log, NEW r, NEW r2, NEW c \in Cols, NEW s, Turned(r, r2, c, s), c \notin Writes(r),
           s.mode # "write", Works(K, log, r)
    PROVE  Works(K, log, r2)
  BY SameWork DEF Turned, Writes

\* Opening a snapshot.
LEMMA SnapshotOwn ==
    ASSUME IInv, Ownership, NEW t \in Txs, NEW c \in Cols, NEW mode \in {"read", "write"}, Snapshot(t, c, mode)
    PROVE  Ownership'
  <1>1. tx[t].st = "active" /\ UNCHANGED <<fileVars, index, readVersion, header, mu, broken, faults>>
    BY DEF Snapshot, Active, restVars, walVars
  <1>2. NewSnap(mode).mode = mode /\ NewSnap(mode).version = readVersion /\ ~NewSnap(mode).loaded
        /\ NewSnap(mode).coll = NoPage /\ DOMAIN NewSnap(mode).local = {} /\ ~NewSnap(mode).collDirty
        /\ NewSnap(mode).body.kind # "coll"
    BY EmptyMap DEF NewSnap, NoSnap, Blank
  <1>3. NoSnap.mode # "write"
    BY DEF NoSnap
  <1>4. c \notin Writes(tx[t])
    BY DEF Snapshot, Writes
  <1>5. PICK s : /\ tx' = [tx EXCEPT ![t].snaps[c] = s]
                 /\ \/ s = NewSnap(mode) /\ (mode = "write" => \A u \in Txs \ {t} : tx[u].snaps[c].mode # "write")
                    \/ s = NoSnap
    BY DEF Snapshot
  <1>6. Turned(tx[t], tx'[t], c, s) /\ \A u \in Txs \ {t} : tx'[u] = tx[u]
    BY <1>5, SnapTurned
  <1>7. ASSUME NEW h \in Headers, NEW B \in Stores, NEW K \in Catalogs, NEW T \in SUBSET Txs, t \in T,
               Shared(h, B, K, logFile, T, tx, faults = 0)
        PROVE  Works(K, logFile, tx'[t])
    <2>1. Viewed(K, logFile, tx[t])
      BY <1>7, ViewIs
    <2>2. Works(K, logFile, tx[t])
      BY <1>1, <2>1 DEF Viewed
    <2>3. CASE s.mode # "write"
      BY <1>4, <1>6, <2>2, <2>3, ReadTurned
    <2>4. CASE s.mode = "write"
      <3>1. s = NewSnap(mode)
        BY <1>3, <1>5, <2>4
      <3>2. Writes(tx'[t]) = Writes(tx[t]) \cup {c} /\ \A d \in Writes(tx[t]) : tx'[t].snaps[d] = tx[t].snaps[d]
        BY <1>4, <1>6, <2>4 DEF Turned, Writes
      <3>3. Of(K, c) \cap Mine(K, tx[t]) = {} /\ NoPage \notin Mine(K, tx[t]) /\ NoPage \notin Of(K, c)
        BY <1>4, <2>1 DEF Viewed
      <3>4. tx'[t].snaps[c] = s
        BY <1>6 DEF Turned
      <3>5. QED
        BY <1>2, <1>4, <1>6, <2>2, <3>1, <3>2, <3>3, <3>4, OpenedWork DEF Turned
    <2>5. QED
      BY <2>3, <2>4
  <1>8. s.mode = "write" => \A u \in Txs \ {t} : c \notin Writes(tx[u])
    BY <1>2, <1>3, <1>5 DEF Writes
  <1>9. s.mode = "write" => s.version = readVersion
    BY <1>2, <1>3, <1>5
  <1>10. QED
    BY <1>1, <1>6, <1>7, <1>8, <1>9, TurnedOwn

\* Changing a page.
LEMMA UpdateOwn ==
    ASSUME IInv, Ownership, NEW t \in Txs, NEW c \in Cols, NEW p \in Pages, Update(t, c, p)
    PROVE  Ownership'
  <1> DEFINE s == tx[t].snaps[c]
             local == Put(s.local, p, Data(tx[t].id))
             n == [s EXCEPT !.local = local]
  <1>1. tx[t].st = "active" /\ UNCHANGED <<fileVars, index, readVersion, header, mu, broken, faults>>
    BY DEF Update, Active, restVars, walVars
  <1>2. s.mode = "write" /\ s.loaded /\ s.body.kind = "coll" /\ p \in s.body.pages /\ c \in Writes(tx[t])
    BY DEF Update, Writable, Writes
  <1>3. s \in Snaps /\ tx[t] \in TxRecs /\ tx[t].id \in Nat
    BY TxIs DEF IInv, Typed
  <1> HIDE DEF local
  <1>4. /\ n.collDirty = s.collDirty /\ n.body = s.body /\ n.coll = s.coll
        /\ n.mode = s.mode /\ n.loaded = s.loaded /\ n.local = local
    BY <1>3 DEF Snaps
  <1>5. tx' = [tx EXCEPT ![t].snaps[c] = n]
    BY DEF Update, local
  <1> HIDE DEF n
  <1>6. Turned(tx[t], tx'[t], c, n) /\ \A u \in Txs \ {t} : tx'[u] = tx[u]
    BY <1>5, SnapTurned
  <1>7. Writes(tx'[t]) = Writes(tx[t]) /\ tx'[t].snaps[c] = n
        /\ \A d \in Writes(tx[t]) : d # c => tx'[t].snaps[d] = tx[t].snaps[d]
    BY <1>2, <1>4, <1>6 DEF Turned, Writes
  <1>8. Data(tx[t].id) # Blank
    BY DEF Data, Blank
  <1>9. ASSUME NEW h \in Headers, NEW B \in Stores, NEW K \in Catalogs, NEW T \in SUBSET Txs, t \in T,
               Shared(h, B, K, logFile, T, tx, faults = 0)
        PROVE  Works(K, logFile, tx'[t])
    <2>1. Works(K, logFile, tx[t])
      BY <1>1, <1>9 DEF Shared
    <2>2. tx'[t].snaps[c].local = Put(tx[t].snaps[c].local, p, Data(tx[t].id))
      BY <1>4, <1>7 DEF local
    <2>3. /\ tx'[t].dirty = tx[t].dirty /\ tx'[t].newPages = tx[t].newPages
          /\ tx'[t].firstDelete = tx[t].firstDelete /\ tx'[t].lastDelete = tx[t].lastDelete
          /\ tx'[t].lastDeleteColl = tx[t].lastDeleteColl /\ tx'[t].onCommit = tx[t].onCommit
          /\ tx'[t].headerChanged = tx[t].headerChanged
      BY <1>6 DEF Turned
    <2>5. /\ tx'[t].snaps[c].loaded /\ tx'[t].snaps[c].coll = tx[t].snaps[c].coll
          /\ tx'[t].snaps[c].body = tx[t].snaps[c].body
          /\ tx'[t].snaps[c].collDirty = tx[t].snaps[c].collDirty
      BY <1>2, <1>4, <1>7
    <2> DEFINE r == tx[t]
               r2 == tx'[t]
               body == Data(tx[t].id)
    <2>6. r \in TxRecs /\ c \in Writes(r) /\ r.snaps[c].loaded /\ r.snaps[c].body.kind = "coll"
          /\ p \in r.snaps[c].body.pages
      BY <1>2, <1>3
    <2>7. body # Blank /\ r2.snaps[c].local = Put(r.snaps[c].local, p, body)
      BY <1>8, <2>2
    <2> HIDE DEF r, r2, body, s
    <2>8. Kept(K, logFile, r, r2, {})
      BY <1>7, <2>1, <2>3, <2>5, <2>6, <2>7, UpdatedWork DEF r, r2
    <2>4. QED
      BY <2>8 DEF Kept, r2
  <1>10. \A u \in Txs \ {t} : c \notin Writes(tx[u])
    BY <1>2 DEF Ownership, Settled, Shared, Takers
  <1>11. QED
    BY <1>1, <1>2, <1>4, <1>6, <1>9, <1>10, TurnedOwn

\* The collection page a snapshot for writing finds is the settled one.
LEMMA FoundLatest ==
    ASSUME IInv, Ownership, mu = NoTx, NEW t \in Txs, tx[t].st = "active", NEW c \in Writes(tx[t]),
           ~tx[t].snaps[c].loaded, header.table[c] # NoPage,
           getPage(t, c, header.table[c], FALSE) # Blank
    PROVE  Latest(header.table[c]) = getPage(t, c, header.table[c], FALSE)
  <1> DEFINE p == header.table[c]
             s == tx[t].snaps[c]
             K == Places(header, Store)
  <1>1. SettledHeader = header /\ header \in Headers /\ c \in Cols
    BY SettledIs DEF SettledHeader, Writes
  <1>2. p \in Pages /\ p \in AllPages
    BY <1>1, HeaderIs DEF Tables, Links, AllPages
  <1>3. Works(K, logFile, tx[t])
    BY <1>1 DEF Ownership, Settled, Shared
  <1>4. DOMAIN s.local = {}
    BY <1>3 DEF Works, Opened
  <1>5. K[c].page = p
    BY PlacesAre, <1>1 DEF Placed
  <1>6. p \notin DOMAIN tx[t].dirty
    BY <1>2, <1>3, <1>5 DEF Works, Spills, Of
  <1>7. getPage(t, c, p, FALSE) = readAt(p, s.version)
    BY <1>4, <1>6 DEF getPage
  <1>8. \A e \in index[p] : e.version <= s.version /\ e.version <= readVersion /\ e.version \in Nat \ {0}
    BY <1>1, <1>2 DEF Ownership, Visible, IInv, Typed, Entries
  <1>9. s.version \in Nat /\ readVersion \in Nat
    BY <1>1, TxIs, SnapIs DEF IInv, Typed
  <1> HIDE DEF p, s, K
  <1>10. s.version = 0 => index[p] = {}
    BY <1>8, <1>9
  <1>11. readVersion = 0 => index[p] = {}
    BY <1>8, <1>9
  <1>12. {e \in index[p] : e.version <= s.version} = index[p] /\ {e \in index[p] : e.version <= readVersion} = index[p]
    BY <1>8
  <1>13. LookupVersion(p, s.version) = LookupVersion(p, readVersion)
    BY <1>10, <1>11, <1>12 DEF LookupVersion
  <1>14. readAt(p, s.version) = readAt(p, readVersion)
    BY <1>13 DEF readAt
  <1>15. QED
    BY <1>7, <1>14 DEF Latest, Readable, p

\* Reading the page of a collection.
LEMMA LoadOwn ==
    ASSUME IInv, Ownership, NEW t \in Txs, NEW c \in Cols, LoadCollection(t, c)
    PROVE  Ownership'
  <1> DEFINE s == tx[t].snaps[c]
             p == header.table[c]
             b == getPage(t, c, p, FALSE)
             n1 == [s EXCEPT !.loaded = TRUE]
             n2 == [s EXCEPT !.loaded = TRUE, !.coll = p, !.body = b]
  <1>1. mu = NoTx /\ s.mode # "none" /\ ~s.loaded
        /\ UNCHANGED <<fileVars, index, readVersion, header, mu, broken, faults>>
    BY DEF LoadCollection, Opening, restVars, walVars
  <1>2. tx[t].st \in {"active", "aborting"}
    BY <1>1, OpeningIs
  <1>3. s \in Snaps /\ tx[t] \in TxRecs /\ header \in Headers /\ s.mode \in {"read", "write"}
    BY <1>1, TxIs, SnapIs DEF IInv, Typed
  <1>4. PICK n : /\ tx' = [tx EXCEPT ![t].snaps[c] = n]
                 /\ \/ p = NoPage /\ n = n1
                    \/ n = NoSnap
                    \/ p # NoPage /\ b.kind = "coll" /\ n = n2
    BY DEF LoadCollection
  <1>5. /\ n1.mode = s.mode /\ n1.version = s.version /\ n1.loaded /\ n1.coll = s.coll /\ n1.body = s.body
        /\ n1.collDirty = s.collDirty /\ n1.local = s.local
        /\ n2.mode = s.mode /\ n2.version = s.version /\ n2.loaded /\ n2.coll = p /\ n2.body = b
        /\ n2.collDirty = s.collDirty /\ n2.local = s.local
    BY <1>3 DEF Snaps
  <1>6. NoSnap.mode # "write"
    BY DEF NoSnap
  <1> HIDE DEF n1, n2
  <1>7. Turned(tx[t], tx'[t], c, n) /\ \A u \in Txs \ {t} : tx'[u] = tx[u]
    BY <1>4, SnapTurned
  <1>8. n.mode = "write" => s.mode = "write" /\ n.loaded
    BY <1>4, <1>5, <1>6
  <1>9. s.mode = "write" => c \in Writes(tx[t])
    BY DEF Writes
  <1>10. s.mode # "write" => c \notin Writes(tx[t])
    BY DEF Writes
  <1>11. ASSUME NEW h \in Headers, NEW B \in Stores, NEW K \in Catalogs, NEW T \in SUBSET Txs, t \in T,
                Placed(h, B, K), Shared(h, B, K, logFile, T, tx, faults = 0),
                h = header /\ B = Store, tx[t].st = "active"
         PROVE  Works(K, logFile, tx'[t])
    <2>1. Viewed(K, logFile, tx[t])
      BY <1>11, ViewIs
    <2>2. Works(K, logFile, tx[t])
      BY <1>11, <2>1 DEF Viewed
    <2>3. CASE s.mode # "write"
      BY <1>7, <1>8, <1>10, <2>2, <2>3, ReadTurned
    <2>4. CASE s.mode = "write"
      <3>1. c \in Writes(tx[t]) /\ tx'[t].snaps[c] = n
        BY <1>7, <1>9, <2>4 DEF Turned
      <3>2. /\ tx'[t].dirty = tx[t].dirty /\ tx'[t].newPages = tx[t].newPages
            /\ tx'[t].firstDelete = tx[t].firstDelete /\ tx'[t].lastDelete = tx[t].lastDelete
            /\ tx'[t].lastDeleteColl = tx[t].lastDeleteColl /\ tx'[t].onCommit = tx[t].onCommit
            /\ tx'[t].headerChanged = tx[t].headerChanged
        BY <1>7 DEF Turned
      <3> DEFINE r == tx[t]
                 r2 == tx'[t]
      <3>3. CASE n = NoSnap
        <4>1. Writes(r2) = Writes(r) \ {c} /\ \A d \in Writes(r2) : r2.snaps[d] = r.snaps[d]
          BY <1>6, <1>7, <3>3 DEF Turned, Writes
        <4>2. ~r.snaps[c].loaded /\ c \in Writes(r) /\ Writes(r) \subseteq Cols
          BY <1>1, <3>1 DEF Writes
        <4>3. /\ Of(K, c) \cap Took(r) = {} /\ NoPage \notin Mine(K, r)
              /\ \A d \in Writes(r) : c # d => Of(K, c) \cap Of(K, d) = {}
          BY <2>1, <4>2 DEF Viewed
        <4> HIDE DEF r, r2, s
        <4>4. Closed(K, logFile, r, r2)
          BY <2>2, <3>2, <4>1, <4>2, <4>3, ClosedWork DEF r, r2
        <4>5. QED
          BY <4>4 DEF Closed, r2
      <3>4. CASE n.mode = "write"
        <4>1. Writes(r2) = Writes(r) /\ \A d \in Writes(r) : d # c => r2.snaps[d] = r.snaps[d]
          BY <1>7, <3>1, <3>4 DEF Turned, Writes
        <4>2. r \in TxRecs /\ c \in Writes(r) /\ ~r.snaps[c].loaded /\ r2.snaps[c].loaded
              /\ r2.snaps[c].local = r.snaps[c].local /\ r2.snaps[c].collDirty = r.snaps[c].collDirty
          BY <1>1, <1>3, <1>4, <1>5, <1>6, <3>1, <3>4
        <4>3. K[c].page = p
          BY <1>11 DEF Placed
        <4>4. \/ /\ K[c].page = NoPage
                 /\ r2.snaps[c].coll = r.snaps[c].coll /\ r2.snaps[c].body = r.snaps[c].body
              \/ /\ K[c].page # NoPage /\ K[c].body.kind = "coll" /\ K[c].page \notin K[c].body.pages
                 /\ r2.snaps[c].coll = K[c].page /\ r2.snaps[c].body = K[c].body
          <5>1. CASE p = NoPage /\ n = n1
            BY <1>5, <3>1, <4>3, <5>1
          <5>2. CASE p # NoPage /\ b.kind = "coll" /\ n = n2
            <6>1. b # Blank
              <7>1. Blank.kind # "coll"
                BY DEF Blank
              <7> HIDE DEF b
              <7>2. QED
                BY <5>2, <7>1
            <6>2. Latest(p) = b
              BY <1>1, <1>11, <3>1, <5>2, <6>1, FoundLatest
            <6>3. p \in Pages
              BY <1>3, <5>2, HeaderIs DEF Tables, Links
            <6>4. K[c].body = b
              BY <1>11, <5>2, <6>2, <6>3 DEF Placed, Store
            <6>5. K[c].body.kind = "coll" /\ K[c].page \notin K[c].body.pages
              BY <2>1, <4>3, <5>2 DEF Viewed
            <6>6. QED
              BY <1>5, <3>1, <4>3, <5>2, <6>4, <6>5
          <5>3. QED
            BY <1>4, <1>6, <3>4, <5>1, <5>2
        <4> HIDE DEF r, r2, s, p, b
        <4>5. Kept(K, logFile, r, r2, {})
          BY <2>2, <3>2, <4>1, <4>2, <4>4, LoadedWork DEF r, r2
        <4>6. QED
          BY <4>5 DEF Kept, r2
      <3>5. QED
        BY <1>4, <1>5, <2>4, <3>3, <3>4
    <2>5. QED
      BY <2>3, <2>4
  <1>12. s.mode = "write" => \A u \in Txs \ {t} : c \notin Writes(tx[u])
    BY <1>9 DEF Ownership, Settled, Shared, Takers
  <1> HIDE DEF s, p, b
  <1>13. QED
    BY <1>1, <1>2, <1>7, <1>8, <1>9, <1>11, <1>12, TurnedOwn

\* The views when nobody holds headerMu afterwards, and the store has not changed.
LEMMA PlacesSame ==
    ASSUME NEW h, NEW h2, NEW B, \A c \in Cols : h2.table[c] = h.table[c]
    PROVE  Places(h2, B) = Places(h, B)
  BY DEF Place, Places

\* When headerMu is free there is one view.
LEMMA FreeOwn ==
    ASSUME IInv, mu' = NoTx, SameLatest,
           Shared(header', Store, Places(header', Store), logFile', Txs, tx', faults' = 0),
           Visible', Calm'
    PROVE  Ownership'
  BY DEF SameLatest, Store, SettledHeader, Settled, Underway, Ownership

\* Nobody opens a snapshot for writing that was not open, and entries stay.
LEMMA VisibleStill ==
    ASSUME IInv, Visible, UNCHANGED index, \A c \in Cols : SettledHeader'.table[c] = SettledHeader.table[c],
           NEW t, \A u \in Txs \ {t} : tx'[u] = tx[u],
           t \in Txs => \A c \in Writes(tx'[t]) : ~tx'[t].snaps[c].loaded =>
               c \in Writes(tx[t]) /\ ~tx[t].snaps[c].loaded /\ tx'[t].snaps[c].version = tx[t].snaps[c].version
    PROVE  Visible'
  <1> SUFFICES ASSUME NEW u \in Txs, NEW d \in Cols, d \in Writes(tx'[u]), ~tx'[u].snaps[d].loaded,
                      SettledHeader.table[d] # NoPage, NEW e \in index[SettledHeader.table[d]]
               PROVE  e.version <= tx'[u].snaps[d].version
    BY DEF Visible
  <1>1. d \in Writes(tx[u]) /\ ~tx[u].snaps[d].loaded => e.version <= tx[u].snaps[d].version
    BY DEF Visible
  <1>2. CASE u # t
    BY <1>1, <1>2
  <1>3. CASE u = t
    BY <1>1, <1>3
  <1>4. QED
    BY <1>2, <1>3

\* A transaction that gives its collections back.
LEMMA OverOwn ==
    ASSUME IInv, Ownership, NEW t \in Txs, tx[t].st \in {"active", "aborting"},
           UNCHANGED <<fileVars, index, readVersion, header, mu, broken>>,
           \A u \in Txs \ {t} : tx'[u] = tx[u],
           Writes(tx'[t]) = {}, tx'[t].st # "active", tx'[t].newPages \in {<<>>, tx[t].newPages},
           faults' = 0 => faults = 0 /\ Took(tx'[t]) = Took(tx[t])
    PROVE  Ownership'
  <1>1. OneToOne(<<>>) /\ ToSet(<<>>) = {}
    BY EmptyMap DEF OneToOne, ToSet
  <1>2. Took(tx'[t]) \subseteq Took(tx[t])
    BY <1>1 DEF Took
  <1>3. ASSUME NEW h \in Headers, NEW B \in Stores, NEW K \in Catalogs, NEW T \in SUBSET Txs, t \in T,
               Shared(h, B, K, logFile, T, tx, faults = 0)
        PROVE  Shared(h, B, K, logFile, T, tx', faults' = 0)
    <2>1. OneToOne(tx'[t].newPages)
      BY <1>1, <1>3 DEF Shared, Takers
    <2>2. \A u \in Txs : Same(logFile, logFile, tx[u])
      BY DEF Same
    <2>3. Stands(K, logFile, logFile, T, tx, tx', t, faults = 0, faults' = 0)
      BY <1>2, <1>3, <2>1, <2>2 DEF Stands
    <2>4. QED
      BY <1>3, <2>3, GoesOn
  <1>4. SettledHeader' = SettledHeader
    BY SettledIs DEF SettledHeader
  <1>5. Visible'
    BY <1>4, VisibleStill DEF Ownership
  <1>6. Calm'
    BY DEF Calm, Ownership
  <1>7. tx[t].st \notin {"appended", "returning"}
    OBVIOUS
  <1>8. QED
    BY <1>3, <1>5, <1>6, <1>7, LocalOwn

\* A transaction that is over, or has released its collections, has none.
LEMMA Emptied ==
    /\ Writes(Idle) = {} /\ Idle.st = "idle" /\ Idle.newPages = <<>> /\ Took(Idle) = {}
    /\ \A r \in TxRecs : Writes(Released(r)) = {} /\ Released(r).st = "aborting"
                         /\ Released(r).newPages = r.newPages
  <1>1. \A c \in Cols : Idle.snaps[c].mode = "none"
    BY DEF Idle, NoSnap
  <1>2. Idle.newPages = <<>> /\ Idle.st = "idle"
    BY DEF Idle
  <1>3. ASSUME NEW r \in TxRecs
        PROVE  /\ \A c \in Cols : Released(r).snaps[c].mode = "none"
               /\ Released(r).st = "aborting" /\ Released(r).newPages = r.newPages
    BY DEF TxRecs, Released, NoSnap
  <1>4. Took(Idle) = {}
    BY <1>2, EmptyMap DEF Took, ToSet
  <1>5. QED
    BY <1>1, <1>2, <1>3, <1>4 DEF Writes

\* Finish leaves the transaction idle.
LEMMA FinishIs ==
    ASSUME IInv, NEW t \in Txs, Finish(t)
    PROVE  tx'[t] = Idle /\ \A u \in Txs \ {t} : tx'[u] = tx[u]
  BY DEF IInv, Typed, Finish

\* Without new pages nothing was taken.
LEMMA NothingTook == ASSUME NEW r, r.newPages = <<>> PROVE Took(r) = {}
  BY EmptyMap DEF Took, ToSet

\* Rolling back, with nothing to give back.
LEMMA RollbackOwn ==
    ASSUME IInv, Ownership, NEW t \in Txs, Rollback(t)
    PROVE  Ownership'
  BY FinishIs, NothingTook, Emptied, OverOwn DEF Rollback, Active, restVars, walVars

\* Giving up.
LEMMA GiveUpOwn ==
    ASSUME IInv, Ownership, NEW t \in Txs, GiveUp(t)
    PROVE  Ownership'
  BY FinishIs, Emptied, OverOwn DEF GiveUp, Ending, Active, restVars, walVars, Ownership, Calm

\* A transaction with nothing to write took no page.
LEMMA NothingToCommit ==
    ASSUME IInv, Ownership, NEW t \in Txs, tx[t].st = "active", CommitPages(tx[t]) = <<>>
    PROVE  tx[t].newPages = <<>>
  <1> SUFFICES ASSUME tx[t].newPages # <<>> PROVE FALSE
    OBVIOUS
  <1> DEFINE pages == collectDirty(Spliced(tx[t]))
  <1>1. PICK K : Works(K, logFile, tx[t])
    BY DEF Ownership, Settled, Shared
  <1>2. tx[t].headerChanged
    BY <1>1 DEF Works
  <1>3. CommitPages(tx[t]) = Append(pages, <<Header, CommitHeader(tx[t])>>)
    BY <1>2 DEF CommitPages
  <1>4. tx[t] \in TxRecs /\ Sound(tx[t]) /\ header \in Headers
    BY DEF IInv, Typed
  <1>5. pages \in Batches
    BY <1>4, SplicedIs, collectDirtyIs
  <1> HIDE DEF pages
  <1>6. Len(Append(pages, <<Header, CommitHeader(tx[t])>>)) = Len(pages) + 1 /\ Len(pages) \in Nat
    BY <1>5, AppendProperties, LenProperties DEF Batches
  <1>7. Len(<<>>) = 0
    OBVIOUS
  <1>8. QED
    BY <1>3, <1>6, <1>7

\* Committing nothing.
LEMMA CommitNothingOwn ==
    ASSUME IInv, Ownership, NEW t \in Txs, CommitNothing(t)
    PROVE  Ownership'
  <1>1. tx[t].st = "active" /\ UNCHANGED <<fileVars, index, readVersion, header, mu, broken>>
    BY DEF CommitNothing, CanLock, Active, walVars
  <1>2. tx[t] \in TxRecs /\ tx \in [Txs -> TxRecs] /\ faults \in Nat
    BY DEF IInv, Typed
  <1>3. CASE Finish(t) /\ (broken \/ CommitPages(tx[t]) = <<>>) /\ UNCHANGED faults
    BY <1>1, <1>3, FinishIs, NothingToCommit, NothingTook, Emptied, OverOwn DEF Ownership, Calm
  <1>4. CASE /\ UNCHANGED faults \/ Fault
             /\ tx' = [tx EXCEPT ![t] = IF tx[t].newPages = <<>> THEN Idle ELSE Released(tx[t])]
    BY <1>1, <1>2, <1>4, Emptied, OverOwn DEF Took, Fault
  <1>5. QED
    BY <1>3, <1>4 DEF CommitNothing

\* Beginning.
LEMMA BeginOwn ==
    ASSUME IInv, Ownership, NEW t \in Txs, Begin(t)
    PROVE  Ownership'
  <1> DEFINE i == lastTxID + 1
             r1 == [Idle EXCEPT !.st = "active"]
             r == [r1 EXCEPT !.id = i]
  <1>1. tx[t].st = "idle" /\ tx' = [tx EXCEPT ![t] = r]
        /\ UNCHANGED <<fileVars, index, readVersion, header, mu, broken, faults>>
    BY DEF Begin
  <1>2. tx \in [Txs -> TxRecs] /\ tx[t] = Idle
    BY <1>1 DEF IInv, Typed, Sound
  <1>3. /\ r.st = "active" /\ r.newPages = <<>> /\ r.dirty = <<>> /\ r.firstDelete = NoPage
        /\ r.lastDelete = NoPage /\ r.onCommit = <<>> /\ \A c \in Cols : r.snaps[c].mode = "none"
    BY DEF Idle, NoSnap
  <1> HIDE DEF r
  <1>4. tx'[t] = r /\ \A u \in Txs \ {t} : tx'[u] = tx[u]
    BY <1>1, <1>2
  <1>5. Writes(r) = {} /\ Took(r) = {} /\ DOMAIN r.dirty = {}
    BY <1>3, NothingTook, EmptyMap DEF Writes
  <1>6. ASSUME NEW h \in Headers, NEW B \in Stores, NEW K \in Catalogs, NEW T \in SUBSET Txs, t \in T,
               Shared(h, B, K, logFile, T, tx, faults = 0)
        PROVE  Shared(h, B, K, logFile, T, tx', faults' = 0)
    <2>1. OneToOne(tx'[t].newPages)
      BY <1>3, <1>4, EmptyMap DEF OneToOne
    <2>2. \A u \in Txs : Same(logFile, logFile, tx[u])
      BY DEF Same
    <2>3. Works(K, logFile, r)
      BY <1>3, <1>5, NoWork
    <2>4. Took(tx[t]) = {} /\ faults' = faults
      BY <1>1, <1>2, Emptied
    <2>5. Stands(K, logFile, logFile, T, tx, tx', t, faults = 0, faults' = 0)
      BY <1>4, <1>5, <2>1, <2>2, <2>3, <2>4 DEF Stands
    <2>6. QED
      BY <1>6, <2>5, GoesOn
  <1>7. SettledHeader' = SettledHeader
    BY <1>1, <1>4, SettledIs DEF SettledHeader
  <1>8. Visible'
    BY <1>1, <1>4, <1>5, <1>7, VisibleStill DEF Ownership
  <1>9. Calm'
    BY <1>1, <1>3, <1>4 DEF Calm, Ownership
  <1>10. tx[t].st \notin {"appended", "returning"}
    BY <1>1
  <1>11. QED
    BY <1>1, <1>4, <1>6, <1>8, <1>9, <1>10, LocalOwn

\* An open transaction changes what it has in memory of one collection.
LEMMA ChangedOwn ==
    ASSUME IInv, Ownership, NEW t \in Txs, tx[t].st = "active", NEW c \in Cols,
           UNCHANGED <<fileVars, index, readVersion, header, mu, broken, faults>>,
           \A u \in Txs \ {t} : tx'[u] = tx[u], tx'[t].st = "active",
           tx'[t].newPages = tx[t].newPages, Writes(tx'[t]) = Writes(tx[t]),
           \A d \in Cols \ {c} : tx'[t].snaps[d] = tx[t].snaps[d], tx'[t].snaps[c].loaded,
           \A K \in Catalogs : Works(K, logFile, tx[t]) => Works(K, logFile, tx'[t])
    PROVE  Ownership'
  <1>1. Took(tx'[t]) = Took(tx[t])
    BY DEF Took
  <1>2. ASSUME NEW h \in Headers, NEW B \in Stores, NEW K \in Catalogs, NEW T \in SUBSET Txs, t \in T,
               Shared(h, B, K, logFile, T, tx, faults = 0)
        PROVE  Shared(h, B, K, logFile, T, tx', faults' = 0)
    <2>1. OneToOne(tx'[t].newPages) /\ Works(K, logFile, tx'[t])
          /\ \A u \in T \ {t} : Writes(tx'[t]) \cap Writes(tx[u]) = {}
      BY <1>2 DEF Shared, Takers
    <2>2. \A u \in Txs : Same(logFile, logFile, tx[u])
      BY DEF Same
    <2>3. faults' = faults
      OBVIOUS
    <2>4. Stands(K, logFile, logFile, T, tx, tx', t, faults = 0, faults' = 0)
      BY <1>1, <2>1, <2>2, <2>3 DEF Stands
    <2>5. QED
      BY <1>2, <2>4, GoesOn
  <1>3. SettledHeader' = SettledHeader
    BY SettledIs DEF IInv, Mutex, SettledHeader
  <1>4. \A d \in Writes(tx'[t]) : ~tx'[t].snaps[d].loaded =>
            d \in Writes(tx[t]) /\ ~tx[t].snaps[d].loaded /\ tx'[t].snaps[d].version = tx[t].snaps[d].version
    BY DEF Writes
  <1>5. Visible'
    BY <1>3, <1>4, VisibleStill DEF Ownership
  <1>6. Calm'
    BY DEF Calm, Ownership
  <1>7. tx[t].st \notin {"appended", "returning"}
    OBVIOUS
  <1>8. QED
    BY <1>2, <1>5, <1>6, <1>7, LocalOwn

\* A deleted page comes first.
ChainedAs(r, q, c, p) ==
    /\ q \in TxRecs /\ q.snaps = r.snaps /\ q.st = r.st /\ q.id = r.id /\ q.dirty = r.dirty /\ q.newPages = r.newPages
    /\ q.firstDelete = p /\ q.headerChanged /\ q.onCommit = r.onCommit
    /\ q.lastDelete = IF r.firstDelete = NoPage THEN p ELSE r.lastDelete
    /\ q.lastDeleteColl = IF r.firstDelete = NoPage THEN c ELSE r.lastDeleteColl

\* Chained is that.
LEMMA ChainedTo ==
    ASSUME NEW r \in TxRecs, Sound(r), r.st # "idle", NEW c \in Cols, NEW p \in Pages
    PROVE  ChainedAs(r, Chained(r, c, p), c, p)
  <1> DEFINE first == IF r.firstDelete = NoPage THEN p ELSE r.lastDelete
             coll == IF r.firstDelete = NoPage THEN c ELSE r.lastDeleteColl
             r1 == [r EXCEPT !.firstDelete = p]
             r2 == [r1 EXCEPT !.lastDelete = first]
             r3 == [r2 EXCEPT !.lastDeleteColl = coll]
             r4 == [r3 EXCEPT !.headerChanged = TRUE]
  <1>1. Chained(r, c, p) = r4
    BY DEF TxRecs, Chained
  <1>2. r4 \in TxRecs
    BY <1>1, ChainedIs
  <1>3. /\ r4.snaps = r.snaps /\ r4.st = r.st /\ r4.id = r.id /\ r4.dirty = r.dirty /\ r4.newPages = r.newPages
        /\ r4.firstDelete = p /\ r4.headerChanged /\ r4.onCommit = r.onCommit
        /\ r4.lastDelete = first /\ r4.lastDeleteColl = coll
    BY DEF TxRecs
  <1> HIDE DEF r4
  <1>4. QED
    BY <1>1, <1>2, <1>3 DEF ChainedAs

\* One snapshot of it in another way.
LEMMA TurnedBy ==
    ASSUME NEW q \in TxRecs, NEW c \in Cols, NEW n, NEW r2, r2 = [q EXCEPT !.snaps[c] = n]
    PROVE  Turned(q, r2, c, n)
  BY TxIs DEF TxRecs, Turned

\* Deleting a page.
LEMMA ShrinkOwn ==
    ASSUME IInv, Ownership, NEW t \in Txs, NEW c \in Cols, NEW p \in Pages, Shrink(t, c, p)
    PROVE  Ownership' /\ Stays(t)
  <1> DEFINE s == tx[t].snaps[c]
             local == Put(s.local, p, Empty(tx[t].firstDelete))
             body == Coll(s.body.pages \ {p})
             s1 == [s EXCEPT !.body = body]
             s2 == [s1 EXCEPT !.collDirty = TRUE]
             n == [s2 EXCEPT !.local = local]
             q == Chained(tx[t], c, p)
             r2 == [q EXCEPT !.snaps[c] = n]
  <1>1. /\ tx[t].st = "active" /\ UNCHANGED <<fileVars, index, readVersion, header, mu, broken, faults>>
        /\ s.mode = "write" /\ s.loaded /\ s.body.kind = "coll" /\ p \in s.body.pages
    BY DEF Shrink, Active, Writable, restVars, walVars
  <1>2. tx[t] \in TxRecs /\ Sound(tx[t]) /\ s \in Snaps /\ tx \in [Txs -> TxRecs]
    BY TxIs DEF IInv, Typed
  <1>3. tx' = [tx EXCEPT ![t] = r2]
    BY <1>2 DEF Shrink
  <1> HIDE DEF local, body
  <1>4. n.mode = s.mode /\ n.loaded = s.loaded /\ n.coll = s.coll /\ n.body = body /\ n.collDirty /\ n.local = local
    BY <1>2 DEF Snaps
  <1> HIDE DEF n
  <1>5. ChainedAs(tx[t], q, c, p)
    BY <1>1, <1>2, ChainedTo
  <1> HIDE DEF q
  <1>6. Turned(q, r2, c, n)
    BY <1>5, TurnedBy DEF ChainedAs
  <1> HIDE DEF r2
  <1>7. tx'[t] = r2 /\ \A u \in Txs \ {t} : tx'[u] = tx[u]
    BY <1>2, <1>3
  <1> DEFINE r == tx[t]
  <1>8. /\ r2.st = r.st /\ r2.id = r.id /\ r2.dirty = r.dirty /\ r2.newPages = r.newPages /\ r2.onCommit = r.onCommit
        /\ r2.firstDelete = p /\ r2.headerChanged
        /\ r2.lastDelete = IF r.firstDelete = NoPage THEN p ELSE r.lastDelete
        /\ r2.lastDeleteColl = IF r.firstDelete = NoPage THEN c ELSE r.lastDeleteColl
        /\ r2.snaps[c] = n /\ \A d \in Cols \ {c} : r2.snaps[d] = r.snaps[d]
    BY <1>5, <1>6 DEF ChainedAs, Turned
  <1>9. Writes(r2) = Writes(r) /\ c \in Writes(r) /\ \A d \in Writes(r) : d # c => r2.snaps[d] = r.snaps[d]
    BY <1>1, <1>4, <1>8 DEF Writes
  <1>10. /\ r \in TxRecs /\ r.snaps[c].loaded /\ r.snaps[c].body.kind = "coll" /\ p \in r.snaps[c].body.pages
         /\ r2.snaps[c].loaded /\ r2.snaps[c].coll = r.snaps[c].coll
         /\ r2.snaps[c].body = Coll(r.snaps[c].body.pages \ {p}) /\ r2.snaps[c].collDirty
         /\ r2.snaps[c].local = Put(r.snaps[c].local, p, Empty(r.firstDelete))
    BY <1>1, <1>2, <1>4, <1>8 DEF local, body
  <1> HIDE DEF r, s
  <1>11. ASSUME NEW K \in Catalogs, Works(K, logFile, r) PROVE Works(K, logFile, r2)
    BY <1>8, <1>9, <1>10, <1>11, ShrunkWork DEF Kept
  <1>12. Ownership'
    BY <1>1, <1>7, <1>8, <1>9, <1>10, <1>11, ChangedOwn DEF r
  <1>13. QED
    BY <1>7, <1>8, <1>12 DEF Stays, r

\* Dropping a collection.
LEMMA DropOwn ==
    ASSUME IInv, Ownership, NEW t \in Txs, NEW c \in Cols, Drop(t, c)
    PROVE  Ownership' /\ Stays(t)
  <1> DEFINE s == tx[t].snaps[c]
             body == Empty(tx[t].firstDelete)
             s1 == [s EXCEPT !.body = body]
             n == [s1 EXCEPT !.collDirty = TRUE]
             op == [op |-> "drop", col |-> c, page |-> NoPage]
             q == Chained(tx[t], c, s.coll)
             q1 == [q EXCEPT !.snaps[c] = n]
             r2 == [q1 EXCEPT !.onCommit = Append(q1.onCommit, op)]
  <1>1. /\ tx[t].st = "active" /\ UNCHANGED <<fileVars, index, readVersion, header, mu, broken, faults>>
        /\ s.mode = "write" /\ s.loaded /\ s.body.kind = "coll" /\ s.body.pages = {} /\ tx[t].firstDelete # NoPage
    BY DEF Drop, Active, Writable, restVars, walVars
  <1>2. tx[t] \in TxRecs /\ Sound(tx[t]) /\ s \in Snaps /\ tx \in [Txs -> TxRecs]
    BY TxIs DEF IInv, Typed
  <1>3. s.coll \in Pages
    BY <1>1, <1>2 DEF Sound
  <1>4. ChainedAs(tx[t], q, c, s.coll)
    BY <1>1, <1>2, <1>3, ChainedTo
  <1>5. tx' = [tx EXCEPT ![t] = r2]
    BY <1>2, <1>4 DEF Drop, ChainedAs
  <1> HIDE DEF body
  <1>6. n.mode = s.mode /\ n.loaded = s.loaded /\ n.coll = s.coll /\ n.body = body /\ n.collDirty /\ n.local = s.local
    BY <1>2 DEF Snaps
  <1>7. n \in Snaps
    BY <1>2, TxIs, BodiesAre, SnapIs DEF body
  <1> HIDE DEF n, q
  <1>8. Turned(q, q1, c, n)
    BY <1>4, TurnedBy DEF ChainedAs
  <1>9. q1 \in TxRecs
    BY <1>1, <1>2, <1>3, <1>6, <1>7, ChainedIs, EditedIs DEF q
  <1> HIDE DEF q1, op
  <1>10. /\ r2.snaps = q1.snaps /\ r2.st = q1.st /\ r2.id = q1.id /\ r2.dirty = q1.dirty /\ r2.newPages = q1.newPages
         /\ r2.firstDelete = q1.firstDelete /\ r2.headerChanged = q1.headerChanged
         /\ r2.onCommit = Append(q1.onCommit, op)
         /\ r2.lastDelete = q1.lastDelete /\ r2.lastDeleteColl = q1.lastDeleteColl
    BY <1>9 DEF TxRecs
  <1> HIDE DEF r2
  <1>11. tx'[t] = r2 /\ \A u \in Txs \ {t} : tx'[u] = tx[u]
    BY <1>2, <1>5
  <1> DEFINE r == tx[t]
  <1>12. /\ r2.st = r.st /\ r2.id = r.id /\ r2.dirty = r.dirty /\ r2.newPages = r.newPages
         /\ r2.onCommit = Append(r.onCommit, op)
         /\ r2.firstDelete = r.snaps[c].coll /\ r2.headerChanged
         /\ r2.lastDelete = IF r.firstDelete = NoPage THEN s.coll ELSE r.lastDelete
         /\ r2.lastDeleteColl = IF r.firstDelete = NoPage THEN c ELSE r.lastDeleteColl
         /\ r2.snaps[c] = n /\ \A d \in Cols \ {c} : r2.snaps[d] = r.snaps[d]
    BY <1>4, <1>8, <1>10 DEF ChainedAs, Turned
  <1>13. Writes(r2) = Writes(r) /\ c \in Writes(r) /\ \A d \in Writes(r) : d # c => r2.snaps[d] = r.snaps[d]
    BY <1>1, <1>6, <1>12 DEF Writes
  <1>14. /\ r \in TxRecs /\ r.snaps[c].loaded /\ r.snaps[c].body.kind = "coll" /\ r.snaps[c].body.pages = {}
         /\ r.firstDelete # NoPage
         /\ r2.snaps[c].loaded /\ r2.snaps[c].coll = r.snaps[c].coll
         /\ r2.snaps[c].body = Empty(r.firstDelete) /\ r2.snaps[c].collDirty
         /\ r2.snaps[c].local = r.snaps[c].local
         /\ r2.lastDelete = r.lastDelete /\ r2.lastDeleteColl = r.lastDeleteColl
    BY <1>1, <1>2, <1>6, <1>12 DEF body
  <1> HIDE DEF r, s
  <1>15. ASSUME NEW K \in Catalogs, Works(K, logFile, r) PROVE Works(K, logFile, r2)
    BY <1>12, <1>13, <1>14, <1>15, DroppedWork DEF op, Kept
  <1>16. Ownership'
    BY <1>1, <1>11, <1>12, <1>13, <1>14, <1>15, ChangedOwn DEF r
  <1>17. QED
    BY <1>11, <1>12, <1>16 DEF Stays, r

\* Appending a page to a list.
LEMMA AppendSet ==
    ASSUME NEW s \in Seq(Pages), NEW a \in Pages
    PROVE  ToSet(Append(s, a)) = ToSet(s) \cup {a}
  <1> DEFINE n == Len(s)
             q == Append(s, a)
  <1>1. n \in Nat /\ DOMAIN s = 1 .. n
    BY LenProperties
  <1>2. /\ Len(q) = n + 1 /\ q \in Seq(Pages) /\ q[n + 1] = a
        /\ \A i \in 1 .. n : q[i] = s[i]
    BY AppendProperties
  <1>3. DOMAIN q = 1 .. n + 1
    BY <1>2, LenProperties
  <1> HIDE DEF q, n
  <1>4. 1 .. n + 1 = (1 .. n) \cup {n + 1} /\ n + 1 \notin 1 .. n
    BY <1>1
  <1>5. QED
    BY <1>1, <1>2, <1>3, <1>4 DEF ToSet, q

\* No page twice, still.
LEMMA AppendOne ==
    ASSUME NEW s \in Seq(Pages), OneToOne(s), NEW a \in Pages, a \notin ToSet(s)
    PROVE  OneToOne(Append(s, a)) /\ ToSet(Append(s, a)) = ToSet(s) \cup {a}
  <1> DEFINE n == Len(s)
             q == Append(s, a)
  <1>1. n \in Nat /\ DOMAIN s = 1 .. n
    BY LenProperties
  <1>2. /\ Len(q) = n + 1 /\ q \in Seq(Pages) /\ q[n + 1] = a
        /\ \A i \in 1 .. n : q[i] = s[i]
    BY AppendProperties
  <1>3. DOMAIN q = 1 .. n + 1
    BY <1>2, LenProperties
  <1> HIDE DEF q, n
  <1>4. 1 .. n + 1 = (1 .. n) \cup {n + 1} /\ n + 1 \notin 1 .. n
    BY <1>1
  <1>5. \A i \in 1 .. n : s[i] \in ToSet(s)
    BY <1>1 DEF ToSet
  <1>6. OneToOne(q)
    BY <1>1, <1>2, <1>3, <1>4, <1>5 DEF OneToOne
  <1>7. QED
    BY <1>6, AppendSet DEF q

\* An empty page says which one comes next.
LEMMA EmptyBody == ASSUME NEW b \in Bodies, b.kind = "empty" PROVE b = Empty(b.next) /\ b # Blank
  BY DEF Bodies, Empty, Blank

\* The page NewPage takes is the first of the settled free list, or a new one.
AllocTakes(h, h2, B, a) == Fresh(h, h2, B, a) /\ h2.table = h.table

\* The first of the free list, as the transaction reads it, is the first as it is.
LEMMA AllocTakesIt ==
    ASSUME IInv, Ownership, mu = NoTx, NEW t \in Txs, tx[t].st = "active", NEW c \in Writes(tx[t]),
           Alloc(t, c).page # NoPage
    PROVE  AllocTakes(header, Alloc(t, c).header, Store, Alloc(t, c).page)
  <1> DEFINE K == Places(header, Store)
             body == getPage(t, c, header.free, TRUE)
  <1>1. SettledHeader = header /\ header \in Headers /\ c \in Cols /\ Typed
    BY SettledIs DEF SettledHeader, Writes, IInv
  <1>2. header.free \in Links /\ header.last \in Pages
    BY <1>1, HeaderIs
  <1>3. Works(K, logFile, tx[t]) /\ \E fs \in Seq(Pages) : FreeList(header, Store, K, Txs, tx, faults = 0, fs)
    BY <1>1 DEF Ownership, Settled, Shared
  <1>4. CASE header.free # NoPage
    <2> DEFINE p == header.free
    <2>1. p \in Pages
      BY <1>2, <1>4 DEF Links
    <2>2. body.kind = "empty" /\ Alloc(t, c).page = p /\ Alloc(t, c).header = [header EXCEPT !.free = body.next]
      BY <1>4 DEF Alloc
    <2>3. body \in Bodies
      BY <1>1, <2>1, getPageIs
    <2> HIDE DEF K
    <2>4. p \notin Mine(K, tx[t])
      <3>1. PICK fs \in Seq(Pages) : FreeList(header, Store, K, Txs, tx, faults = 0, fs)
        BY <1>3
      <3>2. p = First(fs, NoPage)
        BY <3>1 DEF FreeList
      <3>3. First(fs, NoPage) \in {NoPage} \cup ToSet(fs)
        BY LastIsOne
      <3>4. p \in ToSet(fs)
        BY <1>4, <3>2, <3>3
      <3>5. p \notin Took(tx[t]) /\ \A d \in Cols : p \notin Of(K, d)
        BY <3>1, <3>4 DEF FreeList
      <3>6. QED
        BY <3>5 DEF Mine, Writes
    <2>5. p \notin DOMAIN tx[t].snaps[c].local /\ p \notin DOMAIN tx[t].dirty
      BY <1>3, <2>4 DEF Works, Changed, Spills
    <2>6. body = readAt(p, readVersion)
      BY <2>5 DEF getPage
    <2> HIDE DEF body
    <2>7. body = Empty(body.next) /\ body # Blank
      BY <2>2, <2>3, EmptyBody
    <2>8. Latest(p) = body
      BY <2>6, <2>7 DEF Latest, Readable
    <2>9. Store[p] = Empty(body.next)
      BY <2>1, <2>7, <2>8 DEF Store
    <2>10. /\ Alloc(t, c).header.free = body.next /\ Alloc(t, c).header.last = header.last
           /\ Alloc(t, c).header.table = header.table
      BY <1>1, <2>2 DEF Headers
    <2>11. QED
      BY <1>4, <2>1, <2>2, <2>9, <2>10 DEF AllocTakes, Fresh
  <1>5. CASE header.free = NoPage
    BY <1>1, <1>2, <1>5, BoundsAssumption DEF Alloc, Pages, Headers, AllocTakes, Fresh
  <1>6. QED
    BY <1>4, <1>5

\* A transaction takes a page: by both views of the store it is nobody's.
LEMMA TakenOwn ==
    ASSUME IInv, Ownership, mu = NoTx, NEW t \in Txs, tx[t].st = "active", NEW c \in Writes(tx[t]),
           NEW a, a = Alloc(t, c).page, a # NoPage, header' = Alloc(t, c).header, UNCHANGED restVars,
           \A u \in Txs \ {t} : tx'[u] = tx[u],
           tx'[t].newPages = Append(tx[t].newPages, a), Writes(tx'[t]) = Writes(tx[t]),
           \A d \in Cols \ {c} : tx'[t].snaps[d] = tx[t].snaps[d], tx'[t].snaps[c].loaded,
           tx'[t].st = "active",
           \A K \in Catalogs : Works(K, logFile, tx[t]) /\ a \notin Mine(K, tx[t])
                               /\ K[c].page = header.table[c] => Works(K, logFile, tx'[t])
    PROVE  Ownership'
  <1> DEFINE K == Places(header, Store)
             h2 == Alloc(t, c).header
  <1>1. SettledHeader = header /\ header \in Headers /\ c \in Cols /\ Typed
    BY SettledIs DEF SettledHeader, Writes, IInv
  <1>2. AllocTakes(header, h2, Store, a)
    BY AllocTakesIt
  <1> HIDE DEF h2
  <1>3. Shared(header, Store, K, logFile, Txs, tx, faults = 0)
    BY <1>1 DEF Ownership, Settled
  <1>4. Fresh(header, h2, Store, a) /\ h2.table = header.table /\ a \in Pages
    BY <1>2 DEF AllocTakes, Fresh
  <1>5. header.last \in Nat
    BY <1>1, HeaderIs, PageIds
  <1>6. K \in Catalogs /\ K[c].page = header.table[c]
    BY <1>1, StoreIs, CatalogIs, PlacesAre DEF Placed
  <1> HIDE DEF K
  <1>7. Unused(K, Txs, tx, a)
    BY <1>3, <1>4, <1>5, NobodyHasIt
  <1>8. a \notin Mine(K, tx[t]) /\ a \notin Took(tx[t])
    BY <1>7 DEF Unused, Mine, Writes
  <1>9. Works(K, logFile, tx'[t])
    BY <1>3, <1>6, <1>8 DEF Shared
  <1>10. OneToOne(tx'[t].newPages) /\ Took(tx'[t]) = Took(tx[t]) \cup {a}
    <2>1. tx[t].newPages \in Seq(Pages)
      BY <1>1, TxIs DEF Typed
    <2>2. OneToOne(tx[t].newPages)
      BY <1>3 DEF Shared, Takers
    <2>3. QED
      BY <1>4, <1>8, <2>1, <2>2, AppendOne DEF Took
  <1>11. Takes(K, logFile, Txs, tx, tx', t, a)
    BY <1>9, <1>10 DEF Takes
  <1>12. Shared(h2, Store, K, logFile, Txs, tx', faults = 0)
    BY <1>3, <1>4, <1>5, <1>11, OneTakesIt
  <1>13. Places(h2, Store) = K
    BY <1>4, PlacesSame DEF K
  <1>14. /\ header' = h2 /\ logFile' = logFile /\ faults' = faults /\ mu' = NoTx /\ broken' = broken
         /\ dataFile' = dataFile /\ index' = index /\ readVersion' = readVersion
    BY DEF restVars, fileVars, walVars, h2
  <1>15. Shared(header', Store, Places(header', Store), logFile', Txs, tx', faults' = 0)
    BY <1>12, <1>13, <1>14
  <1>16. SameLatest
    BY <1>14 DEF SameLatest, Latest, Readable, readAt, readLog, LookupVersion
  <1>17. SettledHeader'.table = SettledHeader.table
    BY <1>1, <1>4, <1>14 DEF SettledHeader
  <1>18. \A d \in Writes(tx'[t]) : ~tx'[t].snaps[d].loaded =>
            d \in Writes(tx[t]) /\ ~tx[t].snaps[d].loaded /\ tx'[t].snaps[d].version = tx[t].snaps[d].version
    BY DEF Writes
  <1>19. Visible'
    BY <1>14, <1>17, <1>18, VisibleStill DEF Ownership
  <1>20. Calm'
    BY <1>14 DEF Calm, Ownership
  <1>21. QED
    BY <1>14, <1>15, <1>16, <1>19, <1>20, FreeOwn

\* A collection grows.
LEMMA GrowOwn ==
    ASSUME IInv, Ownership, NEW t \in Txs, NEW c \in Cols, Grow(t, c)
    PROVE  Ownership' /\ Stays(t)
  <1> DEFINE a == Alloc(t, c).page
             s == tx[t].snaps[c]
             body == Coll(s.body.pages \cup {a})
             local == Put(s.local, a, Data(tx[t].id))
             s1 == [s EXCEPT !.body = body]
             s2 == [s1 EXCEPT !.collDirty = TRUE]
             n == [s2 EXCEPT !.local = local]
             snaps == [tx[t].snaps EXCEPT ![c] = n]
             r1 == [tx[t] EXCEPT !.snaps = snaps]
             pages == Append(tx[t].newPages, a)
             r2 == [r1 EXCEPT !.newPages = pages]
             r == [r2 EXCEPT !.headerChanged = TRUE]
  <1>1. /\ tx[t].st = "active" /\ mu = NoTx /\ UNCHANGED restVars /\ header' = Alloc(t, c).header /\ a # NoPage
        /\ s.mode = "write" /\ s.loaded /\ s.body.kind = "coll" /\ c \in Writes(tx[t])
    BY DEF Grow, CanLock, Active, Writable, Writes
  <1>2. tx[t] \in TxRecs /\ s \in Snaps /\ tx \in [Txs -> TxRecs] /\ tx[t].snaps \in [Cols -> Snaps] /\ Typed
    BY TxIs DEF IInv, Typed
  <1>3. tx' = [tx EXCEPT ![t] = r]
    BY <1>2 DEF Grow
  <1>4. a \in Pages
    BY <1>1, <1>2, AllocIs DEF Links
  <1> HIDE DEF a, body, local, pages
  <1>5. n.mode = s.mode /\ n.loaded = s.loaded /\ n.coll = s.coll /\ n.body = body /\ n.collDirty /\ n.local = local
    BY <1>2 DEF Snaps
  <1> HIDE DEF n
  <1>6. snaps[c] = n /\ \A d \in Cols \ {c} : snaps[d] = tx[t].snaps[d]
    BY <1>2
  <1> HIDE DEF snaps
  <1>7. /\ r.st = tx[t].st /\ r.id = tx[t].id /\ r.dirty = tx[t].dirty /\ r.newPages = pages /\ r.snaps = snaps
        /\ r.firstDelete = tx[t].firstDelete /\ r.headerChanged /\ r.onCommit = tx[t].onCommit
        /\ r.lastDelete = tx[t].lastDelete /\ r.lastDeleteColl = tx[t].lastDeleteColl
    BY <1>2 DEF TxRecs
  <1> HIDE DEF r
  <1>8. tx'[t] = r /\ \A u \in Txs \ {t} : tx'[u] = tx[u]
    BY <1>2, <1>3
  <1> DEFINE r0 == tx[t]
  <1>9. Writes(r) = Writes(r0) /\ \A d \in Writes(r0) : d # c => r.snaps[d] = r0.snaps[d]
    BY <1>1, <1>5, <1>6, <1>7 DEF Writes
  <1>10. /\ r0 \in TxRecs /\ c \in Writes(r0) /\ r0.snaps[c].loaded /\ r0.snaps[c].body.kind = "coll"
         /\ r.snaps[c].loaded /\ r.snaps[c].coll = r0.snaps[c].coll
         /\ r.snaps[c].body = Coll(r0.snaps[c].body.pages \cup {a})
         /\ r.snaps[c].collDirty
         /\ \A d \in Cols \ {c} : r.snaps[d] = r0.snaps[d]
    BY <1>1, <1>2, <1>5, <1>6, <1>7 DEF body
  <1>11. PICK b : b # Blank /\ r.snaps[c].local = Put(r0.snaps[c].local, a, b)
    BY <1>5, <1>6, <1>7 DEF Data, Blank, local
  <1>12. r.newPages = Append(r0.newPages, a)
    BY <1>7 DEF pages
  <1> HIDE DEF r0, s
  <1>13. ASSUME NEW K \in Catalogs, Works(K, logFile, r0), a \notin Mine(K, r0)
         PROVE  Works(K, logFile, r)
    <2>1. Took(r0) \cup {a} = Took(r)
      <3>1. r0.newPages \in Seq(Pages)
        BY <1>10, TxIs
      <3>2. ToSet(Append(r0.newPages, a)) = ToSet(r0.newPages) \cup {a}
        BY <1>4, <3>1, AppendSet
      <3>3. QED
        BY <1>12, <3>2 DEF Took
    <2>2. Kept(K, logFile, r0, r, {a})
      BY <1>4, <1>7, <1>9, <1>10, <1>11, <1>13, <2>1, GrownWork DEF r0
    <2>3. QED
      BY <2>2 DEF Kept
  <1>14. Ownership'
    BY <1>1, <1>7, <1>8, <1>9, <1>10, <1>12, <1>13, TakenOwn DEF r0, a
  <1>15. QED
    BY <1>7, <1>8, <1>14 DEF Stays

\* A collection is created.
LEMMA CreateOwn ==
    ASSUME IInv, Ownership, NEW t \in Txs, NEW c \in Cols, CreateCollection(t, c)
    PROVE  Ownership' /\ Stays(t)
  <1> DEFINE a == Alloc(t, c).page
             s == tx[t].snaps[c]
             s1 == [s EXCEPT !.loaded = TRUE]
             s2 == [s1 EXCEPT !.coll = a]
             s3 == [s2 EXCEPT !.body = Coll({})]
             n == [s3 EXCEPT !.collDirty = TRUE]
             snaps == [tx[t].snaps EXCEPT ![c] = n]
             op == [op |-> "add", col |-> c, page |-> a]
             pages == Append(tx[t].newPages, a)
             ops == Append(tx[t].onCommit, op)
             r1 == [tx[t] EXCEPT !.snaps = snaps]
             r2 == [r1 EXCEPT !.newPages = pages]
             r3 == [r2 EXCEPT !.headerChanged = TRUE]
             r == [r3 EXCEPT !.onCommit = ops]
  <1>1. /\ mu = NoTx /\ UNCHANGED restVars /\ header' = Alloc(t, c).header /\ a # NoPage
        /\ s.mode = "write" /\ s.coll = NoPage /\ header.table[c] = NoPage /\ c \in Writes(tx[t])
    BY DEF CreateCollection, Writes
  <1>2. tx[t] \in TxRecs /\ s \in Snaps /\ tx \in [Txs -> TxRecs] /\ tx[t].snaps \in [Cols -> Snaps] /\ Typed
    BY TxIs DEF IInv, Typed
  <1>3. tx[t].st = "active"
    BY <1>1, OpeningIs DEF Ownership, Calm
  <1>4. tx' = [tx EXCEPT ![t] = r]
    BY <1>2 DEF CreateCollection
  <1>5. a \in Pages
    BY <1>1, <1>2, AllocIs DEF Links
  <1> HIDE DEF a, pages, ops
  <1>6. n.mode = s.mode /\ n.loaded /\ n.coll = a /\ n.body = Coll({}) /\ n.collDirty /\ n.local = s.local
    BY <1>2 DEF Snaps
  <1> HIDE DEF n
  <1>7. snaps[c] = n /\ \A d \in Cols \ {c} : snaps[d] = tx[t].snaps[d]
    BY <1>2
  <1> HIDE DEF snaps
  <1>8. /\ r.st = tx[t].st /\ r.dirty = tx[t].dirty /\ r.newPages = pages /\ r.snaps = snaps
        /\ r.firstDelete = tx[t].firstDelete /\ r.headerChanged /\ r.onCommit = ops
        /\ r.lastDelete = tx[t].lastDelete /\ r.lastDeleteColl = tx[t].lastDeleteColl
    BY <1>2 DEF TxRecs
  <1>16. r.id = tx[t].id
    BY <1>2 DEF TxRecs
  <1> HIDE DEF r
  <1>9. tx'[t] = r /\ \A u \in Txs \ {t} : tx'[u] = tx[u]
    BY <1>2, <1>4
  <1> DEFINE r0 == tx[t]
  <1>10. Writes(r) = Writes(r0) /\ \A d \in Writes(r0) : d # c => r.snaps[d] = r0.snaps[d]
    BY <1>1, <1>6, <1>7, <1>8 DEF Writes
  <1>11. /\ r0 \in TxRecs /\ c \in Writes(r0) /\ r0.snaps[c].coll = NoPage
         /\ r.snaps[c].loaded /\ r.snaps[c].coll = a /\ r.snaps[c].body = Coll({}) /\ r.snaps[c].collDirty
         /\ r.snaps[c].local = r0.snaps[c].local
         /\ \A d \in Cols \ {c} : r.snaps[d] = r0.snaps[d]
    BY <1>1, <1>2, <1>6, <1>7, <1>8
  <1>12. r.newPages = Append(r0.newPages, a) /\ r.onCommit = Append(r0.onCommit, op)
    BY <1>8 DEF pages, ops
  <1> HIDE DEF r0, s
  <1>13. ASSUME NEW K \in Catalogs, Works(K, logFile, r0), a \notin Mine(K, r0), K[c].page = header.table[c]
         PROVE  Works(K, logFile, r)
    <2>1. Took(r0) \cup {a} = Took(r)
      <3>1. r0.newPages \in Seq(Pages)
        BY <1>11, TxIs
      <3>2. ToSet(Append(r0.newPages, a)) = ToSet(r0.newPages) \cup {a}
        BY <1>5, <3>1, AppendSet
      <3>3. QED
        BY <1>12, <3>2 DEF Took
    <2>2. K[c].page = NoPage
      BY <1>1, <1>13
    <2>3. Kept(K, logFile, r0, r, {a})
      BY <1>5, <1>8, <1>10, <1>11, <1>12, <1>13, <2>1, <2>2, CreatedWork DEF r0
    <2>4. QED
      BY <2>3 DEF Kept
  <1>14. Ownership'
    BY <1>1, <1>3, <1>8, <1>9, <1>10, <1>11, <1>12, <1>13, TakenOwn, SMTT(30) DEF r0, a
  <1>15. QED
    BY <1>8, <1>9, <1>14, <1>16 DEF Stays

\* No page goes to the log blank.
Bodied(q) ==
    \A c \in Writes(q) : /\ \A p \in DOMAIN q.snaps[c].local : q.snaps[c].local[p].body # Blank
                         /\ q.snaps[c].collDirty => q.snaps[c].body # Blank

\* What is in memory is not blank.
LEMMA WorksBodied == ASSUME NEW K, NEW log, NEW r, Works(K, log, r) PROVE Bodied(r)
  BY DEF Works, Changed, Opened, Bodied

\* Nor after the splice.
LEMMA SplicedBodied ==
    ASSUME NEW r, NEW q, NEW free, Bodied(r), Splices(r, q, free)
    PROVE  Bodied(q)
  <1>1. Empty(free) # Blank
    BY DEF Empty, Blank
  <1> SUFFICES ASSUME NEW c \in Writes(q)
               PROVE  /\ \A p \in DOMAIN q.snaps[c].local : q.snaps[c].local[p].body # Blank
                      /\ q.snaps[c].collDirty => q.snaps[c].body # Blank
    BY DEF Bodied
  <1>2. c \in Writes(r)
    BY DEF Splices
  <1>3. q.snaps[c].collDirty => q.snaps[c].body # Blank
    BY <1>2 DEF Splices, Bodied
  <1>4. \A p \in DOMAIN r.snaps[c].local : r.snaps[c].local[p].body # Blank
    BY <1>2 DEF Bodied
  <1>5. \/ PutEffect(q.snaps[c].local, r.snaps[c].local, r.lastDelete, Empty(free))
        \/ q.snaps[c].local = r.snaps[c].local
    BY <1>2 DEF Splices
  <1>6. \A p \in DOMAIN q.snaps[c].local : q.snaps[c].local[p].body # Blank
    BY <1>1, <1>4, <1>5 DEF PutEffect
  <1>7. QED
    BY <1>3, <1>6

\* Nor in the batch.
LEMMA BatchBodied ==
    ASSUME NEW q, Bodied(q), NEW pages \in Batches, Carries(pages, q), NEW id, NEW flag,
           NEW recs, recs = Marked(pages, id, flag)
    PROVE  \A i \in DOMAIN recs : recs[i].page # Header => recs[i].body # Blank
  <1>1. DOMAIN recs = DOMAIN pages /\ \A i \in DOMAIN pages : recs[i].page = pages[i][1] /\ recs[i].body = pages[i][2]
    BY MarkedAs
  <1> SUFFICES ASSUME NEW i \in DOMAIN pages, pages[i][1] # Header PROVE pages[i][2] # Blank
    BY <1>1
  <1>2. PICK c \in Writes(q) : pages[i] \in Dirtied(q.snaps[c])
    BY DEF Carries
  <1>3. \/ \E p \in DOMAIN q.snaps[c].local : pages[i] = <<p, q.snaps[c].local[p].body>>
        \/ q.snaps[c].collDirty /\ pages[i] = <<q.snaps[c].coll, q.snaps[c].body>>
    BY <1>2, DirtiedIs
  <1>4. \A x, y, b : b = <<x, y>> => b[2] = y
    OBVIOUS
  <1>5. \/ \E p \in DOMAIN q.snaps[c].local : pages[i][2] = q.snaps[c].local[p].body
        \/ q.snaps[c].collDirty /\ pages[i][2] = q.snaps[c].body
    BY <1>3, <1>4
  <1>6. QED
    BY <1>5 DEF Bodied

\* What was spilled stays where it was.
LEMMA SpillsSame ==
    ASSUME IInv, NEW recs \in Seq(Recs), NEW id \in Nat \ {0}, \A i \in DOMAIN recs : recs[i].tx = id,
           AppendLogPages(recs) \/ AppendFails(recs), NEW u \in Txs
    PROVE  Same(logFile, logFile', tx[u])
  BY AppendIs DEF IInv, SpillsTrue, OffsetsTrue, At, Same

\* A log that has not grown.
LEMMA LoggedUnmoved ==
    ASSUME Typed, NEW id, NEW offs \in OffsetMaps, OffsetsTrue(offs), Logged(id, offs),
           Unmoved(logFile, logFile', logEnd), logEnd' = logEnd, UNCHANGED index
    PROVE  Logged(id, offs)'
  BY OffsetMapIs DEF Unmoved, Logged, Gone, Typed, OffsetsTrue

\* Dropping the local pages.
DropsLocal(r, r2, offs) ==
    /\ r2.st = r.st /\ r2.newPages = r.newPages /\ r2.firstDelete = r.firstDelete /\ r2.lastDelete = r.lastDelete
    /\ r2.lastDeleteColl = r.lastDeleteColl /\ r2.onCommit = r.onCommit /\ r2.headerChanged = r.headerChanged
    /\ r2.id = r.id /\ r2.dirty = Over(offs, r.dirty)
    /\ Writes(r2) = Writes(r)
    /\ \A c \in Cols : /\ r2.snaps[c].local = <<>> /\ r2.snaps[c].loaded = r.snaps[c].loaded
                       /\ r2.snaps[c].coll = r.snaps[c].coll /\ r2.snaps[c].body = r.snaps[c].body
                       /\ r2.snaps[c].collDirty = r.snaps[c].collDirty
                       /\ r2.snaps[c].version = r.snaps[c].version

\* Dropped forgets the pages in memory and remembers where they are in the log.
LEMMA DroppedDrops ==
    ASSUME NEW r \in TxRecs, NEW recs
    PROVE  DropsLocal(r, Dropped(r, recs), Offsets(recs))
  <1> DEFINE dirty == Over(Offsets(recs), r.dirty)
             snaps == [c \in Cols |-> [r.snaps[c] EXCEPT !.local = <<>>]]
             r1 == [r EXCEPT !.dirty = dirty]
             r2 == [r1 EXCEPT !.snaps = snaps]
  <1>1. ASSUME NEW c \in Cols
        PROVE  /\ snaps[c].local = <<>> /\ snaps[c].loaded = r.snaps[c].loaded
               /\ snaps[c].coll = r.snaps[c].coll /\ snaps[c].body = r.snaps[c].body
               /\ snaps[c].collDirty = r.snaps[c].collDirty
               /\ snaps[c].version = r.snaps[c].version /\ snaps[c].mode = r.snaps[c].mode
    BY TxIs, ZenonT(60) DEF Snaps
  <1>2. Dropped(r, recs) = r2
    BY DEF Dropped
  <1> HIDE DEF dirty, snaps
  <1>3. /\ r2.st = r.st /\ r2.newPages = r.newPages /\ r2.firstDelete = r.firstDelete /\ r2.lastDelete = r.lastDelete
        /\ r2.lastDeleteColl = r.lastDeleteColl /\ r2.onCommit = r.onCommit /\ r2.headerChanged = r.headerChanged
        /\ r2.id = r.id /\ r2.dirty = dirty /\ r2.snaps = snaps
    BY DEF TxRecs
  <1> HIDE DEF r2
  <1>4. Writes(r2) = Writes(r)
    BY <1>1, <1>3 DEF Writes
  <1>5. DropsLocal(r, r2, Offsets(recs))
    BY <1>1, <1>3, <1>4 DEF DropsLocal, dirty
  <1>6. QED
    BY <1>2, <1>5

\* An open transaction writes what it has in memory, or fails to.
LEMMA SafepointGoesOn ==
    ASSUME IInv, IInv', Durable, Contents, Ownership, NEW t \in Txs, Safepoint(t)
    PROVE  Contents' /\ Ownership'
  <1>1. tx[t].st = "active" /\ mu = NoTx /\ \A c \in Writes(tx[t]) : tx[t].snaps[c].loaded
    BY DEF Safepoint, CanLock, Active, Opening, Writes
  <1>2. PICK id \in Nat \ {0} : id = tx[t].id
    BY <1>1, OpenIs
  <1> DEFINE pages == collectDirty(tx[t])
             recs == Marked(pages, id, FALSE)
             K == Places(header, Store)
  <1>3. /\ Typed /\ Typed' /\ tx[t] \in TxRecs /\ Sound(tx[t]) /\ tx \in [Txs -> TxRecs]
        /\ header \in Headers /\ logEnd \in Nat /\ OffsetsTrue(tx[t].dirty) /\ tx[t].dirty \in OffsetMaps
        /\ faults \in Nat
    BY <1>1, OpenIs DEF IInv, Typed
  <1>4. recs \in Seq(Recs) /\ (\A i \in DOMAIN recs : recs[i].tx = id) /\ pages \in Batches
    BY <1>3, collectDirtyIs, MarkedIs
  <1>5. /\ \/ AppendLogPages(recs) /\ tx' = [tx EXCEPT ![t] = Dropped(tx[t], recs)] /\ UNCHANGED faults
           \/ AppendFails(recs) /\ UNCHANGED tx
        /\ UNCHANGED <<dataFile, index, confirmed, readVersion, ckpt, mu, header, broken>>
    BY <1>2 DEF Safepoint, walVars
  <1>6. SettledHeader = header /\ Shared(header, Store, K, logFile, Txs, tx, faults = 0)
    BY <1>1 DEF Ownership, Settled, SettledHeader
  <1>7. Works(K, logFile, tx[t]) /\ Viewed(K, logFile, tx[t])
    BY <1>1, <1>3, <1>6, ViewIs DEF Shared
  <1> HIDE DEF K
  <1>8. Carries(pages, tx[t]) /\ OnlyDirtied(pages, tx[t]) /\ Bodied(tx[t]) /\ Apart(tx[t])
    BY <1>3, <1>7, collectDirtyHas, WorksBodied, WorksApart
  <1> HIDE DEF pages
  <1>9. \A i \in DOMAIN recs : recs[i].page # Header => recs[i].body # Blank
    BY <1>4, <1>8, BatchBodied
  <1>10. \A p \in DOMAIN Offsets(recs) : InMemory(tx[t], p)
    <2> SUFFICES ASSUME NEW p \in DOMAIN Offsets(recs) PROVE InMemory(tx[t], p)
      OBVIOUS
    <2>1. PICK i \in DOMAIN recs : recs[i].page = p
      BY DEF Offsets
    <2>2. i \in DOMAIN pages /\ pages[i][1] = p
      <3>1. PICK flag : flag = FALSE
        OBVIOUS
      <3>2. recs = Marked(pages, id, flag)
        BY <3>1
      <3> HIDE DEF recs
      <3>3. QED
        BY <1>4, <2>1, <3>2, MarkedAs
    <2>3. PICK c \in Writes(tx[t]) : pages[i] \in Dirtied(tx[t].snaps[c])
      BY <1>8, <2>2 DEF OnlyDirtied
    <2>4. \/ \E q \in DOMAIN tx[t].snaps[c].local : pages[i] = <<q, tx[t].snaps[c].local[q].body>>
          \/ tx[t].snaps[c].collDirty /\ pages[i] = <<tx[t].snaps[c].coll, tx[t].snaps[c].body>>
      BY <2>3, DirtiedIs
    <2>5. \A x, y, b : b = <<x, y>> => b[1] = x
      OBVIOUS
    <2>6. \/ p \in DOMAIN tx[t].snaps[c].local
          \/ tx[t].snaps[c].collDirty /\ p = tx[t].snaps[c].coll
      BY <2>2, <2>4, <2>5
    <2>7. QED
      BY <2>6 DEF InMemory
  <1> HIDE DEF recs
  <1>11. \A u \in Txs : Same(logFile, logFile', tx[u])
    BY <1>4, <1>5, SpillsSame
  <1>12. AppendLogPages(recs) \/ AppendFails(recs)
    BY <1>5
  <1>13. Appends(logFile, logEnd, logFile', logEnd', recs)
    BY <1>3, <1>4, <1>12, AppendsIs
  <1>14. Logged(id, tx[t].dirty)
    BY <1>1, <1>2 DEF Contents, LoggedAll
  <1>15. CASE AppendLogPages(recs) /\ tx' = [tx EXCEPT ![t] = Dropped(tx[t], recs)] /\ UNCHANGED faults
    <2>1. PICK f : f = Offsets(recs)
      OBVIOUS
    <2>2. f \in OffsetMaps
      BY <1>3, <1>4, <2>1, OffsetsIs
    <2>3. tx'[t] = Dropped(tx[t], recs) /\ \A u \in Txs \ {t} : tx'[u] = tx[u]
      BY <1>3, <1>15
    <2>4. DropsLocal(tx[t], tx'[t], f)
      BY <1>3, <2>1, <2>3, DroppedDrops
    <2>5. PICK offs : offs = Over(f, tx[t].dirty)
      OBVIOUS
    <2>6. DOMAIN offs = DOMAIN f \cup DOMAIN tx[t].dirty /\ (\A p \in DOMAIN f : offs[p] = f[p])
          /\ \A p \in DOMAIN tx[t].dirty \ DOMAIN f : offs[p] = tx[t].dirty[p]
      BY <1>3, <2>2, <2>5, OverOffsets
    <2>7. logEnd' = logEnd + Len(recs) /\ \A j \in 1 .. Len(recs) : logFile'[logEnd + j] = recs[j]
      BY <1>3, <1>4, <1>15, AppendIs
    <2>8. Logged(id, offs)'
      <3>1. PICK old : old = tx[t].dirty
        OBVIOUS
      <3>2. old \in OffsetMaps /\ OffsetsTrue(old) /\ Logged(id, old)
        BY <1>3, <1>14, <3>1
      <3>3. /\ DOMAIN offs = DOMAIN Offsets(recs) \cup DOMAIN old
            /\ \A p \in DOMAIN Offsets(recs) : offs[p] = Offsets(recs)[p]
            /\ \A p \in DOMAIN old \ DOMAIN Offsets(recs) : offs[p] = old[p]
        BY <2>1, <2>6, <3>1
      <3>4. UNCHANGED index /\ logEnd' = logEnd + Len(recs)
        BY <1>5, <2>7
      <3>5. QED
        BY <1>3, <1>4, <1>13, <3>2, <3>3, <3>4, LoggedMore, ZenonT(60)
    <2>9. tx'[t].id = id /\ tx'[t].dirty = offs /\ tx'[t].st = "active"
      BY <1>1, <1>2, <2>4, <2>5 DEF DropsLocal
    <2>10. Logged(tx[t].id, tx[t].dirty)'
      BY <2>8, <2>9 DEF Logged, Gone
    <2>11. tx'[t].st # "returning" /\ tx[t].st # "idle"
      BY <1>1, <2>9
    <2>12. Contents' /\ SameLatest
      BY <1>1, <1>2, <1>4, <1>5, <1>9, <1>12, <2>3, <2>10, <2>11, WriteContents
    <2>13. InLog(tx[t], f, logFile')
      BY <1>3, <1>4, <1>8, <2>1, <2>7, BatchInLog DEF recs
    <2> DEFINE r == tx[t]
               r2 == tx'[t]
    <2>14. /\ Writes(r2) = Writes(r)
           /\ \A c \in Writes(r) : /\ r2.snaps[c].local = <<>> /\ r2.snaps[c].loaded
                                   /\ r2.snaps[c].coll = r.snaps[c].coll
                                   /\ r2.snaps[c].body = r.snaps[c].body
                                   /\ r2.snaps[c].collDirty = r.snaps[c].collDirty
      BY <1>1, <2>4 DEF DropsLocal, Writes
    <2>15. /\ r2.dirty = Over(f, r.dirty) /\ r2.newPages = r.newPages /\ r2.firstDelete = r.firstDelete
           /\ r2.lastDelete = r.lastDelete /\ r2.lastDeleteColl = r.lastDeleteColl
           /\ r2.onCommit = r.onCommit /\ r2.headerChanged = r.headerChanged
      BY <2>4 DEF DropsLocal
    <2>16. /\ \A p \in DOMAIN f : InMemory(r, p)
           /\ \A c \in Writes(r) : \A p \in DOMAIN r.snaps[c].local :
                  p \in DOMAIN f /\ logFile'[f[p]].body = r.snaps[c].local[p].body
      BY <1>10, <2>1, <2>13 DEF InLog
    <2>17. /\ \A p \in DOMAIN r.dirty : logFile'[r.dirty[p]] = logFile[r.dirty[p]]
           /\ NoPage \notin Mine(K, r) /\ Works(K, logFile, r) /\ \A c \in Writes(r) : r.snaps[c].loaded
      BY <1>1, <1>7, <1>11 DEF Same, Viewed
    <2> HIDE DEF r, r2
    <2>18. Kept(K, logFile', r, r2, {})
      BY <2>14, <2>15, <2>16, <2>17, SpilledWork
    <2>19. Works(K, logFile', tx'[t])
      BY <2>18 DEF Kept, r2
    <2>20. Took(tx'[t]) = Took(tx[t]) /\ OneToOne(tx'[t].newPages) /\ Writes(tx'[t]) = Writes(tx[t])
           /\ \A u \in Txs \ {t} : Writes(tx[t]) \cap Writes(tx[u]) = {}
      BY <1>6, <2>14, <2>15 DEF Took, Shared, Takers, r, r2
    <2>21. Stands(K, logFile, logFile', Txs, tx, tx', t, faults = 0, faults' = 0)
      BY <1>11, <1>15, <2>3, <2>19, <2>20 DEF Stands
    <2>22. Shared(header, Store, K, logFile', Txs, tx', faults' = 0)
      BY <1>6, <2>21, GoesOn
    <2>23. Shared(header', Store, Places(header', Store), logFile', Txs, tx', faults' = 0)
      BY <1>5, <2>22 DEF K
    <2>24. SettledHeader' = SettledHeader
      BY <1>1, <1>5 DEF SettledHeader
    <2>25. \A c \in Writes(tx'[t]) : ~tx'[t].snaps[c].loaded =>
               c \in Writes(tx[t]) /\ ~tx[t].snaps[c].loaded /\ tx'[t].snaps[c].version = tx[t].snaps[c].version
      BY <2>4 DEF DropsLocal, Writes
    <2>26. Visible'
      BY <1>5, <2>3, <2>24, <2>25, VisibleStill DEF Ownership
    <2>27. Calm'
      BY <1>5, <1>15, <2>3, <2>9 DEF Calm, Ownership
    <2>28. Ownership'
      BY <1>1, <1>5, <2>12, <2>23, <2>26, <2>27, FreeOwn
    <2>29. QED
      BY <2>12, <2>28
  <1>16. CASE AppendFails(recs) /\ UNCHANGED tx
    <2>1. logEnd' = logEnd /\ faults' # 0
      BY <1>3, <1>16 DEF AppendFails, Fault
    <2>2. Unmoved(logFile, logFile', logEnd)
      BY <1>13, AppendsUnmoved
    <2>3. ASSUME NEW offs, offs = tx[t].dirty PROVE Logged(id, offs)'
      BY <1>3, <1>5, <1>14, <2>1, <2>2, <2>3, LoggedUnmoved
    <2>4. Logged(tx[t].id, tx[t].dirty)'
      <3>1. PICK offs : offs = tx[t].dirty
        OBVIOUS
      <3>2. Logged(id, offs)'
        BY <2>3, <3>1
      <3>3. tx'[t].id = id /\ tx'[t].dirty = offs
        BY <1>2, <1>16, <3>1
      <3>4. QED
        BY <3>2, <3>3 DEF Logged, Gone
    <2>5. tx'[t].st # "returning" /\ tx[t].st # "idle" /\ \A u \in Txs : tx'[u] = tx[u]
      BY <1>1, <1>16
    <2>6. Contents' /\ SameLatest
      BY <1>1, <1>2, <1>4, <1>5, <1>9, <1>12, <2>4, <2>5, WriteContents
    <2>7. \A u \in Txs : tx[u].st = "active" => Works(K, logFile', tx[u])
      BY <1>6, <1>11, StillWorks DEF Shared
    <2>8. /\ OneToOne(tx[t].newPages) /\ \A u \in Txs \ {t} : Writes(tx[t]) \cap Writes(tx[u]) = {}
      BY <1>6 DEF Shared, Takers
    <2>9. Stands(K, logFile, logFile', Txs, tx, tx', t, faults = 0, faults' = 0)
      BY <1>11, <2>1, <2>5, <2>7, <2>8 DEF Stands
    <2>10. Shared(header, Store, K, logFile', Txs, tx', faults' = 0)
      BY <1>6, <2>9, GoesOn
    <2>11. Shared(header', Store, Places(header', Store), logFile', Txs, tx', faults' = 0)
      BY <1>5, <2>10 DEF K
    <2>12. SettledHeader' = SettledHeader
      BY <1>1, <1>5 DEF SettledHeader
    <2>13. \A c \in Writes(tx'[t]) : ~tx'[t].snaps[c].loaded =>
               c \in Writes(tx[t]) /\ ~tx[t].snaps[c].loaded /\ tx'[t].snaps[c].version = tx[t].snaps[c].version
      BY <2>5
    <2>14. Visible'
      BY <1>5, <2>5, <2>12, <2>13, VisibleStill DEF Ownership
    <2>15. Calm'
      BY <2>1, <2>5 DEF Calm, Ownership
    <2>16. Ownership'
      BY <1>1, <1>5, <2>6, <2>11, <2>14, <2>15, FreeOwn
    <2>17. QED
      BY <2>6, <2>16
  <1>17. QED
    BY <1>5, <1>15, <1>16

\* A write that failed ends its transaction; the pages it took are lost.
LEMMA FailedEnd ==
    ASSUME IInv, IInv', Durable, Contents, Ownership, NEW t \in Txs, mu = NoTx, tx[t].st # "idle",
           NEW recs \in Seq(Recs), NEW id \in Nat \ {0}, \A i \in DOMAIN recs : recs[i].tx = id,
           id = tx[t].id \/ id = lastTxID + 1,
           \A i \in DOMAIN recs : recs[i].page # Header => recs[i].body # Blank,
           AppendFails(recs), Finish(t), UNCHANGED <<header, mu>>,
           UNCHANGED <<dataFile, index, confirmed, readVersion, ckpt>>
    PROVE  Contents' /\ Ownership'
  <1> DEFINE K == Places(header, Store)
  <1>1. Typed /\ faults \in Nat
    BY DEF IInv, Typed
  <1>2. logEnd' = logEnd /\ faults' # 0
    BY <1>1 DEF AppendFails, Fault
  <1>3. tx'[t] = Idle /\ \A u \in Txs \ {t} : tx'[u] = tx[u]
    BY FinishIs
  <1>4. tx'[t].st = "idle" /\ Writes(tx'[t]) = {} /\ Took(tx'[t]) = {} /\ tx'[t].newPages = <<>>
    BY <1>3, Emptied
  <1>5. Contents' /\ SameLatest
    BY <1>3, <1>4, WriteContents
  <1>6. SettledHeader = header /\ Shared(header, Store, K, logFile, Txs, tx, faults = 0)
    BY DEF Ownership, Settled, SettledHeader
  <1> HIDE DEF K
  <1>7. \A u \in Txs : Same(logFile, logFile', tx[u])
    BY SpillsSame
  <1>8. OneToOne(tx'[t].newPages)
    BY <1>4 DEF OneToOne
  <1>9. Stands(K, logFile, logFile', Txs, tx, tx', t, faults = 0, faults' = 0)
    BY <1>2, <1>3, <1>4, <1>7, <1>8 DEF Stands
  <1>10. Shared(header, Store, K, logFile', Txs, tx', faults' = 0)
    BY <1>6, <1>9, GoesOn
  <1>11. Shared(header', Store, Places(header', Store), logFile', Txs, tx', faults' = 0)
    BY <1>10 DEF K
  <1>12. SettledHeader' = SettledHeader
    BY DEF SettledHeader
  <1>13. Visible'
    BY <1>3, <1>4, <1>12, VisibleStill DEF Ownership
  <1>14. Calm'
    BY <1>2, <1>3, <1>4 DEF Calm, Ownership
  <1>15. Ownership'
    BY <1>5, <1>11, <1>13, <1>14, FreeOwn
  <1>16. QED
    BY <1>5, <1>15

\* The transaction that has written is the writer from now on.
LEMMA WriterOwn ==
    ASSUME IInv, IInv', Ownership, SameLatest, NEW t \in Txs, mu = NoTx, mu' = t,
           tx'[t].save = header, tx'[t].st # "active", tx[t].st # "idle",
           \A u \in Txs \ {t} : tx'[u] = tx[u], UNCHANGED <<index, faults, broken>>,
           Took(tx'[t]) = Took(tx[t]), OneToOne(tx'[t].newPages), Writes(tx'[t]) = Writes(tx[t]),
           tx'[t].st = "aborting" => Writes(tx'[t]) = {},
           \A c \in Writes(tx[t]) : ~tx'[t].snaps[c].loaded =>
               ~tx[t].snaps[c].loaded /\ tx'[t].snaps[c].version = tx[t].snaps[c].version,
           \A u \in Txs : Same(logFile, logFile', tx[u])
    PROVE  Settled' /\ Visible' /\ Calm' /\ SettledHeader' = header
  <1> DEFINE K == Places(header, Store)
  <1>1. SettledHeader = header /\ Shared(header, Store, K, logFile, Txs, tx, faults = 0)
    BY DEF Ownership, Settled, SettledHeader
  <1> HIDE DEF K
  <1>2. SettledHeader' = header
    BY TxsAssumption DEF SettledHeader
  <1>3. \A u \in Txs \ {t} : Writes(tx[t]) \cap Writes(tx[u]) = {}
    BY <1>1 DEF Shared, Takers
  <1>4. Stands(K, logFile, logFile', Txs, tx, tx', t, faults = 0, faults' = 0)
    BY <1>3 DEF Stands
  <1>5. Shared(header, Store, K, logFile', Txs, tx', faults' = 0)
    BY <1>1, <1>4, GoesOn
  <1>6. PICK h : h = header
    OBVIOUS
  <1>7. Store' = Store
    BY DEF SameLatest, Store
  <1>8. Shared(h, Store', Places(h, Store'), logFile', Txs, tx', faults' = 0)
    BY <1>5, <1>6, <1>7 DEF K
  <1>9. Settled'
    BY <1>2, <1>6, <1>8 DEF Settled
  <1>10. Visible'
    BY <1>1, <1>2, VisibleStill DEF Ownership
  <1>11. Calm'
    BY DEF Calm, Ownership
  <1>12. QED
    BY <1>2, <1>9, <1>10, <1>11

\* A list with one more at its end.
LEMMA OneAtEnd ==
    ASSUME NEW V, NEW a \in Seq(V), NEW b \in Seq(V), NEW n \in Nat, Len(a) = n, Len(b) = 1
    PROVE  /\ Len(a \o b) = n + 1 /\ DOMAIN (a \o b) = 1 .. n + 1
           /\ \A i \in 1 .. n : (a \o b)[i] = a[i]
           /\ (a \o b)[n + 1] = b[1]
  <1>1. a \o b \in Seq(V) /\ Len(a \o b) = n + 1
    BY ConcatProperties
  <1>2. DOMAIN (a \o b) = 1 .. n + 1
    BY <1>1, LenProperties
  <1>3. \A i \in 1 .. n + 1 : (a \o b)[i] = IF i <= n THEN a[i] ELSE b[i - n]
    BY ConcatProperties
  <1>4. n + 1 \in 1 .. n + 1 /\ ~(n + 1 <= n) /\ (n + 1) - n = 1
    OBVIOUS
  <1>5. (a \o b)[n + 1] = b[1]
    BY <1>3, <1>4
  <1>6. \A i \in 1 .. n : (a \o b)[i] = a[i]
    BY <1>3
  <1>7. QED
    BY <1>1, <1>2, <1>5, <1>6

\* What a return of pages appends.
Returns(ps, free, pages) ==
    /\ DOMAIN pages = 1 .. Len(ps) + 1
    /\ \A i \in 1 .. Len(ps) : pages[i][1] = ps[i] /\ pages[i][2] = Empty(After(ps, i, free))
    /\ pages[Len(ps) + 1][1] = Header

\* ReturnPages is that batch.
LEMMA ReturnPagesAre ==
    ASSUME NEW r \in TxRecs
    PROVE  Returns(r.newPages, header.free, ReturnPages(r))
  <1> DEFINE ps == r.newPages
             n == Len(ps)
             chain == [i \in DOMAIN ps |-> <<ps[i], Empty(IF i < Len(ps) THEN ps[i + 1] ELSE header.free)>>]
             last == << <<Header, ReturnHeader(r)>> >>
  <1>1. n \in Nat /\ DOMAIN ps = 1 .. n
    BY TxIs, LenProperties
  <1> DEFINE V == {chain[i] : i \in 1 .. n} \cup {last[1]}
  <1>a. \A i \in 1 .. n : chain[i] \in V
    OBVIOUS
  <1>b. DOMAIN chain = 1 .. n /\ chain = [i \in 1 .. n |-> chain[i]]
    BY <1>1
  <1>c. last[1] \in V
    OBVIOUS
  <1>d. last = [i \in 1 .. 1 |-> last[1]]
    OBVIOUS
  <1>2. chain \in [1 .. n -> V] /\ last \in [1 .. 1 -> V]
    <2> HIDE DEF chain, last, V
    <2>1. QED
      BY <1>a, <1>b, <1>c, <1>d
  <1>3. chain \in Seq(V) /\ Len(chain) = n
    BY <1>1, <1>2, SeqDef, LenProperties
  <1>4. last \in Seq(V) /\ Len(last) = 1
    BY <1>2, SeqDef, LenProperties
  <1>5. \A i \in 1 .. n : chain[i][1] = ps[i] /\ chain[i][2] = Empty(After(ps, i, header.free))
    BY <1>1 DEF After
  <1>6. last[1][1] = Header
    OBVIOUS
  <1>7. ReturnPages(r) = chain \o last
    BY DEF ReturnPages
  <1> HIDE DEF chain, last, V, ps
  <1>8. /\ Len(chain \o last) = n + 1 /\ DOMAIN (chain \o last) = 1 .. n + 1
        /\ \A i \in 1 .. n : (chain \o last)[i] = chain[i]
        /\ (chain \o last)[n + 1] = last[1]
    BY <1>1, <1>3, <1>4, OneAtEnd
  <1> HIDE DEF n
  <1>9. Returns(ps, header.free, chain \o last)
    BY <1>5, <1>6, <1>8 DEF Returns, n
  <1>10. QED
    BY <1>7, <1>9 DEF ps

\* Nothing is in the log of an id that was not given yet.
LEMMA NotLogged ==
    ASSUME IInv, Typed, NEW id, id = lastTxID + 1, NEW offs, DOMAIN offs = {}
    PROVE  Logged(id, offs)
  <1>1. lastTxID \in Nat /\ logFile \in Seq(Recs)
    BY DEF Typed
  <1>2. \A i \in DOMAIN logFile : logFile[i].tx <= lastTxID
    BY DEF IInv, LogIDs
  <1>3. \A i \in DOMAIN logFile : logFile[i].tx \in Nat
    <2>1. \A i \in DOMAIN logFile : logFile[i] \in Recs
      BY <1>1, ElementOfSeq, LenProperties
    <2>2. QED
      BY <2>1, RecsAre
  <1>4. QED
    BY <1>1, <1>2, <1>3 DEF Logged, Gone

\* The store once the pages at offs are confirmed.
Landed(offs, log, B, B2) == \A p \in Pages : B2[p] = IF p \in DOMAIN offs THEN log[offs[p]].body ELSE B[p]

\* From here on there are two views: the one that counts and the one that comes.
LEMMA ComingTo ==
    ASSUME NEW t \in Txs, mu' = t, SameLatest, NEW offs, OffsOf(tx[t])' = offs, NEW h2, header' = h2,
           NEW h, SettledHeader' = h, NEW B2, B2 = Coming(offs)',
           Shared(h2, B2, Places(h2, B2), logFile', Txs \ {t}, tx', faults' = 0),
           NEW K, K = Places(h, Store), DOMAIN offs \subseteq {Header} \cup Mine(K, tx[t])',
           \A c \in Cols \ Writes(tx'[t]) : h2.table[c] = h.table[c]
    PROVE  Underway'
  BY DEF SameLatest, Store, Underway

\* The second is the first with the written pages in it.
LEMMA ComingNext ==
    ASSUME SameLatest, NEW offs
    PROVE  Landed(offs, logFile', Store, Coming(offs)')
  BY DEF Landed, Coming, Store, SameLatest

\* The same batch, marked for the log.
ReturnRecs(ps, free, recs) ==
    /\ DOMAIN recs = 1 .. Len(ps) + 1
    /\ \A i \in 1 .. Len(ps) : recs[i].page = ps[i] /\ recs[i].body = Empty(After(ps, i, free))
    /\ recs[Len(ps) + 1].page = Header

\* Marked, it is those records.
LEMMA ReturnsMarked ==
    ASSUME NEW ps \in Seq(Pages), NEW free, NEW pages \in Batches, Returns(ps, free, pages), NEW id, NEW flag,
           NEW recs, recs = Marked(pages, id, flag)
    PROVE  ReturnRecs(ps, free, recs)
  <1>1. /\ DOMAIN recs = DOMAIN pages
        /\ \A i \in DOMAIN pages : recs[i].page = pages[i][1] /\ recs[i].body = pages[i][2]
    BY MarkedAs
  <1> DEFINE n == Len(ps)
  <1>2. DOMAIN pages = 1 .. n + 1 /\ pages[n + 1][1] = Header
        /\ \A i \in 1 .. n : pages[i][1] = ps[i] /\ pages[i][2] = Empty(After(ps, i, free))
    BY DEF Returns
  <1>3. n \in Nat
    BY LenProperties
  <1> HIDE DEF n
  <1>4. n + 1 \in 1 .. n + 1 /\ \A i \in 1 .. n : i \in 1 .. n + 1
    BY <1>3
  <1>5. recs[n + 1].page = Header
    BY <1>1, <1>2, <1>4
  <1>6. ASSUME NEW i \in 1 .. n PROVE recs[i].page = ps[i] /\ recs[i].body = Empty(After(ps, i, free))
    BY <1>1, <1>2, <1>4
  <1>7. QED
    BY <1>1, <1>2, <1>5, <1>6 DEF ReturnRecs, n

\* The offsets of a batch lead to its records.
FoundBy(recs, offs, n, o) ==
    /\ \A p \in DOMAIN offs : \E k \in 1 .. n : offs[p] = o + k /\ recs[k].page = p
    /\ \A i \in 1 .. n : recs[i].page \in DOMAIN offs

\* Offsets finds all of them.
LEMMA FoundIn ==
    ASSUME logEnd \in Nat, NEW recs \in Seq(Recs), NEW offs, offs = Offsets(recs), NEW n \in Nat, Len(recs) = n
    PROVE  FoundBy(recs, offs, n, logEnd)
  <1>1. offs \in OffsetMaps /\ \A p \in DOMAIN offs : /\ offs[p] - logEnd \in 1 .. n
                                                     /\ recs[offs[p] - logEnd].page = p
    BY OffsetsIs
  <1>2. ASSUME NEW p \in DOMAIN offs PROVE \E k \in 1 .. n : offs[p] = logEnd + k /\ recs[k].page = p
    <2>1. offs[p] \in Nat
      BY <1>1, OffsetMapIs
    <2>2. PICK k \in 1 .. n : k = offs[p] - logEnd /\ recs[k].page = p
      BY <1>1
    <2>3. offs[p] = logEnd + k
      BY <2>1, <2>2
    <2>4. QED
      BY <2>2, <2>3
  <1>3. \A i \in 1 .. n : recs[i].page \in DOMAIN offs
    BY OffsetsIs
  <1>4. QED
    BY <1>2, <1>3 DEF FoundBy

\* The pages given back are a chain in front of the free list.
ReturnedAs(ps, free, offs, B, B2) ==
    /\ Chain(B2, ps, free) /\ \A p \in Pages \ ToSet(ps) : B2[p] = B[p]
    /\ DOMAIN offs \subseteq {Header} \cup ToSet(ps)

\* In the log the new pages are linked to each other and the last to the free list.
LEMMA ReturnedChain ==
    ASSUME logEnd \in Nat, NEW ps \in Seq(Pages), OneToOne(ps), NEW free,
           NEW recs \in Seq(Recs), ReturnRecs(ps, free, recs),
           NEW log, \A j \in 1 .. Len(recs) : log[logEnd + j] = recs[j],
           NEW offs, offs = Offsets(recs), NEW B, NEW B2, Landed(offs, log, B, B2)
    PROVE  ReturnedAs(ps, free, offs, B, B2)
  <1> DEFINE n == Len(ps)
  <1>1. n \in Nat /\ DOMAIN ps = 1 .. n /\ \A i \in 1 .. n : ps[i] \in Pages
    BY LenProperties, ElementOfSeq
  <1>2. DOMAIN recs = 1 .. n + 1 /\ recs[n + 1].page = Header
    BY DEF ReturnRecs
  <1>7. \A i \in 1 .. n : recs[i].page = ps[i] /\ recs[i].body = Empty(After(ps, i, free))
    BY DEF ReturnRecs
  <1> HIDE DEF n
  <1>6. Len(recs) = n + 1 /\ n + 1 \in Nat
    BY <1>1, <1>2, LenProperties
  <1>8. recs[n + 1].page = Header
    BY <1>2
  <1>9. Header \notin Pages
    BY PageIds
  <1>10. /\ \A p \in DOMAIN offs : \E k \in 1 .. n + 1 : offs[p] = logEnd + k /\ recs[k].page = p
         /\ \A i \in 1 .. n + 1 : recs[i].page \in DOMAIN offs
    <2>1. PICK m \in Nat : m = n + 1 /\ Len(recs) = m
      BY <1>6
    <2>a. m \in Nat /\ Len(recs) = m
      BY <2>1
    <2>2. FoundBy(recs, offs, m, logEnd)
      BY <2>a, FoundIn
    <2>3. QED
      BY <2>1, <2>2 DEF FoundBy
  <1>11. \A p \in DOMAIN offs : p = Header \/ p \in ToSet(ps)
    <2> SUFFICES ASSUME NEW p \in DOMAIN offs, p # Header PROVE p \in ToSet(ps)
      OBVIOUS
    <2>1. PICK k \in 1 .. n + 1 : recs[k].page = p
      BY <1>10
    <2>2. k \in 1 .. n
      BY <1>1, <1>8, <2>1
    <2>3. QED
      BY <1>1, <1>7, <2>1, <2>2 DEF ToSet
  <1>12. ASSUME NEW i \in 1 .. n PROVE B2[ps[i]] = Empty(After(ps, i, free))
    <2>1. recs[i].page \in DOMAIN offs /\ ps[i] \in Pages /\ recs[i].page = ps[i]
      BY <1>1, <1>7, <1>10, SMTT(30)
    <2>2. PICK k \in 1 .. n + 1 : offs[ps[i]] = logEnd + k /\ recs[k].page = ps[i]
      BY <1>10, <2>1
    <2>3. k # n + 1
      BY <1>8, <1>9, <2>1, <2>2
    <2>4. k \in 1 .. n
      BY <1>1, <2>2, <2>3
    <2>5. ps[k] = ps[i]
      BY <1>7, <2>2, <2>4
    <2>6. k = i
      BY <1>1, <2>4, <2>5 DEF OneToOne
    <2>7. log[offs[ps[i]]] = recs[i]
      BY <1>1, <1>6, <2>2, <2>6
    <2>8. B2[ps[i]] = log[offs[ps[i]]].body
      BY <2>1 DEF Landed
    <2>9. QED
      BY <1>7, <2>7, <2>8
  <1>13. Chain(B2, ps, free)
    BY <1>12 DEF Chain, n
  <1>14. \A p \in Pages \ ToSet(ps) : B2[p] = B[p]
    BY <1>9, <1>11 DEF Landed
  <1>16. QED
    BY <1>11, <1>13, <1>14 DEF ReturnedAs

\* The record of a transaction that has written its new pages.
Gives(r, r2, id, offs) ==
    /\ r2.st = "returning" /\ r2.save = header /\ r2.retID = id /\ r2.offs = offs
    /\ r2.id = r.id /\ r2.dirty = r.dirty /\ r2.newPages = r.newPages /\ r2.snaps = r.snaps

\* ReturnAppend leaves it so.
LEMMA ReturningIs ==
    ASSUME NEW r \in TxRecs, NEW id, NEW offs, NEW r2,
           r2 = [r EXCEPT !.st = "returning", !.save = header, !.retID = id, !.offs = offs]
    PROVE  Gives(r, r2, id, offs)
  BY DEF TxRecs, Gives

\* Writing the pages that are given back changes nothing that is read.
LEMMA ReturningContents ==
    ASSUME IInv, IInv', Durable, Contents, NEW t \in Txs, tx[t].st # "idle", mu = NoTx,
           NEW recs \in Seq(Recs), NEW id \in Nat \ {0}, \A i \in DOMAIN recs : recs[i].tx = id,
           \A i \in DOMAIN recs : recs[i].page # Header => recs[i].body # Blank,
           AppendLogPages(recs) \/ AppendFails(recs),
           UNCHANGED <<index, confirmed, readVersion, dataFile, ckpt>>,
           id = lastTxID + 1,
           \A u \in Txs \ {t} : tx'[u] = tx[u],
           tx'[t].st = "returning", Logged(tx[t].retID, tx[t].offs)'
    PROVE  Contents' /\ SameLatest
  BY WriteContents

\* A transaction that rolls back writes its new pages as free ones.
LEMMA ReturnAppendGoesOn ==
    ASSUME IInv, IInv', Durable, Contents, Ownership, NEW t \in Txs, ReturnAppend(t)
    PROVE  Contents' /\ Ownership'
  <1>1. tx[t].st \in {"active", "aborting"} /\ mu = NoTx /\ tx[t].newPages # <<>>
    BY DEF ReturnAppend, Ending, Active
  <1>2. /\ Typed /\ tx[t] \in TxRecs /\ Sound(tx[t]) /\ tx \in [Txs -> TxRecs] /\ lastTxID \in Nat
        /\ header \in Headers /\ logEnd \in Nat
    BY <1>1, OpenIs
  <1>3. PICK id \in Nat \ {0} : id = lastTxID + 1
    BY <1>2
  <1> DEFINE recs == Marked(ReturnPages(tx[t]), id, TRUE)
             K == Places(header, Store)
             ps == tx[t].newPages
  <1>4. recs \in Seq(Recs) /\ (\A i \in DOMAIN recs : recs[i].tx = id) /\ ReturnPages(tx[t]) \in Batches
    BY <1>1, <1>2, ReturnPagesIs, MarkedIs
  <1>5. ps \in Seq(Pages)
    BY <1>2 DEF TxRecs
  <1>6. SettledHeader = header /\ Shared(header, Store, K, logFile, Txs, tx, faults = 0)
    BY <1>1 DEF Ownership, Settled, SettledHeader
  <1> HIDE DEF K
  <1>7. OneToOne(ps) /\ ToSet(ps) = Took(tx[t])
    BY <1>6 DEF Shared, Takers, Took
  <1>8. ReturnRecs(ps, header.free, recs)
    <2>1. PICK flag : flag = TRUE
      OBVIOUS
    <2>2. recs = Marked(ReturnPages(tx[t]), id, flag)
      BY <2>1
    <2>3. Returns(ps, header.free, ReturnPages(tx[t]))
      BY <1>2, ReturnPagesAre
    <2> HIDE DEF recs, ps
    <2>4. QED
      BY <1>4, <1>5, <2>2, <2>3, ReturnsMarked
  <1>9. /\ UNCHANGED <<dataFile, index, confirmed, readVersion, ckpt, broken>>
        /\ \/ AppendLogPages(recs) /\ header' = ReturnHeader(tx[t])
              /\ tx' = [tx EXCEPT ![t] = [tx[t] EXCEPT !.st = "returning", !.save = header,
                                                       !.retID = id, !.offs = Offsets(recs)]]
              /\ mu' = t /\ UNCHANGED faults
           \/ AppendFails(recs) /\ Finish(t) /\ UNCHANGED <<header, mu>>
    BY <1>3 DEF ReturnAppend
  <1> HIDE DEF recs, ps
  <1>10. \A i \in DOMAIN recs : recs[i].page # Header => recs[i].body # Blank
    <2>1. /\ DOMAIN recs = 1 .. Len(ps) + 1 /\ recs[Len(ps) + 1].page = Header
          /\ \A i \in 1 .. Len(ps) : recs[i].body = Empty(After(ps, i, header.free))
      BY <1>8 DEF ReturnRecs
    <2> SUFFICES ASSUME NEW i \in DOMAIN recs, recs[i].page # Header PROVE recs[i].body # Blank
      OBVIOUS
    <2>2. i \in 1 .. Len(ps)
      BY <1>5, <2>1, LenProperties
    <2>3. PICK x : x = After(ps, i, header.free)
      OBVIOUS
    <2>4. Empty(x) # Blank
      BY DEF Empty, Blank
    <2>5. QED
      BY <2>1, <2>2, <2>3, <2>4
  <1>11. id = tx[t].id \/ id = lastTxID + 1
    BY <1>3
  <1>12. CASE AppendFails(recs) /\ Finish(t) /\ UNCHANGED <<header, mu>>
    BY <1>1, <1>4, <1>9, <1>10, <1>11, <1>12, FailedEnd
  <1>13. CASE AppendLogPages(recs) /\ header' = ReturnHeader(tx[t])
              /\ tx' = [tx EXCEPT ![t] = [tx[t] EXCEPT !.st = "returning", !.save = header,
                                                       !.retID = id, !.offs = Offsets(recs)]]
              /\ mu' = t /\ UNCHANGED faults
    <2>1. PICK offs : offs = Offsets(recs)
      OBVIOUS
    <2>2. offs \in OffsetMaps
      BY <1>2, <1>4, <2>1, OffsetsIs
    <2>3. tx'[t] = [tx[t] EXCEPT !.st = "returning", !.save = header, !.retID = id, !.offs = offs]
          /\ \A u \in Txs \ {t} : tx'[u] = tx[u]
      BY <1>2, <1>13, <2>1
    <2>4. Gives(tx[t], tx'[t], id, offs)
      BY <1>2, <2>3, ReturningIs
    <2>5. AppendLogPages(recs) \/ AppendFails(recs)
      BY <1>13
    <2>6. Appends(logFile, logEnd, logFile', logEnd', recs)
      BY <1>2, <1>4, <2>5, AppendsIs
    <2>7. logEnd' = logEnd + Len(recs) /\ \A j \in 1 .. Len(recs) : logFile'[logEnd + j] = recs[j]
      BY <1>2, <1>4, <1>13, AppendIs
    <2>8. Logged(id, offs)'
      <3>1. PICK old : old = <<>>
        OBVIOUS
      <3>2. DOMAIN old = {} /\ old \in OffsetMaps
        BY <3>1, EmptyMap DEF OffsetMaps, Maps
      <3>3. OffsetsTrue(old) /\ Logged(id, old)
        BY <1>2, <1>3, <3>2, NotLogged DEF OffsetsTrue
      <3>4. /\ DOMAIN offs = DOMAIN Offsets(recs) \cup DOMAIN old
            /\ \A p \in DOMAIN Offsets(recs) : offs[p] = Offsets(recs)[p]
            /\ \A p \in DOMAIN old \ DOMAIN Offsets(recs) : offs[p] = old[p]
        BY <2>1, <3>2
      <3>5. UNCHANGED index
        BY <1>9
      <3>6. QED
        BY <1>2, <1>4, <2>6, <2>7, <3>2, <3>3, <3>4, <3>5, LoggedMore, ZenonT(60)
    <2>9. tx'[t].st = "returning" /\ tx'[t].retID = id /\ tx'[t].offs = offs
      BY <2>4 DEF Gives
    <2>10. Logged(tx[t].retID, tx[t].offs)'
      BY <2>8, <2>9 DEF Logged, Gone
    <2>11. tx[t].st # "idle" /\ tx'[t].st \notin {"active", "appended", "aborting", "idle"}
      BY <1>1, <2>9
    <2>b. UNCHANGED <<index, confirmed, readVersion, dataFile, ckpt>> /\ tx[t].st # "idle"
      BY <1>1, <1>9
    <2>d. \A u \in Txs \ {t} : tx'[u] = tx[u]
      BY <2>3
    <2>12. Contents' /\ SameLatest
      BY <1>1, <1>3, <1>4, <1>10, <2>5, <2>9, <2>10, <2>b, <2>d, ReturningContents
    <2>13. \A u \in Txs : Same(logFile, logFile', tx[u])
      BY <1>4, <2>5, SpillsSame
    <2> DEFINE r == tx[t]
               r2 == tx'[t]
    <2>14. /\ r2.newPages = r.newPages /\ r2.snaps = r.snaps /\ r2.save = header
           /\ Took(r2) = Took(r) /\ OneToOne(r2.newPages) /\ Writes(r2) = Writes(r)
      BY <1>7, <2>4 DEF Gives, Took, Writes, ps
    <2>15. Settled' /\ Visible' /\ Calm' /\ SettledHeader' = header
      BY <1>1, <1>9, <1>13, <2>3, <2>11, <2>12, <2>13, <2>14, WriterOwn
    <2>16. PICK B2 : B2 = Coming(offs)'
      OBVIOUS
    <2>17. PICK h2 : h2 = header'
      OBVIOUS
    <2>18. Landed(offs, logFile', Store, B2)
      BY <2>12, <2>16, ComingNext
    <2>c. ReturnedAs(ps, header.free, offs, Store, B2)
      BY <1>2, <1>4, <1>5, <1>7, <1>8, <2>1, <2>7, <2>18, ReturnedChain
    <2>19. /\ Chain(B2, ps, header.free) /\ \A p \in Pages \ ToSet(ps) : B2[p] = Store[p]
           /\ DOMAIN offs \subseteq {Header} \cup ToSet(ps)
      BY <2>c DEF ReturnedAs
    <2>20. h2.last = header.last /\ h2.table = header.table /\ h2.free = First(ps, header.free)
      BY <1>1, <1>2, <1>13, <2>17, HeaderIs DEF ReturnHeader, First, ps, Headers
    <2>21. Shared(h2, B2, Places(h2, B2), logFile', Txs \ {t}, tx', faults = 0)
      <3>1. PICK K2 : K2 = Places(h2, B2)
        OBVIOUS
      <3>2. Placed(header, Store, K)
        BY PlacesAre DEF K
      <3>3. Placed(h2, B2, K2)
        BY <3>1, PlacesAre
      <3>4. Alike(header, h2, Store, B2, K, K2)
        BY <3>1, PlacesAlike DEF K
      <3>5. header.last \in Pages /\ \A c \in Cols : K[c].page \in Links
        BY <1>2, <3>2, HeaderIs DEF Placed, Headers, Tables
      <3>6. /\ tx[t].newPages \in Seq(Pages) /\ Chain(B2, tx[t].newPages, header.free)
            /\ h2.free = First(tx[t].newPages, header.free)
            /\ \A p \in Pages \ Took(tx[t]) : B2[p] = Store[p]
        BY <1>5, <1>7, <2>19, <2>20 DEF ps
      <3>7. \A u \in Txs \ {t} : tx'[u] = tx[u] /\ (tx[u].st = "active" => Same(logFile, logFile', tx[u]))
        BY <2>3, <2>13
      <3>8. Shared(h2, B2, K2, logFile', Txs \ {t}, tx', faults = 0)
        BY <1>6, <2>20, <3>2, <3>3, <3>4, <3>5, <3>6, <3>7, ReturnShared
      <3>9. QED
        BY <3>1, <3>8
    <2>22. Underway'
      <3>1. PICK h : h = header
        OBVIOUS
      <3>2. PICK K1 : K1 = Places(h, Store)
        OBVIOUS
      <3>3. DOMAIN offs \subseteq {Header} \cup Mine(K1, tx[t])'
        BY <1>7, <2>14, <2>19 DEF Mine
      <3>4. OffsOf(tx[t])' = offs
        BY <2>9 DEF OffsOf
      <3>5. Shared(h2, B2, Places(h2, B2), logFile', Txs \ {t}, tx', faults' = 0)
        BY <1>13, <2>21
      <3>6. mu' = t
        BY <1>13
      <3>7. \A c \in Cols \ Writes(tx'[t]) : h2.table[c] = h.table[c]
        BY <2>20, <3>1
      <3>8. SettledHeader' = h
        BY <2>15, <3>1
      <3>9. QED
        BY <2>12, <2>16, <2>17, <3>2, <3>3, <3>4, <3>5, <3>6, <3>7, <3>8, ComingTo
    <2>23. QED
      BY <2>12, <2>15, <2>22 DEF Ownership
  <1>14. QED
    BY <1>9, <1>12, <1>13

\* The record of a transaction whose commit is in the log.
Wrote(r, r2, offs) ==
    /\ r2.st = "appended" /\ r2.save = header /\ r2.id = r.id /\ r2.dirty = offs
    /\ r2.newPages = r.newPages /\ Writes(r2) = Writes(r)
    /\ \A c \in Writes(r) : r2.snaps[c].loaded = r.snaps[c].loaded

\* CommitAppend leaves it so.
LEMMA WroteIs ==
    ASSUME logEnd \in Nat, NEW r \in TxRecs, Sound(r), r.st = "active", header \in Headers, LastDeleted(r),
           NEW recs \in Seq(Recs),
           NEW r2, r2 = [Dropped(Spliced(r), recs) EXCEPT !.st = "appended", !.save = header]
    PROVE  Wrote(r, r2, Over(Offsets(recs), r.dirty))
  <1> DEFINE q == Spliced(r)
             d == Dropped(q, recs)
             d1 == [d EXCEPT !.st = "appended"]
             d2 == [d1 EXCEPT !.save = header]
  <1>1. q \in TxRecs /\ Sound(q) /\ q.id = r.id /\ q.dirty = r.dirty /\ q.newPages = r.newPages /\ q.st # "idle"
    BY SplicedIs
  <1>2. Splices(r, q, header.free)
    BY SplicedSplices
  <1> HIDE DEF q
  <1>3. DropsLocal(q, d, Offsets(recs)) /\ d \in TxRecs
    BY <1>1, DroppedDrops, DroppedIs
  <1> HIDE DEF d
  <1>4. d1 \in TxRecs /\ d1.st = "appended" /\ d1.id = d.id /\ d1.dirty = d.dirty /\ d1.newPages = d.newPages
        /\ d1.snaps = d.snaps
    BY <1>3 DEF TxRecs, States
  <1> HIDE DEF d1
  <1>5. d2.st = "appended" /\ d2.save = header /\ d2.id = d.id /\ d2.dirty = d.dirty /\ d2.newPages = d.newPages
        /\ d2.snaps = d.snaps
    BY <1>4 DEF TxRecs
  <1>6. r2 = d2
    BY DEF d2, d1, d, q
  <1> HIDE DEF d2
  <1>7. \A c \in Writes(r) : c \in Cols /\ q.snaps[c].loaded = r.snaps[c].loaded
    BY <1>2 DEF Splices, Writes
  <1>8. Writes(d2) = Writes(d) /\ Writes(d) = Writes(q) /\ Writes(q) = Writes(r)
    BY <1>2, <1>3, <1>5 DEF Splices, Writes, DropsLocal
  <1>9. d.id = q.id /\ d.dirty = Over(Offsets(recs), q.dirty) /\ d.newPages = q.newPages
        /\ \A c \in Cols : d.snaps[c].loaded = q.snaps[c].loaded
    BY <1>3 DEF DropsLocal
  <1>10. r2.st = "appended" /\ r2.save = header /\ r2.id = r.id /\ r2.newPages = r.newPages
         /\ r2.dirty = Over(Offsets(recs), r.dirty)
    BY <1>1, <1>5, <1>6, <1>9
  <1>11. Writes(r2) = Writes(r) /\ \A c \in Writes(r) : r2.snaps[c].loaded = r.snaps[c].loaded
    <2>1. Writes(r2) = Writes(r)
      BY <1>6, <1>8
    <2>2. r2.snaps = d.snaps
      BY <1>5, <1>6
    <2>3. QED
      BY <1>7, <1>9, <2>1, <2>2
  <1>12. QED
    BY <1>10, <1>11 DEF Wrote

\* The header of a commit.
LEMMA CommitsIs ==
    ASSUME NEW r \in TxRecs, Sound(r), r.st # "idle", header \in Headers, NEW B, NEW K, Placed(header, B, K),
           NEW h2, h2 = CommitHeader(r)
    PROVE  Commits(header, h2, K, r)
  <1>1. header.table = [c \in Cols |-> K[c].page]
    BY HeaderIs DEF Placed, Tables
  <1>2. SplicedHeader(r) \in Headers
    BY SplicedIs
  <1> DEFINE e == Entered(header.table, r.onCommit, Len(r.onCommit))
             s == SplicedHeader(r)
  <1>3. s.last = header.last /\ s.free = IF r.lastDelete = NoPage THEN header.free ELSE r.firstDelete
    BY DEF SplicedHeader, Headers
  <1>4. e = Then(K, r)
    BY <1>1 DEF Then
  <1>5. h2 = [s EXCEPT !.table = e]
    BY DEF CommitHeader
  <1> HIDE DEF e, s
  <1>6. h2.last = s.last /\ h2.free = s.free /\ h2.table = e
    BY <1>2, <1>5 DEF Headers, s
  <1>7. QED
    BY <1>3, <1>4, <1>6 DEF Commits

\* What a commit appends is the pages it changed and perhaps the header.
LEMMA CommitCarries ==
    ASSUME NEW r \in TxRecs, Sound(r), r.st # "idle", header \in Headers, ~Refused(r)
    PROVE  Carries(CommitPages(r), Spliced(r))
  <1> DEFINE q == Spliced(r)
             pages == collectDirty(q)
  <1>1. q \in TxRecs /\ Sound(q)
    BY SplicedIs
  <1>2. Carries(pages, q) /\ pages \in Batches
    BY <1>1, collectDirtyHas, collectDirtyIs
  <1>3. CommitHeader(r) \in Headers
    BY CommitHeaderIs
  <1>4. Carries(Append(pages, <<Header, CommitHeader(r)>>), q)
    BY <1>2, <1>3, HeaderToo
  <1>5. CommitPages(r) = pages \/ CommitPages(r) = Append(pages, <<Header, CommitHeader(r)>>)
    BY DEF CommitPages
  <1>6. QED
    BY <1>2, <1>4, <1>5

\* What a transaction has changed, spilled before or written now, is what the store
\* will say.
LEMMA SavedIs ==
    ASSUME NEW q \in TxRecs, Sound(q), NEW f \in OffsetMaps, NEW log, NEW log2, InLog(q, f, log2),
           NEW offs, offs = Over(f, q.dirty), NEW B, NEW B2, Landed(offs, log2, B, B2), Same(log, log2, q)
    PROVE  Saved(log, q, B, B2)
  <1>1. PICK g \in OffsetMaps : g = q.dirty
    BY TxIs
  <1>2. /\ DOMAIN offs = DOMAIN f \cup DOMAIN g /\ \A p \in DOMAIN f : offs[p] = f[p]
        /\ \A p \in DOMAIN g \ DOMAIN f : offs[p] = g[p]
    BY <1>1, OverOffsets, SMTT(30)
  <1>3. \A p \in Pages \cap DOMAIN f : B2[p] = log2[f[p]].body
    BY <1>2 DEF Landed
  <1>4. ASSUME NEW c \in Writes(q), NEW p \in DOMAIN q.snaps[c].local
        PROVE  B2[p] = q.snaps[c].local[p].body
    BY <1>3, TxIs, SnapIs, LocalIs, ZenonT(60) DEF Writes, InLog
  <1>5. ASSUME NEW c \in Writes(q), q.snaps[c].collDirty PROVE B2[q.snaps[c].coll] = q.snaps[c].body
    BY <1>3, <1>5 DEF Sound, Writes, InLog
  <1>6. ASSUME NEW p \in Pages, ~InMemory(q, p)
        PROVE  B2[p] = IF p \in DOMAIN q.dirty THEN log[q.dirty[p]].body ELSE B[p]
    BY <1>1, <1>2, <1>6, PageIds DEF InLog, Landed, Same
  <1>7. QED
    BY <1>4, <1>5, <1>6 DEF Saved

\* Writing the pages of a commit changes nothing that is read.
LEMMA AppendedContents ==
    ASSUME IInv, IInv', Durable, Contents, NEW t \in Txs, tx[t].st # "idle", mu = NoTx,
           NEW recs \in Seq(Recs), NEW id \in Nat \ {0}, \A i \in DOMAIN recs : recs[i].tx = id,
           \A i \in DOMAIN recs : recs[i].page # Header => recs[i].body # Blank,
           AppendLogPages(recs) \/ AppendFails(recs),
           UNCHANGED <<index, confirmed, readVersion, dataFile, ckpt>>,
           id = tx[t].id,
           \A u \in Txs \ {t} : tx'[u] = tx[u],
           tx'[t].st = "appended", Logged(tx[t].id, tx[t].dirty)'
    PROVE  Contents' /\ SameLatest
  BY WriteContents

\* The pages a commit writes are its own.
LEMMA WritesMine ==
    ASSUME NEW K, NEW log, NEW r, Works(K, log, r), NoPage \notin Mine(K, r), NEW q, NEW free, Splices(r, q, free),
           \A c \in Writes(r) : r.snaps[c].loaded, NEW f, NEW log2, InLog(q, f, log2)
    PROVE  DOMAIN f \cup DOMAIN r.dirty \subseteq {Header} \cup Mine(K, r)
  <1>1. Memory(K, r)
    BY MemoryIs
  <1>2. LastDeleted(r) /\ Spills(K, r) /\ \E ds \in Seq(Pages) : Deleted(K, log, r, ds)
    BY DEF Works
  <1>3. SplicedMemory(r, q)
    BY <1>2, MemorySpliced
  <1>4. r.lastDelete # NoPage => r.lastDelete \in Mine(K, r)
    <2>1. PICK ds \in Seq(Pages) : Deleted(K, log, r, ds)
      BY <1>2
    <2>2. r.lastDelete = LastOf(ds) /\ ToSet(ds) = Mine(K, r) \ Keeps(K, r)
      BY <2>1 DEF Deleted
    <2>3. CASE ds = <<>>
      BY <2>2, <2>3 DEF LastOf
    <2>4. CASE ds # <<>>
      BY <2>2, <2>4, LenProperties, EmptySeq DEF ToSet, LastOf
    <2>5. QED
      BY <2>3, <2>4
  <1>5. \A p \in DOMAIN f : p = Header \/ InMemory(q, p)
    BY DEF InLog
  <1>6. \A p : InMemory(q, p) => p \in Mine(K, r)
    BY <1>1, <1>3, <1>4 DEF SplicedMemory, Memory
  <1>7. DOMAIN r.dirty \subseteq Mine(K, r)
    BY <1>2 DEF Spills
  <1>8. QED
    BY <1>5, <1>6, <1>7

\* A transaction writes the pages of its commit.
LEMMA CommitAppendGoesOn ==
    ASSUME IInv, IInv', Durable, Contents, Ownership, NEW t \in Txs, CommitAppend(t)
    PROVE  Contents' /\ Ownership'
  <1>1. tx[t].st = "active" /\ mu = NoTx /\ ~Refused(tx[t]) /\ \A c \in Writes(tx[t]) : tx[t].snaps[c].loaded
    BY DEF CommitAppend, CanLock, Active, Opening, Writes
  <1>2. PICK id \in Nat \ {0} : id = tx[t].id
    BY <1>1, OpenIs
  <1>3. /\ Typed /\ Typed' /\ tx[t] \in TxRecs /\ Sound(tx[t]) /\ tx \in [Txs -> TxRecs]
        /\ header \in Headers /\ logEnd \in Nat /\ tx[t].dirty \in OffsetMaps
        /\ OffsetsTrue(tx[t].dirty)
    BY <1>1, OpenIs DEF IInv
  <1> DEFINE pages == CommitPages(tx[t])
             recs == Marked(pages, id, TRUE)
             K == Places(header, Store)
             q == Spliced(tx[t])
  <1>4. recs \in Seq(Recs) /\ (\A i \in DOMAIN recs : recs[i].tx = id) /\ pages \in Batches
    BY <1>1, <1>3, CommitPagesIs, MarkedIs
  <1>5. SettledHeader = header /\ Shared(header, Store, K, logFile, Txs, tx, faults = 0)
    BY <1>1 DEF Ownership, Settled, SettledHeader
  <1>6. Works(K, logFile, tx[t]) /\ Viewed(K, logFile, tx[t])
    BY <1>1, <1>3, <1>5, ViewIs DEF Shared
  <1> HIDE DEF K
  <1>7. LastDeleted(tx[t]) /\ Bodied(tx[t]) /\ Apart(tx[t]) /\ NoPage \notin Mine(K, tx[t])
    BY <1>3, <1>6, WorksBodied, WorksApart DEF Works, Viewed
  <1>8. /\ q \in TxRecs /\ Sound(q) /\ Splices(tx[t], q, header.free) /\ Carries(pages, q)
        /\ q.dirty = tx[t].dirty
    BY <1>1, <1>3, <1>7, SplicedIs, SplicedSplices, CommitCarries
  <1> HIDE DEF q, pages
  <1>9. Apart(q) /\ Bodied(q)
    BY <1>7, <1>8, SplicedApart, SplicedBodied
  <1>10. PICK flag \in BOOLEAN : flag = TRUE
    OBVIOUS
  <1>11. recs = Marked(pages, id, flag)
    BY <1>10
  <1> HIDE DEF recs
  <1>12. \A i \in DOMAIN recs : recs[i].page # Header => recs[i].body # Blank
    BY <1>4, <1>8, <1>9, <1>11, BatchBodied
  <1>13. /\ UNCHANGED <<dataFile, index, confirmed, readVersion, ckpt>>
         /\ \/ /\ AppendLogPages(recs) /\ header' = CommitHeader(tx[t])
               /\ tx' = [tx EXCEPT ![t] =
                      [Dropped(Spliced(tx[t]), recs) EXCEPT !.st = "appended", !.save = header]]
               /\ mu' = t /\ UNCHANGED <<broken, faults>>
            \/ AppendFails(recs) /\ Finish(t) /\ UNCHANGED <<header, mu>>
    BY <1>2 DEF CommitAppend, walVars, recs, pages
  <1>14. CASE AppendFails(recs) /\ Finish(t) /\ UNCHANGED <<header, mu>>
    BY <1>1, <1>2, <1>4, <1>12, <1>13, <1>14, FailedEnd
  <1>15. CASE /\ AppendLogPages(recs) /\ header' = CommitHeader(tx[t])
              /\ tx' = [tx EXCEPT ![t] =
                     [Dropped(Spliced(tx[t]), recs) EXCEPT !.st = "appended", !.save = header]]
              /\ mu' = t /\ UNCHANGED <<broken, faults>>
    <2>1. PICK f : f = Offsets(recs)
      OBVIOUS
    <2>2. f \in OffsetMaps
      BY <1>3, <1>4, <2>1, OffsetsIs
    <2>3. tx'[t] = [Dropped(Spliced(tx[t]), recs) EXCEPT !.st = "appended", !.save = header]
      BY <1>3, <1>15
    <2>4. \A u \in Txs \ {t} : tx'[u] = tx[u]
      BY <1>3, <1>15
    <2>5. PICK offs : offs = Over(f, tx[t].dirty)
      OBVIOUS
    <2>6. Wrote(tx[t], tx'[t], offs)
      BY <1>1, <1>3, <1>4, <1>7, <2>1, <2>3, <2>5, WroteIs
    <2>7. DOMAIN offs = DOMAIN f \cup DOMAIN tx[t].dirty /\ (\A p \in DOMAIN f : offs[p] = f[p])
          /\ \A p \in DOMAIN tx[t].dirty \ DOMAIN f : offs[p] = tx[t].dirty[p]
      BY <1>3, <2>2, <2>5, OverOffsets
    <2>8. AppendLogPages(recs) \/ AppendFails(recs)
      BY <1>15
    <2>9. Appends(logFile, logEnd, logFile', logEnd', recs)
      BY <1>3, <1>4, <2>8, AppendsIs
    <2>10. logEnd' = logEnd + Len(recs) /\ \A j \in 1 .. Len(recs) : logFile'[logEnd + j] = recs[j]
      BY <1>2, <1>3, <1>4, <1>15, AppendIs
    <2>11. Logged(id, offs)'
      <3>1. PICK old : old = tx[t].dirty
        OBVIOUS
      <3>2. old \in OffsetMaps /\ OffsetsTrue(old) /\ Logged(id, old)
        BY <1>1, <1>2, <1>3, <3>1 DEF Contents, LoggedAll
      <3>3. /\ DOMAIN offs = DOMAIN Offsets(recs) \cup DOMAIN old
            /\ \A p \in DOMAIN Offsets(recs) : offs[p] = Offsets(recs)[p]
            /\ \A p \in DOMAIN old \ DOMAIN Offsets(recs) : offs[p] = old[p]
        BY <2>1, <2>7, <3>1
      <3>4. UNCHANGED index /\ logEnd' = logEnd + Len(recs)
        BY <1>13, <2>10
      <3>5. QED
        BY <1>3, <1>4, <2>9, <3>2, <3>3, <3>4, LoggedMore, ZenonT(60)
    <2>12. tx'[t].st = "appended" /\ tx'[t].id = id /\ tx'[t].dirty = offs
      BY <1>2, <2>6 DEF Wrote
    <2>13. Logged(tx[t].id, tx[t].dirty)'
      BY <2>11, <2>12 DEF Logged, Gone
    <2>14. tx[t].st # "idle" /\ tx'[t].st \notin {"active", "returning", "aborting", "idle"}
      BY <1>1, <2>12
    <2>15. UNCHANGED <<index, confirmed, readVersion, dataFile, ckpt>>
      BY <1>13
    <2>16. Contents' /\ SameLatest
      BY <1>1, <1>2, <1>4, <1>12, <2>4, <2>8, <2>12, <2>13, <2>14, <2>15, AppendedContents
    <2>17. \A u \in Txs : Same(logFile, logFile', tx[u])
      BY <1>2, <1>4, <2>8, SpillsSame
    <2> DEFINE r == tx[t]
               r2 == tx'[t]
    <2>18. /\ r2.save = header /\ r2.newPages = r.newPages /\ Took(r2) = Took(r) /\ Writes(r2) = Writes(r)
           /\ \A c \in Writes(r) : r2.snaps[c].loaded
      BY <1>1, <2>6 DEF Wrote, Took
    <2>19. OneToOne(r2.newPages)
      BY <1>5, <2>18 DEF Shared, Takers
    <2>20. Settled' /\ Visible' /\ Calm' /\ SettledHeader' = header
      BY <1>1, <1>13, <1>15, <2>4, <2>14, <2>16, <2>17, <2>18, <2>19, WriterOwn
    <2>21. PICK B2 : B2 = Coming(offs)'
      OBVIOUS
    <2>22. PICK h2 : h2 = header'
      OBVIOUS
    <2>23. Landed(offs, logFile', Store, B2)
      BY <2>16, <2>21, ComingNext
    <2>24. InLog(q, f, logFile')
      BY <1>2, <1>3, <1>4, <1>8, <1>9, <1>11, <2>1, <2>10, BatchInLog
    <2>25. DOMAIN offs \subseteq {Header} \cup Mine(K, tx[t])
      BY <1>1, <1>6, <1>7, <1>8, <2>7, <2>24, WritesMine
    <2>26. Saved(logFile, q, Store, B2)
      <3>1. Same(logFile, logFile', q) /\ offs = Over(f, q.dirty)
        BY <1>8, <2>5, <2>17 DEF Same
      <3>2. QED
        BY <1>8, <2>2, <2>23, <2>24, <3>1, SavedIs
    <2>27. Placed(header, Store, K)
      BY PlacesAre DEF K
    <2>28. Commits(header, h2, K, tx[t])
      BY <1>1, <1>3, <1>15, <2>22, <2>27, CommitsIs
    <2>29. Shared(h2, B2, Places(h2, B2), logFile', Txs \ {t}, tx', faults = 0)
      <3>1. PICK K2 : K2 = Places(h2, B2)
        OBVIOUS
      <3>2. Placed(h2, B2, K2)
        BY <3>1, PlacesAre
      <3>3. Alike(header, h2, Store, B2, K, K2)
        BY <3>1, PlacesAlike DEF K
      <3>4. header.last \in Pages /\ header.table \in [Cols -> Links]
        BY <1>3, HeaderIs DEF Tables
      <3>5. \A u \in Txs \ {t} : tx'[u] = tx[u] /\ (tx[u].st = "active" => Same(logFile, logFile', tx[u]))
        BY <2>4, <2>17
      <3>6. Shared(h2, B2, K2, logFile', Txs \ {t}, tx', faults = 0)
        BY <1>1, <1>3, <1>5, <1>8, <2>26, <2>27, <2>28, <3>2, <3>3, <3>4, <3>5, CommitShared
      <3>7. QED
        BY <3>1, <3>6
    <2>30. \A c \in Cols \ Writes(tx[t]) : h2.table[c] = header.table[c]
      BY <1>3, <1>6, <2>27, <2>28, NothingYet DEF Works, Placed, Commits
    <2>31. Underway'
      <3>1. PICK h : h = header
        OBVIOUS
      <3>2. PICK K1 : K1 = Places(h, Store)
        OBVIOUS
      <3>3. Mine(K1, tx'[t]) = Mine(K, tx[t])
        BY <2>18, <3>1, <3>2 DEF Mine, K
      <3>4. DOMAIN offs \subseteq {Header} \cup Mine(K1, tx[t])'
        BY <2>25, <3>3
      <3>5. OffsOf(tx[t])' = offs
        BY <2>12 DEF OffsOf
      <3>6. Shared(h2, B2, Places(h2, B2), logFile', Txs \ {t}, tx', faults' = 0)
        BY <1>15, <2>29
      <3>7. mu' = t
        BY <1>15
      <3>8. \A c \in Cols \ Writes(tx'[t]) : h2.table[c] = h.table[c]
        BY <2>18, <2>30, <3>1
      <3>9. SettledHeader' = h
        BY <2>20, <3>1
      <3>10. QED
        BY <2>16, <2>21, <2>22, <3>2, <3>4, <3>5, <3>6, <3>7, <3>8, <3>9, ComingTo
    <2>32. QED
      BY <2>16, <2>20, <2>31 DEF Ownership
  <1>16. QED
    BY <1>13, <1>14, <1>15

\* The writer and what it leaves to the others.
LEMMA WriterIs ==
    ASSUME IInv, Ownership, NEW t \in Txs, tx[t].st \in {"appended", "returning"}
    PROVE  /\ mu = t /\ SettledHeader = tx[t].save /\ SettledHeader \in Headers /\ header \in Headers
           /\ OffsOf(tx[t]) \in OffsetMaps /\ OffsetsTrue(OffsOf(tx[t]))
           /\ \A u \in Txs \ {t} : tx[u].st = "active" =>
                  DOMAIN OffsOf(tx[t]) \cap DOMAIN tx[u].dirty \subseteq {Header}
           /\ \A c \in Cols \ Writes(tx[t]) : /\ header.table[c] = SettledHeader.table[c]
                                              /\ header.table[c] \notin DOMAIN OffsOf(tx[t])
           /\ \A u \in Txs \ {t} : Writes(tx[u]) \cap Writes(tx[t]) = {}
  <1>1. mu = t /\ SettledHeader = tx[t].save
    BY TxsAssumption DEF IInv, Mutex, SettledHeader
  <1>2. /\ SettledHeader \in Headers /\ header \in Headers
        /\ OffsOf(tx[t]) \in OffsetMaps /\ OffsetsTrue(OffsOf(tx[t])) /\ mu # NoTx
    BY <1>1, SettledIs, TxsAssumption
  <1>3. PICK K : K = Places(SettledHeader, Store)
    OBVIOUS
  <1>4. Shared(SettledHeader, Store, K, logFile, Txs, tx, faults = 0)
    BY <1>3 DEF Ownership, Settled
  <1>5. SettledHeader.last \in Pages /\ SettledHeader.table \in [Cols -> Links]
    BY <1>2, HeaderIs DEF Tables
  <1>6. /\ \A c \in Cols \ Writes(tx[t]) : Of(K, c) \cap Mine(K, tx[t]) = {}
        /\ \A u \in Txs : u # t => Mine(K, tx[u]) \cap Mine(K, tx[t]) = {}
    BY <1>4, <1>5, MineIs, ZenonT(60)
  <1>7. /\ DOMAIN OffsOf(tx[t]) \subseteq {Header} \cup Mine(K, tx[t])
        /\ \A c \in Cols \ Writes(tx[t]) : header.table[c] = SettledHeader.table[c]
    BY <1>1, <1>2, <1>3 DEF Ownership, Underway
  <1>8. ASSUME NEW u \in Txs \ {t}, tx[u].st = "active"
        PROVE  DOMAIN OffsOf(tx[t]) \cap DOMAIN tx[u].dirty \subseteq {Header}
    BY <1>4, <1>6, <1>7, <1>8 DEF Shared, Works, Spills
  <1>9. ASSUME NEW c \in Cols \ Writes(tx[t]) PROVE header.table[c] \notin DOMAIN OffsOf(tx[t])
    BY <1>2, <1>3, <1>5, <1>6, <1>7, PageIds, OffsetMapIs, PlacesAre DEF AllPages, Placed, Of, Links
  <1>10. \A u \in Txs \ {t} : Writes(tx[u]) \cap Writes(tx[t]) = {}
    BY <1>4 DEF Shared, Takers
  <1>11. QED
    BY <1>1, <1>2, <1>7, <1>8, <1>9, <1>10

\* What is confirmed is what the writer said it would be.
LEMMA ConfirmGoesOn ==
    ASSUME IInv, IInv', Durable, Contents, Ownership, NEW t \in Txs, tx[t].st \in {"appended", "returning"},
           NEW id, NEW offs, offs = OffsOf(tx[t]), Logged(id, offs), Confirm(id, offs), mu' = NoTx, Finish(t),
           UNCHANGED <<logFile, logEnd, dataFile, header, broken, ckpt, faults>>
    PROVE  Contents' /\ Ownership'
  <1>1. tx'[t] = Idle /\ \A u \in Txs \ {t} : tx'[u] = tx[u]
    BY FinishIs
  <1>2. /\ tx'[t].st = "idle" /\ Writes(tx'[t]) = {} /\ Took(tx'[t]) = {} /\ tx'[t].newPages = <<>>
    BY <1>1, Emptied
  <1>3. mu = t /\ offs \in OffsetMaps /\ OffsetsTrue(offs)
        /\ \A u \in Txs \ {t} : tx[u].st = "active" => DOMAIN offs \cap DOMAIN tx[u].dirty \subseteq {Header}
    BY WriterIs
  <1>4. Contents' /\ \A p \in Pages : Latest(p)' = Coming(offs)[p]
    BY <1>1, <1>2, <1>3, ConfirmContents
  <1>5. Store' = Coming(offs)
    BY <1>4 DEF Store, Coming
  <1>6. PICK B : B = Coming(offs)
    OBVIOUS
  <1>7. PICK K : K = Places(header, B)
    OBVIOUS
  <1>8. Shared(header, B, K, logFile, Txs \ {t}, tx, faults = 0)
    BY <1>3, <1>6, <1>7, TxsAssumption DEF Ownership, Underway
  <1>9. Shared(header, B, K, logFile, Txs \ {t}, tx', faults = 0)
    <2>1. PICK T : T = Txs \ {t}
      OBVIOUS
    <2>2. Stands(K, logFile, logFile, T, tx, tx', t, faults = 0, faults = 0)
      BY <1>1, <2>1 DEF Stands, Same
    <2>3. Shared(header, B, K, logFile, T, tx, faults = 0)
      BY <1>8, <2>1
    <2>4. Shared(header, B, K, logFile, T, tx', faults = 0)
      BY <2>2, <2>3, GoesOn
    <2>5. QED
      BY <2>1, <2>4
  <1>10. Shared(header, B, K, logFile, Txs, tx', faults = 0)
    <2>1. OneToOne(tx'[t].newPages) /\ tx'[t].st # "active"
      BY <1>2 DEF OneToOne
    <2>2. Shared(header, B, K, logFile, (Txs \ {t}) \cup {t}, tx', faults = 0)
      BY <1>2, <1>9, <2>1, HasNothing
    <2>3. (Txs \ {t}) \cup {t} = Txs
      OBVIOUS
    <2>4. QED
      BY <2>2, <2>3
  <1>11. SettledHeader' = header
    BY DEF SettledHeader
  <1>12. Settled'
    BY <1>5, <1>6, <1>7, <1>10, <1>11 DEF Settled
  <1>13. Underway'
    BY DEF Underway
  <1>14. Visible'
    <2> SUFFICES ASSUME NEW u \in Txs, NEW c \in Cols, c \in Writes(tx'[u]), ~tx'[u].snaps[c].loaded,
                        header.table[c] # NoPage, NEW e \in index'[header.table[c]]
                 PROVE  e.version <= tx'[u].snaps[c].version
      BY <1>11 DEF Visible
    <2>1. u # t /\ tx'[u] = tx[u]
      BY <1>1, <1>2
    <2>2. c \notin Writes(tx[t])
      BY <2>1, WriterIs
    <2>3. header.table[c] = SettledHeader.table[c] /\ header.table[c] \notin DOMAIN offs
      BY <2>2, WriterIs
    <2>4. header.table[c] \in DOMAIN index
      BY HeaderIs DEF IInv, Typed, Tables, Links, AllPages
    <2>5. e \in index[header.table[c]]
      BY <2>3, <2>4 DEF Confirm
    <2>6. QED
      BY <2>1, <2>3, <2>5 DEF Ownership, Visible
  <1>15. Calm'
    BY <1>1, <1>2 DEF Calm, Ownership
  <1>16. QED
    BY <1>4, <1>12, <1>13, <1>14, <1>15 DEF Ownership

\* A commit is confirmed.
LEMMA CommitConfirmGoesOn ==
    ASSUME IInv, IInv', Durable, Contents, Ownership, NEW t \in Txs, CommitConfirm(t)
    PROVE  Contents' /\ Ownership'
  <1>1. PICK id, offs : id = tx[t].id /\ offs = tx[t].dirty
    OBVIOUS
  <1>2. tx[t].st = "appended" /\ offs = OffsOf(tx[t])
    BY <1>1 DEF CommitConfirm, OffsOf
  <1>3. Logged(id, offs)
    BY <1>1, <1>2 DEF Contents, LoggedAll
  <1>4. Confirm(id, offs) /\ mu' = NoTx /\ Finish(t)
        /\ UNCHANGED <<logFile, logEnd, dataFile, header, broken, ckpt, faults>>
    BY <1>1 DEF CommitConfirm
  <1>5. QED
    BY <1>2, <1>3, <1>4, ConfirmGoesOn

\* What is given back is confirmed.
LEMMA ReturnConfirmGoesOn ==
    ASSUME IInv, IInv', Durable, Contents, Ownership, NEW t \in Txs, ReturnConfirm(t)
    PROVE  Contents' /\ Ownership'
  <1>1. PICK id, offs : id = tx[t].retID /\ offs = tx[t].offs
    OBVIOUS
  <1>2. tx[t].st = "returning" /\ offs = OffsOf(tx[t])
    BY <1>1 DEF ReturnConfirm, OffsOf
  <1>3. Logged(id, offs)
    BY <1>1, <1>2 DEF Contents, LoggedAll
  <1>4. Confirm(id, offs) /\ mu' = NoTx /\ Finish(t)
        /\ UNCHANGED <<logFile, logEnd, dataFile, header, broken, ckpt, faults>>
    BY <1>1 DEF ReturnConfirm
  <1>5. QED
    BY <1>2, <1>3, <1>4, ConfirmGoesOn

\* The writer could not sync the log: the header is what it was.
LEMMA SyncFailsGoesOn ==
    ASSUME IInv, Contents, Ownership, NEW t \in Txs, tx[t].st \in {"appended", "returning"}, Fault,
           header' = tx[t].save, mu' = NoTx, Finish(t), UNCHANGED <<fileVars, walVars, ckpt>>
    PROVE  Contents' /\ Ownership'
  <1> DEFINE K == Places(SettledHeader, Store)
  <1>1. tx'[t] = Idle /\ \A u \in Txs \ {t} : tx'[u] = tx[u]
    BY FinishIs
  <1>2. /\ tx'[t].st = "idle" /\ Writes(tx'[t]) = {} /\ Took(tx'[t]) = {} /\ tx'[t].newPages = <<>>
    BY <1>1, Emptied
  <1>3. UNCHANGED <<fileVars, index, confirmed, readVersion, ckpt>> /\ UNCHANGED logFile
    BY DEF walVars, fileVars
  <1>4. Contents' /\ SameLatest
    BY <1>1, <1>2, <1>3, CallContents
  <1>5. header' = SettledHeader /\ SettledHeader' = SettledHeader
    BY WriterIs DEF SettledHeader
  <1>6. faults' # 0
    BY DEF Fault, IInv, Typed
  <1>7. Shared(SettledHeader, Store, K, logFile, Txs, tx, faults = 0)
    BY DEF Ownership, Settled
  <1> HIDE DEF K
  <1>8. OneToOne(tx'[t].newPages)
    BY <1>2 DEF OneToOne
  <1>9. \A u \in Txs : Same(logFile, logFile', tx[u])
    BY <1>3 DEF Same
  <1>10. Stands(K, logFile, logFile', Txs, tx, tx', t, faults = 0, faults' = 0)
    BY <1>1, <1>2, <1>6, <1>8, <1>9 DEF Stands
  <1>11. Shared(SettledHeader, Store, K, logFile', Txs, tx', faults' = 0)
    BY <1>7, <1>10, GoesOn
  <1>12. Shared(header', Store, Places(header', Store), logFile', Txs, tx', faults' = 0)
    BY <1>5, <1>11 DEF K
  <1>13. Visible'
    BY <1>1, <1>2, <1>3, <1>5, VisibleStill DEF Ownership
  <1>14. Calm'
    BY <1>1, <1>2, <1>6 DEF Calm, Ownership
  <1>15. QED
    BY <1>4, <1>12, <1>13, <1>14, FreeOwn

\* The sync of a commit fails.
LEMMA CommitSyncGoesOn ==
    ASSUME IInv, Contents, Ownership, NEW t \in Txs, CommitSyncFails(t) \/ ReturnSyncFails(t)
    PROVE  Contents' /\ Ownership'
  BY SyncFailsGoesOn DEF CommitSyncFails, ReturnSyncFails

\* While a checkpoint runs nobody is at work, and it changes no page.
LEMMA CheckpointGoesOn ==
    ASSUME IInv, IInv', Durable, Contents, Ownership,
           CheckpointStart \/ CheckpointCopy \/ CheckpointSync \/ CheckpointTruncate
           \/ CheckpointClear \/ CheckpointFails
    PROVE  Contents' /\ Ownership'
  <1> DEFINE K == Places(header, Store)
  <1>1. Contents' /\ SameLatest
    BY CheckpointContents
  <1>2. \A u \in Txs : tx[u].st = "idle"
    BY CheckpointIs DEF CheckpointStart, CheckpointCopy, CheckpointSync, CheckpointTruncate, CheckpointClear,
                        CheckpointFails
  <1>3. UNCHANGED <<header, mu, broken, tx>> /\ (faults' = faults \/ Fault)
    BY DEF CheckpointStart, CheckpointCopy, CheckpointSync, CheckpointTruncate, CheckpointClear, CheckpointFails
  <1>4. mu = NoTx
    BY <1>2, SettledIs
  <1>5. faults' = 0 => faults = 0
    BY <1>3 DEF Fault, IInv, Typed
  <1>6. SettledHeader = header /\ Shared(header, Store, K, logFile, Txs, tx, faults = 0)
    BY <1>4 DEF Ownership, Settled, SettledHeader
  <1> HIDE DEF K
  <1>7. Stands(K, logFile, logFile', Txs, tx, tx', NoTx, faults = 0, faults' = 0)
    BY <1>2, <1>3, <1>5, TxsAssumption DEF Stands
  <1>8. Shared(header, Store, K, logFile', Txs, tx', faults' = 0)
    BY <1>6, <1>7, GoesOn
  <1>9. Shared(header', Store, Places(header', Store), logFile', Txs, tx', faults' = 0)
    BY <1>3, <1>8 DEF K
  <1>10. Visible'
    BY <1>2, <1>3, Emptied DEF IInv, Sound, Visible
  <1>11. Calm'
    BY <1>2, <1>3, <1>5 DEF Calm, Ownership
  <1>12. QED
    BY <1>1, <1>3, <1>4, <1>9, <1>10, <1>11, FreeOwn

\* A call that leaves the log and the store alone.
LEMMA CallGoesOn ==
    ASSUME Contents, NEW t \in Txs, tx[t].st \in {"active", "aborting"}, Stays(t),
           UNCHANGED <<fileVars, index, confirmed, readVersion, ckpt>>
    PROVE  Contents'
  BY CallContents DEF Stays, Contents, LoggedAll

\* A transaction that ends leaves the log as it is.
LEMMA OverContents ==
    ASSUME Contents, NEW t \in Txs, \A u \in Txs \ {t} : tx'[u] = tx[u], tx'[t].st \in {"idle", "aborting"},
           UNCHANGED <<fileVars, index, confirmed, readVersion, ckpt>>
    PROVE  Contents'
  BY CallContents

\* A replaced snapshot leaves the log as it is.
LEMMA TurnedContents ==
    ASSUME IInv, Contents, NEW t \in Txs, tx[t].st \in {"active", "aborting"}, NEW c \in Cols, NEW s,
           tx' = [tx EXCEPT ![t].snaps[c] = s], UNCHANGED restVars
    PROVE  Contents'
  BY SnapTurned, CallGoesOn DEF Turned, Stays, restVars, walVars

\* The calls that read.
LEMMA SnapshotGoesOn ==
    ASSUME IInv, Contents, Ownership, NEW t \in Txs, NEW c \in Cols,
           (\E mode \in {"read", "write"} : Snapshot(t, c, mode)) \/ LoadCollection(t, c)
           \/ \E p \in Pages : Update(t, c, p)
    PROVE  Contents' /\ Ownership'
  <1>1. ASSUME NEW mode \in {"read", "write"}, Snapshot(t, c, mode) PROVE Contents'
    <2>1. tx[t].st = "active" /\ UNCHANGED restVars
      BY <1>1 DEF Snapshot, Active
    <2>2. PICK s : tx' = [tx EXCEPT ![t].snaps[c] = s]
      BY <1>1 DEF Snapshot
    <2>3. QED
      BY <2>1, <2>2, TurnedContents
  <1>2. ASSUME LoadCollection(t, c) PROVE Contents'
    <2>1. tx[t].st \in {"active", "aborting"} /\ UNCHANGED restVars
      BY <1>2, OpeningIs DEF LoadCollection, Opening
    <2>2. PICK s : tx' = [tx EXCEPT ![t].snaps[c] = s]
      BY <1>2 DEF LoadCollection
    <2>3. QED
      BY <2>1, <2>2, TurnedContents
  <1>3. ASSUME NEW p \in Pages, Update(t, c, p) PROVE Contents'
    <2>1. tx[t].st = "active" /\ UNCHANGED restVars
      BY <1>3 DEF Update, Active
    <2> DEFINE n == [tx[t].snaps[c] EXCEPT !.local = Put(tx[t].snaps[c].local, p, Data(tx[t].id))]
    <2>2. PICK s : tx' = [tx EXCEPT ![t].snaps[c] = s]
      BY <1>3 DEF Update
    <2>3. QED
      BY <2>1, <2>2, TurnedContents
  <1>4. QED
    BY <1>1, <1>2, <1>3, SnapshotOwn, LoadOwn, UpdateOwn

\* What changes the header in memory or the pages of a transaction, and what ends one.
LEMMA ChangeGoesOn ==
    ASSUME IInv, Contents, Ownership, NEW t \in Txs, NEW c \in Cols,
           CreateCollection(t, c) \/ Grow(t, c) \/ Drop(t, c) \/ \E p \in Pages : Shrink(t, c, p)
    PROVE  Contents' /\ Ownership'
  BY CreateOwn, GrowOwn, DropOwn, ShrinkOwn, OpeningIs, CallGoesOn DEF CreateCollection, Grow,
     Drop, Shrink, restVars, walVars, CanLock, Active

\* The calls that end a transaction without writing.
LEMMA EndGoesOn ==
    ASSUME IInv, Contents, Ownership, NEW t \in Txs, CommitNothing(t) \/ Rollback(t) \/ GiveUp(t)
    PROVE  Contents' /\ Ownership'
  BY CommitNothingOwn, RollbackOwn, GiveUpOwn, TxIs, Emptied, OverContents DEF CommitNothing,
     Rollback, GiveUp, restVars, walVars, IInv, Typed, Finish

\* The call that begins one.
LEMMA BeginGoesOn ==
    ASSUME IInv, Contents, Ownership, NEW t \in Txs, Begin(t)
    PROVE  Contents' /\ Ownership'
  <1>1. Typed /\ tx \in [Txs -> TxRecs]
    BY DEF IInv, Typed
  <1>2. PICK id : id = lastTxID + 1
    OBVIOUS
  <1> DEFINE r == [Idle EXCEPT !.st = "active", !.id = id]
  <1>3. tx' = [tx EXCEPT ![t] = r] /\ UNCHANGED <<fileVars, index, confirmed, readVersion, ckpt>>
    BY <1>2 DEF Begin
  <1>4. r.st = "active" /\ r.id = id /\ r.dirty = <<>>
    BY DEF Idle
  <1> HIDE DEF r
  <1>5. tx'[t] = r /\ \A u \in Txs \ {t} : tx'[u] = tx[u]
    BY <1>1, <1>3
  <1>6. Logged(id, r.dirty)
    BY <1>1, <1>2, <1>4, EmptyMap, NotLogged
  <1>7. Contents'
    BY <1>3, <1>4, <1>5, <1>6, CallContents
  <1>8. QED
    BY <1>7, BeginOwn

\* A database just created and filled.
LEMMA FirstFree ==
    \E fs \in Seq(Pages) :
              /\ OneToOne(fs) /\ InitHeader.free = First(fs, NoPage) /\ Chain(InitData, fs, NoPage)
              /\ ToSet(fs) = 3 .. InitHeader.last
  <1>1. CASE MaxPage > 3
    <2> DEFINE fs == <<3, 4>>
    <2>1. 3 \in Pages /\ 4 \in Pages /\ 3 # Header /\ 4 # Header
      BY <1>1, BoundsAssumption DEF Pages, Header
    <2>2. fs \in Seq(Pages) /\ Len(fs) = 2 /\ fs[1] = 3 /\ fs[2] = 4 /\ DOMAIN fs = {1, 2} /\ fs # <<>>
      BY <2>1
    <2> HIDE DEF fs
    <2>3. OneToOne(fs)
      BY <2>2 DEF OneToOne
    <2>4. InitHeader.free = 3 /\ InitHeader.last = 4
      BY <1>1 DEF InitHeader
    <2>5. InitData[3] = Empty(4) /\ InitData[4] = Empty(NoPage)
      BY <1>1, <2>1 DEF InitData
    <2>6. After(fs, 1, NoPage) = 4 /\ After(fs, 2, NoPage) = NoPage
      BY <2>2 DEF After
    <2>7. \A i \in 1 .. Len(fs) : i = 1 \/ i = 2
      BY <2>2
    <2>8. Chain(InitData, fs, NoPage)
      BY <2>2, <2>5, <2>6, <2>7 DEF Chain
    <2>9. ToSet(fs) = 3 .. 4
      BY <2>2 DEF ToSet
    <2>10. QED
      BY <2>2, <2>3, <2>4, <2>8, <2>9 DEF First
  <1>2. CASE ~ (MaxPage > 3)
    <2> DEFINE fs == <<>>
    <2>1. fs \in Seq(Pages) /\ Len(fs) = 0 /\ DOMAIN fs = {} /\ ToSet(fs) = {} /\ OneToOne(fs)
      BY DEF ToSet, OneToOne
    <2>2. InitHeader.free = NoPage /\ InitHeader.last = 2 /\ 3 .. 2 = {}
      BY <1>2 DEF InitHeader
    <2>3. Chain(InitData, fs, NoPage)
      BY <2>1 DEF Chain
    <2>4. QED
      BY <2>1, <2>2, <2>3 DEF First
  <1>3. QED
    BY <1>1, <1>2

\* The collection the database is created with.
LEMMA FirstPlaces ==
    ASSUME NEW B \in Stores, \A p \in Pages : B[p] = InitData[p], NEW K, K = Places(InitHeader, B)
    PROVE  /\ K[Names[1]].page = 1 /\ K[Names[1]].body = Coll({2})
           /\ \A c \in Cols \ {Names[1]} : K[c].page = NoPage
           /\ Of(K, Names[1]) = {1, 2} /\ \A c \in Cols \ {Names[1]} : Of(K, c) = {}
  <1>1. /\ InitHeader.table[Names[1]] = 1 /\ \A c \in Cols \ {Names[1]} : InitHeader.table[c] = NoPage
        /\ Names[1] \in Cols
    BY SomeCols DEF InitHeader
  <1>2. 1 \in Pages /\ 1 # Header /\ 1 # NoPage
    BY PageIds DEF NoPage
  <1>3. B[1] = Coll({2})
    BY <1>2 DEF InitData
  <1>4. \A c \in Cols : K[c] = Place(InitHeader, B, c)
    BY DEF Places
  <1>9. \A c \in Cols : Place(InitHeader, B, c).page = InitHeader.table[c]
    BY DEF Place
  <1>10. Place(InitHeader, B, Names[1]).body = Coll({2})
    BY <1>1, <1>2, <1>3 DEF Place
  <1>5. K[Names[1]].page = 1 /\ K[Names[1]].body = Coll({2})
    BY <1>1, <1>4, <1>9, <1>10
  <1>6. \A c \in Cols \ {Names[1]} : K[c].page = NoPage
    BY <1>1, <1>4, <1>9
  <1>7. Of(K, Names[1]) = {1, 2}
    BY <1>2, <1>5 DEF Coll, Of
  <1>8. QED
    BY <1>5, <1>6, <1>7 DEF Of

\* Who has what in it.
LEMMA FirstShared ==
    ASSUME NEW B \in Stores, \A p \in Pages : B[p] = InitData[p], NEW K, K = Places(InitHeader, B),
           NEW X, \A t \in Txs : X[t] = Idle, NEW log
    PROVE  Shared(InitHeader, B, K, log, Txs, X, TRUE)
  <1>1. /\ K[Names[1]].page = 1 /\ K[Names[1]].body = Coll({2}) /\ Names[1] \in Cols
        /\ \A c \in Cols \ {Names[1]} : K[c].page = NoPage
        /\ Of(K, Names[1]) = {1, 2} /\ \A c \in Cols \ {Names[1]} : Of(K, c) = {}
    BY FirstPlaces, SomeCols
  <1>2. PICK fs \in Seq(Pages) :
            /\ OneToOne(fs) /\ InitHeader.free = First(fs, NoPage) /\ Chain(InitData, fs, NoPage)
            /\ ToSet(fs) = 3 .. InitHeader.last
    BY FirstFree
  <1>3. \A t \in Txs : Took(X[t]) = {} /\ Writes(X[t]) = {} /\ X[t].newPages = <<>> /\ X[t].st = "idle"
    BY Emptied
  <1>4. InitHeader.last \in {2, 4}
    BY DEF InitHeader
  <1>5. Chain(B, fs, NoPage)
    BY <1>2, LenProperties DEF Chain
  <1>6. ToSet(fs) \subseteq 1 .. InitHeader.last /\ ToSet(fs) \cap {1, 2} = {}
        /\ 1 .. InitHeader.last \subseteq ToSet(fs) \cup {1, 2} /\ {1, 2} \subseteq 1 .. InitHeader.last
    BY <1>2, <1>4
  <1>7. 1 .. InitHeader.last \subseteq ToSet(fs) \cup Collected(K) \cup Taken(Txs, X)
    BY <1>1, <1>6 DEF Collected
  <1>8. FreeList(InitHeader, B, K, Txs, X, TRUE, fs)
    BY <1>1, <1>2, <1>3, <1>5, <1>6, <1>7 DEF FreeList
  <1>9. Collections(InitHeader, K)
    BY <1>1, <1>6 DEF Coll, Collections
  <1>10. Takers(InitHeader, K, Txs, X)
    <2>1. \A t \in Txs : OneToOne(X[t].newPages)
      BY <1>3 DEF OneToOne
    <2>2. QED
      BY <1>3, <2>1 DEF Takers
  <1>11. QED
    BY <1>3, <1>8, <1>9, <1>10 DEF Shared

\* The invariant holds of it.
LEMMA FirstContents == ASSUME Init PROVE Contents /\ Ownership
  <1>1. /\ logFile = <<>> /\ logEnd = 0 /\ dataFile = InitData /\ readVersion = 0 /\ header = InitHeader
        /\ mu = NoTx /\ broken = FALSE /\ ckpt.st = "off" /\ faults = 0
        /\ \A p \in Pages : index[p] = {}
        /\ \A t \in Txs : tx[t] = Idle
    BY DEF Init
  <1>2. DOMAIN logFile = {} /\ 1 .. logEnd = {}
    BY <1>1
  <1>3. Contents
    BY <1>1, <1>2, Emptied DEF Ordered, CutInFront, Indexed, NoBlanks, LoggedAll, Copied, Contents
  <1>4. \A p \in Pages : Latest(p) = InitData[p]
    BY <1>1 DEF Latest, readAt, LookupVersion, Readable
  <1>5. Store \in Stores /\ \A p \in Pages : Store[p] = InitData[p]
    BY <1>4, Initially, StoreIs DEF IInv, Store
  <1>6. Shared(InitHeader, Store, Places(InitHeader, Store), logFile, Txs, tx, TRUE)
    BY <1>1, <1>5, FirstShared
  <1>7. SettledHeader = InitHeader
    BY <1>1 DEF SettledHeader
  <1>8. Settled
    BY <1>1, <1>6, <1>7 DEF Settled
  <1>9. Underway /\ Visible /\ Calm
    BY <1>1, Emptied DEF Underway, Visible, Calm
  <1>10. QED
    BY <1>3, <1>8, <1>9 DEF Ownership

\* Nothing happens.
LEMMA NothingGoesOn ==
    ASSUME Contents, Ownership, UNCHANGED vars
    PROVE  Contents' /\ Ownership'
  <1>1. UNCHANGED <<logFile, logEnd, dataFile, index, confirmed, readVersion, ckpt, tx, header, mu, broken, faults>>
    BY DEF vars, fileVars, walVars
  <1>2. \A p \in Pages : Latest(p)' = Latest(p)
    BY <1>1 DEF Latest, readAt, LookupVersion, Readable, readLog
  <1>3. Contents'
    BY <1>1, <1>2 DEF Contents, Ordered, CutInFront, Indexed, NoBlanks, Gone, LoggedAll, Logged,
       Copied
  <1>4. SettledHeader' = SettledHeader /\ Store' = Store
    BY <1>1, <1>2 DEF SettledHeader, Store
  <1>5. Settled'
    BY <1>1, <1>4 DEF Ownership, Settled
  <1>6. Underway'
    BY <1>1, <1>2, <1>4 DEF Coming, OffsOf, Ownership, Underway
  <1>7. Visible' /\ Calm'
    BY <1>1, <1>4 DEF Ownership, Visible, Calm
  <1>8. QED
    BY <1>3, <1>5, <1>6, <1>7 DEF Ownership

\* One step, in a run of the program without a crash in it.
LEMMA PagesStep ==
    ASSUME Scanners = {}, CrashModes = {}, IInv, IInv', Durable, Contents, Ownership, [Next]_vars
    PROVE  Contents' /\ Ownership'
  <1>1. ASSUME NEW t \in Txs, NEW c \in Cols,
               \/ \E mode \in {"read", "write"} : Snapshot(t, c, mode)
               \/ LoadCollection(t, c) \/ CreateCollection(t, c) \/ Grow(t, c)
               \/ Drop(t, c) \/ Scan(t, c)
               \/ \E p \in Pages : Update(t, c, p) \/ Shrink(t, c, p)
        PROVE  Contents' /\ Ownership'
    BY <1>1, SnapshotGoesOn, ChangeGoesOn DEF Scan
  <1>2. ASSUME NEW t \in Txs,
               \/ Begin(t) \/ Safepoint(t)
               \/ CommitNothing(t) \/ CommitAppend(t) \/ CommitConfirm(t) \/ CommitSyncFails(t)
               \/ Rollback(t) \/ GiveUp(t) \/ ReturnAppend(t) \/ ReturnConfirm(t) \/ ReturnSyncFails(t)
        PROVE  Contents' /\ Ownership'
    BY <1>2, BeginGoesOn, SafepointGoesOn, EndGoesOn, CommitAppendGoesOn, CommitConfirmGoesOn,
       CommitSyncGoesOn, ReturnAppendGoesOn, ReturnConfirmGoesOn
  <1>3. ~CrashAndReopen
    BY DEF CrashAndReopen
  <1>4. QED
    BY <1>1, <1>2, <1>3, CheckpointGoesOn, NothingGoesOn DEF Next

\* In a run of the program without a crash in it, every page of the store is where the
\* header, the collections, the transactions and the log say it is.
THEOREM PagesAreAccounted ==
    ASSUME Scanners = {}, CrashModes = {}
    PROVE  Spec => [](Contents /\ Ownership)
  <1>1. Init => Durable
    BY DEF Init, CuttingOff, AllPages, Durable
  <1>2. IInv /\ Durable /\ [Next]_vars => Durable'
    BY DurableStep
  <1>3. Init => Contents /\ Ownership
    BY FirstContents
  <1>4. IInv /\ IInv' /\ Durable /\ Contents /\ Ownership /\ [Next]_vars => Contents' /\ Ownership'
    BY PagesStep
  <1>5. QED
    BY <1>1, <1>2, <1>3, <1>4, Invariant, PTL DEF Spec

\* Following the free list.
LEMMA ShortList ==
    ASSUME NEW n \in Nat, n <= MaxPage, NEW fs \in Seq(Pages), OneToOne(fs), ToSet(fs) \subseteq 1 .. n
    PROVE  Len(fs) \in 0 .. MaxPage
  <1> DEFINE m == Len(fs)
  <1>1. m \in Nat /\ DOMAIN fs = 1 .. m /\ fs \in [1 .. m -> Pages]
    BY LenProperties
  <1>2. \A i \in 1 .. m : fs[i] \in 1 .. n
    BY <1>1 DEF ToSet
  <1>3. fs \in Injection(1 .. m, 1 .. n)
    BY <1>1, <1>2 DEF OneToOne, Injection, IsInjective
  <1>4. IsFiniteSet(1 .. n) /\ Cardinality(1 .. n) = n /\ Cardinality(1 .. m) = m
    <2>1. ASSUME NEW k \in Nat PROVE IsFiniteSet(1 .. k) /\ Cardinality(1 .. k) = k
      BY FS_Interval
    <2>2. QED
      BY <1>1, <2>1
  <1>5. Cardinality(1 .. m) <= Cardinality(1 .. n)
    BY <1>3, <1>4, FS_Injection
  <1>6. m <= n
    BY <1>4, <1>5
  <1>7. QED
    BY <1>1, <1>6, BoundsAssumption

\* What the walk goes through, and where it stops.
WalkOf(fs, n) == IF n < Len(fs) THEN fs[n + 1] ELSE NoPage

\* Walk, of a chain, goes through it and then stays at its end.
LEMMA WalkIs ==
    ASSUME NEW fs \in Seq(Pages), header.free = First(fs, NoPage), Chain(Store, fs, NoPage)
    PROVE  \A n \in 0 .. MaxPage : Walk[n] = WalkOf(fs, n)
  <1> DEFINE w == [n \in 0 .. MaxPage |-> WalkOf(fs, n)]
             m == Len(fs)
  <1>1. m \in Nat /\ MaxPage \in Nat /\ \A i \in 1 .. m : fs[i] \in Pages
    BY LenProperties, BoundsAssumption
  <1>2. \A i \in 1 .. m : Latest(fs[i]) = Empty(After(fs, i, NoPage))
    BY <1>1 DEF Chain, Store
  <1>3. WalkOf(fs, 0) = header.free
    BY <1>1, EmptySeq DEF WalkOf, First
  <1>4. ASSUME NEW n \in Nat, n > 0 PROVE WalkOf(fs, n) = Follow(WalkOf(fs, n - 1))
    <2>1. CASE n <= m
      <3>1. n \in 1 .. m /\ n - 1 < m /\ n - 1 + 1 = n
        BY <1>1, <1>4, <2>1
      <3>2. WalkOf(fs, n - 1) = fs[n]
        BY <3>1 DEF WalkOf
      <3>3. Latest(fs[n]).kind = "empty" /\ Latest(fs[n]).next = After(fs, n, NoPage)
        <4>1. PICK x : x = After(fs, n, NoPage)
          OBVIOUS
        <4>2. Latest(fs[n]) = Empty(x)
          BY <1>2, <3>1, <4>1
        <4>3. QED
          BY <4>1, <4>2 DEF Empty
      <3>4. WalkOf(fs, n) = After(fs, n, NoPage)
        BY DEF WalkOf, After
      <3>5. QED
        BY <1>1, <3>1, <3>2, <3>3, <3>4 DEF Follow
    <2>2. CASE ~ (n <= m)
      BY <1>1, <1>4, <2>2, PageIds DEF WalkOf, Follow
    <2>3. QED
      BY <2>1, <2>2
  <1>5. w = [n \in 0 .. MaxPage |-> IF n = 0 THEN header.free ELSE Follow(w[n - 1])]
    BY <1>1, <1>3, <1>4
  <1> HIDE DEF w
  <1>6. Walk = [n \in 0 .. MaxPage |-> IF n = 0 THEN header.free ELSE Follow(Walk[n - 1])]
    BY <1>5 DEF Walk
  <1> DEFINE X == {n \in Nat : n <= MaxPage => Walk[n] = WalkOf(fs, n)}
  <1>7. 0 \in X
    BY <1>1, <1>3, <1>6
  <1>8. ASSUME NEW n \in X PROVE n + 1 \in X
    BY <1>1, <1>4, <1>6
  <1>9. X = Nat
    BY <1>7, <1>8, AllNaturals
  <1>10. QED
    BY <1>1, <1>9

\* It ends, and the free pages are those of the chain.
LEMMA FreePagesAre ==
    ASSUME NEW fs \in Seq(Pages), header.free = First(fs, NoPage), Chain(Store, fs, NoPage),
           Len(fs) \in 0 .. MaxPage
    PROVE  NoPage \in {Walk[n] : n \in 0 .. MaxPage} /\ FreePages = ToSet(fs)
  <1> DEFINE m == Len(fs)
  <1>1. m \in Nat /\ MaxPage \in Nat /\ DOMAIN fs = 1 .. m /\ \A i \in 1 .. m : fs[i] \in Pages
    BY LenProperties, BoundsAssumption
  <1>2. \A n \in 0 .. MaxPage : Walk[n] = WalkOf(fs, n)
    BY WalkIs
  <1>3. Walk[m] = NoPage
    BY <1>1, <1>2 DEF WalkOf
  <1>4. ASSUME NEW n \in 0 .. MaxPage, Walk[n] # NoPage PROVE Walk[n] \in ToSet(fs)
    <2>1. n < m /\ Walk[n] = fs[n + 1]
      BY <1>2, <1>4 DEF WalkOf
    <2>2. n + 1 \in 1 .. m
      BY <1>1, <2>1
    <2>3. QED
      BY <1>1, <2>1, <2>2 DEF ToSet
  <1>5. ASSUME NEW i \in 1 .. m PROVE fs[i] \in FreePages
    <2>1. i - 1 \in 0 .. MaxPage /\ i - 1 < m /\ i - 1 + 1 = i
      BY <1>1
    <2>2. Walk[i - 1] = fs[i]
      BY <1>2, <2>1 DEF WalkOf
    <2>3. fs[i] # NoPage
      BY <1>1, PageIds
    <2>4. QED
      BY <2>1, <2>2, <2>3 DEF FreePages
  <1>6. FreePages \subseteq ToSet(fs)
    BY <1>4 DEF FreePages
  <1>7. ToSet(fs) \subseteq FreePages
    BY <1>1, <1>5 DEF ToSet
  <1>8. QED
    BY <1>3, <1>6, <1>7

\* The pages with an owner are those of the collections.
LEMMA OwnedAre ==
    ASSUME NEW K, K = Places(SettledHeader, Store), Collections(SettledHeader, K),
           SettledHeader \in Headers
    PROVE  Owned = Collected(K) /\ \A c \in Cols : OwnedBy(c) = Of(K, c)
  <1>1. ASSUME NEW c \in Cols PROVE OwnedBy(c) = Of(K, c)
    <2>1. K[c] = Place(SettledHeader, Store, c)
      BY DEF Places
    <2>2. CASE SettledHeader.table[c] = NoPage
      BY <2>1, <2>2 DEF Place, Of, OwnedBy
    <2>3. CASE SettledHeader.table[c] # NoPage
      BY <2>1, <2>3 DEF Headers, Tables, Links, Place, Store, Collections, Of, OwnedBy
    <2>4. QED
      BY <2>2, <2>3
  <1>2. QED
    BY <1>1 DEF Owned, Collected

\* What the runs check follows from the invariant.
LEMMA SoundlyFree ==
    ASSUME IInv, Ownership
    PROVE  FreeListSound /\ OneOwner /\ NoLeak
  <1>1. PICK K : K = Places(SettledHeader, Store)
    OBVIOUS
  <1>2. Shared(SettledHeader, Store, K, logFile, Txs, tx, faults = 0) /\ SettledHeader \in Headers
    BY <1>1, SettledIs DEF Ownership, Settled
  <1>3. Collections(SettledHeader, K) /\ Takers(SettledHeader, K, Txs, tx)
    BY <1>2 DEF Shared
  <1>4. Owned = Collected(K) /\ \A c \in Cols : OwnedBy(c) = Of(K, c)
    BY <1>1, <1>2, <1>3, OwnedAre
  <1>5. \A t \in Txs : Held(t) = Took(tx[t])
    BY DEF Held, Took
  <1>6. OneOwner
    BY <1>3, <1>4, <1>5 DEF OneOwner, Collections, Takers, Collected
  <1>7. ASSUME mu = NoTx
        PROVE  /\ NoPage \in {Walk[n] : n \in 0 .. MaxPage}
               /\ FreePages \cap (Owned \cup UNION {Held(t) : t \in Txs}) = {}
               /\ FreePages \subseteq 1 .. header.last
               /\ faults = 0 => 1 .. header.last \subseteq Owned \cup FreePages \cup UNION {Held(t) : t \in Txs}
    <2>1. SettledHeader = header
      BY <1>7 DEF SettledHeader
    <2>2. PICK fs \in Seq(Pages) : FreeList(header, Store, K, Txs, tx, faults = 0, fs)
      BY <1>2, <2>1 DEF Shared
    <2>3. /\ OneToOne(fs) /\ header.free = First(fs, NoPage) /\ Chain(Store, fs, NoPage)
          /\ ToSet(fs) \subseteq 1 .. header.last
          /\ \A c \in Cols : ToSet(fs) \cap Of(K, c) = {}
          /\ \A t \in Txs : ToSet(fs) \cap Took(tx[t]) = {}
          /\ faults = 0 => 1 .. header.last \subseteq ToSet(fs) \cup Collected(K) \cup Taken(Txs, tx)
      BY <2>2 DEF FreeList
    <2>4. header.last \in Nat /\ header.last <= MaxPage
      BY <1>2, <2>1 DEF Headers, Pages
    <2>5. Len(fs) \in 0 .. MaxPage
      BY <2>3, <2>4, ShortList
    <2>6. NoPage \in {Walk[n] : n \in 0 .. MaxPage} /\ FreePages = ToSet(fs)
      BY <2>3, <2>5, FreePagesAre
    <2>7. Taken(Txs, tx) = UNION {Held(t) : t \in Txs}
      BY <1>5 DEF Taken
    <2>8. ToSet(fs) \cap Owned = {}
      BY <1>4, <2>3 DEF Owned
    <2>9. ToSet(fs) \cap UNION {Held(t) : t \in Txs} = {}
      BY <1>5, <2>3
    <2>10. QED
      BY <1>4, <2>3, <2>6, <2>7, <2>8, <2>9
  <1>8. QED
    BY <1>6, <1>7 DEF FreeListSound, NoLeak

\* snapshot.go newPage, DeletePage and tx.go commit, returnPages: following the
\* free list from the header ends, meets only empty pages and none of a collection,
\* whatever transactions take, delete, spill, commit and give back and whatever
\* writes and syncs fail, as long as there is no crash and no scan.
THEOREM TheFreeListIsSound ==
    ASSUME Scanners = {}, CrashModes = {}
    PROVE  Spec => []FreeListSound
  BY PagesAreAccounted, Invariant, SoundlyFree, PTL

\* In the same runs no two collections share a page, and none has a page that an
\* open transaction took.
THEOREM EachPageHasOneOwner ==
    ASSUME Scanners = {}, CrashModes = {}
    PROVE  Spec => []OneOwner
  BY PagesAreAccounted, Invariant, SoundlyFree, PTL

\* In the same runs, as long as nothing failed, every page of the file is in a
\* collection, in the free list, or taken by a transaction that is still open.
THEOREM NoPageIsLost ==
    ASSUME Scanners = {}, CrashModes = {}
    PROVE  Spec => []NoLeak
  BY PagesAreAccounted, Invariant, SoundlyFree, PTL

-----------------------------------------------------------------------------
(* What a commit that writes nothing leaves.                               *)

\* While a transaction has a collection locked, nobody confirms a page of it: every
\* version of one is a version its snapshot sees.
VersionsKept ==
    \A t \in Txs, c \in Cols : c \in Writes(tx[t]) =>
        \A q \in Of(Places(SettledHeader, Store), c) :
            \A e \in index[q] : e.version <= tx[t].snaps[c].version

\* A snapshot for writing that was one before, or was opened at the version of now.
Older(r, r2) ==
    \A c \in Writes(r2) : \/ r2.snaps[c].version = readVersion
                          \/ c \in Writes(r) /\ r2.snaps[c].version = r.snaps[c].version

\* The pages of the settled collections are pages.
LEMMA OfPages ==
    ASSUME IInv, Ownership, NEW c \in Cols
    PROVE  Of(Places(SettledHeader, Store), c) \subseteq Pages
  <1>1. SettledHeader \in Headers
    BY SettledIs
  <1>2. SettledHeader.last \in Pages
    BY <1>1, HeaderIs
  <1>3. Of(Places(SettledHeader, Store), c) \subseteq 1 .. SettledHeader.last
    BY DEF Ownership, Settled, Shared, Collections
  <1>4. QED
    BY <1>2, <1>3, BoundsAssumption DEF Pages

\* Places are the same when the table and what is read are.
LEMMA SamePlaces ==
    ASSUME SameLatest, SettledHeader'.table = SettledHeader.table
    PROVE  Places(SettledHeader', Store') = Places(SettledHeader, Store)
  <1>1. Store' = Store
    BY DEF SameLatest, Store
  <1>2. \A h, h2, B : (\A c \in Cols : h2.table[c] = h.table[c]) => Places(h2, B) = Places(h, B)
    BY PlacesSame
  <1>3. QED
    BY <1>1, <1>2

\* No version is added.
LEMMA VersionsStill ==
    ASSUME IInv, Ownership, VersionsKept, SameLatest, SettledHeader'.table = SettledHeader.table,
           UNCHANGED <<index, readVersion>>, \A t \in Txs : Older(tx[t], tx'[t])
    PROVE  VersionsKept'
  <1> DEFINE K == Places(SettledHeader, Store)
  <1>1. Places(SettledHeader', Store') = K
    BY SamePlaces
  <1>2. \A c \in Cols : Of(K, c) \subseteq AllPages
    BY OfPages DEF AllPages
  <1>3. ASSUME NEW t \in Txs, NEW c \in Cols, c \in Writes(tx'[t]), NEW q \in Of(K, c), NEW e \in index[q]
        PROVE  e.version <= tx'[t].snaps[c].version
    <2>1. e.version <= readVersion
      BY <1>2 DEF IInv, Typed
    <2>2. c \in Writes(tx[t]) => e.version <= tx[t].snaps[c].version
      BY DEF VersionsKept
    <2>3. QED
      BY <1>3, <2>1, <2>2 DEF Older
  <1> HIDE DEF K
  <1>4. \A t \in Txs, c \in Cols : c \in Writes(tx'[t]) =>
            \A q \in Of(Places(SettledHeader', Store'), c) :
                \A e \in index'[q] : e.version <= tx'[t].snaps[c].version
    BY <1>1, <1>3
  <1>5. QED
    BY <1>4 DEF VersionsKept

\* What leaves the files alone leaves the pages as they are read.
LEMMA FilesSame ==
    ASSUME UNCHANGED <<fileVars, index, readVersion>>
    PROVE  SameLatest
  BY DEF fileVars, SameLatest, Latest, Readable, readAt, readLog, LookupVersion

\* A step of a transaction that is not writing the log.
LEMMA CallVersions ==
    ASSUME IInv, Ownership, VersionsKept, NEW t \in Txs, tx[t].st \notin {"appended", "returning"},
           SameLatest, UNCHANGED <<index, readVersion>>, Older(tx[t], tx'[t]),
           \A u \in Txs \ {t} : tx'[u] = tx[u],
           \/ UNCHANGED <<header, mu>>
           \/ mu = NoTx /\ mu' = NoTx /\ header'.table = header.table
           \/ mu = NoTx /\ mu' = t /\ tx'[t].save = header
    PROVE  VersionsKept'
  <1>1. \A u \in Txs : Older(tx[u], tx'[u])
    BY DEF Older
  <1>2. mu # NoTx => mu \in Txs \ {t}
    BY SettledIs
  <1>3. SettledHeader'.table = SettledHeader.table
    BY <1>2, TxsAssumption DEF SettledHeader
  <1>4. QED
    BY <1>1, <1>3, VersionsStill

\* One snapshot is replaced by another one of its version, or of the version of now.
LEMMA TurnedOlder ==
    ASSUME NEW r, NEW r2, NEW c \in Cols, NEW s, Turned(r, r2, c, s),
           s.mode = "write" => \/ s.version = readVersion
                               \/ r.snaps[c].mode = "write" /\ s.version = r.snaps[c].version
    PROVE  Older(r, r2)
  BY DEF Turned, Older, Writes

\* Changing a snapshot keeps its mode and version.
LEMMA KeepsVersion ==
    ASSUME NEW s \in Snaps
    PROVE  /\ \A x : [s EXCEPT !.loaded = x].version = s.version /\ [s EXCEPT !.loaded = x].mode = s.mode
           /\ \A x : [s EXCEPT !.local = x].version = s.version /\ [s EXCEPT !.local = x].mode = s.mode
           /\ \A x, y, z : LET n == [s EXCEPT !.loaded = x, !.coll = y, !.body = z]
                           IN  n.version = s.version /\ n.mode = s.mode
           /\ \A x, y, z : LET n == [s EXCEPT !.body = x, !.collDirty = y, !.local = z]
                           IN  n.version = s.version /\ n.mode = s.mode
           /\ \A x, y : LET n == [s EXCEPT !.body = x, !.collDirty = y]
                        IN  n.version = s.version /\ n.mode = s.mode
           /\ \A x, y, z, w : LET n == [s EXCEPT !.loaded = x, !.coll = y, !.body = z, !.collDirty = w]
                              IN  n.version = s.version /\ n.mode = s.mode
  BY DEF Snaps

\* The table of the header does not change with what a transaction takes.
LEMMA AllocTable ==
    ASSUME IInv, NEW t \in Txs, NEW c \in Cols
    PROVE  Alloc(t, c).header.table = header.table
  <1>1. header \in Headers
    BY DEF IInv, Typed
  <1>2. \A x : [header EXCEPT !.free = x].table = header.table /\ [header EXCEPT !.last = x].table = header.table
    BY <1>1 DEF Headers
  <1>3. Alloc(t, c).header \in {header} \cup {[header EXCEPT !.free = x] : x \in {getPage(t, c, header.free, TRUE).next}}
            \cup {[header EXCEPT !.last = x] : x \in {header.last + 1}}
    BY DEF Alloc
  <1>4. QED
    BY <1>2, <1>3

\* The calls that replace one snapshot.
LEMMA ReadVersions ==
    ASSUME IInv, Ownership, VersionsKept, NEW t \in Txs, NEW c \in Cols,
           (\E mode \in {"read", "write"} : Snapshot(t, c, mode)) \/ LoadCollection(t, c)
           \/ \E p \in Pages : Update(t, c, p)
    PROVE  VersionsKept'
  <1> DEFINE s == tx[t].snaps[c]
  <1>1. tx[t].st \in {"active", "aborting"} /\ UNCHANGED restVars /\ UNCHANGED header
    BY OpeningIs DEF Snapshot, LoadCollection, Update, Opening, Active
  <1>2. s \in Snaps
    BY TxIs DEF IInv, Typed
  <1>3. NoSnap.mode = "none" /\ \A mode \in {"read", "write"} : NewSnap(mode).version = readVersion
    BY DEF NoSnap, NewSnap
  <1>4. PICK n : /\ tx' = [tx EXCEPT ![t].snaps[c] = n]
                 /\ n.mode = "write" => n.version = readVersion \/ (s.mode = "write" /\ n.version = s.version)
    <2> DEFINE Fits(n) == n.mode = "write" => n.version = readVersion \/ (s.mode = "write" /\ n.version = s.version)
               Turns(n) == tx' = [tx EXCEPT ![t].snaps[c] = n]
    <2>1. ASSUME NEW mode \in {"read", "write"}, Snapshot(t, c, mode)
          PROVE  Turns(NewSnap(mode)) \/ Turns(NoSnap)
      BY <2>1 DEF Snapshot
    <2>2. Fits(NoSnap) /\ \A mode \in {"read", "write"} : Fits(NewSnap(mode))
      BY <1>3
    <2>3. ASSUME LoadCollection(t, c)
          PROVE  \E x, y : \/ Turns([s EXCEPT !.loaded = TRUE])
                           \/ Turns(NoSnap)
                           \/ Turns([s EXCEPT !.loaded = TRUE, !.coll = x, !.body = y])
      BY <2>3 DEF LoadCollection
    <2>4. ASSUME NEW p \in Pages, Update(t, c, p)
          PROVE  Turns([s EXCEPT !.local = Put(s.local, p, Data(tx[t].id))])
      BY <2>4 DEF Update
    <2>5. /\ Fits([s EXCEPT !.loaded = TRUE])
          /\ \A x : Fits([s EXCEPT !.local = x])
          /\ \A x, y : Fits([s EXCEPT !.loaded = TRUE, !.coll = x, !.body = y])
      BY <1>2, KeepsVersion
    <2> HIDE DEF s, Fits, Turns
    <2>6. \E n : Turns(n) /\ Fits(n)
      <3>1. CASE \E mode \in {"read", "write"} : Snapshot(t, c, mode)
        BY <3>1, <2>1, <2>2
      <3>2. CASE LoadCollection(t, c)
        BY <3>2, <2>2, <2>3, <2>5
      <3>3. CASE \E p \in Pages : Update(t, c, p)
        BY <3>3, <2>4, <2>5
      <3>4. QED
        BY <3>1, <3>2, <3>3
    <2>7. QED
      BY <2>6 DEF Fits, Turns
  <1>5. Turned(tx[t], tx'[t], c, n) /\ \A u \in Txs \ {t} : tx'[u] = tx[u]
    BY <1>4, SnapTurned
  <1>6. Older(tx[t], tx'[t])
    BY <1>4, <1>5, TurnedOlder
  <1>7. SameLatest /\ UNCHANGED <<index, readVersion, header, mu>>
    BY <1>1, FilesSame DEF restVars, walVars
  <1>8. QED
    BY <1>1, <1>5, <1>6, <1>7, CallVersions

\* One snapshot of a changed transaction is another, of the same version.
LEMMA ChangedOlder ==
    ASSUME NEW r, NEW r2, NEW c \in Cols, r.snaps \in [Cols -> Snaps], NEW n, r2.snaps = [r.snaps EXCEPT ![c] = n],
           n.mode = r.snaps[c].mode, n.version = r.snaps[c].version
    PROVE  Older(r, r2)
  BY DEF Older, Writes

\* The calls that take or give up a page.
LEMMA TakeVersions ==
    ASSUME IInv, Ownership, VersionsKept, NEW t \in Txs, NEW c \in Cols, CreateCollection(t, c) \/ Grow(t, c)
    PROVE  VersionsKept'
  <1> DEFINE s == tx[t].snaps[c]
  <1>1. tx[t].st \in {"active", "aborting"} /\ UNCHANGED restVars /\ mu = NoTx /\ header' = Alloc(t, c).header
    BY OpeningIs DEF CreateCollection, Grow, CanLock, Active
  <1>2. tx[t] \in TxRecs /\ tx[t].snaps \in [Cols -> Snaps] /\ s \in Snaps /\ tx \in [Txs -> TxRecs]
    BY TxIs DEF IInv, Typed
  <1>3. \E n : /\ tx'[t].snaps = [tx[t].snaps EXCEPT ![c] = n] /\ n.mode = s.mode /\ n.version = s.version
               /\ \A u \in Txs \ {t} : tx'[u] = tx[u]
    <2>1. CASE CreateCollection(t, c)
      <3> DEFINE a == Alloc(t, c).page
                 n == [s EXCEPT !.loaded = TRUE, !.coll = a, !.body = Coll({}), !.collDirty = TRUE]
                 pages == Append(tx[t].newPages, a)
                 ops == Append(tx[t].onCommit, [op |-> "add", col |-> c, page |-> a])
      <3>1. tx' = [tx EXCEPT ![t].snaps[c] = n, ![t].newPages = pages, ![t].headerChanged = TRUE, ![t].onCommit = ops]
        BY <1>2, <2>1 DEF CreateCollection
      <3>2. n.mode = s.mode /\ n.version = s.version
        BY <1>2, KeepsVersion
      <3> HIDE DEF n, pages, ops, s
      <3>3. tx'[t].snaps = [tx[t].snaps EXCEPT ![c] = n] /\ \A u \in Txs \ {t} : tx'[u] = tx[u]
        BY <1>2, <3>1 DEF TxRecs
      <3>4. QED
        BY <3>2, <3>3
    <2>2. CASE Grow(t, c)
      <3> DEFINE a == Alloc(t, c).page
                 n == [s EXCEPT !.body = Coll(s.body.pages \cup {a}), !.collDirty = TRUE,
                                !.local = Put(s.local, a, Data(tx[t].id))]
                 pages == Append(tx[t].newPages, a)
      <3>1. tx' = [tx EXCEPT ![t].snaps[c] = n, ![t].newPages = pages, ![t].headerChanged = TRUE]
        BY <1>2, <2>2 DEF Grow
      <3>2. n.mode = s.mode /\ n.version = s.version
        BY <1>2, KeepsVersion
      <3> HIDE DEF n, pages, s
      <3>3. tx'[t].snaps = [tx[t].snaps EXCEPT ![c] = n] /\ \A u \in Txs \ {t} : tx'[u] = tx[u]
        BY <1>2, <3>1 DEF TxRecs
      <3>4. QED
        BY <3>2, <3>3
    <2>3. QED
      BY <2>1, <2>2
  <1>4. Older(tx[t], tx'[t])
    BY <1>2, <1>3, ChangedOlder
  <1>5. header'.table = header.table
    BY <1>1, AllocTable
  <1>6. SameLatest /\ UNCHANGED <<index, readVersion, mu>>
    BY <1>1, FilesSame DEF restVars, walVars
  <1>7. QED
    BY <1>1, <1>3, <1>4, <1>5, <1>6, CallVersions

\* The calls that delete one.
LEMMA DeleteVersions ==
    ASSUME IInv, Ownership, VersionsKept, NEW t \in Txs, NEW c \in Cols,
           Drop(t, c) \/ \E p \in Pages : Shrink(t, c, p)
    PROVE  VersionsKept'
  <1> DEFINE s == tx[t].snaps[c]
  <1>1. tx[t].st = "active" /\ UNCHANGED restVars /\ UNCHANGED header
    BY DEF Drop, Shrink, Active
  <1>2. tx[t] \in TxRecs /\ tx[t].snaps \in [Cols -> Snaps] /\ s \in Snaps /\ tx \in [Txs -> TxRecs]
    BY TxIs DEF IInv, Typed
  <1>3. \E n : /\ tx'[t].snaps = [tx[t].snaps EXCEPT ![c] = n] /\ n.mode = s.mode /\ n.version = s.version
               /\ \A u \in Txs \ {t} : tx'[u] = tx[u]
    <2>0. \A x : Chained(tx[t], c, x).snaps = tx[t].snaps
                 /\ DOMAIN Chained(tx[t], c, x) = DOMAIN tx[t]
      BY <1>2 DEF TxRecs, Chained
    <2>1. CASE Drop(t, c)
      <3> DEFINE n == [s EXCEPT !.body = Empty(tx[t].firstDelete), !.collDirty = TRUE]
                 q == Chained(tx[t], c, s.coll)
                 ops == Append(q.onCommit, [op |-> "drop", col |-> c, page |-> NoPage])
                 q1 == [q EXCEPT !.snaps[c] = n, !.onCommit = ops]
      <3>1. tx' = [tx EXCEPT ![t] = q1]
        BY <2>1 DEF Drop
      <3>2. n.mode = s.mode /\ n.version = s.version
        BY <1>2, KeepsVersion
      <3>3. "snaps" \in DOMAIN q
        BY <1>2, <2>0 DEF TxRecs
      <3> HIDE DEF n, ops, s, q
      <3>4. q1.snaps = [q.snaps EXCEPT ![c] = n]
        BY <3>3
      <3>5. q.snaps = tx[t].snaps
        BY <2>0 DEF q
      <3> HIDE DEF q1
      <3>6. tx'[t] = q1 /\ \A u \in Txs \ {t} : tx'[u] = tx[u]
        BY <1>2, <3>1
      <3>7. QED
        BY <3>2, <3>4, <3>5, <3>6
    <2>2. ASSUME NEW p \in Pages, Shrink(t, c, p)
          PROVE  \E n : /\ tx'[t].snaps = [tx[t].snaps EXCEPT ![c] = n] /\ n.mode = s.mode /\ n.version = s.version
                        /\ \A u \in Txs \ {t} : tx'[u] = tx[u]
      <3> DEFINE n == [s EXCEPT !.body = Coll(s.body.pages \ {p}), !.collDirty = TRUE,
                                !.local = Put(s.local, p, Empty(tx[t].firstDelete))]
                 q == Chained(tx[t], c, p)
                 q1 == [q EXCEPT !.snaps[c] = n]
      <3>1. tx' = [tx EXCEPT ![t] = q1]
        BY <2>2 DEF Shrink
      <3>2. n.mode = s.mode /\ n.version = s.version
        BY <1>2, KeepsVersion
      <3>3. "snaps" \in DOMAIN q
        BY <1>2, <2>0 DEF TxRecs
      <3> HIDE DEF n, s, q
      <3>4. q1.snaps = [q.snaps EXCEPT ![c] = n]
        BY <3>3
      <3>5. q.snaps = tx[t].snaps
        BY <2>0 DEF q
      <3> HIDE DEF q1
      <3>6. tx'[t] = q1 /\ \A u \in Txs \ {t} : tx'[u] = tx[u]
        BY <1>2, <3>1
      <3>7. QED
        BY <3>2, <3>4, <3>5, <3>6
    <2>3. QED
      BY <2>1, <2>2
  <1>4. Older(tx[t], tx'[t])
    BY <1>2, <1>3, ChangedOlder
  <1>5. SameLatest /\ UNCHANGED <<index, readVersion, header, mu>>
    BY <1>1, FilesSame DEF restVars, walVars
  <1>6. QED
    BY <1>1, <1>3, <1>4, <1>5, CallVersions

\* A transaction that is over or lets its collections go has none.
LEMMA OverVersions ==
    ASSUME IInv, Ownership, VersionsKept, NEW t \in Txs,
           Rollback(t) \/ GiveUp(t) \/ CommitNothing(t) \/ Begin(t)
    PROVE  VersionsKept'
  <1>1. tx[t] \in TxRecs /\ tx \in [Txs -> TxRecs]
    BY TxIs DEF IInv, Typed
  <1>2. tx[t].st \notin {"appended", "returning"}
    BY DEF Rollback, GiveUp, CommitNothing, Begin, Ending, CanLock, Active
  <1>3. UNCHANGED <<fileVars, index, readVersion, header, mu>>
    BY DEF Rollback, GiveUp, CommitNothing, Begin, restVars, walVars
  <1>4. Writes(tx'[t]) = {} /\ \A u \in Txs \ {t} : tx'[u] = tx[u]
    <2>1. CASE Begin(t)
      <3> DEFINE r == [Idle EXCEPT !.st = "active", !.id = lastTxID + 1]
      <3>1. tx' = [tx EXCEPT ![t] = r]
        BY <2>1 DEF Begin
      <3>2. r.snaps = Idle.snaps
        BY DEF Idle
      <3> HIDE DEF r
      <3>3. tx'[t].snaps = Idle.snaps /\ \A u \in Txs \ {t} : tx'[u] = tx[u]
        BY <1>1, <3>1, <3>2
      <3>4. QED
        BY <3>3, Emptied DEF Writes
    <2>2. CASE Finish(t)
      BY <2>2, FinishIs, Emptied
    <2>3. CASE tx' = [tx EXCEPT ![t] = IF tx[t].newPages = <<>> THEN Idle ELSE Released(tx[t])]
      BY <1>1, <2>3, Emptied
    <2>4. QED
      BY <2>1, <2>2, <2>3 DEF Rollback, GiveUp, CommitNothing
  <1>5. Older(tx[t], tx'[t])
    BY <1>4 DEF Older
  <1>6. SameLatest /\ UNCHANGED <<index, readVersion, header, mu>>
    BY <1>3, FilesSame
  <1>7. QED
    BY <1>2, <1>4, <1>5, <1>6, CallVersions

\* What is spilled leaves each snapshot its version.
LEMMA DroppedVersions ==
    ASSUME NEW r \in TxRecs, Sound(r), NEW recs
    PROVE  \A c \in Cols : /\ Dropped(r, recs).snaps[c].mode = r.snaps[c].mode
                           /\ Dropped(r, recs).snaps[c].version = r.snaps[c].version
  <1>1. \A c \in Cols : r.snaps[c] \in Snaps
    BY TxIs
  <1>2. Dropped(r, recs).snaps = [c \in Cols |-> [r.snaps[c] EXCEPT !.local = <<>>]]
    BY DEF Dropped, TxRecs
  <1>3. ASSUME NEW c \in Cols
        PROVE  /\ [r.snaps[c] EXCEPT !.local = <<>>].mode = r.snaps[c].mode
               /\ [r.snaps[c] EXCEPT !.local = <<>>].version = r.snaps[c].version
    BY <1>1 DEF Snaps
  <1>4. QED
    BY <1>2, <1>3

\* Nor does linking the deleted pages to the free list change a version.
LEMMA SplicedVersions ==
    ASSUME NEW r \in TxRecs
    PROVE  \A c \in Cols : /\ Spliced(r).snaps[c].mode = r.snaps[c].mode
                           /\ Spliced(r).snaps[c].version = r.snaps[c].version
  <1>1. CASE r.lastDelete = NoPage
    BY <1>1 DEF Spliced
  <1>2. CASE r.lastDelete # NoPage
    <2> DEFINE d == r.lastDeleteColl
               l == Put(r.snaps[d].local, r.lastDelete, Empty(header.free))
               snaps == [r.snaps EXCEPT ![d].local = l]
    <2>1. Spliced(r).snaps = snaps
      BY <1>2 DEF Spliced, TxRecs
    <2>2. r.snaps \in [Cols -> Snaps] /\ \A c \in Cols : r.snaps[c] \in Snaps
      BY TxIs
    <2> HIDE DEF l, d
    <2>3. \A c \in Cols : snaps[c] = IF c = d THEN [r.snaps[c] EXCEPT !.local = l] ELSE r.snaps[c]
      BY <2>2
    <2>4. ASSUME NEW c \in Cols
          PROVE  /\ [r.snaps[c] EXCEPT !.local = l].mode = r.snaps[c].mode
                 /\ [r.snaps[c] EXCEPT !.local = l].version = r.snaps[c].version
      BY <2>2 DEF Snaps
    <2> HIDE DEF snaps
    <2>5. QED
      BY <2>1, <2>3, <2>4
  <1>3. QED
    BY <1>1, <1>2

\* A write of the log, or one that fails, changes nothing that is read.
LEMMA WriteSame ==
    ASSUME IInv, IInv', Durable, Contents, NEW recs \in Seq(Recs), AppendLogPages(recs) \/ AppendFails(recs),
           UNCHANGED <<index, dataFile>>
    PROVE  SameLatest
  <1>1. Typed /\ Typed' /\ logEnd \in Nat /\ Ordered
    BY DEF IInv, Typed, Contents
  <1>2. Unmoved(logFile, logFile', logEnd)
    BY <1>1, AppendsIs, AppendsUnmoved
  <1>3. QED
    BY <1>1, <1>2, LatestUnmoved DEF SameLatest

\* A safepoint keeps the collections it had, at their versions.
LEMMA SafepointVersions ==
    ASSUME IInv, IInv', Durable, Contents, Ownership, VersionsKept, NEW t \in Txs, Safepoint(t)
    PROVE  VersionsKept'
  <1>1. tx[t].st = "active" /\ mu = NoTx
    BY DEF Safepoint, CanLock, Active
  <1>2. PICK id \in Nat \ {0} : id = tx[t].id
    BY <1>1, OpenIs
  <1>3. tx[t] \in TxRecs /\ Sound(tx[t]) /\ tx \in [Txs -> TxRecs]
    BY DEF IInv, Typed
  <1> DEFINE recs == Marked(collectDirty(tx[t]), id, FALSE)
  <1>4. recs \in Seq(Recs)
    BY <1>3, collectDirtyIs, MarkedIs
  <1>5. /\ AppendLogPages(recs) \/ AppendFails(recs)
        /\ tx' = tx \/ tx' = [tx EXCEPT ![t] = Dropped(tx[t], recs)]
        /\ UNCHANGED <<dataFile, index, readVersion, header, mu>>
    BY <1>2 DEF Safepoint, walVars
  <1> HIDE DEF recs
  <1>6. SameLatest
    BY <1>4, <1>5, WriteSame
  <1>7. \A u \in Txs \ {t} : tx'[u] = tx[u]
    BY <1>3, <1>5
  <1>8. \A c \in Cols : tx'[t].snaps[c].mode = tx[t].snaps[c].mode /\ tx'[t].snaps[c].version = tx[t].snaps[c].version
    BY <1>3, <1>5, DroppedVersions
  <1>9. Older(tx[t], tx'[t])
    BY <1>8 DEF Older, Writes
  <1>10. QED
    BY <1>1, <1>5, <1>6, <1>7, <1>9, CallVersions

\* So does a commit that goes to the log; one that cannot ends its transaction.
LEMMA AppendVersions ==
    ASSUME IInv, IInv', Durable, Contents, Ownership, VersionsKept, NEW t \in Txs, CommitAppend(t)
    PROVE  VersionsKept'
  <1>1. tx[t].st = "active" /\ mu = NoTx /\ ~Refused(tx[t])
    BY DEF CommitAppend, CanLock, Active
  <1>2. PICK id \in Nat \ {0} : id = tx[t].id
    BY <1>1, OpenIs
  <1>3. tx[t] \in TxRecs /\ Sound(tx[t]) /\ tx \in [Txs -> TxRecs] /\ header \in Headers
    BY DEF IInv, Typed
  <1> DEFINE recs == Marked(CommitPages(tx[t]), id, TRUE)
             q == Dropped(Spliced(tx[t]), recs)
             r2 == [q EXCEPT !.st = "appended", !.save = header]
  <1>4. recs \in Seq(Recs)
    BY <1>1, <1>3, CommitPagesIs, MarkedIs
  <1>5. /\ UNCHANGED <<dataFile, index, readVersion>>
        /\ \/ AppendLogPages(recs) /\ tx' = [tx EXCEPT ![t] = r2] /\ mu' = t
           \/ AppendFails(recs) /\ Finish(t) /\ UNCHANGED <<header, mu>>
    BY <1>2 DEF CommitAppend, walVars
  <1>6. Spliced(tx[t]) \in TxRecs /\ Sound(Spliced(tx[t])) /\ Spliced(tx[t]).st # "idle" /\ q \in TxRecs
    <2>1. Spliced(tx[t]) \in TxRecs /\ Sound(Spliced(tx[t])) /\ Spliced(tx[t]).st # "idle"
      BY <1>1, <1>3, SplicedIs
    <2>2. logEnd \in Nat
      BY DEF IInv, Typed
    <2> HIDE DEF recs
    <2>3. QED
      BY <1>4, <2>1, <2>2, DroppedIs
  <1> HIDE DEF recs
  <1>7. SameLatest
    BY <1>4, <1>5, WriteSame
  <1>8. CASE AppendLogPages(recs) /\ tx' = [tx EXCEPT ![t] = r2] /\ mu' = t
    <2>1. \A c \in Cols : q.snaps[c].mode = tx[t].snaps[c].mode /\ q.snaps[c].version = tx[t].snaps[c].version
      BY <1>3, <1>6, DroppedVersions, SplicedVersions
    <2> HIDE DEF q
    <2>2. r2.snaps = q.snaps /\ r2.save = header
      BY <1>6 DEF TxRecs
    <2> HIDE DEF r2
    <2>3. tx'[t] = r2 /\ \A u \in Txs \ {t} : tx'[u] = tx[u]
      BY <1>3, <1>8
    <2>4. Older(tx[t], tx'[t])
      BY <2>1, <2>2, <2>3 DEF Older, Writes
    <2>5. QED
      BY <1>1, <1>5, <1>7, <1>8, <2>2, <2>3, <2>4, CallVersions
  <1>9. CASE AppendFails(recs) /\ Finish(t) /\ UNCHANGED <<header, mu>>
    <2>1. Writes(tx'[t]) = {} /\ \A u \in Txs \ {t} : tx'[u] = tx[u]
      BY <1>9, FinishIs, Emptied
    <2>2. Older(tx[t], tx'[t])
      BY <2>1 DEF Older
    <2>3. QED
      BY <1>1, <1>5, <1>7, <1>9, <2>1, <2>2, CallVersions
  <1>10. QED
    BY <1>5, <1>8, <1>9

\* Pages that are given back.
LEMMA ReturnVersions ==
    ASSUME IInv, IInv', Durable, Contents, Ownership, VersionsKept, NEW t \in Txs, ReturnAppend(t)
    PROVE  VersionsKept'
  <1>1. tx[t].st \in {"active", "aborting"} /\ mu = NoTx /\ tx[t].newPages # <<>>
    BY DEF ReturnAppend, Ending, Active
  <1>2. tx[t] \in TxRecs /\ tx \in [Txs -> TxRecs] /\ header \in Headers /\ lastTxID \in Nat
    BY DEF IInv, Typed
  <1>3. PICK id \in Nat \ {0} : id = lastTxID + 1
    BY <1>2
  <1> DEFINE recs == Marked(ReturnPages(tx[t]), id, TRUE)
             offs == Offsets(recs)
             r2 == [tx[t] EXCEPT !.st = "returning", !.save = header, !.retID = id, !.offs = offs]
  <1>4. recs \in Seq(Recs)
    BY <1>1, <1>2, ReturnPagesIs, MarkedIs
  <1>5. /\ UNCHANGED <<dataFile, index, readVersion>>
        /\ \/ AppendLogPages(recs) /\ tx' = [tx EXCEPT ![t] = r2] /\ mu' = t
           \/ AppendFails(recs) /\ Finish(t) /\ UNCHANGED <<header, mu>>
    BY <1>3 DEF ReturnAppend
  <1> HIDE DEF recs, offs
  <1>6. SameLatest
    BY <1>4, <1>5, WriteSame
  <1>7. CASE AppendLogPages(recs) /\ tx' = [tx EXCEPT ![t] = r2] /\ mu' = t
    <2>1. r2.snaps = tx[t].snaps /\ r2.save = header
      BY <1>2 DEF TxRecs
    <2> HIDE DEF r2
    <2>2. tx'[t] = r2 /\ \A u \in Txs \ {t} : tx'[u] = tx[u]
      BY <1>2, <1>7
    <2>3. Older(tx[t], tx'[t])
      BY <2>1, <2>2 DEF Older, Writes
    <2>4. QED
      BY <1>1, <1>5, <1>6, <1>7, <2>1, <2>2, <2>3, CallVersions
  <1>8. CASE AppendFails(recs) /\ Finish(t) /\ UNCHANGED <<header, mu>>
    <2>1. Writes(tx'[t]) = {} /\ \A u \in Txs \ {t} : tx'[u] = tx[u]
      BY <1>8, FinishIs, Emptied
    <2>2. Older(tx[t], tx'[t])
      BY <2>1 DEF Older
    <2>3. QED
      BY <1>1, <1>5, <1>6, <1>8, <2>1, <2>2, CallVersions
  <1>9. QED
    BY <1>5, <1>7, <1>8

\* The writer could not sync the log.
LEMMA SyncVersions ==
    ASSUME IInv, Ownership, VersionsKept, NEW t \in Txs, CommitSyncFails(t) \/ ReturnSyncFails(t)
    PROVE  VersionsKept'
  <1>1. /\ tx[t].st \in {"appended", "returning"} /\ header' = tx[t].save /\ mu' = NoTx /\ Finish(t)
        /\ UNCHANGED <<fileVars, index, readVersion>>
    BY DEF CommitSyncFails, ReturnSyncFails, walVars
  <1>2. SettledHeader'.table = SettledHeader.table
    <2>1. SettledHeader = tx[t].save
      BY <1>1, WriterIs
    <2>2. SettledHeader' = header'
      BY <1>1 DEF SettledHeader
    <2>3. QED
      BY <1>1, <2>1, <2>2
  <1>3. Writes(tx'[t]) = {} /\ \A u \in Txs \ {t} : tx'[u] = tx[u]
    BY <1>1, FinishIs, Emptied
  <1>4. \A u \in Txs : Older(tx[u], tx'[u])
    BY <1>3 DEF Older
  <1>5. SameLatest
    BY <1>1, FilesSame
  <1>6. QED
    BY <1>1, <1>2, <1>4, <1>5, VersionsStill

\* What is confirmed is of no collection another transaction has locked.
LEMMA ConfirmVersions ==
    ASSUME IInv, IInv', Durable, Contents, Ownership, VersionsKept, NEW t \in Txs,
           CommitConfirm(t) \/ ReturnConfirm(t)
    PROVE  VersionsKept'
  <1>1. PICK id, offs : /\ tx[t].st \in {"appended", "returning"} /\ offs = OffsOf(tx[t]) /\ Logged(id, offs)
                        /\ Confirm(id, offs) /\ mu' = NoTx /\ Finish(t)
                        /\ UNCHANGED <<logFile, logEnd, dataFile, header, ckpt>>
    <2>1. CASE CommitConfirm(t)
      <3>1. tx[t].st = "appended" /\ Confirm(tx[t].id, tx[t].dirty) /\ OffsOf(tx[t]) = tx[t].dirty
        BY <2>1 DEF CommitConfirm, OffsOf
      <3>2. Logged(tx[t].id, tx[t].dirty)
        BY <3>1 DEF Contents, LoggedAll
      <3>3. QED
        BY <2>1, <3>1, <3>2 DEF CommitConfirm
    <2>2. CASE ReturnConfirm(t)
      <3>1. tx[t].st = "returning" /\ Confirm(tx[t].retID, tx[t].offs) /\ OffsOf(tx[t]) = tx[t].offs
        BY <2>2 DEF ReturnConfirm, OffsOf
      <3>2. Logged(tx[t].retID, tx[t].offs)
        BY <3>1 DEF Contents, LoggedAll
      <3>3. QED
        BY <2>2, <3>1, <3>2 DEF ReturnConfirm
    <2>3. QED
      BY <2>1, <2>2
  <1>2. Writes(tx'[t]) = {} /\ tx'[t].st = "idle" /\ \A u \in Txs \ {t} : tx'[u] = tx[u]
    BY <1>1, FinishIs, Emptied
  <1>3. /\ mu = t /\ offs \in OffsetMaps /\ OffsetsTrue(offs) /\ SettledHeader \in Headers
        /\ \A u \in Txs \ {t} : tx[u].st = "active" => DOMAIN offs \cap DOMAIN tx[u].dirty \subseteq {Header}
        /\ \A c \in Cols \ Writes(tx[t]) : /\ header.table[c] = SettledHeader.table[c]
                                           /\ header.table[c] \notin DOMAIN offs
        /\ \A u \in Txs \ {t} : Writes(tx[u]) \cap Writes(tx[t]) = {}
    BY <1>1, WriterIs
  <1>4. \A p \in Pages : Latest(p)' = Coming(offs)[p]
    BY <1>1, <1>2, <1>3, ConfirmContents
  <1>5. Store' = Coming(offs)
    BY <1>4 DEF Store, Coming
  <1>6. SettledHeader' = header
    BY <1>1 DEF SettledHeader
  <1> DEFINE K == Places(SettledHeader, Store)
             K2 == Places(header, Coming(offs))
  <1>7. ASSUME NEW c \in Cols \ Writes(tx[t])
        PROVE  Of(K2, c) = Of(K, c) /\ Of(K, c) \cap DOMAIN offs = {} /\ Of(K, c) \subseteq AllPages
    <2>1. header.table[c] = SettledHeader.table[c] /\ header.table[c] \notin DOMAIN offs
      BY <1>3
    <2>2. SettledHeader.table[c] # NoPage => SettledHeader.table[c] \in Pages
      BY <1>3, HeaderIs DEF Tables, Links
    <2>3. SettledHeader.table[c] # NoPage => Coming(offs)[SettledHeader.table[c]] = Store[SettledHeader.table[c]]
      BY <2>1, <2>2 DEF Coming, Store
    <2>4. K2[c] = K[c]
      BY <2>1, <2>3, PlacesAlike DEF Alike
    <2>5. Of(K, c) \subseteq Pages
      BY OfPages
    <2>6. Shared(SettledHeader, Store, K, logFile, Txs, tx, faults = 0) /\ SettledHeader.last \in Pages
      BY <1>3, HeaderIs DEF Ownership, Settled
    <2>7. DOMAIN offs \subseteq {Header} \cup Mine(K, tx[t])
      BY <1>1, <1>3, TxsAssumption DEF Ownership, Underway
    <2> HIDE DEF K, K2
    <2>8. Of(K, c) \cap Mine(K, tx[t]) = {}
      BY <2>6, MineIs
    <2>9. Header \notin Pages /\ Pages \subseteq AllPages
      BY PageIds DEF AllPages
    <2>10. QED
      BY <2>4, <2>5, <2>7, <2>8, <2>9 DEF Of
  <1> HIDE DEF K2
  <1>8. ASSUME NEW u \in Txs, NEW c \in Cols, c \in Writes(tx'[u]), NEW q \in Of(K2, c), NEW e \in index'[q]
        PROVE  e.version <= tx'[u].snaps[c].version
    <2>1. u # t /\ tx'[u] = tx[u] /\ c \in Writes(tx[u])
      BY <1>2, <1>8
    <2>2. c \notin Writes(tx[t])
      BY <1>3, <2>1
    <2>3. q \in Of(K, c) /\ q \notin DOMAIN offs /\ q \in AllPages
      BY <1>7, <2>2
    <2>4. index \in [AllPages -> SUBSET Entries]
      BY DEF IInv, Typed
    <2>5. e \in index[q]
      BY <1>1, <2>3, <2>4 DEF Confirm
    <2>6. e.version <= tx[u].snaps[c].version
      BY <2>1, <2>3, <2>5 DEF VersionsKept
    <2>7. QED
      BY <2>1, <2>6
  <1>9. Places(SettledHeader', Store') = K2
    BY <1>5, <1>6 DEF K2
  <1>10. \A u \in Txs, c \in Cols : c \in Writes(tx'[u]) =>
             \A q \in Of(Places(SettledHeader', Store'), c) :
                 \A e \in index'[q] : e.version <= tx'[u].snaps[c].version
    BY <1>8, <1>9
  <1>11. QED
    BY <1>10 DEF VersionsKept

\* One step, in a run of the program without a crash in it.
LEMMA VersionsStep ==
    ASSUME Scanners = {}, CrashModes = {}, IInv, IInv', Durable, Contents, Ownership, VersionsKept, [Next]_vars
    PROVE  VersionsKept'
  <1>1. ASSUME NEW t \in Txs, NEW c \in Cols,
               \/ \E mode \in {"read", "write"} : Snapshot(t, c, mode)
               \/ LoadCollection(t, c) \/ CreateCollection(t, c) \/ Grow(t, c)
               \/ Drop(t, c) \/ Scan(t, c)
               \/ \E p \in Pages : Update(t, c, p) \/ Shrink(t, c, p)
        PROVE  VersionsKept'
    BY <1>1, ReadVersions, TakeVersions, DeleteVersions DEF Scan
  <1>2. ASSUME NEW t \in Txs,
               \/ Begin(t) \/ Safepoint(t)
               \/ CommitNothing(t) \/ CommitAppend(t) \/ CommitConfirm(t) \/ CommitSyncFails(t)
               \/ Rollback(t) \/ GiveUp(t) \/ ReturnAppend(t) \/ ReturnConfirm(t) \/ ReturnSyncFails(t)
        PROVE  VersionsKept'
    BY <1>2, OverVersions, SafepointVersions, AppendVersions, ReturnVersions, SyncVersions, ConfirmVersions
  <1>3. ASSUME CheckpointStart \/ CheckpointCopy \/ CheckpointSync \/ CheckpointTruncate
               \/ CheckpointClear \/ CheckpointFails
        PROVE  VersionsKept'
    <2>1. \A u \in Txs : tx[u].st = "idle"
      BY <1>3, CheckpointIs DEF CheckpointStart, CheckpointCopy, CheckpointSync, CheckpointTruncate,
                                CheckpointClear, CheckpointFails
    <2>2. tx' = tx
      BY <1>3 DEF CheckpointStart, CheckpointCopy, CheckpointSync, CheckpointTruncate, CheckpointClear,
                  CheckpointFails
    <2>3. \A u \in Txs : Writes(tx'[u]) = {}
      BY <2>1, <2>2, Emptied DEF IInv, Sound
    <2>4. QED
      BY <2>3 DEF VersionsKept
  <1>4. ASSUME UNCHANGED vars PROVE VersionsKept'
    <2>1. UNCHANGED <<fileVars, index, readVersion, header, mu, tx>>
      BY <1>4 DEF vars, walVars
    <2>2. SameLatest /\ SettledHeader'.table = SettledHeader.table /\ \A t \in Txs : Older(tx[t], tx'[t])
      BY <2>1, FilesSame DEF SettledHeader, Older
    <2>3. QED
      BY <2>1, <2>2, VersionsStill
  <1>5. ~CrashAndReopen
    BY DEF CrashAndReopen
  <1>6. QED
    BY <1>1, <1>2, <1>3, <1>4, <1>5 DEF Next

\* A transaction that has nothing to append has nothing in memory and nothing spilled.
LEMMA NothingChanged ==
    ASSUME IInv, Ownership, NEW t \in Txs, tx[t].st = "active", CommitPages(tx[t]) = <<>>
    PROVE  /\ DOMAIN tx[t].dirty = {}
           /\ \A c \in Writes(tx[t]) : DOMAIN tx[t].snaps[c].local = {} /\ ~tx[t].snaps[c].collDirty
  <1> DEFINE r == tx[t]
             q == Spliced(r)
             pages == collectDirty(q)
             e == <<Header, CommitHeader(r)>>
  <1>1. r \in TxRecs /\ Sound(r) /\ header \in Headers
    BY DEF IInv, Typed
  <1>2. PICK K : Works(K, logFile, r)
    BY DEF Ownership, Settled, Shared
  <1>3. q \in TxRecs /\ Sound(q) /\ Splices(r, q, header.free) /\ LastDeleted(r)
    BY <1>1, <1>2, SplicedIs, SplicedSplices DEF Works
  <1>4. pages \in Batches /\ Carries(pages, q)
    BY <1>3, collectDirtyIs, collectDirtyHas
  <1>5. pages = <<>> /\ r.dirty = <<>>
    <2>1. CommitPages(r) = IF r.headerChanged \/ (pages = <<>> /\ r.dirty # <<>>) THEN Append(pages, e) ELSE pages
      BY DEF CommitPages
    <2> HIDE DEF pages, e
    <2>2. Len(Append(pages, e)) = Len(pages) + 1 /\ Len(pages) \in Nat
      BY <1>4, AppendProperties, LenProperties DEF Batches
    <2>3. Len(<<>>) = 0
      OBVIOUS
    <2>4. Append(pages, e) # <<>>
      <3> SUFFICES ASSUME Append(pages, e) = <<>> PROVE FALSE
        OBVIOUS
      <3>1. Len(pages) + 1 = 0
        BY <2>2, <2>3
      <3>2. QED
        BY <2>2, <3>1
    <2>5. QED
      BY <2>1, <2>4
  <1>6. DOMAIN pages = {}
    BY <1>5
  <1> HIDE DEF pages, q
  <1>7. \A c \in Writes(q) : Dirtied(q.snaps[c]) = {}
    BY <1>4, <1>6 DEF Carries
  <1>8. r.lastDelete = NoPage
    <2> SUFFICES ASSUME r.lastDelete # NoPage PROVE FALSE
      OBVIOUS
    <2> DEFINE c == r.lastDeleteColl
               p == r.lastDelete
    <2>1. c \in Writes(r) /\ c \in Writes(q)
      BY <1>3 DEF LastDeleted, Splices
    <2>2. PutEffect(q.snaps[c].local, r.snaps[c].local, p, Empty(header.free))
      BY <1>3, <2>1 DEF Splices
    <2>3. p \in DOMAIN q.snaps[c].local /\ q.snaps[c].local[p].dirty
      BY <2>2 DEF PutEffect
    <2>4. <<p, q.snaps[c].local[p].body>> \in Dirtied(q.snaps[c])
      BY <2>3, DirtiedIs
    <2>5. QED
      BY <1>7, <2>1, <2>4
  <1>9. ASSUME NEW c \in Writes(r) PROVE DOMAIN r.snaps[c].local = {} /\ ~r.snaps[c].collDirty
    <2>1. c \in Writes(q) /\ q.snaps[c].local = r.snaps[c].local /\ q.snaps[c].collDirty = r.snaps[c].collDirty
      BY <1>3, <1>8 DEF Splices
    <2>2. Dirtied(q.snaps[c]) = {}
      BY <1>7, <2>1
    <2>3. \A p \in DOMAIN r.snaps[c].local : r.snaps[c].local[p].dirty
      BY <1>2 DEF Works, Changed
    <2>4. \A p \in DOMAIN r.snaps[c].local : <<p, q.snaps[c].local[p].body>> \in Dirtied(q.snaps[c])
      BY <2>1, <2>3, DirtiedIs
    <2>5. q.snaps[c].collDirty => <<q.snaps[c].coll, q.snaps[c].body>> \in Dirtied(q.snaps[c])
      BY DirtiedIs
    <2>6. QED
      BY <2>1, <2>2, <2>4, <2>5
  <1>10. DOMAIN r.dirty = {}
    BY <1>5
  <1>11. QED
    BY <1>9, <1>10 DEF r

\* Where all versions of a page are ones the snapshot sees, it reads the latest.
LEMMA SeesLatest ==
    ASSUME IInv, NEW p \in Pages, NEW v \in Nat, \A e \in index[p] : e.version <= v
    PROVE  readAt(p, v) = readAt(p, readVersion)
  <1>1. p \in AllPages /\ readVersion \in Nat
    BY DEF AllPages, IInv, Typed
  <1>2. \A e \in index[p] : e.version <= readVersion /\ e.version \in Nat \ {0}
    BY <1>1 DEF IInv, Typed, Entries
  <1>3. v = 0 \/ readVersion = 0 => index[p] = {}
    BY <1>1, <1>2
  <1>4. {e \in index[p] : e.version <= v} = index[p] /\ {e \in index[p] : e.version <= readVersion} = index[p]
    BY <1>2
  <1>5. LookupVersion(p, v) = LookupVersion(p, readVersion)
    BY <1>3, <1>4 DEF LookupVersion
  <1>6. QED
    BY <1>5 DEF readAt

\* What a transaction that has changed nothing reads of a collection it has locked
\* is what is stored.
LEMMA ReadsStored ==
    ASSUME IInv, Ownership, VersionsKept, NEW t \in Txs, CanLock(t), CommitPages(tx[t]) = <<>>,
           NEW c \in Cols, tx[t].snaps[c].mode = "write"
    PROVE  View(t, c) = Stored(c)
  <1> DEFINE s == tx[t].snaps[c]
             h == header.table[c]
             K == Places(header, Store)
  <1>1. tx[t].st = "active" /\ mu = NoTx /\ c \in Writes(tx[t]) /\ s.loaded /\ s.mode = "write"
    BY DEF CanLock, Active, Opening, Writes
  <1>2. SettledHeader = header /\ header \in Headers
    BY <1>1, SettledIs DEF SettledHeader
  <1>3. DOMAIN tx[t].dirty = {} /\ DOMAIN s.local = {} /\ ~s.collDirty
    BY <1>1, NothingChanged
  <1>4. Works(K, logFile, tx[t]) /\ Collections(header, K)
    BY <1>1, <1>2 DEF Ownership, Settled, Shared
  <1>5. K[c].page = h /\ (h # NoPage => h \in Pages /\ K[c].body = Latest(h))
    BY <1>2, PlacesAre, HeaderIs DEF Placed, Store, Tables, Links
  <1>6. Of(K, c) \subseteq Pages /\ \A q \in Of(K, c) : \A e \in index[q] : e.version <= s.version
    BY <1>1, <1>2, OfPages DEF VersionsKept
  <1>7. s.version \in Nat
    BY TxIs, SnapIs DEF IInv, Typed
  <1>8. \A q \in Of(K, c) : getPage(t, c, q, FALSE) = readAt(q, s.version)
    BY <1>3 DEF getPage
  <1>9. \A q \in Of(K, c) : Readable(q, getPage(t, c, q, FALSE)) = Latest(q)
    BY <1>6, <1>7, <1>8, SeesLatest DEF Latest
  <1>10. s.coll = NoPage => h = NoPage
    BY <1>1, <1>4, <1>5 DEF Works, Opened
  <1>11. s.coll # NoPage => /\ h = s.coll /\ s.body = Latest(h) /\ s.body.kind = "coll"
                            /\ s.body.pages \subseteq Of(K, c)
    BY <1>1, <1>3, <1>4, <1>5 DEF Works, Opened, Collections, Of
  <1> DEFINE reads == [q \in s.body.pages |-> Readable(q, getPage(t, c, q, FALSE))]
             has == [q \in Latest(h).pages |-> Latest(q)]
  <1>12. s.coll # NoPage => reads = has
    BY <1>9, <1>11
  <1>13. View(t, c) = IF s.coll = NoPage THEN Absent
                      ELSE IF s.body.kind = "coll" THEN reads ELSE Absent
    BY <1>1 DEF View, ContentsOf
  <1>14. Stored(c) = IF h = NoPage THEN Absent ELSE IF Latest(h).kind = "coll" THEN has ELSE Absent
    BY <1>2 DEF Stored, ContentsOf
  <1> HIDE DEF K, reads, has
  <1>15. QED
    BY <1>10, <1>11, <1>12, <1>13, <1>14

\* In a run of the program without a crash in it, a commit that succeeds without
\* writing leaves in the store what its transaction could read: nothing it changed,
\* spilled or not, is lost.
THEOREM ACommitKeepsAll ==
    ASSUME Scanners = {}, CrashModes = {}
    PROVE  Spec => CommitKeepsAll
  <1>1. Init => VersionsKept
    BY Emptied DEF Init, VersionsKept
  <1>2. IInv /\ IInv' /\ Durable /\ Contents /\ Ownership /\ VersionsKept /\ [Next]_vars => VersionsKept'
    BY VersionsStep
  <1>3. Init => Durable
    BY DEF Init, CuttingOff, AllPages, Durable
  <1>4. IInv /\ Durable /\ [Next]_vars => Durable'
    BY DurableStep
  <1>5. IInv /\ Ownership /\ VersionsKept =>
            \A t \in Txs :
                /\ CommitNothing(t)
                /\ ~broken
                /\ CommitPages(tx[t]) = <<>>
                => \A c \in Cols : tx[t].snaps[c].mode = "write" => View(t, c) = Stored(c)
    BY ReadsStored DEF CommitNothing
  <1>6. QED
    BY <1>1, <1>2, <1>3, <1>4, <1>5, Invariant, PagesAreAccounted, PTL DEF Spec, CommitKeepsAll

=============================================================================
