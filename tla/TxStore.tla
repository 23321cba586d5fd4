------------------------------ MODULE TxStore ------------------------------
(***************************************************************************)
(* The transaction core: internal/xtx (tx.go, snapshot.go, checkpoint.go,  *)
(* open.go), internal/xwal/index.go and internal/xdisk/disk.go.            *)
(*                                                                         *)
(* One header page, shared by all transactions and guarded by headerMu,    *)
(* holds the collection table, the free list and the highest page id.      *)
(* Transactions keep changed pages to themselves, append them to the log   *)
(* and confirm them with a flag on the last page; the wal index maps page  *)
(* and version to a log offset; a checkpoint moves confirmed pages to the  *)
(* data file.  A crash loses the memory, and of the files what no fsync    *)
(* had reached; reopening replays the log.                                 *)
(*                                                                         *)
(* Of a page only what decides its fate is kept: whether it is empty and   *)
(* what follows it on the free list, the data pages a collection page owns *)
(* and the transaction that last wrote a data page.  Reads that only cache *)
(* a clean page are not steps.  The gate and the collection locks are      *)
(* LockService's: here a checkpoint needs all transactions closed, and a   *)
(* collection has one writer.                                              *)
(***************************************************************************)
EXTENDS Integers, Sequences, FiniteSets, SequencesExt

CONSTANTS
    Txs,         \* transaction objects
    Names,       \* collection names, in the order collectDirty sorts them
    NoTx,        \* nobody holds headerMu
    MaxPage,     \* LimitSize, in pages
    MaxCols,     \* how many names the collection table has room for
    MaxBegins,   \* bound on how many transactions begin
    MaxLog,      \* bound on the log pages a safepoint may leave
    MaxFaults,   \* bound on failing writes and fsyncs
    MaxCrashes,  \* bound on crashes
    CrashModes,  \* of "process", "power", "reordered"
    Readers,     \* transactions that may open a snapshot for reading
    Creators,    \* transactions that may create a collection
    Droppers,    \* transactions that may drop one
    Spillers,    \* transactions that may outgrow their quota
    Scanners     \* transactions that may discard vector pages

Cols   == ToSet(Names)
Pages  == 1 .. MaxPage
Header == 0              \* page id of the header page
NoPage == -1             \* EmptyPageID

ASSUME TxsAssumption ==
    /\ IsFiniteSet(Txs)
    /\ NoTx \notin Txs
    /\ Readers \cup Creators \cup Droppers \cup Spillers \cup Scanners \subseteq Txs
ASSUME NamesAssumption == Names \in Seq(STRING) /\ Names # <<>>
ASSUME BoundsAssumption ==
    /\ MaxPage \in Nat \ {0, 1}
    /\ MaxCols \in Nat \ {0}
    /\ {MaxBegins, MaxLog, MaxFaults, MaxCrashes} \subseteq Nat
    /\ CrashModes \subseteq {"process", "power", "reordered"}

VARIABLES
    logFile,     \* the log as the operating system shows it
    logDisk,     \* the log as the device holds it
    logEnd,      \* disk.logEnd, in pages
    dataFile,    \* the data file as the operating system shows it
    dataDisk,    \* the data file as the device holds it
    index,       \* wal.pages: versions and offsets of each page
    confirmed,   \* wal.confirmed: transaction ids
    readVersion, \* wal.readVersion
    lastTxID,    \* wal.lastTxID
    header,      \* core.header
    mu,          \* who holds core.headerMu across a write of the log
    broken,      \* core.broken
    tx,          \* the transactions
    ckpt,        \* progress of checkpointLocked
    begins,      \* transactions begun so far
    faults,      \* I/O errors so far
    crashes      \* crashes so far

fileVars == <<logFile, logDisk, logEnd, dataFile, dataDisk>>
walVars  == <<index, confirmed, readVersion, lastTxID>>
vars     == <<fileVars, walVars, header, mu, broken, tx, ckpt, begins, faults, crashes>>

-----------------------------------------------------------------------------
(* Pages.                                                                  *)

Blank        == [kind |-> "blank"]
Empty(next)  == [kind |-> "empty", next |-> next]
Data(id)     == [kind |-> "data", val |-> id]
Coll(pages)  == [kind |-> "coll", pages |-> pages]

\* A page of the log: which page, written by whom, with or without the flag.
Rec(page, id, flag, body) == [page |-> page, tx |-> id, confirmed |-> flag, body |-> body]
BlankRec == Rec(Header, 0, FALSE, Blank)

\* An open snapshot.  local holds the pages this snapshot has changed (dirty) or
\* met on a scan (clean); the collection page is held apart.
NoSnap ==
    [mode |-> "none", version |-> 0, loaded |-> FALSE, coll |-> NoPage, body |-> Blank,
     collDirty |-> FALSE, local |-> <<>>]
NewSnap(mode) == [NoSnap EXCEPT !.mode = mode, !.version = readVersion]

\* save, retID and offs: the header to put back, and the transaction that gives back
\* new pages, while one of the two is being written.
Idle ==
    [st |-> "idle", id |-> 0, snaps |-> [c \in Cols |-> NoSnap], dirty |-> <<>>,
     newPages |-> <<>>, firstDelete |-> NoPage, lastDelete |-> NoPage,
     lastDeleteColl |-> "", headerChanged |-> FALSE, onCommit |-> <<>>,
     save |-> Blank, retID |-> 0, offs |-> <<>>]

\* A database just created and filled: collection Names[1] has a collection page
\* and a data page, two pages are free, and the log is empty.
InitHeader ==
    [kind |-> "header", free |-> IF MaxPage > 3 THEN 3 ELSE NoPage,
     last |-> IF MaxPage > 3 THEN 4 ELSE 2,
     table |-> [c \in Cols |-> IF c = Names[1] THEN 1 ELSE NoPage]]
InitData ==
    [p \in {Header} \cup Pages |->
        CASE p = Header -> InitHeader
          [] p = 1 -> Coll({2})
          [] p = 2 -> Data(0)
          [] p = 3 /\ MaxPage > 3 -> Empty(4)
          [] p = 4 -> Empty(NoPage)
          [] OTHER -> Blank]

Init ==
    /\ logFile = <<>>
    /\ logDisk = <<>>
    /\ logEnd = 0
    /\ dataFile = InitData
    /\ dataDisk = InitData
    /\ index = [p \in {Header} \cup Pages |-> {}]
    /\ confirmed = {}
    /\ readVersion = 0
    /\ lastTxID = 0
    /\ header = InitHeader
    /\ mu = NoTx
    /\ broken = FALSE
    /\ tx = [t \in Txs |-> Idle]
    /\ ckpt = [st |-> "off", pos |-> 0]
    /\ begins = 0
    /\ faults = 0
    /\ crashes = 0

-----------------------------------------------------------------------------
(* Reading.                                                                *)

\* Within one version, which only a replayed log has, the later offset wins.
Newest(es) ==
    CHOOSE e \in es : \A f \in es : \/ f.version < e.version
                                    \/ f.version = e.version /\ f.offset <= e.offset

\* Mutant: a reader gets the newest version whatever its own.
LookupVersionNewest(p, version) == IF index[p] = {} THEN 0 ELSE Newest(index[p]).offset

\* LookupVersion: the newest entry not above the version; version 0 never looks.
LookupVersion(p, version) ==
    LET es == {e \in index[p] : e.version <= version}
    IN  IF version = 0 \/ es = {} THEN 0 ELSE Newest(es).offset

\* A page that is not where it should be, on either file, is an error.
readLog(p, off) ==
    IF off \in DOMAIN logFile /\ logFile[off].page = p THEN logFile[off].body ELSE Blank

readAt(p, version) ==
    LET off == LookupVersion(p, version)
    IN  IF off # 0 THEN readLog(p, off) ELSE dataFile[p]

\* Mutant: what the transaction has spilled is not looked for.
getPageSkipsSpilled(t, c, p, latest) ==
    LET s == tx[t].snaps[c]
    IN  IF p \in DOMAIN s.local THEN s.local[p].body
        ELSE readAt(p, IF latest THEN readVersion ELSE s.version)

\* getPage: local, then what this transaction spilled, then the log, then the data
\* file.  latest replaces the version of the snapshot in the third step only.
getPage(t, c, p, latest) ==
    LET s == tx[t].snaps[c]
    IN  IF p \in DOMAIN s.local THEN s.local[p].body
        ELSE IF p \in DOMAIN tx[t].dirty THEN readLog(p, tx[t].dirty[p])
        ELSE readAt(p, IF latest THEN readVersion ELSE s.version)

-----------------------------------------------------------------------------
(* Begin, Snapshot and the changes a transaction makes.                    *)

\* A transaction has one goroutine: it finishes one call before the next.
Opening(t, c) == tx[t].snaps[c].mode # "none" /\ ~tx[t].snaps[c].loaded
Active(t) == tx[t].st = "active" /\ \A c \in Cols : ~Opening(t, c)
CanLock(t) == Active(t) /\ mu = NoTx
Writable(t, c) ==
    LET s == tx[t].snaps[c]
    IN  s.mode = "write" /\ s.loaded /\ s.body.kind = "coll"

restVars == <<fileVars, walVars, mu, broken, ckpt, begins, faults, crashes>>

Begin(t) ==
    /\ tx[t].st = "idle"
    /\ ~broken
    /\ ckpt.st = "off"
    /\ begins < MaxBegins
    /\ begins' = begins + 1
    /\ lastTxID' = lastTxID + 1
    /\ tx' = [tx EXCEPT ![t] = [Idle EXCEPT !.st = "active", !.id = lastTxID + 1]]
    /\ UNCHANGED <<fileVars, index, confirmed, readVersion, header, mu, broken,
                   ckpt, faults, crashes>>

\* Snapshot, first half: take the lock when writing, then fix the version.  A
\* snapshot opened for reading is replaced when the caller wants to write, and
\* already gone when the lock then cannot be had.
Snapshot(t, c, mode) ==
    /\ Active(t)
    /\ mode = "read" => t \in Readers
    /\ \/ tx[t].snaps[c].mode = "none"
       \/ tx[t].snaps[c].mode = "read" /\ tx[t].snaps[c].loaded /\ mode = "write"
    /\ \/ /\ mode = "write" => \A u \in Txs \ {t} : tx[u].snaps[c].mode # "write"
          /\ tx' = [tx EXCEPT ![t].snaps[c] = NewSnap(mode)]
       \/ /\ tx[t].snaps[c].mode = "read"
          /\ tx' = [tx EXCEPT ![t].snaps[c] = NoSnap]
    /\ UNCHANGED header
    /\ UNCHANGED restVars

\* Mutant: the head of the free list is read at the version of the snapshot.
AllocStale(t, c) ==
    LET body == getPage(t, c, header.free, FALSE)
    IN  IF header.free # NoPage
        THEN IF body.kind = "empty"
             THEN [page |-> header.free, header |-> [header EXCEPT !.free = body.next]]
             ELSE [page |-> NoPage, header |-> header]
        ELSE IF header.last < MaxPage
             THEN [page |-> header.last + 1, header |-> [header EXCEPT !.last = @ + 1]]
             ELSE [page |-> NoPage, header |-> header]

\* Mutant: the header does not remember what was taken.
AllocForgets(t, c) ==
    [page |-> IF header.free # NoPage THEN header.free
              ELSE IF header.last < MaxPage THEN header.last + 1 ELSE NoPage,
     header |-> header]

\* Mutant: one page past the limit.
AllocPastLimit(t, c) ==
    LET body == getPage(t, c, header.free, TRUE)
    IN  IF header.free # NoPage
        THEN [page |-> header.free, header |-> [header EXCEPT !.free = body.next]]
        ELSE [page |-> header.last + 1, header |-> [header EXCEPT !.last = @ + 1]]

\* NewPage: the page taken, and the header afterwards.  NoPage when the free list
\* is corrupt or the database may not grow.
Alloc(t, c) ==
    LET body == getPage(t, c, header.free, TRUE)
    IN  IF header.free # NoPage
        THEN IF body.kind = "empty"
             THEN [page |-> header.free, header |-> [header EXCEPT !.free = body.next]]
             ELSE [page |-> NoPage, header |-> header]
        ELSE IF header.last < MaxPage
             THEN [page |-> header.last + 1, header |-> [header EXCEPT !.last = @ + 1]]
             ELSE [page |-> NoPage, header |-> header]

\* CanAddCollection, with the collections committed so far.
TableFull == Cardinality({d \in Cols : header.table[d] # NoPage}) >= MaxCols

\* loadCollection finds the collection in the header of this moment and reads its
\* page at the version of the snapshot.  An error on the way drops the snapshot and
\* its lock.
LoadCollection(t, c) ==
    LET s == tx[t].snaps[c]
        p == header.table[c]
        b == getPage(t, c, p, FALSE)
    IN  /\ mu = NoTx
        /\ Opening(t, c)
        /\ \/ /\ p = NoPage
              /\ tx' = [tx EXCEPT ![t].snaps[c].loaded = TRUE]
           \/ /\ p = NoPage
              /\ t \in Creators
              /\ TableFull \/ Alloc(t, c).page = NoPage
              /\ tx' = [tx EXCEPT ![t].snaps[c] = NoSnap]
           \/ /\ p # NoPage
              /\ b.kind = "coll"
              /\ tx' = [tx EXCEPT ![t].snaps[c] = [s EXCEPT !.loaded = TRUE, !.coll = p, !.body = b]]
           \/ /\ p # NoPage
              /\ b.kind # "coll"
              /\ tx' = [tx EXCEPT ![t].snaps[c] = NoSnap]
        /\ UNCHANGED header
        /\ UNCHANGED restVars

\* loadCollection asked to create, when there is no such collection.
CreateCollection(t, c) ==
    LET a == Alloc(t, c)
    IN  /\ mu = NoTx
        /\ Opening(t, c) \/ Active(t)
        /\ t \in Creators
        /\ tx[t].snaps[c].mode = "write"
        /\ tx[t].snaps[c].coll = NoPage
        /\ header.table[c] = NoPage
        /\ ~TableFull
        /\ a.page # NoPage
        /\ header' = a.header
        /\ tx' = [tx EXCEPT
               ![t].snaps[c] = [@ EXCEPT !.loaded = TRUE, !.coll = a.page, !.body = Coll({}),
                                         !.collDirty = TRUE],
               ![t].newPages = Append(@, a.page),
               ![t].headerChanged = TRUE,
               ![t].onCommit = Append(@, [op |-> "add", col |-> c, page |-> a.page])]
        /\ UNCHANGED restVars

\* Two maps in one, the first before the second.
Over(f, g) == [x \in DOMAIN f \cup DOMAIN g |-> IF x \in DOMAIN f THEN f[x] ELSE g[x]]

\* local with a changed page in it.
Put(local, p, body) == Over([q \in {p} |-> [body |-> body, dirty |-> TRUE]], local)

\* A document that needs a page of its own.
Grow(t, c) ==
    LET a == Alloc(t, c)
        s == tx[t].snaps[c]
        grown == [s EXCEPT !.body = Coll(s.body.pages \cup {a.page}), !.collDirty = TRUE,
                           !.local = Put(s.local, a.page, Data(tx[t].id))]
    IN  /\ CanLock(t)
        /\ Writable(t, c)
        /\ a.page # NoPage
        /\ header' = a.header
        /\ tx' = [tx EXCEPT ![t].snaps[c] = grown,
                            ![t].newPages = Append(@, a.page),
                            ![t].headerChanged = TRUE]
        /\ UNCHANGED restVars

\* A document changed in place.
Update(t, c, p) ==
    /\ Active(t)
    /\ Writable(t, c)
    /\ p \in tx[t].snaps[c].body.pages
    /\ getPage(t, c, p, FALSE).kind = "data"
    /\ getPage(t, c, p, FALSE) # Data(tx[t].id)
    /\ tx' = [tx EXCEPT ![t].snaps[c].local = Put(@, p, Data(tx[t].id))]
    /\ UNCHANGED header
    /\ UNCHANGED restVars

\* DeletePage: chained in front of what this transaction deleted before; the free
\* list sees the chain at commit.
Chained(r, c, p) ==
    [r EXCEPT !.firstDelete = p,
              !.lastDelete = IF r.firstDelete = NoPage THEN p ELSE @,
              !.lastDeleteColl = IF r.firstDelete = NoPage THEN c ELSE @,
              !.headerChanged = TRUE]

\* The last document of a page is deleted.
Shrink(t, c, p) ==
    LET s == tx[t].snaps[c]
        shrunk == [s EXCEPT !.body = Coll(s.body.pages \ {p}), !.collDirty = TRUE,
                            !.local = Put(s.local, p, Empty(tx[t].firstDelete))]
    IN  /\ Active(t)
        /\ Writable(t, c)
        /\ p \in s.body.pages
        /\ getPage(t, c, p, FALSE).kind = "data"
        /\ tx' = [tx EXCEPT ![t] = [Chained(tx[t], c, p) EXCEPT !.snaps[c] = shrunk]]
        /\ UNCHANGED header
        /\ UNCHANGED restVars

\* DropCollection: every other page of the collection is deleted before its
\* collection page; the name goes at commit.
Drop(t, c) ==
    LET s == tx[t].snaps[c]
        dropped == [s EXCEPT !.body = Empty(tx[t].firstDelete), !.collDirty = TRUE]
    IN  /\ Active(t)
        /\ t \in Droppers
        /\ Writable(t, c)
        /\ s.body.pages = {}
        /\ tx[t].firstDelete # NoPage
        /\ tx' = [tx EXCEPT ![t] =
               [Chained(tx[t], c, s.coll) EXCEPT
                   !.snaps[c] = dropped,
                   !.onCommit = Append(@, [op |-> "drop", col |-> c, page |-> NoPage])]]
        /\ UNCHANGED header
        /\ UNCHANGED restVars

\* canSee, with the length of the data file.
dataPages == 1 + Max({p \in DOMAIN dataFile : dataFile[p] # Blank})
canSee(t, c, p) ==
    \/ p \in DOMAIN tx[t].snaps[c].local
    \/ p \in DOMAIN tx[t].dirty
    \/ LookupVersion(p, tx[t].snaps[c].version) # 0
    \/ p < dataPages

\* DiscardVectorPages reads every page it can see; those it has no business with
\* stay in local, clean.  A page that is not where it should be ends the scan.
Scan(t, c) ==
    LET s == tx[t].snaps[c]
        range == {p \in 1 .. header.last : canSee(t, c, p)}
        bad(p) == getPage(t, c, p, FALSE) = Blank
        seen == {p \in range : \A q \in range : q <= p => ~bad(q)} \ DOMAIN s.local
    IN  /\ CanLock(t)
        /\ t \in Scanners
        /\ Writable(t, c)
        /\ seen # {}
        /\ tx' = [tx EXCEPT ![t].snaps[c].local =
               Over(@, [p \in seen |-> [body |-> getPage(t, c, p, FALSE), dirty |-> FALSE]])]
        /\ UNCHANGED header
        /\ UNCHANGED restVars

-----------------------------------------------------------------------------
(* persist: from changed pages to pages of the log.                        *)

\* Mutant: the end of the deleted chain is not linked to the old free list.
SplicedLoose(r) ==
    IF r.lastDelete = NoPage THEN r ELSE [r EXCEPT !.firstDelete = NoPage, !.lastDelete = NoPage]

\* A changed transaction record with the deleted chain put in front of the free
\* list, and the header that starts with it.
Spliced(r) ==
    IF r.lastDelete = NoPage THEN r
    ELSE [r EXCEPT !.snaps[r.lastDeleteColl].local = Put(@, r.lastDelete, Empty(header.free)),
                   !.firstDelete = NoPage, !.lastDelete = NoPage]
SplicedHeader(r) ==
    IF r.lastDelete = NoPage THEN header ELSE [header EXCEPT !.free = r.firstDelete]

Ascending(S) ==
    CHOOSE ids \in [1 .. Cardinality(S) -> S] : \A i, j \in DOMAIN ids : i < j => ids[i] < ids[j]

\* collectDirty: by collection name, then page id, the collection page last.
DirtyOf(s) ==
    LET ids == Ascending({p \in DOMAIN s.local : s.local[p].dirty})
    IN  [i \in DOMAIN ids |-> <<ids[i], s.local[ids[i]].body>>]
            \o (IF s.collDirty THEN << <<s.coll, s.body>> >> ELSE <<>>)
collectDirty(r) ==
    FlattenSeq([i \in DOMAIN Names |->
        IF r.snaps[Names[i]].mode = "write" THEN DirtyOf(r.snaps[Names[i]]) ELSE <<>>])

\* The pages as they go to the log under one id, the last one with the flag if asked.
Marked(pages, id, flag) ==
    [i \in DOMAIN pages |-> Rec(pages[i][1], id, flag /\ i = Len(pages), pages[i][2])]

\* An I/O error.
Fault == faults < MaxFaults /\ faults' = faults + 1

\* AppendLogPages writes at logEnd, over whatever an earlier failure left there.
Written(recs, n) ==
    [i \in 1 .. (IF logEnd + n > Len(logFile) THEN logEnd + n ELSE Len(logFile)) |->
        IF i > logEnd /\ i <= logEnd + n THEN recs[i - logEnd]
        ELSE IF i <= Len(logFile) THEN logFile[i] ELSE BlankRec]

\* The offset each page of the batch got, for the last of its occurrences.
Offsets(recs) ==
    [p \in {recs[i].page : i \in DOMAIN recs} |->
        logEnd + (CHOOSE i \in DOMAIN recs :
                    recs[i].page = p /\ \A j \in DOMAIN recs : recs[j].page = p => j <= i)]

AppendLogPages(recs) ==
    /\ logFile' = Written(recs, Len(recs))
    /\ logEnd' = logEnd + Len(recs)

\* A write that fails part of the way: logEnd stays, some of the pages are there.
AppendFails(recs) ==
    /\ Fault
    /\ \E n \in 0 .. Len(recs) - 1 : logFile' = Written(recs, n)
    /\ UNCHANGED logEnd

\* The pages are in the log: dropLocalPages.
Dropped(r, recs) ==
    [r EXCEPT !.dirty = Over(Offsets(recs), r.dirty),
              !.snaps = [c \in Cols |-> [r.snaps[c] EXCEPT !.local = <<>>]]]

\* Safepoint above the quota.  A failure leaves the transaction as it was.
Safepoint(t) ==
    LET recs == Marked(collectDirty(tx[t]), tx[t].id, FALSE)
    IN  /\ CanLock(t)
        /\ t \in Spillers
        /\ ~broken
        /\ recs # <<>>
        /\ logEnd + Len(recs) <= MaxLog
        /\ \/ /\ AppendLogPages(recs)
              /\ tx' = [tx EXCEPT ![t] = Dropped(tx[t], recs)]
              /\ UNCHANGED faults
           \/ /\ AppendFails(recs)
              /\ UNCHANGED tx
        /\ UNCHANGED <<logDisk, dataFile, dataDisk, walVars, header, mu, broken, ckpt, begins, crashes>>

-----------------------------------------------------------------------------
(* Commit.                                                                 *)

\* AddCollection and DeleteCollection, in the order they were registered: the table
\* after the first n of them, where the last one of a name decides.
Entered(table, ops, n) ==
    [c \in Cols |-> LET is == {i \in 1 .. n : ops[i].col = c}
                    IN  IF is = {} THEN table[c] ELSE ops[Max(is)].page]

\* Mutant: only the name is looked at.
AdmitsUncounted(table, op) ==
    IF op.op = "add" THEN table[op.col] = NoPage ELSE table[op.col] # NoPage

Admits(table, op) ==
    IF op.op = "add"
    THEN table[op.col] = NoPage /\ Cardinality({d \in Cols : table[d] # NoPage}) < MaxCols
    ELSE table[op.col] # NoPage
Refused(r) ==
    \E i \in DOMAIN r.onCommit :
        ~Admits(Entered(header.table, r.onCommit, i - 1), r.onCommit[i])

CommitHeader(r) ==
    [SplicedHeader(r) EXCEPT !.table = Entered(header.table, r.onCommit, Len(r.onCommit))]

\* Mutant: no header for the flag when everything has been spilled.
CommitPagesDirtyOnly(r) ==
    LET pages == collectDirty(Spliced(r))
    IN  IF r.headerChanged THEN Append(pages, <<Header, CommitHeader(r)>>) ELSE pages

\* What a commit appends.  The header goes last, when it changed or when nothing
\* else is left to carry the flag for pages spilled earlier.
CommitPages(r) ==
    LET pages == collectDirty(Spliced(r))
        writeHeader == r.headerChanged \/ (pages = <<>> /\ r.dirty # <<>>)
    IN  IF writeHeader THEN Append(pages, <<Header, CommitHeader(r)>>) ELSE pages

\* releaseSnapshots, then finish unless new pages have to go back first.
Released(r) == [r EXCEPT !.snaps = [c \in Cols |-> NoSnap], !.st = "aborting"]
Finish(t) == tx' = [tx EXCEPT ![t] = Idle]

\* Mutant: a refused commit keeps the pages it took.
CommitNothingKeeps(t) ==
    /\ CanLock(t)
    /\ broken \/ CommitPages(tx[t]) = <<>> \/ Refused(tx[t])
    /\ Finish(t)
    /\ UNCHANGED <<fileVars, walVars, header, mu, broken, ckpt, begins, faults, crashes>>

\* A commit that writes nothing: nothing changed, the instance is broken, the header
\* cannot be changed as asked, or the last page deleted cannot be read back to be
\* linked.  Only the last two have pages to give back.
CommitNothing(t) ==
    /\ CanLock(t)
    /\ \/ /\ broken \/ CommitPages(tx[t]) = <<>>
          /\ Finish(t)
          /\ UNCHANGED faults
       \/ /\ ~broken
          /\ \/ Refused(tx[t]) /\ UNCHANGED faults
             \/ tx[t].lastDelete # NoPage /\ Fault
          /\ tx' = [tx EXCEPT ![t] = IF tx[t].newPages = <<>> THEN Idle ELSE Released(tx[t])]
    /\ UNCHANGED <<fileVars, walVars, header, mu, broken, ckpt, begins, crashes>>

\* persist up to the write of the log; a failing one breaks the instance, and then
\* nothing is given back either.
CommitAppend(t) ==
    LET r == tx[t]
        recs == Marked(CommitPages(r), r.id, TRUE)
    IN  /\ CanLock(t)
        /\ ~broken
        /\ recs # <<>>
        /\ ~Refused(r)
        /\ \/ /\ AppendLogPages(recs)
              /\ header' = CommitHeader(r)
              /\ tx' = [tx EXCEPT ![t] =
                     [Dropped(Spliced(r), recs) EXCEPT !.st = "appended", !.save = header]]
              /\ mu' = t
              /\ UNCHANGED <<broken, faults>>
           \/ /\ AppendFails(recs)
              /\ broken' = TRUE
              /\ Finish(t)
              /\ UNCHANGED <<header, mu>>
        /\ UNCHANGED <<logDisk, dataFile, dataDisk, walVars, ckpt, begins, crashes>>

\* Confirm: one version for the whole transaction.
Confirm(id, offs) ==
    /\ readVersion' = readVersion + 1
    /\ confirmed' = confirmed \cup {id}
    /\ index' = [p \in DOMAIN index |->
           IF p \in DOMAIN offs
           THEN index[p] \cup {[version |-> readVersion + 1, offset |-> offs[p]]}
           ELSE index[p]]

\* Mutant: confirmed without waiting for the device.
CommitConfirmUnsynced(t) ==
    /\ tx[t].st = "appended"
    /\ Confirm(tx[t].id, tx[t].dirty)
    /\ mu' = NoTx
    /\ Finish(t)
    /\ UNCHANGED <<fileVars, lastTxID, header, broken, ckpt, faults, begins, crashes>>

\* CommitLog reaches the device; Confirm; snapshots and locks go.
CommitConfirm(t) ==
    /\ tx[t].st = "appended"
    /\ logDisk' = logFile
    /\ Confirm(tx[t].id, tx[t].dirty)
    /\ mu' = NoTx
    /\ Finish(t)
    /\ UNCHANGED <<logFile, logEnd, dataFile, dataDisk, lastTxID, header, broken, ckpt,
                   faults, begins, crashes>>

\* Mutant: the instance stays in use.
CommitSyncFailsQuietly(t) ==
    /\ tx[t].st = "appended"
    /\ Fault
    /\ header' = tx[t].save
    /\ mu' = NoTx
    /\ Finish(t)
    /\ UNCHANGED <<fileVars, walVars, broken, ckpt, begins, crashes>>

\* Mutant: the header is not put back.
CommitSyncFailsHalfway(t) ==
    /\ tx[t].st = "appended"
    /\ Fault
    /\ broken' = TRUE
    /\ mu' = NoTx
    /\ Finish(t)
    /\ UNCHANGED <<fileVars, walVars, header, ckpt, begins, crashes>>

\* CommitLog fails: nobody knows what the device holds.  The header is put back and
\* the instance is broken.
CommitSyncFails(t) ==
    /\ tx[t].st = "appended"
    /\ Fault
    /\ header' = tx[t].save
    /\ broken' = TRUE
    /\ mu' = NoTx
    /\ Finish(t)
    /\ UNCHANGED <<fileVars, walVars, ckpt, begins, crashes>>

-----------------------------------------------------------------------------
(* Rollback, and returnNewPages after a rollback or a refused commit.      *)

Rollback(t) ==
    /\ Active(t)
    /\ tx[t].newPages = <<>>
    /\ Finish(t)
    /\ UNCHANGED header
    /\ UNCHANGED restVars

\* Rolled back, or refused by Commit.
Ending(t) == Active(t) \/ tx[t].st = "aborting"

\* A broken instance keeps quiet.
GiveUp(t) ==
    /\ Ending(t)
    /\ mu = NoTx
    /\ broken
    /\ tx[t].newPages # <<>>
    /\ Finish(t)
    /\ UNCHANGED header
    /\ UNCHANGED restVars

\* The new pages, each linked to the next one and the last to the free list, and
\* the header that starts with the first: a transaction of its own.
ReturnHeader(r) == [header EXCEPT !.free = r.newPages[1]]
ReturnPages(r) ==
    [i \in DOMAIN r.newPages |->
        <<r.newPages[i],
          Empty(IF i < Len(r.newPages) THEN r.newPages[i + 1] ELSE header.free)>>]
    \o << <<Header, ReturnHeader(r)>> >>

ReturnAppend(t) ==
    LET r == tx[t]
        id == lastTxID + 1
        recs == Marked(ReturnPages(r), id, TRUE)
    IN  /\ Ending(t)
        /\ mu = NoTx
        /\ ~broken
        /\ r.newPages # <<>>
        /\ lastTxID' = id
        /\ \/ /\ AppendLogPages(recs)
              /\ header' = ReturnHeader(r)
              /\ tx' = [tx EXCEPT ![t] = [r EXCEPT !.st = "returning", !.save = header,
                                                   !.retID = id, !.offs = Offsets(recs)]]
              /\ mu' = t
              /\ UNCHANGED faults
           \/ /\ AppendFails(recs)
              /\ Finish(t)
              /\ UNCHANGED <<header, mu>>
        /\ UNCHANGED <<logDisk, dataFile, dataDisk, index, confirmed, readVersion, broken,
                       ckpt, begins, crashes>>

ReturnConfirm(t) ==
    /\ tx[t].st = "returning"
    /\ logDisk' = logFile
    /\ Confirm(tx[t].retID, tx[t].offs)
    /\ mu' = NoTx
    /\ Finish(t)
    /\ UNCHANGED <<logFile, logEnd, dataFile, dataDisk, lastTxID, header, broken, ckpt,
                   faults, begins, crashes>>

\* Unlike a failing commit this one does not break the instance.
ReturnSyncFails(t) ==
    /\ tx[t].st = "returning"
    /\ Fault
    /\ header' = tx[t].save
    /\ mu' = NoTx
    /\ Finish(t)
    /\ UNCHANGED <<fileVars, walVars, broken, ckpt, begins, crashes>>

-----------------------------------------------------------------------------
(* checkpointLocked: all transactions are closed while it runs.            *)

ckptIdle == [st |-> "off", pos |-> 0]

CheckpointStart ==
    /\ ckpt.st = "off"
    /\ \A t \in Txs : tx[t].st = "idle"
    /\ logEnd > 0
    /\ ckpt' = [st |-> "copy", pos |-> 1]
    /\ UNCHANGED <<fileVars, walVars, header, mu, broken, tx, faults, begins, crashes>>

\* One page of the log.  Confirmed pages overwrite the data file in log order.
CheckpointCopy ==
    LET r == logFile[ckpt.pos]
    IN  /\ ckpt.st = "copy"
        /\ ckpt.pos <= logEnd
        /\ ckpt.pos <= Len(logFile)
        /\ ckpt' = [ckpt EXCEPT !.pos = @ + 1]
        /\ dataFile' = IF r # BlankRec /\ r.tx \in confirmed
                       THEN [dataFile EXCEPT ![r.page] = r.body] ELSE dataFile
        /\ UNCHANGED <<logFile, logDisk, logEnd, dataDisk, walVars, header, mu, broken, tx,
                       faults, begins, crashes>>

\* Mutant: the log goes before the data file has reached the device.
CheckpointSyncSkipped ==
    /\ ckpt.st = "copy"
    /\ ckpt.pos > logEnd
    /\ ckpt' = [ckpt EXCEPT !.st = "synced"]
    /\ UNCHANGED <<fileVars, walVars, header, mu, broken, tx, faults, begins, crashes>>

CheckpointSync ==
    /\ ckpt.st = "copy"
    /\ ckpt.pos > logEnd
    /\ dataDisk' = dataFile
    /\ ckpt' = [ckpt EXCEPT !.st = "synced"]
    /\ UNCHANGED <<logFile, logDisk, logEnd, dataFile, walVars, header, mu, broken, tx,
                   faults, begins, crashes>>

CheckpointTruncate ==
    /\ ckpt.st = "synced"
    /\ logFile' = <<>>
    /\ ckpt' = [ckpt EXCEPT !.st = "truncated"]
    /\ UNCHANGED <<logDisk, logEnd, dataFile, dataDisk, walVars, header, mu, broken, tx,
                   faults, begins, crashes>>

\* The truncated log reaches the device; Clear starts the versions over.
CheckpointClear ==
    /\ ckpt.st = "truncated"
    /\ logDisk' = logFile
    /\ logEnd' = 0
    /\ index' = [p \in DOMAIN index |-> {}]
    /\ confirmed' = {}
    /\ readVersion' = 0
    /\ ckpt' = ckptIdle
    /\ UNCHANGED <<logFile, dataFile, dataDisk, lastTxID, header, mu, broken, tx, faults, begins, crashes>>

\* Any of these steps may fail; a log shorter than logEnd always does.
CheckpointFails ==
    /\ ckpt.st # "off"
    /\ \/ Fault
       \/ ckpt.st = "copy" /\ ckpt.pos > Len(logFile) /\ ckpt.pos <= logEnd /\ UNCHANGED faults
    /\ ckpt' = ckptIdle
    /\ UNCHANGED <<fileVars, walVars, header, mu, broken, tx, begins, crashes>>

-----------------------------------------------------------------------------
(* Crashes, and Open with its replay of the log.                           *)

\* What may be left of a log: everything, a prefix of what was written since the
\* last fsync, or any part of it.
LogAfter(mode) ==
    CASE mode = "process" -> {logFile}
      [] mode = "power" ->
            {logFile} \cup
            {[i \in 1 .. (IF n > Len(logDisk) THEN n ELSE Len(logDisk)) |->
                IF i <= n THEN logFile[i] ELSE logDisk[i]] : n \in 0 .. Len(logFile)}
      [] mode = "reordered" ->
            {logFile} \cup
            {[i \in 1 .. Max({Len(logDisk)} \cup S) |->
                IF i \in S THEN logFile[i] ELSE IF i <= Len(logDisk) THEN logDisk[i] ELSE BlankRec] :
             S \in SUBSET DOMAIN logFile}

\* Of the data file any page written since the last fsync may be there or not.
DataAfter(mode) ==
    IF mode = "process" THEN {dataFile}
    ELSE {[p \in DOMAIN dataFile |-> IF p \in S THEN dataFile[p] ELSE dataDisk[p]] :
          S \in SUBSET {p \in DOMAIN dataFile : dataFile[p] # dataDisk[p]}}

\* Restore: pages wait under their transaction id for the flag; those still waiting
\* at the end are dropped.  The index of a log, and what else the scan finds.
Flags(log) == {i \in DOMAIN log : log[i].confirmed}
VersionAt(log, i) == Cardinality({j \in Flags(log) : j <= i})
\* Mutant: a flag confirms every page in front of it.
ReplayedAnyTx(log) ==
    [p \in {Header} \cup Pages |->
        {[version |-> VersionAt(log, f[2]), offset |-> f[1]] :
            f \in {g \in (DOMAIN log) \X Flags(log) :
                     log[g[1]] # BlankRec /\ log[g[1]].page = p /\ g[1] <= g[2]}}]

Replayed(log) ==
    [p \in {Header} \cup Pages |->
        {[version |-> VersionAt(log, f[2]), offset |-> f[1]] :
            f \in {g \in (DOMAIN log) \X Flags(log) :
                     /\ log[g[1]] # BlankRec
                     /\ log[g[1]].page = p
                     /\ log[g[1]].tx = log[g[2]].tx
                     /\ g[1] <= g[2]}}]
\* Mutant: the ids of transactions without a flag are free again.
MaxIDInConfirmed(log) == Max({0} \cup {log[i].tx : i \in Flags(log)})

MaxIDIn(log) == Max({0} \cup {log[i].tx : i \in DOMAIN log})

\* The header page of the data file, unless the log holds a confirmed one.
ReplayedHeader(log, data) ==
    LET hs == {i \in Flags(log) : log[i].page = Header}
    IN  IF hs = {} THEN data[Header] ELSE log[Max(hs)].body

Reopen(log, data) ==
    /\ logFile' = log
    /\ logEnd' = Len(log)
    /\ dataFile' = data
    /\ index' = Replayed(log)
    /\ confirmed' = {log[i].tx : i \in Flags(log)}
    /\ readVersion' = Cardinality(Flags(log))
    /\ lastTxID' = MaxIDIn(log)
    /\ header' = ReplayedHeader(log, data)

CrashAndReopen ==
    /\ crashes < MaxCrashes
    /\ crashes' = crashes + 1
    /\ \E mode \in CrashModes :
           \E log \in LogAfter(mode), data \in DataAfter(mode) :
               /\ Reopen(log, data)
               /\ logDisk' = IF mode = "process" THEN logDisk ELSE log
               /\ dataDisk' = IF mode = "process" THEN dataDisk ELSE data
    /\ mu' = NoTx
    /\ broken' = FALSE
    /\ tx' = [t \in Txs |-> Idle]
    /\ ckpt' = ckptIdle
    /\ UNCHANGED <<begins, faults>>

-----------------------------------------------------------------------------

Next ==
    \/ \E t \in Txs :
        \/ Begin(t) \/ Safepoint(t)
        \/ CommitNothing(t) \/ CommitAppend(t) \/ CommitConfirm(t) \/ CommitSyncFails(t)
        \/ Rollback(t) \/ GiveUp(t) \/ ReturnAppend(t) \/ ReturnConfirm(t) \/ ReturnSyncFails(t)
        \/ \E c \in Cols :
            \/ \E mode \in {"read", "write"} : Snapshot(t, c, mode)
            \/ LoadCollection(t, c) \/ CreateCollection(t, c) \/ Grow(t, c)
            \/ Drop(t, c) \/ Scan(t, c)
            \/ \E p \in Pages : Update(t, c, p) \/ Shrink(t, c, p)
    \/ CheckpointStart \/ CheckpointCopy \/ CheckpointSync \/ CheckpointTruncate
    \/ CheckpointClear \/ CheckpointFails
    \/ CrashAndReopen

Spec == Init /\ [][Next]_vars

-----------------------------------------------------------------------------
(* What the store holds.                                                   *)

\* The page a new snapshot would find.  Where a truncation that could not be synced
\* took the log away under the index, the reader gets an error; what it asked for
\* has been moved to the data file before.
Readable(p, body) == IF body = Blank THEN dataFile[p] ELSE body
Latest(p) == Readable(p, readAt(p, readVersion))

\* The header as of the last confirmed commit: while headerMu is held across a
\* write of the log, the header in memory runs ahead.
SettledHeader == IF mu = NoTx THEN header ELSE tx[mu].save

\* Pages of committed collections, of the free list, and in nobody's but one
\* open transaction's hands.
OwnedBy(c) ==
    LET p == SettledHeader.table[c]
    IN  IF p = NoPage THEN {}
        ELSE {p} \cup (IF Latest(p).kind = "coll" THEN Latest(p).pages ELSE {})
Owned == UNION {OwnedBy(c) : c \in Cols}
Held(t) == ToSet(tx[t].newPages)
Follow(p) == IF p \in Pages /\ Latest(p).kind = "empty" THEN Latest(p).next ELSE p
Walk[n \in 0 .. MaxPage] == IF n = 0 THEN header.free ELSE Follow(Walk[n - 1])
FreePages == {Walk[n] : n \in 0 .. MaxPage} \ {NoPage}

-----------------------------------------------------------------------------
(* Properties.                                                             *)

\* Page ids, offsets, versions and transaction ids stay in their ranges, in memory and
\* in what both files hold: a database at its size limit never takes one page more.
TypeOK ==
    /\ logEnd \in Nat
    /\ \A log \in {logFile, logDisk} : \A i \in DOMAIN log :
           log[i].page \in {Header} \cup Pages /\ log[i].tx \in Nat /\ log[i].confirmed \in BOOLEAN
    /\ DOMAIN index = {Header} \cup Pages
    /\ \A p \in DOMAIN index : \A e \in index[p] : e.offset \in Nat \ {0} /\ e.version \in 1 .. readVersion
    /\ confirmed \subseteq 1 .. lastTxID
    /\ header.free \in Pages \cup {NoPage}
    /\ header.last \in Pages
    /\ mu \in Txs \cup {NoTx}
    /\ \A t \in Txs : /\ tx[t].st \in {"idle", "active", "appended", "aborting", "returning"}
                      /\ Held(t) \subseteq Pages

\* The free list leads through empty pages of the file to its end.  No page on it
\* belongs to a collection or to a transaction that took it.
FreeListSound ==
    mu = NoTx =>
        /\ NoPage \in {Walk[n] : n \in 0 .. MaxPage}
        /\ FreePages \cap (Owned \cup UNION {Held(t) : t \in Txs}) = {}
        /\ FreePages \subseteq 1 .. header.last

\* A page has one owner: two collections never share one, nor does a transaction
\* take one that somebody else owns or took, whatever crashed in between.
OneOwner ==
    /\ \A c, d \in Cols : c # d => OwnedBy(c) \cap OwnedBy(d) = {}
    /\ \A t, u \in Txs : t # u => Held(t) \cap Held(u) = {}
    /\ \A t \in Txs : tx[t].st # "appended" => Held(t) \cap Owned = {}
    /\ Owned \subseteq 1 .. SettledHeader.last

\* As long as nothing fails no page is lost: it is free, owned, or an open
\* transaction gives it back or confirms it.
NoLeak ==
    crashes = 0 /\ faults = 0 /\ mu = NoTx =>
        1 .. header.last \subseteq Owned \cup FreePages \cup UNION {Held(t) : t \in Txs}

\* The collection table never holds more names than it has room for, although two
\* transactions may each have found the last place free before they commit.
TableFits == Cardinality({c \in Cols : SettledHeader.table[c] # NoPage}) <= MaxCols

\* A version is handed to readers only once its pages are on the device: the flag on
\* persistent media is the commit point.  Only a checkpoint takes the log away from
\* under its index, when an fsync fails after the pages are in the data file.
CutOff(off) == faults > 0 /\ (off \notin DOMAIN logFile \/ logFile[off] = BlankRec)
ConfirmedIsDurable ==
    \A p \in DOMAIN index : \A e \in index[p] :
        \/ e.offset \in DOMAIN logDisk /\ logDisk[e.offset].page = p
        \/ CutOff(e.offset)

\* An id found in the log is never given to a new transaction: the pages a crash
\* cut off would otherwise be confirmed with the new ones.
NoIDTwice ==
    /\ MaxIDIn(logFile) <= lastTxID
    /\ \A t \in Txs : tx[t].st = "active" =>
           /\ tx[t].id \notin confirmed
           /\ \A i \in 1 .. logEnd : i \in DOMAIN logFile /\ logFile[i].tx = tx[t].id =>
                 \E p \in DOMAIN tx[t].dirty : tx[t].dirty[p] >= i

\* What a commit has confirmed is in the store after any crash and recovery, and no
\* transaction id is taken twice, which would mix the pages of two transactions in
\* the log.
ConfirmedIsKept == NoIDTwice /\ ConfirmedIsDurable
=============================================================================
