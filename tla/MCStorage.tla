------------------------------ MODULE MCStorage -----------------------------
(* Small instances of what works on the file and its pages: the swap and the *)
(* copy of a rebuild, the online backup, the page cache, the data pages, the *)
(* indexes and the vector indexes.  The parts do not interact here: a        *)
(* behaviour is one of the part it starts in.                                *)
EXTENDS Integers, Sequences, FiniteSets

CONSTANTS Parts  \* the parts to check

VARIABLES
  part,
  \* RebuildSwap
  dir, later, content, committed, swapPc, done, legacy, gens, faults, crashes,
  \* RebuildCopy
  srcPages, known, breaks, todo, copyPc, dst, res,
  \* Backup
  log, data, live, version, commits, now, pc, next, copy, fixed, snap, target,
  \* PageCache
  cacheLog, cacheData, index, items, ring, hand, cacheCommits, cacheFaults,
  \* DataPages
  pages, heads, docs, op,
  \* IndexSync
  nodes, ix, indexPages, stored, indexOp,
  \* VectorGraph
  vecNodes, vecPages, vx, order, external, vecDocs, locator, calls

\* Two commits, two rebuilds, an I/O error, two crashes; and once more for a
\* database whose CHECKPOINT pragma is 0 (what a crash would leave is in later).
Swap == INSTANCE RebuildSwap WITH
  Checkpoints <- TRUE, MaxCommits <- 2, MaxRebuilds <- 2, MaxFaults <- 1, MaxCrashes <- 2, pc <- swapPc
Plain == INSTANCE RebuildSwap WITH
  Checkpoints <- FALSE, MaxCommits <- 2, MaxRebuilds <- 2, MaxFaults <- 1, MaxCrashes <- 0,
  pc <- swapPc
\* Three pages, two collections.
Copy == INSTANCE RebuildCopy WITH
  PageCount <- 3, ColIDs <- {1, 2}, NameOf <- <<"a", "b">>, orphanName <- <<"col_1", "col_2">>,
  Batch <- 2, maxHops <- 2, pages <- srcPages, pc <- copyPc
\* Two backups to one path next to two commits, on file systems of both kinds.
Linked == INSTANCE Backup WITH Backups <- {"b", "c"}, MaxPage <- 2, MaxCommits <- 2, HardLinks <- TRUE
Unlinked == INSTANCE Backup WITH Backups <- {"b"}, MaxPage <- 2, MaxCommits <- 1, HardLinks <- FALSE
\* Two pages, a shard of three entries, three commits.
Cache == INSTANCE PageCache WITH
  PageIDs <- {1, 2}, Capacity <- 3, MaxCommits <- 3, MaxFaults <- 1, log <- cacheLog,
  data <- cacheData, commits <- cacheCommits, faults <- cacheFaults
\* Three pages of ten bytes, three documents, short and long.
Data == INSTANCE DataPages WITH
  PageSize <- 10, HeaderSize <- 1, SlotSize <- 1, MaxItems <- 2, PageIDs <- {1, 2, 3},
  Docs <- {1, 2, 3}, Lens <- {2, 8}, BlockHeader <- 1, Thresholds <- <<8, 6, 5, 3>>
\* Two documents, two keys the collation equates, towers of two levels.
Index == INSTANCE IndexSync WITH
  Docs <- {1, 2}, Keys <- {1, 2}, Rank <- <<1, 1>>, Same <- <<1, 2>>, MaxLevel <- 2,
  PageIDs <- {1, 2, 3, 4}, PageCap <- 3, MaxNodes <- 7, SecUnique <- FALSE,
  pages <- indexPages, op <- indexOp
Unique == INSTANCE IndexSync WITH
  Docs <- {1, 2}, Keys <- {1, 2}, Rank <- <<1, 1>>, Same <- <<1, 2>>, MaxLevel <- 2,
  PageIDs <- {1, 2, 3, 4}, PageCap <- 3, MaxNodes <- 8, SecUnique <- TRUE,
  pages <- indexPages, op <- indexOp

\* Positions on a line; 9 is a vector no distance can be taken of.
Points == {1, 2, 6, 9}
Distance == [p \in Points \X Points |->
               IF 9 \in {p[1], p[2]} THEN 99 ELSE IF p[1] > p[2] THEN p[1] - p[2] ELSE p[2] - p[1]]
Holds(a, b) == [a |-> a, b |-> b]
Heights == {Holds(1, 1), Holds(2, 1)}
NarrowGiven == <<{Holds(1, 1)}, {Holds(2, 2), Holds(6, 0)}, {Holds(6, 6)}>>
WideGiven == <<{Holds(1, 1), Holds(9, 0)}, {Holds(2, 2)}, {Holds(6, 6), Holds(0, 1)}>>
NarrowSize == Holds(2, 3)
WideSize == Holds(2, 2)
VectorPages == 1..6
Three == {1, 2, 3}
AB == {"a", "b"}
OnlyA == {"a"}
FirstA == <<"a">>
FirstAB == <<"a", "b">>
\* Two indexes whose nodes have one neighbour each, so that nodes are pushed out
\* and lost to a search; two nodes of "a" or one of "b" to a page.
Narrow == INSTANCE VectorGraph WITH
  Docs <- Three, Indexes <- AB, Dist <- Distance,
  Given <- NarrowGiven, Heights <- Heights, MaxLevels <- 2, MaxNeighbors <- 1, Ef <- 2,
  Inline <- OnlyA, Pages <- VectorPages, PageCap <- 4, Size <- NarrowSize, KeepAt <- 1,
  First <- FirstA, Droppable <- OnlyA, MaxOps <- 5,
  nodes <- vecNodes, pages <- vecPages, docs <- vecDocs, loc <- locator, ops <- calls
\* Two neighbours each: enough for every vector of three documents to be found.
Wide == INSTANCE VectorGraph WITH
  Docs <- Three, Indexes <- AB, Dist <- Distance,
  Given <- WideGiven, Heights <- Heights, MaxLevels <- 2, MaxNeighbors <- 2, Ef <- 3,
  Inline <- AB, Pages <- VectorPages, PageCap <- 4, Size <- WideSize, KeepAt <- 2,
  First <- FirstAB, Droppable <- AB, MaxOps <- 5,
  nodes <- vecNodes, pages <- vecPages, docs <- vecDocs, loc <- locator, ops <- calls

swapVars == <<dir, later, content, committed, swapPc, done, legacy, gens, faults, crashes>>
copyVars == <<srcPages, known, breaks, todo, copyPc, dst, res>>
backupVars == <<log, data, live, version, commits, now, pc, next, copy, fixed, snap, target>>
cacheVars == <<cacheLog, cacheData, index, items, ring, hand, cacheCommits, cacheFaults>>
dataVars == <<pages, heads, docs, op>>
indexVars == <<nodes, ix, indexPages, stored, indexOp>>
vectorVars == <<vecNodes, vecPages, vx, order, external, vecDocs, locator, calls>>
vars == <<part, swapVars, copyVars, backupVars, cacheVars, dataVars, indexVars, vectorVars>>

Init == /\ part \in Parts
        /\ Swap!Init /\ (part \notin {"swap", "plain"} => legacy = FALSE)
        /\ IF part = "unlinked" THEN Unlinked!Init ELSE Linked!Init
        /\ IF part = "unique" THEN Unique!Init ELSE Index!Init
        /\ IF part = "wide" THEN Wide!Init ELSE Narrow!Init
        /\ Copy!Init /\ Cache!Init /\ Data!Init

Next ==
  \/ /\ part = "swap" /\ Swap!Next
     /\ UNCHANGED <<part, copyVars, backupVars, cacheVars, dataVars, indexVars, vectorVars>>
  \/ /\ part = "plain" /\ Plain!Next
     /\ UNCHANGED <<part, copyVars, backupVars, cacheVars, dataVars, indexVars, vectorVars>>
  \/ /\ part = "copy" /\ Copy!Next
     /\ UNCHANGED <<part, swapVars, backupVars, cacheVars, dataVars, indexVars, vectorVars>>
  \/ /\ part = "linked" /\ Linked!Next
     /\ UNCHANGED <<part, swapVars, copyVars, cacheVars, dataVars, indexVars, vectorVars>>
  \/ /\ part = "unlinked" /\ Unlinked!Next
     /\ UNCHANGED <<part, swapVars, copyVars, cacheVars, dataVars, indexVars, vectorVars>>
  \/ /\ part = "cache" /\ Cache!Next
     /\ UNCHANGED <<part, swapVars, copyVars, backupVars, dataVars, indexVars, vectorVars>>
  \/ /\ part = "data" /\ Data!Next
     /\ UNCHANGED <<part, swapVars, copyVars, backupVars, cacheVars, indexVars, vectorVars>>
  \/ /\ part = "index" /\ Index!Next
     /\ UNCHANGED <<part, swapVars, copyVars, backupVars, cacheVars, dataVars, vectorVars>>
  \/ /\ part = "unique" /\ Unique!Next
     /\ UNCHANGED <<part, swapVars, copyVars, backupVars, cacheVars, dataVars, vectorVars>>
  \/ /\ part = "narrow" /\ Narrow!Next
     /\ UNCHANGED <<part, swapVars, copyVars, backupVars, cacheVars, dataVars, indexVars>>
  \/ /\ part = "wide" /\ Wide!Next
     /\ UNCHANGED <<part, swapVars, copyVars, backupVars, cacheVars, dataVars, indexVars>>

Spec == Init /\ [][Next]_vars

-----------------------------------------------------------------------------
\* Whatever step a rebuild is broken off at, the path holds a complete
\* database, and the backup it leaves is one: see RebuildSwap.
RebuildKeepsAll == /\ part = "swap" => Swap!OriginalIsComplete /\ Swap!BackupIsWhole
                   /\ part = "plain" => Plain!BackupIsWhole
\* The same of a database whose CHECKPOINT pragma is 0, so that closing it leaves
\* a log (rebuild.go:56: "whatever step it crashes at").
OriginalIsCompletePlain == part = "plain" => Plain!OriginalIsComplete
\* A rebuild loses no document it could read and counts what it copied: see
\* RebuildCopy.
CopyKeepsAll == part = "copy" => /\ Copy!NothingReadableIsLost
                                 /\ Copy!CountsTheDocuments
\* A backup is one version of the database and replaces no file: see Backup.
BackupIsOneVersion == /\ part = "linked" => Linked!BackupIsOneVersion /\ Linked!PlacedOnce
                      /\ part = "unlinked" => Unlinked!BackupIsOneVersion
\* The cache serves what is committed, and its clock agrees with its map: see
\* PageCache.
CacheServesCommitted == part = "cache" => Cache!CacheServesCommitted /\ Cache!RingAgrees
\* A document reads back as it was written, whatever happened to its blocks, the
\* pages they share and the lists of pages with room: see DataPages.
DocumentsReadBack == part = "data" => /\ Data!PagesSound
                                      /\ Data!DocumentsReadBack
                                      /\ Data!ListsAgree
\* The levels of a skip list are linked both ways and in order, a search finds
\* every key, and the list of its pages with room is what it says: see SkipList.
SkipListSound ==
  /\ part = "index" => Index!LevelsLinked /\ Index!FindsWhatIsThere /\ Index!IndexPagesListed
  /\ part = "unique" => Unique!LevelsLinked /\ Unique!FindsWhatIsThere /\ Unique!IndexPagesListed
\* Documents and index entries agree, and a call that fails leaves both as they
\* were: see IndexSync.
IndexesInStep ==
  /\ part = "index" => Index!IndexesMatchDocuments /\ Index!UpdateNeverTorn
  /\ part = "unique" => Unique!IndexesMatchDocuments /\ Unique!UpdateNeverTorn
\* What a search of a vector index can reach is in step with the documents, every
\* edge leads back, and nodes and pages stay with their index: see VectorGraph.
VectorsInStep ==
  /\ part = "narrow" => /\ Narrow!EdgesGoBothWays /\ Narrow!RootIsHighest
                        /\ Narrow!SearchIsTrue /\ Narrow!PagesHaveOneOwner
                        /\ Narrow!LocatorAgrees /\ Narrow!VectorsAreAccounted
  /\ part = "wide" => /\ Wide!EdgesGoBothWays /\ Wide!RootIsHighest
                      /\ Wide!SearchIsTrue /\ Wide!PagesHaveOneOwner
                      /\ Wide!LocatorAgrees /\ Wide!EveryVectorIsFound
                      /\ Wide!VectorsAreAccounted
=============================================================================
