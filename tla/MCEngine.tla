------------------------------ MODULE MCEngine ------------------------------
(* Small instances of what works on collections and documents: the catalog   *)
(* of collections, file storage, query plans, the external sort, the text of *)
(* an index, and values with their order and their bytes.  The parts do not  *)
(* interact here: a behaviour is one of the part it starts in.               *)
EXTENDS FiniteSets, ExprCases, ValueCases

CONSTANTS Parts,    \* the parts to check
          Flipped   \* ask for patterns whose field stands on the right of LIKE

VARIABLES
  part,
  \* Catalog
  header, hist, lock, seq, tx, told,
  \* FileStorage
  info, chunk, fileLock, writer, reader, started, sessions, crashes,
  \* QueryPlan
  docs, indexes, virtual, query, plan, hits, answer, failed, phase,
  \* ExternalSort
  input, batch, runs, sortPhase, readers, heap, output, disk, next, free,
  \* Expressions
  stored, asked,
  \* ValueKeys, Documents
  yielded, objects

-----------------------------------------------------------------------------
(* Two goroutines, two names, two commits: one instance with ids to spare    *)
(* and versions fixed early, one with renames and rollbacks.                 *)
AutoIds == INSTANCE Catalog WITH
  Names <- {"a", "b"}, Txs <- {"t", "u"}, Ids <- {1, 2, 3}, Start <- "a", MaxCommits <- 2,
  MaxChanges <- 1, Renames <- FALSE, Rollbacks <- FALSE, LateLooks <- TRUE,
  PartialDelete <- FALSE, CheckpointFails <- FALSE
Renamed == INSTANCE Catalog WITH
  Names <- {"a", "b"}, Txs <- {"t", "u"}, Ids <- {1, 2}, Start <- "a", MaxCommits <- 2,
  MaxChanges <- 1, Renames <- TRUE, Rollbacks <- TRUE, LateLooks <- FALSE,
  PartialDelete <- FALSE, CheckpointFails <- FALSE

(* One file of at most three bytes in chunks of two.                         *)
Upload == INSTANCE FileStorage WITH
  Ids <- {"f"}, Writers <- {"p", "q"}, Readers <- {}, ChunkSize <- 2, Batch <- 1, MaxLen <- 3,
  MaxSessions <- 2, MaxCrashes <- 1, Overlap <- FALSE, lock <- fileLock
Download == INSTANCE FileStorage WITH
  Ids <- {"f"}, Writers <- {"p"}, Readers <- {"r"}, ChunkSize <- 2, Batch <- 1, MaxLen <- 3,
  MaxSessions <- 1, MaxCrashes <- 0, Overlap <- FALSE, lock <- fileLock

(* Values 0, 1, 2 and strings: 19 "%y", 20 "x", 21 "x%", 22 "xy", 23 "y".      *)
Strings == 19..23
PrefixOf == [p \in Strings |-> CASE p = 19 -> 0 [] p = 21 -> 20 [] OTHER -> p]
StartsWith == {<<s, p>> \in Strings \X Strings : p = s \/ (p = 20 /\ s \in {21, 22})}
IsLike == {<<s, p>> \in Strings \X Strings :
             p = s \/ (p = 21 /\ s \in {20, 22}) \/ (p = 19 /\ s \in {22, 23})}

Doc(a, tags) == [a |-> a, tags |-> tags]
SmallCollections ==
  {<<Doc(x, t), Doc(y, <<2, 1>>), Doc(z, <<2>>)>> : x \in {0, 1, 21, 22}, t \in {<<>>, <<1, 2>>},
                                                    y \in {1, 22}, z \in {1, 22}} \cup {<<>>}
Term(op, path, arg, side) == [op |-> op, path |-> path, arg |-> arg, side |-> side, all |-> FALSE]
Either == [op |-> "or", either |-> <<Term("eq", "a", <<1>>, "right"), Term("eq", "id", <<2>>, "right")>>]
Terms == {Term(op, "a", <<1>>, "right") : op \in {"eq", "ne", "gt", "lte"}} \cup
  {Term("gte", "a", <<1>>, "left"), Term("lt", "id", <<3>>, "right"), Term("eq", "id", <<2>>, "right"),
   Term("in", "a", <<2, 1, 2>>, "right"), Term("eq", "a", <<22, 1>>, "each"),
   Term("between", "a", <<1, 21>>, "right"), Term("like", "a", <<19>>, "right"),
   Term("like", "a", <<21>>, "right"), Term("like", "a", <<23>>, "right"),
   Term("eq", "tags", <<1>>, "right"), Term("lt", "tags", <<3>>, "right"),
   [Term("lt", "tags", <<2>>, "right") EXCEPT !.all = TRUE], Term("in", "tags", <<2, 1>>, "right")}
Filters == {<<>>} \cup {<<t>> : t \in Terms \cup {Either}}
             \cup {<<Term("lt", "tags", <<3>>, "right"), t>> : t \in {Term("gt", "a", <<0>>, "right"), Either}}
By(path, dir) == [by |-> path, dir |-> dir]
Shape(order, group, page) ==
  [order |-> order, group |-> group, proj |-> "a", offset |-> page[1], limit |-> page[2]]
PagesAsked == {<<0, 9>>, <<1, 1>>}
QueryShapes ==
  {Shape(o, FALSE, p) : p \in PagesAsked,
     o \in {<<>>, <<By("a", 1)>>, <<By("a", -1), By("id", 1)>>, <<By("id", -1)>>}} \cup
  {Shape(o, TRUE, p) : p \in PagesAsked,
     o \in {<<>>, <<By("count", -1), By("key", 1)>>, <<By("key", -1)>>}}

Query == INSTANCE QueryPlan WITH
  Collections <- SmallCollections,
  IndexSets <- {{}, {[on |-> "a", unique |-> FALSE], [on |-> "tags", unique |-> FALSE]},
                {[on |-> "a", unique |-> TRUE]}},
  Wheres <- IF Flipped THEN {<<Term("like", "a", <<22>>, "left")>>} ELSE Filters,
  Shapes <- QueryShapes, Strings <- Strings, NoPrefix <- 0, Prefix <- PrefixOf,
  HasPrefix <- StartsWith, Matches <- IsLike, Sources <- {FALSE, TRUE}, VirtualGroups <- FALSE

(* Keys of two segments in one query; two queries on one disk; records that  *)
(* straddle the pages a reader has in its window.                            *)
TwoSegments == INSTANCE ExternalSort WITH
  Sorters <- {"s"}, Keys <- {<<1, 1>>, <<1, 2>>, <<2, 1>>}, Orders <- <<1, -1>>, Sizes <- {1, 2},
  Overhead <- 1, PageSize <- 3, RunSize <- 3, MaxRecords <- 4, phase <- sortPhase
TwoQueries == INSTANCE ExternalSort WITH
  Sorters <- {"s", "t"}, Keys <- {<<1>>, <<2>>}, Orders <- <<1>>, Sizes <- {2},
  Overhead <- 1, PageSize <- 3, RunSize <- 3, MaxRecords <- 2, phase <- sortPhase
LongRuns == INSTANCE ExternalSort WITH
  Sorters <- {"s"}, Keys <- {<<1>>, <<2>>}, Orders <- <<1>>, Sizes <- {1, 2},
  Overhead <- 0, PageSize <- 3, RunSize <- 6, MaxRecords <- 4, phase <- sortPhase

Indexed == INSTANCE Expressions WITH
  Letters <- 1..2, IgnoreCase <- FALSE, TwoPow63 <- 16, MaxInt32 <- 7, MaxInt64 <- 31,
  Ints <- IntTokens, Doubles <- DoubleTokens, Quoted <- QuotedTokens, OddNames <- {"a b"},
  Upper <- Uppers, MaxDepth <- 5, TextNumber <- Order, Docs <- Documents, Texts <- AllTexts,
  Again <- AskedAgain, Likes <- {<<1, 1>>}, MaxEvalDepth <- 9

(* Three values of each kind; one document whose table grows and shrinks and *)
(* its clone; documents and an array that stand in one another.              *)
Keyed == INSTANCE ValueKeys WITH
  Letters <- 1..2, IgnoreCase <- TRUE, TwoPow63 <- 16, Samples <- Sampled, MaxValues <- 3
Flat == INSTANCE Documents WITH
  Letters <- 1..2, IgnoreCase <- FALSE, TwoPow63 <- 16, Docs <- {"d", "e"}, Arrays <- {"r"},
  Names <- FieldNames, Fold <- Folded, BadNames <- {"b"}, BadLetters <- {3}, Scalars <- {LastMoment},
  Nestable <- {}, MaxItems <- 0, linearScanMax <- 1, maxNestingDepth <- 3,
  TicksPerMillisecond <- 2, MaxTicks <- 7, heap <- objects
Nested == INSTANCE Documents WITH
  Letters <- 1..2, IgnoreCase <- FALSE, TwoPow63 <- 16, Docs <- {"d", "e"}, Arrays <- {"r"},
  Names <- OneName, Fold <- Folded, BadNames <- {}, BadLetters <- {3}, Scalars <- Forms,
  Nestable <- {"e", "r"}, MaxItems <- 1, linearScanMax <- 1, maxNestingDepth <- 3,
  TicksPerMillisecond <- 2, MaxTicks <- 7, heap <- objects

-----------------------------------------------------------------------------
catalogVars == <<header, hist, lock, seq, tx, told>>
fileVars == <<info, chunk, fileLock, writer, reader, started, sessions, crashes>>
queryVars == <<docs, indexes, virtual, query, plan, hits, answer, failed, phase>>
sortVars == <<input, batch, runs, sortPhase, readers, heap, output, disk, next, free>>
exprVars == <<stored, asked>>
valueVars == <<yielded, objects>>
vars == <<part, catalogVars, fileVars, queryVars, sortVars, exprVars, valueVars>>

Init ==
  /\ part \in Parts
  /\ IF part = "names" THEN Renamed!Init ELSE AutoIds!Init
  /\ IF part = "download" THEN Download!Init ELSE Upload!Init
  /\ IF part = "queries" THEN TwoQueries!Init ELSE TwoSegments!Init
  /\ Query!Init /\ (part # "query" => docs = <<>> /\ indexes = {} /\ ~virtual)
  /\ Indexed!Init /\ Keyed!Init /\ Flat!Init

Next ==
  \/ /\ part = "ids" /\ AutoIds!Next
     /\ UNCHANGED <<part, fileVars, queryVars, sortVars, exprVars, valueVars>>
  \/ /\ part = "names" /\ Renamed!Next
     /\ UNCHANGED <<part, fileVars, queryVars, sortVars, exprVars, valueVars>>
  \/ /\ part = "upload" /\ Upload!Next
     /\ UNCHANGED <<part, catalogVars, queryVars, sortVars, exprVars, valueVars>>
  \/ /\ part = "download" /\ Download!Next
     /\ UNCHANGED <<part, catalogVars, queryVars, sortVars, exprVars, valueVars>>
  \/ /\ part = "query" /\ Query!Next
     /\ UNCHANGED <<part, catalogVars, fileVars, sortVars, exprVars, valueVars>>
  \/ /\ part = "segments" /\ TwoSegments!Next
     /\ UNCHANGED <<part, catalogVars, fileVars, queryVars, exprVars, valueVars>>
  \/ /\ part = "queries" /\ TwoQueries!Next
     /\ UNCHANGED <<part, catalogVars, fileVars, queryVars, exprVars, valueVars>>
  \/ /\ part = "long" /\ LongRuns!Next
     /\ UNCHANGED <<part, catalogVars, fileVars, queryVars, exprVars, valueVars>>
  \/ /\ part = "exprs" /\ Indexed!Next
     /\ UNCHANGED <<part, catalogVars, fileVars, queryVars, sortVars, valueVars>>
  \/ /\ part = "keys" /\ Keyed!Next
     /\ UNCHANGED <<part, catalogVars, fileVars, queryVars, sortVars, exprVars, objects>>
  \/ /\ part = "flat" /\ Flat!Next
     /\ UNCHANGED <<part, catalogVars, fileVars, queryVars, sortVars, exprVars, yielded>>
  \/ /\ part = "nested" /\ Nested!Next
     /\ UNCHANGED <<part, catalogVars, fileVars, queryVars, sortVars, exprVars, yielded>>

Spec == Init /\ [][Next]_vars

-----------------------------------------------------------------------------
\* A name leads to a collection page of its own, whoever writes a collection sees
\* its latest commit, an automatic id is never that of a document there is, and
\* commit hooks are told what was committed: see Catalog.
CatalogSound ==
  /\ part = "ids" => /\ AutoIds!NamesLeadToPages /\ AutoIds!WritersSeeLatest
                     /\ AutoIds!AutoIdIsFresh /\ AutoIds!ToldIsTrue
  /\ part = "names" => /\ Renamed!NamesLeadToPages /\ Renamed!WritersSeeLatest
                       /\ Renamed!ToldIsTrue
\* A described file has all its chunks and nothing of an older upload, and a
\* reader reads the bytes of one upload: see FileStorage.
FilesAreWhole ==
  /\ part = "upload" => /\ Upload!DescribedIsReadable /\ Upload!NothingInTheWay
                        /\ Upload!ClosedIsAll /\ Upload!ReadsOneUpload
  /\ part = "download" => /\ Download!DescribedIsReadable /\ Download!NothingInTheWay
                          /\ Download!ClosedIsAll /\ Download!ReadsOneUpload
\* Whatever index is chosen, the rows are those of the filter: see QueryPlan.
RowsMatch == part = "query" => Query!RowsMatch
\* Rows, their order, groups, projections and counts are those that the documents
\* define, whatever plan is chosen: see QueryPlan.
PlansAgree == part = "query" => /\ Query!RowsMatch /\ Query!RowsInOrder /\ Query!CountIsLength
                                /\ Query!ProjectedFromDocument /\ Query!GroupsComplete
\* A sort hands out all it was given and in order, from runs that share no slot of
\* the file with another query: see ExternalSort.
SortHandsOutAll ==
  /\ part = "segments" => /\ TwoSegments!OutputIsSorted /\ TwoSegments!AllComesOut
                          /\ TwoSegments!SlotsApart /\ TwoSegments!WindowHolds
  /\ part = "queries" => /\ TwoQueries!OutputIsSorted /\ TwoQueries!AllComesOut
                         /\ TwoQueries!SlotsApart /\ TwoQueries!WindowHolds
  /\ part = "long" => /\ LongRuns!OutputIsSorted /\ LongRuns!AllComesOut
                      /\ LongRuns!SlotsApart /\ LongRuns!WindowHolds
\* The text of an index, read again, means what the caller's text meant: see
\* Expressions.
KeepsMeaning == part = "exprs" => Indexed!KeepsMeaning
\* The order of values is one, equal values share an identity and are one key, and
\* keys and documents read back from their bytes as they were: see ValueKeys and
\* Documents.
ValuesReadBack ==
  /\ part = "keys" => /\ Keyed!OrderIsTotal /\ Keyed!KeysAreIdentities
                      /\ Keyed!EachValueOnce /\ Keyed!KeysReadBack
  /\ part = "flat" => Flat!KeysAreFound /\ Flat!WritesReadBack
  /\ part = "nested" => Nested!KeysAreFound /\ Nested!WritesReadBack
=============================================================================
