------------------------------ MODULE Catalog ------------------------------
(***************************************************************************)
(* The catalogue of collections and the document layer above it            *)
(* (internal/xengine, the parts of internal/xtx and internal/xpage that    *)
(* keep names, and hooks.go).  Write locks are held by NAME, the table of  *)
(* names lives in the one header page that every transaction shares, it    *)
(* is read live and changed by callbacks that run inside a commit, the     *)
(* auto-id counters live in memory beside it, and what a commit changed is *)
(* told to the subscribers after its locks are gone.  Here these five meet.*)
(*                                                                         *)
(* A collection page stands for everything reached from it: its content is *)
(* the set of ids of the documents.  hist[v] is the content of every page  *)
(* at log version v, as TxStore stores it.                                 *)
(***************************************************************************)
EXTENDS Naturals, FiniteSets, Sequences, SequencesExt

CONSTANTS
  Names,          \* collection names, folded
  Txs,            \* goroutines, each with at most one transaction
  Ids,            \* ids a document can have, 1 .. the limit of the counter
  Start,          \* the collection the reopened file holds, with documents 1 and 2
  MaxCommits,     \* bound on the commits
  MaxChanges,     \* bound on the changes of one transaction
  Renames,        \* whether RenameCollection is called
  Rollbacks,      \* whether transactions roll back
  LateLooks,      \* whether commits come between fixing the version of a snapshot and
                  \* looking the name up: the goroutine is delayed, or it first met the
                  \* name when it did not exist and only now creates it
  PartialDelete,  \* whether clearing a collection may fail half-way and be committed all the same
  CheckpointFails \* whether the checkpoint a commit runs at its end may fail

None == "none"
Pages == 1 .. Cardinality(Names) + Cardinality(Txs)
NoColl == Ids \cup {0}     \* content of a page that is no collection page

VARIABLES
  header,     \* name -> collection page, 0 when there is none (the live header)
  hist,       \* sequence of: page -> content; Len(hist) is the log version
  lock,       \* name -> transaction holding its write lock
  seq,        \* name -> auto-id counter in memory, 0 when not there
  tx,         \* goroutine -> its transaction
  told        \* one record for every commit: what it changed, and what was told of it

vars == <<header, hist, lock, seq, tx, told>>

Version == Len(hist)
NoSnap == [ver |-> 0, page |-> 0, ids |-> {}, new |-> FALSE]
Idle == [at |-> "idle", job |-> [op |-> "none"], snaps |-> [n \in Names |-> NoSnap],
         calls |-> <<>>, changes |-> <<>>, commit |-> 0]

Init ==
  /\ header = [n \in Names |-> IF n = Start THEN 1 ELSE 0]
  /\ hist = << [p \in Pages |-> IF p = 1 THEN {1, 2} ELSE NoColl] >>
  /\ lock = [n \in Names |-> None]
  /\ seq = [n \in Names |-> 0]
  /\ tx = [t \in Txs |-> Idle]
  /\ told = <<>>

Snap(t, n) == tx[t].snaps[n]
Held(t, n) == lock[n] = t
Change(n, op, id, new) == [coll |-> n, op |-> op, id |-> id, to |-> new]

UsedPages == {header[n] : n \in Names} \cup {Snap(t, n).page : t \in Txs, n \in Names}
FreshPage == CHOOSE p \in Pages : p \notin UsedPages

-----------------------------------------------------------------------------
(* Begin: a transaction of the caller, or the one a drop or a rename opens  *)
(* for itself.                                                              *)
Begin(t, job) ==
  /\ tx[t].at = "idle" /\ Version <= MaxCommits
  /\ tx' = [tx EXCEPT ![t] = [Idle EXCEPT !.at = "ready", !.job = job]]
  /\ UNCHANGED <<header, hist, lock, seq, told>>

(* Transaction.Snapshot, first half: the write lock of the name is taken    *)
(* and the version is fixed.  A held lock blocks.                           *)
VersionBeforeWaiting(n) == IF Version > 1 THEN Version - 1 ELSE Version
FixedVersion(n) == Version

TakeLock(t, n, create) ==
  /\ tx[t].at = "ready" /\ lock[n] = None
  /\ create \/ header[n] # 0 \/ LateLooks
  /\ lock' = [lock EXCEPT ![n] = t]
  /\ tx' = [tx EXCEPT ![t].at = "look", ![t].job = @ @@ [look |-> n, create |-> create],
                      ![t].snaps[n].ver = FixedVersion(n)]
  /\ UNCHANGED <<header, hist, seq, told>>

(* the lock is held since an earlier call that did not find the collection; *)
(* this call wants it created and looks again, at the version fixed then.   *)
LookAgain(t, n) ==
  /\ tx[t].at = "ready" /\ Held(t, n) /\ Snap(t, n).page = 0 /\ tx[t].job.op = "user"
  /\ tx' = [tx EXCEPT ![t].at = "look", ![t].job = [op |-> "user", look |-> n, create |-> TRUE]]
  /\ UNCHANGED <<header, hist, lock, seq, told>>

(* Snapshot.loadCollection: the name is looked up in the live header; the   *)
(* page is read at the version of the snapshot.  A missing collection is    *)
(* created in a page of its own and enters the table when the commit runs.  *)
Loaded(t, n, snap) ==
  tx' = [tx EXCEPT ![t].at = "ready", ![t].snaps[n] = snap,
                   ![t].job = [f \in DOMAIN @ \ {"look", "create"} |-> @[f]]]

FindCollection(t, n) ==
  /\ header[n] # 0 /\ hist[Snap(t, n).ver][header[n]] # NoColl
  /\ Loaded(t, n, [Snap(t, n) EXCEPT !.page = header[n], !.ids = hist[Snap(t, n).ver][header[n]]])
  /\ UNCHANGED <<header, hist, lock, seq, told>>

(* the page was no collection page at that version: the call fails          *)
FailToLoad(t, n) ==
  /\ header[n] # 0 /\ hist[Snap(t, n).ver][header[n]] = NoColl
  /\ lock' = [lock EXCEPT ![n] = None]
  /\ tx' = [tx EXCEPT ![t].at = "failed", ![t].snaps[n] = NoSnap]
  /\ UNCHANGED <<header, hist, seq, told>>

MissCollection(t, n) ==
  /\ header[n] = 0 /\ ~tx[t].job.create
  /\ Loaded(t, n, Snap(t, n))
  /\ UNCHANGED <<header, hist, lock, seq, told>>

CreateCollection(t, n) ==
  /\ header[n] = 0 /\ tx[t].job.create
  /\ tx' = [tx EXCEPT ![t].at = "ready",
                      ![t].snaps[n] = [@ EXCEPT !.page = FreshPage, !.ids = {}, !.new = TRUE],
                      ![t].calls = Append(@, [op |-> "add", name |-> n, page |-> FreshPage]),
                      ![t].job = [f \in DOMAIN @ \ {"look", "create"} |-> @[f]]]
  /\ UNCHANGED <<header, hist, lock, seq, told>>

loadCollection(t, n) ==
  /\ tx[t].at = "look" /\ tx[t].job.look = n
  /\ \/ FindCollection(t, n)
     \/ FailToLoad(t, n)
     \/ MissCollection(t, n)
     \/ CreateCollection(t, n)

-----------------------------------------------------------------------------
(* Auto ids.  0 stands for an exhausted counter.                            *)
Limit == Max(Ids)
lastID(t, n) == IF Snap(t, n).ids = {} THEN 0 ELSE Max(Snap(t, n).ids)
Counter(t, n) == IF seq[n] = 0 THEN lastID(t, n) ELSE seq[n]
nextSequence(t, n) == IF Counter(t, n) >= Limit THEN 0 ELSE Counter(t, n) + 1

BumpedBlindly(t, n, id) == IF seq[n] > id THEN seq[n] ELSE id
Bumped(t, n, id) == IF Counter(t, n) > id THEN Counter(t, n) ELSE id

Writing(t, n) == tx[t].at = "ready" /\ tx[t].job.op = "user" /\ Held(t, n) /\ Snap(t, n).page # 0

(* insertDocument: the id is settled first, the counter keeps it whatever   *)
(* becomes of the document; a duplicate leaves the collection as it was.    *)
Put(t, n, id) ==
  tx' = IF id \in Snap(t, n).ids THEN tx
        ELSE [tx EXCEPT ![t].snaps[n].ids = @ \cup {id},
                        ![t].changes = Append(@, Change(n, "insert", id, n))]

InsertAuto(t, n) ==
  /\ Writing(t, n) /\ nextSequence(t, n) # 0 /\ Len(tx[t].changes) < MaxChanges
  /\ seq' = [seq EXCEPT ![n] = nextSequence(t, n)]
  /\ Put(t, n, nextSequence(t, n))
  /\ UNCHANGED <<header, hist, lock, told>>

InsertWithId(t, n, id) ==
  /\ Writing(t, n) /\ Len(tx[t].changes) < MaxChanges
  /\ seq' = [seq EXCEPT ![n] = Bumped(t, n, id)]
  /\ Put(t, n, id)
  /\ UNCHANGED <<header, hist, lock, told>>

Delete(t, n, id) ==
  /\ Writing(t, n) /\ id \in Snap(t, n).ids /\ Len(tx[t].changes) < MaxChanges
  /\ tx' = [tx EXCEPT ![t].snaps[n].ids = @ \ {id},
                      ![t].changes = Append(@, Change(n, "delete", id, n))]
  /\ UNCHANGED <<header, hist, lock, seq, told>>

(* deleteManyIn without a condition: the single deletions are muted and one *)
(* change for the collection is noted, also when the deletion failed        *)
(* half-way (left are the documents it did not reach).                      *)
ClearedMuted(n) == <<>>
Cleared(n) == <<Change(n, "deleteAll", 0, n)>>

DeleteAll(t, n) ==
  /\ Writing(t, n) /\ Snap(t, n).ids # {} /\ Len(tx[t].changes) < MaxChanges
  /\ \E left \in SUBSET Snap(t, n).ids :
       /\ left = {} \/ PartialDelete
       /\ tx' = [tx EXCEPT ![t].snaps[n].ids = left,
                           ![t].changes = @ \o Cleared(n)]
  /\ UNCHANGED <<header, hist, lock, seq, told>>

(* Engine.DropCollection: the documents and the page go, the name leaves    *)
(* the table when the commit runs, the counter is forgotten at once.        *)
DropCollection(t, n) ==
  /\ tx[t].at = "ready" /\ tx[t].job = [op |-> "drop", name |-> n] /\ Held(t, n)
  /\ IF Snap(t, n).page = 0
     THEN tx' = [tx EXCEPT ![t].at = "done"] /\ UNCHANGED seq
     ELSE /\ tx' = [tx EXCEPT ![t].at = "done", ![t].snaps[n].ids = NoColl,
                              ![t].calls = Append(@, [op |-> "delete", name |-> n]),
                              ![t].changes = Append(@, Change(n, "dropCollection", 0, n))]
          /\ seq' = [seq EXCEPT ![n] = 0]
  /\ UNCHANGED <<header, hist, lock, told>>

(* Engine.RenameCollection: only the old name is locked; that the new one   *)
(* is free is checked now and again by the callback of the commit.          *)
CanRenameCollection(h, old, new) == h[old] # 0 /\ h[new] = 0

RenameCollection(t, old, new) ==
  /\ tx[t].at = "ready" /\ tx[t].job = [op |-> "rename", name |-> old, to |-> new] /\ Held(t, old)
  /\ tx' = IF Snap(t, old).page = 0
           THEN [tx EXCEPT ![t].at = "done", ![t].job.op = "drop"]
           ELSE IF ~CanRenameCollection(header, old, new)
           THEN [tx EXCEPT ![t].at = "failed"]
           ELSE [tx EXCEPT ![t].at = "done",
                           ![t].calls = Append(@, [op |-> "rename", name |-> old, to |-> new]),
                           ![t].changes = Append(@, Change(old, "renameCollection", 0, new))]
  /\ UNCHANGED <<header, hist, lock, seq, told>>

-----------------------------------------------------------------------------
(* Commit.  The callbacks run on the header one after the other; the first  *)
(* that fails undoes them all and fails the commit.                         *)
Failed == [n \in Names |-> Cardinality(Pages) + 1]

RenamedOver(h, c) == IF h[c.name] = 0 THEN Failed
                     ELSE [h EXCEPT ![c.to] = h[c.name], ![c.name] = 0]
Renamed(h, c) == IF ~CanRenameCollection(h, c.name, c.to) THEN Failed
                 ELSE [h EXCEPT ![c.to] = h[c.name], ![c.name] = 0]
Added(h, c) == IF h[c.name] # 0 THEN Failed ELSE [h EXCEPT ![c.name] = c.page]
Removed(h, c) == IF h[c.name] = 0 THEN Failed ELSE [h EXCEPT ![c.name] = 0]

RunCallback(h, c) ==
  IF h = Failed THEN Failed
  ELSE CASE c.op = "add" -> Added(h, c)
         [] c.op = "delete" -> Removed(h, c)
         [] c.op = "rename" -> Renamed(h, c)

HeaderAfter(t) == FoldLeft(RunCallback, header, tx[t].calls)

Written(t) == {n \in Names : Held(t, n) /\ Snap(t, n).page # 0}

ContentAfter(t) ==
  [p \in Pages |->
     IF \E n \in Written(t) : Snap(t, n).page = p
     THEN Snap(t, CHOOSE n \in Written(t) : Snap(t, n).page = p).ids
     ELSE hist[Version][p]]

Unlocked(t) == [n \in Names |-> IF Held(t, n) THEN None ELSE lock[n]]

Ready(t) == tx[t].at = "done" \/ (tx[t].at = "ready" /\ tx[t].job.op = "user")

(* what is handed to the subscribers: nothing of a commit that reports an   *)
(* error, and that includes the error of the checkpoint run after it.       *)
ToTell(t, err) == IF err THEN <<>> ELSE tx[t].changes

Commit(t) ==
  /\ Ready(t) /\ HeaderAfter(t) # Failed /\ Version <= MaxCommits
  /\ LateLooks \/ \A u \in Txs : tx[u].at # "look"
  /\ \E err \in {FALSE, CheckpointFails} :
       /\ header' = HeaderAfter(t)
       /\ hist' = Append(hist, ContentAfter(t))
       /\ lock' = Unlocked(t)
       /\ told' = Append(told, [did |-> tx[t].changes, heard |-> <<>>])
       /\ tx' = [tx EXCEPT ![t] = [Idle EXCEPT
                   !.at = IF tx[t].job.op = "rename" /\ ~err THEN "move" ELSE "tell",
                   !.job = tx[t].job, !.changes = ToTell(t, err), !.commit = Len(told) + 1]]
  /\ UNCHANGED seq

Aborted(t) ==
  /\ lock' = Unlocked(t)
  /\ tx' = [tx EXCEPT ![t] = Idle]
  /\ UNCHANGED <<header, hist, seq, told>>

CommitFails(t) == Ready(t) /\ HeaderAfter(t) = Failed /\ Aborted(t)

(* Rollback by the caller, after an error, or because the context ended.    *)
Rollback(t) ==
  /\ tx[t].at = "failed" \/ (Rollbacks /\ tx[t].at \in {"ready", "done"})
  /\ Aborted(t)

(* the end of RenameCollection, after the commit and with no lock held      *)
MoveSequence(t) ==
  /\ tx[t].at = "move"
  /\ LET old == tx[t].job.name
         new == tx[t].job.to
     IN seq' = IF seq[old] = 0 THEN seq ELSE [seq EXCEPT ![old] = 0, ![new] = seq[old]]
  /\ tx' = [tx EXCEPT ![t].at = "tell"]
  /\ UNCHANGED <<header, hist, lock, told>>

(* commitHooks.settle, commitOutbox.flush: the locks are gone               *)
Tell(t) ==
  /\ tx[t].at = "tell"
  /\ told' = [told EXCEPT ![tx[t].commit].heard = tx[t].changes]
  /\ tx' = [tx EXCEPT ![t] = Idle]
  /\ UNCHANGED <<header, hist, lock, seq>>

Jobs ==
  {[op |-> "user"]} \cup {[op |-> "drop", name |-> n] : n \in Names}
  \cup (IF Renames THEN {[op |-> "rename", name |-> r[1], to |-> r[2]] :
                           r \in {q \in Names \X Names : q[1] # q[2]}} ELSE {})

Lock(t) ==
  \/ \E n \in Names, create \in BOOLEAN : tx[t].job.op = "user" /\ TakeLock(t, n, create)
  \/ tx[t].job.op \in {"drop", "rename"} /\ TakeLock(t, tx[t].job.name, FALSE)

Next ==
  \E t \in Txs :
    \/ \E job \in Jobs : Begin(t, job)
    \/ Lock(t)
    \/ \E n \in Names :
         \/ LookAgain(t, n)
         \/ loadCollection(t, n)
         \/ InsertAuto(t, n)
         \/ \E id \in Ids : InsertWithId(t, n, id) \/ Delete(t, n, id)
         \/ DeleteAll(t, n)
         \/ DropCollection(t, n)
         \/ \E to \in Names : RenameCollection(t, n, to)
    \/ Commit(t) \/ CommitFails(t) \/ Rollback(t)
    \/ MoveSequence(t) \/ Tell(t)

Spec == Init /\ [][Next]_vars

-----------------------------------------------------------------------------
TypeOK ==
  /\ header \in [Names -> Pages \cup {0}]
  /\ \A v \in 1 .. Version : hist[v] \in [Pages -> SUBSET (Ids \cup {0})]
  /\ lock \in [Names -> Txs \cup {None}]
  /\ seq \in [Names -> Ids \cup {0}]

(* Creations, drops and renames that overlap never give one page two names, *)
(* a name in the table always leads to a collection page, and no collection *)
(* is left without a name.                                                  *)
NamesLeadToPages ==
  /\ \A n \in Names : header[n] # 0 =>
       /\ hist[Version][header[n]] # NoColl
       /\ \A m \in Names \ {n} : header[m] # header[n]
  /\ \A p \in Pages : hist[Version][p] # NoColl => \E n \in Names : header[n] = p

(* An auto id is never one the collection already holds, through rollbacks, *)
(* handwritten ids, drops and a reopened file whose counters are gone.      *)
AutoIdIsFresh ==
  \A t \in Txs, n \in Names : Writing(t, n) => nextSequence(t, n) \notin Snap(t, n).ids

(* Whoever holds a collection for writing works on its last committed       *)
(* state: transactions that write the same collection exclude each other.   *)
WritersSeeLatest ==
  \A t \in Txs, n \in Names : Writing(t, n) /\ header[n] = Snap(t, n).page =>
    hist[Snap(t, n).ver][header[n]] = hist[Version][header[n]]

(* Replaying what was told, in commit order, gives the committed database:  *)
(* every commit is told, nothing else is, and the changes say what happened.*)
Mirror(db, c) ==
  CASE c.op = "insert" -> [db EXCEPT ![c.coll] = (@ \ {0}) \cup {c.id}]
    [] c.op = "delete" -> [db EXCEPT ![c.coll] = @ \ {c.id}]
    [] c.op = "deleteAll" -> [db EXCEPT ![c.coll] = {}]
    [] c.op = "dropCollection" -> [db EXCEPT ![c.coll] = {}]
    [] c.op = "renameCollection" -> [db EXCEPT ![c.to] = db[c.coll], ![c.coll] = {}]

Database == [n \in Names |-> IF header[n] = 0 THEN {} ELSE hist[Version][header[n]]]
AtStart == [n \in Names |-> IF n = Start THEN {1, 2} ELSE {}]

ToldIsTrue ==
  (\A t \in Txs : tx[t].at \notin {"tell", "move"}) =>
    Database = FoldLeft(Mirror, AtStart, FlattenSeq([i \in DOMAIN told |-> told[i].heard]))
=============================================================================
