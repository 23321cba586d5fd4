-------------------------- MODULE TxStoreRefinement --------------------------
(***************************************************************************)
(* TxStore implements SnapshotStore: what each open snapshot can read,     *)
(* what a new one would find and what a replay of the log would recover    *)
(* only ever change together the way the abstract store says.              *)
(***************************************************************************)
EXTENDS TxStore

CONSTANTS
    Absent,      \* the contents of a collection that does not exist
    Unopened     \* no snapshot

\* The contents of a collection whose collection page reads as body.
ContentsOf(body, read(_)) ==
    IF body.kind = "coll" THEN [q \in body.pages |-> read(q)] ELSE Absent

Stored(c) ==
    LET p == SettledHeader.table[c]
    IN  IF p = NoPage THEN Absent ELSE ContentsOf(Latest(p), Latest)

\* What Open would find after a crash of the process.
Recovered(c) ==
    LET found == Replayed(logFile)
        read(p) == IF found[p] = {} THEN dataFile[p] ELSE logFile[Newest(found[p]).offset].body
        p == ReplayedHeader(logFile, dataFile).table[c]
    IN  IF p = NoPage THEN Absent ELSE ContentsOf(read(p), read)

\* What the getPage of transaction t reads through its snapshot of c.  Before the
\* collection page is loaded the snapshot is its version and nothing else; once
\* Commit has begun nobody reads through a snapshot opened for reading.
View(t, c) ==
    LET s == tx[t].snaps[c]
        p == SettledHeader.table[c]
        read(q) == Readable(q, IF s.mode = "read" /\ tx[t].st # "active"
                               THEN readAt(q, s.version) ELSE getPage(t, c, q, FALSE))
    IN  CASE s.mode = "none" -> Unopened
          [] s.mode # "none" /\ s.loaded ->
                IF s.coll = NoPage THEN Absent ELSE ContentsOf(s.body, read)
          [] OTHER -> IF p = NoPage THEN Absent ELSE ContentsOf(read(p), read)

\* What a snapshot opened for reading shows stays as it is for as long as it is open,
\* whatever is committed, and whatever its own transaction does to other collections.
ReadViewStable ==
    [][\A t \in Txs, c \in Cols :
          /\ tx[t].st = "active" /\ tx'[t].st = "active"
          /\ tx[t].snaps[c].mode = "read" /\ tx[t].snaps[c].loaded
          /\ tx'[t].snaps[c] = tx[t].snaps[c]
          => View(t, c)' = View(t, c)]_vars

\* A commit that succeeds without writing had nothing to write: pages that went to the
\* log before are not forgotten because nothing changed since.
CommitKeepsAll ==
    [][\A t \in Txs :
          /\ CommitNothing(t)
          /\ ~broken
          /\ CommitPages(tx[t]) = <<>>
          => \A c \in Cols : tx[t].snaps[c].mode = "write" => View(t, c) = Stored(c)]_vars

Abstract == INSTANCE SnapshotStore WITH
    store   <- [c \in Cols |-> Stored(c)],
    pending <- [c \in Cols |-> Recovered(c)],
    view    <- [t \in Txs |-> [c \in Cols |-> View(t, c)]],
    writes  <- [t \in Txs |-> {c \in Cols : tx[t].snaps[c].mode = "write"}]

\* Isolation and atomicity: every step of the code is a step of the abstract store.
\* A view changes by its own writes only, a commit takes effect in one step with
\* all its collections and nothing of a transaction that failed or is still open,
\* and a crash keeps all of a commit in flight or none of it.
ImplementsSnapshotStore == Abstract!Spec
=============================================================================
