------------------------------- MODULE Backup -------------------------------
(***************************************************************************)
(* Backups while transactions commit (src/internal/xtx/backup.go,          *)
(* src/backup.go): a backup enters the shared gate, fixes a version and    *)
(* copies page after page, next to commits, transactions that extend the   *)
(* file, and checkpoints; BackupFile then puts the copy in place.          *)
(***************************************************************************)
EXTENDS Integers, Sequences, FiniteSets, FiniteSetsExt

CONSTANTS Backups,     \* calls of BackupFile, all to the same path
          MaxPage,     \* bound: page ids, the header is page 0
          MaxCommits,  \* bound: commits
          HardLinks    \* does the file system have hard links

VARIABLES log,     \* the log: records [page, value, last, ver]
          data,    \* data[p]: content of page p in the data file
          live,    \* LastPageID of the shared header, ahead of the commits
          version, \* Index.ReadVersion
          commits,
          now,     \* ghost: the committed content of every page, and its last page
          pc, next, copy, fixed, snap, \* per backup
          target   \* who the file at the path came from, "none" if there is none

storeVars == <<log, data, live, version, commits, now>>
copyVars == <<next, copy, fixed, snap>>
vars == <<storeVars, pc, copyVars, target>>

PageIDs == 0..MaxPage
\* What a page can hold: 0 is an empty page in no list, -1 the zeros of a
\* place never written, a positive number what commit n wrote.
Blank == -1
Empty == 0
Never == [value |-> Blank, last |-> 0]

Init ==
  /\ log = <<>>
  /\ data = [p \in PageIDs |-> IF p = 0 THEN [value |-> 0, last |-> 0] ELSE Never]
  /\ live = 0
  /\ version = 0
  /\ commits = 0
  /\ now = [p \in PageIDs |-> IF p = 0 THEN [value |-> 0, last |-> 0] ELSE [value |-> Empty, last |-> 0]]
  /\ pc = [b \in Backups |-> "stat"]
  /\ next = [b \in Backups |-> 0]
  /\ copy = [b \in Backups |-> <<>>]
  /\ fixed = [b \in Backups |-> 0]
  /\ snap = [b \in Backups |-> now]
  /\ target = "none"

-----------------------------------------------------------------------------
(* The store the backup copies.                                            *)

\* A transaction in flight takes a page past the end of the file.
Extend ==
  /\ live < MaxPage
  /\ live' = live + 1
  /\ UNCHANGED <<log, data, version, commits, now, pc, copyVars, target>>

\* A transaction commits a page of its own and the shared header with it.
Commit ==
  /\ commits < MaxCommits
  /\ \E p \in 1..live :
       LET n == commits + 1
           head == [value |-> n, last |-> live]
           body == [value |-> n, last |-> 0]
       IN /\ log' = log \o << [page |-> p, rec |-> body, ver |-> version + 1],
                              [page |-> 0, rec |-> head, ver |-> version + 1] >>
          /\ now' = [now EXCEPT ![p] = body, ![0] = head]
  /\ version' = version + 1
  /\ commits' = commits + 1
  /\ UNCHANGED <<data, live, pc, copyVars, target>>

Inside(b) == pc[b] \in {"version", "read"}
\* checkpointLocked: alone behind the gate; the versions start over.
Checkpoint ==
  /\ log # <<>>
  /\ \A b \in Backups : ~Inside(b)
  /\ data' = [p \in PageIDs |->
       LET offs == {i \in 1..Len(log) : log[i].page = p}
       IN IF offs = {} THEN data[p] ELSE log[Max(offs)].rec]
  /\ log' = <<>>
  /\ version' = 0
  /\ UNCHANGED <<live, commits, now, pc, copyVars, target>>

-----------------------------------------------------------------------------
(* DB.BackupFile and Core.Backup                                           *)

Goto(b, at) == pc' = [pc EXCEPT ![b] = at]

\* A path in use is an error; otherwise a temporary file is made.
Stat(b) ==
  /\ pc[b] = "stat"
  /\ Goto(b, IF target = "none" THEN "gate" ELSE "failed")
  /\ UNCHANGED <<storeVars, copyVars, target>>

EnterShared(b) ==
  /\ pc[b] = "gate"
  /\ Goto(b, "version")
  /\ UNCHANGED <<storeVars, copyVars, target>>

Unfixed(b) == fixed
Fixed(b) == [fixed EXCEPT ![b] = version]
FixVersion(b) ==
  /\ pc[b] = "version"
  /\ fixed' = Fixed(b)
  /\ snap' = [snap EXCEPT ![b] = now]
  /\ Goto(b, "read")
  /\ UNCHANGED <<storeVars, next, copy, target>>

\* backupPage: the newest version in the log that is not after the fixed
\* one, else the data file; a place nobody wrote counts as an empty page.
Lookup(b, p) == {i \in 1..Len(log) : log[i].page = p /\ log[i].ver <= fixed[b]}
Emptied(rec) == IF rec.value = Blank THEN [rec EXCEPT !.value = Empty] ELSE rec
backupPage(b, p) ==
  LET offs == Lookup(b, p)
  IN IF offs # {} THEN log[Max(offs)].rec ELSE Emptied(data[p])

ReadPage(b) ==
  /\ pc[b] = "read"
  /\ copy' = [copy EXCEPT ![b] = Append(@, backupPage(b, next[b]))]
  /\ next' = [next EXCEPT ![b] = @ + 1]
  /\ Goto(b, IF next[b] = copy'[b][1].last THEN "sync" ELSE "read")
  /\ UNCHANGED <<storeVars, fixed, snap, target>>

\* The context ends, the disk is full, ...: the temporary file is removed.
Fail(b) ==
  /\ pc[b] \in {"gate", "version", "read", "sync", "place"}
  /\ Goto(b, "failed")
  /\ UNCHANGED <<storeVars, copyVars, target>>

Sync(b) == pc[b] = "sync" /\ Goto(b, "place") /\ UNCHANGED <<storeVars, copyVars, target>>

\* placeBackup: a link fails where a file is, so looking and placing are one
\* step; without links it looks, then renames.
PlaceOver(b) == TRUE
Free(b) == target = "none"
Place(b) ==
  /\ pc[b] = "place"
  /\ IF Free(b)
     THEN IF HardLinks THEN target' = b /\ Goto(b, "done")
          ELSE Goto(b, "rename") /\ UNCHANGED target
     ELSE Goto(b, "failed") /\ UNCHANGED target
  /\ UNCHANGED <<storeVars, copyVars>>
Rename(b) ==
  /\ pc[b] = "rename"
  /\ target' = b
  /\ Goto(b, "done")
  /\ UNCHANGED <<storeVars, copyVars>>

Next ==
  \/ Extend \/ Commit \/ Checkpoint
  \/ \E b \in Backups : \/ Stat(b) \/ EnterShared(b) \/ FixVersion(b) \/ ReadPage(b)
                        \/ Fail(b) \/ Sync(b) \/ Place(b) \/ Rename(b)

Spec == Init /\ [][Next]_vars

-----------------------------------------------------------------------------
\* A backup is the database at one moment: every page as it was committed
\* when the version was fixed, pages that transactions in flight had taken
\* among them as empty ones, and none missing.
BackupIsOneVersion ==
  \A b \in Backups : pc[b] \in {"sync", "place", "rename", "done"} =>
    /\ Len(copy[b]) = snap[b][0].last + 1
    /\ \A p \in 0..snap[b][0].last : copy[b][p + 1] = snap[b][p]

\* backup.go (placeBackup): two backups to one path do not overwrite each
\* other, and what is at the path is a complete backup.
PlacedOnce ==
  /\ HardLinks => Cardinality({b \in Backups : pc[b] = "done"}) <= 1
  /\ target # "none" => pc[target] = "done"
=============================================================================
