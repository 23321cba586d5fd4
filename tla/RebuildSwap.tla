---------------------------- MODULE RebuildSwap ----------------------------
(***************************************************************************)
(* How a rebuild puts a new file in the place of the old one               *)
(* (src/rebuild.go), with I/O errors, crashes and power failures between   *)
(* any two steps.  The content of a file is what of the committed          *)
(* transactions it holds; a log belongs to the generation of the data file *)
(* it was written for.                                                     *)
(***************************************************************************)
EXTENDS Integers

CONSTANTS Checkpoints,  \* is the CHECKPOINT pragma above zero
          MaxCommits,   \* bound: transactions
          MaxRebuilds,  \* bound: generations of the file
          MaxFaults,    \* bound: I/O errors
          MaxCrashes    \* bound: crashes

VARIABLES dir,       \* the directory: name -> file number, absent names left out
          later,     \* directories a power failure may leave behind
          content,   \* content[n]: what file n holds
          committed, \* transactions acknowledged
          pc,        \* the step the rebuild, or the program, is at
          done,      \* has the last rebuild replaced the file
          legacy,    \* the file was moved away by an interrupted older version
          gens, faults, crashes

fsVars == <<dir, later, content>>
countVars == <<gens, faults, crashes>>
vars == <<fsVars, committed, pc, done, legacy, countVars>>

Names == {"path", "log", "tmp", "tmplog", "bak", "bakLog"}
Files == 1..(4 * (MaxRebuilds + MaxCrashes + 2))
Without(d, ns) == [n \in DOMAIN d \ ns |-> d[n]]
With(d, n, f) == [m \in DOMAIN d \union {n} |-> IF m = n THEN f ELSE d[m]]
Renamed(d, from, to) == With(Without(d, {from}), to, d[from])
Unused == CHOOSE f \in Files : \A d \in later \union {dir} : \A n \in DOMAIN d : d[n] # f
Blank(g) == [gen |-> g, has |-> 0]

\* Opening a database replays the log that lies next to the file.  A log of
\* another generation ruins it.
Replayed(d, file, log) ==
  IF file \notin DOMAIN d THEN -1
  ELSE LET f == content[d[file]] IN
       IF log \notin DOMAIN d \/ content[d[log]].has = 0 THEN f.has
       ELSE LET l == content[d[log]] IN
            IF l.gen # f.gen THEN -2 ELSE IF l.has > f.has THEN l.has ELSE f.has

Init ==
  /\ content = [f \in Files |-> [gen |-> 1, has |-> IF f = 1 THEN 1 ELSE 0]]
  /\ committed = 1
  /\ \/ dir = [n \in {"path"} |-> 1] /\ legacy = FALSE
     \/ dir = [n \in {"bak"} |-> 1] /\ legacy = TRUE
  /\ later = {dir}
  /\ pc = "down"
  /\ done = FALSE
  /\ gens = 1 /\ faults = 0 /\ crashes = 0

\* Every directory operation comes after the ones before it, as on a file
\* system with a journal; an fsync makes the ones before it durable.
Change(d) == dir' = d /\ later' = later \union {d}
Durable == dir' = dir /\ later' = {dir}
Goto(at) == pc' = at
Fault == faults < MaxFaults /\ faults' = faults + 1
Same(vs) == UNCHANGED <<committed, done, legacy, gens, crashes, vs>>

\* OpenFile makes a missing log.
WithLog(d, log) == IF log \in DOMAIN d THEN d ELSE With(d, log, Unused)
Opens(log) ==
  /\ Change(WithLog(dir, log))
  /\ content' = IF log \in DOMAIN dir THEN content ELSE [content EXCEPT ![Unused] = Blank(gens)]

\* checkRebuildLeftovers: a missing file next to a backup or a temporary
\* file is not created anew.
Leftovers == "path" \notin DOMAIN dir /\ DOMAIN dir \intersect {"bak", "tmp"} # {}
Start ==
  /\ pc = "down" /\ ~Leftovers
  /\ Opens("log")
  /\ Goto("app")
  /\ Same(faults)
MovedBack ==
  /\ pc = "down" /\ Leftovers /\ legacy
  /\ dir' = Renamed(dir, "bak", "path")
  /\ later' = {dir'}
  /\ legacy' = FALSE
  /\ UNCHANGED <<content, committed, pc, done, countVars>>

\* The application commits: the pages are in the log, synced.
Commit ==
  /\ pc = "app" /\ committed < MaxCommits
  /\ committed' = committed + 1
  /\ content' = [content EXCEPT ![dir["log"]] =
                   [gen |-> content[dir["path"]].gen, has |-> committed + 1]]
  /\ Durable
  /\ UNCHANGED <<pc, done, legacy, countVars>>

-----------------------------------------------------------------------------
(* Core.Close: a checkpoint, unless the pragma forbids it; an empty log is *)
(* deleted with it.                                                        *)
Moved == [content EXCEPT ![dir["path"]].has = Replayed(dir, "path", "log"),
                         ![dir["log"]].has = 0]
DropsLogAlways(c) == TRUE
DropsLog(c) == c[dir["log"]].has = 0
Closes(next) ==
  /\ \/ /\ content' = IF Checkpoints THEN Moved ELSE content
        /\ UNCHANGED faults
        /\ Goto(next)
     \/ /\ Checkpoints /\ Fault
        /\ content' = content
        /\ Goto("failed")
  /\ dir' = IF DropsLog(content') THEN Without(dir, {"log"}) ELSE dir
  /\ later' = (IF Checkpoints THEN {dir} ELSE later) \union {dir'}
  /\ UNCHANGED <<committed, done, legacy, gens, crashes>>

\* DB.Rebuild: closeHandle, then rebuildFile.
CloseHandle ==
  pc = "app" /\ gens <= MaxRebuilds /\ Closes("openSrc")
OpenForRebuild ==
  /\ pc = "openSrc"
  /\ Opens("log")
  /\ done' = FALSE
  /\ Goto("clean")
  /\ UNCHANGED <<committed, legacy, countVars>>
RemoveTmp ==
  /\ pc = "clean"
  /\ Change(Without(dir, {"tmp", "tmplog"}))
  /\ Goto("create")
  /\ UNCHANGED <<content, faults>> /\ Same(<<>>)
CreateDst ==
  /\ pc = "create"
  /\ LET f == Unused
         g == CHOOSE x \in Files : x # f /\ \A d \in later : \A n \in DOMAIN d : d[n] # x
     IN /\ Change(With(With(dir, "tmp", f), "tmplog", g))
        /\ content' = [content EXCEPT ![f] = Blank(gens + 1), ![g] = Blank(gens + 1)]
  /\ gens' = gens + 1
  /\ Goto("copy")
  /\ UNCHANGED <<committed, done, legacy, faults, crashes>>

\* copyAll, copyOrphans, the settings, Checkpoint and Close of the new file.
CopyAll ==
  /\ pc = "copy"
  /\ content' = [content EXCEPT ![dir["tmp"]].has = Replayed(dir, "path", "log")]
  /\ dir' = Without(dir, {"tmplog"})
  /\ later' = {dir, dir'}
  /\ Goto("closeSrc")
  /\ UNCHANGED faults /\ Same(<<>>)
CopyFails ==
  /\ pc = "copy" /\ Fault
  /\ Change(Without(dir, {"tmp", "tmplog"}))
  /\ Goto("failed")
  /\ UNCHANGED content /\ Same(<<>>)
CloseSrc == pc = "closeSrc" /\ Closes("syncTmp")

SyncTmp == pc = "syncTmp" /\ Durable /\ Goto("dropOld") /\ UNCHANGED <<content, faults>> /\ Same(<<>>)
OldBackupsFile == {"bak"}
OldBackups == {"bak", "bakLog"}
DropOld ==
  /\ pc = "dropOld"
  /\ Change(Without(dir, OldBackups))
  /\ Goto("backup")
  /\ UNCHANGED <<content, faults>> /\ Same(<<>>)

\* backupFile: a link, or a copy that is synced; a name in use is an error.
BackUp ==
  /\ pc = "backup"
  /\ "bak" \notin DOMAIN dir
  /\ \/ /\ Change(With(dir, "bak", dir["path"]))
        /\ UNCHANGED content
     \/ /\ dir' = With(dir, "bak", Unused)
        /\ later' = {dir'}
        /\ content' = [content EXCEPT ![Unused] = content[dir["path"]]]
  /\ Goto("moveLog")
  /\ UNCHANGED faults /\ Same(<<>>)

\* The log goes before the file does: an old log must not lie next to the
\* new file.
MoveLog ==
  /\ pc = "moveLog"
  /\ IF "log" \in DOMAIN dir THEN Change(Renamed(dir, "log", "bakLog")) ELSE UNCHANGED <<dir, later>>
  /\ Goto("replace")
  /\ UNCHANGED <<content, faults>> /\ Same(<<>>)
Replace ==
  /\ pc = "replace"
  /\ Change(Renamed(dir, "tmp", "path"))
  /\ done' = TRUE
  /\ Goto("syncDir")
  /\ UNCHANGED <<content, committed, legacy, countVars>>
ReplaceFails ==
  /\ pc = "replace" /\ Fault
  /\ LET d == IF "bakLog" \in DOMAIN dir THEN Renamed(dir, "bakLog", "log") ELSE dir
     IN dir' = Without(d, {"tmp"}) /\ later' = later \union {d, dir'}
  /\ Goto("failed")
  /\ UNCHANGED content /\ Same(<<>>)

\* Every step before the log is moved that fails leaves the original alone.
StepFails ==
  /\ pc \in {"syncTmp", "backup", "moveLog"} /\ Fault
  /\ Change(Without(dir, {"tmp"}))
  /\ Goto("failed")
  /\ UNCHANGED content /\ Same(<<>>)

\* syncDir does what it can.
SyncDir ==
  /\ pc = "syncDir"
  /\ Durable \/ UNCHANGED <<dir, later>>
  /\ Goto("reopen")
  /\ UNCHANGED <<content, faults>> /\ Same(<<>>)
Reopen ==
  /\ pc \in {"reopen", "failed"}
  /\ Opens("log")
  /\ Goto("app")
  /\ Same(faults)

\* The process dies, or the power fails and a prefix of what was done to the
\* directory since the last sync is there.
Crash ==
  /\ pc # "down" /\ crashes < MaxCrashes
  /\ crashes' = crashes + 1
  /\ \/ UNCHANGED <<dir, later>>
     \/ dir' \in later /\ later' = {dir'}
  /\ Goto("down")
  /\ UNCHANGED <<content, committed, done, legacy, gens, faults>>

Next ==
  \/ Start \/ MovedBack \/ Commit \/ CloseHandle \/ OpenForRebuild \/ RemoveTmp \/ CreateDst
  \/ CopyAll \/ CopyFails \/ CloseSrc \/ SyncTmp \/ DropOld \/ BackUp \/ MoveLog \/ Replace
  \/ ReplaceFails \/ StepFails \/ SyncDir \/ Reopen \/ Crash

Spec == Init /\ [][Next]_vars

-----------------------------------------------------------------------------
\* rebuild.go:56: wherever a crash or a power failure strikes, there is a
\* complete database at the original path, and it never gets an old log to
\* replay onto a new file.
OriginalIsComplete ==
  \A d \in later \union {dir} :
    \/ Replayed(d, "path", "log") = committed
    \/ legacy /\ "path" \notin DOMAIN d

\* The backup a finished rebuild reports is complete, too, with the log that
\* was put beside it if there is one.
BackupIsWhole ==
  pc = "reopen" /\ done => Replayed(dir, "bak", "bakLog") = committed
=============================================================================
