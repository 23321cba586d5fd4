---------------------------- MODULE FileStorage ----------------------------
(***************************************************************************)
(* Files in the database (src/storage.go): a description in one            *)
(* collection, the content in chunks in another, written chunk by chunk    *)
(* under a lock of the handle, read without one, and not in one            *)
(* transaction: uploads may be abandoned and the process may die between   *)
(* any two of them.                                                        *)
(*                                                                         *)
(* Bytes are not modelled: a chunk is a piece [gen, from, len] of the      *)
(* content that upload number gen writes.                                  *)
(***************************************************************************)
EXTENDS Integers, Sequences, FiniteSets, FiniteSetsExt

CONSTANTS Ids,          \* ids of files, ids that the collation equates being one
          Writers,      \* goroutines that write, delete or change metadata
          Readers,      \* goroutines that read
          ChunkSize,    \* bytes of a full chunk
          Batch,        \* chunkDeleteBatch
          MaxLen,       \* bound: bytes of a file
          MaxSessions,  \* bound: uploads
          MaxCrashes,   \* bound: crashes
          Overlap       \* may a file be read while it is written anew

VARIABLES info,     \* id -> description, or NoFile
          chunk,    \* id -> number -> chunk, or NoChunk
          lock,     \* id -> who holds the lock of the file, or None
          writer,   \* writer -> the call or stream it is in
          reader,   \* reader -> its FileReader
          started,  \* ghost: id -> the last upload begun, 0 once it is being deleted
          sessions, crashes

dbVars == <<info, chunk>>
vars == <<dbVars, lock, writer, reader, started, sessions, crashes>>

None == "none"
NoChunk == [gen |-> 0, from |-> 0, len |-> 0]
NoFile == [gen |-> 0, len |-> 0, chunks |-> 0, closed |-> FALSE]
Numbers == 0..(MaxLen + Batch)
NoChunks == [n \in Numbers |-> NoChunk]
IdleWriter == [at |-> "idle", id |-> None, goal |-> None, info |-> NoFile, next |-> 0, buf |-> 0, err |-> FALSE]
NoReader == [at |-> "none", id |-> None, info |-> NoFile, idx |-> 0, cur |-> NoChunk, pos |-> 0,
             off |-> 0, starts |-> <<0>>, seek |-> 0, fine |-> TRUE]

Init ==
  /\ info = [f \in Ids |-> NoFile]
  /\ chunk = [f \in Ids |-> NoChunks]
  /\ lock = [f \in Ids |-> None]
  /\ writer = [p \in Writers |-> IdleWriter]
  /\ reader = [r \in Readers |-> NoReader]
  /\ started = [f \in Ids |-> 0]
  /\ sessions = 0 /\ crashes = 0

W(p, rec) == writer' = [writer EXCEPT ![p] = rec]
Fid(p) == writer[p].id
At(p, at) == writer[p].at = at
Unlocked(f) == [lock EXCEPT ![f] = None]
Leave(p) == W(p, IdleWriter) /\ lock' = Unlocked(Fid(p))
Same == UNCHANGED <<reader, crashes>>

-----------------------------------------------------------------------------
(* OpenWrite, Delete, SetMetadata                                          *)

\* fileLockSet.acquire; a context may end first.
Ask(p, f, goal) ==
  /\ At(p, "idle")
  /\ W(p, [IdleWriter EXCEPT !.at = "lock", !.id = f, !.goal = goal])
  /\ UNCHANGED <<dbVars, lock, started, sessions>> /\ Same
FreeAlways(p) == TRUE
Free(p) == lock[Fid(p)] = None
Acquire(p) ==
  /\ At(p, "lock") /\ Free(p)
  /\ lock' = [lock EXCEPT ![Fid(p)] = p]
  /\ W(p, [writer[p] EXCEPT !.at = "find"])
  /\ UNCHANGED <<dbVars, started, sessions>> /\ Same
Cancel(p) ==
  /\ At(p, "lock") /\ W(p, IdleWriter)
  /\ UNCHANGED <<dbVars, lock, started, sessions>> /\ Same

\* The stream OpenWrite gives out counts from nothing.
Opened(w) == [w EXCEPT !.at = "writing", !.info.len = 0, !.info.chunks = 0, !.info.closed = FALSE]

\* OpenWrite knows a file by what its description says of chunks and length.
MustClear(i) == i.chunks > 0 \/ i.len > 0
FindForWrite(p) ==
  /\ At(p, "find") /\ writer[p].goal = "write" /\ sessions < MaxSessions
  /\ LET old == info[Fid(p)]
         w == [writer[p] EXCEPT !.info = [old EXCEPT !.gen = sessions + 1]]
     IN W(p, IF MustClear(old) THEN [w EXCEPT !.at = "clear"] ELSE Opened(w))
  /\ started' = [started EXCEPT ![Fid(p)] = sessions + 1]
  /\ sessions' = sessions + 1
  /\ UNCHANGED <<dbVars, lock>> /\ Same
FindForDelete(p) ==
  /\ At(p, "find") /\ writer[p].goal = "delete"
  /\ IF info[Fid(p)] = NoFile THEN Leave(p)
     ELSE W(p, [writer[p] EXCEPT !.at = "drop", !.info = info[Fid(p)]]) /\ UNCHANGED lock
  /\ UNCHANGED <<dbVars, started, sessions>> /\ Same
FindForMetadata(p) ==
  /\ At(p, "find") /\ writer[p].goal = "metadata"
  /\ IF info[Fid(p)] = NoFile THEN Leave(p)
     ELSE W(p, [writer[p] EXCEPT !.at = "set", !.info = info[Fid(p)]]) /\ UNCHANGED lock
  /\ UNCHANGED <<dbVars, started, sessions>> /\ Same

\* The whole description is written back, if it is still there.
SetMetadata(p) ==
  /\ At(p, "set")
  /\ info' = [info EXCEPT ![Fid(p)] = IF @ = NoFile THEN @ ELSE writer[p].info]
  /\ Leave(p)
  /\ UNCHANGED <<chunk, started, sessions>> /\ Same
DropInfo(p) ==
  /\ At(p, "drop")
  /\ info' = [info EXCEPT ![Fid(p)] = NoFile]
  /\ W(p, [writer[p] EXCEPT !.at = "clear"])
  /\ started' = [started EXCEPT ![Fid(p)] = 0]
  /\ UNCHANGED <<chunk, lock, sessions>> /\ Same

\* deleteChunks, one batch: as many as are known, then on until a batch
\* meets none.
ClearBatch(p) ==
  LET w == writer[p]
      f == w.id
      known == w.next < w.info.chunks
      upTo == IF known THEN Min({w.next + Batch, w.info.chunks}) ELSE w.next + Batch
      hit == {n \in Numbers : n >= w.next /\ n < upTo /\ chunk[f][n] # NoChunk}
  IN /\ At(p, "clear")
     /\ chunk' = [chunk EXCEPT ![f] = [n \in Numbers |-> IF n \in hit THEN NoChunk ELSE @[n]]]
     /\ IF known \/ hit # {} THEN W(p, [w EXCEPT !.next = upTo]) /\ UNCHANGED lock
        ELSE IF w.goal = "delete" THEN Leave(p)
        ELSE W(p, Opened(w)) /\ UNCHANGED lock
     /\ UNCHANGED <<info, started, sessions>> /\ Same

\* Any of these transactions fails.
CallFails(p) ==
  /\ writer[p].at \in {"find", "set", "drop", "clear"}
  /\ Leave(p)
  /\ UNCHANGED <<dbVars, started, sessions>> /\ Same

-----------------------------------------------------------------------------
(* FileWriter                                                              *)

\* flushChunk: the transaction of chunk 0 clears what is left under the id.
ClearedNone(f) == chunk[f]
ClearedBehind(f) == [n \in Numbers |-> IF n <= 1 THEN NoChunk ELSE chunk[f][n]]
Cleared(f) == NoChunks
Piece(w) == [gen |-> w.info.gen, from |-> w.info.len, len |-> w.buf]
Clashes(w) == w.info.chunks > 0 /\ chunk[w.id][w.info.chunks] # NoChunk
Inserted(w) == [(IF w.info.chunks > 0 THEN chunk[w.id] ELSE Cleared(w.id)) EXCEPT ![w.info.chunks] = Piece(w)]
Grown(w) == [w EXCEPT !.info.chunks = @ + 1, !.info.len = @ + w.buf, !.buf = 0]
FlushChunk(p, w, at) ==
  \/ /\ ~Clashes(w)
     /\ chunk' = [chunk EXCEPT ![w.id] = Inserted(w)]
     /\ W(p, [Grown(w) EXCEPT !.at = at])
  \/ W(p, [w EXCEPT !.err = TRUE]) /\ UNCHANGED chunk

\* Write and ReadFrom, one byte.
Write(p) ==
  LET w == [writer[p] EXCEPT !.buf = @ + 1]
  IN /\ At(p, "writing") /\ ~w.err /\ w.info.len + w.buf <= MaxLen
     /\ IF w.buf = ChunkSize THEN FlushChunk(p, w, "writing") ELSE W(p, w) /\ UNCHANGED chunk
     /\ UNCHANGED <<info, lock, started, sessions>> /\ Same

\* Flush and Close, up to the last chunk; a short chunk may be anywhere.
Flush(p, next) ==
  LET w == writer[p]
  IN /\ At(p, "writing") /\ ~w.err
     /\ IF w.buf > 0 THEN FlushChunk(p, w, next)
        ELSE W(p, [w EXCEPT !.at = next]) /\ UNCHANGED chunk
     /\ UNCHANGED <<info, lock, started, sessions>> /\ Same

\* writeInfo.  Without a chunk its transaction clears what is left.
Described(p) ==
  /\ info' = [info EXCEPT ![Fid(p)] = [writer[p].info EXCEPT !.closed = At(p, "closing")]]
  /\ chunk' = IF writer[p].info.chunks > 0 THEN chunk ELSE [chunk EXCEPT ![Fid(p)] = Cleared(Fid(p))]
WriteInfo(p) ==
  /\ At(p, "flushing")
  /\ \/ Described(p) /\ W(p, [writer[p] EXCEPT !.at = "writing"])
     \/ UNCHANGED dbVars /\ W(p, [writer[p] EXCEPT !.at = "writing", !.err = TRUE])
  /\ UNCHANGED <<lock, started, sessions>> /\ Same
Close(p) ==
  /\ At(p, "closing")
  /\ Described(p) \/ UNCHANGED dbVars
  /\ Leave(p)
  /\ UNCHANGED <<started, sessions>> /\ Same

\* Close of a stream that failed, and Upload when its reader fails.
Abandon(p) ==
  /\ At(p, "writing")
  /\ Leave(p)
  /\ UNCHANGED <<dbVars, started, sessions>> /\ Same

-----------------------------------------------------------------------------
(* FileReader: the description as of OpenRead, the chunks as they are now. *)

R(r, rec) == reader' = [reader EXCEPT ![r] = rec]
ReaderOnly == UNCHANGED <<dbVars, lock, writer, started, sessions, crashes>>
Current(r) == reader[r].info.gen = started[reader[r].id]
MayRead(r) == reader[r].at # "none" /\ (Overlap \/ Current(r))

OpenRead(r, f) ==
  /\ reader[r].at = "none" /\ info[f] # NoFile
  /\ R(r, [NoReader EXCEPT !.at = "open", !.id = f, !.info = info[f]])
  /\ ReaderOnly

\* loadChunk: the beginning of the next chunk is measured once.
MeasuredAgain(q, i, c) == Append(q.starts, q.starts[Len(q.starts)] + c.len)
Measured(q, i, c) == IF i + 1 = Len(q.starts) THEN Append(q.starts, q.starts[i + 1] + c.len) ELSE q.starts
Load(q, i) ==
  LET c == chunk[q.id][i]
  IN [q EXCEPT !.cur = c, !.pos = 0, !.idx = i, !.starts = Measured(q, i, c)]
Missing(q, i) == chunk[q.id][i] = NoChunk

\* Read and WriteTo, one byte: it has to be the one at this offset.
Read(r) ==
  LET q == reader[r]
      again == q.cur = NoChunk \/ q.pos >= q.cur.len
      l == IF again THEN Load(q, q.idx) ELSE q
      on == [l EXCEPT !.pos = @ + 1, !.off = @ + 1,
                      !.fine = @ /\ l.cur.gen = l.info.gen /\ l.cur.from + l.pos = l.off]
  IN /\ MayRead(r) /\ q.at = "open" /\ q.off < q.info.len /\ q.pos >= 0
     /\ R(r, IF again /\ Missing(q, q.idx) THEN [q EXCEPT !.fine = FALSE]
             ELSE IF on.pos >= on.cur.len THEN [on EXCEPT !.idx = @ + 1, !.cur = NoChunk, !.pos = 0]
             ELSE on)
     /\ ReaderOnly

\* Seek: at the end nothing is read; else from the nearest known start,
\* chunk by chunk.
NearestStart(q, abs) == Max({i \in 0..(Len(q.starts) - 1) : q.starts[i + 1] <= abs})
Seek(r, abs) ==
  LET q == reader[r]
  IN /\ MayRead(r) /\ q.at = "open"
     /\ R(r, IF abs >= q.info.len
             THEN [q EXCEPT !.off = abs, !.cur = NoChunk, !.pos = 0, !.idx = q.info.chunks]
             ELSE [q EXCEPT !.at = "seek", !.seek = abs, !.idx = NearestStart(q, abs)])
     /\ ReaderOnly
SeekStep(r) ==
  LET q == reader[r]
      l == Load(q, q.idx)
      start == l.starts[q.idx + 1]
  IN /\ MayRead(r) /\ q.at = "seek"
     /\ R(r, IF Missing(q, q.idx) THEN [q EXCEPT !.at = "open", !.fine = FALSE]
             ELSE IF q.seek < start + l.cur.len
             THEN [l EXCEPT !.at = "open", !.pos = q.seek - start, !.off = q.seek]
             ELSE [l EXCEPT !.idx = @ + 1])
     /\ ReaderOnly
CloseRead(r) == reader[r].at # "none" /\ R(r, NoReader) /\ ReaderOnly

\* The process dies: what was committed stays, locks and streams do not.
Crash ==
  /\ crashes < MaxCrashes /\ crashes' = crashes + 1
  /\ \E p \in Writers : writer[p] # IdleWriter
  /\ lock' = [f \in Ids |-> None]
  /\ writer' = [p \in Writers |-> IdleWriter]
  /\ reader' = [r \in Readers |-> NoReader]
  /\ UNCHANGED <<dbVars, started, sessions>>

Next ==
  \/ \E p \in Writers :
       \/ \E f \in Ids, goal \in {"write", "delete", "metadata"} : Ask(p, f, goal)
       \/ Acquire(p) \/ Cancel(p) \/ FindForWrite(p) \/ FindForDelete(p) \/ FindForMetadata(p)
       \/ SetMetadata(p) \/ DropInfo(p) \/ ClearBatch(p) \/ CallFails(p)
       \/ Write(p) \/ Flush(p, "flushing") \/ Flush(p, "closing")
       \/ WriteInfo(p) \/ Close(p) \/ Abandon(p)
  \/ \E r \in Readers :
       \/ \E f \in Ids : OpenRead(r, f)
       \/ \E abs \in 0..MaxLen : Seek(r, abs)
       \/ Read(r) \/ SeekStep(r) \/ CloseRead(r)
  \/ Crash

Spec == Init /\ [][Next]_vars

-----------------------------------------------------------------------------
\* The chunks 0 .. n-1 of a file, one after the other, are the first len
\* bytes of the upload that described it.
Complete(f) ==
  LET i == info[f]
      c == chunk[f]
  IN /\ \A n \in 0..(i.chunks - 1) :
          /\ c[n] # NoChunk /\ c[n].gen = i.gen
          /\ c[n].from + c[n].len = IF n + 1 = i.chunks THEN i.len ELSE c[n + 1].from
     /\ i.chunks > 0 => c[0].from = 0

\* Until the next upload of the id begins, a file that Flush or Close has
\* described can be read in full, whatever was left over from uploads and
\* deletions that broke off, and whoever changed its metadata meanwhile.
DescribedIsReadable ==
  \A f \in Ids : info[f] # NoFile /\ info[f].gen = started[f] => Complete(f)

\* After Close nothing else is left under the id (README "分块与内存").
ClosedIsAll ==
  \A f \in Ids : info[f].closed /\ info[f].gen = started[f] =>
    \A n \in Numbers : chunk[f][n] # NoChunk => n < info[f].chunks

\* A stream that goes on never meets a chunk somebody else left in its way.
NothingInTheWay ==
  \A p \in Writers : At(p, "writing") => ~Clashes(writer[p])

\* A reader gets the bytes of the upload it opened, from wherever it was
\* sent to, until the next upload of the file begins; no chunk is missing.
ReadsOneUpload ==
  \A r \in Readers : reader[r].at # "none" /\ Current(r) => reader[r].fine

\* Upload: when the reader fails, the directory does not show a file whose
\* length is wrong (storage.go, comment of Upload).
DirectoryIsTrue == \A f \in Ids : info[f] # NoFile /\ lock[f] = None => Complete(f)

\* A position inside a chunk is never negative: Read slices with it.
PositionInChunk == \A r \in Readers : reader[r].pos >= 0
=============================================================================
