---------------------------- MODULE TtlSweeper ----------------------------
(***************************************************************************)
(* The background deletion of expired documents (ttl.go): registration,    *)
(* one goroutine for every registered collection, sweeps in batches of one *)
(* transaction each, and DB.Close, which stops them and waits.  Writers    *)
(* renew documents while the sweeps run.                                   *)
(***************************************************************************)
EXTENDS Naturals, FiniteSets, FiniteSetsExt

CONSTANTS
  Callers,   \* goroutines calling EnsureTTL
  Colls,     \* collections
  Exprs,     \* expiry expressions
  Docs,      \* documents, all in every collection's index by their date
  Batch,     \* documents one sweep transaction deletes at most
  MaxTime    \* bound on the clock

Never == MaxTime + 1      \* the expression gives no date: the document never expires
Gone == MaxTime + 2
None == "none"

VARIABLES
  exprs,     \* collection -> registered expression, or None
  closed,    \* ttlSet.closed
  close,     \* DB.Close: "no", "waiting" for the goroutines, "done"
  call,      \* caller -> its EnsureTTL call
  sweeper,   \* set of running sweepers
  now,       \* the clock
  expires,   \* <<collection, document>> -> time, Never or Gone
  lock       \* collection -> the holder of its write lock, or None

vars == <<exprs, closed, close, call, sweeper, now, expires, lock>>

Init ==
  /\ exprs = [c \in Colls |-> None]
  /\ closed = FALSE /\ close = "no"
  /\ call = [u \in Callers |-> [at |-> "idle"]]
  /\ sweeper = {} /\ now = 1
  /\ expires = [cd \in Colls \X Docs |-> 1]
  /\ lock = [c \in Colls |-> None]

-----------------------------------------------------------------------------
(* EnsureTTL: checked, then the index is built without the lock of the set, *)
(* then checked again under it.                                             *)
checkLocked(c, e) ==
  IF closed THEN "error"
  ELSE IF exprs[c] = None THEN "new"
  ELSE IF exprs[c] = e THEN "done" ELSE "error"

EnsureTTL(u, c, e) ==
  /\ call[u].at = "idle"
  /\ call' = [call EXCEPT ![u] = IF checkLocked(c, e) = "new"
                                 THEN [at |-> "index", coll |-> c, expr |-> e]
                                 ELSE [at |-> "returned"]]
  /\ UNCHANGED <<exprs, closed, close, sweeper, now, expires, lock>>

(* EnsureIndexOn: takes the write lock of the collection; fails when closed *)
EnsureIndexOn(u) ==
  /\ call[u].at = "index"
  /\ IF close = "done" THEN call' = [call EXCEPT ![u] = [at |-> "returned"]]
     ELSE lock[call[u].coll] = None /\ call' = [call EXCEPT ![u].at = "register"]
  /\ UNCHANGED <<exprs, closed, close, sweeper, now, expires, lock>>

RecheckedNot(c, e) == "new"
RecheckedOpen(c, e) == IF exprs[c] = None THEN "new" ELSE "done"
Rechecked(c, e) == checkLocked(c, e)

Sweeper(c) == [coll |-> c, at |-> "first", until |-> 0, ids |-> {}, id |-> 0]

(* a second goroutine for one collection differs by its number              *)
Started(c) == [Sweeper(c) EXCEPT !.id = Cardinality({s \in sweeper : s.coll = c})]

Register(u) ==
  LET c == call[u].coll
      e == call[u].expr
  IN /\ call[u].at = "register"
     /\ call' = [call EXCEPT ![u] = [at |-> "returned"]]
     /\ IF Rechecked(c, e) = "new"
        THEN exprs' = [exprs EXCEPT ![c] = e] /\ sweeper' = sweeper \cup {Started(c)}
        ELSE UNCHANGED <<exprs, sweeper>>
     /\ UNCHANGED <<closed, close, now, expires, lock>>

-----------------------------------------------------------------------------
(* One sweep.  The time is taken once for the whole sweep.                  *)
Becomes(s, t) == sweeper' = (sweeper \ {s}) \cup {t}
Expired(c, until) == {d \in Docs : expires[<<c, d>>] <= until}

(* the first batch looks without a transaction whether there is any work    *)
LookForWork(s) ==
  /\ s.at = "first"
  /\ Becomes(s, IF closed \/ Expired(s.coll, now) = {} THEN [s EXCEPT !.at = "asleep"]
                ELSE [s EXCEPT !.at = "select", !.until = now])
  /\ UNCHANGED <<exprs, closed, close, call, now, expires, lock>>

(* the documents of the batch are read for update: under the write lock;    *)
(* a context that ended gives up                                            *)
ForReading(s) == UNCHANGED lock
ForUpdate(s) == lock[s.coll] = None /\ lock' = [lock EXCEPT ![s.coll] = s.coll]

SelectBatch(s) ==
  /\ s.at = "select" /\ ~closed
  /\ ForUpdate(s)
  /\ \E ids \in SUBSET Expired(s.coll, s.until) :
       /\ Cardinality(ids) = Min({Batch, Cardinality(Expired(s.coll, s.until))})
       /\ Becomes(s, [s EXCEPT !.at = "delete", !.ids = ids])
  /\ UNCHANGED <<exprs, closed, close, call, now, expires>>

GiveUp(s) ==
  /\ s.at \in {"select", "delete", "yield"} /\ closed
  /\ lock' = [lock EXCEPT ![s.coll] = IF s.at = "delete" /\ @ = s.coll THEN None ELSE @]
  /\ Becomes(s, [s EXCEPT !.at = "asleep", !.until = 0, !.ids = {}])
  /\ UNCHANGED <<exprs, closed, close, call, now, expires>>

(* the batch is deleted and committed; a full batch is followed by another  *)
ttlDeleteBatch(s) ==
  /\ s.at = "delete"
  /\ expires' = [cd \in DOMAIN expires |->
                   IF cd[1] = s.coll /\ cd[2] \in s.ids THEN Gone ELSE expires[cd]]
  /\ lock' = [lock EXCEPT ![s.coll] = IF @ = s.coll THEN None ELSE @]
  /\ Becomes(s, IF Cardinality(s.ids) < Batch THEN [s EXCEPT !.at = "asleep", !.until = 0, !.ids = {}]
                ELSE [s EXCEPT !.at = "yield", !.ids = {}])
  /\ UNCHANGED <<exprs, closed, close, call, now>>

NextBatch(s) ==
  /\ s.at = "yield" /\ ~closed
  /\ Becomes(s, [s EXCEPT !.at = "select"])
  /\ UNCHANGED <<exprs, closed, close, call, now, expires, lock>>

(* the loop of run: the context ended, or the ticker fires                  *)
EndsNever(s) == FALSE
EndsAfterSweep(s) == TRUE
Ends(s) == closed

Wake(s) ==
  /\ s.at = "asleep"
  /\ IF Ends(s) THEN sweeper' = sweeper \ {s} ELSE Becomes(s, [s EXCEPT !.at = "first"])
  /\ UNCHANGED <<exprs, closed, close, call, now, expires, lock>>

Sweep(s) ==
  LookForWork(s) \/ SelectBatch(s) \/ GiveUp(s) \/ ttlDeleteBatch(s) \/ NextBatch(s) \/ Wake(s)

-----------------------------------------------------------------------------
(* A writer renews a document, or makes its date one that never comes.      *)
Renew(c, d, t) ==
  /\ close # "done" /\ lock[c] = None /\ expires[<<c, d>>] \notin {Gone, Never} /\ t > now
  /\ expires' = [expires EXCEPT ![<<c, d>>] = t]
  /\ UNCHANGED <<exprs, closed, close, call, sweeper, now, lock>>

Tick ==
  /\ now < MaxTime /\ now' = now + 1
  /\ UNCHANGED <<exprs, closed, close, call, sweeper, expires, lock>>

(* ttlSet.stop, first half and after the wait                               *)
Close ==
  /\ close = "no" /\ close' = "waiting" /\ closed' = TRUE
  /\ UNCHANGED <<exprs, call, sweeper, now, expires, lock>>

CloseReturns ==
  /\ close = "waiting" /\ sweeper = {} /\ close' = "done"
  /\ UNCHANGED <<exprs, closed, call, sweeper, now, expires, lock>>

Next ==
  \/ \E u \in Callers : (\E c \in Colls, e \in Exprs : EnsureTTL(u, c, e)) \/ EnsureIndexOn(u) \/ Register(u)
  \/ \E s \in sweeper : Sweep(s)
  \/ \E c \in Colls, d \in Docs, t \in 1 .. Never : Renew(c, d, t)
  \/ Tick \/ Close \/ CloseReturns

Spec == Init /\ [][Next]_vars

-----------------------------------------------------------------------------
TypeOK ==
  /\ exprs \in [Colls -> Exprs \cup {None}] /\ close \in {"no", "waiting", "done"}
  /\ expires \in [Colls \X Docs -> 1 .. Gone] /\ lock \in [Colls -> Colls \cup {None}]
  /\ \A s \in sweeper : s.ids \subseteq Docs

(* A document is only deleted when its date has passed at the moment it is  *)
(* deleted, however late the writer renewed it.                             *)
OnlyTheExpiredGo ==
  \A s \in sweeper : s.at = "delete" => \A d \in s.ids : expires[<<s.coll, d>>] \in 1 .. now

(* Two calls that register the same collection at once start one goroutine. *)
OneSweeperEach == \A s, t \in sweeper : s.coll = t.coll => s = t

(* Once Close has returned no sweep runs and none can start: a registration *)
(* that was building its index meanwhile is refused.                        *)
NoneAfterClose == close = "done" => sweeper = {}

(* Close returns, whatever the sweeps were doing.                           *)
CloseEnds == (close = "waiting") ~> (close = "done")

(* A document whose date has passed goes, unless it is renewed or the       *)
(* database is closed.                                                      *)
ExpiredGoes ==
  \A c \in Colls, d \in Docs :
    (exprs[c] # None /\ expires[<<c, d>>] <= now) ~> (closed \/ expires[<<c, d>>] > now)

(* Goroutines make progress; a ticker fires.  Callers and writers need not. *)
Fairness ==
  /\ \A c \in Colls : WF_vars(\E s \in sweeper : s.coll = c /\ Sweep(s))
  /\ WF_vars(CloseReturns)
=============================================================================
