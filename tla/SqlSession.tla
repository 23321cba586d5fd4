----------------------------- MODULE SqlSession -----------------------------
(***************************************************************************)
(* Transactions as a handle offers them: DB.Transaction with its retries   *)
(* (src/tx.go), the one SQL transaction of the handle behind BEGIN, COMMIT *)
(* and ROLLBACK (src/sql.go), the settings (src/pragma.go), a checkpoint   *)
(* that queues at the gate, and a rebuild that gives up (src/rebuild.go).  *)
(*                                                                         *)
(* A statement writes one mark into the one collection there is.           *)
(***************************************************************************)
EXTENDS Naturals, FiniteSets

CONSTANTS Goroutines,   \* callers
          MaxTx,        \* bound: core transactions
          MaxMarks,     \* bound: statements
          MaxRetries,   \* maxDeadlockRetries
          Callbacks,    \* do they call DB.Transaction
          Checkpoints,  \* does a checkpoint queue now and then
          Timeouts,     \* do waits for locks end with a timeout
          RebuildFails  \* does a rebuild give up waiting for the handle

VARIABLES tx,       \* number -> core transaction
          lock,     \* the transaction that holds the collection, or NoTx
          data,     \* marks committed
          sqlTx,    \* DB.sqlTx
          sqlMu,    \* who holds the mutex over a wait, or None
          pending,  \* a checkpoint is queued: newcomers wait
          call,     \* goroutine -> the SQL call it is in
          callback, \* goroutine -> its DB.Transaction
          said,     \* mark -> what the statement that wrote it answered
          marks     \* statements so far

vars == <<tx, lock, data, sqlTx, sqlMu, pending, call, callback, said, marks>>

None == "none"
NoTx == 0
Txs == 1..MaxTx
Marks == 1..MaxMarks
Unborn == [state |-> "unborn", wrote |-> {}]
NoCall == [at |-> "idle", tx |-> NoTx, mark |-> 0]
NoCallback == [at |-> "none", tx |-> NoTx, attempt |-> 0, wrote |-> {}, ran |-> {}]

Init ==
  /\ tx = [t \in Txs |-> Unborn]
  /\ lock = NoTx
  /\ data = {}
  /\ sqlTx = NoTx
  /\ sqlMu = None
  /\ pending = FALSE
  /\ call = [g \in Goroutines |-> NoCall]
  /\ callback = [g \in Goroutines |-> NoCallback]
  /\ said = [m \in Marks |-> [ok |-> FALSE, tx |-> NoTx]]
  /\ marks = 0

Active(t) == tx[t].state = "active"
New == {t \in Txs : tx[t] = Unborn /\ \A u \in Txs : u < t => tx[u] # Unborn}
\* A goroutine does one thing at a time; its callback may run statements.
Between(g) == call[g].at = "idle" /\ callback[g].at # "begin"
CoreVars == <<tx, lock, data>>
SqlVars == <<sqlTx, sqlMu>>
\* A wait at the gate or for a lock ends with the timeout, too.
WaitsOn(g) == FALSE
GivesUp(g) == Timeouts
Calls(g, c) == call' = [call EXCEPT ![g] = c]
Back(g, b) == callback' = [callback EXCEPT ![g] = b]

-----------------------------------------------------------------------------
(* The core transaction.                                                   *)

Ends(t, state) ==
  /\ tx' = [tx EXCEPT ![t].state = state]
  /\ lock' = IF lock = t THEN NoTx ELSE lock
Commits(t) == Ends(t, "committed") /\ data' = data \union tx[t].wrote
RollsBack(t) == Ends(t, "rolledback") /\ UNCHANGED data

\* A finished transaction takes no more writes (Transaction.checkActive).
ActiveNot(t) == TRUE
CheckActive(t) == Active(t)
Writes(t, m) ==
  /\ CheckActive(t) /\ lock \in {NoTx, t}
  /\ lock' = t
  /\ tx' = [tx EXCEPT ![t].wrote = @ \union {m}]
  /\ UNCHANGED data

-----------------------------------------------------------------------------
(* SQL statements.  The transaction is looked up under the mutex and used  *)
(* after it was given back.                                                *)

Statement(g) ==
  /\ Between(g) /\ marks < MaxMarks
  /\ Calls(g, [at |-> "lookup", tx |-> NoTx, mark |-> marks + 1])
  /\ marks' = marks + 1
  /\ UNCHANGED <<CoreVars, SqlVars, pending, callback, said>>

CurrentTx(g) ==
  /\ call[g].at = "lookup" /\ sqlMu = None
  /\ Calls(g, [call[g] EXCEPT !.at = "exec", !.tx = sqlTx])
  /\ UNCHANGED <<CoreVars, SqlVars, pending, callback, said, marks>>

Answers(g, ok) ==
  /\ Calls(g, NoCall)
  /\ said' = [said EXCEPT ![call[g].mark] = [ok |-> ok, tx |-> call[g].tx]]

\* In the SQL transaction, or in one of its own.
Exec(g) ==
  /\ call[g].at = "exec"
  /\ IF call[g].tx # NoTx THEN Writes(call[g].tx, call[g].mark)
     ELSE /\ lock = NoTx /\ ~pending
          /\ data' = data \union {call[g].mark}
          /\ UNCHANGED <<tx, lock>>
  /\ Answers(g, TRUE)
  /\ UNCHANGED <<SqlVars, pending, callback, marks>>

\* The wait for the collection or the gate times out, or the transaction is
\* over.
ExecFails(g) ==
  /\ call[g].at = "exec"
  /\ \/ call[g].tx # NoTx /\ ~CheckActive(call[g].tx)
     \/ GivesUp(g) /\ lock \notin {NoTx, call[g].tx}
     \/ GivesUp(g) /\ call[g].tx = NoTx /\ pending
  /\ Answers(g, FALSE)
  /\ UNCHANGED <<CoreVars, SqlVars, pending, callback, marks>>

\* sqlBegin holds the mutex while it waits for the gate.
SqlBegin(g) ==
  /\ Between(g) /\ sqlMu = None
  /\ IF sqlTx # NoTx THEN UNCHANGED <<call, sqlMu>>
     ELSE Calls(g, [at |-> "begin", tx |-> NoTx, mark |-> 0]) /\ sqlMu' = g
  /\ UNCHANGED <<CoreVars, sqlTx, pending, callback, said, marks>>
Begun(g) ==
  /\ call[g].at = "begin" /\ ~pending
  /\ \E t \in New :
       /\ tx' = [tx EXCEPT ![t].state = "active"]
       /\ sqlTx' = t
  /\ sqlMu' = None
  /\ Calls(g, NoCall)
  /\ UNCHANGED <<lock, data, pending, callback, said, marks>>
BeginFails(g) ==
  /\ call[g].at = "begin" /\ (GivesUp(g) \/ ~pending)
  /\ sqlMu' = None
  /\ Calls(g, NoCall)
  /\ UNCHANGED <<CoreVars, sqlTx, pending, callback, said, marks>>

\* sqlEnd takes the transaction out first and ends it then.
SqlEnd(g, how) ==
  /\ Between(g) /\ sqlMu = None /\ sqlTx # NoTx
  /\ Calls(g, [at |-> how, tx |-> sqlTx, mark |-> 0])
  /\ sqlTx' = NoTx
  /\ UNCHANGED <<CoreVars, sqlMu, pending, callback, said, marks>>
SqlCommit(g) ==
  /\ call[g].at = "commit"
  /\ Commits(call[g].tx) \/ RollsBack(call[g].tx)
  /\ Calls(g, NoCall)
  /\ UNCHANGED <<SqlVars, pending, callback, said, marks>>
SqlRollback(g) ==
  /\ call[g].at = "rollback"
  /\ RollsBack(call[g].tx)
  /\ Calls(g, NoCall)
  /\ UNCHANGED <<SqlVars, pending, callback, said, marks>>

-----------------------------------------------------------------------------
(* DB.Transaction.  The callback writes in its own transaction, and may    *)
(* run SQL statements, too.                                                *)

Transaction(g) ==
  /\ Callbacks /\ call[g].at = "idle" /\ callback[g].at \in {"none", "ok", "error"}
  /\ Back(g, [NoCallback EXCEPT !.at = "begin"])
  /\ UNCHANGED <<CoreVars, SqlVars, pending, call, said, marks>>
BeginCore(g) ==
  /\ callback[g].at = "begin" /\ ~pending
  /\ \E t \in New :
       /\ tx' = [tx EXCEPT ![t].state = "active"]
       /\ Back(g, [callback[g] EXCEPT !.at = "fn", !.tx = t, !.wrote = {}])
  /\ UNCHANGED <<lock, data, SqlVars, pending, call, said, marks>>
BeginCoreFails(g) ==
  /\ callback[g].at = "begin" /\ (GivesUp(g) \/ ~pending)
  /\ Back(g, [callback[g] EXCEPT !.at = "error"])
  /\ UNCHANGED <<CoreVars, SqlVars, pending, call, said, marks>>
InFn(g) == callback[g].at = "fn" /\ call[g].at = "idle"
FnWrites(g) ==
  /\ InFn(g) /\ marks < MaxMarks
  /\ marks' = marks + 1
  /\ Writes(callback[g].tx, marks')
  /\ Back(g, [callback[g] EXCEPT !.wrote = @ \union {marks'}, !.ran = @ \union {marks'}])
  /\ UNCHANGED <<SqlVars, pending, call, said>>

\* fn returns nil: the commit succeeds or fails.
FnReturns(g) ==
  /\ InFn(g)
  /\ \/ Commits(callback[g].tx) /\ Back(g, [callback[g] EXCEPT !.at = "ok"])
     \/ RollsBack(callback[g].tx) /\ Back(g, [callback[g] EXCEPT !.at = "error"])
  /\ UNCHANGED <<SqlVars, pending, call, said, marks>>

\* fn returns an error: rolled back, and run again if it was a ring.
LeftOpen(t) == UNCHANGED CoreVars
Kept(t) == Commits(t)
Undone(t) == RollsBack(t)
Again(b) == IF b.attempt < MaxRetries THEN [b EXCEPT !.at = "begin", !.attempt = @ + 1] ELSE [b EXCEPT !.at = "error"]
FnFails(g, deadlock) ==
  /\ InFn(g)
  /\ Undone(callback[g].tx)
  /\ Back(g, IF deadlock THEN Again(callback[g]) ELSE [callback[g] EXCEPT !.at = "error"])
  /\ UNCHANGED <<SqlVars, pending, call, said, marks>>

-----------------------------------------------------------------------------
\* A checkpoint waits at the gate until nothing is open or it gives up.
CheckpointQueues ==
  /\ Checkpoints /\ ~pending /\ pending' = TRUE
  /\ UNCHANGED <<CoreVars, SqlVars, call, callback, said, marks>>
CheckpointLeaves ==
  /\ pending /\ (Timeouts \/ \A t \in Txs : ~Active(t))
  /\ pending' = FALSE
  /\ UNCHANGED <<CoreVars, SqlVars, call, callback, said, marks>>

\* DB.Rebuild drops the SQL transaction, then waits for the handle in vain.
RebuildGivesUp(g) ==
  /\ RebuildFails /\ Between(g) /\ sqlMu = None
  /\ sqlTx' = NoTx
  /\ UNCHANGED <<CoreVars, sqlMu, pending, call, callback, said, marks>>

Next ==
  \/ \E g \in Goroutines :
       \/ Statement(g) \/ CurrentTx(g) \/ Exec(g) \/ ExecFails(g)
       \/ SqlBegin(g) \/ Begun(g) \/ BeginFails(g)
       \/ SqlEnd(g, "commit") \/ SqlEnd(g, "rollback") \/ SqlCommit(g) \/ SqlRollback(g)
       \/ Transaction(g) \/ BeginCore(g) \/ BeginCoreFails(g) \/ FnWrites(g) \/ FnReturns(g)
       \/ FnFails(g, TRUE) \/ FnFails(g, FALSE)
       \/ RebuildGivesUp(g)
  \/ CheckpointQueues \/ CheckpointLeaves

\* Whoever is in a call goes on as soon as it may.
CallMoves(g) == \/ CurrentTx(g) \/ Exec(g) \/ ExecFails(g) \/ Begun(g) \/ BeginFails(g)
                \/ SqlCommit(g) \/ SqlRollback(g) \/ BeginCore(g) \/ BeginCoreFails(g)
\* (a mutex is handed to whoever has waited long enough).
Fairness ==
  /\ \A g \in Goroutines : WF_vars(CallMoves(g)) /\ SF_vars(CurrentTx(g))
  /\ WF_vars(CheckpointLeaves)

Spec == Init /\ [][Next]_vars /\ Fairness

-----------------------------------------------------------------------------
\* What a statement answered is true, whoever began, committed or rolled
\* back the SQL transaction between its lookup and its write: a mark it
\* confirmed is in the database or goes the way of the transaction it was
\* written in, one it did not confirm is nowhere.
AnswersAreTrue ==
  \A m \in Marks :
    LET s == said[m]
    IN /\ s.ok => IF s.tx = NoTx THEN m \in data
                  ELSE m \in tx[s.tx].wrote /\ (tx[s.tx].state = "committed" => m \in data)
       /\ m \in data => (\E t \in Txs : tx[t].state = "committed" /\ m \in tx[t].wrote)
                        \/ (s.ok /\ s.tx = NoTx)

\* DB.Transaction leaves what its last run wrote if it succeeds and nothing
\* if it fails; the runs before, which a ring of waiters broke off, leave
\* nothing either way.
OneRunOrNone ==
  \A g \in Goroutines :
    LET b == callback[g]
    IN /\ b.at = "ok" => b.ran \intersect data = b.wrote
       /\ b.at \in {"error", "begin", "fn"} => b.ran \intersect data = {}

\* A collection is only ever locked by a transaction somebody can still
\* end (tx.go: "漏一次回滚不会报错，而是那个事务永远占着集合锁").
SomebodyCanEnd ==
  lock # NoTx => /\ Active(lock)
                 /\ \/ lock = sqlTx
                    \/ \E g \in Goroutines : call[g].tx = lock /\ call[g].at \in {"commit", "rollback"}
                    \/ \E g \in Goroutines : callback[g].at = "fn" /\ callback[g].tx = lock

\* A SQL statement ends, even when BEGIN holds the mutex at a gate that a
\* checkpoint keeps shut until the very caller of the statement ends its
\* own transaction.
StatementsEnd == \A g \in Goroutines : call[g].at \in {"lookup", "exec", "begin"} ~> call[g].at = "idle"
=============================================================================
