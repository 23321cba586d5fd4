-------------------------- MODULE SqlSessionProofs --------------------------
(***************************************************************************)
(* Proof of what a handle promises about its statements and transactions,  *)
(* for any number of goroutines, transactions, statements and retries, and *)
(* whether or not checkpoints queue, waits time out or a rebuild gives up: *)
(* the answers are true, DB.Transaction leaves one run or none, and, where *)
(* no rebuild gives up, a lock always belongs to a transaction somebody    *)
(* can end.                                                                *)
(***************************************************************************)
EXTENDS SqlSession, TLAPS

\* The bounds are numbers, and no goroutine is the one nobody is.
Bounds == MaxTx \in Nat /\ MaxMarks \in Nat /\ None \notin Goroutines

TxStates == {"unborn", "active", "committed", "rolledback"}
TxRecs == [state : TxStates, wrote : SUBSET Marks]
CallRecs == [at : {"idle", "lookup", "exec", "begin", "commit", "rollback"},
             tx : Txs \union {NoTx}, mark : Nat]
CallbackRecs == [at : {"none", "begin", "fn", "ok", "error"}, tx : Txs \union {NoTx},
                 attempt : Nat, wrote : SUBSET Marks, ran : SUBSET Marks]

Typed ==
  /\ tx \in [Txs -> TxRecs]
  /\ lock \in Txs \union {NoTx}
  /\ data \in SUBSET Marks
  /\ sqlTx \in Txs \union {NoTx}
  /\ sqlMu \in Goroutines \union {None}
  /\ call \in [Goroutines -> CallRecs]
  /\ callback \in [Goroutines -> CallbackRecs]
  /\ said \in [Marks -> [ok : BOOLEAN, tx : Txs \union {NoTx}]]
  /\ marks \in Nat

\* Three places from which a transaction can be ended.
Ending(g, t) == call[g].at \in {"commit", "rollback"} /\ call[g].tx = t
Running(g, t) == callback[g].at = "fn" /\ callback[g].tx = t

\* What can be ended is open.
EndsTheOpen ==
  /\ sqlTx # NoTx => Active(sqlTx)
  /\ \A g \in Goroutines : \A t \in Txs : Ending(g, t) \/ Running(g, t) => Active(t)
  /\ \A g \in Goroutines : call[g].at \in {"commit", "rollback"} => call[g].tx # NoTx
  /\ \A g \in Goroutines : callback[g].at = "fn" => callback[g].tx # NoTx

\* Nobody ends what another one ends.
EndsAlone ==
  /\ \A g \in Goroutines : \A t \in Txs : Ending(g, t) \/ Running(g, t) => t # sqlTx
  /\ \A g, h \in Goroutines : \A t \in Txs :
       /\ Ending(g, t) /\ Ending(h, t) => g = h
       /\ Running(g, t) /\ Running(h, t) => g = h
       /\ ~(Ending(g, t) /\ Running(h, t))

\* A transaction that was never begun wrote nothing, and is nobody's.
UnbornEmpty == \A t \in Txs : tx[t].state = "unborn" => tx[t] = Unborn

\* A mark is written once, or not at all.
Untouched(m) == m \notin data /\ ~said[m].ok /\ \A t \in Txs : m \notin tx[t].wrote
InStatement(g) == call[g].at \in {"lookup", "exec"}
MarksOnce ==
  /\ \A m \in Marks : m > marks => Untouched(m)
  /\ \A g \in Goroutines : InStatement(g) =>
       call[g].mark \in Marks /\ call[g].mark <= marks /\ Untouched(call[g].mark)
  /\ \A g, h \in Goroutines :
       InStatement(g) /\ InStatement(h) /\ call[g].mark = call[h].mark => g = h
  /\ \A t, u \in Txs : \A m \in Marks : m \in tx[t].wrote /\ m \in tx[u].wrote => t = u
  /\ \A t \in Txs : \A m \in Marks : m \in tx[t].wrote => ~(said[m].ok /\ said[m].tx = NoTx)

\* What is committed is in the database, and nothing else.
CommittedIsThere ==
  /\ \A t \in Txs : tx[t].state = "committed" => tx[t].wrote \subseteq data
  /\ \A m \in data : \/ \E t \in Txs : tx[t].state = "committed" /\ m \in tx[t].wrote
                     \/ said[m].ok /\ said[m].tx = NoTx

\* What was confirmed was written.
ConfirmedIsThere ==
  \A m \in Marks : said[m].ok =>
    /\ said[m].tx = NoTx => m \in data
    /\ said[m].tx # NoTx => m \in tx[said[m].tx].wrote

\* The runs of a callback: the last is in its transaction, those before were
\* rolled back.
Lost(m) == \E t \in Txs : tx[t].state = "rolledback" /\ m \in tx[t].wrote
RunTrue(b) ==
  /\ b.wrote \subseteq b.ran
  /\ b.at = "fn" => b.tx \in Txs /\ b.wrote \subseteq tx[b.tx].wrote
  /\ b.at \in {"fn", "ok"} => \A m \in b.ran : m \in b.wrote \/ Lost(m)
  /\ b.at = "ok" => b.wrote \subseteq data
  /\ b.at \in {"begin", "error"} => \A m \in b.ran : Lost(m)
RunsTrue == \A g \in Goroutines : RunTrue(callback[g])

LockIsOpen == lock # NoTx => Active(lock)

IInv == /\ Typed /\ EndsTheOpen /\ EndsAlone /\ UnbornEmpty /\ MarksOnce
        /\ CommittedIsThere /\ ConfirmedIsThere /\ RunsTrue /\ LockIsOpen

\* Where no rebuild gives up, somebody can end whatever is open: whoever
\* begins the SQL transaction has the mutex, and finds none.
BeginsAlone == \A g \in Goroutines : call[g].at = "begin" => sqlMu = g /\ sqlTx = NoTx
OpenIsOwned ==
  \A t \in Txs : Active(t) => t = sqlTx \/ \E g \in Goroutines : Ending(g, t) \/ Running(g, t)
Owned == BeginsAlone /\ OpenIsOwned
-----------------------------------------------------------------------------
LEMMA NoTxApart == ASSUME Bounds PROVE NoTx \notin Txs
  BY DEF Bounds, NoTx, Txs

LEMMA BlankCalls ==
  /\ NoCall \in CallRecs /\ NoCall.at = "idle" /\ NoCall.tx = NoTx
  /\ NoCallback \in CallbackRecs /\ NoCallback.at = "none" /\ NoCallback.tx = NoTx
  /\ NoCallback.wrote = {} /\ NoCallback.ran = {}
  BY DEF NoCall, NoCallback, CallRecs, CallbackRecs

LEMMA Initially == ASSUME Bounds, Init PROVE IInv
  <1>1. Typed
    BY DEF Bounds, Init, Typed, TxRecs, TxStates, CallRecs, CallbackRecs, Unborn, NoCall,
           NoCallback, None, NoTx, Marks
  <1>2. \A t \in Txs : tx[t] = Unborn /\ tx[t].state = "unborn" /\ tx[t].wrote = {}
    BY DEF Init, Unborn
  <1>3. \A g \in Goroutines : /\ call[g].at = "idle" /\ callback[g].at = "none"
                              /\ callback[g].wrote = {} /\ callback[g].ran = {}
    BY DEF Init, NoCall, NoCallback
  <1>4. data = {} /\ sqlTx = NoTx /\ lock = NoTx /\ \A m \in Marks : ~said[m].ok
    BY DEF Init
  <1>5. EndsTheOpen /\ EndsAlone
    BY <1>3, <1>4 DEF EndsTheOpen, EndsAlone, Ending, Running
  <1>6. UnbornEmpty /\ MarksOnce
    BY <1>2, <1>3, <1>4 DEF UnbornEmpty, MarksOnce, Untouched, InStatement
  <1>7. CommittedIsThere /\ ConfirmedIsThere /\ LockIsOpen
    BY <1>2, <1>4 DEF CommittedIsThere, ConfirmedIsThere, LockIsOpen
  <1>8. RunsTrue
    BY <1>3 DEF RunsTrue, RunTrue
  <1> QED BY <1>1, <1>5, <1>6, <1>7, <1>8 DEF IInv

-----------------------------------------------------------------------------
(* What the core transactions do.                                          *)

\* A write in a transaction goes into its marks, and nowhere else.
LEMMA Written ==
  ASSUME Bounds, Typed, NEW t \in Txs, NEW m \in Marks, Writes(t, m)
  PROVE  /\ tx' \in [Txs -> TxRecs] /\ lock' \in Txs /\ data' = data
         /\ lock' = t
         /\ tx[t].state = "active"
         /\ tx'[t].wrote = tx[t].wrote \union {m}
         /\ \A u \in Txs : tx'[u].state = tx[u].state
         /\ \A u \in Txs : u # t => tx'[u] = tx[u]
  BY DEF Typed, Writes, CheckActive, Active, TxRecs, TxStates

\* A transaction that ends keeps its marks and lets go of the collection.
LEMMA Ended ==
  ASSUME Bounds, Typed, NEW t \in Txs, NEW state \in TxStates, Ends(t, state)
  PROVE  /\ tx' \in [Txs -> TxRecs] /\ lock' \in Txs \union {NoTx}
         /\ tx'[t].state = state
         /\ \A u \in Txs : tx'[u].wrote = tx[u].wrote
         /\ \A u \in Txs : u # t => tx'[u] = tx[u]
         /\ lock' # t
         /\ lock' # NoTx => lock' = lock
  BY NoTxApart DEF Typed, Ends, TxRecs, TxStates

\* A transaction that begins was never heard of.
LEMMA Born ==
  ASSUME Bounds, Typed, NEW t \in New, tx' = [tx EXCEPT ![t].state = "active"]
  PROVE  /\ t \in Txs /\ tx[t] = Unborn /\ tx[t].state = "unborn"
         /\ tx' \in [Txs -> TxRecs]
         /\ tx'[t].state = "active"
         /\ \A u \in Txs : tx'[u].wrote = tx[u].wrote
         /\ \A u \in Txs : u # t => tx'[u] = tx[u]
  BY DEF Typed, New, TxRecs, TxStates, Unborn

-----------------------------------------------------------------------------
(* What a step leaves alone, it does not disturb.                          *)

LEMMA CoreKept ==
  ASSUME IInv, UNCHANGED <<tx, lock, data, said>>
  PROVE  UnbornEmpty' /\ CommittedIsThere' /\ ConfirmedIsThere' /\ LockIsOpen'
  BY DEF IInv, UnbornEmpty, CommittedIsThere, ConfirmedIsThere, LockIsOpen, Active

LEMMA RunsKept == ASSUME IInv, UNCHANGED <<tx, data, callback>> PROVE RunsTrue'
  BY DEF IInv, RunsTrue, RunTrue, Lost

\* Writes, commits and the ends of other transactions leave a run what it was.
LEMMA RunKept ==
  ASSUME IInv, NEW b \in CallbackRecs, RunTrue(b), data \subseteq data',
         \A t \in Txs : /\ tx[t].wrote \subseteq tx'[t].wrote
                        /\ tx[t].state = "rolledback" => tx'[t].state = "rolledback"
  PROVE  RunTrue(b)'
  BY DEF RunTrue, Lost, CallbackRecs

LEMMA MarksKept ==
  ASSUME IInv, UNCHANGED <<said, marks>>,
         \A t \in Txs : tx'[t].wrote = tx[t].wrote,
         \A m \in Marks : Untouched(m) => m \notin data',
         \A g \in Goroutines : InStatement(g)' => InStatement(g) /\ call'[g].mark = call[g].mark
  PROVE  MarksOnce'
  <1> DEFINE S(g) == InStatement(g)'
  <1>1. \A g \in Goroutines : S(g) => InStatement(g) /\ call'[g].mark = call[g].mark
    OBVIOUS
  <1>2. \A m \in Marks : Untouched(m) => Untouched(m)'
    BY DEF Untouched
  <1>3. \A g \in Goroutines : S(g) =>
          call'[g].mark \in Marks /\ call'[g].mark <= marks /\ Untouched(call[g].mark)
    BY <1>1 DEF IInv, MarksOnce
  <1>4. \A g \in Goroutines : S(g) => Untouched(call[g].mark)'
    <2>1. SUFFICES ASSUME NEW g \in Goroutines, S(g) PROVE Untouched(call[g].mark)'
      OBVIOUS
    <2>2. call[g].mark = call'[g].mark /\ call[g].mark \in Marks /\ Untouched(call[g].mark)
      BY <1>1, <1>3, <2>1
    <2>3. PICK m \in Marks : m = call[g].mark
      BY <2>2
    <2>4. m = call'[g].mark /\ Untouched(m)'
      BY <1>2, <2>2, <2>3
    <2> QED BY <2>4 DEF Untouched
  <1> QED BY <1>1, <1>2, <1>3, <1>4 DEF IInv, MarksOnce

\* A step that begins nothing and takes no end over.
LEMMA EndsKept ==
  ASSUME IInv, \A t \in Txs : tx'[t].state = tx[t].state, sqlTx' \in {sqlTx, NoTx},
         \A g \in Goroutines :
           /\ call'[g].at \in {"commit", "rollback"} => call'[g] = call[g]
           /\ callback'[g].at = "fn" => callback'[g].at = callback[g].at /\ callback'[g].tx = callback[g].tx
  PROVE  EndsTheOpen' /\ EndsAlone'
  <1>1. \A g \in Goroutines : \A t \in Txs : /\ Ending(g, t)' => Ending(g, t)
                                             /\ Running(g, t)' => Running(g, t)
    BY DEF Ending, Running
  <1>2. EndsTheOpen'
    BY <1>1 DEF IInv, Typed, EndsTheOpen, Active, Ending, Running
  <1>3. EndsAlone'
    BY <1>1 DEF IInv, EndsAlone, EndsTheOpen, Ending, Running, NoTx
  <1> QED BY <1>2, <1>3

-----------------------------------------------------------------------------
(* Statements.                                                             *)

LEMMA StatementStep ==
  ASSUME Bounds, IInv, NEW g \in Goroutines, Statement(g)
  PROVE  IInv'
  <1>1. /\ call[g].at = "idle" /\ marks < MaxMarks /\ marks' = marks + 1
        /\ call' = [call EXCEPT ![g] = [at |-> "lookup", tx |-> NoTx, mark |-> marks + 1]]
        /\ UNCHANGED <<tx, lock, data, sqlTx, sqlMu, pending, callback, said>>
    BY DEF Statement, Between, Calls, CoreVars, SqlVars
  <1>2. marks \in Nat /\ marks + 1 \in Marks /\ marks + 1 > marks
    BY <1>1 DEF IInv, Typed, Bounds, Marks
  <1>3. /\ call' \in [Goroutines -> CallRecs]
        /\ call'[g].at = "lookup" /\ call'[g].mark = marks + 1
        /\ \A h \in Goroutines : h # g => call'[h] = call[h]
    BY <1>1, <1>2 DEF IInv, Typed, CallRecs
  <1>4. Typed'
    BY <1>1, <1>2, <1>3 DEF IInv, Typed
  <1>5. EndsTheOpen' /\ EndsAlone'
    BY <1>1, <1>3, EndsKept
  <1>6. MarksOnce'
    <2>1. \A m \in Marks : Untouched(m)' <=> Untouched(m)
      BY <1>1 DEF Untouched
    <2>2. \A m \in Marks : m > marks' => Untouched(m)'
      BY <1>1, <1>2, <2>1 DEF IInv, MarksOnce, Marks
    <2>3. Untouched(marks + 1) /\ \A h \in Goroutines : InStatement(h) => call[h].mark <= marks
      BY <1>2 DEF IInv, MarksOnce
    <2>4. \A h \in Goroutines : InStatement(h)' =>
            call'[h].mark \in Marks /\ call'[h].mark <= marks' /\ Untouched(call'[h].mark)
      BY <1>1, <1>2, <1>3, <2>3 DEF IInv, MarksOnce, InStatement, Marks
    <2>5. \A h \in Goroutines : InStatement(h)' => Untouched(call[h].mark)'
      BY <1>1, <2>4 DEF Untouched
    <2>6. \A h, i \in Goroutines :
            InStatement(h)' /\ InStatement(i)' /\ call'[h].mark = call'[i].mark => h = i
      BY <1>1, <1>2, <1>3, <2>3 DEF IInv, MarksOnce, InStatement, Marks
    <2> QED BY <1>1, <2>2, <2>4, <2>5, <2>6 DEF IInv, MarksOnce
  <1> QED BY <1>1, <1>4, <1>5, <1>6, CoreKept, RunsKept DEF IInv

LEMMA CurrentTxStep ==
  ASSUME Bounds, IInv, NEW g \in Goroutines, CurrentTx(g)
  PROVE  IInv'
  <1>1. /\ call[g].at = "lookup"
        /\ call' = [call EXCEPT ![g] = [call[g] EXCEPT !.at = "exec", !.tx = sqlTx]]
        /\ UNCHANGED <<tx, lock, data, sqlTx, sqlMu, pending, callback, said, marks>>
    BY DEF CurrentTx, Calls, CoreVars, SqlVars
  <1>2. /\ call' \in [Goroutines -> CallRecs]
        /\ call'[g].at = "exec" /\ call'[g].mark = call[g].mark
        /\ \A h \in Goroutines : h # g => call'[h] = call[h]
    BY <1>1 DEF IInv, Typed, CallRecs
  <1>3. Typed'
    BY <1>1, <1>2 DEF IInv, Typed
  <1>4. EndsTheOpen' /\ EndsAlone'
    BY <1>1, <1>2, EndsKept
  <1>5. MarksOnce'
    BY <1>1, <1>2, MarksKept DEF InStatement, Untouched
  <1> QED BY <1>1, <1>3, <1>4, <1>5, CoreKept, RunsKept DEF IInv

\* What an answer changes: the statement is over.
LEMMA Answered ==
  ASSUME Bounds, IInv, NEW g \in Goroutines, NEW ok \in BOOLEAN,
         call[g].at = "exec", Answers(g, ok)
  PROVE  /\ call' \in [Goroutines -> CallRecs]
         /\ call'[g].at = "idle" /\ \A h \in Goroutines : h # g => call'[h] = call[h]
         /\ said' \in [Marks -> [ok : BOOLEAN, tx : Txs \union {NoTx}]]
         /\ call[g].mark \in Marks /\ Untouched(call[g].mark) /\ call[g].mark <= marks
         /\ said'[call[g].mark].ok = ok /\ said'[call[g].mark].tx = call[g].tx
         /\ \A m \in Marks : m # call[g].mark => said'[m] = said[m]
         /\ \A h \in Goroutines : InStatement(h)' =>
              h # g /\ InStatement(h) /\ call'[h].mark = call[h].mark /\ call'[h].mark # call[g].mark
  <1>1. call[g].mark \in Marks /\ Untouched(call[g].mark) /\ call[g].mark <= marks
    BY DEF IInv, MarksOnce, InStatement
  <1>2. call[g] \in CallRecs
    BY DEF IInv, Typed
  <1>3. /\ call' = [call EXCEPT ![g] = NoCall]
        /\ said' = [said EXCEPT ![call[g].mark] = [ok |-> ok, tx |-> call[g].tx]]
    BY DEF Answers, Calls
  <1>4. /\ call' \in [Goroutines -> CallRecs]
        /\ call'[g].at = "idle" /\ \A h \in Goroutines : h # g => call'[h] = call[h]
    BY <1>3 DEF IInv, Typed, CallRecs, NoCall, NoTx
  <1>5. /\ said' \in [Marks -> [ok : BOOLEAN, tx : Txs \union {NoTx}]]
        /\ said'[call[g].mark].ok = ok /\ said'[call[g].mark].tx = call[g].tx
        /\ \A m \in Marks : m # call[g].mark => said'[m] = said[m]
    BY <1>1, <1>2, <1>3 DEF IInv, Typed, CallRecs
  <1>6. \A h \in Goroutines : InStatement(h)' =>
          h # g /\ InStatement(h) /\ call'[h].mark = call[h].mark /\ call'[h].mark # call[g].mark
    BY <1>4 DEF IInv, MarksOnce, InStatement
  <1> QED BY <1>1, <1>4, <1>5, <1>6

\* The statement writes in the SQL transaction it looked up.
LEMMA ExecInTx ==
  ASSUME Bounds, IInv, NEW g \in Goroutines, Exec(g), call[g].tx # NoTx
  PROVE  IInv'
  <1>1. PICK t \in Txs : t = call[g].tx
    BY DEF IInv, Typed, CallRecs
  <1>2. PICK m \in Marks : m = call[g].mark
    BY DEF Exec, IInv, MarksOnce, InStatement
  <1>3. /\ call[g].at = "exec" /\ Answers(g, TRUE) /\ Writes(t, m)
        /\ UNCHANGED <<sqlTx, sqlMu, pending, callback, marks>>
    BY <1>1, <1>2 DEF Exec, SqlVars
  <1>4. /\ tx' \in [Txs -> TxRecs] /\ data' = data /\ lock' = t /\ tx[t].state = "active"
        /\ tx'[t].wrote = tx[t].wrote \union {m}
        /\ \A u \in Txs : tx'[u].state = tx[u].state
        /\ \A u \in Txs : u # t => tx'[u] = tx[u]
    BY <1>3, Written DEF IInv
  <1>5. /\ call' \in [Goroutines -> CallRecs]
        /\ call'[g].at = "idle" /\ \A h \in Goroutines : h # g => call'[h] = call[h]
        /\ said' \in [Marks -> [ok : BOOLEAN, tx : Txs \union {NoTx}]]
        /\ Untouched(m) /\ m <= marks
        /\ said'[m].ok /\ said'[m].tx = t
        /\ \A n \in Marks : n # m => said'[n] = said[n]
        /\ \A h \in Goroutines : InStatement(h)' =>
             h # g /\ InStatement(h) /\ call'[h].mark = call[h].mark /\ call'[h].mark # m
    BY <1>1, <1>2, <1>3, Answered
  <1>6. t # NoTx
    BY NoTxApart
  <1>7. Typed'
    BY <1>3, <1>4, <1>5 DEF IInv, Typed
  <1>8. EndsTheOpen' /\ EndsAlone'
    BY <1>3, <1>4, <1>5, EndsKept
  <1>9. UnbornEmpty'
    BY <1>4 DEF IInv, UnbornEmpty
  <1>10. MarksOnce'
    <2>1. \A n \in Marks : n # m => (Untouched(n)' <=> Untouched(n))
      BY <1>4, <1>5 DEF Untouched
    <2>2. \A n \in Marks : n > marks' => Untouched(n)'
      <3>1. \A n \in Marks : n > marks => n # m
        BY <1>5 DEF IInv, Typed, Marks, Bounds
      <3> QED BY <1>3, <2>1, <3>1 DEF IInv, MarksOnce
    <2>3. \A h \in Goroutines : InStatement(h)' =>
            call'[h].mark \in Marks /\ call'[h].mark <= marks' /\ Untouched(call[h].mark)'
      BY <1>3, <1>5, <2>1 DEF IInv, MarksOnce
    <2>4. \A h, i \in Goroutines :
            InStatement(h)' /\ InStatement(i)' /\ call'[h].mark = call'[i].mark => h = i
      BY <1>5 DEF IInv, MarksOnce
    <2>5. \A u, v \in Txs : \A n \in Marks : n \in tx'[u].wrote /\ n \in tx'[v].wrote => u = v
      BY <1>4, <1>5 DEF IInv, MarksOnce, Untouched
    <2>6. \A u \in Txs : \A n \in Marks : n \in tx'[u].wrote => ~(said'[n].ok /\ said'[n].tx = NoTx)
      BY <1>4, <1>5, <1>6 DEF IInv, MarksOnce
    <2> QED BY <2>2, <2>3, <2>4, <2>5, <2>6, <1>5 DEF MarksOnce
  <1>11. CommittedIsThere'
    <2>1. \A n \in data : n \in Marks /\ n # m
      BY <1>5 DEF IInv, Typed, Untouched
    <2> QED BY <1>4, <1>5, <2>1 DEF IInv, CommittedIsThere
  <1>12. ConfirmedIsThere'
    BY <1>4, <1>5, <1>6 DEF IInv, Typed, ConfirmedIsThere
  <1>13. RunsTrue'
    <2>1. SUFFICES ASSUME NEW h \in Goroutines PROVE RunTrue(callback[h])'
      BY DEF RunsTrue
    <2>2. PICK b \in CallbackRecs : b = callback[h]
      BY DEF IInv, Typed
    <2>3. \A u \in Txs : /\ tx[u].wrote \subseteq tx'[u].wrote
                         /\ tx[u].state = "rolledback" => tx'[u].state = "rolledback"
      BY <1>4
    <2>4. RunTrue(b)'
      BY <1>4, <2>2, <2>3, RunKept DEF IInv, RunsTrue
    <2> QED BY <1>3, <2>2, <2>4 DEF RunTrue
  <1>14. LockIsOpen'
    BY <1>4 DEF LockIsOpen, Active
  <1> QED BY <1>7, <1>8, <1>9, <1>10, <1>11, <1>12, <1>13, <1>14 DEF IInv

\* The statement has a transaction of its own.
LEMMA ExecAlone ==
  ASSUME Bounds, IInv, NEW g \in Goroutines, Exec(g), call[g].tx = NoTx
  PROVE  IInv'
  <1>1. PICK m \in Marks : m = call[g].mark
    BY DEF Exec, IInv, MarksOnce, InStatement
  <1>2. /\ call[g].at = "exec" /\ Answers(g, TRUE) /\ data' = data \union {m}
        /\ UNCHANGED <<tx, lock, sqlTx, sqlMu, pending, callback, marks>>
    BY <1>1 DEF Exec, SqlVars
  <1>3. /\ call' \in [Goroutines -> CallRecs]
        /\ call'[g].at = "idle" /\ \A h \in Goroutines : h # g => call'[h] = call[h]
        /\ said' \in [Marks -> [ok : BOOLEAN, tx : Txs \union {NoTx}]]
        /\ Untouched(m) /\ m <= marks
        /\ said'[m].ok /\ said'[m].tx = NoTx
        /\ \A n \in Marks : n # m => said'[n] = said[n]
        /\ \A h \in Goroutines : InStatement(h)' =>
             h # g /\ InStatement(h) /\ call'[h].mark = call[h].mark /\ call'[h].mark # m
    BY <1>1, <1>2, Answered
  <1>4. Typed'
    BY <1>2, <1>3 DEF IInv, Typed
  <1>5. EndsTheOpen' /\ EndsAlone'
    BY <1>2, <1>3, EndsKept
  <1>6. UnbornEmpty'
    BY <1>2 DEF IInv, UnbornEmpty
  <1>7. MarksOnce'
    <2>1. \A n \in Marks : n # m => (Untouched(n)' <=> Untouched(n))
      BY <1>2, <1>3 DEF Untouched
    <2>2. \A n \in Marks : n > marks' => Untouched(n)'
      BY <1>2, <1>3, <2>1 DEF IInv, Typed, MarksOnce, Marks, Bounds
    <2>3. \A h \in Goroutines : InStatement(h)' =>
            call'[h].mark \in Marks /\ call'[h].mark <= marks' /\ Untouched(call[h].mark)'
      BY <1>2, <1>3, <2>1 DEF IInv, MarksOnce
    <2>4. \A h, i \in Goroutines :
            InStatement(h)' /\ InStatement(i)' /\ call'[h].mark = call'[i].mark => h = i
      BY <1>3 DEF IInv, MarksOnce
    <2>5. \A u \in Txs : \A n \in Marks : n \in tx'[u].wrote => ~(said'[n].ok /\ said'[n].tx = NoTx)
      BY <1>2, <1>3 DEF IInv, MarksOnce, Untouched
    <2> QED BY <1>2, <2>2, <2>3, <2>4, <2>5 DEF IInv, MarksOnce
  <1>8. CommittedIsThere'
    <2>1. \A n \in data : n \in Marks /\ n # m
      BY <1>3 DEF IInv, Typed, Untouched
    <2> QED BY <1>2, <1>3, <2>1 DEF IInv, CommittedIsThere
  <1>9. ConfirmedIsThere'
    BY <1>2, <1>3 DEF IInv, ConfirmedIsThere
  <1>10. RunsTrue'
    BY <1>2 DEF IInv, RunsTrue, RunTrue, Lost
  <1>11. LockIsOpen'
    BY <1>2 DEF IInv, LockIsOpen, Active
  <1> QED BY <1>4, <1>5, <1>6, <1>7, <1>8, <1>9, <1>10, <1>11 DEF IInv

LEMMA ExecFailsStep ==
  ASSUME Bounds, IInv, NEW g \in Goroutines, ExecFails(g)
  PROVE  IInv'
  <1>1. PICK m \in Marks : m = call[g].mark
    BY DEF ExecFails, IInv, MarksOnce, InStatement
  <1>2. /\ call[g].at = "exec" /\ Answers(g, FALSE)
        /\ UNCHANGED <<tx, lock, data, sqlTx, sqlMu, pending, callback, marks>>
    BY DEF ExecFails, CoreVars, SqlVars
  <1>3. /\ call' \in [Goroutines -> CallRecs]
        /\ call'[g].at = "idle" /\ \A h \in Goroutines : h # g => call'[h] = call[h]
        /\ said' \in [Marks -> [ok : BOOLEAN, tx : Txs \union {NoTx}]]
        /\ Untouched(m) /\ m <= marks /\ ~said'[m].ok
        /\ \A n \in Marks : n # m => said'[n] = said[n]
        /\ \A h \in Goroutines : InStatement(h)' =>
             h # g /\ InStatement(h) /\ call'[h].mark = call[h].mark /\ call'[h].mark # m
    BY <1>1, <1>2, Answered
  <1>4. Typed'
    BY <1>2, <1>3 DEF IInv, Typed
  <1>5. EndsTheOpen' /\ EndsAlone'
    BY <1>2, <1>3, EndsKept
  <1>6. UnbornEmpty' /\ LockIsOpen'
    BY <1>2 DEF IInv, UnbornEmpty, LockIsOpen, Active
  <1>7. MarksOnce'
    <2>1. \A n \in Marks : Untouched(n)' <=> Untouched(n)
      BY <1>2, <1>3 DEF Untouched
    <2>2. \A n \in Marks : n > marks' => Untouched(n)'
      BY <1>2, <2>1 DEF IInv, MarksOnce
    <2>3. \A h \in Goroutines : InStatement(h)' =>
            call'[h].mark \in Marks /\ call'[h].mark <= marks' /\ Untouched(call[h].mark)'
      BY <1>2, <1>3, <2>1 DEF IInv, MarksOnce
    <2>4. \A h, i \in Goroutines :
            InStatement(h)' /\ InStatement(i)' /\ call'[h].mark = call'[i].mark => h = i
      BY <1>3 DEF IInv, MarksOnce
    <2>5. \A u \in Txs : \A n \in Marks : n \in tx'[u].wrote => ~(said'[n].ok /\ said'[n].tx = NoTx)
      BY <1>2, <1>3 DEF IInv, MarksOnce
    <2> QED BY <1>2, <2>2, <2>3, <2>4, <2>5 DEF IInv, MarksOnce
  <1>8. CommittedIsThere'
    <2>1. \A n \in data : n \in Marks /\ n # m
      BY <1>3 DEF IInv, Typed, Untouched
    <2> QED BY <1>2, <1>3, <2>1 DEF IInv, CommittedIsThere
  <1>9. ConfirmedIsThere'
    BY <1>2, <1>3 DEF IInv, ConfirmedIsThere
  <1> QED BY <1>2, <1>4, <1>5, <1>6, <1>7, <1>8, <1>9, RunsKept DEF IInv

-----------------------------------------------------------------------------
(* Beginnings and ends.                                                    *)

\* A transaction that begins has written nothing, so that nothing else moves.
LEMMA BornKeeps ==
  ASSUME Bounds, IInv, NEW t \in New, tx' = [tx EXCEPT ![t].state = "active"],
         UNCHANGED <<lock, data, said, marks>>
  PROVE  UnbornEmpty' /\ CommittedIsThere' /\ ConfirmedIsThere' /\ LockIsOpen'
  <1>1. /\ tx[t].state = "unborn"
        /\ tx'[t].state = "active"
        /\ \A u \in Txs : tx'[u].wrote = tx[u].wrote
        /\ \A u \in Txs : u # t => tx'[u] = tx[u]
    BY Born DEF IInv
  <1>2. UnbornEmpty'
    BY <1>1 DEF IInv, UnbornEmpty
  <1>3. CommittedIsThere'
    BY <1>1 DEF IInv, CommittedIsThere
  <1>4. ConfirmedIsThere'
    BY <1>1 DEF IInv, Typed, ConfirmedIsThere
  <1>5. LockIsOpen'
    BY <1>1 DEF IInv, Typed, LockIsOpen, Active
  <1> QED BY <1>2, <1>3, <1>4, <1>5

\* The runs of the others do not change by it.
LEMMA RunsAfterBirth ==
  ASSUME Bounds, IInv, NEW t \in New, tx' = [tx EXCEPT ![t].state = "active"], UNCHANGED data
  PROVE  \A h \in Goroutines : callback'[h] = callback[h] => RunTrue(callback[h])'
  <1>1. \A u \in Txs : /\ tx[u].wrote \subseteq tx'[u].wrote
                       /\ tx[u].state = "rolledback" => tx'[u].state = "rolledback"
    BY Born DEF IInv
  <1>2. SUFFICES ASSUME NEW h \in Goroutines, callback'[h] = callback[h] PROVE RunTrue(callback[h])'
    OBVIOUS
  <1>3. PICK b \in CallbackRecs : b = callback[h]
    BY DEF IInv, Typed
  <1>4. RunTrue(b)'
    BY <1>1, <1>3, RunKept DEF IInv, RunsTrue
  <1> QED BY <1>2, <1>3, <1>4 DEF RunTrue

\* A transaction that somebody can end does so once, and what it wrote is
\* then in the database or lost.
LEMMA EndKeeps ==
  ASSUME Bounds, IInv, NEW t \in Txs, Active(t), Commits(t) \/ RollsBack(t), UNCHANGED <<said, marks>>
  PROVE  /\ tx' \in [Txs -> TxRecs] /\ lock' \in Txs \union {NoTx} /\ data' \in SUBSET Marks
         /\ data \subseteq data' /\ data' \subseteq data \union tx[t].wrote
         /\ \A u \in Txs : tx'[u].wrote = tx[u].wrote
         /\ \A u \in Txs : u # t => tx'[u] = tx[u]
         /\ Commits(t) => tx'[t].state = "committed" /\ tx[t].wrote \subseteq data'
         /\ RollsBack(t) => tx'[t].state = "rolledback" /\ data' = data
         /\ UnbornEmpty' /\ CommittedIsThere' /\ ConfirmedIsThere' /\ LockIsOpen'
  <1>1. PICK state \in {"committed", "rolledback"} :
          /\ Ends(t, state)
          /\ state = "committed" => data' = data \union tx[t].wrote
          /\ state = "rolledback" => data' = data
          /\ Commits(t) => state = "committed"
          /\ RollsBack(t) => state = "rolledback"
    <2>1. CASE Commits(t) /\ ~RollsBack(t)
      BY <2>1 DEF Commits
    <2>2. CASE ~Commits(t)
      BY <2>2 DEF RollsBack
    <2>3. CASE Commits(t) /\ RollsBack(t)
      <3>1. Ends(t, "committed") /\ Ends(t, "rolledback")
        BY <2>3 DEF Commits, RollsBack
      <3> QED BY <3>1, Ended DEF IInv, TxStates
    <2> QED BY <2>1, <2>2, <2>3
  <1>2. /\ tx' \in [Txs -> TxRecs] /\ lock' \in Txs \union {NoTx}
        /\ tx'[t].state = state
        /\ \A u \in Txs : tx'[u].wrote = tx[u].wrote
        /\ \A u \in Txs : u # t => tx'[u] = tx[u]
        /\ lock' # t
        /\ lock' # NoTx => lock' = lock
    BY <1>1, Ended DEF IInv, TxStates
  <1>3. tx[t].wrote \subseteq Marks /\ data \in SUBSET Marks
    BY DEF IInv, Typed, TxRecs
  <1>4. data' \in SUBSET Marks /\ data \subseteq data' /\ data' \subseteq data \union tx[t].wrote
    BY <1>1, <1>3
  <1>5. /\ Commits(t) => tx'[t].state = "committed" /\ tx[t].wrote \subseteq data'
        /\ RollsBack(t) => tx'[t].state = "rolledback" /\ data' = data
    BY <1>1, <1>2
  <1>6. UnbornEmpty'
    BY <1>2 DEF IInv, UnbornEmpty
  <1>7. CommittedIsThere'
    <2>1. \A u \in Txs : tx'[u].state = "committed" => tx'[u].wrote \subseteq data'
      BY <1>1, <1>2, <1>4 DEF IInv, CommittedIsThere
    <2>2. ASSUME NEW m \in data'
          PROVE  \/ \E u \in Txs : tx'[u].state = "committed" /\ m \in tx'[u].wrote
                 \/ said'[m].ok /\ said'[m].tx = NoTx
      <3>1. CASE m \in data
        <4>1. \A u \in Txs : tx[u].state = "committed" => tx'[u] = tx[u]
          BY <1>2 DEF Active
        <4> QED BY <3>1, <4>1 DEF IInv, CommittedIsThere
      <3>2. CASE m \notin data
        BY <1>1, <1>2, <1>4, <2>2, <3>2
      <3> QED BY <3>1, <3>2
    <2> QED BY <2>1, <2>2 DEF CommittedIsThere
  <1>8. ConfirmedIsThere'
    BY <1>2, <1>4 DEF IInv, Typed, ConfirmedIsThere
  <1>9. LockIsOpen'
    BY <1>2 DEF IInv, LockIsOpen, Active
  <1> QED BY <1>2, <1>4, <1>5, <1>6, <1>7, <1>8, <1>9

\* Others' ends and runs.
LEMMA RunsAfterEnd ==
  ASSUME Bounds, IInv, NEW t \in Txs, Active(t), Commits(t) \/ RollsBack(t), UNCHANGED <<said, marks>>
  PROVE  \A h \in Goroutines : callback'[h] = callback[h] => RunTrue(callback[h])'
  <1>1. /\ data \subseteq data'
        /\ \A u \in Txs : tx'[u].wrote = tx[u].wrote
        /\ \A u \in Txs : u # t => tx'[u] = tx[u]
    BY EndKeeps
  <1>2. \A u \in Txs : /\ tx[u].wrote \subseteq tx'[u].wrote
                       /\ tx[u].state = "rolledback" => tx'[u].state = "rolledback"
    BY <1>1 DEF Active
  <1>3. SUFFICES ASSUME NEW h \in Goroutines, callback'[h] = callback[h] PROVE RunTrue(callback[h])'
    OBVIOUS
  <1>4. PICK b \in CallbackRecs : b = callback[h]
    BY DEF IInv, Typed
  <1>5. RunTrue(b)'
    BY <1>1, <1>2, <1>4, RunKept DEF IInv, RunsTrue
  <1> QED BY <1>3, <1>4, <1>5 DEF RunTrue

-----------------------------------------------------------------------------
(* BEGIN, COMMIT and ROLLBACK.                                             *)

\* A goroutine that goes from one call to another, and no further.
LEMMA OnlyCalls ==
  ASSUME Bounds, IInv, NEW g \in Goroutines, NEW c \in CallRecs,
         c.at \in {"idle", "begin"}, call' = [call EXCEPT ![g] = c],
         sqlMu' \in Goroutines \union {None}, sqlTx' \in {sqlTx, NoTx},
         UNCHANGED <<CoreVars, callback, said, marks>>
  PROVE  IInv'
  <1>1. UNCHANGED <<tx, lock, data, callback, said, marks>>
    BY DEF CoreVars
  <1>2. /\ call' \in [Goroutines -> CallRecs]
        /\ call'[g].at \in {"idle", "begin"}
        /\ \A h \in Goroutines : h # g => call'[h] = call[h]
    BY DEF IInv, Typed
  <1>3. Typed'
    BY <1>1, <1>2 DEF IInv, Typed
  <1>4. EndsTheOpen' /\ EndsAlone'
    BY <1>1, <1>2, EndsKept
  <1>5. MarksOnce'
    BY <1>1, <1>2, MarksKept DEF InStatement, Untouched
  <1> QED BY <1>1, <1>3, <1>4, <1>5, CoreKept, RunsKept DEF IInv

LEMMA SqlBeginStep ==
  ASSUME Bounds, IInv, NEW g \in Goroutines, SqlBegin(g) \/ BeginFails(g)
  PROVE  IInv'
  <1>1. CASE SqlBegin(g) /\ sqlTx # NoTx
    <2>1. UNCHANGED <<tx, lock, data, sqlTx, sqlMu, call, callback, said, marks>>
      BY <1>1 DEF SqlBegin, CoreVars
    <2>2. call[g] \in CallRecs /\ call[g].at = "idle" /\ call' = [call EXCEPT ![g] = call[g]]
      BY <1>1, <2>1 DEF SqlBegin, Between, IInv, Typed
    <2>3. PICK c \in CallRecs : c = call[g]
      BY <2>2
    <2> QED BY <2>1, <2>2, <2>3, OnlyCalls DEF IInv, Typed, CoreVars
  <1>2. CASE SqlBegin(g) /\ sqlTx = NoTx
    <2> DEFINE c == [at |-> "begin", tx |-> NoTx, mark |-> 0]
    <2>1. c \in CallRecs /\ c.at = "begin"
      BY DEF CallRecs
    <2>2. call' = [call EXCEPT ![g] = c] /\ sqlMu' = g /\ UNCHANGED <<CoreVars, sqlTx, callback, said, marks>>
      BY <1>2 DEF SqlBegin, Calls
    <2> HIDE DEF c
    <2> QED BY <2>1, <2>2, OnlyCalls
  <1>3. CASE BeginFails(g)
    BY <1>3, BlankCalls, OnlyCalls DEF BeginFails, Calls
  <1> QED BY <1>1, <1>2, <1>3

LEMMA BegunStep ==
  ASSUME Bounds, IInv, NEW g \in Goroutines, Begun(g)
  PROVE  IInv'
  <1>1. PICK t \in New : tx' = [tx EXCEPT ![t].state = "active"] /\ sqlTx' = t
    BY DEF Begun
  <1>2. /\ call' = [call EXCEPT ![g] = NoCall] /\ sqlMu' = None
        /\ UNCHANGED <<lock, data, callback, said, marks>>
    BY DEF Begun, Calls
  <1>3. /\ t \in Txs /\ tx[t].state = "unborn" /\ tx'[t].state = "active"
        /\ tx' \in [Txs -> TxRecs]
        /\ \A u \in Txs : tx'[u].wrote = tx[u].wrote
        /\ \A u \in Txs : u # t => tx'[u] = tx[u]
    BY <1>1, Born DEF IInv
  <1>4. /\ call' \in [Goroutines -> CallRecs]
        /\ call'[g].at = "idle"
        /\ \A h \in Goroutines : h # g => call'[h] = call[h]
    BY <1>2, BlankCalls DEF IInv, Typed
  <1>5. Typed'
    BY <1>1, <1>2, <1>3, <1>4 DEF IInv, Typed
  <1>6. \A h \in Goroutines : \A u \in Txs :
          /\ Ending(h, u)' => Ending(h, u) /\ u # t
          /\ Running(h, u)' => Running(h, u) /\ u # t
    BY <1>2, <1>3, <1>4 DEF IInv, EndsTheOpen, Ending, Running, Active
  <1>7. EndsTheOpen'
    BY <1>1, <1>2, <1>3, <1>4, <1>6 DEF IInv, EndsTheOpen, Active
  <1>8. EndsAlone'
    BY <1>1, <1>6 DEF IInv, EndsAlone
  <1>9. MarksOnce'
    BY <1>2, <1>3, <1>4, MarksKept DEF InStatement, Untouched
  <1>10. RunsTrue'
    BY <1>1, <1>2, RunsAfterBirth DEF RunsTrue
  <1> QED BY <1>1, <1>2, <1>5, <1>7, <1>8, <1>9, <1>10, BornKeeps DEF IInv

\* sqlEnd takes the transaction over from the handle.
LEMMA SqlEndStep ==
  ASSUME Bounds, IInv, NEW g \in Goroutines, NEW how \in {"commit", "rollback"}, SqlEnd(g, how)
  PROVE  IInv'
  <1>1. /\ call[g].at = "idle" /\ sqlTx # NoTx /\ sqlTx' = NoTx
        /\ call' = [call EXCEPT ![g] = [at |-> how, tx |-> sqlTx, mark |-> 0]]
        /\ UNCHANGED <<tx, lock, data, sqlMu, callback, said, marks>>
    BY DEF SqlEnd, Between, Calls, CoreVars
  <1>2. PICK t \in Txs : t = sqlTx /\ Active(t)
    BY <1>1 DEF IInv, Typed, EndsTheOpen
  <1>3. /\ call' \in [Goroutines -> CallRecs]
        /\ call'[g].at = how /\ call'[g].tx = t
        /\ \A h \in Goroutines : h # g => call'[h] = call[h]
    BY <1>1, <1>2 DEF IInv, Typed, CallRecs
  <1>4. Typed'
    BY <1>1, <1>3 DEF IInv, Typed
  <1>5. /\ \A h \in Goroutines : \A u \in Txs : /\ Ending(h, u)' => Ending(h, u) \/ (h = g /\ u = t)
                                                /\ Running(h, u)' => Running(h, u)
        /\ \A h \in Goroutines : ~Ending(h, t) /\ ~Running(h, t)
    BY <1>1, <1>2, <1>3 DEF IInv, EndsAlone, Ending, Running
  <1>6. t # NoTx
    BY NoTxApart
  <1>7. EndsTheOpen'
    BY <1>1, <1>2, <1>3, <1>5, <1>6 DEF IInv, EndsTheOpen, Active
  <1>8. EndsAlone'
    BY <1>1, <1>5, NoTxApart DEF IInv, EndsAlone
  <1>9. MarksOnce'
    BY <1>1, <1>3, MarksKept DEF InStatement, Untouched
  <1> QED BY <1>1, <1>4, <1>7, <1>8, <1>9, CoreKept, RunsKept DEF IInv

\* The end itself.
LEMMA SqlEndsStep ==
  ASSUME Bounds, IInv, NEW g \in Goroutines, SqlCommit(g) \/ SqlRollback(g)
  PROVE  IInv'
  <1>1. PICK t \in Txs : t = call[g].tx /\ Ending(g, t) /\ Active(t)
    BY DEF SqlCommit, SqlRollback, IInv, Typed, CallRecs, EndsTheOpen, Ending
  <1>2. /\ Commits(t) \/ RollsBack(t)
        /\ call' = [call EXCEPT ![g] = NoCall]
        /\ UNCHANGED <<sqlTx, sqlMu, callback, said, marks>>
    BY <1>1 DEF SqlCommit, SqlRollback, Calls, SqlVars
  <1>3. /\ tx' \in [Txs -> TxRecs] /\ lock' \in Txs \union {NoTx} /\ data' \in SUBSET Marks
        /\ data \subseteq data' /\ data' \subseteq data \union tx[t].wrote
        /\ \A u \in Txs : tx'[u].wrote = tx[u].wrote
        /\ \A u \in Txs : u # t => tx'[u] = tx[u]
        /\ UnbornEmpty' /\ CommittedIsThere' /\ ConfirmedIsThere' /\ LockIsOpen'
    BY <1>1, <1>2, EndKeeps
  <1>4. /\ call' \in [Goroutines -> CallRecs]
        /\ call'[g].at = "idle"
        /\ \A h \in Goroutines : h # g => call'[h] = call[h]
    BY <1>2, BlankCalls DEF IInv, Typed
  <1>5. Typed'
    BY <1>2, <1>3, <1>4 DEF IInv, Typed
  <1>6. \A h \in Goroutines : \A u \in Txs :
          /\ Ending(h, u)' => Ending(h, u) /\ u # t
          /\ Running(h, u)' => Running(h, u) /\ u # t
    BY <1>1, <1>2, <1>4 DEF IInv, EndsAlone, Ending, Running
  <1>7. EndsTheOpen'
    BY <1>1, <1>2, <1>3, <1>4, <1>6 DEF IInv, Typed, EndsTheOpen, EndsAlone, Active
  <1>8. EndsAlone'
    BY <1>2, <1>6 DEF IInv, EndsAlone
  <1>9. MarksOnce'
    BY <1>2, <1>3, <1>4, MarksKept DEF InStatement, Untouched
  <1>10. RunsTrue'
    BY <1>1, <1>2, RunsAfterEnd DEF RunsTrue
  <1> QED BY <1>3, <1>5, <1>7, <1>8, <1>9, <1>10 DEF IInv

-----------------------------------------------------------------------------
(* DB.Transaction.                                                         *)

\* A callback that is not in its transaction goes on outside.
LEMMA OnlyCallbacks ==
  ASSUME Bounds, IInv, NEW g \in Goroutines, NEW b \in CallbackRecs,
         b.at # "fn", RunTrue(b), callback' = [callback EXCEPT ![g] = b],
         UNCHANGED <<tx, lock, data, sqlTx, sqlMu, call, said, marks>>
  PROVE  IInv'
  <1>1. /\ callback' \in [Goroutines -> CallbackRecs]
        /\ callback'[g] = b
        /\ \A h \in Goroutines : h # g => callback'[h] = callback[h]
    BY DEF IInv, Typed
  <1>2. Typed'
    BY <1>1 DEF IInv, Typed
  <1>3. EndsTheOpen' /\ EndsAlone'
    BY <1>1, EndsKept
  <1>4. MarksOnce'
    BY MarksKept DEF InStatement, Untouched
  <1>5. RunsTrue'
    BY <1>1 DEF IInv, RunsTrue, RunTrue, Lost
  <1> QED BY <1>2, <1>3, <1>4, <1>5, CoreKept DEF IInv

LEMMA TransactionStep ==
  ASSUME Bounds, IInv, NEW g \in Goroutines, Transaction(g) \/ BeginCoreFails(g)
  PROVE  IInv'
  <1>1. CASE Transaction(g)
    <2>1. PICK b \in CallbackRecs : b = [NoCallback EXCEPT !.at = "begin"]
      BY BlankCalls DEF CallbackRecs
    <2>2. b.at = "begin" /\ b.wrote = {} /\ b.ran = {}
      BY <2>1, BlankCalls DEF CallbackRecs
    <2>3. RunTrue(b)
      BY <2>2 DEF RunTrue
    <2> QED BY <1>1, <2>1, <2>2, <2>3, OnlyCallbacks DEF Transaction, Back, CoreVars, SqlVars
  <1>2. CASE BeginCoreFails(g)
    <2>1. callback[g] \in CallbackRecs /\ callback[g].at = "begin" /\ RunTrue(callback[g])
      BY <1>2 DEF BeginCoreFails, IInv, Typed, RunsTrue
    <2>2. PICK b \in CallbackRecs : b = [callback[g] EXCEPT !.at = "error"]
      BY <2>1 DEF CallbackRecs
    <2>3. b.at = "error" /\ b.wrote = callback[g].wrote /\ b.ran = callback[g].ran
      BY <2>1, <2>2 DEF CallbackRecs
    <2>4. RunTrue(b)
      BY <2>1, <2>3 DEF RunTrue
    <2> QED BY <1>2, <2>2, <2>3, <2>4, OnlyCallbacks DEF BeginCoreFails, Back, CoreVars, SqlVars
  <1> QED BY <1>1, <1>2

LEMMA BeginCoreStep ==
  ASSUME Bounds, IInv, NEW g \in Goroutines, BeginCore(g)
  PROVE  IInv'
  <1>1. PICK t \in New : /\ tx' = [tx EXCEPT ![t].state = "active"]
                         /\ Back(g, [callback[g] EXCEPT !.at = "fn", !.tx = t, !.wrote = {}])
    BY DEF BeginCore
  <1>2. UNCHANGED <<lock, data, sqlTx, sqlMu, call, said, marks>> /\ callback[g].at = "begin"
    BY DEF BeginCore, SqlVars
  <1>3. /\ t \in Txs /\ tx[t].state = "unborn" /\ tx'[t].state = "active"
        /\ tx' \in [Txs -> TxRecs]
        /\ \A u \in Txs : tx'[u].wrote = tx[u].wrote
        /\ \A u \in Txs : u # t => tx'[u] = tx[u]
    BY <1>1, Born DEF IInv
  <1>4. /\ callback' \in [Goroutines -> CallbackRecs]
        /\ callback'[g].at = "fn" /\ callback'[g].tx = t
        /\ callback'[g].wrote = {} /\ callback'[g].ran = callback[g].ran
        /\ \A h \in Goroutines : h # g => callback'[h] = callback[h]
    <2>1. callback[g] \in CallbackRecs
      BY DEF IInv, Typed
    <2>2. PICK b \in CallbackRecs : b = [callback[g] EXCEPT !.at = "fn", !.tx = t, !.wrote = {}]
      BY <1>3, <2>1 DEF CallbackRecs
    <2>3. b.at = "fn" /\ b.tx = t /\ b.wrote = {} /\ b.ran = callback[g].ran
      BY <2>1, <2>2 DEF CallbackRecs
    <2> QED BY <1>1, <2>2, <2>3 DEF IInv, Typed, Back
  <1>5. Typed'
    BY <1>2, <1>3, <1>4 DEF IInv, Typed
  <1>6. /\ \A h \in Goroutines : \A u \in Txs :
             /\ Ending(h, u)' => Ending(h, u)
             /\ Running(h, u)' => Running(h, u) \/ (h = g /\ u = t)
        /\ \A h \in Goroutines : ~Ending(h, t) /\ ~Running(h, t)
        /\ t # sqlTx /\ t # NoTx
    BY <1>2, <1>3, <1>4, NoTxApart DEF IInv, EndsTheOpen, Ending, Running, Active
  <1>7. EndsTheOpen'
    BY <1>2, <1>3, <1>4, <1>6 DEF IInv, Typed, EndsTheOpen, Active
  <1>8. EndsAlone'
    BY <1>2, <1>6 DEF IInv, EndsAlone
  <1>9. MarksOnce'
    BY <1>2, <1>3, MarksKept DEF InStatement, Untouched
  <1>10. RunsTrue'
    <2>1. RunTrue(callback[g])
      BY DEF IInv, RunsTrue
    <2>2. \A m \in callback[g].ran : Lost(m)'
      BY <1>2, <1>3, <2>1 DEF RunTrue, Lost
    <2>3. RunTrue(callback[g])'
      BY <1>3, <1>4, <2>2 DEF RunTrue, Lost
    <2> QED BY <1>1, <1>2, <1>4, <2>3, RunsAfterBirth DEF RunsTrue
  <1> QED BY <1>1, <1>2, <1>5, <1>7, <1>8, <1>9, <1>10, BornKeeps DEF IInv

\* The callback writes in its own transaction, which is open.
LEMMA FnWritesStep ==
  ASSUME Bounds, IInv, NEW g \in Goroutines, FnWrites(g)
  PROVE  IInv'
  <1>1. /\ callback[g].at = "fn" /\ call[g].at = "idle" /\ marks < MaxMarks /\ marks' = marks + 1
        /\ UNCHANGED <<sqlTx, sqlMu, call, said>>
    BY DEF FnWrites, InFn, SqlVars
  <1>2. PICK m \in Marks : m = marks + 1 /\ m > marks
    BY <1>1 DEF IInv, Typed, Bounds, Marks
  <1>3. PICK t \in Txs : t = callback[g].tx
    BY <1>1 DEF IInv, RunsTrue, RunTrue
  <1>4. /\ Writes(t, m)
        /\ callback' = [callback EXCEPT ![g] =
             [callback[g] EXCEPT !.wrote = @ \union {m}, !.ran = @ \union {m}]]
    BY <1>1, <1>2, <1>3 DEF FnWrites, Back
  <1>5. /\ tx' \in [Txs -> TxRecs] /\ data' = data /\ lock' = t /\ tx[t].state = "active"
        /\ tx'[t].wrote = tx[t].wrote \union {m}
        /\ \A u \in Txs : tx'[u].state = tx[u].state
        /\ \A u \in Txs : u # t => tx'[u] = tx[u]
    BY <1>4, Written DEF IInv
  <1>6. /\ callback' \in [Goroutines -> CallbackRecs]
        /\ callback'[g].at = callback[g].at /\ callback'[g].tx = callback[g].tx
        /\ callback'[g].wrote = callback[g].wrote \union {m}
        /\ callback'[g].ran = callback[g].ran \union {m}
        /\ \A h \in Goroutines : h # g => callback'[h] = callback[h]
    BY <1>4 DEF IInv, Typed, CallbackRecs
  <1>7. marks \in Nat /\ Untouched(m) /\ \A h \in Goroutines : InStatement(h) => call[h].mark # m
    BY <1>2 DEF IInv, Typed, MarksOnce, Marks, Bounds
  <1>8. Typed'
    BY <1>1, <1>5, <1>6, <1>7 DEF IInv, Typed
  <1>9. EndsTheOpen' /\ EndsAlone'
    BY <1>1, <1>5, <1>6, EndsKept
  <1>10. UnbornEmpty'
    BY <1>5 DEF IInv, UnbornEmpty
  <1>11. MarksOnce'
    <2>1. \A n \in Marks : n # m => (Untouched(n)' <=> Untouched(n))
      BY <1>1, <1>5 DEF Untouched
    <2>2. \A n \in Marks : n > marks' => n > marks /\ n # m
      BY <1>1, <1>2, <1>7 DEF Marks, Bounds
    <2>3. \A n \in Marks : n > marks' => Untouched(n)'
      BY <2>1, <2>2 DEF IInv, MarksOnce
    <2>4. \A h \in Goroutines : InStatement(h)' =>
            call'[h].mark \in Marks /\ call'[h].mark <= marks' /\ Untouched(call[h].mark)'
      BY <1>1, <1>7, <2>1 DEF IInv, MarksOnce, InStatement, Marks, Bounds
    <2>5. \A u, v \in Txs : \A n \in Marks : n \in tx'[u].wrote /\ n \in tx'[v].wrote => u = v
      BY <1>5, <1>7 DEF IInv, MarksOnce, Untouched
    <2>6. \A u \in Txs : \A n \in Marks : n \in tx'[u].wrote => ~(said'[n].ok /\ said'[n].tx = NoTx)
      BY <1>1, <1>5, <1>7 DEF IInv, MarksOnce, Untouched
    <2> QED BY <1>1, <2>3, <2>4, <2>5, <2>6 DEF IInv, MarksOnce, InStatement
  <1>12. CommittedIsThere' /\ ConfirmedIsThere'
    BY <1>1, <1>5 DEF IInv, Typed, CommittedIsThere, ConfirmedIsThere
  <1>13. RunsTrue'
    <2>1. \A u \in Txs : /\ tx[u].wrote \subseteq tx'[u].wrote
                         /\ tx[u].state = "rolledback" => tx'[u].state = "rolledback"
      BY <1>5
    <2>2. ASSUME NEW h \in Goroutines PROVE RunTrue(callback[h])'
      <3>1. PICK b \in CallbackRecs : b = callback[h]
        BY DEF IInv, Typed
      <3>2. RunTrue(b)'
        BY <1>5, <2>1, <3>1, RunKept DEF IInv, RunsTrue
      <3>3. CASE h # g
        BY <1>6, <3>1, <3>2, <3>3 DEF RunTrue
      <3>4. CASE h = g
        BY <1>1, <1>3, <1>5, <1>6, <3>1, <3>2, <3>4 DEF RunTrue
      <3> QED BY <3>3, <3>4
    <2> QED BY <2>2 DEF RunsTrue
  <1>14. LockIsOpen'
    BY <1>5 DEF LockIsOpen, Active
  <1> QED BY <1>8, <1>9, <1>10, <1>11, <1>12, <1>13, <1>14 DEF IInv

\* fn is over: the transaction is committed or undone, and nobody ends it again.
LEMMA FnEndsStep ==
  ASSUME Bounds, IInv, NEW g \in Goroutines,
         FnReturns(g) \/ FnFails(g, TRUE) \/ FnFails(g, FALSE)
  PROVE  IInv'
  <1>1. PICK t \in Txs : t = callback[g].tx /\ Running(g, t) /\ Active(t)
    BY DEF FnReturns, FnFails, InFn, IInv, RunsTrue, RunTrue, EndsTheOpen, Running
  <1>2. PICK old \in CallbackRecs : old = callback[g]
    BY DEF IInv, Typed
  <1>3. PICK b \in CallbackRecs :
          /\ callback' = [callback EXCEPT ![g] = b]
          /\ b.wrote = old.wrote /\ b.ran = old.ran
          /\ \/ b.at = "ok" /\ Commits(t)
             \/ b.at \in {"error", "begin"} /\ RollsBack(t)
    <2>1. CASE FnReturns(g)
      <3>1. /\ \/ Commits(t) /\ Back(g, [old EXCEPT !.at = "ok"])
               \/ RollsBack(t) /\ Back(g, [old EXCEPT !.at = "error"])
        BY <1>1, <1>2, <2>1 DEF FnReturns
      <3>2. PICK r \in CallbackRecs : r = [old EXCEPT !.at = "ok"]
        BY DEF CallbackRecs
      <3>3. PICK s \in CallbackRecs : s = [old EXCEPT !.at = "error"]
        BY DEF CallbackRecs
      <3>4. /\ r.at = "ok" /\ r.wrote = old.wrote /\ r.ran = old.ran
            /\ s.at = "error" /\ s.wrote = old.wrote /\ s.ran = old.ran
        BY <3>2, <3>3 DEF CallbackRecs
      <3> QED BY <3>1, <3>2, <3>3, <3>4 DEF Back
    <2>2. CASE FnFails(g, TRUE) /\ old.attempt < MaxRetries
      <3>1. RollsBack(t) /\ Back(g, [old EXCEPT !.at = "begin", !.attempt = @ + 1])
        BY <1>1, <1>2, <2>2 DEF FnFails, Undone, Again
      <3>2. PICK n \in Nat : n = old.attempt + 1
        BY DEF CallbackRecs
      <3>3. PICK r \in CallbackRecs : r = [old EXCEPT !.at = "begin", !.attempt = n]
        BY DEF CallbackRecs
      <3>4. r.at = "begin" /\ r.wrote = old.wrote /\ r.ran = old.ran
        BY <3>3 DEF CallbackRecs
      <3> QED BY <3>1, <3>2, <3>3, <3>4 DEF Back
    <2>3. CASE (FnFails(g, TRUE) /\ ~(old.attempt < MaxRetries)) \/ FnFails(g, FALSE)
      BY <1>1, <1>2, <2>3 DEF FnFails, Undone, Again, Back, CallbackRecs
    <2> QED BY <2>1, <2>2, <2>3
  <1>4. UNCHANGED <<sqlTx, sqlMu, call, said, marks>> /\ (Commits(t) \/ RollsBack(t))
    BY <1>1, <1>3 DEF FnReturns, FnFails, SqlVars
  <1>5. /\ callback' \in [Goroutines -> CallbackRecs] /\ callback'[g] = b
        /\ \A h \in Goroutines : h # g => callback'[h] = callback[h]
    BY <1>3 DEF IInv, Typed
  <1>6. /\ tx' \in [Txs -> TxRecs] /\ lock' \in Txs \union {NoTx} /\ data' \in SUBSET Marks
        /\ data \subseteq data'
        /\ \A u \in Txs : tx'[u].wrote = tx[u].wrote
        /\ \A u \in Txs : u # t => tx'[u] = tx[u]
        /\ Commits(t) => tx[t].wrote \subseteq data'
        /\ RollsBack(t) => tx'[t].state = "rolledback"
        /\ \A m \in Marks : Untouched(m) => m \notin data'
        /\ UnbornEmpty' /\ CommittedIsThere' /\ ConfirmedIsThere' /\ LockIsOpen'
    BY <1>1, <1>4, EndKeeps DEF Untouched
  <1>7. Typed'
    BY <1>4, <1>5, <1>6 DEF IInv, Typed
  <1>8. \A h \in Goroutines : \A u \in Txs : /\ Ending(h, u)' => Ending(h, u) /\ u # t
                                             /\ Running(h, u)' => Running(h, u) /\ u # t
    BY <1>1, <1>3, <1>4, <1>5 DEF IInv, EndsAlone, Ending, Running
  <1>9. EndsTheOpen'
    <2>1. t # sqlTx
      BY <1>1 DEF IInv, EndsAlone
    <2>2. \A h \in Goroutines : callback'[h].at = "fn" => callback'[h].tx # NoTx
      BY <1>3, <1>5 DEF IInv, EndsTheOpen
    <2> QED BY <1>4, <1>6, <1>8, <2>1, <2>2 DEF IInv, Typed, EndsTheOpen, Active
  <1>10. EndsAlone'
    BY <1>4, <1>8 DEF IInv, EndsAlone
  <1>11. MarksOnce'
    BY <1>4, <1>6, MarksKept DEF InStatement
  <1>12. RunsTrue'
    <2>1. RunTrue(old) /\ old.at = "fn" /\ old.tx = t
      BY <1>1, <1>2 DEF IInv, RunsTrue, Running
    <2>2. \A m \in Marks : Lost(m) => Lost(m)'
      BY <1>1, <1>6 DEF Lost, Active
    <2>3. \A m \in b.ran : m \in Marks /\ (m \in b.wrote \/ Lost(m))
      BY <1>3, <2>1 DEF RunTrue, CallbackRecs
    <2>4. b.wrote \subseteq b.ran /\ b.wrote \subseteq tx[t].wrote
      BY <1>3, <2>1 DEF RunTrue
    <2>5. RunTrue(b)'
      <3>1. CASE b.at = "ok" /\ Commits(t)
        BY <1>6, <2>2, <2>3, <2>4, <3>1 DEF RunTrue
      <3>2. CASE b.at \in {"error", "begin"} /\ RollsBack(t)
        <4>1. \A m \in b.wrote : Lost(m)'
          BY <1>6, <2>4, <3>2 DEF Lost
        <4> QED BY <2>2, <2>3, <2>4, <3>2, <4>1 DEF RunTrue
      <3> QED BY <1>3, <3>1, <3>2
    <2>6. RunTrue(callback[g])'
      BY <1>5, <2>5 DEF RunTrue
    <2> QED BY <1>1, <1>4, <1>5, <2>6, RunsAfterEnd DEF RunsTrue
  <1> QED BY <1>6, <1>7, <1>9, <1>10, <1>11, <1>12 DEF IInv

-----------------------------------------------------------------------------
\* A checkpoint that queues, and a rebuild that forgets the SQL transaction.
LEMMA OtherStep ==
  ASSUME Bounds, IInv,
         CheckpointQueues \/ CheckpointLeaves \/ \E g \in Goroutines : RebuildGivesUp(g)
  PROVE  IInv'
  <1>1. UNCHANGED <<tx, lock, data, sqlMu, call, callback, said, marks>> /\ sqlTx' \in {sqlTx, NoTx}
    BY DEF CheckpointQueues, CheckpointLeaves, RebuildGivesUp, CoreVars, SqlVars
  <1>2. Typed'
    BY <1>1 DEF IInv, Typed
  <1>3. EndsTheOpen' /\ EndsAlone'
    BY <1>1, EndsKept
  <1>4. MarksOnce'
    BY <1>1, MarksKept DEF InStatement, Untouched
  <1> QED BY <1>1, <1>2, <1>3, <1>4, CoreKept, RunsKept DEF IInv

LEMMA Stuttering == ASSUME IInv, UNCHANGED vars PROVE IInv'
  BY DEF vars, IInv, Typed, EndsTheOpen, EndsAlone, UnbornEmpty, MarksOnce, CommittedIsThere,
         ConfirmedIsThere, RunsTrue, RunTrue, LockIsOpen, Active, Ending, Running, Untouched,
         InStatement, Lost

LEMMA Inductive == ASSUME Bounds, IInv, [Next]_vars PROVE IInv'
  <1>1. CASE UNCHANGED vars
    BY <1>1, Stuttering
  <1>2. ASSUME NEW g \in Goroutines, Exec(g) PROVE IInv'
    BY <1>2, ExecInTx, ExecAlone
  <1> QED BY <1>1, <1>2, StatementStep, CurrentTxStep, ExecFailsStep, SqlBeginStep, BegunStep,
             SqlEndStep, SqlEndsStep, TransactionStep, BeginCoreStep, FnWritesStep, FnEndsStep,
             OtherStep DEF Next

\* The statements and transactions of a handle keep IInv (sql.go, tx.go).
THEOREM Invariant == ASSUME Bounds PROVE Spec => []IInv
  <1> QED BY Initially, Inductive, PTL DEF Spec

LEMMA AnswersFollow == ASSUME Bounds, IInv PROVE AnswersAreTrue
  <1>1. ASSUME NEW m \in Marks, said[m].ok, said[m].tx # NoTx
        PROVE  m \in tx[said[m].tx].wrote /\ (tx[said[m].tx].state = "committed" => m \in data)
    <2>1. said[m].tx \in Txs /\ m \in tx[said[m].tx].wrote
      BY <1>1 DEF IInv, Typed, ConfirmedIsThere
    <2> QED BY <2>1 DEF IInv, CommittedIsThere
  <1>2. \A m \in Marks : said[m].ok /\ said[m].tx = NoTx => m \in data
    BY DEF IInv, ConfirmedIsThere
  <1>3. \A m \in Marks : m \in data =>
          (\E t \in Txs : tx[t].state = "committed" /\ m \in tx[t].wrote)
          \/ (said[m].ok /\ said[m].tx = NoTx)
    BY DEF IInv, CommittedIsThere
  <1> QED BY <1>1, <1>2, <1>3 DEF AnswersAreTrue

\* What a statement answered is true, whoever began, committed or rolled back
\* the SQL transaction between its lookup and its write (sql.go), for any
\* number of goroutines, transactions and statements.
THEOREM AnswersHold == ASSUME Bounds PROVE Spec => []AnswersAreTrue
  <1>1. IInv => AnswersAreTrue
    BY AnswersFollow
  <1> QED BY <1>1, Invariant, PTL

LEMMA RunsFollow == ASSUME Bounds, IInv PROVE OneRunOrNone
  <1>1. \A m \in Marks : Lost(m) => m \notin data
    BY DEF IInv, CommittedIsThere, MarksOnce, Lost
  <1>2. SUFFICES ASSUME NEW g \in Goroutines
                 PROVE  /\ callback[g].at = "ok" => callback[g].ran \intersect data = callback[g].wrote
                        /\ callback[g].at \in {"error", "begin", "fn"} => callback[g].ran \intersect data = {}
    BY DEF OneRunOrNone
  <1>3. PICK b \in CallbackRecs : b = callback[g] /\ RunTrue(b)
    BY DEF IInv, Typed, RunsTrue
  <1>4. b.ran \subseteq Marks
    BY DEF CallbackRecs
  <1>5. b.at = "ok" => b.ran \intersect data = b.wrote
    BY <1>1, <1>3, <1>4 DEF RunTrue
  <1>6. b.at \in {"error", "begin"} => b.ran \intersect data = {}
    BY <1>1, <1>3, <1>4 DEF RunTrue
  <1>7. ASSUME b.at = "fn" PROVE b.ran \intersect data = {}
    <2>1. PICK t \in Txs : t = b.tx /\ Active(t) /\ b.wrote \subseteq tx[t].wrote
      BY <1>3, <1>7 DEF IInv, EndsTheOpen, RunTrue, Running
    <2>2. \A m \in Marks : m \in tx[t].wrote => m \notin data
      BY <2>1 DEF IInv, CommittedIsThere, MarksOnce, Active
    <2> QED BY <1>1, <1>3, <1>4, <1>7, <2>1, <2>2 DEF RunTrue
  <1> QED BY <1>3, <1>5, <1>6, <1>7

\* DB.Transaction leaves what its last run wrote if it succeeds and nothing if
\* it fails (tx.go), however often a ring of waiters broke it off before.
THEOREM OneRunCounts == ASSUME Bounds PROVE Spec => []OneRunOrNone
  <1>1. IInv => OneRunOrNone
    BY RunsFollow
  <1> QED BY <1>1, Invariant, PTL

-----------------------------------------------------------------------------
(* Who can end a transaction that is open.                                 *)

LEMMA OwnersFirst == Init => Owned
  BY DEF Init, Owned, BeginsAlone, OpenIsOwned, Active, Unborn, NoCall

\* A step that begins no transaction, ends none, and lets go of none.
LEMMA OwnersKept ==
  ASSUME Owned, \A t \in Txs : tx'[t].state = "active" => Active(t),
         \A t \in Txs : Active(t)' /\ t = sqlTx =>
           t = sqlTx' \/ \E g \in Goroutines : Ending(g, t)' \/ Running(g, t)',
         \A g \in Goroutines : \A t \in Txs :
           Active(t)' => /\ Ending(g, t) => Ending(g, t)'
                         /\ Running(g, t) => Running(g, t)'
  PROVE  OpenIsOwned'
  <1>1. SUFFICES ASSUME NEW t \in Txs, Active(t)'
                 PROVE  t = sqlTx' \/ \E g \in Goroutines : Ending(g, t)' \/ Running(g, t)'
    BY DEF OpenIsOwned
  <1>2. Active(t)
    BY <1>1 DEF Active
  <1> QED BY <1>1, <1>2 DEF Owned, OpenIsOwned

LEMMA OwnersWhileCalled ==
  ASSUME Bounds, IInv, Owned, NEW g \in Goroutines,
         \/ Statement(g) \/ CurrentTx(g) \/ Exec(g) \/ ExecFails(g) \/ SqlBegin(g) \/ BeginFails(g)
  PROVE  Owned'
  <1>1. /\ call[g].at \notin {"commit", "rollback"}
        /\ \A h \in Goroutines : h # g => call'[h] = call[h]
        /\ UNCHANGED <<sqlTx, callback>>
    BY DEF IInv, Typed, Statement, CurrentTx, Exec, ExecFails, SqlBegin, BeginFails, Answers, Calls,
           Between, CoreVars, SqlVars
  <1>2. \A t \in Txs : tx'[t].state = tx[t].state
    <2>1. CASE UNCHANGED tx
      BY <2>1
    <2>2. CASE Exec(g) /\ call[g].tx # NoTx
      <3>1. call[g].tx \in Txs /\ call[g].mark \in Marks
        BY <2>2 DEF Exec, IInv, Typed, CallRecs, MarksOnce, InStatement
      <3> QED BY <2>2, <3>1, Written DEF Exec, IInv
    <2> QED BY <2>1, <2>2 DEF Statement, CurrentTx, Exec, ExecFails, SqlBegin, BeginFails, CoreVars
  <1>3. OpenIsOwned'
    BY <1>1, <1>2, OwnersKept DEF Ending, Running, Active
  <1>4. BeginsAlone'
    <2>1. call \in [Goroutines -> CallRecs]
      BY DEF IInv, Typed
    <2>2. CASE Statement(g) \/ CurrentTx(g) \/ Exec(g) \/ ExecFails(g)
      <3>1. call'[g].at \in {"idle", "lookup", "exec"} /\ sqlMu' = sqlMu
        <4>1. CASE Statement(g)
          BY <2>1, <4>1 DEF Statement, Calls, SqlVars
        <4>2. CASE CurrentTx(g)
          <5>1. call' = [call EXCEPT ![g] = [call[g] EXCEPT !.at = "exec", !.tx = sqlTx]] /\ sqlMu' = sqlMu
            BY <4>2 DEF CurrentTx, Calls, SqlVars
          <5> QED BY <2>1, <5>1 DEF CallRecs
        <4>3. CASE Exec(g) \/ ExecFails(g)
          BY <2>1, <4>3, BlankCalls DEF Exec, ExecFails, Answers, Calls, SqlVars
        <4> QED BY <2>2, <4>1, <4>2, <4>3
      <3> QED BY <1>1, <3>1 DEF Owned, BeginsAlone
    <2>3. CASE SqlBegin(g)
      <3>1. \A h \in Goroutines : call[h].at # "begin"
        BY <2>3 DEF SqlBegin, Owned, BeginsAlone, Bounds
      <3>2. call'[g].at = "begin" => sqlMu' = g /\ sqlTx' = NoTx
        BY <1>1, <2>1, <2>3, <3>1 DEF SqlBegin, Calls
      <3> QED BY <1>1, <3>1, <3>2 DEF BeginsAlone
    <2>4. CASE BeginFails(g)
      <3>1. call'[g].at = "idle"
        BY <2>1, <2>4 DEF BeginFails, Calls, NoCall
      <3>2. \A h \in Goroutines : h # g => call[h].at # "begin"
        BY <2>4 DEF BeginFails, Owned, BeginsAlone
      <3> QED BY <1>1, <3>1, <3>2 DEF BeginsAlone
    <2> QED BY <2>2, <2>3, <2>4
  <1> QED BY <1>3, <1>4 DEF Owned

LEMMA OwnersAfterBegin ==
  ASSUME Bounds, IInv, Owned, NEW g \in Goroutines, Begun(g)
  PROVE  Owned'
  <1>1. PICK t \in New : tx' = [tx EXCEPT ![t].state = "active"] /\ sqlTx' = t
    BY DEF Begun
  <1>2. t \in Txs /\ tx'[t].state = "active" /\ \A u \in Txs : u # t => tx'[u] = tx[u]
    BY <1>1, Born DEF IInv
  <1>3. /\ call[g].at = "begin" /\ call'[g].at = "idle" /\ callback' = callback
        /\ \A h \in Goroutines : h # g => call'[h] = call[h]
    BY BlankCalls DEF Begun, Calls, IInv, Typed
  <1>4. sqlTx = NoTx /\ \A h \in Goroutines : h # g => call[h].at # "begin"
    BY <1>3 DEF Owned, BeginsAlone
  <1>5. BeginsAlone'
    BY <1>3, <1>4 DEF BeginsAlone
  <1>6. OpenIsOwned'
    <2>1. SUFFICES ASSUME NEW u \in Txs, Active(u)'
                   PROVE  u = sqlTx' \/ \E h \in Goroutines : Ending(h, u)' \/ Running(h, u)'
      BY DEF OpenIsOwned
    <2>2. CASE u = t
      BY <1>1, <2>2
    <2>3. CASE u # t
      <3>1. PICK h \in Goroutines : Ending(h, u) \/ Running(h, u)
        BY <1>2, <1>4, <2>1, <2>3, NoTxApart DEF Owned, OpenIsOwned, Active
      <3>2. Ending(h, u)' \/ Running(h, u)'
        BY <1>3, <3>1 DEF Ending, Running
      <3> QED BY <3>2
    <2> QED BY <2>2, <2>3
  <1> QED BY <1>5, <1>6 DEF Owned

\* sqlEnd and the ends it leads to.
LEMMA OwnersAtEnd ==
  ASSUME Bounds, IInv, Owned, NEW g \in Goroutines,
         SqlEnd(g, "commit") \/ SqlEnd(g, "rollback") \/ SqlCommit(g) \/ SqlRollback(g)
  PROVE  Owned'
  <1>1. call \in [Goroutines -> CallRecs]
    BY DEF IInv, Typed
  <1>2. CASE SqlEnd(g, "commit") \/ SqlEnd(g, "rollback")
    <2>1. /\ call[g].at = "idle" /\ sqlMu = None /\ sqlTx' = NoTx /\ UNCHANGED <<tx, callback>>
          /\ call'[g].at \in {"commit", "rollback"} /\ call'[g].tx = sqlTx
          /\ \A h \in Goroutines : h # g => call'[h] = call[h]
      BY <1>1, <1>2 DEF SqlEnd, Between, Calls, CoreVars
    <2>2. BeginsAlone'
      BY <2>1 DEF Owned, BeginsAlone, Bounds
    <2>3. OpenIsOwned'
      BY <2>1, OwnersKept DEF Ending, Running, Active
    <2> QED BY <2>2, <2>3 DEF Owned
  <1>3. CASE SqlCommit(g) \/ SqlRollback(g)
    <2>1. PICK t \in Txs : t = call[g].tx /\ Ending(g, t) /\ Active(t)
      BY <1>3 DEF SqlCommit, SqlRollback, IInv, Typed, CallRecs, EndsTheOpen, Ending
    <2>2. /\ Commits(t) \/ RollsBack(t)
          /\ UNCHANGED <<sqlTx, sqlMu, callback, said, marks>>
          /\ call'[g].at = "idle" /\ \A h \in Goroutines : h # g => call'[h] = call[h]
      BY <1>1, <1>3, <2>1, BlankCalls DEF SqlCommit, SqlRollback, Calls, SqlVars
    <2>3. /\ \A u \in Txs : u # t => tx'[u] = tx[u]
          /\ tx'[t].state \in {"committed", "rolledback"}
      BY <2>1, <2>2, EndKeeps
    <2>4. BeginsAlone'
      BY <2>2 DEF Owned, BeginsAlone
    <2>5. OpenIsOwned'
      BY <2>1, <2>2, <2>3, OwnersKept DEF Ending, Running, Active
    <2> QED BY <2>4, <2>5 DEF Owned
  <1> QED BY <1>2, <1>3

LEMMA OwnersInCallback ==
  ASSUME Bounds, IInv, Owned, NEW g \in Goroutines,
         \/ Transaction(g) \/ BeginCore(g) \/ BeginCoreFails(g) \/ FnWrites(g)
         \/ FnReturns(g) \/ FnFails(g, TRUE) \/ FnFails(g, FALSE)
  PROVE  Owned'
  <1>1. UNCHANGED <<sqlTx, sqlMu, call>> /\ \A h \in Goroutines : h # g => callback'[h] = callback[h]
    BY DEF Transaction, BeginCore, BeginCoreFails, FnWrites, FnReturns, FnFails, Back, SqlVars, IInv, Typed
  <1>2. BeginsAlone'
    BY <1>1 DEF Owned, BeginsAlone
  <1>3. callback \in [Goroutines -> CallbackRecs]
    BY DEF IInv, Typed
  <1>4. CASE Transaction(g) \/ BeginCoreFails(g)
    <2>1. UNCHANGED tx /\ callback[g].at # "fn"
      BY <1>4 DEF Transaction, BeginCoreFails, CoreVars
    <2> QED BY <1>1, <1>2, <2>1, OwnersKept DEF Owned, Ending, Running, Active
  <1>5. CASE BeginCore(g)
    <2>1. PICK t \in New : /\ tx' = [tx EXCEPT ![t].state = "active"]
                           /\ Back(g, [callback[g] EXCEPT !.at = "fn", !.tx = t, !.wrote = {}])
      BY <1>5 DEF BeginCore
    <2>2. t \in Txs /\ \A u \in Txs : u # t => tx'[u] = tx[u]
      BY <2>1, Born DEF IInv
    <2>3. callback[g].at = "begin" /\ callback'[g].at = "fn" /\ callback'[g].tx = t
      BY <1>3, <1>5, <2>1, <2>2 DEF BeginCore, Back, CallbackRecs
    <2>4. OpenIsOwned'
      <3>1. SUFFICES ASSUME NEW u \in Txs, Active(u)', u # t
                     PROVE  u = sqlTx' \/ \E h \in Goroutines : Ending(h, u)' \/ Running(h, u)'
        BY <2>3 DEF OpenIsOwned, Running
      <3>2. u = sqlTx \/ \E h \in Goroutines : Ending(h, u) \/ Running(h, u)
        BY <2>2, <3>1 DEF Owned, OpenIsOwned, Active
      <3> QED BY <1>1, <2>3, <3>2 DEF Ending, Running
    <2> QED BY <1>2, <2>4 DEF Owned
  <1>6. CASE FnWrites(g)
    <2>1. PICK t \in Txs : t = callback[g].tx
      BY <1>6 DEF FnWrites, InFn, IInv, RunsTrue, RunTrue
    <2>2. PICK m \in Marks : m = marks'
      BY <1>6 DEF FnWrites, IInv, Typed, Bounds, Marks
    <2>3. Writes(t, m)
      BY <1>6, <2>1, <2>2 DEF FnWrites
    <2>4. \A u \in Txs : tx'[u].state = tx[u].state
      BY <2>3, Written DEF IInv
    <2>5. callback'[g].at = callback[g].at /\ callback'[g].tx = callback[g].tx
      BY <1>3, <1>6 DEF FnWrites, Back, CallbackRecs
    <2> QED BY <1>1, <1>2, <2>4, <2>5, OwnersKept DEF Owned, Ending, Running, Active
  <1>7. CASE FnReturns(g) \/ FnFails(g, TRUE) \/ FnFails(g, FALSE)
    <2>1. PICK t \in Txs : t = callback[g].tx /\ Running(g, t) /\ Active(t)
      BY <1>7 DEF FnReturns, FnFails, InFn, IInv, RunsTrue, RunTrue, EndsTheOpen, Running
    <2>2. (Commits(t) \/ RollsBack(t)) /\ UNCHANGED <<said, marks>>
      BY <1>7, <2>1 DEF FnReturns, FnFails, Undone
    <2>3. /\ \A u \in Txs : u # t => tx'[u] = tx[u]
          /\ tx'[t].state \in {"committed", "rolledback"}
      BY <2>1, <2>2, EndKeeps
    <2>4. OpenIsOwned'
      BY <1>1, <2>1, <2>3, OwnersKept DEF Ending, Running, Active
    <2> QED BY <1>2, <2>4 DEF Owned
  <1> QED BY <1>4, <1>5, <1>6, <1>7

LEMMA OwnersInductive ==
  ASSUME Bounds, ~RebuildFails, IInv, Owned, [Next]_vars
  PROVE  Owned'
  <1>1. CASE UNCHANGED vars
    BY <1>1 DEF vars, Owned, BeginsAlone, OpenIsOwned, Active, Ending, Running
  <1>2. CASE CheckpointQueues \/ CheckpointLeaves
    BY <1>2 DEF CheckpointQueues, CheckpointLeaves, CoreVars, SqlVars, Owned, BeginsAlone,
                OpenIsOwned, Active, Ending, Running
  <1>3. ASSUME NEW g \in Goroutines, RebuildGivesUp(g) PROVE Owned'
    BY <1>3 DEF RebuildGivesUp
  <1> QED BY <1>1, <1>2, <1>3, OwnersWhileCalled, OwnersAfterBegin, OwnersAtEnd, OwnersInCallback
          DEF Next

\* A collection is only ever locked by a transaction somebody can still end
\* (tx.go), whatever fails or times out, unless a rebuild drops the SQL
\* transaction and then does not get the handle (rebuild.go).
THEOREM LocksCanBeReleased ==
  ASSUME Bounds, ~RebuildFails PROVE Spec => []SomebodyCanEnd
  <1>1. IInv /\ Owned => SomebodyCanEnd
    BY NoTxApart DEF IInv, Typed, LockIsOpen, Owned, OpenIsOwned, SomebodyCanEnd, Ending, Running
  <1>2. Spec => []Owned
    <2>1. Init => Owned
      BY OwnersFirst
    <2>2. IInv /\ Owned /\ [Next]_vars => Owned'
      BY OwnersInductive
    <2> QED BY <2>1, <2>2, Invariant, PTL DEF Spec
  <1> QED BY <1>1, <1>2, Invariant, PTL
=============================================================================
