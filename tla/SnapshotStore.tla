--------------------------- MODULE SnapshotStore ---------------------------
(***************************************************************************)
(* What the transaction layer promises its callers: a store of collections *)
(* that changes by whole transactions only, private views fixed when they  *)
(* are opened, one writer per collection, and crashes that lose or keep a  *)
(* commit in flight as a whole.                                            *)
(*                                                                         *)
(* TxStore implements it; the contents of a collection are left open here. *)
(***************************************************************************)
CONSTANTS
    Txs,         \* transactions
    Cols,        \* collection names
    Unopened     \* the view of a collection a transaction has not opened

VARIABLES
    store,       \* the committed contents of each collection
    pending,     \* what a crash may leave instead: the store after a commit in flight
    view,        \* what each transaction sees of each collection
    writes       \* the collections each transaction may write

sVars == <<store, pending, view, writes>>

Init ==
    /\ pending = store
    /\ view = [t \in Txs |-> [c \in Cols |-> Unopened]]
    /\ writes = [t \in Txs |-> {}]

\* A view opened for reading shows the committed contents of that moment; opening
\* for writing takes the collection, and replaces a view opened for reading.
Open(t, c) ==
    /\ view[t][c] = Unopened \/ c \notin writes[t]
    /\ view' = [view EXCEPT ![t][c] = store[c]]
    /\ \/ view[t][c] = Unopened /\ UNCHANGED writes
       \/ /\ \A u \in Txs \ {t} : c \notin writes[u]
          /\ writes' = [writes EXCEPT ![t] = @ \cup {c}]
    /\ UNCHANGED <<store, pending>>

\* Opening may fail after the fact.
Close(t, c) ==
    /\ view' = [view EXCEPT ![t][c] = Unopened]
    /\ writes' = [writes EXCEPT ![t] = @ \ {c}]
    /\ UNCHANGED <<store, pending>>

\* Any new contents, seen by nobody else.
Write(t, c) ==
    /\ c \in writes[t]
    /\ view[t][c] # Unopened
    /\ view' = [view EXCEPT ![t][c] = view'[t][c]]
    /\ UNCHANGED <<store, pending, writes>>

\* The store with everything t wrote, and nothing of anybody else.
After(t) == [c \in Cols |-> IF c \in writes[t] /\ view[t][c] # Unopened
                            THEN view[t][c] ELSE store[c]]

Forget(t) ==
    /\ view' = [view EXCEPT ![t] = [c \in Cols |-> Unopened]]
    /\ writes' = [writes EXCEPT ![t] = {}]

\* From here on a crash may find the commit of t, whole, or not find it.
Prepare(t) ==
    /\ pending = store
    /\ pending' = After(t)
    /\ UNCHANGED <<store, view, writes>>

Commit(t) ==
    /\ pending = After(t)
    /\ store' = pending
    /\ Forget(t)
    /\ UNCHANGED pending

\* A transaction that fails or rolls back is gone.  If it failed while its commit
\* was in flight, what a crash leaves stays open.
Abort(t) ==
    /\ Forget(t)
    /\ UNCHANGED <<store, pending>>

\* A commit that failed in flight is dropped for good.
Settle ==
    /\ pending' = store
    /\ UNCHANGED <<store, view, writes>>

Crash ==
    /\ store' \in {store, pending}
    /\ pending' = store'
    /\ view' = [t \in Txs |-> [c \in Cols |-> Unopened]]
    /\ writes' = [t \in Txs |-> {}]

Next ==
    \/ \E t \in Txs, c \in Cols : Open(t, c) \/ Close(t, c) \/ Write(t, c)
    \/ \E t \in Txs : Prepare(t) \/ Commit(t) \/ Abort(t)
    \/ Settle
    \/ Crash

Spec == Init /\ [][Next]_sVars
=============================================================================
