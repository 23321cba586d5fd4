------------------------------ MODULE IndexSync ------------------------------
(***************************************************************************)
(* How the engine keeps the indexes of a collection in step with its       *)
(* documents (src/internal/xengine/crud.go): nodes are built one by one    *)
(* when a document is inserted and taken out in reverse when one of them   *)
(* fails; an update compares old keys with new ones, checks everything     *)
(* that may fail, and only then touches a page.                            *)
(*                                                                         *)
(* All calls on a collection run under its lock: one call at a time.  How  *)
(* many levels a new node gets (flip) is any number there may be.          *)
(***************************************************************************)
EXTENDS SkipList, Sequences

CONSTANT Same  \* [Keys -> Nat]: keys that Compare equal byte by byte, 5 and 5.0

VARIABLES stored,  \* document -> the keys it produces, or Absent
          op       \* the call under way

vars == <<nodes, ix, pages, stored, op>>

Absent == {0}
Idle == [kind |-> "idle", doc |-> 0, keys |-> {}, todo |-> <<>>, done |-> <<>>, last |-> Nil]

Init ==
  /\ ListInit
  /\ stored = [d \in Docs |-> Absent]
  /\ op = Idle

\* The keys of a document, in any fixed order.
InOrder(s) ==
  LET nth[n \in 1..Cardinality(s)] ==
        CHOOSE k \in s : Cardinality({j \in s : j < k}) = n - 1
  IN [n \in 1..Cardinality(s) |-> nth[n]]
SecTodo(s) == [n \in 1..Cardinality(s) |-> <<"sec", InOrder(s)[n]>>]

-----------------------------------------------------------------------------
(* insertDocument, syncIndexesOnInsert                                     *)

StartInsert(d, ks) ==
  /\ op.kind = "idle"
  /\ op' = [Idle EXCEPT !.kind = "insert", !.doc = d, !.keys = ks, !.todo = <<<<"pk", d>>>> \o SecTodo(ks)]
  /\ UNCHANGED <<listVars, stored>>

\* The next node.  What is remembered of it is a copy of the index entry as
\* it was right after.
InsertNode(levels) ==
  /\ op.kind = "insert" /\ op.todo # <<>>
  /\ LET x == op.todo[1][1]
         r == AddNode(x, op.todo[1][2], levels, op.doc, op.last)
     IN /\ MayAdd(x)
        /\ Becomes(x, r.st)
        /\ op' = IF r.addr = Nil THEN [op EXCEPT !.kind = "undo"]
                 ELSE [op EXCEPT !.todo = Tail(@), !.last = r.addr,
                                 !.done = Append(@, [ix |-> x, addr |-> r.addr, free |-> r.st.free])]
  /\ UNCHANGED stored

\* A key that cannot be computed or is too long, or the vectors fail.
InsertFails ==
  /\ op.kind = "insert"
  /\ op' = [op EXCEPT !.kind = "undo"]
  /\ UNCHANGED <<listVars, stored>>

InsertDone ==
  /\ op.kind = "insert" /\ op.todo = <<>>
  /\ stored' = [stored EXCEPT ![op.doc] = op.keys]
  /\ op' = Idle
  /\ UNCHANGED listVars

\* Undoing goes backwards, each node with its copy of the entry; the entry
\* in the collection page is only written when the copy changes.
NextUndoFirst(done) == 1
NextUndo(done) == Len(done)
UndoNode ==
  /\ op.kind = "undo" /\ op.done # <<>>
  /\ LET i == NextUndo(op.done)
         e == op.done[i]
         st == DeleteNode([nodes |-> nodes, pages |-> pages, free |-> e.free], e.addr)
     IN /\ nodes' = st.nodes /\ pages' = st.pages
        /\ ix' = IF st.free = e.free THEN ix ELSE [ix EXCEPT ![e.ix].free = st.free]
        /\ op' = [op EXCEPT !.done = SubSeq(@, 1, i - 1) \o SubSeq(@, i + 1, Len(@))]
  /\ UNCHANGED stored
UndoDone ==
  /\ op.kind = "undo" /\ op.done = <<>>
  /\ op' = Idle
  /\ UNCHANGED <<listVars, stored>>

-----------------------------------------------------------------------------
(* updateDocument: planIndexUpdate, checkInsertable, applyIndexUpdate      *)

OldNodes(d) == Chain(d) \ {Pk(d)}
ToDelete(d, ks) == {a \in OldNodes(d) : \A k \in ks : Same[k] # Same[nodes[a].key]}
ToInsert(d, ks) == {k \in ks : \A a \in OldNodes(d) : Same[k] # Same[nodes[a].key]}
ClashOld(d, ks) == \E k \in ToInsert(d, ks) : Find("sec", k, FALSE, TRUE) \notin ToDelete(d, ks) \union {Nil}
ClashNew(d, ks) == \E j, k \in ToInsert(d, ks) : j # k /\ Rank[j] = Rank[k]
InsertableAlone(d, ks) == SecUnique => ~ClashOld(d, ks)
Insertable(d, ks) == SecUnique => ~ClashOld(d, ks) /\ ~ClashNew(d, ks)

\* A document that is not there is skipped, and so is, with an error, an
\* update whose keys do not fit: nothing was changed yet.
StartUpdate(d, ks) ==
  /\ op.kind = "idle" /\ stored[d] # Absent
  /\ Insertable(d, ks)
  /\ LET r == ChainDelete(d, ToDelete(d, ks))
     IN /\ Becomes("sec", r.st)
        /\ op' = [Idle EXCEPT !.kind = "update", !.doc = d, !.todo = SecTodo(ToInsert(d, ks)), !.last = r.last]
  /\ stored' = [stored EXCEPT ![d] = ks]

UpdateNode(levels) ==
  /\ op.kind = "update" /\ op.todo # <<>>
  /\ LET r == AddNode("sec", op.todo[1][2], levels, op.doc, op.last)
     IN /\ MayAdd("sec")
        /\ Becomes("sec", r.st)
        /\ op' = IF r.addr = Nil THEN [op EXCEPT !.kind = "torn"]
                 ELSE [op EXCEPT !.todo = Tail(@), !.last = r.addr]
  /\ UNCHANGED stored
UpdateDone ==
  /\ op.kind = "update" /\ op.todo = <<>>
  /\ op' = Idle
  /\ UNCHANGED <<listVars, stored>>

\* DeleteIn.
Remove(d) ==
  /\ op.kind = "idle" /\ stored[d] # Absent
  /\ DeleteAll(d)
  /\ stored' = [stored EXCEPT ![d] = Absent]
  /\ UNCHANGED op

Next ==
  \/ \E d \in Docs, ks \in SUBSET Keys : StartInsert(d, ks) \/ StartUpdate(d, ks)
  \/ \E n \in 1..MaxLevel : InsertNode(n) \/ UpdateNode(n)
  \/ InsertFails \/ InsertDone \/ UndoNode \/ UndoDone \/ UpdateDone
  \/ \E d \in Docs : Remove(d)

Spec == Init /\ [][Next]_vars

-----------------------------------------------------------------------------
\* Between calls, a document that is there has one node in the first index
\* and one in the second for each key it produces, all on its chain; one
\* that is not there has none (crud.go, and what Verify counts): whatever
\* failed on the way, and whatever the keys were before.
SecOf(d) == {a \in DOMAIN nodes : nodes[a].ix = "sec" /\ nodes[a].doc = d}
IndexesMatchDocuments ==
  op.kind = "idle" =>
    \A d \in Docs :
      IF stored[d] = Absent THEN Chain(d) = {} /\ SecOf(d) = {}
      ELSE /\ Cardinality(PkNodes(d)) = 1
           /\ Chain(d) = PkNodes(d) \union SecOf(d)
           /\ Cardinality(SecOf(d)) = Cardinality(stored[d])
           /\ {nodes[a].key : a \in SecOf(d)} = stored[d]

\* The weaker promise Verify checks: as many nodes as the documents produce
\* keys, 5 and 5.0 counted apart (verify_check.go).
KeysCounted ==
  op.kind = "idle" =>
    \A d \in Docs : stored[d] # Absent => Cardinality(SecOf(d)) = Cardinality(stored[d])

\* An update that passed its checks does not fail any more when it writes
\* (updateDocument): a caller that goes on after an error and commits has
\* not left new data under old keys.
UpdateNeverTorn == op.kind # "torn"
=============================================================================
