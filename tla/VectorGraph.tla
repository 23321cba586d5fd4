----------------------------- MODULE VectorGraph -----------------------------
(***************************************************************************)
(* The vector indexes of one collection: a graph of neighbours per index   *)
(* (src/internal/xstore/vector.go, vector_search.go, the nodes of          *)
(* src/internal/xpage/vectornode.go) and the engine that keeps the graphs  *)
(* in step with the documents (src/internal/xengine/vector.go).            *)
(*                                                                         *)
(* A node says which document it is of, but not which index.  A batch of   *)
(* writes finds nodes through a locator (VectorLocator): filled by one     *)
(* scan, kept up to date after, and where a document has several nodes it  *)
(* tells whose they are from the pages on the lists of each index and from *)
(* what each root can reach.  The field ix of a node below is what really  *)
(* made it; no definition but the properties reads it.                     *)
(*                                                                         *)
(* All calls on a collection run under its lock: one call at a time.  A    *)
(* vector is a position and Dist the distance of any metric, NaN folded to *)
(* the largest one.  An address is a number, in the order of a scan.       *)
(***************************************************************************)
EXTENDS Integers, Sequences, FiniteSets, SequencesExt, FiniteSetsExt, PageList

CONSTANTS
  Docs,         \* documents, by the address of their first block
  Indexes,      \* the vector indexes there may be
  Given,        \* [Docs -> sets of [Indexes -> Vecs or None]]: what a document may hold
  Dist,         \* [Vecs \X Vecs -> Nat]
  Heights,      \* set of [Indexes -> 1..MaxLevels]: what the randomizer may throw
  MaxLevels,    \* VectorMaxLevels
  MaxNeighbors, \* VectorMaxNeighborsPerLevel
  Ef,           \* vectorEfConstruction and the breadth of a search
  Inline,       \* the indexes whose vectors fit into their nodes
  Pages, PageCap, Size, KeepAt, \* pages, their room, a node's size per index, MaxIndexNodeSize
  First,        \* the indexes at the start, oldest first
  Droppable,    \* bound: the indexes that are dropped
  MaxOps        \* bound: calls

VARIABLES
  nodes,    \* address -> node, of the nodes there are
  pages,    \* Pages -> [on, prev, nxt], of the vector index pages
  vx,       \* Indexes -> [root, free], the entry in the collection page
  order,    \* the indexes there are, in the order of the collection page
  external, \* the documents that hold a vector too long for its node
  docs,     \* Docs -> what the document holds, or Absent
  loc,      \* the locator of the batch under way
  ops

vars == <<nodes, pages, vx, order, external, docs, loc, ops>>

Nil == 0
None == 0      \* vectors are positive
Absent == [i \in Indexes |-> -1]
Levels == 0..(MaxLevels - 1)
NoPage == [on |-> FALSE, prev |-> 0, nxt |-> 0]
Slots == PageCap + 1
PageOf(a) == a \div Slots
Addresses(p) == {p * Slots + s : s \in 0..(Slots - 1)}

With(f, x, v) == [y \in DOMAIN f \union {x} |-> IF y = x THEN v ELSE f[y]]
Without(f, x) == [y \in DOMAIN f \ {x} |-> f[y]]
\* FoldLeft, with op in it once: the folds below are nested.
Each(op(_, _), base, s) ==
  LET f[n \in 0..Len(s)] == IF n = 0 THEN base ELSE op(f[n - 1], s[n]) IN f[Len(s)]
InOrder(s) == [n \in 1..Cardinality(s) |-> CHOOSE a \in s : Cardinality({b \in s : b < a}) = n - 1]

NoLocator == [scanned |-> FALSE, nodes |-> [d \in Docs |-> <<>>],
              known |-> FALSE, owners |-> [a \in {} |-> None], pages |-> [p \in {} |-> None],
              claimed |-> FALSE]

Init ==
  /\ nodes = [a \in {} |-> None]
  /\ pages = [p \in Pages |-> NoPage]
  /\ vx = [i \in Indexes |-> [root |-> Nil, free |-> 0]]
  /\ order = First
  /\ external = {}
  /\ docs = [d \in Docs |-> Absent]
  /\ loc = NoLocator
  /\ ops = 0

\* What a call works on.
St == [nodes |-> nodes, pages |-> pages, vx |-> vx, order |-> order, external |-> external, loc |-> loc]
Becomes(st) ==
  /\ nodes' = st.nodes /\ pages' = st.pages /\ vx' = st.vx /\ order' = st.order
  /\ external' = st.external /\ loc' = st.loc

-----------------------------------------------------------------------------
(* Candidates: sequences of [addr, dist].                                  *)

insertOrdered(l, item, max) ==
  LET far == {k \in 1..Len(l) : item.dist < l[k].dist}
      in == far # {} \/ Len(l) < max
      r == IF far # {} THEN InsertAt(l, Min(far), item) ELSE IF in THEN Append(l, item) ELSE l
  IN [list |-> IF Len(r) > max THEN SubSeq(r, 1, Len(r) - 1) ELSE r, in |-> in]
\* Equal distances stay in the order they came in.
selectNeighbors(l, k) ==
  LET sorted == Each(LAMBDA acc, x : insertOrdered(acc, x, Len(l)).list, <<>>, l)
  IN SubSeq(sorted, 1, IF Len(l) < k THEN Len(l) ELSE k)
minimumIndex(l) == Min({k \in 1..Len(l) : \A j \in 1..Len(l) : l[k].dist <= l[j].dist})

Candidate(g, a, v) == [addr |-> a, dist |-> Dist[<<g[a].vec, v>>]]

\* searchLayer: g is the nodes.  A node enters the candidates once.
Expanded(g, v, s, a, ef) ==
  LET r == insertOrdered(s.results, Candidate(g, a, v), ef)
  IN IF a \in s.seen THEN s
     ELSE [results |-> r.list, seen |-> s.seen \union {a},
           todo |-> IF r.in THEN Append(s.todo, Candidate(g, a, v)) ELSE s.todo]
searchLayer(g, v, entry, level, k, ef) ==
  LET first == Candidate(g, entry, v)
      f[n \in Nat] ==
        IF n = 0 THEN [results |-> <<first>>, todo |-> <<first>>, seen |-> {entry}]
        ELSE LET s == f[n - 1]
                 m == minimumIndex(s.todo)
                 cur == s.todo[m]
                 rest == [s EXCEPT !.todo = RemoveAt(@, m)]
             IN IF s.todo = <<>> THEN s
                ELSE IF Len(s.results) >= ef /\ cur.dist > s.results[Len(s.results)].dist THEN rest
                ELSE Each(LAMBDA acc, a : Expanded(g, v, acc, a, ef), rest, g[cur.addr].nb[level])
  IN selectNeighbors(f[Cardinality(DOMAIN g)].results, k)

\* greedy: to the closest of the neighbours, until none is closer.
greedy(g, v, start, level) ==
  LET Closer(cur, a) == IF Dist[<<g[a].vec, v>>] < Dist[<<g[cur].vec, v>>] THEN a ELSE cur
      f[n \in Nat] == IF n = 0 THEN start
                      ELSE LET cur == f[n - 1] IN Each(Closer, cur, g[cur].nb[level])
  IN f[Cardinality(DOMAIN g)]
Descended(g, v, start, from, to) ==
  LET f[n \in Nat] == IF n = 0 THEN start
                      ELSE LET cur == f[n - 1] IN greedy(g, v, cur, from - n + 1)
  IN f[IF from > to THEN from - to ELSE 0]

-----------------------------------------------------------------------------
(* The locator.                                                            *)

Shared(st) == Len(st.order) > 1
ScanOf(g, d) == InOrder({a \in DOMAIN g : g[a].block = d})
Scanned(st) ==
  IF st.loc.scanned THEN st
  ELSE [st EXCEPT !.loc.scanned = TRUE, !.loc.nodes = [d \in Docs |-> ScanOf(st.nodes, d)]]

Neighbors(g, a) == {b \in DOMAIN g : \E l \in Levels : \E n \in DOMAIN g[a].nb[l] : g[a].nb[l][n] = b}
Reach(g, from) ==
  LET f[n \in Nat] == IF n = 0 THEN from
                      ELSE LET s == f[n - 1] IN s \union UNION {Neighbors(g, a) : a \in s}
  IN f[Cardinality(DOMAIN g)]
Graph(g, i, m) == IF m[i].root = Nil THEN {} ELSE Reach(g, {m[i].root})
FreeChain(pp, head) ==
  LET f[n \in Nat] == IF n = 0 THEN <<head>>
                      ELSE LET s == f[n - 1]
                           IN IF s[Len(s)] = 0 THEN s ELSE Append(s, pp[s[Len(s)]].nxt)
      r == f[Cardinality(Pages)]
  IN {r[k] : k \in DOMAIN r} \ {0}
\* What is recorded already stays.
Claimed(f, s, i) == [x \in DOMAIN f \union s |-> IF x \in DOMAIN f THEN f[x] ELSE i]

claimRootsOnly(st) ==
  LET walked == Each(LAMBDA f, i : Claimed(f, Graph(st.nodes, i, st.vx), i), st.loc.owners, st.order)
      homes == Each(LAMBDA f, i : Claimed(f, {PageOf(a) : a \in Graph(st.nodes, i, st.vx)}, i),
                    st.loc.pages, st.order)
  IN IF st.loc.claimed THEN st
     ELSE [st EXCEPT !.loc.owners = walked, !.loc.pages = homes, !.loc.known = TRUE, !.loc.claimed = TRUE]

claim(st) ==
  LET listed == Each(LAMBDA f, i : Claimed(f, FreeChain(st.pages, st.vx[i].free), i),
                         st.loc.pages, st.order)
      walked == Each(LAMBDA f, i : Claimed(f, Graph(st.nodes, i, st.vx), i), st.loc.owners, st.order)
      homes == Each(LAMBDA f, i : Claimed(f, {PageOf(a) : a \in Graph(st.nodes, i, st.vx)}, i),
                        listed, st.order)
  IN IF st.loc.claimed THEN st
     ELSE [st EXCEPT !.loc.owners = walked, !.loc.pages = homes, !.loc.known = TRUE, !.loc.claimed = TRUE]

mine(l, a, i) ==
  IF a \in DOMAIN l.owners THEN l.owners[a] = i
  ELSE PageOf(a) \notin DOMAIN l.pages \/ l.pages[PageOf(a)] = i

Targets(st, i, d) ==
  LET s == Scanned(st)
      c == claim(s)
      found == s.loc.nodes[d]
  IN IF found = <<>> \/ (Len(found) = 1 /\ ~Shared(st)) THEN [st |-> s, addrs |-> found]
     ELSE [st |-> c, addrs |-> SelectSeq(found, LAMBDA a : mine(c.loc, a, i))]

AddedUnclaimed(l, i, d, a) ==
  LET k == Cardinality({n \in DOMAIN l.nodes[d] : l.nodes[d][n] < a}) + 1
  IN IF l.scanned THEN [l EXCEPT !.nodes[d] = InsertAt(@, k, a)] ELSE l

Added(l, i, d, a) ==
  LET k == Cardinality({n \in DOMAIN l.nodes[d] : l.nodes[d][n] < a}) + 1
      s == [l EXCEPT !.known = TRUE, !.owners = With(@, a, i), !.pages = With(@, PageOf(a), i)]
  IN IF l.scanned THEN [s EXCEPT !.nodes[d] = InsertAt(@, k, a)] ELSE s
Dropped(l, d, a) ==
  [l EXCEPT !.owners = Without(@, a), !.nodes[d] = SelectSeq(@, LAMBDA b : b # a)]
ownPage(l, p, deleted, on, i) ==
  IF ~l.known THEN l
  ELSE IF deleted THEN [l EXCEPT !.pages = Without(@, p)]
  ELSE IF on THEN [l EXCEPT !.pages = With(@, p, i)] ELSE l

\* The index whose list a page is put on.
listOwner(st, p, i) ==
  IF p \in DOMAIN st.loc.pages /\ \E n \in DOMAIN st.order : st.order[n] = st.loc.pages[p]
  THEN st.loc.pages[p] ELSE i

-----------------------------------------------------------------------------
(* Nodes and pages.                                                        *)

On(g, p) == {a \in DOMAIN g : PageOf(a) = p}
FreeBytes(g, p) == PageCap - MapThenSumSet(LAMBDA a : Size[g[a].ix], On(g, p))
Synced(st, i, p) ==
  LET r == SyncIndexFreeList([pages |-> st.pages, free |-> st.vx[i].free], p,
                             On(st.nodes, p) = {}, FreeBytes(st.nodes, p) >= KeepAt)
  IN [st EXCEPT !.pages = r.pages, !.vx[i].free = r.free]

NewPage(st) == Min({p \in Pages : On(st.nodes, p) = {}})
GetFreeVectorPage(st, i) ==
  LET p == st.vx[i].free
  IN IF p = 0 \/ FreeBytes(st.nodes, p) < Size[i] THEN NewPage(st) ELSE p

SetNeighbors(g, a, level, addrs) ==
  [g EXCEPT ![a].nb[level] =
     SubSeq(addrs, 1, IF Len(addrs) < MaxNeighbors THEN Len(addrs) ELSE MaxNeighbors)]
RemoveNeighbor(g, a, level, target) ==
  [g EXCEPT ![a].nb[level] = SelectSeq(@, LAMBDA b : b # target)]
Member(x, s) == \E n \in DOMAIN s : s[n] = x

\* A neighbour list has no address twice and none of the node itself.
prune(g, source, addrs) ==
  LET scored == [n \in DOMAIN addrs |-> Candidate(g, addrs[n], g[source].vec)]
      kept == selectNeighbors(scored, MaxNeighbors)
  IN [n \in DOMAIN kept |-> kept[n].addr]

ensureBidirectionalOneSided(g, source, target, level) ==
  LET before == g[source].nb[level]
  IN SetNeighbors(g, source, level,
       prune(g, source, IF Member(target, before) THEN before ELSE Append(before, target)))

\* The node that is pushed out by the new neighbour drops its edge as well.
ensureBidirectional(g, source, target, level) ==
  LET before == g[source].nb[level]
      pruned == prune(g, source, IF Member(target, before) THEN before ELSE Append(before, target))
      out == SelectSeq(before, LAMBDA b : ~Member(b, pruned))
  IN Each(LAMBDA h, old : RemoveNeighbor(h, old, level, source),
              SetNeighbors(g, source, level, pruned), out)

\* One candidate of the new node: an edge that was not taken is dropped again.
Connected(g, a, b, level) ==
  LET h == ensureBidirectional(g, b, a, level)
  IN IF Member(a, h[b].nb[level]) THEN h ELSE RemoveNeighbor(h, a, level, b)

\* One level; s is [g, cur].
LinkLevel(s, a, v, level) ==
  LET cands == SelectSeq(searchLayer(s.g, v, s.cur, level, MaxNeighbors, Ef), LAMBDA c : c.addr # a)
      addrs == [n \in DOMAIN cands |-> cands[n].addr]
  IN [g |-> Each(LAMBDA h, b : Connected(h, a, b, level), SetNeighbors(s.g, a, level, addrs), addrs),
      cur |-> IF addrs = <<>> THEN s.cur ELSE addrs[1]]

\* A node higher than the root becomes the root.
link(st, i, a, v, levels) ==
  LET entry == st.vx[i].root
      entryTop == st.nodes[entry].levels - 1
      newTop == levels - 1
      cur == Descended(st.nodes, v, entry, entryTop, newTop)
      top == IF entryTop < newTop THEN entryTop ELSE newTop
      f[n \in Nat] == IF n = 0 THEN [g |-> st.nodes, cur |-> cur]
                      ELSE LET s == f[n - 1] IN LinkLevel(s, a, v, top - n + 1)
  IN [st EXCEPT !.nodes = f[top + 1].g, !.vx[i].root = IF newTop > entryTop THEN a ELSE entry]

insert(st, i, d, v, levels) ==
  LET p == GetFreeVectorPage(st, i)
      a == Min(Addresses(p) \ DOMAIN st.nodes)
      ext == IF i \in Inline THEN 0 ELSE Min((1..(Cardinality(st.external) + 1)) \ st.external)
      node == [block |-> d, vec |-> v, levels |-> levels, nb |-> [l \in Levels |-> <<>>],
               ext |-> ext, ix |-> i]
      placed == Synced([st EXCEPT !.nodes = With(@, a, node), !.loc = Added(@, i, d, a),
                                  !.external = @ \union ({ext} \ {0})], i, p)
  IN IF st.vx[i].root = Nil THEN [placed EXCEPT !.vx[i].root = a] ELSE link(placed, i, a, v, levels)

release(st, i, a) ==
  LET p == PageOf(a)
      n == st.nodes[a]
      gone == [st EXCEPT !.nodes = Without(@, a), !.external = @ \ {n.ext}, !.loc = Dropped(@, n.block, a)]
      own == listOwner(gone, p, i)
      s == Synced(gone, own, p)
  IN [s EXCEPT !.loc = ownPage(@, p, On(s.nodes, p) = {}, s.pages[p].on, own)]

selectNewRootFirst(g, removed, start) == start

\* The highest node that can be walked to from start, the nearest to it of
\* several: breadth first, from the lowest level up.
selectNewRoot(g, removed, start) ==
  LET queue(a) == SelectSeq(FlattenSeq([k \in 1..g[a].levels |-> g[a].nb[k - 1]]), LAMBDA b : b # removed)
      f[n \in Nat] == IF n = 0 THEN [todo |-> <<start>>, seen |-> <<>>]
                      ELSE LET s == f[n - 1]
                               a == s.todo[1]
                           IN IF s.todo = <<>> THEN s
                              ELSE IF Member(a, s.seen) THEN [s EXCEPT !.todo = Tail(@)]
                              ELSE [todo |-> Tail(s.todo) \o queue(a), seen |-> Append(s.seen, a)]
      walked == f[(MaxLevels * MaxNeighbors + 1) * Cardinality(DOMAIN g)].seen
      best == {n \in DOMAIN walked : \A m \in DOMAIN walked : g[walked[m]].levels <= g[walked[n]].levels}
  IN IF start = Nil THEN Nil ELSE walked[Min(best)]

removeNode(st, i, a) ==
  LET n == st.nodes[a]
      linked == {l \in Levels : n.nb[l] # <<>>}
      start == IF linked = {} THEN Nil ELSE n.nb[Min(linked)][1]
      Level(g, l) == Each(LAMBDA h, b : RemoveNeighbor(h, b, l, a), g, n.nb[l])
      g == Each(LAMBDA h, k : Level(h, k - 1), st.nodes, [k \in 1..n.levels |-> k])
      cut == [st EXCEPT !.nodes = g]
      root == IF st.vx[i].root = a THEN selectNewRoot(g, a, start) ELSE st.vx[i].root
  IN release([cut EXCEPT !.vx[i].root = root], i, a)

remove(st, i, d) ==
  LET t == Targets(st, i, d)
  IN Each(LAMBDA s, a : removeNode(s, i, a), t.st, t.addrs)

Upsert(st, i, d, v, levels) ==
  LET out == remove(st, i, d)
  IN IF v = None THEN out ELSE insert(out, i, d, v, levels)

-----------------------------------------------------------------------------
(* Search: from the root down to level 1, then broadly at level 0.         *)

Search(i, v, limit) ==
  LET root == vx[i].root
      cur == Descended(nodes, v, root, nodes[root].levels - 1, 0)
      hits == searchLayer(nodes, v, cur, 0, Ef, Ef)
  IN IF root = Nil THEN <<>> ELSE SubSeq(hits, 1, IF Len(hits) < limit THEN Len(hits) ELSE limit)

-----------------------------------------------------------------------------
(* The engine.                                                             *)

Room(n) == Cardinality({p \in Pages : On(nodes, p) = {}}) >= n
Call == ops < MaxOps /\ ops' = ops + 1

\* The next call uses a locator of its own.
NewBatch == /\ loc # NoLocator
            /\ loc' = NoLocator
            /\ UNCHANGED <<nodes, pages, vx, order, external, docs, ops>>

\* insertDocument, updateDocument: putVectors.
Put(d, v, h) ==
  /\ Call /\ Room(Len(order))
  /\ docs' = [docs EXCEPT ![d] = v]
  /\ \E out \in {Each(LAMBDA s, i : Upsert(s, i, d, v[i], h[i]), St, order)} : Becomes(out)

\* DeleteIn: dropVectors.
Delete(d) ==
  /\ Call /\ docs[d] # Absent
  /\ docs' = [docs EXCEPT ![d] = Absent]
  /\ \E out \in {Each(LAMBDA s, i : remove(s, i, d), St, order)} : Becomes(out)

\* EnsureVectorIndexIn, backfillVector: a locator for all documents.
Holders(i) == InOrder({d \in Docs : docs[d] # Absent /\ docs[d][i] # None})
EnsureVectorIndex(i, h) ==
  /\ Call /\ ~Member(i, order)
  /\ \E held \in {Holders(i)} :
       /\ Room(Len(held))
       /\ \E fresh \in {[St EXCEPT !.order = Append(@, i), !.vx[i] = [root |-> Nil, free |-> 0],
                                   !.loc = NoLocator]} :
          \E out \in {Each(LAMBDA s, d : Upsert(s, i, d, docs[d][i], h[i]), fresh, held)} :
            Becomes([out EXCEPT !.loc = NoLocator])
  /\ UNCHANGED docs

\* dropIndexIn: the last index goes with all vector pages there are
\* (DiscardVectorPages), any other takes its own nodes out (Drop).
Emptied(i) ==
  LET c == claim([St EXCEPT !.loc = NoLocator])
      own == SelectSeq(InOrder(DOMAIN nodes), LAMBDA a : mine(c.loc, a, i))
  IN IF Shared(St) THEN Each(LAMBDA s, a : release(s, i, a), c, own)
     ELSE [St EXCEPT !.nodes = [a \in {} |-> None], !.pages = [p \in Pages |-> NoPage]]
DropIndex(i) ==
  /\ Call /\ Member(i, order)
  /\ \E out \in {[Emptied(i) EXCEPT !.order = SelectSeq(order, LAMBDA j : j # i), !.loc = NoLocator,
                                      !.vx[i] = [root |-> Nil, free |-> 0]]} : Becomes(out)
  /\ UNCHANGED docs

Next ==
  \/ NewBatch
  \/ \E d \in Docs : \E v \in Given[d], h \in Heights : Put(d, v, h)
  \/ \E d \in Docs : Delete(d)
  \/ \E i \in Indexes, h \in Heights : EnsureVectorIndex(i, h)
  \/ \E i \in Droppable : DropIndex(i)

Spec == Init /\ [][Next]_vars
-----------------------------------------------------------------------------
Live == {order[n] : n \in DOMAIN order}
Graphs(i) == Graph(nodes, i, vx)

\* No edge leads out without leading back, to another index, to the node itself
\* or to a node that is gone, at any level; no node has an edge twice
\* (vector.go:259: a one-way edge that was not taken back would stay).
EdgesGoBothWays ==
  \A a \in DOMAIN nodes : \A l \in Levels :
    LET s == nodes[a].nb[l]
    IN /\ \A n \in DOMAIN s : /\ s[n] \in DOMAIN nodes /\ s[n] # a
                              /\ Member(a, nodes[s[n]].nb[l])
                              /\ nodes[s[n]].ix = nodes[a].ix
                              /\ l < nodes[s[n]].levels
       /\ Cardinality({s[n] : n \in DOMAIN s}) = Len(s)
       /\ (s # <<>> => l < nodes[a].levels)

\* A search starts at a node of its index, the highest of those it can reach:
\* what is above the top of the root is never looked at (link, selectNewRoot).
RootIsHighest ==
  \A i \in Live : vx[i].root # Nil =>
    /\ vx[i].root \in DOMAIN nodes /\ nodes[vx[i].root].ix = i
    /\ \A a \in Graphs(i) : nodes[a].levels <= nodes[vx[i].root].levels

\* What a search can reach is in step with the documents: one node per
\* document, with the vector it has now.  And no node, reachable or not, is left
\* of a document that was deleted, whose address the next one may get.
SearchIsTrue ==
  /\ \A i \in Live : \A a \in Graphs(i) :
       /\ docs[nodes[a].block] # Absent /\ nodes[a].vec = docs[nodes[a].block][i]
       /\ \A b \in Graphs(i) : nodes[a].block = nodes[b].block => a = b
  /\ \A a \in DOMAIN nodes : docs[nodes[a].block] # Absent

\* While an index has no more nodes than a node may have neighbours and one,
\* every vector is found by a search for itself, and hits come nearest first.
EveryVectorIsFound ==
  Cardinality(Docs) <= MaxNeighbors + 1 =>
    \A i \in Live : \A d \in Docs : docs[d] # Absent /\ docs[d][i] # None =>
      LET hits == Search(i, docs[d][i], Cardinality(Docs))
      IN /\ \E n \in DOMAIN hits : nodes[hits[n].addr].block = d
         /\ \A m, n \in DOMAIN hits : m < n => hits[m].dist <= hits[n].dist

\* A page is of one index: none holds nodes of one index that a search reaches and
\* is on the list of another.  Every page with room is on exactly one list.
PagesHaveOneOwner ==
  LET chain == [i \in Indexes |-> FreeChain(pages, vx[i].free)]
      home == [i \in Indexes |-> chain[i] \union {PageOf(a) : a \in Graphs(i)}]
  IN /\ \A i, j \in Live : i # j => home[i] \intersect home[j] = {}
     /\ UNION {chain[i] : i \in Live} = {p \in Pages : pages[p].on}
     /\ \A p \in Pages : pages[p].on <=> On(nodes, p) # {} /\ FreeBytes(nodes, p) >= KeepAt
     /\ (order = <<>> => DOMAIN nodes = {})

\* The locator finds what a scan would find, in its order, and never takes a
\* node for one of another index.
LocatorAgrees ==
  /\ loc.scanned => \A d \in Docs : loc.nodes[d] = ScanOf(nodes, d)
  /\ \A a \in DOMAIN loc.owners : a \in DOMAIN nodes /\ nodes[a].ix = loc.owners[a]
  /\ loc.claimed => \A i \in Live : Graphs(i) \subseteq DOMAIN loc.owners
  /\ \A p \in DOMAIN loc.pages : \A i \in Live :
       (p \in FreeChain(pages, vx[i].free) \union {PageOf(a) : a \in Graphs(i)}) => loc.pages[p] = i

\* A vector too long for its node is stored once, and goes with its node.  It does
\* not go with the last vector index, or with the collection: see the README.
VectorsAreAccounted ==
  /\ \A a, b \in DOMAIN nodes : nodes[a].ext # 0 => nodes[a].ext \in external /\
                                                    (nodes[b].ext = nodes[a].ext => a = b)
  /\ Droppable \subseteq Inline => external = {nodes[a].ext : a \in DOMAIN nodes} \ {0}
=============================================================================
