------------------------------- MODULE SkipList -------------------------------
(***************************************************************************)
(* The skip lists of a collection and the chains that tie the nodes of one *)
(* document together across its indexes (src/internal/xstore/index.go,     *)
(* src/internal/xpage/indexnode.go), with the list of index pages that     *)
(* still have room (pagelist.go).  Operators of what each call leaves; the *)
(* engine that calls them is IndexSync, which has the actions.             *)
(***************************************************************************)
EXTENDS Naturals, FiniteSets, FiniteSetsExt, PageList

CONSTANTS Docs,      \* documents, numbers; the _id of each is the document itself
          Keys,      \* keys of the second index, positive numbers
          Rank,      \* [Keys -> Nat]: where the collation puts a key; equal for 'A' and 'a'
          MaxLevel,  \* levels of a sentinel
          PageIDs,   \* numbers of the pages there are
          PageCap,   \* nodes one index page has room for
          SecUnique, \* whether the second index is unique
          MaxNodes   \* bound: nodes at any time

VARIABLES nodes,   \* address -> node, of the nodes there are
          ix,      \* "pk", "sec" -> [head, tail, free], the entry in the collection page
          pages    \* PageIDs -> [ix, on, prev, nxt]: index pages and their list

listVars == <<nodes, ix, pages>>

Nil == <<0, 0>>
Indexes == {"pk", "sec"}
Unique(x) == x = "pk" \/ SecUnique
Levels == 0..(MaxLevel - 1)
MinValue == 0
MaxValue == Max(Keys \union Docs) + 1
Pos(x, key) == IF x = "pk" \/ key \in {MinValue, MaxValue} THEN key ELSE Rank[key]
NewNode(x, key, levels) ==
  [ix |-> x, key |-> key, levels |-> levels, doc |-> 0, nextNode |-> Nil,
   prev |-> [l \in Levels |-> Nil], next |-> [l \in Levels |-> Nil]]
NoPage == [ix |-> "none", on |-> FALSE, prev |-> 0, nxt |-> 0]

With(f, x, v) == [y \in DOMAIN f \union {x} |-> IF y = x THEN v ELSE f[y]]
Without(f, x) == [y \in DOMAIN f \ {x} |-> f[y]]

\* CreateIndex: the sentinels share a page and are linked at level 0 only.
Sentinels(x, p) ==
  <<[NewNode(x, MinValue, MaxLevel) EXCEPT !.next[0] = <<p, 2>>],
    [NewNode(x, MaxValue, MaxLevel) EXCEPT !.prev[0] = <<p, 1>>]>>
ListInit ==
  /\ nodes = [a \in {1, 2} \X {1, 2} |-> Sentinels(IF a[1] = 1 THEN "pk" ELSE "sec", a[1])[a[2]]]
  /\ ix = [x \in Indexes |-> LET p == IF x = "pk" THEN 1 ELSE 2
                             IN [head |-> <<p, 1>>, tail |-> <<p, 2>>, free |-> p]]
  /\ pages = [p \in PageIDs |-> IF p = 1 THEN [NoPage EXCEPT !.ix = "pk", !.on = TRUE]
                                ELSE IF p = 2 THEN [NoPage EXCEPT !.ix = "sec", !.on = TRUE]
                                ELSE NoPage]

-----------------------------------------------------------------------------
(* The list of index pages.  st is [nodes, pages, free].                   *)

Count(st, p) == Cardinality({a \in DOMAIN st.nodes : a[1] = p})
Keeps(st, p) == Count(st, p) < PageCap
SyncList(st, p) ==
  LET r == SyncIndexFreeList(st, p, Count(st, p) = 0, Keeps(st, p))
  IN IF Count(st, p) = 0 THEN [r EXCEPT !.pages[p] = NoPage] ELSE r

\* What a call on index x starts from, and what it leaves.
St(x) == [nodes |-> nodes, pages |-> pages, free |-> ix[x].free]
Becomes(x, st) ==
  /\ nodes' = st.nodes /\ pages' = st.pages
  /\ ix' = [ix EXCEPT ![x].free = st.free]

-----------------------------------------------------------------------------
(* Finding the way                                                         *)

\* linkNode: the last node at a level, from a starting point, whose key is
\* not larger; equal keys are passed, a new one comes after them.
Walk(x, from, level, key) ==
  LET w[n \in Nat] ==
        IF n = 0 THEN from
        ELSE LET at == w[n - 1]
                 r == nodes[at].next[level]
             IN IF r \in {Nil, ix[x].tail} \/ Pos(x, nodes[r].key) > Pos(x, key) THEN at ELSE r
  IN w[Cardinality(DOMAIN nodes)]
Lefts(x, key) ==
  LET f[l \in 0..MaxLevel] ==
        IF l = MaxLevel THEN ix[x].head
        ELSE LET from == f[l + 1] IN Walk(x, from, l, key)
  IN [l \in Levels |-> f[l]]
DuplicateAbove(x, key) == Unique(x) /\ Pos(x, nodes[Lefts(x, key)[MaxLevel - 1]].key) = Pos(x, key)
Duplicate(x, key) ==
  Unique(x) /\ \E l \in Levels : Pos(x, nodes[Lefts(x, key)[l]].key) = Pos(x, key)

\* Find: one step of the search, where "right" is the neighbour in the
\* direction asked for.  Going up, a node beyond the value ends the level.
Beyond(x, key, v, asc) == IF asc THEN Pos(x, key) > Pos(x, v) ELSE Pos(x, key) < Pos(x, v)
Start(x, asc) == [level |-> MaxLevel - 1, left |-> IF asc THEN ix[x].head ELSE ix[x].tail,
                  found |-> Nil, done |-> FALSE]
FindStep(x, s, v, sibling, asc) ==
  LET r == IF asc THEN nodes[s.left].next[s.level] ELSE nodes[s.left].prev[s.level]
      down == IF s.level = 0 THEN [s EXCEPT !.done = TRUE] ELSE [s EXCEPT !.level = @ - 1]
  IN IF s.done THEN s
     ELSE IF r = Nil THEN down
     ELSE IF Beyond(x, nodes[r].key, v, asc)
     THEN IF s.level = 0 /\ sibling
          THEN [s EXCEPT !.done = TRUE,
                         !.found = IF nodes[r].key \in {MinValue, MaxValue} THEN Nil ELSE r]
          ELSE down
     ELSE IF Pos(x, nodes[r].key) = Pos(x, v) THEN [s EXCEPT !.done = TRUE, !.found = r]
     ELSE [s EXCEPT !.left = r]
Find(x, v, sibling, asc) ==
  LET s[n \in Nat] == IF n = 0 THEN Start(x, asc) ELSE FindStep(x, s[n - 1], v, sibling, asc)
  IN s[MaxLevel + Cardinality(DOMAIN nodes)].found

-----------------------------------------------------------------------------
(* Changing it                                                             *)

\* linkNode, from the top level of the node down.
LinkLevel(ns, x, a, left, l) ==
  LET after == IF ns[left].next[l] = Nil THEN ix[x].tail ELSE ns[left].next[l]
  IN [[[ns EXCEPT ![a].next[l] = after, ![a].prev[l] = left]
        EXCEPT ![left].next[l] = a] EXCEPT ![after].prev[l] = a]
Link(ns, x, a, key) ==
  LET lefts == Lefts(x, key)
      f[l \in 0..MaxLevel] ==
        IF l = MaxLevel THEN ns
        ELSE LET above == f[l + 1]
             IN IF l >= ns[a].levels THEN above ELSE LinkLevel(above, x, a, lefts[l], l)
  IN f[0]

\* DeleteNode: a node that was never linked has no neighbours.
CutLevelForward(ns, a, l) ==
  IF ns[a].prev[l] = Nil THEN ns ELSE [ns EXCEPT ![ns[a].prev[l]].next[l] = ns[a].next[l]]
CutLevel(ns, a, l) ==
  LET p == ns[a].prev[l]
      n == ns[a].next[l]
      b == IF p = Nil THEN ns ELSE [ns EXCEPT ![p].next[l] = n]
  IN IF n = Nil THEN b ELSE [b EXCEPT ![n].prev[l] = p]
DeleteNode(st, a) ==
  LET f[l \in 0..MaxLevel] ==
        IF l = MaxLevel THEN st.nodes
        ELSE LET above == f[l + 1]
             IN IF l >= st.nodes[a].levels THEN above ELSE CutLevel(above, a, l)
  IN SyncList([st EXCEPT !.nodes = Without(f[0], a)], a[1])

\* getFreeIndexPage: the head of the list, or a new page.
FreeIndexPage(x) ==
  IF ix[x].free # 0 THEN ix[x].free ELSE Min({p \in PageIDs : pages[p] = NoPage})
HasRoom(x) == ix[x].free # 0 \/ \E p \in PageIDs : pages[p] = NoPage
FreeSlot(p) == Min({s \in 1..PageCap : <<p, s>> \notin DOMAIN nodes})

\* AddNode, what it leaves and where the node is.  A duplicate is noticed
\* while looking for the way, when the node is already in its page: it is
\* taken out again.
AddNode(x, key, levels, d, last) ==
  LET p == FreeIndexPage(x)
      a == <<p, FreeSlot(p)>>
      placed == [nodes |-> With(nodes, a, [NewNode(x, key, levels) EXCEPT !.doc = d]),
                 pages |-> [pages EXCEPT ![p].ix = x],
                 free |-> ix[x].free]
      linked == Link(placed.nodes, x, a, key)
      tied == IF last = Nil THEN linked ELSE [linked EXCEPT ![last].nextNode = a]
  IN IF Duplicate(x, key) THEN [st |-> DeleteNode(placed, a), addr |-> Nil]
     ELSE [st |-> SyncList([placed EXCEPT !.nodes = tied], p), addr |-> a]
MayAdd(x) == HasRoom(x) /\ Cardinality(DOMAIN nodes) < MaxNodes

\* The nodes of a document, in the order of their chain.
PkNodes(d) == {a \in DOMAIN nodes : nodes[a].ix = "pk" /\ nodes[a].doc = d}
Pk(d) == IF PkNodes(d) = {} THEN Nil ELSE CHOOSE a \in PkNodes(d) : TRUE
ChainOf(d) ==
  LET f[n \in Nat] ==
        IF n = 0 THEN Pk(d)
        ELSE LET a == f[n - 1] IN IF a \in DOMAIN nodes THEN nodes[a].nextNode ELSE Nil
  IN [n \in 0..Cardinality(DOMAIN nodes) |-> f[n]]
Chain(d) == {ChainOf(d)[n] : n \in DOMAIN ChainOf(d)} \ {Nil}

\* DocNodes.Delete walks the chain behind the first node; a node that goes
\* is bypassed by the last one that stays, which is also what it returns.
StaysBehindAny(prev, a, drop) == a
StaysBehind(prev, a, drop) == IF a \in drop THEN prev ELSE a
ChainDelete(d, drop) ==
  LET c == ChainOf(d)
      f[n \in 0..Cardinality(DOMAIN nodes)] ==
        IF n = 0 THEN [last |-> Pk(d), st |-> St("sec")]
        ELSE LET was == f[n - 1]
                 a == c[n]
                 past == [was.st EXCEPT !.nodes[was.last].nextNode = nodes[a].nextNode]
             IN IF a = Nil THEN was
                ELSE [last |-> StaysBehind(was.last, a, drop),
                      st |-> IF a \in drop THEN DeleteNode(past, a) ELSE was.st]
  IN f[Cardinality(DOMAIN nodes)]

\* DocNodes.DeleteAll: along the chain, each node out of its own index.
DeleteAll(d) ==
  LET c == ChainOf(d)
      f[n \in 0..Cardinality(DOMAIN nodes)] ==
        IF n = 0 THEN DeleteNode(St("pk"), c[0])
        ELSE IF c[n] = Nil THEN f[n - 1]
        ELSE DeleteNode([f[n - 1] EXCEPT !.free = IF n = 1 THEN ix["sec"].free ELSE @], c[n])
      all == f[Cardinality(DOMAIN nodes)]
  IN /\ nodes' = all.nodes /\ pages' = all.pages
     /\ ix' = [ix EXCEPT !["pk"].free = f[0].free,
                         !["sec"].free = IF c[1] = Nil THEN @ ELSE all.free]

-----------------------------------------------------------------------------
Of(x) == {a \in DOMAIN nodes : nodes[a].ix = x}
Real(x) == Of(x) \ {ix[x].head, ix[x].tail}

\* At every level the nodes that have it form one list from sentinel to
\* sentinel, in the order of their keys, readable in both directions
\* (linkNode, DeleteNode): no insertion or deletion at one level leaves a
\* pointer to what is gone, or skips what is there, at another.
LevelsLinked ==
  \A x \in Indexes, l \in Levels :
    LET at == {a \in Of(x) : nodes[a].levels > l}
        tied == l = 0 \/ nodes[ix[x].head].next[l] # Nil
    IN /\ tied => \A a \in at \ {ix[x].tail} :
                    /\ nodes[a].next[l] \in at
                    /\ nodes[nodes[a].next[l]].prev[l] = a
                    /\ Pos(x, nodes[a].key) <= Pos(x, nodes[nodes[a].next[l]].key)
       /\ tied => \A a, b \in at \ {ix[x].tail} : nodes[a].next[l] = nodes[b].next[l] => a = b
       /\ ~tied => at = {ix[x].head, ix[x].tail}

\* A search, in either direction, finds a node with the key if there is one,
\* and otherwise the nearest beyond it when a neighbour is asked for (Find).
\* A unique index never holds a key twice.
Nearest(x, v, asc) == {a \in Real(x) :
  /\ Beyond(x, nodes[a].key, v, asc)
  /\ \A b \in Real(x) : Beyond(x, nodes[b].key, v, asc) => ~Beyond(x, nodes[a].key, nodes[b].key, asc)}
FindsWhatIsThere ==
  \A x \in Indexes, asc \in BOOLEAN : \A v \in IF x = "pk" THEN Docs ELSE Keys :
    LET equal == {a \in Real(x) : Pos(x, nodes[a].key) = Pos(x, v)}
        near == Nearest(x, v, asc)
    IN /\ Unique(x) => Cardinality(equal) <= 1
       /\ IF equal # {} THEN Find(x, v, FALSE, asc) \in equal /\ Find(x, v, TRUE, asc) \in equal
          ELSE /\ Find(x, v, FALSE, asc) = Nil
               /\ IF near = {} THEN Find(x, v, TRUE, asc) = Nil ELSE Find(x, v, TRUE, asc) \in near

\* An index page is on the list of its index exactly when it has room for
\* another node, belongs to one index, and goes back when it is empty
\* (syncIndexFreeList): AddNode never finds a full page at the head.
IndexPagesListed ==
  \A p \in PageIDs :
    LET r == pages[p]
        n == Cardinality({a \in DOMAIN nodes : a[1] = p})
    IN /\ (r = NoPage) = (n = 0)
       /\ \A a \in DOMAIN nodes : a[1] = p => nodes[a].ix = r.ix
       /\ n > 0 => r.on = (n < PageCap)
       /\ \A x \in Indexes : ix[x].free = p => r.on /\ r.ix = x /\ r.prev = 0
       /\ r.on => IF r.prev = 0 THEN ix[r.ix].free = p ELSE pages[r.prev].nxt = p
       /\ r.nxt # 0 => pages[r.nxt].prev = p
=============================================================================
