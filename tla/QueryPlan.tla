----------------------------- MODULE QueryPlan -----------------------------
(***************************************************************************)
(* Queries (src/internal/xquery): the optimizer drops one condition of the *)
(* WHERE by walking an index instead, drops a sort the index already gives *)
(* and a read the index key already answers; what comes out has to be what *)
(* scanning, filtering, sorting and cutting would have given.              *)
(*                                                                         *)
(* Values are numbers in the order of the collation; those in Strings are  *)
(* texts, Prefix, HasPrefix and Matches say what LIKE makes of them.  A    *)
(* document is [a, tags]; its _id is its place in docs.                    *)
(***************************************************************************)
EXTENDS Integers, Sequences, FiniteSets, SequencesExt, FiniteSetsExt

CONSTANTS Collections,   \* what the collection may hold: sequences of documents
          IndexSets,     \* its secondary indexes: sets of [on, unique]
          Wheres,        \* the WHEREs asked: sequences of terms
          Shapes,        \* the rest: [order, group, proj, offset, limit]
          Strings, NoPrefix, Prefix, HasPrefix, Matches,
          Sources,       \* subset of BOOLEAN: TRUE is a system collection
          VirtualGroups  \* whether groups of a system collection are asked for

VARIABLES docs, indexes, virtual,
          query,
          plan,    \* Plan
          hits,    \* what the index led to: keys with their documents
          answer, failed,
          phase    \* "start", "asked", "planned", "walked", "answered"

vars == <<docs, indexes, virtual, query, plan, hits, answer, failed, phase>>

MinKey == -99
MaxKey == 99
Ascending == 1
Descending == -1

Value(d, path) == IF path = "id" THEN d ELSE docs[d].a
KeysOf(d, path) == IF path = "tags" THEN Range(docs[d].tags) ELSE {Value(d, path)}
Unique(path) == path = "id" \/ [on |-> path, unique |-> TRUE] \in indexes

\* The bottom level of an index: its keys in order, each with its document.
Chain(path) ==
  LET nodes == UNION {{[key |-> k, doc |-> d] : k \in KeysOf(d, path)} : d \in DOMAIN docs}
      upTo(x) == {y \in nodes : y.key < x.key \/ (y.key = x.key /\ y.doc <= x.doc)}
  IN [i \in 1..Cardinality(nodes) |-> CHOOSE x \in nodes : Cardinality(upTo(x)) = i]

-----------------------------------------------------------------------------
(* What a condition says of a document.  side is where the constant        *)
(* stands: right or left of the operator, or a sequence left of an ANY.    *)

Like(text, pattern) == text \in Strings /\ pattern \in Strings /\ <<text, pattern>> \in Matches

apply(op, left, right) ==
  CASE op = "eq"   -> left = right[1]
    [] op = "ne"   -> left # right[1]
    [] op = "gt"   -> left > right[1]
    [] op = "gte"  -> left >= right[1]
    [] op = "lt"   -> left < right[1]
    [] op = "lte"  -> left <= right[1]
    [] op = "between" -> right[1] <= left /\ left <= right[2]
    [] op = "in"   -> left \in Range(right)
    [] op = "like" -> Like(left, right[1])

quantified(t, d) ==
  IF t.all THEN \A v \in Range(docs[d].tags) : apply(t.op, v, t.arg)
           ELSE \E v \in Range(docs[d].tags) : apply(t.op, v, t.arg)

evalTerm(t, d) ==
  CASE t.path = "tags"  -> quantified(t, d)
    [] t.side = "each"  -> \E v \in Range(t.arg) : apply(t.op, v, <<Value(d, t.path)>>)
    [] t.side = "left"  -> apply(t.op, t.arg[1], <<Value(d, t.path)>>)
    [] t.side = "right" -> apply(t.op, Value(d, t.path), t.arg)

evalBinary(t, d) ==
  IF t.op = "or" THEN evalTerm(t.either[1], d) \/ evalTerm(t.either[2], d) ELSE evalTerm(t, d)

-----------------------------------------------------------------------------
(* Choosing how to reach the documents.                                    *)

\* One of several values equal to a field: the field is IN them.
rewriteTerms(terms) ==
  [i \in DOMAIN terms |->
     IF terms[i].op = "eq" /\ terms[i].side = "each"
     THEN [terms[i] EXCEPT !.op = "in", !.side = "right"] ELSE terms[i]]

TermPaths(t) == IF t.op = "or" THEN {t.either[1].path, t.either[2].path} ELSE {t.path}

\* {} stands for the whole document.
defineFields(q) ==
  IF q.proj = "all" THEN {}
  ELSE UNION {TermPaths(q.where[i]) : i \in DOMAIN q.where} \cup {q.proj}
       \cup {q.order[i].by : i \in DOMAIN q.order}
       \cup (IF q.group THEN {"a"} ELSE {})

flipComparison(op) ==
  CASE op = "gt" -> "lt" [] op = "gte" -> "lte" [] op = "lt" -> "gt" [] op = "lte" -> "gte" [] OTHER -> op

InOrder(S) == [i \in 1..Cardinality(S) |-> CHOOSE n \in S : Cardinality({m \in S : m <= n}) = i]

dedupValues(vals) ==
  LET first == InOrder({i \in DOMAIN vals : \A j \in 1..(i - 1) : vals[j] # vals[i]})
  IN [i \in DOMAIN first |-> vals[first[i]]]

NoOp == [kind |-> "none"]
createIndexOp(op, arg) ==
  LET range(lo, hi, loEq, hiEq) ==
        [kind |-> "range", lo |-> lo, hi |-> hi, loEq |-> loEq, hiEq |-> hiEq, ord |-> Ascending]
  IN CASE op = "eq"  -> [kind |-> "equals", value |-> arg[1]]
       [] op = "gt"  -> range(arg[1], MaxKey, FALSE, TRUE)
       [] op = "gte" -> range(arg[1], MaxKey, TRUE, TRUE)
       [] op = "lt"  -> range(MinKey, arg[1], TRUE, FALSE)
       [] op = "lte" -> range(MinKey, arg[1], TRUE, TRUE)
       [] op = "between" -> range(arg[1], arg[2], TRUE, TRUE)
       [] op = "ne"  -> [kind |-> "scan", value |-> arg[1], ord |-> Ascending]
       [] op = "in"  -> [kind |-> "in", values |-> dedupValues(arg)]
       [] op = "like" -> IF arg[1] \in Strings THEN [kind |-> "like", pattern |-> arg[1], ord |-> Ascending]
                                               ELSE NoOp

cost(op, unique) ==
  LET equals == IF unique THEN 1 ELSE 10
  IN CASE op.kind = "equals" -> equals
       [] op.kind = "in"     -> Len(op.values) * equals
       [] op.kind = "range"  -> 20
       [] op.kind = "scan"   -> 80
       [] op.kind = "like"   -> IF Prefix[op.pattern] # NoPrefix THEN 10 ELSE 100
       [] op.kind = "all"    -> 100

\* The secondary indexes and _id.
Indexed(path) == path = "id" \/ \E ix \in indexes : ix.on = path

Serves(t) ==
  /\ t.op # "or"
  /\ Indexed(t.path)
  /\ t.path = "tags" => ~t.all
  /\ t.side # "each"

\* The condition at place i as a walk of an index; term 0 is none.
candidateFor(t, i) ==
  LET op == createIndexOp(IF t.side = "left" THEN flipComparison(t.op) ELSE t.op, t.arg)
  IN [op |-> op, path |-> t.path, term |-> i]

FullScan(path) == [op |-> [kind |-> "all", ord |-> Ascending], path |-> path, term |-> 0]

\* The cheapest condition, the first of equals; else an index on the group
\* key, on the first sort key or on the only field; else _id from end to end.
chooseIndex(q, terms, fields) ==
  LET candidates == {c \in {candidateFor(terms[i], i) : i \in {j \in DOMAIN terms : Serves(terms[j])}} :
                       c.op # NoOp}
      price(c) == cost(c.op, Unique(c.path))
      wanted == (IF q.group THEN <<"a">> ELSE <<>>)
                \o (IF q.order # <<>> /\ ~q.group THEN <<q.order[1].by>> ELSE <<>>)
                \o (IF Cardinality(fields) = 1 THEN <<CHOOSE f \in fields : TRUE>> ELSE <<>>)
      there == {i \in DOMAIN wanted : Indexed(wanted[i])}
  IN IF candidates # {}
     THEN CHOOSE c \in candidates :
            \A d \in candidates : price(c) < price(d) \/ (price(c) = price(d) /\ c.term <= d.term)
     ELSE IF there # {} THEN FullScan(wanted[Min(there)])
     ELSE FullScan("id")

keyOrdered(op) ==
  CASE op.kind = "in"   -> FALSE
    [] op.kind = "like" -> Prefix[op.pattern] = NoPrefix
    [] OTHER            -> op.kind # "virtual"

setOrder(op, ord) == IF "ord" \in DOMAIN op THEN [op EXCEPT !.ord = ord] ELSE op

\* The part of the sort the index does not do.
LeftToSortNone(q, ordered) == IF ordered THEN <<>> ELSE q.order
LeftToSort(q, ordered) == IF ordered /\ Len(q.order) = 1 THEN <<>> ELSE q.order

\* The index key answers all that is asked of the document.
IndexKeyOnlyFirst(fields, path) == path \in fields
IndexKeyOnly(fields, path) == fields = {path}

optimize(q) ==
  LET terms == rewriteTerms(q.where)
      fields == defineFields(q)
      c == IF virtual THEN [op |-> [kind |-> "virtual"], path |-> "none", term |-> 0]
                      ELSE chooseIndex(q, terms, fields)
      sorted == ~q.group /\ q.order # <<>> /\ q.order[1].by = c.path /\ keyOrdered(c.op)
  IN [op |-> IF sorted THEN setOrder(c.op, q.order[1].dir) ELSE c.op,
      path |-> c.path,
      terms |-> terms,
      filters |-> DOMAIN terms \ {c.term},
      keyOnly |-> IndexKeyOnly(fields, c.path),
      order |-> LeftToSort(q, sorted),
      groupSort |-> ~(c.path = "a" /\ keyOrdered(c.op))]

-----------------------------------------------------------------------------
(* Walking an index: places of its chain, 0 when there is none.            *)

\* skipList.Find: which of several equal keys it lands on is up to the levels.
Find(chain, key, sibling, ord, land) ==
  LET equal == {i \in DOMAIN chain : chain[i].key = key}
      beyond == {i \in DOMAIN chain : ord * chain[i].key > ord * key}
  IN IF equal # {} THEN (IF land = "first" THEN Min(equal) ELSE Max(equal))
     ELSE IF sibling /\ beyond # {} THEN (IF ord = Ascending THEN Min(beyond) ELSE Max(beyond))
     ELSE 0

\* The places from i on, in the direction of ord.
scan(chain, i, ord) ==
  IF ord = Ascending THEN [k \in 1..(Len(chain) - i + 1) |-> i + k - 1]
                     ELSE [k \in 1..i |-> i - k + 1]
While(s, places) ==
  LET out == {k \in DOMAIN s : s[k] \notin places}
  IN IF out = {} THEN s ELSE SubSeq(s, 1, Min(out) - 1)
Among(s, places) == SelectSeq(s, LAMBDA j : j \in places)
End(chain, ord) == IF ord = Ascending THEN 1 ELSE Len(chain)

NeighboursAhead(chain, i, value) ==
  While(scan(chain, i + 1, Ascending), {j \in DOMAIN chain : chain[j].key = value})
\* Both neighbourhoods of the place it landed on, unless there can be but one.
Neighbours(chain, i, value) ==
  LET same == {j \in DOMAIN chain : chain[j].key = value}
  IN While(scan(chain, i + 1, Ascending), same) \o While(scan(chain, i - 1, Descending), same)
opEquals(chain, value, unique, land) ==
  LET i == Find(chain, value, FALSE, Ascending, land)
  IN IF i = 0 THEN <<>> ELSE <<i>> \o (IF unique THEN <<>> ELSE Neighbours(chain, i, value))

locate(chain, start, ord, land) ==
  IF start \in {MinKey, MaxKey} THEN End(chain, ord) ELSE Find(chain, start, TRUE, ord, land)

\* first is where it starts; equal keys before it are fetched by going back.
opRange(chain, start, end, startEq, endEq, ord, first) ==
  LET within == {j \in DOMAIN chain : (endEq /\ end \in {chain[j].key, MaxKey})
                                        \/ ord * chain[j].key < ord * end}
      atStart == {j \in DOMAIN chain : chain[j].key = start}
      back == While(scan(chain, first - ord, -ord), atStart)
      ahead == scan(chain, first, ord)
      equal == While(ahead, atStart)
  IN IF first = 0 THEN <<>>
     ELSE (IF startEq THEN Among(back \o equal, within) ELSE <<>>)
          \o While(SubSeq(ahead, Len(equal) + 1, Len(ahead)), within)

opLike(chain, op, first) ==
  LET prefix == Prefix[op.pattern]
      match == {j \in DOMAIN chain : Like(chain[j].key, op.pattern)}
      inside == {j \in DOMAIN chain : chain[j].key \in Strings /\ <<chain[j].key, prefix>> \in HasPrefix}
  IN IF prefix = NoPrefix THEN Among(scan(chain, End(chain, op.ord), op.ord), match)
     ELSE IF first = 0 THEN <<>>
     ELSE Among(While(scan(chain, first, -op.ord), inside)
                \o While(scan(chain, first + op.ord, op.ord), inside), match)

Ranged(chain, op, land) ==
  IF op.ord = Ascending
  THEN opRange(chain, op.lo, op.hi, op.loEq, op.hiEq, op.ord, locate(chain, op.lo, op.ord, land))
  ELSE opRange(chain, op.hi, op.lo, op.hiEq, op.loEq, op.ord, locate(chain, op.hi, op.ord, land))
execute(chain, op, unique, land) ==
  CASE op.kind = "all"    -> scan(chain, End(chain, op.ord), op.ord)
    [] op.kind = "scan"   -> Among(scan(chain, End(chain, op.ord), op.ord),
                                   {j \in DOMAIN chain : chain[j].key # op.value})
    [] op.kind = "equals" -> opEquals(chain, op.value, unique, land)
    [] op.kind = "in"     -> FlattenSeq([n \in DOMAIN op.values |-> opEquals(chain, op.values[n], unique, land)])
    [] op.kind = "range"  -> Ranged(chain, op, land)
    [] op.kind = "like"   -> opLike(chain, op, Find(chain, Prefix[op.pattern], TRUE, op.ord, land))

\* A document with several keys is taken at its first.
Once(found) ==
  LET kept == InOrder({n \in DOMAIN found : \A m \in 1..(n - 1) : found[m].doc # found[n].doc})
  IN [n \in DOMAIN kept |-> found[kept[n]]]
runIndex(op, chain, unique, land) ==
  LET places == execute(chain, op, unique, land)
  IN Once([n \in DOMAIN places |-> chain[places[n]]])
opVirtual == [n \in DOMAIN docs |-> [key |-> n, doc |-> n]]

-----------------------------------------------------------------------------
(* The pipeline.                                                           *)

\* The hits whose documents pass what is left of the WHERE.
filter ==
  LET kept == InOrder({n \in DOMAIN hits : \A i \in plan.filters : evalBinary(plan.terms[i], hits[n].doc)})
  IN [n \in DOMAIN kept |-> hits[kept[n]]]

skipTake(s, offset, limit) ==
  IF limit = 0 THEN <<>> ELSE SubSeq(s, offset + 1, Min({Len(s), offset + limit}))

SortKey(d, segs) == [i \in DOMAIN segs |-> segs[i].dir * Value(d, segs[i].by)]
Less(a, b) == \E i \in DOMAIN a : a[i] < b[i] /\ \A j \in 1..(i - 1) : a[j] = b[j]
Ranks(keys) ==
  LET upTo(n) == {m \in DOMAIN keys : Less(keys[m], keys[n]) \/ (keys[m] = keys[n] /\ m <= n)}
  IN [i \in DOMAIN keys |-> CHOOSE n \in DOMAIN keys : Cardinality(upTo(n)) = i]
\* The external sort: equal keys stay in the order they came.
sortBy(rows, segs) ==
  LET ranks == Ranks([n \in DOMAIN rows |-> SortKey(rows[n].doc, segs)])
  IN [n \in DOMAIN ranks |-> rows[ranks[n]]]

\* A row handed out: its document and what was projected from it.
Projected(r) ==
  [doc |-> r.doc, value |-> IF query.proj = "all" THEN r.doc
                            ELSE IF plan.keyOnly THEN r.key ELSE Value(r.doc, query.proj)]
runFlat(rows) ==
  LET page == skipTake(IF plan.order = <<>> THEN rows ELSE sortBy(rows, plan.order),
                       query.offset, query.limit)
  IN [n \in DOMAIN page |-> Projected(page[n])]

\* Only neighbours are put together.
groupBy(keys) ==
  LET place == InOrder({n \in DOMAIN keys : n = 1 \/ keys[n] # keys[n - 1]})
      end(g) == IF g = Len(place) THEN Len(keys) ELSE place[g + 1] - 1
  IN [g \in DOMAIN place |-> [key |-> keys[place[g]], count |-> end(g) - place[g] + 1]]

GroupKey(g, segs) == [i \in DOMAIN segs |-> segs[i].dir * (IF segs[i].by = "key" THEN g.key ELSE g.count)]

\* topGroups.push: a full heap gives up its last for one that is not after it.
after(x, y) == Less(y.keys, x.keys) \/ (x.keys = y.keys /\ x.rank > y.rank)
pushAlways(heap, item, keep) ==
  LET top == CHOOSE x \in heap : \A y \in heap : x = y \/ after(x, y)
  IN IF Cardinality(heap) < keep THEN heap \cup {item} ELSE (heap \ {top}) \cup {item}
push(heap, item, keep) ==
  LET top == CHOOSE x \in heap : \A y \in heap : x = y \/ after(x, y)
  IN IF Cardinality(heap) < keep THEN heap \cup {item}
     ELSE IF after(item, top) THEN heap
     ELSE (heap \ {top}) \cup {item}
topGroups(groups, keep, segs) ==
  LET ranked == [n \in DOMAIN groups |-> [group |-> groups[n], keys |-> GroupKey(groups[n], segs), rank |-> n]]
      heap == FoldLeft(LAMBDA h, x : push(h, x, keep), {}, ranked)
      upTo(x) == {y \in heap : ~after(y, x)}
  IN [n \in 1..Cardinality(heap) |-> (CHOOSE x \in heap : Cardinality(upTo(x)) = n).group]

\* Sorting reads the documents again by their addresses; those of a system
\* collection are kept for that only when the query has an ORDER BY.
Retained == query.order # <<>>
OutOfRange(rows) == virtual /\ plan.groupSort /\ ~Retained /\ rows # <<>>
runGrouped(rows) ==
  LET adjacent == IF plan.groupSort THEN sortBy(rows, <<[by |-> "a", dir |-> Ascending]>>) ELSE rows
      groups == groupBy([n \in DOMAIN adjacent |-> Value(adjacent[n].doc, "a")])
  IN IF query.limit = 0 THEN <<>>
     ELSE skipTake(IF query.order = <<>> THEN groups
                   ELSE topGroups(groups, query.offset + query.limit, query.order),
                   query.offset, query.limit)

countableAlways == ~query.group
countableFromIndex == ~query.group /\ plan.filters = {}
countHits == Len(skipTake(hits, query.offset, query.limit))
count == IF countableFromIndex THEN countHits ELSE Len(answer)

-----------------------------------------------------------------------------
NoQuery == [where |-> <<>>, order |-> <<>>, group |-> FALSE, proj |-> "none", offset |-> 0, limit |-> 0]
NoPlan == [op |-> NoOp, path |-> "none", terms |-> <<>>, filters |-> {}, keyOnly |-> FALSE,
           order |-> <<>>, groupSort |-> FALSE]

Init ==
  /\ docs \in Collections /\ indexes \in IndexSets
  /\ \A i \in DOMAIN docs, j \in DOMAIN docs :
       Unique("a") /\ docs[i].a = docs[j].a => i = j
  /\ virtual \in Sources
  /\ query = NoQuery /\ plan = NoPlan /\ hits = <<>> /\ answer = <<>> /\ failed = FALSE
  /\ phase = "start"

Ask(where, shape) ==
  /\ phase = "start" /\ phase' = "asked"
  /\ virtual /\ shape.group => VirtualGroups \/ shape.order # <<>>
  /\ query' = [where |-> where, order |-> shape.order, group |-> shape.group, proj |-> shape.proj,
               offset |-> shape.offset, limit |-> shape.limit]
  /\ UNCHANGED <<docs, indexes, virtual, plan, hits, answer, failed>>

Plan ==
  /\ phase = "asked" /\ phase' = "planned"
  /\ plan' = optimize(query)
  /\ UNCHANGED <<docs, indexes, virtual, query, hits, answer, failed>>

Walk(land) ==
  /\ phase = "planned" /\ phase' = "walked"
  /\ hits' = IF virtual THEN opVirtual ELSE runIndex(plan.op, Chain(plan.path), Unique(plan.path), land)
  /\ UNCHANGED <<docs, indexes, virtual, query, plan, answer, failed>>

Flat ==
  /\ phase = "walked" /\ ~query.group /\ phase' = "answered"
  /\ answer' = runFlat(filter)
  /\ UNCHANGED <<docs, indexes, virtual, query, plan, hits, failed>>

Grouped ==
  /\ phase = "walked" /\ query.group /\ phase' = "answered"
  /\ failed' = OutOfRange(filter)
  /\ answer' = IF failed' THEN <<>> ELSE runGrouped(filter)
  /\ UNCHANGED <<docs, indexes, virtual, query, plan, hits>>

Next ==
  \/ \E w \in Wheres, s \in Shapes : Ask(w, s)
  \/ Plan \/ Flat \/ Grouped
  \/ \E land \in {"first", "last"} : Walk(land)
Spec == Init /\ [][Next]_vars

-----------------------------------------------------------------------------
Answered == phase = "answered"
Matching == {d \in DOMAIN docs : \A i \in DOMAIN query.where : evalBinary(query.where[i], d)}
Expected(n) == Max({0, Min({query.limit, n - query.offset})})

\* The sort keys a page of them has, whichever way equal ones fall.
PageOf(keys) ==
  LET place == Ranks(keys)
  IN skipTake([n \in DOMAIN place |-> keys[place[n]]], query.offset, query.limit)

\* A query hands out as many documents as match and fit the page, each once
\* and none that does not match, whatever index it was led to them by.
RowsMatch ==
  Answered /\ ~query.group =>
    /\ Len(answer) = Expected(Cardinality(Matching))
    /\ \A n \in DOMAIN answer : answer[n].doc \in Matching
    /\ \A m, n \in DOMAIN answer : answer[m].doc = answer[n].doc => m = n

\* The page has the sort keys it would have had after sorting every matching
\* document, also where the index was trusted for the order.
RowsInOrder ==
  Answered /\ ~query.group /\ query.order # <<>> =>
    LET all == InOrder(Matching)
        wanted == [n \in DOMAIN all |-> SortKey(all[n], query.order)]
    IN [n \in DOMAIN answer |-> SortKey(answer[n].doc, query.order)] = PageOf(wanted)

\* What is projected is the document's, also when only the index key was read.
ProjectedFromDocument ==
  Answered /\ ~query.group /\ query.proj # "all" =>
    \A n \in DOMAIN answer : answer[n].value = Value(answer[n].doc, query.proj)

\* Every value the matching documents have makes one group with all of them,
\* and the page of the groups is the one the order asks for.
GroupsComplete ==
  Answered /\ query.group =>
    LET values == {docs[d].a : d \in Matching}
        true(v) == [key |-> v, count |-> Cardinality({d \in Matching : docs[d].a = v})]
        wanted == LET place == InOrder(values)
                  IN [n \in DOMAIN place |-> GroupKey(true(place[n]), query.order)]
    IN /\ ~failed
       /\ Len(answer) = Expected(Cardinality(values))
       /\ \A n \in DOMAIN answer : answer[n] \in {true(v) : v \in values}
       /\ \A m, n \in DOMAIN answer : answer[m].key = answer[n].key => m = n
       /\ query.order # <<>> => [n \in DOMAIN answer |-> GroupKey(answer[n], query.order)] = PageOf(wanted)

\* Counting gives the number of rows iterating gives, also when only index
\* entries were counted.
CountIsLength == Answered /\ ~failed => count = Len(answer)
=============================================================================
