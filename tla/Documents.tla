------------------------------ MODULE Documents ------------------------------
(***************************************************************************)
(* Documents and arrays in memory and in bytes: internal/xbson/document.go, *)
(* codec.go, decode.go and the dates of internal/xbin/ticks.go.            *)
(*                                                                         *)
(* A document keeps its keys in order; past a few keys a table from folded  *)
(* names to places stands beside them.  Every document and array remembers  *)
(* the bytes it took when it was last measured, and forgets them when it is *)
(* changed itself, not when something inside it is.  The same document may  *)
(* stand in two places, or in itself.                                      *)
(*                                                                         *)
(* Bytes are cells of a kind and a content: a length, a type, a name, a     *)
(* number and an end each take one, letter n of a text takes n.            *)
(***************************************************************************)
EXTENDS Values, SequencesExt

CONSTANTS
  Docs, Arrays,   \* the documents and arrays there are
  Names,          \* the names that are used in each document
  Fold,           \* a name with its letters in upper case
  BadNames, BadLetters, \* what cannot be written: a name with a zero, a text that is no UTF-8
  Scalars,
  Nestable,       \* the objects that are put into others
  MaxItems,       \* items of an array
  linearScanMax, maxNestingDepth,
  TicksPerMillisecond, MaxTicks

VARIABLE heap
vars == heap

Objects == Docs \cup Arrays
idKey == "_id"
NoTable == [on |-> FALSE, at |-> <<>>]
Ref(x) == [t |-> IF x \in Docs THEN "document" ELSE "array", ref |-> x]
IsRef(v) == "ref" \in DOMAIN v

-----------------------------------------------------------------------------
(* Dates: the last moment of the year 9999 is no whole millisecond and      *)
(* stands for the one after it, both ways.                                 *)
MaxUnixMillis == (MaxTicks + 1) \div TicksPerMillisecond
DateTime(ticks) == [t |-> "datetime", n |-> IF ticks = MaxTicks THEN ticks
                                            ELSE ticks - (ticks % TicksPerMillisecond)]

ticksToWireMillis(n) == IF n = MaxTicks THEN MaxUnixMillis ELSE n \div TicksPerMillisecond
dateTimeFromWire(ms) == IF ms = MaxUnixMillis THEN DateTime(MaxTicks) ELSE DateTime(ms * TicksPerMillisecond)

-----------------------------------------------------------------------------
(* Keys.                                                                   *)
Position(keys, k) == LET at == {i \in DOMAIN keys : Fold[keys[i]] = Fold[k]}
                     IN IF at = {} THEN 0 ELSE CHOOSE i \in at : \A j \in at : i <= j
find(o, k) == IF ~o.idx.on THEN Position(o.keys, k)
              ELSE IF Fold[k] \in DOMAIN o.idx.at THEN o.idx.at[Fold[k]] ELSE 0

buildIndex(keys) == [on |-> TRUE, at |-> [f \in {Fold[k] : k \in ToSet(keys)} |->
                                            CHOOSE i \in DOMAIN keys : Fold[keys[i]] = f]]
push(o, k, v) ==
  LET keys == Append(o.keys, k)
  IN [o EXCEPT !.keys = keys, !.vals = Append(@, v),
        !.idx = IF @.on THEN [@ EXCEPT !.at = [f \in DOMAIN @ \cup {Fold[k]} |->
                                                 IF f = Fold[k] THEN Len(keys) ELSE @[f]]]
                ELSE IF Len(keys) > linearScanMax THEN buildIndex(keys) ELSE @]

\* A mutant: the table keeps the places from before.
RemovedStale(o, i) ==
  [o EXCEPT !.keys = RemoveAt(@, i), !.vals = RemoveAt(@, i), !.length = 0,
     !.idx.at = [f \in DOMAIN @ \ {Fold[o.keys[i]]} |-> @[f]]]

Removed(o, i) ==
  [o EXCEPT !.keys = RemoveAt(@, i), !.vals = RemoveAt(@, i), !.length = 0,
     !.idx.at = [f \in DOMAIN @ \ {Fold[o.keys[i]]} |-> IF @[f] > i THEN @[f] - 1 ELSE @[f]]]

\* The id comes first and under its own name.
Elements(o) ==
  LET i == find(o, idKey)
      rest == SelectSeq([j \in DOMAIN o.keys |-> j], LAMBDA j : j # i)
  IN (IF i = 0 THEN <<>> ELSE <<[key |-> idKey, val |-> o.vals[i]]>>)
       \o [j \in DOMAIN rest |-> [key |-> o.keys[rest[j]], val |-> o.vals[rest[j]]]]
ElementsOf(x) == IF x \in Docs THEN Elements(heap[x])
                 ELSE [i \in DOMAIN heap[x].vals |-> [key |-> ToString(i), val |-> heap[x].vals[i]]]

-----------------------------------------------------------------------------
(* Writing.                                                                *)
wireTag(v) == IF v.t = "guid" THEN "binary" ELSE v.t
Cell(kind, c) == <<kind, c>>
Repeated(n, cell) == [i \in 1..n |-> cell]

appendPayload(v) ==
  CASE v.t \in {"null", "minvalue", "maxvalue"} -> <<>>
    [] v.t = "string"   -> <<Cell("count", v.n + 1)>> \o Repeated(v.n, Cell("letter", v)) \o <<Cell("end", 0)>>
    [] v.t = "binary"   -> <<Cell("count", v.n), Cell("subtype", "generic")>> \o Repeated(v.n, Cell("byte", v))
    [] v.t = "guid"     -> <<Cell("count", 1), Cell("subtype", "uuid"), Cell("byte", v)>>
    [] v.t = "datetime" -> <<Cell("number", ticksToWireMillis(v.n))>>
    [] v.t = "vector"   -> <<Cell("count", v.n)>> \o Repeated(v.n, Cell("float", v))
    [] OTHER            -> <<Cell("number", v)>>
payloadSize(v) == Len(appendPayload(v))
Writable(v) == ~(v.t = "string" /\ v.n \in BadLetters)

\* What was measured, and the lengths that were noted on the way.
RECURSIVE Sized(_, _, _, _, _)
\* A mutant: what was measured before is not measured again.
elementSizeCached(v, depth, lens) ==
  IF IsRef(v) THEN IF lens[v.ref] # 0 THEN [ok |-> TRUE, n |-> lens[v.ref], lens |-> lens]
                   ELSE Sized(v.ref, depth, 1, 2, lens)
              ELSE [ok |-> Writable(v), n |-> payloadSize(v), lens |-> lens]

elementSize(v, depth, lens) ==
  IF IsRef(v) THEN Sized(v.ref, depth, 1, 2, lens)
              ELSE [ok |-> Writable(v), n |-> payloadSize(v), lens |-> lens]

Sized(x, depth, i, total, lens) ==
  LET es == ElementsOf(x)
  IN IF depth >= maxNestingDepth \/ (i <= Len(es) /\ es[i].key \in BadNames)
     THEN [ok |-> FALSE, n |-> 0, lens |-> lens]
     ELSE IF i > Len(es) THEN [ok |-> TRUE, n |-> total, lens |-> [lens EXCEPT ![x] = total]]
     ELSE LET r == elementSize(es[i].val, depth + 1, lens)
          IN IF r.ok THEN Sized(x, depth, i + 1, total + 2 + r.n, r.lens) ELSE r
Lengths == [x \in Objects |-> heap[x].length]
encodedSize(x) == Sized(x, 0, 1, 2, Lengths)

\* The lengths in front are those that were noted.
RECURSIVE appendTo(_, _)
appendTo(x, lens) ==
  LET es == ElementsOf(x)
      Element(e) == <<Cell("tag", wireTag(e.val)), Cell("name", e.key)>> \o
                    (IF IsRef(e.val) THEN appendTo(e.val.ref, lens) ELSE appendPayload(e.val))
      parts == [i \in DOMAIN es |-> Element(es[i])]
  IN <<Cell("length", lens[x])>> \o FlattenSeq(parts) \o <<Cell("end", 0)>>

-----------------------------------------------------------------------------
(* Reading; the empty set is corrupt.                                      *)
Read(v, n) == {[v |-> v, n |-> n]}
Corrupt == {}
need(b, n) == Len(b) >= n

decodeBinary(b) ==
  IF ~need(b, 2) \/ ~need(b, 2 + b[1][2]) THEN Corrupt
  ELSE IF b[2] = Cell("subtype", "uuid") THEN IF b[1][2] = 1 THEN Read(b[3][2], 3) ELSE Corrupt
  ELSE Read([t |-> "binary", n |-> b[1][2]], 2 + b[1][2])
decodeString(b) ==
  LET n == b[1][2]
  IN IF n < 1 \/ ~need(b, 1 + n) \/ b[1 + n] # Cell("end", 0) THEN Corrupt
     ELSE Read(IF n = 1 THEN String(0, FALSE) ELSE b[2][2], 1 + n)
decodePayload(tag, b) ==
  CASE tag \in {"null", "minvalue", "maxvalue"} -> Read([t |-> tag], 0)
    [] ~need(b, 1)      -> Corrupt
    [] tag = "string"   -> decodeString(b)
    [] tag = "binary"   -> decodeBinary(b)
    [] tag = "datetime" -> Read(dateTimeFromWire(b[1][2]), 1)
    [] tag = "vector"   -> IF need(b, 1 + b[1][2]) THEN Read([t |-> "vector", n |-> b[1][2]], 1 + b[1][2]) ELSE Corrupt
    [] OTHER            -> Read(b[1][2], 1)

\* A document, with the number of cells it took; a name that is there is corrupt.
RECURSIVE decodeElements(_, _, _, _)
docHeader(b) == IF need(b, 2) THEN {b[1][2]} \cap 2..Len(b) ELSE {}
decode(tag, b, depth) ==
  IF depth >= maxNestingDepth THEN Corrupt
  ELSE UNION {IF b[total] # Cell("end", 0) THEN Corrupt
              ELSE {[v |-> [t |-> tag, elems |-> es], n |-> total] :
                      es \in decodeElements(tag, SubSeq(b, 2, total - 1), depth + 1, <<>>)} :
                total \in docHeader(b)}
decodeElements(tag, b, depth, out) ==
  IF b = <<>> THEN {out}
  ELSE IF ~need(b, 2) \/ b[1][1] # "tag" THEN Corrupt
  ELSE LET t == b[1][2]
           key == b[2][2]
           rest == SubSeq(b, 3, Len(b))
           e(v) == IF tag = "array" THEN <<v>> ELSE <<[key |-> key, val |-> v]>>
           seen == tag = "document" /\ \E i \in DOMAIN out : Fold[out[i].key] = Fold[key]
       IN UNION {IF seen THEN Corrupt
                 ELSE decodeElements(tag, SubSeq(rest, r.n + 1, Len(rest)), depth, out \o e(r.v)) :
                   r \in IF t \in {"document", "array"} THEN decode(t, rest, depth) ELSE decodePayload(t, rest)}
DecodeIn(b) == {r.v : r \in {x \in decode("document", b, 0) : x.n = Len(b)}}

-----------------------------------------------------------------------------
(* Operations.                                                             *)
ValuesFor == Scalars \cup {Ref(x) : x \in Nestable}

Init == heap = [x \in Objects |-> [keys |-> <<>>, vals |-> <<>>, idx |-> NoTable, length |-> 0]]

Set(d, k, v) ==
  LET o == [heap[d] EXCEPT !.length = 0]
      i == find(o, k)
  IN heap' = [heap EXCEPT ![d] = IF i # 0 THEN [o EXCEPT !.vals[i] = v] ELSE push(o, k, v)]

Delete(d, k) ==
  LET i == find(heap[d], k)
  IN /\ i # 0
     /\ heap' = [heap EXCEPT ![d] = Removed(@, i)]

AppendItem(a, v) ==
  /\ Len(heap[a].vals) < MaxItems
  /\ heap' = [heap EXCEPT ![a].vals = Append(@, v), ![a].length = 0]

SetItem(a, i, v) == heap' = [heap EXCEPT ![a].vals[i] = v, ![a].length = 0]

\* Everything the document reaches is copied with it, into objects that are new.
RECURSIVE ReachFrom(_)
ReachFrom(S) == LET next == S \cup {v.ref : v \in UNION {{w \in ToSet(heap[x].vals) : IsRef(w)} : x \in S}}
                IN IF next = S THEN S ELSE ReachFrom(next)
Clone(d, copy) ==
  LET back == [y \in {copy[x] : x \in DOMAIN copy} |-> CHOOSE x \in DOMAIN copy : copy[x] = y]
      moved(v) == IF IsRef(v) THEN Ref(copy[v.ref]) ELSE v
  IN heap' = [y \in Objects |-> IF y \notin DOMAIN back THEN heap[y]
                                ELSE LET o == heap[back[y]]
                                     IN [o EXCEPT !.vals = [i \in DOMAIN @ |-> moved(@[i])], !.length = 0]]
Copies(d) ==
  LET from == ReachFrom({d})
  IN {f \in [from -> Objects \ from] :
        /\ \A x \in from : (x \in Docs) = (f[x] \in Docs)
        /\ \A x, y \in from : f[x] = f[y] => x = y}
RECURSIVE Cyclic(_, _)
Cyclic(x, above) == \/ x \in above
                    \/ \E v \in ToSet(heap[x].vals) : IsRef(v) /\ Cyclic(v.ref, above \cup {x})

Encode(d) == heap' = [x \in Objects |-> [heap[x] EXCEPT !.length = encodedSize(d).lens[x]]]

Next ==
  \/ \E d \in Docs :
       \/ \E k \in Names[d], v \in ValuesFor : Set(d, k, v)
       \/ \E k \in Names[d] : Delete(d, k)
       \/ ~Cyclic(d, {}) /\ \E copy \in Copies(d) : Clone(d, copy)
       \/ Encode(d)
  \/ \E a \in Arrays, v \in ValuesFor :
       AppendItem(a, v) \/ \E i \in DOMAIN heap[a].vals : SetItem(a, i, v)
Spec == Init /\ [][Next]_vars

-----------------------------------------------------------------------------
\* A key is found at the place where it stands, whatever its case and whether the
\* table or a scan is asked, and no key stands there twice (Document.find, push and
\* Delete of document.go).
KeysAreFound ==
  \A d \in Docs :
    /\ \A k \in DOMAIN Fold : find(heap[d], k) = Position(heap[d].keys, k)
    /\ \A i, j \in DOMAIN heap[d].keys : Fold[heap[d].keys[i]] = Fold[heap[d].keys[j]] => i = j
    /\ Len(heap[d].keys) > linearScanMax => heap[d].idx.on

\* The tree of a document as it should be read back.
RECURSIVE Tree(_), Nests(_, _)
Tree(x) ==
  LET es == ElementsOf(x)
      under(v) == IF IsRef(v) THEN Tree(v.ref) ELSE v
  IN [t |-> Ref(x).t, elems |-> IF x \in Docs THEN [i \in DOMAIN es |-> [es[i] EXCEPT !.val = under(@)]]
                                ELSE [i \in DOMAIN es |-> under(es[i].val)]]
Nests(x, depth) ==
  /\ depth < maxNestingDepth
  /\ \A i \in DOMAIN ElementsOf(x) :
       /\ ElementsOf(x)[i].key \notin BadNames
       /\ LET v == ElementsOf(x)[i].val IN IF IsRef(v) THEN Nests(v.ref, depth + 1) ELSE Writable(v)

\* A document that nests no deeper than the limit and holds nothing unwritable can be
\* written, and what is written reads back as the same tree, however stale the
\* lengths are that its parts remember (Encode and DecodeIn of codec.go, decode.go).
WritesReadBack ==
  \A d \in Docs :
    LET size == encodedSize(d)
    IN /\ size.ok = Nests(d, 0)
       /\ size.ok => DecodeIn(appendTo(d, size.lens)) = {Tree(d)}
=============================================================================
