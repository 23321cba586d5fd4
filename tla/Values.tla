------------------------------- MODULE Values -------------------------------
(***************************************************************************)
(* Values and their order: internal/xbson/value.go, compare.go, indexkey.go *)
(* and IndexKeys of internal/xbexpr/eval.go.                               *)
(*                                                                         *)
(* A number is counted in halves, so that a double and a decimal may lie   *)
(* between two integers; a double may also be past the integers or none at *)
(* all.  A string is a letter and its case, with a length in bytes where   *)
(* the length matters.  Documents and arrays hold values in order.         *)
(***************************************************************************)
EXTENDS Integers, Sequences, FiniteSets

CONSTANTS
  Letters,    \* what the collation compares
  IgnoreCase, \* the collation folds case
  TwoPow63    \* the first integer past an int64

\* The types in the order of their numbers, which is the order of the format.
Types == <<"minvalue", "null", "int32", "int64", "double", "decimal", "string", "document",
           "array", "binary", "objectid", "guid", "boolean", "datetime", "maxvalue">>
TypeNumber(t) == CHOOSE i \in DOMAIN Types : Types[i] = t
IsNumber(t) == t \in {"int32", "int64", "double", "decimal"}

Null == [t |-> "null"]
Int32(i) == [t |-> "int32", n |-> 2 * i]
Int64(i) == [t |-> "int64", n |-> 2 * i]
Decimal(h) == [t |-> "decimal", n |-> h]
Double(h) == [t |-> "double", n |-> h, special |-> 0]
NaN == [t |-> "double", n |-> 0, special |-> -2]
Infinite(sign) == [t |-> "double", n |-> 0, special |-> sign]
String(l, upper) == [t |-> "string", n |-> l, upper |-> upper]
Array(items) == [t |-> "array", items |-> items]
Document(keys, vals) == [t |-> "document", keys |-> keys, vals |-> vals]

cmp(x, y) == IF x < y THEN -1 ELSE IF x > y THEN 1 ELSE 0
Smaller(x, y) == IF x < y THEN x ELSE y
trunc(h) == IF h >= 0 THEN h \div 2 ELSE -((-h) \div 2)

-----------------------------------------------------------------------------
(* compare.go                                                              *)
rankSpecial(v) == IF v.t = "double" THEN v.special ELSE 0

cmpFloat(a, b) ==
  IF rankSpecial(a) # 0 \/ rankSpecial(b) # 0 THEN cmp(rankSpecial(a), rankSpecial(b))
                                              ELSE cmp(a.n, b.n)

\* The integer is never made a float, which would lose its last digits.
cmpIntFloat(i, f) ==
  CASE f.special = -2            -> 1
    [] f.special = 1             -> -1
    [] f.special = -1            -> 1
    [] f.n >= 2 * TwoPow63       -> -1
    [] f.n < -2 * TwoPow63       -> 1
    [] i.n # 2 * trunc(f.n)      -> cmp(i.n, 2 * trunc(f.n))
    [] OTHER                     -> cmp(2 * trunc(f.n), f.n)

\* A mutant: integers become floats of half the precision.
compareNumberRounded(a, b) ==
  IF "decimal" \notin {a.t, b.t} /\ a.t # b.t /\ rankSpecial(a) = 0 /\ rankSpecial(b) = 0
  THEN cmp(a.n \div 4, b.n \div 4) ELSE cmpFloat(a, b)

compareNumber(a, b) ==
  CASE "decimal" \in {a.t, b.t}               -> cmpFloat(a, b)
    [] a.t = "double" /\ b.t = "double"       -> cmpFloat(a, b)
    [] a.t = "double"                         -> -cmpIntFloat(b, a)
    [] b.t = "double"                         -> cmpIntFloat(a, b)
    [] OTHER                                  -> cmp(a.n, b.n)

compareString(a, b, fold) ==
  IF a.n # b.n \/ fold THEN cmp(a.n, b.n)
  ELSE cmp(IF a.upper THEN 0 ELSE 1, IF b.upper THEN 0 ELSE 1)

\* What is not there reads as null.
Get(d, k) == LET at == {i \in DOMAIN d.keys : d.keys[i] = k}
             IN IF at = {} THEN Null ELSE d.vals[CHOOSE i \in at : TRUE]

\* Pairs of elements are compared until two differ, then the lengths.  Inside
\* a document or an array strings are compared byte by byte; a document asks
\* the other for its own keys, so that the order of two of them may depend on
\* which one is asked.
RECURSIVE Compare(_, _, _), compareElems(_, _, _, _, _)
Compare(a, b, fold) ==
  CASE a.t # b.t -> IF IsNumber(a.t) /\ IsNumber(b.t) THEN compareNumber(a, b)
                    ELSE cmp(TypeNumber(a.t), TypeNumber(b.t))
    [] a.t \in {"minvalue", "null", "maxvalue"} -> 0
    [] a.t \in {"double", "decimal"} -> cmpFloat(a, b)
    [] a.t = "string" -> compareString(a, b, fold)
    [] a.t = "array" -> compareElems(a.items, b.items, Len(a.items), Len(b.items), 1)
    [] a.t = "document" -> compareElems(a.vals, [i \in DOMAIN a.keys |-> Get(b, a.keys[i])],
                                        Len(a.vals), Len(b.vals), 1)
    [] OTHER -> cmp(a.n, b.n)
compareElems(xs, ys, m, n, i) ==
  IF i > Smaller(m, n) THEN cmp(m, n)
  ELSE LET r == Compare(xs[i], ys[i], FALSE)
       IN IF r # 0 THEN r ELSE compareElems(xs, ys, m, n, i + 1)

\* An identity for equality byte by byte: whole doubles are the integer they
\* are worth.  Decimals, arrays and documents have none.
NoKey == [t |-> "none"]
BinaryKey(v) ==
  CASE v.t \in {"int32", "int64"} -> [t |-> "int64", n |-> v.n]
    [] v.t = "double" -> IF /\ v.special = 0 /\ v.n % 2 = 0
                            /\ v.n >= -2 * TwoPow63 /\ v.n < 2 * TwoPow63
                         THEN [t |-> "int64", n |-> v.n] ELSE v
    [] v.t \in {"decimal", "array", "document"} -> NoKey
    [] OTHER -> v

-----------------------------------------------------------------------------
(* indexkey.go: the length of a string or of bytes takes two bits of the    *)
(* byte of the type and a byte of its own.                                 *)
MaxIndexKeyLength == 1023

IndexKeySize(length) == 1 + 1 + length
KeyFits(length) == IndexKeySize(length) <= MaxIndexKeyLength
\* A mutant: the two high bits are dropped on the way in.
AppendIndexKeyLow(t, length) == <<t, length % 256>>

AppendIndexKey(t, length) == <<t + 64 * ((length \div 256) % 4), length % 256>>
ReadIndexKey(b) == [t |-> b[1] % 64, length |-> 256 * (b[1] \div 64) + b[2]]

-----------------------------------------------------------------------------
(* IndexKeys: the keys of one document, each value once.                   *)
neverSameKey(v) == v.t \in {"array", "document", "binary"}

compareIndexKey(a, b) == IF a.t # b.t THEN cmp(TypeNumber(a.t), TypeNumber(b.t))
                         ELSE Compare(a, b, FALSE)

\* The keys already out, in the order of the search.
Distinct(sorted, v) == neverSameKey(v) \/ \A i \in DOMAIN sorted : compareIndexKey(sorted[i], v) # 0

Inserted(s, v) == LET at == Cardinality({i \in DOMAIN s : compareIndexKey(s[i], v) < 0})
                  IN SubSeq(s, 1, at) \o <<v>> \o SubSeq(s, at + 1, Len(s))

RECURSIVE IndexKeysFrom(_, _, _, _)
IndexKeysFrom(vs, i, sorted, out) ==
  CASE i > Len(vs)             -> out
    [] neverSameKey(vs[i])     -> IndexKeysFrom(vs, i + 1, sorted, Append(out, vs[i]))
    [] ~Distinct(sorted, vs[i]) -> IndexKeysFrom(vs, i + 1, sorted, out)
    [] OTHER -> IndexKeysFrom(vs, i + 1, Inserted(sorted, vs[i]), Append(out, vs[i]))
IndexKeys(vs) == IndexKeysFrom(vs, 1, <<>>, <<>>)
=============================================================================
