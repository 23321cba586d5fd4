------------------------------ MODULE ValueKeys ------------------------------
(***************************************************************************)
(* The keys of one document in one index, as its values come out of the     *)
(* expression one by one: IndexKeys of internal/xbexpr/eval.go, on the      *)
(* order and the identities of values (Values) that every index and every   *)
(* sort rests on.                                                          *)
(***************************************************************************)
EXTENDS Values, SequencesExt

CONSTANTS Samples, \* the values that come out
          MaxValues

VARIABLE yielded

Init == yielded = <<>>
Yield(v) == Len(yielded) < MaxValues /\ yielded' = Append(yielded, v)
Next == \E v \in Samples : Yield(v)
Spec == Init /\ [][Next]_yielded

Order(a, b) == Compare(a, b, IgnoreCase)

\* The order that indexes are kept in is one: asked the other way round it is the
\* opposite, and it holds along three values, whatever their types (Compare of
\* compare.go).
OrderIsTotal ==
  \A i, j, k \in DOMAIN yielded :
    LET a == yielded[i] b == yielded[j] c == yielded[k]
    IN /\ Order(a, b) = -Order(b, a) /\ (i = j => Order(a, b) = 0)
       /\ Order(a, b) <= 0 /\ Order(b, c) <= 0 => Order(a, c) <= 0
       /\ Order(a, b) = 0 /\ Order(b, c) < 0 => Order(a, c) < 0

\* Two values have the same identity if and only if they compare equal byte by byte
\* (BinaryKey of compare.go, which diffIndexKeys of crud.go puts in a map).
KeysAreIdentities ==
  \A i, j \in DOMAIN yielded :
    LET a == BinaryKey(yielded[i]) b == BinaryKey(yielded[j])
    IN a # NoKey /\ b # NoKey => (a = b <=> Compare(yielded[i], yielded[j], FALSE) = 0)

\* Every value that takes part is in the index once, under the one that came first,
\* and those that never compare as keys each time they came (IndexKeys of eval.go).
EachValueOnce ==
  LET out == IndexKeys(yielded)
      First(i) == neverSameKey(yielded[i]) \/ \A j \in 1..(i - 1) : compareIndexKey(yielded[j], yielded[i]) # 0
      kept == SelectSeq([i \in DOMAIN yielded |-> i], First)
  IN out = [p \in DOMAIN kept |-> yielded[kept[p]]]

\* A key that fits reads back with the type and the length it was written with
\* (AppendIndexKey and ReadIndexKeyInto of indexkey.go).
KeysReadBack ==
  \A i \in DOMAIN yielded :
    LET v == yielded[i] IN
    v.t = "binary" /\ KeyFits(v.len)
      => ReadIndexKey(AppendIndexKey(TypeNumber(v.t), v.len)) = [t |-> TypeNumber(v.t), length |-> v.len]
=============================================================================
