----------------------------- MODULE ValueCases -----------------------------
(***************************************************************************)
(* The values that the small instances of ValueKeys and Documents are asked *)
(* for: a number in halves under each of its types, the first integer past  *)
(* an int64 at 16, letters in both cases, lengths around a byte.           *)
(***************************************************************************)
EXTENDS Integers, Sequences, TLC

Num(t, n) == [t |-> t, n |-> n]
Dbl(n, s) == [t |-> "double", n |-> n, special |-> s]
Txt(n, u) == [t |-> "string", n |-> n, upper |-> u]
List(s) == [t |-> "array", items |-> s]
Fields(k, v) == [t |-> "document", keys |-> k, vals |-> v]
Sampled == {Num("int32", n) : n \in {-2, 0, 2}} \cup {Num("int64", n) : n \in {2, 30, -32}} \cup
  {Dbl(n, 0) : n \in {-1, 1, 2, 32, -32, 31}} \cup {Dbl(0, s) : s \in {-2, -1, 1}} \cup {Num("decimal", n) : n \in {1, 2, 32}} \cup
  {Txt(1, TRUE), Txt(1, FALSE), Txt(2, FALSE)} \cup {[t |-> t] : t \in {"minvalue", "null", "maxvalue"}} \cup
  {List(s) : s \in {<<>>, <<Num("int32", 2)>>, <<Dbl(2, 0), Txt(1, TRUE)>>, <<Dbl(2, 0), Txt(1, FALSE)>>}} \cup
  {Fields(<<>>, <<>>), Fields(<<"a">>, <<Dbl(2, 0)>>), Fields(<<"a">>, <<Num("int32", 2)>>)} \cup
  {[t |-> "binary", n |-> n, len |-> n] : n \in {0, 255, 256, 1021, 1022}} \cup {Num("boolean", 1)}

\* The names of the fields, and the values that have a form of their own in bytes.
FieldNames == "d" :> {"_ID", "a", "A", "b"} @@ "e" :> {"a"}
OneName == "d" :> {"a"} @@ "e" :> {"a"}
Folded == "_ID" :> "_ID" @@ "_id" :> "_ID" @@ "a" :> "A" @@ "A" :> "A" @@ "b" :> "B"
LastMoment == Num("datetime", 7)
Forms == {Txt(2, FALSE), Txt(3, FALSE), Num("guid", 1), Num("binary", 0), Num("vector", 2),
          LastMoment, Num("datetime", 4), [t |-> "null"]}
=============================================================================
