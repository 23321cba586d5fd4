----------------------------- MODULE ExprCases -----------------------------
(***************************************************************************)
(* The texts and documents that the small instance of Expressions is asked  *)
(* for: chains of operators, each way of writing a path, and each method.   *)
(***************************************************************************)
EXTENDS Integers, Sequences, TLC

D(a) == <<"$", ".", a>>
Each(a) == D(a) \o <<"[", "*", "]">>
In(q) == <<"[">> \o q \o <<"]">>
Op(op) == <<" ">> \o op \o <<" ">>
Operands == {D("a"), <<"-", "1">>, <<"(", "b", "-", "1", ")">>}
Operators == {<<"-">>, <<"*">>, <<"=">>, <<"IN">>, <<"AND">>, <<">", "=">>}
Chains == {x \o Op(o) \o y : x \in Operands, y \in Operands, o \in Operators} \cup
          {x \o Op(o) \o y \o Op(p) \o z : x \in Operands, y \in Operands, z \in Operands, o \in Operators, p \in Operators}
Call(f, q) == <<f, "(">> \o q \o <<")">>
Fn(f, q, body) == <<f, "(">> \o q \o <<"=", ">">> \o body \o <<")">>
Listed == {
  Each("tags"), Each("tags") \o <<" ", "any", " ", "=", " ", "1">>, D("tags") \o <<" ", "ANY", "=", "1">>,
  D("tags") \o <<" ", "ALL", " ", "IN", " ", "[", "1", ",", "2", "]">>,
  D("tags") \o In(<<"0">>), D("tags") \o In(<<"-", "1">>), <<"tags", " ", "[", "1", "]">>,
  D("tags") \o In(<<"@", ">", "1">>), D("subs") \o In(<<"a", ">", "1">>) \o <<".", "b">>,
  Each("subs") \o <<".", "a">>, Each("subs") \o <<".", "(", "a", "+", "b", ")">>,
  Each("subs") \o <<".", "[", "'a b'", "]">>,
  <<"*", ".", "a">>, <<"*">>, Call("COUNT", <<"*">>), Call("count", Each("tags")),
  Fn("MAP", D("tags"), <<"@", "*", "2">>), Fn("map", Each("subs"), <<"a">>), Fn("MAP", <<"*">>, <<"a">>),
  Fn("MAP", <<"(", "*", ")">>, <<"a">>),
  Fn("FILTER", D("subs"), <<"a", "=", "$", ".", "a">>),
  <<"SORT", "(">> \o D("tags") \o <<"=", ">", "@", ",", " ", "-", "1", ")">>,
  Fn("SORT", Each("subs"), <<"@", ".", "a">>),
  <<"{", "a", ",", "b", ":", " ">> \o Each("tags") \o <<"}">>, <<"{", "'a b'", ":", "1.5", "}", "=", "$">>,
  <<"[">> \o D("a") \o <<",">> \o Each("tags") \o <<"]">>,
  Call("UNION", Each("tags") \o <<",">> \o D("a")), Call("FIRST", D("tags")), Call("LAST", Each("tags")),
  Call("MIN", Each("tags")), Call("MAX", D("tags")), Call("SUM", Each("tags")), Call("ITEMS", D("tags")),
  Call("DISTINCT", Each("tags")), Call("TOP", D("tags") \o <<",", "1">>), Call("KEYS", <<"$">>), Call("VALUES", D("subs") \o In(<<"0">>)),
  <<"IIF", "(">> \o D("a") \o <<"=", "1", ",", "b", ",", "null", ")">>,
  Call("COALESCE", <<"b", ",">> \o D("a")), Call("LENGTH", D("tags")), Call("EXTEND", <<"$", ",", "{", "a", ":", "2", "}">>),
  Call("EXCEPT", D("tags") \o <<",", "[", "1", "]">>), Call("CONCAT", D("tags") \o <<",">> \o D("tags")),
  Call("ANY", D("tags")), Call("ARRAY", Each("tags")),
  D("a") \o <<" ", "BETWEEN", " ", "-", "1", " ", "and", " ", "2", " ", "OR", " ", "true">>,
  D("tags") \o <<" ", "ALL", " ", "BETWEEN", " ", "0", " ", "AND", " ", "9">>,
  <<"1", "-", "-", "1", "\n", "+", "$", ".", "a">>, <<"$", ".", "[", "'a b'", "]">>, <<"$", ".", "[", "'b'", "]">>,
  <<"$", " ", ".", "a">>, <<"a", " ", ".", "b">>, <<"$", ".", " ", "a">>, <<"$", "a">>, Call("RANDOM", <<>>) \o <<"+", "a">>,
  <<"@", "p", "=", "$", ".", "a">>, <<"9", "+", "a">>, <<"99", "+", "a">>, <<"'b'", "=", "b">>, D("a") \o <<"/", "2">>,
  <<"[", "]", "=", "$">>, <<"{", "}", "=", "$">>, <<"(", "(">> \o Each("tags") \o <<")", ")">>, <<"a", " ", "b">>,
  <<"$", ".", "_id">>, <<"(", "$", ".", "tags", ")", "[", "*", "]">>, <<"a", "=">>, <<"VECTOR_SIM", "(", "a", ",", "b", ")">>
}
Int32(i) == [t |-> "int32", n |-> 2 * i]
Fielded(k, v) == [t |-> "document", keys |-> k, vals |-> v]
Arr(s) == [t |-> "array", items |-> s]
Text(n) == [t |-> "string", n |-> n, upper |-> FALSE]
Documents == {Fielded(<<"_id", "a", "b", "tags", "subs">>, <<Int32(1), Int32(1), Int32(2), Arr(<<Int32(2), Int32(1), Int32(2)>>),
    Arr(<<Fielded(<<"a", "b">>, <<Int32(2), Int32(0)>>), Fielded(<<"a", "a b">>, <<Int32(1), Text(1)>>)>>)>>),
  Fielded(<<"_id", "a", "b", "tags", "subs">>, <<Int32(2), Int32(7), Text(1), Arr(<<>>), Arr(<<>>)>>),
  Fielded(<<"_id", "a", "a b", "tags", "subs">>, <<Int32(2), Arr(<<Int32(1)>>), Int32(3), Arr(<<Text(1)>>), Arr(<<>>)>>)}
IntTokens == "0" :> 0 @@ "1" :> 1 @@ "2" :> 2 @@ "8" :> 8 @@ "9" :> 9 @@ "99" :> 99
DoubleTokens == "1.5" :> 3 @@ "2.0" :> 4
QuotedTokens == "'b'" :> "b" @@ "'a b'" :> "a b"
Uppers == "any" :> "ANY" @@ "and" :> "AND" @@ "count" :> "COUNT" @@ "map" :> "MAP"
Order == "a b" :> 1 @@ "b" :> 2 @@ "a" :> 3 @@ "_id" :> 4 @@ "tags" :> 5 @@ "subs" :> 6
AskedAgain == {Each("tags"), Each("tags") \o <<" ", "any", " ", "=", " ", "1">>, D("tags") \o <<" ", "ANY", "=", "1">>, Call("COUNT", <<"*">>), Call("count", <<" ", "*", " ">>), <<"$", " ", ".", "a">>, <<"a">>}
AllTexts == Chains \cup Listed
=============================================================================
