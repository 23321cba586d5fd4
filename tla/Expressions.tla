----------------------------- MODULE Expressions -----------------------------
(***************************************************************************)
(* What an expression is worth on a document (eval.go, eval_op.go,          *)
(* eval_path.go and the methods of internal/xbexpr), and the text of an     *)
(* index as the engine stores it (internal/xengine/ddl.go): the tree is     *)
(* written as text, kept on the page of the collection, and read again      *)
(* whenever keys are computed.                                             *)
(*                                                                         *)
(* A scalar is the set of the one value, empty when evaluation fails.       *)
(* Several values are the values that came out and whether an error         *)
(* followed them: who has seen enough never meets the error.  The budget    *)
(* of MaxEvalValues is left out; a quotient is rounded to a half.           *)
(***************************************************************************)
EXTENDS ExprSyntax

CONSTANTS
  Docs,         \* the documents
  Texts, Again, \* texts asked for first, and when the index is there
  Likes,        \* the pairs of a string and a pattern that match
  MaxEvalDepth

VARIABLES
  stored, \* the text on the page of the collection, <<>> without the index
  asked   \* the text the last caller was told the index is for
vars == <<stored, asked>>

-----------------------------------------------------------------------------
(* Operators.                                                              *)
Bool(b) == [t |-> "boolean", n |-> IF b THEN 1 ELSE 0]
IsTrue(vs) == \E v \in vs : v.t = "boolean" /\ v.n = 1
Wrapped(i) == ((i + MaxInt32 + 1) % (2 * (MaxInt32 + 1))) - MaxInt32 - 1

\* Two of a kind stay of that kind and a 32-bit integer wraps; two of
\* different kinds become the wider one, or fail.
Widened(a, b, h) ==
  CASE a.t = b.t /\ a.t = "int32" -> {Int32(Wrapped(h \div 2))}
    [] "decimal" \in {a.t, b.t} -> {Decimal(h)}
    [] "double" \in {a.t, b.t} -> {Double(h)}
    [] OTHER -> IF h \div 2 \in (-MaxInt64 - 1)..MaxInt64 THEN {Int64(h \div 2)} ELSE {}
Rem(x, y) == LET m == (IF x < 0 THEN -x ELSE x) % (IF y < 0 THEN -y ELSE y) IN IF x < 0 THEN -m ELSE m

numBinary(op, a, b) ==
  CASE op = "+" -> Widened(a, b, a.n + b.n)
    [] op = "-" -> Widened(a, b, a.n - b.n)
    [] op = "*" -> Widened(a, b, (a.n * b.n) \div 2)
    [] op = "/" -> {IF b.n = 0 THEN IF a.n = 0 THEN NaN ELSE Infinite(cmp(a.n, 0)) ELSE Double((2 * a.n) \div b.n)}
    [] op = "%" -> IF b.n # 0 THEN {IF a.t = b.t THEN [a EXCEPT !.n = Rem(a.n, b.n)] ELSE Double(Rem(a.n, b.n))}
                   ELSE IF a.t = b.t /\ a.t # "double" THEN {} ELSE {NaN}

opBetween(l, r, fc) ==
  IF r.t # "array" \/ Len(r.items) # 2 THEN {}
  ELSE {Bool(Compare(l, r.items[1], fc) >= 0 /\ Compare(l, r.items[2], fc) <= 0)}
opIn(l, r, fc) == IF r.t # "array" THEN Compare(l, r, fc) = 0
                  ELSE \E i \in DOMAIN r.items : Compare(l, r.items[i], fc) = 0

apply(op, l, r, fc) ==
  LET c == Compare(l, r, fc)
  IN CASE op \in {"+", "-", "*", "/", "%"} ->
            IF IsNumber(l.t) /\ IsNumber(r.t) THEN numBinary(op, l, r) ELSE {Null}
       [] op = "="  -> {Bool(c = 0)}
       [] op = "!=" -> {Bool(c # 0)}
       [] op = ">"  -> {Bool(c > 0)}
       [] op = ">=" -> {Bool(c >= 0)}
       [] op = "<"  -> {Bool(c < 0)}
       [] op = "<=" -> {Bool(c <= 0)}
       [] op = "LIKE" -> {Bool(l.t = "string" /\ r.t = "string" /\ <<l.n, r.n>> \in Likes)}
       [] op = "BETWEEN" -> opBetween(l, r, fc)
       [] op = "IN" -> {Bool(opIn(l, r, fc))}

-----------------------------------------------------------------------------
(* Methods.                                                                *)
items(v) == IF v.t = "array" THEN v.items ELSE <<v>>
RECURSIVE Once(_, _)
Once(seen, s) == IF s = <<>> THEN <<>>
                 ELSE IF Head(s) \in seen THEN Once(seen, Tail(s))
                 ELSE <<Head(s)>> \o Once(seen \cup {Head(s)}, Tail(s))
RECURSIVE Sum(_, _)
Sum(acc, s) == IF s = <<>> THEN {acc}
               ELSE IF ~IsNumber(Head(s).t) THEN Sum(acc, Tail(s))
               ELSE UNION {Sum(a, Tail(s)) : a \in numBinary("+", acc, Head(s))}
\* The least and the greatest, or the other bound when there is none.
RECURSIVE Extreme(_, _, _)
Extreme(best, s, sign) ==
  IF s = <<>> THEN best
  ELSE Extreme(IF sign * Compare(Head(s), best, FALSE) >= 0 THEN Head(s) ELSE best, Tail(s), sign)
MinValue == [t |-> "minvalue"]
MaxValue == [t |-> "maxvalue"]
mMIN(s) == LET m == Extreme(MaxValue, s, -1) IN IF m = MaxValue THEN MinValue ELSE m
mMAX(s) == LET m == Extreme(MinValue, s, 1) IN IF m = MinValue THEN MaxValue ELSE m
mLENGTH(v) == CASE v.t = "array" -> Int32(Len(v.items))
                [] v.t = "document" -> Int32(Len(v.keys))
                [] v.t = "string" -> Int32(1)
                [] v.t = "null" -> Int32(0)
                [] OTHER -> Null
SetKey(d, k, v) == IF \E i \in DOMAIN d.keys : d.keys[i] = k
                   THEN [d EXCEPT !.vals = [i \in DOMAIN @ |-> IF d.keys[i] = k THEN v ELSE @[i]]]
                   ELSE Document(Append(d.keys, k), Append(d.vals, v))
RECURSIVE Extend(_, _, _)
Extend(d, keys, vals) == IF keys = <<>> THEN d
                         ELSE Extend(SetKey(d, Head(keys), Head(vals)), Tail(keys), Tail(vals))
mEXTEND(a, b) == IF a.t = "document" /\ b.t = "document" THEN Extend(a, b.keys, b.vals)
                 ELSE IF a.t = "document" THEN a ELSE IF b.t = "document" THEN b ELSE Document(<<>>, <<>>)
mTOP(s, n) == IF n.t \in {"int32", "int64"} /\ n.n > 0 THEN SubSeq(s, 1, Smaller(n.n \div 2, Len(s))) ELSE <<>>

aggregate(name, s) ==
  CASE name = "COUNT" -> {Int32(Len(s))}
    [] name = "MIN"   -> {mMIN(s)}
    [] name = "MAX"   -> {mMAX(s)}
    [] name = "FIRST" -> {IF s = <<>> THEN Null ELSE s[1]}
    [] name = "LAST"  -> {IF s = <<>> THEN Null ELSE Last(s)}
    [] name = "SUM"   -> Sum(Int32(0), s)
    [] name = "ANY"   -> {Bool(s # <<>>)}
spread(name, v, w) ==
  CASE name = "ITEMS"  -> items(v)
    [] name = "CONCAT" -> items(v) \o items(w)
    [] name = "KEYS"   -> IF v.t # "document" THEN <<>>
                          ELSE [i \in DOMAIN v.keys |-> String(TextNumber[v.keys[i]], FALSE)]
    [] name = "VALUES" -> IF v.t = "document" THEN v.vals ELSE <<>>
asSet(name, v, w) ==
  CASE name = "UNION"    -> Once({}, items(v) \o items(w))
    [] name = "EXCEPT"   -> Once(ToSet(items(w)), items(v))
    [] name = "DISTINCT" -> Once({}, items(v))

call(name, args) ==
  LET v == args[1]
      w == Last(args)
  IN CASE name \in {"COUNT", "MIN", "MAX", "FIRST", "LAST", "SUM", "ANY"} -> aggregate(name, items(v))
       [] name \in {"ITEMS", "CONCAT", "KEYS", "VALUES"} -> {Array(spread(name, v, w))}
       [] name \in {"UNION", "EXCEPT", "DISTINCT"} -> {Array(asSet(name, v, w))}
       [] name = "ARRAY"    -> {v}
       [] name = "TOP"      -> {Array(mTOP(items(v), w))}
       [] name = "LENGTH"   -> {mLENGTH(v)}
       [] name = "COALESCE" -> {IF v.t = "null" THEN w ELSE v}
       [] name = "EXTEND"   -> {mEXTEND(v, w)}

-----------------------------------------------------------------------------
(* Evaluation.                                                             *)
newEnv(doc, fc) == [root |-> doc, current |-> doc, source |-> <<doc>>, fold |-> fc, depth |-> 0]
withCurrent(e, v) == [e EXCEPT !.current = v, !.source = <<e.root>>]
deeper(e) == {[e EXCEPT !.depth = @ + 1] : x \in {y \in {0} : e.depth < MaxEvalDepth}}

Produced(vals) == [vals |-> vals, ok |-> TRUE]
Broken == [vals |-> <<>>, ok |-> FALSE]
Then(a, b) == IF a.ok THEN [vals |-> a.vals \o b.vals, ok |-> b.ok] ELSE a
Collected(r) == {v \in {r.vals} : r.ok}

memberOf(v, name) == IF v.t = "document" THEN Get(v, name) ELSE Null
elementAt(v, index) ==
  IF v.t # "array" THEN {Null}
  ELSE LET i == IF index < 0 THEN index + Len(v.items) ELSE index
       IN IF i < 0 THEN {} ELSE {IF i >= Len(v.items) THEN Null ELSE v.items[i + 1]}

\* The parts call one another through one operator.
RECURSIVE eval(_, _, _, _)
evalScalar(n, e) == eval("scalar", n, e, <<>>)
evalSeq(n, e) == eval("seq", n, e, <<>>)
walkSteps(v, steps, e) == eval("steps", v, e, steps)
mapEach(body, vs, e) == eval("map", body, e, vs)
filterEach(cond, vs, e) == eval("filter", cond, e, vs)
evalArgs(ns, params, e) == eval("args", ns, e, params)
evalFields(fields, d, e) == eval("fields", fields, e, d)
quantified(n, vs, right, e) == eval("quantified", n, e, <<vs, right>>)

scalarArg(n, e) == IF IsSequence(n) THEN {Array(vs) : vs \in Collected(evalSeq(n, e))} ELSE evalScalar(n, e)
seqValues(n, e) ==
  IF IsSequence(n) THEN evalSeq(n, e)
  ELSE LET v == evalScalar(n, e) IN IF v = {} THEN Broken ELSE Produced(items(CHOOSE x \in v : TRUE))
seqArg(n, e) == {Array(vs) : vs \in Collected(seqValues(n, e))}

\* A step that asks for an element of something else finds null.
Step(v, steps, e) ==
  IF steps = <<>> THEN {v}
  ELSE LET s == Head(steps)
           found == CASE s.s = "field" -> {memberOf(v, s.name)}
                      [] s.s = "index" -> elementAt(v, s.index)
                      [] s.s = "param" -> {Null}
                      [] OTHER -> {}
       IN UNION {walkSteps(w, Tail(steps), e) : w \in found}
WalkPath(n, steps, e) ==
  UNION {walkSteps(IF n.root = "@" THEN e.current ELSE e.root, steps, f) : f \in deeper(e)}

pathSeq(n, e) ==
  LET host == WalkPath(n, Front(n.steps), e)
      last == Last(n.steps)
  IN IF host = {} THEN Broken
     ELSE LET h == CHOOSE x \in host : TRUE
          IN IF h.t # "array" THEN Produced(<<>>)
             ELSE IF last.s = "all" THEN Produced(h.items) ELSE filterEach(last.expr, h.items, e)

MapEach(body, vs, e) ==
  IF vs = <<>> THEN Produced(<<>>)
  ELSE Then(evalSeq(body, withCurrent(e, Head(vs))), mapEach(body, Tail(vs), e))
FilterEach(cond, vs, e) ==
  IF vs = <<>> THEN Produced(<<>>)
  ELSE LET keep == evalScalar(cond, withCurrent(e, Head(vs)))
       IN IF keep = {} THEN Broken
          ELSE Then(Produced(IF IsTrue(keep) THEN <<Head(vs)>> ELSE <<>>), filterEach(cond, Tail(vs), e))

isAscending(v) == v.t = "int32" /\ v.n > 0
\* In the order of the keys, those alike in the order they came.
Sorted(vs, keys, sign, fc) ==
  LET place(i) == 1 + Cardinality({j \in DOMAIN vs : LET c == sign * Compare(keys[j], keys[i], fc)
                                                     IN c < 0 \/ (c = 0 /\ j < i)})
  IN [p \in DOMAIN vs |-> vs[CHOOSE i \in DOMAIN vs : place(i) = p]]
sortSeq(n, e) ==
  LET input == seqValues(n.input, e)
      extra == IF n.args = <<>> THEN {Int32(1)} ELSE scalarArg(n.args[1], e)
      keys == [i \in DOMAIN input.vals |-> evalScalar(n.lambda[1], withCurrent(e, input.vals[i]))]
  IN IF ~input.ok \/ extra = {} \/ \E i \in DOMAIN keys : keys[i] = {} THEN Broken
     ELSE Produced(Sorted(input.vals, [i \in DOMAIN keys |-> CHOOSE k \in keys[i] : TRUE],
                          IF \E x \in extra : isAscending(x) THEN 1 ELSE -1, e.fold))

funcSeq(n, e) ==
  LET input == seqValues(n.input, e)
      end == [vals |-> <<>>, ok |-> input.ok]
  IN CASE n.name = "MAP"    -> Then(mapEach(n.lambda[1], input.vals, e), end)
       [] n.name = "FILTER" -> Then(filterEach(n.lambda[1], input.vals, e), end)
       [] n.name = "SORT"   -> sortSeq(n, e)

EvalArgs(ns, params, e) ==
  IF ns = <<>> THEN {<<>>}
  ELSE UNION {{<<v>> \o rest : rest \in evalArgs(Tail(ns), Tail(params), e)} :
                v \in IF Head(params) = "seq" THEN seqArg(Head(ns), e) ELSE scalarArg(Head(ns), e)}
methodCall(n, e) ==
  UNION {UNION {call(n.name, args) : args \in evalArgs(n.args, m.params, e)} :
           m \in Known(n.name, Len(n.args))}
\* Only the branch that is taken is evaluated.
condition(n, e) ==
  UNION {IF test.t # "boolean" THEN {} ELSE scalarArg(n.args[IF test.n = 1 THEN 2 ELSE 3], e) :
           test \in scalarArg(n.args[1], e)}

logical(n, e) ==
  UNION {IF l.t # "boolean" THEN {}
         ELSE IF (Base(n.op) = "AND") = (l.n = 0) THEN {l}
         ELSE {r \in evalScalar(n.right, e) : r.t = "boolean"} : l \in evalScalar(n.left, e)}
\* ALL looks for one that fails and ANY for one that holds, and stops there.
Quantified(n, vs, right, e) ==
  IF vs.vals = <<>> THEN IF vs.ok THEN {Bool(Quantifier(n.op) = "ALL")} ELSE {}
  ELSE UNION {IF IsTrue({v}) # (Quantifier(n.op) = "ALL") THEN {Bool(IsTrue({v}))}
              ELSE quantified(n, [vs EXCEPT !.vals = Tail(@)], right, e) :
                v \in apply(Base(n.op), Head(vs.vals), right, e.fold)}
evalBinary(n, e) ==
  CASE Base(n.op) \in {"AND", "OR"} -> logical(n, e)
    [] Quantifier(n.op) # "" -> UNION {quantified(n, seqValues(n.left, e), r, e) : r \in evalScalar(n.right, e)}
    [] OTHER -> UNION {UNION {apply(Base(n.op), l, r, e.fold) : r \in evalScalar(n.right, e)} :
                         l \in evalScalar(n.left, e)}

EvalFields(fields, d, e) ==
  IF fields = <<>> THEN {d}
  ELSE UNION {evalFields(Tail(fields), SetKey(d, Head(fields).key, v), e) :
                v \in scalarArg(Head(fields).value, e)}
Ones(n) == [i \in DOMAIN n.items |-> "one"]

Scalar(n, e0) ==
  IF IsSequence(n) THEN {}
  ELSE UNION {CASE n.k = "const"     -> {n.value}
                [] n.k = "parameter" -> {Null}
                [] n.k = "paren"     -> evalScalar(n.inner, e)
                [] n.k = "path"      -> WalkPath(n, n.steps, e)
                [] n.k = "document"  -> evalFields(n.fields, Document(<<>>, <<>>), e)
                [] n.k = "array"     -> {Array(vs) : vs \in evalArgs(n.items, Ones(n), e)}
                [] n.k = "call"      -> IF n.name = "IIF" THEN condition(n, e) ELSE methodCall(n, e)
                [] n.k = "func"      -> {}
                [] n.k = "binary"    -> evalBinary(n, e) : e \in deeper(e0)}

Several(n, e0) ==
  IF ~IsSequence(n)
  THEN LET v == evalScalar(n, e0) IN IF v = {} THEN Broken ELSE Produced(<<CHOOSE x \in v : TRUE>>)
  ELSE IF deeper(e0) = {} THEN Broken
  ELSE LET e == CHOOSE x \in deeper(e0) : TRUE
       IN CASE n.k = "paren"  -> evalSeq(n.inner, e)
            [] n.k = "source" -> Produced(e.source)
            [] n.k = "path"   -> pathSeq(n, e)
            [] n.k = "func"   -> funcSeq(n, e)
            [] n.k = "call"   -> LET v == methodCall(n, e)
                                 IN IF v = {} THEN Broken ELSE Produced(items(CHOOSE x \in v : TRUE))

eval(what, n, e, x) ==
  CASE what = "scalar"     -> Scalar(n, e)
    [] what = "seq"        -> Several(n, e)
    [] what = "steps"      -> Step(n, x, e)
    [] what = "map"        -> MapEach(n, x, e)
    [] what = "filter"     -> FilterEach(n, x, e)
    [] what = "args"       -> EvalArgs(n, x, e)
    [] what = "fields"     -> EvalFields(n, x, e)
    [] what = "quantified" -> Quantified(n, x[1], x[2], e)

Execute(n, doc) == evalSeq(n, newEnv(doc, IgnoreCase))
KeysOf(n, doc) == {IndexKeys(vs) : vs \in Collected(Execute(n, doc))}

-----------------------------------------------------------------------------
(* The index.                                                              *)
PrimaryIndexExpression == <<"$", ".", "_id">>
checkIndexSpec(n, unique) == IsIndexable(n) /\ ~(unique /\ IsSequence(n))
normIndexExpr(text) == LET ns == Parse(text) IN IF ns = {} THEN text ELSE Printed(CHOOSE n \in ns : TRUE)

Init == stored = <<>> /\ asked = <<>>

EnsureIndex(text, unique) ==
  \E n \in Parse(text) :
    LET norm == Printed(n)
    IN /\ checkIndexSpec(n, unique)
       /\ norm # PrimaryIndexExpression
       /\ IF stored = <<>> THEN stored' = norm ELSE normIndexExpr(stored) = norm /\ UNCHANGED stored
       /\ asked' = text

DropIndex == stored # <<>> /\ stored' = <<>> /\ asked' = <<>>

Next == \/ \E text \in (IF stored = <<>> THEN Texts ELSE Again), unique \in BOOLEAN : EnsureIndex(text, unique)
        \/ DropIndex
Spec == Init /\ [][Next]_vars

-----------------------------------------------------------------------------
(* The text on the page is read again as a tree that asks for the same      *)
(* names, yields one or several as the caller's did, has the same keys on   *)
(* every document and is written the same way.                             *)
KeepsMeaning ==
  stored # <<>> =>
    \E n \in Parse(stored), m \in Parse(asked) :
      /\ Printed(n) = stored
      /\ Fields(n) = Fields(m) /\ IsSequence(n) = IsSequence(m) /\ IsIndexable(n)
      /\ \A d \in Docs : KeysOf(n, d) = KeysOf(m, d)
=============================================================================
