----------------------------- MODULE ExprSyntax -----------------------------
(***************************************************************************)
(* The text of an expression, its tree, and the tree written as text again: *)
(* token.go, parse.go, ast.go and print.go of internal/xbexpr.             *)
(*                                                                         *)
(* A text is a sequence of glyphs: a mark, a blank, a word, a number or a   *)
(* quoted string each.  What the lexer joins (!=, >=, a $ and a word, two   *)
(* minus signs) it joins here; a word is one glyph.  A parser returns the   *)
(* set of what it read, with the place where it stopped: the set is empty   *)
(* when the text is in error.                                              *)
(***************************************************************************)
EXTENDS Values, SequencesExt

CONSTANTS
  Ints, Doubles, \* the numbers as they are written, with their values
  Quoted,        \* the quoted strings as they are written, with their contents
  OddNames,      \* contents that are no word
  Upper,         \* words that are not in upper case, and the same words in it
  MaxDepth,      \* how deep operands may nest
  MaxInt32, MaxInt64,
  TextNumber     \* the number Values orders the contents of a string by

-----------------------------------------------------------------------------
(* Tokens.                                                                 *)
isWord(t) ==
  /\ t \notin {"{", "}", "[", "]", "(", ")", ",", ":", "@", ".", "$", "!", "!=", "=", ">", ">=",
               "<", "<=", "-", "+", "*", "/", "%", " ", "\n", ""}
  /\ t \notin DOMAIN Ints /\ t \notin DOMAIN Doubles /\ t \notin DOMAIN Quoted /\ t \notin OddNames
upperASCII(t) == IF t \in DOMAIN Upper THEN Upper[t] ELSE t
is(t, w) == isWord(t) /\ upperASCII(t) = w
isKeyword(t) == isWord(t) /\ upperASCII(t) \in {"BETWEEN", "LIKE", "IN", "AND", "OR", "VECTOR_SIM"}
isOperand(t) == t \in {"%", "/", "*", "+", "-", "=", ">", ">=", "<", "<=", "!="} \/ isKeyword(t)

readNext(acc, g) ==
  LET last == IF acc.out = <<>> THEN "" ELSE Last(acc.out)
      joined == [acc EXCEPT !.out = Append(Front(acc.out), last \o g)]
  IN CASE acc.comment                              -> [acc EXCEPT !.comment = g # "\n"]
       [] g = "-" /\ last = "-"                    -> [out |-> Front(acc.out), comment |-> TRUE]
       [] g = "=" /\ last \in {"!", ">", "<"}      -> joined
       [] isWord(g) /\ last = "$"                  -> joined
       [] g \in {" ", "\n"}                        -> IF last = " " THEN acc ELSE [acc EXCEPT !.out = Append(@, " ")]
       [] OTHER                                    -> [acc EXCEPT !.out = Append(@, g)]
RECURSIVE LexFrom(_, _, _)
LexFrom(text, i, acc) == IF i > Len(text) THEN acc.out ELSE LexFrom(text, i + 1, readNext(acc, text[i]))
Lex(text) == LexFrom(text, 1, [out |-> <<>>, comment |-> FALSE])

\* The token at a place, "" at the end; blanks are skipped where asked.
At(s, i) == IF i > Len(s) THEN "" ELSE s[i]
Skip(s, i) == IF At(s, i) = " " THEN i + 1 ELSE i
Ahead(s, i) == At(s, Skip(s, i))
Past(s, i) == Skip(s, i) + 1

-----------------------------------------------------------------------------
(* Operators: a quantifier and an operation, in the order they bind.  ANY   *)
(* and ALL go with the nine comparisons only.                              *)
opTable == <<"%", "/", "*", "+", "-", "VECTOR_SIM", "LIKE", "BETWEEN", "IN", ">", ">=", "<", "<=",
             "!=", "=", "AND", "OR">>
Place(base) == CHOOSE i \in 1..17 : opTable[i] = base
Quantifier(op) == op[1]
Base(op) == op[2]
Exists(op) == Quantifier(op) = "" \/ Place(Base(op)) \in 7..15
Rank(op) == Place(Base(op)) + (CASE Quantifier(op) = "ANY" -> 9 [] Quantifier(op) = "ALL" -> 18
                                 [] OTHER -> IF Base(op) \in {"AND", "OR"} THEN 18 ELSE 0)
OpText(op) ==
  LET b == Base(op)
      q == IF Quantifier(op) = "" THEN <<>> ELSE <<" ", Quantifier(op)>>
  IN q \o (IF isKeyword(b) THEN <<" ", b, " ">> ELSE <<b>>)

-----------------------------------------------------------------------------
(* Nodes.                                                                  *)
ConstNode(v) == [k |-> "const", value |-> v]
PathNode(root, steps, scope) == [k |-> "path", root |-> root, steps |-> steps, scope |-> scope]
DocumentNode(fields) == [k |-> "document", fields |-> fields]
ArrayNode(items) == [k |-> "array", items |-> items]
ParameterNode(name) == [k |-> "parameter", name |-> name]
ParenNode(inner) == [k |-> "paren", inner |-> inner]
CallNode(name, args, path) == [k |-> "call", name |-> name, args |-> args, pathItems |-> path]
FuncNode(name, input, lambda, args) ==
  [k |-> "func", name |-> name, input |-> input, lambda |-> lambda, args |-> args]
BinaryNode(op, left, right) == [k |-> "binary", op |-> op, left |-> left, right |-> right]
SourceNode == [k |-> "source"]

Field(name) == [s |-> "field", name |-> name]
Index(i) == [s |-> "index", index |-> i]
All == [s |-> "all"]
ParamIndex(n) == [s |-> "param", expr |-> n]
Filter(n) == [s |-> "filter", expr |-> n]

\* The methods, what their arguments are (one value or several), whether they
\* yield several, and whether they yield the same each time.
Method(name, params, several, volatile) ==
  [name |-> name, params |-> params, several |-> several, volatile |-> volatile]
registry ==
  {Method(m, <<"seq">>, FALSE, FALSE) : m \in {"COUNT", "MIN", "MAX", "FIRST", "LAST", "SUM", "ANY", "ARRAY"}} \cup
  {Method(m, <<"one">>, TRUE, FALSE) : m \in {"ITEMS", "KEYS", "VALUES"}} \cup
  {Method(m, <<"seq", "seq">>, TRUE, FALSE) : m \in {"CONCAT", "UNION", "EXCEPT"}} \cup
  {Method("DISTINCT", <<"seq">>, TRUE, FALSE), Method("TOP", <<"seq", "one">>, TRUE, FALSE),
   Method("LENGTH", <<"one">>, FALSE, FALSE), Method("COALESCE", <<"one", "one">>, FALSE, FALSE),
   Method("EXTEND", <<"one", "one">>, FALSE, FALSE),
   Method("IIF", <<"one", "one", "one">>, FALSE, FALSE), Method("RANDOM", <<>>, FALSE, TRUE)}
Known(name, argc) == {m \in registry : m.name = name /\ Len(m.params) = argc}

RECURSIVE IsSequence(_)
IsSequence(n) ==
  CASE n.k = "path"  -> n.steps # <<>> /\ Last(n.steps).s \in {"all", "filter"}
    [] n.k = "paren" -> IsSequence(n.inner)
    [] n.k = "call"  -> \E m \in Known(n.name, Len(n.args)) : m.several
    [] n.k = "func"  -> n.name # "VECTOR_SIM"
    [] OTHER         -> n.k = "source"

RECURSIVE Stripped(_)
Stripped(n) == IF n.k = "paren" THEN Stripped(n.inner) ELSE n
printsAsPath(n) == Stripped(n).k = "path"
wrapItems(n) == CallNode("ITEMS", <<n>>, printsAsPath(n))
wrapArray(n) == CallNode("ARRAY", <<n>>, FALSE)
asOne(n) == IF IsSequence(n) THEN wrapArray(n) ELSE n

Children(n) ==
  CASE n.k = "path"     -> LET has == SelectSeq(n.steps, LAMBDA s : s.s \in {"param", "filter"})
                           IN [i \in DOMAIN has |-> has[i].expr]
    [] n.k = "document" -> [i \in DOMAIN n.fields |-> n.fields[i].value]
    [] n.k = "array"    -> n.items
    [] n.k = "paren"    -> <<n.inner>>
    [] n.k = "call"     -> n.args
    [] n.k = "func"     -> <<n.input>> \o n.lambda \o n.args
    [] n.k = "binary"   -> <<n.left, n.right>>
    [] OTHER            -> <<>>
RECURSIVE Walk(_)
Walk(n) == <<n>> \o FlattenSeq([i \in DOMAIN Children(n) |-> Walk(Children(n)[i])])

\* The names a tree needs of a document, "$" for all of it.
IsRooted(n) == n.root = "$" \/ n.scope = "source"
Fields(n) ==
  {upperASCII(IF p.steps # <<>> /\ p.steps[1].s = "field" THEN p.steps[1].name ELSE "$") :
     p \in {x \in ToSet(Walk(n)) : x.k = "path" /\ IsRooted(x)}}
  \cup {"$" : x \in {y \in ToSet(Walk(n)) : y.k = "source"}}

IsIndexable(n) ==
  /\ \E x \in ToSet(Walk(n)) : x.k = "path" /\ x.root = "$"
  /\ \A x \in ToSet(Walk(n)) :
       /\ x.k # "parameter"
       /\ x.k = "call" => \A m \in Known(x.name, Len(x.args)) : ~m.volatile

-----------------------------------------------------------------------------
(* Writing a tree as text.                                                 *)
Written(names, x) == CHOOSE t \in DOMAIN names : names[t] = x
appendQuoted(name) == <<Written(Quoted, name)>>
appendName(name) == IF isWord(name) THEN <<name>> ELSE appendQuoted(name)
appendNumber(names, x) == IF x < 0 THEN <<"-", Written(names, -x)>> ELSE <<Written(names, x)>>
appendConst(v) ==
  CASE v.t = "null"              -> <<"null">>
    [] v.t = "boolean"           -> <<IF v.n = 1 THEN "true" ELSE "false">>
    [] v.t \in {"int32", "int64"} -> appendNumber(Ints, v.n \div 2)
    [] v.t = "double"            -> appendNumber(Doubles, v.n)
    [] v.t = "string"            -> appendQuoted(CHOOSE name \in DOMAIN TextNumber : TextNumber[name] = v.n)

Listed(parts) == FlattenSeq([i \in DOMAIN parts |-> IF i = 1 THEN parts[i] ELSE <<",">> \o parts[i]])

RECURSIVE Printed(_)
PrintStep(s) ==
  CASE s.s = "field" -> IF isWord(s.name) THEN <<".", s.name>> ELSE <<".", "[">> \o appendQuoted(s.name) \o <<"]">>
    [] s.s = "index" -> <<"[">> \o appendNumber(Ints, s.index) \o <<"]">>
    [] s.s = "all"   -> <<"[", "*", "]">>
    [] OTHER         -> <<"[">> \o Printed(s.expr) \o <<"]">>
PrintAll(ns) == Listed([i \in DOMAIN ns |-> Printed(ns[i])])
PrintCall(n) == IF n.pathItems /\ Len(n.args) = 1 THEN Printed(n.args[1]) \o <<"[", "*", "]">>
                ELSE <<n.name, "(">> \o PrintAll(n.args) \o <<")">>
PrintFunc(n) ==
  <<n.name, "(">> \o Printed(n.input) \o (IF n.lambda = <<>> THEN <<>> ELSE <<"=", ">">> \o Printed(n.lambda[1]))
    \o FlattenSeq([i \in DOMAIN n.args |-> <<",">> \o Printed(n.args[i])]) \o <<")">>

\* A mutant: no blank, and the bounds of BETWEEN as the array they are.
PrintBinaryTight(n) == Printed(n.left) \o OpText(n.op) \o Printed(n.right)

\* A minus in front of a negative number keeps a blank: two of them would
\* begin a comment.
PrintBinary(n) ==
  LET right == Printed(n.right)
  IN Printed(n.left) \o OpText(n.op) \o
     (IF Base(n.op) = "BETWEEN" /\ n.right.k = "array"
      THEN IF Len(n.right.items) = 2
           THEN Printed(n.right.items[1]) \o <<" ", "AND", " ">> \o Printed(n.right.items[2]) ELSE right
      ELSE IF n.op = <<"", "-">> /\ right[1] = "-" THEN <<" ">> \o right ELSE right)

Printed(n) ==
  CASE n.k = "const"     -> appendConst(n.value)
    [] n.k = "path"      -> <<n.root>> \o FlattenSeq([i \in DOMAIN n.steps |-> PrintStep(n.steps[i])])
    [] n.k = "document"  -> <<"{">> \o Listed([i \in DOMAIN n.fields |->
                              appendName(n.fields[i].key) \o <<":">> \o Printed(n.fields[i].value)]) \o <<"}">>
    [] n.k = "array"     -> <<"[">> \o PrintAll(n.items) \o <<"]">>
    [] n.k = "parameter" -> <<"@", n.name>>
    [] n.k = "paren"     -> <<"(">> \o Printed(n.inner) \o <<")">>
    [] n.k = "call"      -> PrintCall(n)
    [] n.k = "func"      -> PrintFunc(n)
    [] n.k = "binary"    -> PrintBinary(n)
    [] n.k = "source"    -> <<"*">>

-----------------------------------------------------------------------------
(* Reading.                                                                *)
Read(n, i) == {[n |-> n, at |-> i]}

numberLiteral(t, sign, i) ==
  IF t \in DOMAIN Doubles THEN Read(ConstNode(Double(sign * Doubles[t])), i)
  ELSE LET x == sign * Ints[t]
       IN CASE x \in (-MaxInt32 - 1)..MaxInt32 -> Read(ConstNode(Int32(x)), i)
            [] x \in (-MaxInt64 - 1)..MaxInt64 -> Read(ConstNode(Int64(x)), i)
            [] OTHER -> {}
isNumberToken(t) == t \in DOMAIN Ints \cup DOMAIN Doubles

\* Merges the operands around the operator that binds first, the leftmost of
\* those that bind alike, until one is left.
RECURSIVE fold(_, _)
fold(values, ops) ==
  IF ops = <<>> THEN {values[1]}
  ELSE LET i == CHOOSE j \in DOMAIN ops : \A m \in DOMAIN ops : \/ Rank(ops[m]) > Rank(ops[j])
                                                                \/ ops[m] = ops[j] /\ m >= j
           many == Quantifier(ops[i]) # ""
           left == IF many /\ ~IsSequence(values[i]) THEN wrapItems(values[i]) ELSE values[i]
           node == BinaryNode(ops[i], left, values[i + 1])
       IN IF (~many /\ IsSequence(left)) \/ IsSequence(values[i + 1]) THEN {}
          ELSE fold(SubSeq(values, 1, i - 1) \o <<node>> \o SubSeq(values, i + 2, Len(values)),
                    RemoveAt(ops, i))

\* What stands where an operator may: none, one, or an error.
readOperator(s, i) ==
  LET t == Ahead(s, i)
      u == Ahead(s, Past(s, i))
      op == IF isOperand(t) THEN <<"", upperASCII(t)>> ELSE <<upperASCII(t), upperASCII(u)>>
      two == is(t, "ANY") \/ is(t, "ALL")
  IN CASE isOperand(t) -> {[op |-> op, at |-> Past(s, i)]}
       [] two -> {[op |-> op, at |-> Past(s, Past(s, i))] : x \in {y \in {u} : isOperand(y) /\ Exists(op)}}
       [] OTHER -> {[op |-> <<>>, at |-> Skip(s, i)]}

readField(s, i, cur) ==
  CASE cur = "[" -> IF Ahead(s, i) \in DOMAIN Quoted /\ Ahead(s, Past(s, i)) = "]"
                    THEN {[name |-> Quoted[Ahead(s, i)], at |-> Past(s, Past(s, i))]} ELSE {}
    [] isWord(cur) -> {[name |-> cur, at |-> i]}
    [] OTHER       -> {[name |-> "", at |-> i]}
WithField(steps, name) == IF name = "" THEN steps ELSE Append(steps, Field(name))

checkFuncShape(name, lambda, args) ==
  CASE name \in {"MAP", "FILTER"} -> lambda # <<>> /\ args = <<>>
    [] name = "SORT"              -> lambda # <<>> /\ Len(args) <= 1
    [] name = "VECTOR_SIM"        -> lambda = <<>> /\ Len(args) = 1

\* The parts call one another through one operator.
RECURSIVE parse(_, _, _, _, _, _)
parseSingle(s, i, scope, d) == parse("single", s, i, scope, d, <<>>)
parseFull(s, i, scope, d) == parse("full", s, i, scope, d, <<>>)
parseOperators(s, i, scope, d, values, ops) == parse("operators", s, i, scope, d, <<values, ops>>)
parseItems(s, i, scope, d, close, items) == parse("items", s, i, scope, d, <<close, items>>)
parseFields(s, i, scope, d, fields) == parse("fields", s, i, scope, d, fields)
parseSteps(s, i, steps, d) == parse("steps", s, i, "current", d, steps)

Full(s, i, scope, d) ==
  UNION {parseOperators(s, r.at, scope, d, <<r.n>>, <<>>) : r \in parseSingle(s, i, scope, d)}

\* The bounds of BETWEEN are packed into one operand.
parseBounds(s, i, scope, d) ==
  UNION {IF ~is(Ahead(s, lo.at), "AND") THEN {}
         ELSE UNION {IF IsSequence(lo.n) \/ IsSequence(hi.n) THEN {}
                     ELSE Read(ArrayNode(<<lo.n, hi.n>>), hi.at) :
                       hi \in parseSingle(s, Past(s, lo.at), scope, d)} :
           lo \in parseSingle(s, i, scope, d)}

Operators(s, i, scope, d, values, ops) ==
  UNION {IF o.op = <<>> THEN {[n |-> n, at |-> o.at] : n \in fold(values, ops)}
         ELSE UNION {parseOperators(s, r.at, scope, d, Append(values, r.n), Append(ops, o.op)) :
                       r \in IF Base(o.op) = "BETWEEN" THEN parseBounds(s, o.at, scope, d)
                                                       ELSE parseSingle(s, o.at, scope, d)} :
           o \in readOperator(s, i)}

\* A list that ends in close; i is past the mark that opened it.
Items(s, i, scope, d, close, items) ==
  UNION {LET more == Append(items, r.n)
         IN CASE Ahead(s, r.at) = ","   -> parseItems(s, Past(s, r.at), scope, d, close, more)
              [] Ahead(s, r.at) = close -> {[items |-> more, at |-> Past(s, r.at)]}
              [] OTHER                  -> {} :
           r \in parseFull(s, i, scope, d)}
parseList(s, i, scope, d, close) ==
  IF Ahead(s, i) = close THEN {[items |-> <<>>, at |-> Past(s, i)]}
                         ELSE parseItems(s, i, scope, d, close, <<>>)

parseSource(s, i, d) ==
  IF At(s, i) # "." THEN Read(SourceNode, i)
  ELSE {[n |-> FuncNode("MAP", SourceNode, <<r.n>>, <<>>), at |-> r.at] :
          r \in parseSingle(s, i + 1, "source", d)}

\* A key without a value stands for the field of that name of the document.
readKey(t) == IF t \in DOMAIN Quoted THEN Quoted[t] ELSE t
DocFields(s, i, scope, d, fields) ==
  LET key == readKey(Ahead(s, i))
      j == Past(s, i)
      value == IF Ahead(s, j) = ":" THEN parseFull(s, Past(s, j), scope, d)
               ELSE Read(PathNode("$", WithField(<<>>, key), "root"), j)
  IN IF ~(isWord(Ahead(s, i)) \/ Ahead(s, i) \in DOMAIN Quoted \cup DOMAIN Ints) THEN {}
     ELSE UNION {LET more == Append(fields, [key |-> key, value |-> asOne(r.n)])
                 IN CASE Ahead(s, r.at) = "," -> parseFields(s, Past(s, r.at), scope, d, more)
                      [] Ahead(s, r.at) = "}" -> Read(DocumentNode(more), Past(s, r.at))
                      [] OTHER                -> {} : r \in value}
parseDocument(s, i, scope, d) ==
  IF Ahead(s, i) = "}" THEN Read(DocumentNode(<<>>), Past(s, i)) ELSE parseFields(s, i, scope, d, <<>>)

parseArray(s, i, scope, d) ==
  {[n |-> ArrayNode([j \in DOMAIN r.items |-> asOne(r.items[j])]), at |-> r.at] :
     r \in parseList(s, i, scope, d, "]")}

parseCall(s, i, name, scope, d) ==
  {[n |-> CallNode(name, r.items, FALSE), at |-> r.at] :
     r \in {l \in parseList(s, i, scope, d, ")") : Known(name, Len(l.items)) # {}}}

\* A single value as the input of MAP, FILTER and SORT is spread first.
parseFunc(s, i, name, scope, d) ==
  UNION {LET input == IF name # "VECTOR_SIM" /\ ~IsSequence(r.n) THEN wrapItems(r.n) ELSE r.n
             inner == IF Stripped(input).k = "source" THEN "source" ELSE "current"
             arrow == Ahead(s, r.at) = "="
             body == IF ~arrow THEN {[l |-> <<>>, at |-> r.at]}
                     ELSE IF Ahead(s, Past(s, r.at)) # ">" THEN {}
                     ELSE {[l |-> <<b.n>>, at |-> b.at] :
                             b \in parseFull(s, Past(s, Past(s, r.at)), inner, d)}
         IN UNION {LET rest == CASE Ahead(s, b.at) = ")" -> {[items |-> <<>>, at |-> Past(s, b.at)]}
                                 [] Ahead(s, b.at) = "," -> parseItems(s, Past(s, b.at), scope, d, ")", <<>>)
                                 [] OTHER -> {}
                   IN {[n |-> FuncNode(name, input, b.l, a.items), at |-> a.at] :
                         a \in {x \in rest : checkFuncShape(name, b.l, x.items)}} : b \in body} :
           r \in parseSingle(s, i, scope, d)}

parseSubscript(s, i, d) ==
  LET t == Ahead(s, i)
      u == Ahead(s, Past(s, i))
      step == CASE t \in DOMAIN Ints -> {[step |-> Index(Ints[t]), at |-> Past(s, i)]}
                [] t = "-" -> IF u \notin DOMAIN Ints THEN {}
                              ELSE {[step |-> Index(-Ints[u]), at |-> Past(s, Past(s, i))]}
                [] t = "*" -> {[step |-> All, at |-> Past(s, i)]}
                [] OTHER -> {[step |-> IF Stripped(r.n).k = "parameter" THEN ParamIndex(r.n) ELSE Filter(r.n),
                              at |-> r.at] : r \in parseFull(s, i, "current", d)}
  IN {[step |-> r.step, at |-> Past(s, r.at)] : r \in {x \in step : Ahead(s, x.at) = "]"}}

Steps(s, i, steps, d) ==
  CASE At(s, i) = "." -> UNION {parseSteps(s, f.at, WithField(steps, f.name), d) :
                                  f \in readField(s, i + 2, At(s, i + 1))}
    [] At(s, i) = "[" -> UNION {IF r.step.s \in {"all", "filter"}
                                THEN {[steps |-> Append(steps, r.step), at |-> r.at]}
                                ELSE parseSteps(s, r.at, Append(steps, r.step), d) :
                                  r \in parseSubscript(s, i + 1, d)}
    [] OTHER -> {[steps |-> steps, at |-> i]}

\* Past a step that yields several, what follows a dot is asked of each.
parsePath(s, i, t, scope, d) ==
  LET dotted == t \in {"@", "$"} /\ At(s, i) = "."
      j == IF dotted THEN Past(s, i + 1) ELSE i
      cur == IF dotted THEN Ahead(s, i + 1) ELSE t
      root == CASE t = "@" -> "@" [] t = "$" -> "$" [] OTHER -> IF scope = "root" THEN "$" ELSE "@"
  IN UNION {UNION {LET path == PathNode(root, p.steps, scope)
                   IN IF IsSequence(path) /\ At(s, p.at) = "."
                      THEN {[n |-> FuncNode("MAP", path, <<r.n>>, <<>>), at |-> r.at] :
                              r \in parseSingle(s, p.at + 1, "current", d)}
                      ELSE Read(path, p.at) :
                     p \in parseSteps(s, f.at, WithField(<<>>, f.name), d)} :
              f \in readField(s, j, cur)}

Single(s, i, scope, depth) ==
  LET t == Ahead(s, i)
      j == Past(s, i)
      d == depth + 1
      called == isWord(t) /\ Ahead(s, j) = "("
  IN CASE depth >= MaxDepth -> {}
       [] isNumberToken(t) -> numberLiteral(t, 1, j)
       [] t = "-" -> IF isNumberToken(At(s, j)) THEN numberLiteral(At(s, j), -1, j + 1) ELSE {}
       [] is(t, "TRUE") -> Read(ConstNode([t |-> "boolean", n |-> 1]), j)
       [] is(t, "FALSE") -> Read(ConstNode([t |-> "boolean", n |-> 0]), j)
       [] is(t, "NULL") -> Read(ConstNode(Null), j)
       [] t \in DOMAIN Quoted -> Read(ConstNode(String(TextNumber[Quoted[t]], FALSE)), j)
       [] t = "*" -> parseSource(s, j, d)
       [] t = "{" -> parseDocument(s, j, scope, d)
       [] t = "[" -> parseArray(s, j, scope, d)
       [] t = "@" /\ (isWord(At(s, j)) \/ At(s, j) \in DOMAIN Ints) -> Read(ParameterNode(At(s, j)), j + 1)
       [] t = "(" -> {[n |-> ParenNode(r.n), at |-> Past(s, r.at)] :
                        r \in {x \in parseFull(s, j, scope, d) : Ahead(s, x.at) = ")"}}
       [] called -> IF upperASCII(t) \in {"MAP", "FILTER", "SORT", "VECTOR_SIM"}
                    THEN parseFunc(s, Past(s, j), upperASCII(t), scope, d)
                    ELSE parseCall(s, Past(s, j), upperASCII(t), scope, d)
       [] t \in {"@", "$"} -> parsePath(s, j, t, scope, d)
       [] isWord(t) -> parsePath(s, Skip(s, j), t, scope, d)
       [] OTHER -> {}

parse(what, s, i, scope, d, x) ==
  CASE what = "single"    -> Single(s, i, scope, d)
    [] what = "full"      -> Full(s, i, scope, d)
    [] what = "operators" -> Operators(s, i, scope, d, x[1], x[2])
    [] what = "items"     -> Items(s, i, scope, d, x[1], x[2])
    [] what = "fields"    -> DocFields(s, i, scope, d, x)
    [] what = "steps"     -> Steps(s, i, x, d)

\* A whole text.
Parse(text) == LET s == Lex(text)
               IN {r.n : r \in {x \in parseFull(s, 1, "root", 0) : Ahead(s, x.at) = ""}}
=============================================================================
