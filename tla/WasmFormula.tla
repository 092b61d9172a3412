---------------------------- MODULE WasmFormula ----------------------------
(***************************************************************************)
(* The formula language of crates/quilt-core-wasm: tokens, the recursive-  *)
(* descent parser, the evaluator and the dependencies of an expression.    *)
(* A text is a sequence of characters, an identifier the sequence of its   *)
(* characters.  Numbers are integers: the digits of a literal and the      *)
(* fractions of a quotient are left out, as are infinities.                *)
(***************************************************************************)
EXTENDS WasmJson, Integers, SequencesExt

CONSTANTS Digit, Letter,  \* the characters of numbers and of words
          True, False,    \* the words true and false
          Helper          \* from a word to "clamp", "abs", "min" or "max"

WordChar == Digit \cup Letter \cup {"."}

At(s, i) == IF i \in 1..Len(s) THEN s[i] ELSE "end"

\* The last position of a run of characters of a set that starts at i.
RunEnd(s, i, chars) ==
  CHOOSE j \in i..Len(s) : /\ \A k \in i..j : s[k] \in chars
                           /\ At(s, j + 1) \notin chars

Tok(kind, text) == [kind |-> kind, text |-> text]

StartsNumber(s, i) == \/ s[i] \in Digit
                      \/ s[i] = "." /\ At(s, i + 1) \in Digit

\* A number's dots and digits, and an exponent if digits follow it.
NumberEnd(s, i) ==
  LET body == RunEnd(s, i, Digit \cup {"."})
      sign == IF At(s, body + 2) \in {"+", "-"} THEN body + 3 ELSE body + 2
  IN  IF At(s, body + 1) \in {"e", "E"} /\ At(s, sign) \in Digit
      THEN RunEnd(s, sign, Digit) ELSE body

Pairs == {<< "=", "=" >>, << "!", "=" >>, << ">", "=" >>, << "<", "=" >>,
          << "&", "&" >>, << "|", "|" >>}
Singles == {"(", ")", ",", "+", "-", "*", "/", "%", ">", "<", "!"}

\* No tokens but the error: for a number with two dots, and for a character no
\* token starts with.
BadTokens == << Tok("error", << >>) >>

\* toks and the tokens from position i on.
RECURSIVE Tokens(_, _, _)
Tokens(s, i, toks) ==
  IF i > Len(s) THEN toks
  ELSE IF s[i] = " " THEN Tokens(s, i + 1, toks)
  ELSE IF StartsNumber(s, i) THEN
    LET j == NumberEnd(s, i)
        text == SubSeq(s, i, j)
    IN  IF Len(SelectSeq(text, LAMBDA c : c = ".")) > 1 THEN BadTokens
        ELSE Tokens(s, j + 1, Append(toks, Tok("num", text)))
  ELSE IF s[i] \in Letter THEN
    LET j == RunEnd(s, i, WordChar)
    IN  Tokens(s, j + 1, Append(toks, Tok("ident", SubSeq(s, i, j))))
  ELSE IF << s[i], At(s, i + 1) >> \in Pairs THEN
    Tokens(s, i + 2, Append(toks, Tok(s[i] \o s[i+1], << >>)))
  ELSE IF s[i] \in Singles THEN Tokens(s, i + 1, Append(toks, Tok(s[i], << >>)))
  ELSE BadTokens

-----------------------------------------------------------------------------
\* Expressions, and the parser's answers: an expression and the position
\* behind it, or Fail.

NumE(text) == [node |-> "num", text |-> text]
BoolE(b) == [node |-> "bool", text |-> b]
IdentE(id) == [node |-> "ident", text |-> id]
UnaryE(op, e) == [node |-> "unary", op |-> op, args |-> << e >>]
BinaryE(op, l, r) == [node |-> "binary", op |-> op, args |-> << l, r >>]
CallE(name, args) == [node |-> "call", op |-> name, args |-> args]

Fail == [ok |-> FALSE]
Parsed(e, pos) == [ok |-> TRUE, expr |-> e, pos |-> pos]

\* The binary operators, loosest first; those of the third level do not chain.
BinaryOps == << {"||"}, {"&&"}, {"==", "!=", ">", ">=", "<", "<="},
                {"+", "-"}, {"*", "/", "%"} >>
UnaryOps == {"-", "!"}

\* Mutant: comparisons chain like the others.
ChainsAll(level) == TRUE

Chains(level) == level # 3

KindAt(toks, i) == IF i \in 1..Len(toks) THEN toks[i].kind ELSE "end"

RECURSIVE ParseLevel(_, _, _), ParseRest(_, _, _), ParseUnary(_, _),
          ParsePrimary(_, _), ParseArgs(_, _, _)

\* parse_or, parse_and, parse_cmp, parse_add and parse_mul.
ParseLevel(toks, level, i) ==
  IF level > Len(BinaryOps) THEN ParseUnary(toks, i)
  ELSE ParseRest(toks, level, ParseLevel(toks, level + 1, i))

\* Operators of the level and their right operands, while there are any.
ParseRest(toks, level, lhs) ==
  IF ~ lhs.ok \/ KindAt(toks, lhs.pos) \notin BinaryOps[level] THEN lhs
  ELSE LET rhs == ParseLevel(toks, level + 1, lhs.pos + 1)
           both == Parsed(BinaryE(toks[lhs.pos].kind, lhs.expr, rhs.expr), rhs.pos)
       IN  IF ~ rhs.ok THEN Fail
           ELSE IF Chains(level) THEN ParseRest(toks, level, both) ELSE both

ParseUnary(toks, i) ==
  IF KindAt(toks, i) \notin UnaryOps THEN ParsePrimary(toks, i)
  ELSE LET inner == ParseUnary(toks, i + 1)
       IN  IF inner.ok THEN Parsed(UnaryE(toks[i].kind, inner.expr), inner.pos)
           ELSE Fail

\* The value of a word that calls nothing.
WordE(id) == IF id = True THEN BoolE(TRUE)
             ELSE IF id = False THEN BoolE(FALSE) ELSE IdentE(id)

ParsePrimary(toks, i) ==
  CASE KindAt(toks, i) = "num" -> Parsed(NumE(toks[i].text), i + 1)
    [] KindAt(toks, i) = "ident" /\ KindAt(toks, i + 1) # "(" ->
         Parsed(WordE(toks[i].text), i + 1)
    [] KindAt(toks, i) = "ident" /\ KindAt(toks, i + 1) = "(" ->
         IF KindAt(toks, i + 2) = ")" THEN Parsed(CallE(toks[i].text, << >>), i + 3)
         ELSE LET args == ParseArgs(toks, i + 2, << >>)
              IN  IF args.ok /\ KindAt(toks, args.pos) = ")"
                  THEN Parsed(CallE(toks[i].text, args.expr), args.pos + 1) ELSE Fail
    [] KindAt(toks, i) = "(" ->
         LET inner == ParseLevel(toks, 1, i + 1)
         IN  IF inner.ok /\ KindAt(toks, inner.pos) = ")"
             THEN Parsed(inner.expr, inner.pos + 1) ELSE Fail
    [] OTHER -> Fail

\* The arguments of a call, up to what is no comma.
ParseArgs(toks, i, args) ==
  LET arg == ParseLevel(toks, 1, i)
      more == Append(args, arg.expr)
  IN  IF ~ arg.ok THEN Fail
      ELSE IF KindAt(toks, arg.pos) = "," THEN ParseArgs(toks, arg.pos + 1, more)
      ELSE Parsed(more, arg.pos)

Body(text) == IF At(text, 1) = "=" THEN Tail(text) ELSE text

\* compile: a leading = is stripped, tokens must be there and all be read.
Compile(text) ==
  LET toks == Tokens(Body(text), 1, << >>)
  IN  IF toks \in {BadTokens, << >>} THEN Fail
      ELSE LET answer == ParseLevel(toks, 1, 1)
           IN  IF answer.ok /\ answer.pos = Len(toks) + 1 THEN answer ELSE Fail

\* Mutant: the arguments of a call are not walked.
RECURSIVE IdentsOutsideCalls(_)
IdentsOutsideCalls(e) ==
  CASE e.node = "ident" -> {e.text}
    [] e.node \in {"num", "bool", "call"} -> {}
    [] OTHER -> UNION {IdentsOutsideCalls(e.args[i]) : i \in 1..Len(e.args)}

\* collect_idents.
RECURSIVE Idents(_)
Idents(e) ==
  CASE e.node = "ident" -> {e.text}
    [] e.node \in {"num", "bool"} -> {}
    [] OTHER -> UNION {Idents(e.args[i]) : i \in 1..Len(e.args)}

-----------------------------------------------------------------------------
\* Evaluation: a JSON value or Error.

\* What a literal's digits stand for: their number.
Literal(text) == Num(Len(text))

SignOf(a) == IF a < 0 THEN -1 ELSE 1
Magnitude(a) == SignOf(a) * a

\* Division as the code does it on integers: toward zero, the remainder with
\* the dividend's sign.
Quotient(a, b) == SignOf(a) * SignOf(b) * (Magnitude(a) \div Magnitude(b))
Remainder(a, b) == SignOf(a) * (Magnitude(a) % Magnitude(b))

Arithmetic(op, a, b) ==
  CASE op = "+" -> Num(a + b)
    [] op = "-" -> Num(a - b)
    [] op = "*" -> Num(a * b)
    [] op = "/" -> IF b = 0 THEN Error ELSE Num(Quotient(a, b))
    [] op = "%" -> IF b = 0 THEN Error ELSE Num(Remainder(a, b))
    [] op = "==" -> Bool(a = b)
    [] op = "!=" -> Bool(a # b)
    [] op = ">" -> Bool(a > b)
    [] op = ">=" -> Bool(a >= b)
    [] op = "<" -> Bool(a < b)
    [] op = "<=" -> Bool(a <= b)
    [] OTHER -> Error

Logic(op, a, b) ==
  CASE op = "==" -> Bool(a = b)
    [] op = "!=" -> Bool(a # b)
    [] op = "&&" -> Bool(a /\ b)
    [] op = "||" -> Bool(a \/ b)
    [] OTHER -> Error

\* The helpers, on numbers only; clamp takes the low bound first.
Applied(name, v) ==
  LET xs == [i \in 1..Len(v) |-> v[i].of]
      helper == IF name \in DOMAIN Helper THEN Helper[name] ELSE "none"
  IN  CASE \E i \in 1..Len(v) : v[i].type # "num" -> Error
        [] helper = "clamp" /\ Len(v) = 3 -> Num(Min({Max({xs[1], xs[2]}), xs[3]}))
        [] helper = "abs" /\ Len(v) = 1 -> Num(Magnitude(xs[1]))
        [] helper = "min" /\ v # << >> -> Num(Min(ToSet(xs)))
        [] helper = "max" /\ v # << >> -> Num(Max(ToSet(xs)))
        [] OTHER -> Error

Negated(op, v) ==
  CASE op = "-" /\ v.type = "num" -> Num(- v.of)
    [] op = "!" /\ v.type = "bool" -> Bool(~ v.of)
    [] OTHER -> Error

\* eval_expr: every operand is evaluated, and one that is an error, or neither
\* number nor boolean, makes an error of the whole.
RECURSIVE EvalExpr(_, _)
EvalExpr(e, env) ==
  LET v == [i \in 1..Len(e.args) |-> EvalExpr(e.args[i], env)]
      known == e.text \in DOMAIN env /\ env[e.text].type \in {"num", "bool"}
  IN  CASE e.node = "num" -> Literal(e.text)
        [] e.node = "bool" -> Bool(e.text)
        [] e.node = "ident" -> IF known THEN env[e.text] ELSE Error
        [] e.node \notin {"num", "bool", "ident"} ->
             IF \E i \in 1..Len(v) : v[i].type = "error" THEN Error
             ELSE CASE e.node = "unary" -> Negated(e.op, v[1])
                    [] e.node = "call" -> Applied(e.op, v)
                    [] v[1].type = "num" /\ v[2].type = "num" ->
                         Arithmetic(e.op, v[1].of, v[2].of)
                    [] v[1].type = "bool" /\ v[2].type = "bool" ->
                         Logic(e.op, v[1].of, v[2].of)
                    [] OTHER -> Error

-----------------------------------------------------------------------------
\* The native engine's test whether a formula mentions a cell: the id, not
\* inside a longer word.  (The code looks at matches that do not overlap; of
\* two that do, neither would count for an id of word characters.)
ContainsToken(text, id) ==
  \E i \in 1..Len(Body(text)) :
    LET s == Body(text) IN
      /\ i + Len(id) - 1 <= Len(s)
      /\ SubSeq(s, i, i + Len(id) - 1) = id
      /\ At(s, i - 1) \notin WordChar
      /\ At(s, i + Len(id)) \notin WordChar

-----------------------------------------------------------------------------
(***************************************************************************)
(* Properties                                                              *)
(***************************************************************************)

\* Reference: the expressions a token sequence can be read as by the grammar
\*   level ::= tighter | level op tighter      (comparisons: tighter op tighter)
\*   unary ::= primary | op unary
\*   primary ::= number | word | word ( args ) | ( expr )
\* where "or" is loosest, then "and", comparisons, sums, and products.
Binds == [op \in {"||"} |-> 1] @@ [op \in {"&&"} |-> 2]
           @@ [op \in {"==", "!=", ">", ">=", "<", "<="} |-> 3]
           @@ [op \in {"+", "-"} |-> 4] @@ [op \in {"*", "/", "%"} |-> 5]

RECURSIVE Readings(_, _), UnaryReadings(_), PrimaryReadings(_), ArgReadings(_)
Readings(toks, level) ==
  IF level > 5 THEN UnaryReadings(toks)
  ELSE Readings(toks, level + 1) \cup
       UNION {LET left == SubSeq(toks, 1, i - 1)
                  right == SubSeq(toks, i + 1, Len(toks))
                  leftLevel == IF level = 3 THEN 4 ELSE level
              IN  {BinaryE(toks[i].kind, p[1], p[2]) :
                     p \in Readings(left, leftLevel) \X Readings(right, level + 1)}
              : i \in {j \in 2..(Len(toks) - 1) :
                         toks[j].kind \in DOMAIN Binds /\ Binds[toks[j].kind] = level}}

UnaryReadings(toks) ==
  PrimaryReadings(toks) \cup
  IF Len(toks) > 1 /\ toks[1].kind \in UnaryOps
  THEN {UnaryE(toks[1].kind, e) : e \in UnaryReadings(Tail(toks))} ELSE {}

PrimaryReadings(toks) ==
  LET n == Len(toks) IN
  CASE n = 1 /\ toks[1].kind = "num" -> {NumE(toks[1].text)}
    [] n = 1 /\ toks[1].kind = "ident" -> {WordE(toks[1].text)}
    [] n > 2 /\ toks[1].kind = "(" /\ toks[n].kind = ")" ->
         Readings(SubSeq(toks, 2, n - 1), 1)
    [] n > 2 /\ toks[1].kind = "ident" /\ toks[2].kind = "(" /\ toks[n].kind = ")" ->
         {CallE(toks[1].text, args) : args \in ArgReadings(SubSeq(toks, 3, n - 1))}
    [] OTHER -> {}

ArgReadings(toks) ==
  IF toks = << >> THEN {<< >>}
  ELSE {<< e >> : e \in Readings(toks, 1)} \cup
       UNION {{<< p[1] >> \o p[2] :
                 p \in Readings(SubSeq(toks, 1, i - 1), 1)
                       \X (ArgReadings(SubSeq(toks, i + 1, Len(toks))) \ {<< >>})}
              : i \in {j \in 1..Len(toks) : toks[j].kind = ","}}

\* A text compiles exactly when the grammar reads its tokens, and then to the
\* one reading there is: operators of a level group to the left, comparisons
\* do not chain, and nothing is left over (Formula::compile, Parser).
CompilesAsRead(text) ==
  LET toks == Tokens(Body(text), 1, << >>)
  IN  toks \notin {BadTokens, << >>} =>
        Readings(toks, 1) = IF Compile(text).ok THEN {Compile(text).expr} ELSE {}

\* The functions an expression calls.
RECURSIVE Called(_)
Called(e) ==
  IF e.node \in {"num", "bool", "ident"} THEN {}
  ELSE UNION {Called(e.args[i]) : i \in 1..Len(e.args)}
       \cup IF e.node = "call" THEN {e.op} ELSE {}

\* The words true and false an expression holds.
RECURSIVE Truths(_)
Truths(e) ==
  CASE e.node = "bool" -> {IF e.text THEN True ELSE False}
    [] e.node \in {"num", "ident"} -> {}
    [] OTHER -> UNION {Truths(e.args[i]) : i \in 1..Len(e.args)}

\* The language reads the id as one word.
IsWord(id) == Tokens(id, 1, << >>) = << Tok("ident", id) >>

\* Of the cells a word names, the native engine's search of the text finds those
\* a formula that compiles depends on by its syntax tree, those that bear the
\* name of a function it calls or of a truth value it holds, and no others.  Of
\* an id that is no word (1, a-b) nothing is said: the search finds what the
\* tree cannot hold (collect_idents, expr_contains_token).
EdgesAgree(text, ids) ==
  Compile(text).ok =>
    LET e == Compile(text).expr IN
    \A id \in ids :
      IsWord(id) =>
        (ContainsToken(text, id) <=> id \in Idents(e) \cup Called(e) \cup Truths(e))
=============================================================================
