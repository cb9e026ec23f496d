----------------------------- MODULE Expression -----------------------------
(***************************************************************************)
(* evalExpression of internal/tool/builtin.go, the calculator's recursive  *)
(* descent parser, with its calls on a stack, and the grammar it stands    *)
(* for.  Numbers are exact fractions here and float64 in the code, so      *)
(* rounding and overflow to Inf or NaN (both refused) are left out.        *)
(***************************************************************************)
EXTENDS Integers, SequencesExt

-----------------------------------------------------------------------------
(* Fractions <<n, d>> with d > 0, in lowest terms.                         *)

Abs(n) == IF n < 0 THEN -n ELSE n

Divides(k, n) == n % k = 0

Fraction(n, d) ==
  LET s == IF d < 0 THEN -1 ELSE 1
      g == CHOOSE k \in 1 .. Abs(d) :
             /\ Divides(k, Abs(n)) /\ Divides(k, Abs(d))
             /\ \A l \in k + 1 .. Abs(d) : ~(Divides(l, Abs(n)) /\ Divides(l, Abs(d)))
  IN <<(s * n) \div g, Abs(d) \div g>>

Plus(a, b) == Fraction(a[1] * b[2] + b[1] * a[2], a[2] * b[2])
Minus(a, b) == Fraction(a[1] * b[2] - b[1] * a[2], a[2] * b[2])
Times(a, b) == Fraction(a[1] * b[1], a[2] * b[2])
Over(a, b) == Fraction(a[1] * b[2], a[2] * b[1])
Negated(a) == <<-a[1], a[2]>>

Combine(op, a, b) ==
  CASE op = "+" -> Plus(a, b)
    [] op = "-" -> Minus(a, b)
    [] op = "*" -> Times(a, b)
    [] op = "/" -> Over(a, b)

Pow10(n) == 10 ^ n

Digit == <<"0", "1", "2", "3", "4", "5", "6", "7", "8", "9">>
Digits == {Digit[i] : i \in DOMAIN Digit}
ValueOf(c) == (CHOOSE i \in DOMAIN Digit : Digit[i] = c) - 1

(* strconv.ParseFloat of digits with at most one point; a lone point is    *)
(* refused.                                                                *)
Decimal(s) == FoldLeft(LAMBDA n, c : 10 * n + ValueOf(c), 0, s)

Points(s, first, last) == {i \in first .. last : s[i] = "."}

IsNumeral(s) == \E i \in DOMAIN s : s[i] \in Digits

ParseFloat(s) ==
  LET point == Points(s, 1, Len(s))
      places == IF point = {} THEN 0 ELSE Len(s) - Max(point)
  IN Fraction(Decimal(SelectSeq(s, LAMBDA c : c # ".")), Pow10(places))
-----------------------------------------------------------------------------
(* What the parser reads.  A position is p.pos, the characters read so far.*)

SkipSpace(s, p) == Min({q \in p .. Len(s) : q = Len(s) \/ s[q + 1] # " "})

Peek(s, p) == IF p < Len(s) THEN s[p + 1] ELSE "end"

(* The characters parseNumber reads from p on: digits and one point.       *)
NumberEnd(s, p) ==
  Max({q \in p .. Len(s) :
         /\ \A i \in p + 1 .. q : s[i] \in Digits \/ s[i] = "."
         /\ Cardinality(Points(s, p + 1, q)) <= 1})

ParseNumber(s, p) ==
  LET start == SkipSpace(s, p)
      end == NumberEnd(s, start)
      numeral == SubSeq(s, start + 1, end)
  IN [ok |-> IsNumeral(numeral), pos |-> end, value |-> ParseFloat(numeral)]

\* The signs that parseExpression and parseTerm go on at.
Signs == [sum |-> {"+", "-"}, product |-> {"*", "/"}]

ByZero(op, b) == op = "/" /\ b[1] = 0
-----------------------------------------------------------------------------
(* The parser.  A frame is a call that waits for an operand: sum for       *)
(* parseExpression and product for parseTerm with what they have on their  *)
(* left, minus and paren for the two calls in parseFactor.  Where the call *)
(* began and where its operand begins is noted for the invariant.          *)

Frame(call, at, from) == [call |-> call, at |-> at, from |-> from, op |-> "first", left |-> <<0, 1>>]

(* parseExpression begins, and in it parseTerm.                            *)
Opened(p) == << Frame("sum", p, p), Frame("product", p, p) >>

Begin == [ok |-> TRUE, reading |-> TRUE, pos |-> 0, value |-> <<0, 1>>, stack |-> Opened(0)]

Refused(loop) == [loop EXCEPT !.ok = FALSE]

(* Mutant: a minus sign negates the whole sum behind it.                   *)
ParseFactorNegatesSum(s, loop) ==
  LET p == loop.pos
      q == SkipSpace(s, p)
      number == ParseNumber(s, q)
  IN CASE Peek(s, q) = "-" ->
            [loop EXCEPT !.pos = q + 1,
                         !.stack = Append(@, Frame("minus", p, q + 1)) \o Opened(q + 1)]
       [] Peek(s, q) = "(" ->
            [loop EXCEPT !.pos = q + 1,
                         !.stack = Append(@, Frame("paren", p, q + 1)) \o Opened(q + 1)]
       [] number.ok ->
            [loop EXCEPT !.reading = FALSE, !.pos = number.pos, !.value = number.value]
       [] OTHER -> Refused(loop)

(* parseFactor, up to its calls.                                           *)
ParseFactor(s, loop) ==
  LET p == loop.pos
      q == SkipSpace(s, p)
      number == ParseNumber(s, q)
  IN CASE Peek(s, q) = "-" ->
            [loop EXCEPT !.pos = q + 1, !.stack = Append(@, Frame("minus", p, q + 1))]
       [] Peek(s, q) = "(" ->
            [loop EXCEPT !.pos = q + 1,
                         !.stack = Append(@, Frame("paren", p, q + 1)) \o Opened(q + 1)]
       [] Peek(s, q) \notin {"-", "("} /\ number.ok ->
            [loop EXCEPT !.reading = FALSE, !.pos = number.pos, !.value = number.value]
       [] OTHER -> Refused(loop)

(* parseFactor, when its call has returned.                                *)
EndFactor(s, loop) ==
  LET top == Last(loop.stack)
      q == SkipSpace(s, loop.pos)
  IN CASE top.call = "minus" ->
            [loop EXCEPT !.value = Negated(@), !.stack = Front(@)]
       [] top.call = "paren" /\ Peek(s, q) = ")" ->
            [loop EXCEPT !.pos = q + 1, !.stack = Front(@)]
       [] OTHER -> Refused(loop)

(* One pass of the loops of parseTerm and parseExpression: the operand is  *)
(* taken up, and another one read behind a sign.  The spaces the last pass *)
(* skips are left in front of pos: whatever reads on skips them itself.    *)
NextOperand(s, loop) ==
  LET top == Last(loop.stack)
      q == SkipSpace(s, loop.pos)
      left == IF top.op = "first" THEN loop.value ELSE Combine(top.op, top.left, loop.value)
      again == [top EXCEPT !.op = Peek(s, q), !.left = left, !.from = q + 1]
      deeper == IF top.call = "sum" THEN << Frame("product", q + 1, q + 1) >> ELSE <<>>
  IN IF ByZero(top.op, loop.value) THEN Refused(loop)
     ELSE IF Peek(s, q) \in Signs[top.call]
     THEN [loop EXCEPT !.reading = TRUE, !.pos = q + 1,
                       !.stack = Append(Front(@), again) \o deeper]
     ELSE [loop EXCEPT !.value = left, !.stack = Front(@)]

(* evalExpression: nothing may be left.                                    *)
Parsed(s, loop) ==
  [ok |-> loop.ok /\ SkipSpace(s, loop.pos) = Len(s), value |-> loop.value]

(* The calculator without an expression.                                   *)
Operation(name, a, b) ==
  CASE name = "add" -> [ok |-> TRUE, value |-> Plus(a, b)]
    [] name = "subtract" -> [ok |-> TRUE, value |-> Minus(a, b)]
    [] name = "multiply" -> [ok |-> TRUE, value |-> Times(a, b)]
    [] name = "divide" -> [ok |-> b[1] # 0, value |-> IF b[1] = 0 THEN a ELSE Over(a, b)]
-----------------------------------------------------------------------------
(* The reference, a grammar.  For every two positions it has the values of *)
(* what is between them, as a factor, a product or a sum:                  *)
(*   factor  ::= number | "-" factor | "(" sum ")"                         *)
(*   product ::= factor  | product ("*" | "/") factor                      *)
(*   sum     ::= product | sum ("+" | "-") product                         *)
(* with spaces before each sign and number.  Nothing is divided by zero.   *)

\* Where a part can end that ")" closes at q.
BeforeClosing(s, first, q) ==
  {m \in first .. q : LET close == SkipSpace(s, m) IN Peek(s, close) = ")" /\ q = close + 1}

FactorsOf(s, grammar, p, q) ==
  LET b == SkipSpace(s, p)
      number == ParseNumber(s, b)
  IN CASE Peek(s, b) = "-" -> {Negated(v) : v \in grammar.factor[<<b + 1, q>>]}
       [] Peek(s, b) = "(" ->
            UNION {grammar.sum[<<b + 1, m>>] : m \in BeforeClosing(s, b + 2, q)}
       [] Peek(s, b) \notin {"-", "("} ->
            IF number.ok /\ number.pos = q THEN {number.value} ELSE {}

\* A chain up to m and an operand behind its sign.
Joined(s, chain, operand, p, m, q) ==
  LET sign == SkipSpace(s, m)
      op == Peek(s, sign)
  IN {Combine(op, x[1], x[2]) :
        x \in {y \in chain[<<p, m>>] \X operand[<<sign + 1, q>>] : ~ByZero(op, y[2])}}

ChainsOf(s, chain, operand, signs, p, q) ==
  operand[<<p, q>>] \cup
    UNION {Joined(s, chain, operand, p, m, q) :
             m \in {m \in p + 1 .. q - 1 : Peek(s, SkipSpace(s, m)) \in signs}}

IsGrammar(s, grammar) ==
  \A p, q \in 0 .. Len(s) :
    /\ grammar.factor[<<p, q>>] = IF p < q THEN FactorsOf(s, grammar, p, q) ELSE {}
    /\ grammar.product[<<p, q>>] =
         IF p < q THEN ChainsOf(s, grammar.product, grammar.factor, Signs.product, p, q) ELSE {}
    /\ grammar.sum[<<p, q>>] =
         IF p < q THEN ChainsOf(s, grammar.sum, grammar.product, Signs.sum, p, q) ELSE {}

(* The values of a whole text: it has none, or one.                        *)
ValuesOf(s, grammar) ==
  UNION {grammar.sum[<<0, q>>] : q \in {q \in 0 .. Len(s) : SkipSpace(s, q) = Len(s)}}
=============================================================================
