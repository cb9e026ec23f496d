------------------------- MODULE RoutinesInvariant -------------------------
(* The inductive invariant of Routines. *)
EXTENDS Routines

(* An input stays what it was, and a function without a loop returns what  *)
(* it computes of it.                                                      *)
InputStays ==
  /\ kind \in DOMAIN Inputs
  /\ input \in Inputs[kind]
  /\ done \in BOOLEAN

ResultIsComputed ==
  /\ Done("sql") => output = Rules!CheckSQL(input)
  /\ Done("url") => output = Rules!CheckURL(input.url, input.allowlist)
  /\ Done("call") => output = Tools!ValidInput(input.tool, input.input)
  /\ Done("message") => output = Tools!MockToolCall(input)
  /\ Done("boot") => output = Start!Boot(input.env, input.up)
  /\ Done("operation") => output = Expr!Operation(input.name, input.a, input.b)
  /\ Done("request") => output = Edge!Serve(input.options, input.request)
-----------------------------------------------------------------------------
(* loadEnvFile: what the first n lines make of a variable.                 *)
SetByLine(key, env, n) ==
  \/ /\ env[key] = Start!Unset
     /\ \A i \in 1 .. n : input.lines[i].key = key => input.lines[i].value = Start!Unset
  \/ \E i \in 1 .. n :
       /\ input.lines[i].key = key /\ input.lines[i].value # Start!Unset
       /\ env[key] = input.lines[i].value
       /\ \A j \in 1 .. i - 1 :
            input.lines[j].key = key => input.lines[j].value = Start!Unset

EnvLoop ==
  kind = "env" =>
    /\ loop \in [line : 0 .. Len(input.lines), env : [DOMAIN input.process -> EnvValue]]
    /\ \A key \in DOMAIN input.process :
         IF input.process[key] # Start!Unset THEN loop.env[key] = input.process[key]
         ELSE SetByLine(key, loop.env, loop.line)
    /\ done => output = loop.env /\ loop.line = Len(input.lines)
-----------------------------------------------------------------------------
(* splitLongText: the windows so far are in order, each as long as it may  *)
(* be, and what begins before the next start is in them.                   *)
InWindows(out, a, b) == \E i \in DOMAIN out : out[i][1] <= a /\ b <= out[i][2]

WindowsSoFar(text, start, out) ==
  /\ \A i \in DOMAIN out :
       /\ 1 <= out[i][1] /\ out[i][1] <= out[i][2] /\ out[i][2] <= Len(text)
       /\ out[i][2] < out[i][1] + input.size
       /\ out[i][1] <= start
       /\ start < Len(text) => out[i][2] = out[i][1] + input.size - 1 /\ out[i][2] < Len(text)
       /\ Cut!Kept(text, out[i][1], out[i][2]) # {}
  /\ \A i, j \in DOMAIN out : i < j => out[i][1] < out[j][1] /\ out[i][2] < out[j][2]
  /\ \A p \in Cut!Kept(text, 1, Len(text)) : p <= start => InWindows(out, p, p)
  /\ input.overlap < input.size =>
       \A a, b \in Cut!Kept(text, 1, Len(text)) :
         a <= b /\ b - a <= input.overlap /\ a <= start => InWindows(out, a, b)

WindowLoop ==
  kind = "paragraph" =>
    IF Len(Paragraph) <= input.size
    THEN done => output = Cut!WholeText(Paragraph)
    ELSE /\ loop \in [start : Nat, out : Seq(Int \X Int)]
         /\ WindowsSoFar(Paragraph, loop.start, loop.out)
         /\ done => output = loop.out /\ loop.start >= Len(Paragraph)
-----------------------------------------------------------------------------
(* SplitMarkdown: the parts, the sections that are to be split and the     *)
(* lines of the section that is open follow each other, and have all text. *)
Stretches == Seq((1 .. Len(input)) \X (1 .. Len(input)))

Within(stretches, line) == \E i \in DOMAIN stretches : line \in stretches[i][1] .. stretches[i][2]

InOrder(stretches) ==
  \A i \in DOMAIN stretches :
    /\ stretches[i][1] <= stretches[i][2]
    /\ \A line \in stretches[i][1] + 1 .. stretches[i][2] : input[line] # "heading"
    /\ \A j \in DOMAIN stretches : i < j => stretches[i][2] < stretches[j][1]

LinesAreRead ==
  /\ loop.line \in 0 .. Len(input) /\ loop.first \in 1 .. Len(input) + 1
  /\ IF loop.first > Len(input) THEN loop.line = Len(input)
     ELSE /\ loop.first <= IF loop.line = 0 THEN 1 ELSE loop.line
          /\ loop.out = <<>>
          /\ \A line \in loop.first + 1 .. loop.line : input[line] # "heading"

SectionsAreInOrder ==
  /\ loop.sections \in Stretches /\ InOrder(loop.sections)
  /\ \A i \in DOMAIN loop.sections :
       loop.sections[i][2] < loop.first /\ Mark!HasText(input, loop.sections[i][2])

PartsAreInOrder ==
  /\ loop.out \in Stretches /\ InOrder(loop.out)
  /\ \A i \in DOMAIN loop.out :
       /\ \A line \in loop.out[i][1] .. loop.out[i][2] : input[line] # "empty"
       /\ \A j \in DOMAIN loop.sections : loop.out[i][2] < loop.sections[j][1]

TextIsThere ==
  \A line \in 1 .. Len(input) : Mark!HasText(input, line) =>
    line >= loop.first \/ Within(loop.sections, line) \/ Within(loop.out, line)

LineLoop ==
  kind = "document" =>
    /\ DOMAIN loop = {"line", "first", "sections", "out"}
    /\ LinesAreRead /\ SectionsAreInOrder /\ PartsAreInOrder /\ TextIsThere
    /\ done => output = loop.out /\ loop.first > Len(input) /\ loop.sections = <<>>
-----------------------------------------------------------------------------
(* The masks: each walk has copied what is below the nodes it went through *)
(* and nothing below those it did not.                                     *)
Sensitive(value, n) ==
  value.kind[value.parent[n]] = "map" /\ Hide!IsSensitiveField(value.key[n])

WalkFits(value, walk) ==
  /\ Hide!Root \in walk.kept /\ walk.open \subseteq walk.kept
  /\ walk.kept \subseteq DOMAIN value.kind /\ walk.masked \subseteq DOMAIN value.parent
  /\ walk.names = {value.key[n] : n \in walk.masked}

\* Whether the call for node p, which goes into nodes of those kinds, was made.
WentThrough(value, walk, kinds, p) ==
  p \in walk.kept /\ p \notin walk.open /\ value.kind[p] \in kinds

WalkIsCopy(value, walk, kinds) ==
  /\ \A n \in walk.open : value.kind[n] \in kinds
  /\ \A n \in DOMAIN value.parent :
       LET shown == WentThrough(value, walk, kinds, value.parent[n])
       IN /\ n \in walk.kept <=> shown /\ ~Sensitive(value, n)
          /\ n \in walk.masked <=> shown /\ Sensitive(value, n)

MaskLoop ==
  kind = "map" =>
    /\ loop = [audit |-> loop.audit, sane |-> loop.sane, answer |-> loop.answer]
    /\ WalkFits(input.given, loop.audit) /\ WalkIsCopy(input.given, loop.audit, {"map", "list"})
    /\ WalkFits(input.given, loop.sane) /\ WalkIsCopy(input.given, loop.sane, {"map"})
    /\ WalkFits(input.data, loop.answer) /\ WalkIsCopy(input.data, loop.answer, {"map", "list"})
    /\ loop.sane.kept \subseteq loop.audit.kept /\ loop.sane.masked \subseteq loop.audit.masked
    /\ done => /\ output = loop
               /\ loop.audit.open = {} /\ loop.sane.open = {} /\ loop.answer.open = {}
-----------------------------------------------------------------------------
(* The calculator: what its calls wait for and what they are to return.    *)
Awaited == [sum |-> "product", product |-> "factor", minus |-> "factor", paren |-> "sum"]
Yields == [sum |-> "sum", product |-> "product", minus |-> "factor", paren |-> "factor"]

Pos(s) == 0 .. Len(s)

Amounts(s) ==
  UNION {Meaning(s)[part][x] : part \in {"sum", "product", "factor"}, x \in Pos(s) \X Pos(s)}

Frames(s) ==
  [call : DOMAIN Awaited, at : Pos(s), from : Pos(s), op : {"first", "+", "-", "*", "/"},
   left : Amounts(s) \cup {<<0, 1>>}]

IsParser(s, l) ==
  /\ DOMAIN l = {"ok", "reading", "pos", "value", "stack"}
  /\ l.ok \in BOOLEAN /\ l.reading \in BOOLEAN /\ l.pos \in Pos(s)

\* What is between p and q is worth v.
IsWorth(s, part, p, q, v) == p \in Pos(s) /\ q \in Pos(s) /\ v \in Meaning(s)[part][<<p, q>>]

SignAt(s, p) == Expr!Peek(s, Expr!SkipSpace(s, p))

Behind(s, p) == Expr!SkipSpace(s, p) + 1

(* A call has read what is before its operand.                             *)
FrameFits(s, f) ==
  CASE f.call = "minus" -> SignAt(s, f.at) = "-" /\ f.from = Behind(s, f.at)
    [] f.call = "paren" -> SignAt(s, f.at) = "(" /\ f.from = Behind(s, f.at)
    [] f.call \in {"sum", "product"} /\ f.op = "first" -> f.from = f.at
    [] f.call \in {"sum", "product"} /\ f.op # "first" ->
         /\ f.op \in Expr!Signs[f.call]
         /\ \E m \in Pos(s) :
              /\ IsWorth(s, f.call, f.at, m, f.left)
              /\ SignAt(s, m) = f.op /\ f.from = Behind(s, m)

(* The part that is awaited when n calls wait, and where it begins.        *)
PartAbove(stack, n) == IF n = 0 THEN "sum" ELSE Awaited[stack[n].call]
StartAbove(stack, n) == IF n = 0 THEN 0 ELSE stack[n].from

IsStack(s, stack) ==
  /\ stack \in Seq(Frames(s))
  /\ \A n \in DOMAIN stack :
       /\ FrameFits(s, stack[n])
       /\ Yields[stack[n].call] = PartAbove(stack, n - 1)
       /\ stack[n].at = StartAbove(stack, n - 1)

ReadingFits(s, l) ==
  LET part == PartAbove(l.stack, Len(l.stack))
      start == StartAbove(l.stack, Len(l.stack))
  IN IF l.reading THEN part = "factor" /\ start = l.pos
     ELSE IsWorth(s, part, start, l.pos, l.value)

(* Where a part ends, and what it is worth.                                *)
Items(s) == Pos(s) \X Amounts(s)

(* A sign and an operand make item b of item a.                            *)
Leads(s, call, a, b) ==
  /\ SignAt(s, a[1]) \in Expr!Signs[call]
  /\ \E x \in Amounts(s) :
       /\ IsWorth(s, Awaited[call], Behind(s, a[1]), b[1], x)
       /\ ~Expr!ByZero(SignAt(s, a[1]), x)
       /\ b[2] = Expr!Combine(SignAt(s, a[1]), a[2], x)

IsClosed(s, call, X) == \A a \in X, b \in Items(s) : Leads(s, call, a, b) => b \in X

\* Some signs and operands, or none, make b of a.
Reaches(s, call, a, b) ==
  \A X \in SUBSET (Items(s) \cup {a}) : a \in X /\ IsClosed(s, call, X) => b \in X

\* Neither the call nor the calls in it go on behind a.
Ends(s, call, a) ==
  /\ SignAt(s, a[1]) \notin Expr!Signs.product
  /\ call = "sum" => SignAt(s, a[1]) \notin Expr!Signs.sum

\* Item b is what call f returns when item a is returned to it.
Returns(s, f, a, b) ==
  CASE f.call = "minus" -> b = <<a[1], Expr!Negated(a[2])>>
    [] f.call = "paren" -> SignAt(s, a[1]) = ")" /\ b = <<Behind(s, a[1]), a[2]>>
    [] f.call \in {"sum", "product"} ->
         /\ ~Expr!ByZero(f.op, a[2])
         /\ LET left == IF f.op = "first" THEN a[2] ELSE Expr!Combine(f.op, f.left, a[2])
            IN Reaches(s, f.call, <<a[1], left>>, b)
         /\ Ends(s, f.call, b)

(* When item a is returned to the calls on the stack, the text is worth v: *)
(* plan[n] is what comes out above n - 1 calls.                            *)
IsPlan(s, stack, v, a, plan) ==
  LET n == Len(stack)
  IN /\ Len(plan) = n + 1 /\ plan[n + 1] = a
     /\ plan[1][2] = v /\ Expr!SkipSpace(s, plan[1][1]) = Len(s)
     /\ \A i \in 1 .. n : Returns(s, stack[i], plan[i + 1], plan[i])

MakesWorth(s, stack, v, a) == \E plan \in Seq(Items(s)) : IsPlan(s, stack, v, a, plan)

(* What is read next, or was, is what makes the text worth v.              *)
Planned(s, l, v) ==
  /\ l.ok
  /\ \E a \in Items(s) :
       /\ MakesWorth(s, l.stack, v, a)
       /\ IF l.reading THEN IsWorth(s, "factor", l.pos, a[1], a[2]) ELSE a = <<l.pos, l.value>>

ParserFits(s, l) ==
  /\ IsParser(s, l) /\ IsStack(s, l.stack)
  /\ l.ok => ReadingFits(s, l)
  /\ \A v \in Expr!ValuesOf(s, Meaning(s)) : Planned(s, l, v)

ParserLoop ==
  kind = "expression" =>
    /\ ParserFits(input, loop)
    /\ done => /\ output = Expr!Parsed(input, loop)
               /\ loop.ok => ~loop.reading /\ loop.stack = <<>>
-----------------------------------------------------------------------------
(* What every loop and every recursion keeps.                              *)
RoutinesInv == EnvLoop /\ WindowLoop /\ LineLoop /\ MaskLoop /\ ParserLoop
=============================================================================
