------------------------------ MODULE Routines ------------------------------
(***************************************************************************)
(* The gateway's functions that keep no state, each beside a definition of *)
(* what it is for.  A behaviour is one call: an input of some kind is      *)
(* there from the start.  A function without a loop takes one step, a loop *)
(* one step for every pass, a function that calls itself one step for      *)
(* every call.                                                             *)
(***************************************************************************)
EXTENDS Integers, Sequences, FiniteSets

CONSTANTS Inputs,      \* Inputs[k]: what calls of kind k are given
          Meaning(_),  \* Meaning(s): what the parts of expression s are worth
          MaxInt       \* the largest int

ASSUME MaxIntAssumption == MaxInt \in Nat /\ MaxInt >= 100

Cut == INSTANCE Chunking
Mark == INSTANCE MarkdownSplit
Rules == INSTANCE PolicyRules
Tools == INSTANCE BuiltinTools
Start == INSTANCE Startup
Edge == INSTANCE HttpEdge
Hide == INSTANCE Masking
Expr == INSTANCE Expression

(* Every kind of input is what its function's parameters can hold.  The    *)
(* names of an environment are all that its file mentions.                 *)
Value == {"string"} \X STRING \cup {"number", "fraction"} \X Int \cup {<<"null">>}
EnvValue == {"word"} \X STRING \cup {"number"} \X Int

ASSUME InputsAssumption ==
  \A k \in DOMAIN Inputs : \A i \in Inputs[k] :
    /\ k = "expression" => i \in Seq(STRING) /\ Expr!IsGrammar(i, Meaning(i))
    /\ k = "paragraph" => i \in [size : Nat \ {0}, overlap : Nat, text : Seq(Cut!Rune)]
    /\ k = "document" => i \in Seq(Mark!Kind) \ {<<>>}
    /\ k = "sql" => i \in Seq(Rules!Token)
    /\ k = "url" => i.url.host \in Seq(STRING) /\ i.allowlist \in SUBSET Seq(STRING)
    /\ k = "call" => i.tool \in Tools!Builtins
                     /\ \A name \in DOMAIN i.input : i.input[name] \in Value
    /\ k = "map" => /\ Hide!IsValue(i.given) /\ i.given.kind[Hide!Root] = "map"
                    /\ Hide!IsValue(i.data)
                    /\ IsFiniteSet(DOMAIN i.given.kind) /\ IsFiniteSet(DOMAIN i.data.kind)
    /\ k = "env" => LET names == DOMAIN i.process
                    IN /\ "" \notin names /\ i.process \in [names -> EnvValue]
                       /\ i.lines \in Seq([key : names \cup {""}, value : EnvValue])
    /\ k = "boot" => i.env \in [Start!Variables -> EnvValue]

VARIABLES kind, input,
          loop,     \* the variables of the function's loop
          done, output

vars == <<kind, input, loop, done, output>>

(* What the loops start with.                                              *)
BeforeLoop ==
  CASE kind = "env" -> [line |-> 0, env |-> input.process]
    [] kind = "paragraph" -> [start |-> 0, out |-> <<>>]
    [] kind = "document" -> [line |-> 0, first |-> 1, sections |-> <<>>, out |-> <<>>]
    [] kind = "expression" -> Expr!Begin
    [] kind = "map" -> [audit |-> Hide!Begin(input.given), sane |-> Hide!Begin(input.given),
                        answer |-> Hide!Begin(input.data)]
    [] OTHER -> <<>>

Init ==
  /\ kind \in DOMAIN Inputs
  /\ input \in Inputs[kind]
  /\ loop = BeforeLoop
  /\ done = FALSE
  /\ output = <<>>

Running(k) == kind = k /\ ~done

Return(result) ==
  /\ done' = TRUE
  /\ output' = result
  /\ UNCHANGED <<kind, input, loop>>

Pass(after) ==
  /\ loop' = after
  /\ UNCHANGED <<kind, input, done, output>>
-----------------------------------------------------------------------------
(* Functions without a loop. *)

JudgeSQL == Running("sql") /\ Return(Rules!CheckSQL(input))
JudgeURL == Running("url") /\ Return(Rules!CheckURL(input.url, input.allowlist))
Validate == Running("call") /\ Return(Tools!ValidInput(input.tool, input.input))
Plan == Running("message") /\ Return(Tools!MockToolCall(input))
BootUp == Running("boot") /\ Return(Start!Boot(input.env, input.up))
Operate == Running("operation") /\ Return(Expr!Operation(input.name, input.a, input.b))
Respond == Running("request") /\ Return(Edge!Serve(input.options, input.request))
-----------------------------------------------------------------------------
(* loadEnvFile: the lines of .env. *)

LoadLine ==
  /\ Running("env") /\ loop.line < Len(input.lines)
  /\ Pass([line |-> loop.line + 1, env |-> Start!LoadLine(loop.env, input.lines[loop.line + 1])])

Loaded == Running("env") /\ loop.line = Len(input.lines) /\ Return(loop.env)
-----------------------------------------------------------------------------
(* splitLongText: the windows of a paragraph. *)

Paragraph == Cut!TrimSpace(input.text)

TakeWhole ==
  /\ Running("paragraph") /\ Len(Paragraph) <= input.size
  /\ Return(Cut!WholeText(Paragraph))

CutWindow ==
  /\ Running("paragraph") /\ Len(Paragraph) > input.size
  /\ loop.start < Len(Paragraph)
  /\ Pass(Cut!CutWindow(Paragraph, loop, input.size, input.overlap))

CutUp ==
  /\ Running("paragraph") /\ Len(Paragraph) > input.size
  /\ loop.start >= Len(Paragraph)
  /\ Return(loop.out)
-----------------------------------------------------------------------------
(* SplitMarkdown: the lines of a document, and then its sections. *)

ReadLine ==
  /\ Running("document") /\ loop.line < Len(input)
  /\ Pass(Mark!ReadLine(input, loop))

CloseLast ==
  /\ Running("document") /\ loop.line = Len(input) /\ loop.first <= Len(input)
  /\ Pass(Mark!CloseLast(input, loop))

SplitPart ==
  /\ Running("document") /\ loop.first > Len(input) /\ loop.sections # <<>>
  /\ Pass(Mark!SplitPart(input, loop))

SplitUp ==
  /\ Running("document") /\ loop.first > Len(input) /\ loop.sections = <<>>
  /\ Return(loop.out)
-----------------------------------------------------------------------------
(* The masks of one call of a tool, in Execute's order: of the input for   *)
(* the audit, of the input for the tool, and of what the tool returned.    *)

MaskAudit ==
  /\ Running("map")
  /\ \E n \in loop.audit.open :
       Pass([loop EXCEPT !.audit = Hide!MaskSensitive(input.given, loop.audit, n, {})])

Sanitize ==
  /\ Running("map") /\ loop.audit.open = {}
  /\ \E n \in loop.sane.open :
       Pass([loop EXCEPT !.sane = Hide!SanitizeInput(input.given, loop.sane, n)])

MaskAnswer ==
  /\ Running("map") /\ loop.audit.open = {} /\ loop.sane.open = {}
  /\ \E n \in loop.answer.open :
       Pass([loop EXCEPT !.answer =
               Hide!MaskSensitive(input.data, loop.answer, n, loop.sane.names)])

Masked ==
  /\ Running("map")
  /\ loop.audit.open = {} /\ loop.sane.open = {} /\ loop.answer.open = {}
  /\ Return(loop)
-----------------------------------------------------------------------------
(* evalExpression: the calls of the parser. *)

\* The call on top is one of these, and what it waits for has returned.
Returned(calls) ==
  /\ Running("expression") /\ loop.ok /\ ~loop.reading
  /\ loop.stack # <<>> /\ loop.stack[Len(loop.stack)].call \in calls

ParseFactor ==
  /\ Running("expression") /\ loop.ok /\ loop.reading
  /\ Pass(Expr!ParseFactor(input, loop))

EndFactor == Returned({"minus", "paren"}) /\ Pass(Expr!EndFactor(input, loop))

NextOperand == Returned({"sum", "product"}) /\ Pass(Expr!NextOperand(input, loop))

Calculated ==
  /\ Running("expression")
  /\ ~loop.ok \/ (~loop.reading /\ loop.stack = <<>>)
  /\ Return(Expr!Parsed(input, loop))
-----------------------------------------------------------------------------
Next ==
  \/ JudgeSQL \/ JudgeURL \/ Validate \/ Plan \/ BootUp \/ Respond \/ Operate
  \/ LoadLine \/ Loaded
  \/ TakeWhole \/ CutWindow \/ CutUp
  \/ ReadLine \/ CloseLast \/ SplitPart \/ SplitUp
  \/ MaskAudit \/ Sanitize \/ MaskAnswer \/ Masked
  \/ ParseFactor \/ EndFactor \/ NextOperand \/ Calculated

Spec == Init /\ [][Next]_vars

Done(k) == done /\ kind = k
-----------------------------------------------------------------------------
(* The loops and the recursions end. *)

\* The nodes of a value that no call was made for yet.
NodesLeft(value, walk) == Cardinality(DOMAIN value.kind \ (walk.kept \ walk.open))

\* The runes of a paragraph that is cut behind the start of the next window.
RunesLeft ==
  IF Len(Paragraph) > input.size /\ loop.start < Len(Paragraph)
  THEN Len(Paragraph) - loop.start ELSE 0

\* A line is read, and then the section that is first in line begins further on.
LinesLeft ==
  IF loop.first <= Len(input) THEN 2 * Len(input) + 3 - loop.line
  ELSE IF loop.sections # <<>> THEN Len(input) + 2 - Head(loop.sections)[1] ELSE 0

\* A character opens three calls at most, and each of them returns once.
CallsLeft == IF loop.ok THEN 1 + 4 * (Len(input) - loop.pos) + Len(loop.stack) ELSE 0

(* More than the passes and calls that can still come.                     *)
PassesLeft ==
  CASE kind = "env" -> Len(input.lines) - loop.line
    [] kind = "paragraph" -> RunesLeft
    [] kind = "document" -> LinesLeft
    [] kind = "map" -> NodesLeft(input.given, loop.audit) + NodesLeft(input.given, loop.sane)
                         + NodesLeft(input.data, loop.answer)
    [] kind = "expression" -> CallsLeft
    [] OTHER -> 0

StepsLeft == IF done THEN 0 ELSE 1 + PassesLeft

(* Whatever the input, a call comes to its end: every pass of a loop and   *)
(* every call of a function that calls itself leaves less to do.           *)
EveryCallEnds == [][StepsLeft' \in 0 .. StepsLeft - 1]_vars
-----------------------------------------------------------------------------
(* The chunks of a document. *)

(* Every rune that is not space comes into a chunk.                        *)
NothingLost ==
  Done("paragraph") =>
    \A p \in Cut!Kept(Paragraph, 1, Len(Paragraph)) :
      \E i \in DOMAIN output : output[i][1] <= p /\ p <= output[i][2]

(* Whatever spans no more runes than the overlap and one more is whole in  *)
(* some chunk: no cut takes such a phrase apart.                           *)
PhraseIsWhole ==
  Done("paragraph") /\ input.overlap < input.size =>
    \A a, b \in Cut!Kept(Paragraph, 1, Len(Paragraph)) :
      a <= b /\ b - a <= input.overlap =>
        \E i \in DOMAIN output : output[i][1] <= a /\ b <= output[i][2]

(* A chunk is not blank, is no longer than the size, and counts at least   *)
(* one token and no more than it has runes.                                *)
ChunkIsSmall ==
  Done("paragraph") =>
    \A i \in DOMAIN output :
      LET chunk == Cut!ChunkOf(Paragraph, output[i])
      IN Len(chunk) \in 1 .. input.size /\ Cut!TokenCount(chunk) \in 1 .. Len(chunk)

(* No chunk is cut out of the middle or the end of another one.            *)
NoWindowInside ==
  Done("paragraph") =>
    \A i, j \in DOMAIN output :
      i < j => output[i][1] < output[j][1] /\ output[i][2] < output[j][2]

(* Every line with text comes into a paragraph.                            *)
NoLineLost ==
  Done("document") =>
    \A line \in DOMAIN input : Mark!HasText(input, line) =>
      \E p \in DOMAIN output : output[p][1] <= line /\ line <= output[p][2]

(* The paragraphs are stretches of the document, in its order and without  *)
(* a line in two of them.                                                  *)
OrderIsKept ==
  Done("document") =>
    \A p, q \in DOMAIN output :
      /\ output[p][1] \in DOMAIN input /\ output[p][2] \in DOMAIN input
      /\ output[p][1] <= output[p][2]
      /\ p < q => output[p][2] < output[q][1]

(* A heading begins a paragraph, so that no chunk has the end of one       *)
(* section and the beginning of the next.                                  *)
HeadingBeginsParagraph ==
  Done("document") =>
    \A p \in DOMAIN output : \A line \in output[p][1] + 1 .. output[p][2] :
      input[line] # "heading"

(* No paragraph goes across an empty line.                                 *)
EmptyLineSeparates ==
  Done("document") =>
    \A p \in DOMAIN output : \A line \in output[p][1] .. output[p][2] :
      input[line] # "empty"

(* The chunks of a document carry its whole text, in order, and none goes  *)
(* across a section, an empty line or the size it may have.                *)
ChunksCarryDocument ==
  /\ NothingLost /\ PhraseIsWhole /\ ChunkIsSmall /\ NoWindowInside
  /\ NoLineLost /\ OrderIsKept /\ HeadingBeginsParagraph /\ EmptyLineSeparates
-----------------------------------------------------------------------------
(* The policy. *)

(* What checkSQL accepts is one statement that has a limit and in which no *)
(* comment mark, no dangerous word and no blocked table is a word: parts   *)
(* of longer words do not count for these.  For select and with they do:   *)
(* the first word is one that begins with select or with, and in some word *)
(* there is select, as HasPrefix and Contains have it.                     *)
SqlIsJudgedByWords ==
  Done("sql") =>
    LET sql == Rules!TrimBlank(input)
        words == Rules!Words(sql)
        said == {words[n] : n \in DOMAIN words}
    IN output = "ok" <=>
         /\ words # <<>>
         /\ words[1][1] \in {"select", "with"}
         /\ \E w \in said : \E i \in DOMAIN w : w[i] = "select"
         /\ said \cap {<<"--">>, <<"drop">>, <<"users">>} = {}
         /\ \A i, j \in DOMAIN sql : i < j /\ sql[i] = ";" => sql[j] = ";"
         /\ Rules!Limits(sql) # {}

(* policy.go:151 and 154: an accepted text is a select, or a with that says*)
(* select, as words of their own.  That is so for a text in which neither  *)
(* occurs in a longer word; of others `selectx limit 9` is accepted too.   *)
SelectIsSaid ==
  Done("sql") /\ output = "ok" =>
    LET words == Rules!Words(Rules!TrimBlank(input))
        said == {words[n] : n \in DOMAIN words}
        IsAlone(t) == \A w \in said : (\E i \in DOMAIN w : w[i] = t) => w = <<t>>
    IN IsAlone("select") /\ IsAlone("with") =>
         words[1] \in {<<"select">>, <<"with">>} /\ <<"select">> \in said

(* What QueryReadonly sends to MySQL for an accepted text would be         *)
(* accepted itself: what it appends comes into the statement.              *)
SentIsAccepted ==
  Done("sql") /\ output = "ok" => Rules!CheckSQL(Rules!EnforceLimit(input)) = "ok"

(* The policy and QueryReadonly look for the limit in two ways, which      *)
(* agree on a text that has no blank but single spaces and no sign before  *)
(* its limits: it is sent as it is, without a second limit.                *)
LimitsAgree ==
  Done("sql") /\ output = "ok" =>
    LET sql == input
        plain == \A i \in DOMAIN sql :
                   /\ sql[i] \notin {"newline", ")"}
                   /\ i > 1 => ~(sql[i] = " " /\ sql[i - 1] = " ")
    IN plain => Rules!EnforceLimit(sql) = sql

(* A URL is accepted if and only if it is http or https, and its host is   *)
(* no private one and has an entry of the allowlist as its last labels, in *)
(* any case of letters.                                                    *)
HostIsListed ==
  Done("url") =>
    LET host == Rules!Labels(Rules!Lower(input.url.host))
        EndsIn(labels) ==
          /\ Len(labels) <= Len(host)
          /\ \A i \in DOMAIN labels : labels[i] = host[Len(host) - Len(labels) + i]
    IN output = "ok" <=>
         /\ input.url.scheme \in {"http", "https"}
         /\ input.url.host # <<>> /\ ~Rules!IsPrivateHost(Rules!Lower(input.url.host))
         /\ \E e \in input.allowlist : e # <<>> /\ EndsIn(Rules!Labels(Rules!Lower(e)))

(* The policy judges the words of a text, select and with by the beginning *)
(* and the parts of words, and the labels of a host; and what is sent is   *)
(* what it judged.                                                         *)
RulesHold ==
  SqlIsJudgedByWords /\ SelectIsSaid /\ SentIsAccepted /\ LimitsAgree /\ HostIsListed
-----------------------------------------------------------------------------
(* The masks. *)

(* The audit shows the input and the caller the data with "***" for every  *)
(* field of a sensitive name, however deep in maps and lists it is, and    *)
(* with everything else as it was: the names that were masked in the input *)
(* make no difference to the data.                                         *)
ShownAsMaskedCopy ==
  Done("map") =>
    /\ Hide!IsMaskedCopy(input.given, output.audit)
    /\ Hide!IsMaskedCopy(input.data, output.answer)

(* The tool gets what the audit shows, but for what is in a list, where    *)
(* nothing is masked for the tool; and what was masked is reported.        *)
MaskersAgree ==
  Done("map") =>
    LET given == input.given
        audit == output.audit
        sane == output.sane
    IN /\ sane.kept \subseteq audit.kept /\ sane.masked \subseteq audit.masked
       /\ \A n \in (audit.kept \cup audit.masked) \ (sane.kept \cup sane.masked) :
            given.parent[n] \notin sane.kept \/ given.kind[given.parent[n]] = "list"
       /\ sane.names = {given.key[n] : n \in sane.masked}

(* Two packages mask in two ways, and nothing sensitive passes between.    *)
MaskingHolds == ShownAsMaskedCopy /\ MaskersAgree
-----------------------------------------------------------------------------
(* The calculator. *)

(* The parser accepts exactly the expressions that the grammar gives a     *)
(* value, and returns that value: precedence, left association, unary      *)
(* minus, division by zero and what follows an expression included.        *)
ParserIsRight ==
  Done("expression") =>
    LET values == Expr!ValuesOf(input, Meaning(input))
    IN values = IF output.ok THEN {output.value} ELSE {}

\* A number behind p, with at most one minus sign.
SignedNumber(p) ==
  LET b == Expr!SkipSpace(input, p)
      number == Expr!ParseNumber(input, b + 1)
  IN IF Expr!Peek(input, b) = "-"
     THEN [number EXCEPT !.value = Expr!Negated(@)] ELSE Expr!ParseNumber(input, b)

Names == [add |-> "+", subtract |-> "-", multiply |-> "*", divide |-> "/"]

(* The calculator's two forms agree: an expression of two numbers and a    *)
(* sign comes to what the operation does, refusals included.               *)
CalculatorAgrees ==
  Done("expression") =>
    LET a == SignedNumber(0)
        sign == Expr!SkipSpace(input, a.pos)
        b == SignedNumber(sign + 1)
    IN \A name \in DOMAIN Names :
         /\ a.ok /\ Expr!Peek(input, sign) = Names[name]
         /\ b.ok /\ Expr!SkipSpace(input, b.pos) = Len(input)
         => LET result == Expr!Operation(name, a.value, b.value)
            IN output.ok = result.ok /\ (output.ok => output.value = result.value)

(* Both forms of the calculator compute what arithmetic says.              *)
CalculatorIsRight == ParserIsRight /\ CalculatorAgrees
-----------------------------------------------------------------------------
(* The tools. *)

(* An input that fits its schema is served as it was meant: a limit, an    *)
(* offset or a number of chunks is the one that was given, within the      *)
(* range that the store and the search take without a change, but for an   *)
(* offset that no integer holds; and no kind of log is unknown.            *)
ValidIsServed ==
  Done("call") /\ output =>
    LET logs == Tools!QueryLogs(input.input)
        Served(name, values) ==
          Tools!Given(input.input, name) /\ input.input[name][2] <= MaxInt =>
            values = {input.input[name][2]}
    IN /\ input.tool = "query_logs" =>
            /\ logs.list # {}
            /\ Served("limit", logs.limit) /\ logs.limit \subseteq 1 .. 100
            /\ Served("offset", logs.offset)
       /\ input.tool = "search_knowledge_base" =>
            Served("top_k", Tools!SearchTopK(input.input))

(* The mock model only makes calls of tools that main allows, with inputs  *)
(* that fit their schemas: a mock chat is never refused for its form.      *)
MockCallIsValid ==
  Done("message") =>
    /\ output.tool \in Tools!Builtins \cap Tools!AllowedTools
    /\ Tools!ValidInput(output.tool, output.input)

(* What fits a schema is what the tool then does, and the mock model never *)
(* asks for anything else.                                                 *)
SchemaIsHonoured == ValidIsServed /\ MockCallIsValid
-----------------------------------------------------------------------------
(* The start of the process. *)

(* A variable that the process has is never replaced by .env, another one  *)
(* has the first value the file gives it, and a second load changes        *)
(* nothing.                                                                *)
ProcessEnvWins ==
  Done("env") =>
    /\ \A key \in DOMAIN input.process :
         LET given == {i \in DOMAIN input.lines :
                         input.lines[i].key = key /\ input.lines[i].value # Start!Unset}
         IN output[key] =
              IF input.process[key] # Start!Unset THEN input.process[key]
              ELSE IF given = {} THEN Start!Unset
              ELSE input.lines[CHOOSE i \in given : \A j \in given : i <= j].value
    /\ \A i \in DOMAIN input.lines : Start!LoadLine(output, input.lines[i]) = output

(* Whatever the environment says, the gateway starts with values that the  *)
(* other modules assume: a rate of at least one call, a queue only with    *)
(* workers and with room, a deadline for every tool, vectors that have a   *)
(* dimension, and rows to return.                                          *)
BootsInRange ==
  Done("boot") =>
    /\ output.rateLimit > 0 /\ output.timeout > 0 /\ output.rows > 0
    /\ output.queue > 0 => output.workers > 0
    /\ output.mock => output.dimension > 0

(* A number that is misspelt is as good as none: the gateway starts as if  *)
(* it were not set.                                                        *)
MisspeltIsUnset ==
  Done("boot") =>
    \A key \in DOMAIN input.env \ {"MYSQL_DSN", "ENABLE_MOCK_EMBEDDING", "RATE_LIMIT_FAIL_CLOSED"} :
      input.env[key][1] = "word" =>
        output = Start!Boot([input.env EXCEPT ![key] = Start!Unset], input.up)

(* From any environment, file and choice of stores the process comes up    *)
(* with the configuration that was meant.                                  *)
ConfigurationHolds == ProcessEnvWins /\ BootsInRange /\ MisspeltIsUnset
-----------------------------------------------------------------------------
(* The edge. *)

(* With an API key configured, AgentService is asked for nothing but its   *)
(* health unless the request carries the key, and nothing at all by a      *)
(* preflight or by a body that does not come whole within the limit.       *)
ServiceIsGuarded ==
  Done("request") /\ output.asked =>
    /\ input.options.key /\ input.request.route # "/health" => input.request.key = "right"
    /\ input.request.method # "OPTIONS"
    /\ input.request.method = "POST" =>
         Edge!Binds(input.request, input.options.limit)

(* Every chat that is answered is counted once, as the success or failure  *)
(* that its answer says; one that panics is answered and not counted.      *)
ChatIsCounted ==
  Done("request") =>
    output.counted =
      IF input.request.method = "POST" /\ input.request.route = Edge!Chat
         /\ ~(output.asked /\ input.request.outcome = "panic")
      THEN {IF output.status = 200 THEN "success" ELSE "failed"} ELSE {}

(* A page of an allowed origin may read every answer, the errors included, *)
(* and its preflight passes without a key; another origin may read none.   *)
BrowserMayRead ==
  Done("request") =>
    LET listed == input.request.origin # "none"
                  /\ input.options.origins \cap {"*", input.request.origin} # {}
    IN /\ output.allowed = listed
       /\ input.request.method = "OPTIONS" => output.status = IF listed THEN 204 ELSE 403

(* The middlewares are in the order that lets each of them do its work.    *)
EdgeHolds == ServiceIsGuarded /\ ChatIsCounted /\ BrowserMayRead
=============================================================================
