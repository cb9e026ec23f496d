---------------------------- MODULE BuiltinTools ----------------------------
(***************************************************************************)
(* The built-in tools of internal/tool/builtin.go: their schemas, which    *)
(* the executor checks inputs against (validateInput), and what their      *)
(* Execute then asks of the store or the searcher; and the calls that the  *)
(* MockClient of internal/llm/client.go makes of them.                     *)
(*                                                                         *)
(* An input is a function from names to values.  A value is <<"string", s>>*)
(* <<"number", n>>, <<"fraction", n>> for a number that is not an integer  *)
(* and whose integer part is n, or <<"null">>.                             *)
(***************************************************************************)
EXTENDS Integers

CONSTANT MaxInt   \* the largest int, 2^63 - 1; a JSON number may exceed it

Number(n) == <<"number", n>>
String(s) == <<"string", s>>

Given(input, name) == name \in DOMAIN input
-----------------------------------------------------------------------------
(* Schemas.  A property is [type, enum, min, max]; {} is no enum and no    *)
(* maximum.                                                                *)

Integer(min, max) == [type |-> "integer", enum |-> {}, min |-> min, max |-> max]
Text(enum) == [type |-> "string", enum |-> enum, min |-> 1, max |-> {}]
Numeric == [type |-> "number", enum |-> {}, min |-> 0, max |-> {}]

CalculatorSchema ==
  [required |-> {},
   properties |->
     [expression |-> Text({}), operation |-> Text({"add", "subtract", "multiply", "divide"}),
      a |-> Numeric, b |-> Numeric]]

MySQLReadonlySchema == [required |-> {"sql"}, properties |-> [sql |-> Text({})]]

HTTPGetSchema == [required |-> {"url"}, properties |-> [url |-> Text({})]]

KnowledgeBaseSchema ==
  [required |-> {"query"}, properties |-> [query |-> Text({}), top_k |-> Integer(1, {20})]]

QueryLogsSchema ==
  [required |-> {},
   properties |->
     [kind |-> Text({"tool_calls", "policy_rejects"}), limit |-> Integer(1, {100}),
      offset |-> Integer(0, {})]]

Schema(tool) ==
  CASE tool = "calculator" -> CalculatorSchema
    [] tool = "query_mysql_readonly" -> MySQLReadonlySchema
    [] tool = "http_get" -> HTTPGetSchema
    [] tool = "search_knowledge_base" -> KnowledgeBaseSchema
    [] tool = "query_logs" -> QueryLogsSchema

(* The names that RegisterBuiltins registers, and the allowlist of main.   *)
Builtins ==
  {"calculator", "query_mysql_readonly", "http_get", "search_knowledge_base", "query_logs"}
AllowedTools ==
  {"calculator", "query_mysql_readonly", "http_get", "search_knowledge_base", "query_logs"}

(* Mutant: a number is not held against the bounds.                        *)
FitsUnbounded(value, property) ==
  CASE property.type = "string" ->
         value[1] = "string" /\ value[2] # "" /\ (property.enum = {} \/ value[2] \in property.enum)
    [] property.type = "number" -> value[1] \in {"number", "fraction"}
    [] property.type = "integer" -> value[1] = "number"

(* minLength and enum for a string, minimum and maximum for an integer;    *)
(* 5.0 is an integer to a JSON schema.                                     *)
Fits(value, property) ==
  CASE property.type = "string" ->
         value[1] = "string" /\ value[2] # "" /\ (property.enum = {} \/ value[2] \in property.enum)
    [] property.type = "number" -> value[1] \in {"number", "fraction"}
    [] property.type = "integer" ->
         value[1] = "number" /\ property.min <= value[2]
         /\ \A max \in property.max : value[2] <= max

(* validateInput: names without a property may hold anything.              *)
ValidInput(tool, input) ==
  LET schema == Schema(tool)
  IN /\ schema.required \subseteq DOMAIN input
     /\ \A name \in DOMAIN input \cap DOMAIN schema.properties :
          Fits(input[name], schema.properties[name])
-----------------------------------------------------------------------------
(* Execute. *)

StringInput(input, name) ==
  IF Given(input, name) /\ input[name][1] = "string" THEN input[name][2] ELSE ""

(* The outcomes of int(v), which drops what is behind the point: a float64 *)
(* above the range becomes the smallest integer on amd64, the largest on   *)
(* arm64, and one below it the smallest.                                   *)
IntInput(input, name, fallback) ==
  IF ~Given(input, name) \/ input[name][1] \notin {"number", "fraction"} THEN {fallback}
  ELSE IF input[name][2] > MaxInt THEN {-MaxInt - 1, MaxInt}
  ELSE IF input[name][2] < -MaxInt - 1 THEN {-MaxInt - 1}
  ELSE {input[name][2]}

(* The list that query_logs reads; {} is an error.                         *)
ListOf(given) ==
  {IF given = "" THEN "tool_calls" ELSE given} \cap {"tool_calls", "policy_rejects"}

QueryLogs(input) ==
  [list |-> ListOf(StringInput(input, "kind")),
   limit |-> IntInput(input, "limit", 20),
   offset |-> IntInput(input, "offset", 0)]

(* How many chunks search_knowledge_base asks Qdrant for.                  *)
SearchTopK(input) ==
  {IF k <= 0 THEN 5 ELSE k : k \in IntInput(input, "top_k", 5)}
-----------------------------------------------------------------------------
(* The MockClient, by the words it finds in a message.                     *)

MockToolCall(words) ==
  IF "http" \in words
  THEN [tool |-> "http_get", input |-> [url |-> String("message")]]
  ELSE IF words \cap {"log", "audit"} # {}
  THEN [tool |-> "query_logs", input |-> [kind |-> String("tool_calls"), limit |-> Number(20)]]
  ELSE IF words \cap {"sql", "select"} # {}
  THEN [tool |-> "query_mysql_readonly", input |-> [sql |-> String("message")]]
  ELSE IF words \cap {"search", "kb"} # {}
  THEN [tool |-> "search_knowledge_base",
        input |-> [query |-> String("message"), top_k |-> Number(5)]]
  ELSE [tool |-> "calculator", input |-> [expression |-> String("1+1")]]
=============================================================================
