---------------------------- MODULE MCAlgorithms ----------------------------
(* Small inputs of every kind for TLC. *)
EXTENDS RoutinesInvariant, TLC

\* The sequences of at most n members of S.
UpTo(n, S) == UNION {[1 .. k -> S] : k \in 0 .. n}

\* The texts that are more than space: for others no expression is parsed.
Texts ==
  UpTo(4, {"0", "1", "2", "+", "-", "*", "/", "(", ")"})
    \cup UpTo(6, {"2", "-", "/", "(", ")"})
    \cup UpTo(5, {"1", "2", "-", ".", " "})
    \cup [1 .. 5 -> {"0", "2", "+", "-", "*"}]

Expressions == {s \in Texts : \E i \in DOMAIN s : s[i] # " "}

(* The grammar's values of a text, those of longer parts from those of     *)
(* shorter ones.                                                           *)
RECURSIVE Grow(_, _, _)
Grow(s, n, shorter) ==
  IF n > Len(s) THEN shorter
  ELSE
    LET Add(table, ValuesIn(_, _)) ==
          [x \in {y \in (0 .. Len(s)) \X (0 .. Len(s)) : y[2] - y[1] = n} |->
             ValuesIn(x[1], x[2])] @@ table
        Factors(p, q) == Expr!FactorsOf(s, shorter, p, q)
        factor == Add(shorter.factor, Factors)
        Products(p, q) ==
          Expr!ChainsOf(s, shorter.product, factor, Expr!Signs.product, p, q)
        product == Add(shorter.product, Products)
        Sums(p, q) == Expr!ChainsOf(s, shorter.sum, product, Expr!Signs.sum, p, q)
    IN Grow(s, n + 1, [factor |-> factor, product |-> product, sum |-> Add(shorter.sum, Sums)])

Grammar(s) ==
  LET none == [x \in (0 .. Len(s)) \X (0 .. Len(s)) |-> {}]
  IN Grow(s, 1, [factor |-> none, product |-> none, sum |-> none])

Operations ==
  {[name |-> f, a |-> <<x, 1>>, b |-> <<y, 1>>] :
     f \in {"add", "subtract", "multiply", "divide"}, x \in -3 .. 3, y \in -3 .. 3}

\* Windows of three, of four that share a half, and an overlap too large.
Paragraphs ==
  {[size |-> 3, overlap |-> 1, text |-> s] :
     s \in UpTo(7, Cut!Rune)}
  \cup {[size |-> 4, overlap |-> 2, text |-> s] :
     s \in UpTo(11, {"space", "word"})}
  \cup {[size |-> 2, overlap |-> 2, text |-> s] :
     s \in UpTo(6, {"space", "word"})}

Documents == UpTo(6, Mark!Kind) \ {<<>>}

\* Any short text, tails behind "select", and any middle of a limited text.
Queries ==
  UpTo(3, Rules!Token)
  \cup {<<"select">> \o s : s \in UpTo(5, {" ", "newline", "limit", "9", ";"})}
  \cup {<<h, " ">> \o s \o <<"limit", " ", "9">> :
          h \in {"select", "with", "x"}, s \in UpTo(3, Rules!Token)}
  \cup {<<"select", " ">> \o s \o <<" ", "limit", " ">> \o t :
          s \in UpTo(1, Rules!Token), t \in UpTo(3, {"9", "x", ";", " "})}

Hosts == UpTo(4, {"a", "b", "A", "."}) \cup {<<"localhost">>, <<"10.0.0.1">>}

Allowlists ==
  {{}, {<<"a">>}, {<<"A", ".", "b">>}, {<<"b">>, <<>>}, {<<".", "a">>}, {<<"localhost">>}}

Urls ==
  {[url |-> [scheme |-> "https", host |-> h], allowlist |-> l] :
     h \in Hosts, l \in Allowlists}
  \cup {[url |-> [scheme |-> s, host |-> <<"a">>], allowlist |-> {<<"a">>}] :
     s \in {"http", "ftp"}}

\* The values of k nodes beside the root, the names in a map distinct.
Trees(k) ==
  {v \in [parent : [1 .. k -> 0 .. k - 1], kind : [0 .. k -> {"map", "list", "leaf"}],
          key : [1 .. k -> {"password", "note"}]] :
     \A n \in 1 .. k :
       /\ v.parent[n] < n /\ v.kind[v.parent[n]] # "leaf"
       /\ v.kind[v.parent[n]] = "map" =>
            \A m \in 1 .. n - 1 : v.parent[m] = v.parent[n] => v.key[m] # v.key[n]}

Maps(trees) == {v \in trees : v.kind[Hide!Root] = "map"}

Values ==
  [given : Maps(Trees(4)), data : Trees(0)]
    \cup [given : Maps(Trees(2)), data : Trees(3)]

\* A name may be absent.
Some(names, values) ==
  UNION {[keys -> values] : keys \in SUBSET names}

Numbers == {Tools!Number(n) : n \in {-1, 0, 1, 20, 21, 100, 101, 1000, 1001}}

Calls ==
  {[tool |-> "query_logs", input |-> f @@ g] :
     f \in Some({"kind"}, {Tools!String(s) : s \in {"", "tool_calls", "policy_rejects", "other"}}
                             \cup {<<"null">>}),
     g \in Some({"limit", "offset"}, Numbers \cup {<<"fraction", 5>>})}
  \cup {[tool |-> "search_knowledge_base", input |-> f @@ g] :
     f \in Some({"query"}, {Tools!String(""), Tools!String("text")}),
     g \in Some({"top_k"}, Numbers \cup {<<"null">>})}

Messages == SUBSET {"http", "log", "audit", "sql", "select", "search", "kb"}

\* Two variables, and up to three lines of a file.
EnvValues == {Start!Unset, Start!Word("a"), Start!Number(1)}
EnvLines == {Start!NoSetting} \cup {[key |-> k, value |-> v] : k \in {"K", "L"}, v \in EnvValues}

Envs ==
  {[process |-> p, lines |-> s] :
     p \in [{"K", "L"} -> EnvValues], s \in UpTo(3, EnvLines)}

\* Every integer variable absent, misspelt, negative, zero or in range.
BootKeys == {"RATE_LIMIT_PER_MINUTE", "ASYNC_WORKERS", "ASYNC_QUEUE_SIZE",
             "TOOL_DEFAULT_TIMEOUT_MS", "EMBEDDING_DIMENSION"}

BootEnvs ==
  {n @@ ("ENABLE_MOCK_EMBEDDING" :> m @@ "RATE_LIMIT_FAIL_CLOSED" :> Start!Unset
         @@ "MAX_SQL_ROWS" :> Start!Number(-1) @@ "MYSQL_DSN" :> Start!Word("dsn")) :
     n \in [BootKeys -> {Start!Unset, Start!Word("x"), Start!Number(-1), Start!Number(0),
                         Start!Number(2)}],
     m \in {Start!Unset, Start!Word("off")}}

Boots ==
  {[env |-> e, up |-> u] : e \in BootEnvs, u \in {{}, {"mysql", "redis"}}}

EdgeOptions ==
  [key : BOOLEAN, limit : {0, 2}, origins : {{}, {"app"}, {"*"}}]

EdgeRequests ==
  {[method |-> r[1], route |-> r[2], origin |-> o, key |-> k, body |-> b, outcome |-> e] :
     r \in Edge!Routes \cup {<<"OPTIONS", Edge!Chat>>, <<"GET", Edge!Chat>>},
     o \in {"none", "app", "other"}, k \in {"none", "wrong", "right"},
     b \in [decodes : BOOLEAN, length : {1, 3}], e \in {"ok", "error", "panic"}}

Requests ==
  {[options |-> o, request |-> r] : o \in EdgeOptions, r \in EdgeRequests}

AllInputs ==
  [expression |-> Expressions, operation |-> Operations, paragraph |-> Paragraphs,
   document |-> Documents, sql |-> Queries, url |-> Urls, map |-> Values,
   call |-> Calls, message |-> Messages, env |-> Envs, boot |-> Boots,
   request |-> Requests]
=============================================================================
