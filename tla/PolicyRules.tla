---------------------------- MODULE PolicyRules ----------------------------
(***************************************************************************)
(* The rules of internal/policy/policy.go that look at a call alone, and   *)
(* what becomes of an accepted query in internal/repository/mysql.go.      *)
(*                                                                         *)
(* A text of SQL is a sequence of tokens: words, digits, single blanks and *)
(* signs.  Two word tokens side by side are one longer word, so that the   *)
(* regular expressions' \b has to be looked for.  "--" stands for the three*)
(* comment marks, "drop" for the dangerous words, "users" for the blocked  *)
(* tables, "x" for any other name.  A host is a sequence of characters.    *)
(***************************************************************************)
EXTENDS Naturals, SequencesExt

WordToken == {"select", "with", "limit", "drop", "users", "x", "9"}
Blank == {" ", "newline"}
Sign == {";", "--", ")"}
Token == WordToken \cup Blank \cup Sign
-----------------------------------------------------------------------------
(* checkSQL. *)

TrimBlank(sql) ==
  LET kept == {i \in DOMAIN sql : sql[i] \notin Blank}
  IN IF kept = {} THEN <<>>
     ELSE SubSeq(sql, CHOOSE i \in kept : \A j \in kept : i <= j,
                      CHOOSE i \in kept : \A j \in kept : j <= i)

(* strings.TrimRight(sql, ";")                                             *)
TrimSemicolons(sql) ==
  LET kept == {i \in DOMAIN sql : sql[i] # ";"}
  IN IF kept = {} THEN <<>> ELSE SubSeq(sql, 1, CHOOSE i \in kept : \A j \in kept : j <= i)

Occurs(token, sql) == token \in Range(sql)

\* Whether there is a \b before or behind position i.
StartsWord(sql, i) == i = 1 \/ sql[i - 1] \notin WordToken
EndsWord(sql, i) == i = Len(sql) \/ sql[i + 1] \notin WordToken

(* \bword\b                                                                *)
MatchesWord(sql, word) ==
  \E i \in DOMAIN sql : sql[i] = word /\ StartsWord(sql, i) /\ EndsWord(sql, i)

(* \blimit\s+\d+\b                                                         *)
MatchesLimit(sql) ==
  \E i, j, k \in DOMAIN sql :
    /\ i + 1 < j /\ j <= k
    /\ sql[i] = "limit" /\ StartsWord(sql, i)
    /\ \A p \in i + 1 .. j - 1 : sql[p] \in Blank
    /\ \A p \in j .. k : sql[p] = "9"
    /\ EndsWord(sql, k)

(* The checks in their order, with RequireSQLLimit as main sets it.        *)
CheckSQL(raw) ==
  LET sql == TrimBlank(raw) IN
  IF sql = <<>> THEN "required"
  ELSE IF Occurs("--", sql) THEN "comment"
  ELSE IF Occurs(";", TrimSemicolons(sql)) THEN "many"
  ELSE IF MatchesWord(sql, "drop") THEN "dangerous"
  ELSE IF sql[1] \notin {"select", "with"} THEN "not_select"
  ELSE IF sql[1] = "with" /\ ~Occurs("select", sql) THEN "cte"
  ELSE IF MatchesWord(sql, "users") THEN "blocked"
  ELSE IF ~MatchesLimit(sql) THEN "limit"
  ELSE "ok"
-----------------------------------------------------------------------------
(* QueryReadonly: the tool hands the text on as it was given.              *)

(* Mutant: a semicolon at the end stays.                                   *)
EnforceLimitBehindSemicolon(sql) ==
  IF \E i \in 2 .. Len(sql) - 1 :
       sql[i - 1] = " " /\ sql[i] = "limit" /\ sql[i + 1] = " "
  THEN sql
  ELSE TrimBlank(sql) \o <<" ", "limit", " ", "9">>

(* " limit " between two single spaces counts as one that is there.        *)
EnforceLimit(sql) ==
  IF \E i \in 2 .. Len(sql) - 1 :
       sql[i - 1] = " " /\ sql[i] = "limit" /\ sql[i + 1] = " "
  THEN sql
  ELSE TrimSemicolons(TrimBlank(sql)) \o <<" ", "limit", " ", "9">>
-----------------------------------------------------------------------------
(* checkURL. *)

Lower(host) == [i \in DOMAIN host |-> IF host[i] = "A" THEN "a" ELSE host[i]]

(* NewEngine: the entries are trimmed and in lower case, none is empty.    *)
UrlAllowlist(entries) == {Lower(e) : e \in entries} \ {<<>>}

(* localhost, and the addresses of private and local networks.             *)
IsPrivateHost(host) == host \in {<<"localhost">>, <<"10.0.0.1">>}

MatchesEntry(host, entry) == host = entry \/ IsSuffix(<<".">> \o entry, host)

CheckURL(url, allowlist) ==
  LET host == Lower(url.host) IN
  IF url.host = <<>> THEN "invalid"
  ELSE IF url.scheme \notin {"http", "https"} THEN "scheme"
  ELSE IF IsPrivateHost(host) THEN "private"
  ELSE IF \E entry \in UrlAllowlist(allowlist) : MatchesEntry(host, entry) THEN "ok"
  ELSE "not_listed"
-----------------------------------------------------------------------------
(* References: the words of a text, and the labels of a host.              *)

\* The members of a set of numbers in their order.
Rank(S, i) == Cardinality({j \in S : j <= i})
Nth(S, n) == CHOOSE i \in S : Rank(S, i) = n

\* A word is a longest stretch of word tokens, another token its own word.
Starts(sql) ==
  {i \in DOMAIN sql : sql[i] \notin Blank /\ (sql[i] \in Sign \/ StartsWord(sql, i))}

WordAt(sql, i) ==
  IF sql[i] \in Sign THEN <<sql[i]>>
  ELSE SubSeq(sql, i, CHOOSE k \in i .. Len(sql) :
                        EndsWord(sql, k) /\ \A p \in i .. k : sql[p] \in WordToken)

Words(sql) == [n \in 1 .. Cardinality(Starts(sql)) |-> WordAt(sql, Nth(Starts(sql), n))]

IsNumber(word) == \A i \in DOMAIN word : word[i] = "9"

\* Where the words say LIMIT and a number.
Limits(sql) ==
  LET words == Words(sql)
  IN {n \in 1 .. Len(words) - 1 : words[n] = <<"limit">> /\ IsNumber(words[n + 1])}

\* The labels are what the dots divide.
Dots(host) == {0, Len(host) + 1} \cup {i \in DOMAIN host : host[i] = "."}

LabelAt(host, n) == SubSeq(host, Nth(Dots(host), n) + 1, Nth(Dots(host), n + 1) - 1)

Labels(host) == [n \in 1 .. Cardinality(Dots(host)) - 1 |-> LabelAt(host, n)]
=============================================================================
