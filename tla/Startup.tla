------------------------------ MODULE Startup ------------------------------
(***************************************************************************)
(* From the environment to a running gateway: loadEnvFile and the readers  *)
(* of internal/config/config.go, and the constructors that main passes the *)
(* values to, which put the limits of the other modules in range.          *)
(*                                                                         *)
(* A variable holds "" (also when it is not set), a <<"number", n>>, or a  *)
(* <<"word", w>>.  A line of .env is [key, value] or no setting at all, a  *)
(* comment or a line without "=".                                          *)
(***************************************************************************)
EXTENDS Integers

Unset == <<"word", "">>
Number(n) == <<"number", n>>
Word(w) == <<"word", w>>

(* The variables that are read here.                                       *)
Variables ==
  {"MYSQL_DSN", "RATE_LIMIT_PER_MINUTE", "RATE_LIMIT_FAIL_CLOSED", "ASYNC_WORKERS",
   "ASYNC_QUEUE_SIZE", "TOOL_DEFAULT_TIMEOUT_MS", "ENABLE_MOCK_EMBEDDING",
   "EMBEDDING_DIMENSION", "MAX_SQL_ROWS"}

NoSetting == [key |-> "", value |-> Unset]
-----------------------------------------------------------------------------
(* One pass of loadEnvFile: what is set, by the process or a line before,  *)
(* stays.                                                                  *)
LoadLine(process, line) ==
  IF line.key = "" \/ process[line.key] # Unset THEN process
  ELSE [process EXCEPT ![line.key] = line.value]

(* envInt: strconv.Atoi or the fallback.                                   *)
EnvInt(value, fallback) == IF value[1] = "number" THEN value[2] ELSE fallback

(* envBool: "1", "true" and "yes" are yes, any other word is no.           *)
EnvBool(value, fallback) ==
  IF value = Unset THEN fallback
  ELSE value \in {Number(1), Word("true"), Word("yes")}
-----------------------------------------------------------------------------
(* The constructors. *)

(* policy.NewEngine                                                        *)
RateLimit(n) == IF n <= 0 THEN 60 ELSE n

(* Mutant: a queue without workers.                                        *)
QueueOfNoWorkers(workers, size) == IF size > 0 THEN size ELSE 0

(* executor.New: the size of the channel, or 0 for none.                   *)
QueueOf(workers, size) == IF workers > 0 /\ size > 0 THEN size ELSE 0

DefaultTimeout(ms) == IF ms <= 0 THEN 5000 ELSE ms

(* rag.NewDeterministicEmbedder; the client of the service takes any.      *)
Dimension(mock, n) == IF mock /\ n <= 0 THEN 64 ELSE n

(* repository.enforceLimit                                                 *)
MaxSQLRows(n) == IF n <= 0 THEN 100 ELSE n

(* NewStore: one ping decides, for the life of the process.                *)
StoreOf(dsn, mysqlUp) == IF dsn # Unset /\ mysqlUp THEN "mysql" ELSE "memory"

(* main, with which of its servers are up.                                 *)
Boot(env, up) ==
  LET workers == EnvInt(env["ASYNC_WORKERS"], 2)
      mock == EnvBool(env["ENABLE_MOCK_EMBEDDING"], TRUE)
  IN [store |-> StoreOf(env["MYSQL_DSN"], "mysql" \in up),
      limiter |-> "redis" \in up,
      failClosed |-> EnvBool(env["RATE_LIMIT_FAIL_CLOSED"], FALSE),
      rateLimit |-> RateLimit(EnvInt(env["RATE_LIMIT_PER_MINUTE"], 60)),
      workers |-> IF workers > 0 THEN workers ELSE 0,
      queue |-> QueueOf(workers, EnvInt(env["ASYNC_QUEUE_SIZE"], 32)),
      timeout |-> DefaultTimeout(EnvInt(env["TOOL_DEFAULT_TIMEOUT_MS"], 5000)),
      mock |-> mock,
      dimension |-> Dimension(mock, EnvInt(env["EMBEDDING_DIMENSION"], 64)),
      rows |-> MaxSQLRows(EnvInt(env["MAX_SQL_ROWS"], 100))]
=============================================================================
