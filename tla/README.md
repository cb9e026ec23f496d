# TLA+ models of the Go Safe Agent Gateway

The gateway (`src/`, Go) lets a language model call backend tools only through
one executor, which looks the tool up, validates the input, asks the policy
engine, runs the tool under a deadline, and writes an audit row. Slow tools can
be submitted as asynchronous tasks to a worker pool, a chat keeps its
transcript in the store, and documents are indexed in MySQL and Qdrant. This
directory holds TLA+ modules translated from that code, TLC configurations that
check them on small instances, and TLAPS proofs of the same properties for
every value of the constants. `PROJECT.json` maps each definition to the lines
it stands for.

Run `tlc -config X.cfg MCModule.tla` for a configuration, `tlapm M_proofs.tla`
for a proof module.

## Inventory of the system

| component | state | operations | talks to |
|---|---|---|---|
| async executor (`internal/executor`) | bounded channel, worker goroutines | `SubmitAsync`, `worker`, `runAsyncJob` | store, `Execute`, gauges |
| sync executor (`internal/executor`) | none of its own; one goroutine per call | `Execute`, `executeTool`, `saveAudit`, `recordMetrics` | registry, policy, tools, store, metrics |
| policy engine (`internal/policy`) | configuration, a limiter or none | `Check`, `checkRateLimit`, `checkSQL`, `checkURL`, `SanitizeInput` | Redis |
| rate counters (`internal/repository/redis.go`) | Redis keys with a time to live | `IncrWithTTL` | Redis |
| repository (`internal/repository`) | MySQL tables, or maps and slices behind a lock | create, update, get, paged lists, `QueryReadonly` | MySQL |
| agent service (`internal/service`) | none | `Chat`, `ExecuteTool`, `IndexDocument`, reads | store, LLM, executor, RAG |
| RAG (`internal/rag`) | documents and chunks in MySQL, points in Qdrant | `IndexDocument`, `Search`, `EnsureCollection`, `Upsert`, `SplitMarkdown` | store, embedder, Qdrant |
| tools (`internal/tool`) | registry map, filled at boot | `Register`, `Get`, `List`, five built-ins, an expression parser | store, HTTP, RAG |
| LLM client (`internal/llm`) | none | `GenerateToolCall`, `GenerateFinalAnswer` | external API |
| HTTP (`internal/handler`, `router`, `middleware`, `web`) | none | decode, authenticate, limit, encode | service |
| process (`cmd/server`, `internal/config`, `internal/observability`) | which store, whether a limiter, two gauges | boot, graceful shutdown, metrics | MySQL, Redis |

### What is hard

* **Concurrency.** Request handlers and workers meet at the channel
  (`executor.go:218`, `:235`) and set one gauge behind no lock (`:221`); callers
  of one rate key meet in Redis, between any two of its commands; rows are
  written between the pages that a client reads (`mysql.go:75`); two first
  documents both find no collection (`qdrant.go:57`).
* **Failure.** Each store call may fail at any step, and a failed write may be
  applied all the same. A task passes five writes, a chat six calls to three
  systems, a document four writes to two systems that share no transaction.
* **Contexts.** A synchronous call lives under the request's context; when the
  client goes away, the store refuses what is written afterwards, the deferred
  audit and the answer of a chat included.
* **Restarts.** The channel and the goroutines are lost (`docker-compose`
  restarts the process; graceful shutdown waits for handlers but not for
  workers), Redis, Qdrant and MySQL stay, the MemoryStore does not.
* **Timeouts and retries.** A tool's deadline races its answer; an INCR that
  timed out may have counted; a client that got no answer asks again, and its
  tool runs again.
* **Boundaries.** Windows and overlaps of the chunker, limits and offsets, the
  precedence of the calculator, words inside words in SQL, labels of a host,
  fields inside lists, numbers that are misspelt in the environment.

`PROJECT.json` lists these as hazards, each at its line.

### What makes each component correct

* async: a tool starts at most once per task; a task's row follows a lifecycle
  and its verdict is true; nobody's task is forgotten silently; accepted tasks
  finish; the gauges are right.
* sync: the audit, the reject log, the metrics and the answer agree with what
  ran; a denied call runs nothing; every call returns.
* policy and counters: a window admits no more than the limit; a refusal is
  earned and temporary; fail-closed means closed; the rules judge words, labels
  and fields, not parts of them (but for `select` and `with`, see below).
* chat: the transcript has no gap; a question makes its tool run again only if
  an answer was lost; every request ends.
* RAG: what is reported as indexed is complete and can be found; what is found
  exists; a failure leaves nothing that a retry would double; chunks carry the
  whole text.
* lists: paging passes over no row and gives none twice.
* edge and process: no service call without a key, every chat is counted, a
  process starts with values the other parts assume.

## Modules

| module | what it is |
|---|---|
| `TaskLifecycle` | abstract: the status word a client polls, absent, pending, running, success / failed / timeout (failed also from pending, when the queue is full) |
| `AsyncTasks` | `SubmitAsync`, the channel, the workers, `runAsyncJob` and the writes they make; implements `TaskLifecycle` |
| `QueueGauge` | the two gauges that those set, step by step |
| `ToolCall` | `Execute` for synchronous calls |
| `PolicyCheck` | `Engine.Check` and `IncrWithTTL` on a shared Redis |
| `Chat` | `AgentService.Chat` |
| `DocumentLifecycle` | abstract: a document is stored, then searchable, then on record |
| `RagIndex` | `IndexDocument`, `Search`, `EnsureCollection`; implements `DocumentLifecycle` |
| `Paging` | the paged lists of both stores under concurrent writes |
| `Chunking`, `MarkdownSplit` | `splitLongText`; `SplitMarkdown` up to the paragraphs it cuts |
| `Expression`, `BuiltinTools` | the calculator's parser; the tools' schemas and what their `Execute` asks for; the mock model |
| `PolicyRules`, `Masking` | `checkSQL`, `checkURL`, `enforceLimit`; `SanitizeInput` and `maskSensitive` |
| `Startup` | `loadEnvFile`, `EnvInt`, `EnvBool`, the constructors that put values in range |
| `HttpEdge` | middleware, routes and handlers for one request |
| `Routines` | the functions without state, one call per behaviour, beside reference definitions; a loop is one step per pass, a recursion one step per call |
| `AsyncInvariant`, `PolicyInvariant`, `ToolInvariant`, `ChatInvariant`, `RagInvariant`, `PagingInvariant`, `RoutinesInvariant` | inductive invariants of the module of that name |
| `AsyncTasks_proofs`, `PolicyCheck_proofs`, `ToolCall_proofs`, `QueueGauge_proofs`, `Chat_proofs`, `RagIndex_proofs`, `Paging_proofs`, `Routines_proofs` | theorems |
| `MC...` | constants for TLC |

An operator whose comment begins with "Mutant" is a plausible bug in the
operator that follows it. It is never part of the specification;
`PROJECT.json` says which property detects it.

The modules compose by hiding one another's inside: `AsyncTasks` sees an
execution as a choice of outcome, which `ToolCall` refines; `ToolCall` and
`Chat` see the policy as a choice of decision, which is `PolicyCheck`'s and
`PolicyRules`'; `Chat` sees the executor as "refuses, or runs and returns";
`RagIndex` sees a document as a number of chunks, which `Chunking` and
`MarkdownSplit` compute; all of them take limits in range, which `Startup`
establishes, and a context that may be cancelled at any time, which is the
client of `HttpEdge`.

All models of stores agree on what a failed write is: under a cancelled context
MySQL refuses it outright; under a live one it returns an error, waits in `lost`
and may `Land` at any later time, or never. That covers a statement that was
refused, one whose acknowledgement was lost, and one still running on the
server after the context ended. The MemoryStore ignores contexts, never fails,
and loses its tables with the process.

### AsyncTasks

One element of `Tasks` is one call of `SubmitAsync`. `sub[t]` is where that call
is: `idle`, `creating` (before `CreateAsyncTask`), `offering` (before the
`select`), `rejecting` (before the update of its `default` branch), and then
`accepted` (the client has the id), `refused`, or `gone` with the process.
`pc[w]` is where worker `w` is: `receive`, `load` (`GetAsyncTask`), `mark`
(update to running), `check` (`Execute` up to the policy's answer), `tool`,
`audit` (`saveAudit`), `save` (the last update). `rows` and `audit` are the two
tables. Each action is one store call or one step between two of them.
`Restart` empties the channel, the workers and the handlers. It stands for a
kill and also for graceful shutdown, which waits for no worker. `faulted` is
history: tasks that met a store error or a restart. The refinement mapping to
`TaskLifecycle` is `status <- rows`. The reject log of a denied task is left to
`ToolCall`; a task's tool and input are not told apart.

### QueueGauge

`SubmitAsync` and a worker change the channel, read its length and set the gauge
in three steps. `recent` is history: the lengths since a time when nobody was
between a change and its `Set`. Jobs are a number: what they do is
`AsyncTasks`' subject.

### PolicyCheck

`pc[c]`: `idle`, `incr` (before INCR), `expire` (INCR returned 1, before
EXPIRE), `input` (past the limiter), `done`, or `gone` with the process.
`count`, `ttl` and `window` are the Redis key: its value, whether it will
expire, and (history) the number of the current window. `joined[c]` (history) is
the window in which Redis counted call `c`. The tool, the permission, the SQL and
the URL checks go either way, since the counters do not depend on how.
`limiter` is whether the engine has a `RedisClient`: `main` decides it once per
process by a ping.

Faults: `"redis"` lets INCR and EXPIRE return an error, applied or not, lets
the client repeat an INCR whose connection broke (`IncrRetried`, once per call:
that bounds the counter), and lets the ping at boot fail. `"crash"` lets the
process restart between any two commands. A repeated EXPIRE is not told from the
first: it moves the end by the milliseconds between the two. Redis never loses
data.

### ToolCall

`pc[c]`: `idle`, `check`, `reject` (before `SavePolicyReject`), `tool`, `audit`
(the deferred `saveAudit`), `done`. `ctx[c]` is the context of the request,
`toolCtx[c]` the error of the context of the tool; the first cause wins, as in
Go. An outcome of the tool is a good result, a result whose `Success` is false,
an error, a panic (recovered), or nil; any of them may come before or after the
deadline. Left out: an error or an empty reason from `policies.Check`, which
`Engine.Check` never returns; the process is not restarted here.

### Chat

`pc[c]` is which of `Chat`'s calls comes next: `session`, `question` (the two
`CreateSession` / `CreateMessage`), `plan` (`GenerateToolCall`), `execute` and
`tool` (the executor, before and after the tool starts), `final`
(`GenerateFinalAnswer`), `answer` and `decline` (the two `CreateMessage` of an
answer: the error of the first is returned, that of the second dropped).
`rows` are the rows of sessions and messages, `ran` (history) the calls whose
tool started. A request may name no session, one an answer told of, or one the
client made up: nothing looks it up. A client asks again only after it gave up
(`GaveUp`), which is what `RunsAgainOnlyIfAnswerLost` builds on.

### RagIndex

`pc[r]` of a document goes through `check` and `create` (`EnsureCollection`),
`document`, `embed`, `upsert`, `chunks`; that of a search through `check`,
`create`, `search`. `next[d]` is the row that `SaveChunks` inserts next; the
MemoryStore takes all at once. `docs`, `chunks`, `points` and `collection` are
the two tables and what Qdrant has. `early` and `expects` are history. Contents
are model values with a number of chunks, zero for white space. The refinement
mapping takes a document's stage from the tables and the points alone; a
MemoryStore promises nothing across a restart, so its documents stay "absent".

### Paging

A row is stamped with a second and committed later (MySQL), or appended behind
a lock (memory). `Listings` are the orders in which a query may return the
table, ties in any order and not always the same. A client goes on behind the
rows it was given and stops at an empty page; `got` counts what it was given.

### Routines

A behaviour of `Routines` is one call of one function on one input from
`Inputs`. A function without a loop returns in one step. A loop takes one step
for every pass, and a function that calls itself one step for every call, so
that what a theorem says of it rests on an invariant and not on the length of
the input: `LoadLine` is a line of `.env`, `CutWindow` a window of
`splitLongText`, `ReadLine`, `CloseLast` and `SplitPart` are the two loops of
`SplitMarkdown`. `MaskAudit`, `Sanitize` and `MaskAnswer` are calls of
`maskSensitive` and `SanitizeInput` in the order of `Execute`: a value is a tree,
and a walk keeps the nodes for which there is a call to come, those that were
copied and those that were masked. The order in which Go ranges over a map is
any choice of the next node. `ParseFactor`, `EndFactor` and `NextOperand` are
`evalExpression`'s parser with its calls on a stack: a call begins, has its
operand returned, or goes on at a sign.

Every property compares the result with a definition written another way. The
calculator is compared with a grammar: `Meaning` gives, for every two positions
of an expression, the values of what is between them as a factor, a product and
a sum, and `Expression!IsGrammar` says by which equations. `Grammar` in
`MCAlgorithms` computes that table from the shorter parts to the longer.
`IsMaskedCopy` says of every node of a value whether it is shown, by its parent
and its name. `SqlIsJudgedByWords` speaks of words where the code has a
regular expression with `\b` or looks for semicolons and comment marks; for
`select` and `with` it says what the code's `HasPrefix` and `Contains` say, the
beginning of the first word and a part of any word. `SelectIsSaid` says for which
texts these are words of their own. `HostIsListed` speaks of labels where the code has
suffixes. Texts are
sequences over a few kinds of symbols, and any symbols for the calculator;
numbers of the calculator are exact fractions. `EveryCallEnds` is an action
property: every step leaves less to do, by a measure for each loop and each
recursion.

## Runs

| run | instance | checks |
|---|---|---|
| `async_mysql` | 3 tasks, 2 workers, 1 slot, store errors and restarts | type, `AtMostOnce`, `RefusedNeverRuns`, `NoSilentOrphan`, `VerdictIsTrue`, `AcceptedHasRow`, refinement of `TaskLifecycle` |
| `async_live` | 3 tasks, 1 worker, 1 slot, store errors and restarts, fair | `AcceptedFinishes` |
| `gauges` | 4 submissions, 2 workers, 2 slots | `GaugeIsRecent`, `ActiveIsExact` |
| `policy_safety` | 3 calls of one key, limit 2, fail-closed, all faults, fair | type, `WindowBound`, `ExceededMeansFull`, `EveryCounterExpires`, `FixedWindow`, `FailClosedCounts`, `RefusalEndsUnlessCut` |
| `policy_immortal_key` | 3 calls, limit 2, restarts, fair | **violates** `RefusalIsTemporary` |
| `tool_mysql` | 2 calls, MySQL errors, clients leave, fair | type, `AuditHolds`, `DeniedNeverRuns`, `TimeoutIsDeadline`, `CallReturns` |
| `tool_audit_lost` | 2 calls, MySQL, clients leave | **violates** `EveryCallAudited` |
| `chat` | a question asked at most twice, both stores, both models, all faults, fair | type, `TranscriptIsTrue`, `RunsAgainOnlyIfAnswerLost`, `ChatReturns` |
| `chat_answer_lost` | the same, MySQL and a model, store errors | **violates** `AnsweredHasBothMessages` |
| `rag` | 2 documents (in one setup the same content), 1 search, MySQL with the embedding service and memory with the deterministic one, all faults | type, `ProgressIsOnRecord`, `SearchIsTrue`, `FailsClean`, refinement of `DocumentLifecycle` |
| `paging` | 4 rows, 3 seconds, three lists, limits and offsets in and out of range | `PagesAreRight` |
| `algorithms` | all small inputs of twelve kinds | `CalculatorIsRight`, `ChunksCarryDocument`, `RulesHold`, `MaskingHolds`, `SchemaIsHonoured`, `ConfigurationHolds`, `EdgeHolds`, `EveryCallEnds` |

Properties of several parts: `AuditHolds` is `AuditIsTrue` and
`SuccessIsAudited`; `TranscriptIsTrue` is `AnswerHasQuestion`,
`ToolHasQuestion` and `ToolAnswerIsStored`; `ProgressIsOnRecord` is
`IndexedIsComplete` and `ChunkRowsArePrefix`; `SearchIsTrue` is `HitHasDocument`
and `SearchSeesIndexed`; `PagesAreRight` is the types, `NothingSkipped`,
`NothingTwice` and `StoresPageAlike`; those of `algorithms` name their parts
where they are defined.

### Bounds, and why they are enough

* *Tasks and workers.* Three tasks, two workers and one slot are the least for
  which one task runs, one waits in the channel, and one finds it full, and for
  which two workers race for a job. Liveness needs one worker: progress of
  others must survive its dropping a job.
* *Gauges.* Two submissions and two workers can be between their reads and sets
  at once, with jobs left to submit.
* *Calls of Check.* With limit 2, three calls fill the window and exceed it;
  the run passes through several windows, since each counted call may be the
  first of one. Keys are independent.
* *Synchronous calls* share nothing but the tables they append to; two of them
  show that.
* *Chats.* Two calls are a question and its retry, in one session or two.
* *Documents.* Two documents race for the collection, and the second may be the
  first sent again; two chunks are the least for which `SaveChunks` stops half
  way, none is a document of white space.
* *Pages.* The limits 20 and 100 are 2 and 3, so that four rows take two pages
  and a limit may be above, in and below the range; three seconds make ties and
  late commits. `MaxClock` bounds the clock.
* *Inputs.* Expressions of four tokens over all symbols, and longer ones over
  those whose order matters; texts of up to eleven runes over windows of two to
  four, so that a paragraph has three windows and more; SQL of three arbitrary
  tokens, and longer before and behind a limit; values of four nodes below the input,
  and of two with three below the data; three lines of `.env`.
* *Counters.* `IncrRetried` once per call bounds `count`. Every specification
  stops because a client makes finitely many calls, which is why deadlock is
  not checked.
* *Symmetry* is used in runs without liveness only.

### Fairness

`AsyncTasks`: weak fairness of each submission's and each worker's next step:
the Go scheduler runs every runnable goroutine, store calls end (their contexts
have deadlines or the driver fails), and tools return, at their deadline if not
before. No fairness of `Land`, `Restart`, or of new submissions.
`PolicyCheck`: weak fairness of a call that is past its static checks, and of
key expiry once a key has a time to live. `ToolCall`: weak fairness of a call
that has begun. That a tool returns is an assumption on the tools: the
executor waits for a tool that ignores its context. The five built-in tools pass
their context to every call that blocks. `Chat`: weak fairness of a request's
next step, since the store and the model's HTTP client have timeouts and
`Execute` returns (`CallReturns`).

### Findings

* `policy_immortal_key`: INCR and EXPIRE are not one step. After a restart (or
  an error, or a repeated INCR) between them the counter never expires, and a
  caller who has used up its rate is refused for ever. `EveryCounterExpires` and
  `RefusalEndsUnlessCut` say that faults are the only way.
* `tool_audit_lost`: `saveAudit` uses the request's context, so a client that
  leaves before the audit is written takes the row of a call whose tool ran with
  it. The documents say that every tool call is audited.
* `chat_answer_lost`: without a tool call, `Chat` drops the error of storing its
  answer (`agent.go:100`) and returns an answer that the transcript lacks; the
  other branch returns the error (`agent.go:117`).

Met while reading, and described here without a run:

* A process that boots while Redis is away has no rate limit until its next
  restart, also with `RATE_LIMIT_FAIL_CLOSED`; `FailClosedCounts` is about
  processes that have a limiter, so this hazard has no property.
* The queue gauge may keep an older length when two updates overlap;
  `GaugeIsRecent` says how old.
* The answer for a model's failure says that the tool executed
  (`agent.go:115`), also when the executor refused it.
* `GetAsyncTask` answers 404 for a store error (`handler.go:103`), where
  `openapi.yaml:113` has 404 for an unknown task.
* `/v1/tools/execute` answers 400 for every error, also when the tool ran and
  its audit failed.
* `enforceLimit` (`mysql.go:215`) looks for " limit " and the policy
  (`policy.go:161`) for the word: behind a line break or a parenthesis a limit
  is passed by the one and appended again by the other, and MySQL refuses the
  query. `LimitsAgree` says for which texts they agree.
* A text passes as a select when its first word begins with `select` or `with`
  (`policy.go:150`), and a `with` when `select` is a part of any word (`:153`),
  where the refusals say that only select queries are allowed: `selectx limit 9`
  is accepted, and it is MySQL that refuses it.
* `SanitizeInput` leaves lists as they are, `maskSensitive` goes into them;
  neither goes into typed rows. `MaskersAgree` says that what is in a list is
  all that the tool gets otherwise than the audit shows it.
* A boolean that is misspelt counts as false, not as its default; a number does
  (`MisspeltIsUnset`).
* A chat that panics is answered by `gin.Recovery` and not counted by
  `Metrics`.

## Proofs

The theorems hold for any number of tasks, workers, calls, documents, searches
and rows, any queue size, limit and number of chunks, texts of any length, both
stores and every set of faults, while the async and tool runs take MySQL only.
The only assumptions are the named `ASSUME`s: a queue size in the naturals
(positive for the gauges, as `New` makes no channel otherwise), a positive limit
(as `NewEngine` ensures), finitely many calls of `Check`, submissions, workers
and rows (so that they can be counted), store errors only with MySQL, names that
are told apart, default and largest page sizes of at least one with the first no
larger, bounds of the clock and of an integer in the naturals, and for `Routines` that
each input is of its function's parameter type (`InputsAssumption`; a chunk size
is positive, as the constants of `chunk.go` are, a document has a line, as
`strings.Split` never returns none, a tool's input is a map, and the values are
finite). For an expression it also says that `Meaning` satisfies the grammar's
equations, which TLC evaluates for every expression of the run: they determine
the table, since a part is made of shorter ones, but that needs induction.

* **AsyncTasks.** `IInv` is in three layers. *Ownership*: the channel and the
  workers hold each accepted task at most once, and none has run before its
  worker is past `check`. It gives `AtMostOnce`. *Rows*: what the row of a held
  task says at each step, and that a lost write of a task is its only one,
  belongs to a task nobody holds, and carries a legal successor of the row's
  status: this makes a late write a step of the lifecycle. It gives
  `RefusedNeverRuns`, `NoSilentOrphan`, `AcceptedHasRow` and the refinement.
  *Truth*: a verdict at hand, in a row or in a lost write is true and stays true
  under late audit writes. It gives `VerdictIsTrue`.
* **QueueGauge.** `recent` contains the present length, every length that was
  read and not yet set, and, when nobody is under way, the gauge. For
  `ActiveIsExact` the gauge is compared with the cardinality of the set of
  workers that hold a job, step by step.
* **PolicyCheck.** `PolicyInv`: calls of one window got different counts, none
  above the counter, and a call past the limiter got one within the limit. The
  counts are then an injection of the admitted calls into `1..Limit`, which bounds
  their number (`WindowBound`). `ExpiryPending`: one call at most is about
  to set a key's expiry, and the key has none; it gives `FixedWindow`.
  `EarnedInv`: without a repeated INCR the counter is at most the number of
  calls counted in the window, hence `ExceededMeansFull`. `FailClosedCounts` is
  an action property and follows from what each step does.
* **ToolCall.** `ToolInv`: no trace before its time (`NothingYet`), running
  and denial exclude each other (`RunOrDenied`), the audit on its way and the
  metrics follow the result (`OneStory`), and so does the error
  (`AnswerOfResult`).
* **Chat.** `ChatInv` adds to the transcript's three parts what each step builds
  on (`StepsBuild`), that nothing is stored or answered early (`NothingEarly`),
  that a call whose tool ran ends in an answer or a store error
  (`RanFailsInStore`), and that of two calls with one question one has given up
  (`OneWaits`, kept because giving up is for good). The last two give
  `RunsAgainOnlyIfAnswerLost`.
* **RagIndex.** `RagInv`: documents come before their points and points before
  their chunk rows, also among the late writes (`InOrder`); the chunk rows are
  those before `next[d]` and perhaps that one (`RowsFollowNext`); who was
  refused early left nothing (`Clean`); a search saw points that are still
  there (`Searched`). It gives the three safety properties, and with the fact
  that a step writes to one place for one document (`OneWrite`) the refinement
  of `DocumentLifecycle`.
* **Paging.** `PagingInv` places each row by its rank, the number of committed
  rows that every listing has before it. For MySQL (`SqlReader`) a row that is
  owed to the client is not yet behind the offset, and one that was given is
  behind it unless a row before it came late; a page moves the offset past the
  rows it gave and no others, since a row without a tie is at its rank in every
  listing. For the MemoryStore (`MemoryReader`) the rows up to the offset were
  given once and the others not at all. The empty page at which the client
  stops shows that the offset is past the table, which gives `NothingSkipped`.
* **Routines.** *Loops*: `EnvLoop` says which line set a variable;
  `WindowLoop` that the windows so far are in order, full, and hold whatever
  begins before the next one; `LineLoop` that the parts that are out, the
  sections that wait and the lines of the open section follow each other and
  have all text between them. They give `ConfigurationHolds` and
  `ChunksCarryDocument`. *Words*: `Words` takes the n-th place at which a word
  or sign begins, and a rank function shows that these places are each taken
  once and in order (`NthIsThere`, `NthRises`); a token between two word
  boundaries is then a word (`SaidAlone`, `SaidSign`), which turns the policy's
  `\b` into words, and `MatchesLimit` into a word `limit` and a
  number behind it (`LimitsAre`). What is sent for an accepted text is judged
  again, token by token (`SentAccepted`). *Labels*: a suffix at a dot and the
  last labels of a host are matched from the right, where the n-th dots of the
  two texts keep their distance (`NthsAlign`). *Masks*: `MaskLoop` says of each
  walk that it has copied or masked exactly what is below the nodes it went
  through, and the two masks of the input keep what they did beside each other;
  when no call is open, that is the masked copy. *Calculator*: `ParserFits` has
  both directions. Each call on the stack has read a part that is worth what it
  has on its left, so that an accepted expression has the value that is returned
  (`ReadingFits`). And every value the grammar gives the text has a plan
  (`Planned`): what is read next, returned to the calls on the stack one after
  the other, comes to that value, so that an expression with a value is not
  refused and has no other. What the loops of `parseExpression` and `parseTerm`
  can still come to is a set closed under taking up operands (`Reaches`), in
  place of an induction over the chain. `FormsAgree` derives from the grammar
  what two numbers and a sign come to. *End*: `StepsLeft` counts what a call has
  before it, and every step makes it less (`CallsAreFinite`): a window begins
  further on, because the step is never zero; a mask comes to a node that no call
  was made for yet, because a node that waits is below one that was gone through
  once; the parser opens three calls at most for a character, and each returns
  once. With the fairness that a function which has not returned goes on, this is
  what liveness would say, and it holds for inputs of any size. *Tables*: the schemas, the options of the
  edge and the boot values are case distinctions.

The invariants were checked by TLC before they were proved.

Only model-checked: liveness (`AcceptedFinishes`, `RefusalEndsUnlessCut`,
`CallReturns`, `ChatReturns`). Liveness under fairness and ENABLED are out of the
prover's reach, and so is induction over data: that the grammar's equations have
one solution only, and that a walk comes to every node of a tree, which
`IsMaskedCopy` states by parent and child, are not theorems.

## Not modelled

* `tokenize`, `normalize` and the vectors of the embedders, scores and their
  threshold: floating point. What is near a query is any set of points.
* Rounding and overflow of the calculator's float64; `maxLength` of schemas;
  the transfer of `http_get`.
* The rows that a readonly query returns, column types and lengths,
  `GetSession`, `GetDocument`, `Set` and `Get` of Redis and `SessionKey` /
  `TaskKey`, which have no caller.
* What the language model and the embedding service write: arbitrary.
* The tracer and the logger, the listener and exit codes of `main`; strings and
  lists of the configuration, which are passed on.
* The web console, the response envelope's text, deployment files.

## Plan

1. `AsyncTasks` composed with the pipeline of `ToolCall` for the tool step of a
   worker, with `AsyncTasks!Spec` as a property.
2. `RagIndex` with liveness of a request, and with documents that are indexed
   by two gateways at once.
3. A change of `VECTOR_DIMENSION` or of the store between two runs of the
   process (two of the three hazards that no property covers; the
   third is a Redis that is away at boot).
