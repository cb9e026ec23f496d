-------------------------- MODULE Routines_proofs --------------------------
(* Proofs about Routines. *)
EXTENDS RoutinesInvariant, SequenceTheorems, FiniteSetTheorems, WellFoundedInduction, TLAPS

-----------------------------------------------------------------------------
(* Functions without a loop. *)

LEMMA ResultInv == Spec => [](InputStays /\ ResultIsComputed)
<1>1. Init => InputStays /\ ResultIsComputed
  BY DEF Init, InputStays, ResultIsComputed, Done
<1>2. InputStays /\ ResultIsComputed /\ [Next]_vars => (InputStays /\ ResultIsComputed)'
  <2> SUFFICES ASSUME InputStays, ResultIsComputed, [Next]_vars
               PROVE  InputStays' /\ ResultIsComputed'
    OBVIOUS
  <2> USE DEF InputStays, ResultIsComputed, Done, Running, Return, Pass
  <2>1. CASE JudgeSQL BY <2>1 DEF JudgeSQL
  <2>2. CASE JudgeURL BY <2>2 DEF JudgeURL
  <2>3. CASE Validate BY <2>3 DEF Validate
  <2>4. CASE Plan BY <2>4 DEF Plan
  <2>5. CASE BootUp BY <2>5 DEF BootUp
  <2>6. CASE Respond BY <2>6 DEF Respond
  <2>7. CASE LoadLine BY <2>7 DEF LoadLine
  <2>8. CASE Loaded BY <2>8 DEF Loaded
  <2>9. CASE TakeWhole BY <2>9 DEF TakeWhole
  <2>10. CASE CutWindow BY <2>10 DEF CutWindow
  <2>11. CASE CutUp BY <2>11 DEF CutUp
  <2>12. CASE ReadLine BY <2>12 DEF ReadLine
  <2>13. CASE CloseLast BY <2>13 DEF CloseLast
  <2>14. CASE SplitPart BY <2>14 DEF SplitPart
  <2>15. CASE SplitUp BY <2>15 DEF SplitUp
  <2>16. CASE MaskAudit BY <2>16 DEF MaskAudit
  <2>17. CASE Sanitize BY <2>17 DEF Sanitize
  <2>18. CASE MaskAnswer BY <2>18 DEF MaskAnswer
  <2>19. CASE Masked BY <2>19 DEF Masked
  <2>20. CASE Operate BY <2>20 DEF Operate
  <2>21. CASE ParseFactor BY <2>21 DEF ParseFactor
  <2>22. CASE EndFactor BY <2>22 DEF EndFactor, Returned
  <2>23. CASE NextOperand BY <2>23 DEF NextOperand, Returned
  <2>24. CASE Calculated BY <2>24 DEF Calculated
  <2>25. CASE UNCHANGED vars BY <2>25 DEF vars
  <2> QED
    BY <2>1, <2>2, <2>3, <2>4, <2>5, <2>6, <2>7, <2>8, <2>9, <2>10, <2>11, <2>12, <2>13,
       <2>14, <2>15, <2>16, <2>17, <2>18, <2>19, <2>20, <2>21, <2>22, <2>23, <2>24, <2>25 DEF Next
<1> QED
  BY <1>1, <1>2, PTL DEF Spec
-----------------------------------------------------------------------------
(* The edge. *)

LEMMA ServeAsks ==
  ASSUME NEW options, NEW request, Edge!Serve(options, request).asked
  PROVE  /\ options.key /\ request.route # "/health" => request.key = "right"
         /\ request.method # "OPTIONS"
         /\ request.method = "POST" => Edge!Binds(request, options.limit)
<1> DEFINE answer == Edge!Route(options, request)
<1>1. request.method # "OPTIONS" /\ answer.asked
  <2>1. request.method # "OPTIONS"
    BY DEF Edge!Serve
  <2> QED
    BY <2>1 DEF Edge!Serve
<1>2. ~(request.method = "POST" /\ ~Edge!Binds(request, options.limit))
  <2>1. Edge!Handle(request, options.limit).asked
    BY <1>1 DEF Edge!Route, Edge!Answer
  <2> QED
    BY <2>1 DEF Edge!Handle, Edge!Answer
<1>3. Edge!HasKey(options, request) \/ request.route = "/health"
  BY <1>1 DEF Edge!Route, Edge!Answer, Edge!Protected
<1> QED
  BY <1>1, <1>2, <1>3 DEF Edge!HasKey

LEMMA ServeCounts ==
  ASSUME NEW options, NEW request
  PROVE  LET answer == Edge!Serve(options, request) IN
         answer.counted =
           IF request.method = "POST" /\ request.route = Edge!Chat
              /\ ~(answer.asked /\ request.outcome = "panic")
           THEN {IF answer.status = 200 THEN "success" ELSE "failed"} ELSE {}
<1> DEFINE answer == Edge!Route(options, request)
<1>1. Edge!ErrorStatus(Edge!Chat) = 400
  BY DEF Edge!ErrorStatus, Edge!Chat
<1>2. request.route = Edge!Chat => answer.status \in {200, 400, 401, 404, 500}
  <2>1. request.route = Edge!Chat =>
          Edge!Handle(request, options.limit).status \in {200, 400, 500}
    BY <1>1 DEF Edge!Handle, Edge!Answer
  <2> QED
    BY <2>1 DEF Edge!Route, Edge!Answer
<1>3. request.route = Edge!Chat => (answer.status >= 400 <=> answer.status # 200)
  BY <1>2
<1> HIDE DEF answer
<1>4. Edge!Counted(request, answer) =
        IF request.method = "POST" /\ request.route = Edge!Chat
           /\ ~(answer.asked /\ request.outcome = "panic")
        THEN {IF answer.status = 200 THEN "success" ELSE "failed"} ELSE {}
  BY <1>3 DEF Edge!Counted
<1>5. CASE request.method = "OPTIONS"
  BY <1>5 DEF Edge!Serve
<1>6. CASE request.method # "OPTIONS"
  <2>1. LET full == Edge!Serve(options, request)
        IN /\ full.counted = Edge!Counted(request, answer)
           /\ full.asked = answer.asked /\ full.status = answer.status
    BY <1>6 DEF Edge!Serve, answer
  <2> QED
    BY <1>4, <2>1
<1> QED
  BY <1>5, <1>6

LEMMA ServeAllows ==
  ASSUME NEW options, NEW request
  PROVE  LET answer == Edge!Serve(options, request)
             listed == request.origin # "none"
                       /\ options.origins \cap {"*", request.origin} # {}
         IN /\ answer.allowed = listed
            /\ request.method = "OPTIONS" => answer.status = IF listed THEN 204 ELSE 403
BY DEF Edge!Serve, Edge!AllowOrigin

(* Whatever the service is configured with and whatever is requested. *)
THEOREM EdgeIsRight == Spec => []EdgeHolds
<1>1. ResultIsComputed => EdgeHolds
  <2> SUFFICES ASSUME ResultIsComputed PROVE ServiceIsGuarded /\ ChatIsCounted /\ BrowserMayRead
    BY DEF EdgeHolds
  <2>1. ServiceIsGuarded
    BY ServeAsks DEF ResultIsComputed, ServiceIsGuarded
  <2>2. ChatIsCounted
    BY ServeCounts DEF ResultIsComputed, ChatIsCounted
  <2>3. BrowserMayRead
    BY ServeAllows DEF ResultIsComputed, BrowserMayRead
  <2> QED
    BY <2>1, <2>2, <2>3
<1> QED
  BY <1>1, ResultInv, PTL
-----------------------------------------------------------------------------
(* The start of the process. *)

(* What a call of loadEnvFile is given.                                    *)
LEMMA EnvInput ==
  ASSUME InputStays, kind = "env"
  PROVE  /\ "" \notin DOMAIN input.process
         /\ input.process \in [DOMAIN input.process -> EnvValue]
         /\ Len(input.lines) \in Nat /\ DOMAIN input.lines = 1 .. Len(input.lines)
         /\ \A i \in 1 .. Len(input.lines) :
              /\ input.lines[i].key \in DOMAIN input.process \cup {""}
              /\ input.lines[i].value \in EnvValue
<1> DEFINE Line == [key : DOMAIN input.process \cup {""}, value : EnvValue]
<1>1. /\ "" \notin DOMAIN input.process
      /\ input.process \in [DOMAIN input.process -> EnvValue]
      /\ input.lines \in Seq(Line)
  BY InputsAssumption DEF InputStays
<1>2. \A line \in Line : line.key \in DOMAIN input.process \cup {""} /\ line.value \in EnvValue
  OBVIOUS
<1> HIDE DEF Line
<1>3. /\ Len(input.lines) \in Nat /\ DOMAIN input.lines = 1 .. Len(input.lines)
      /\ \A i \in 1 .. Len(input.lines) : input.lines[i] \in Line
  BY <1>1, LenProperties
<1> QED
  BY <1>1, <1>2, <1>3

(* A line keeps what is known of every variable.                           *)
LEMMA LoadLineKeeps ==
  ASSUME InputStays, EnvLoop, LoadLine
  PROVE  EnvLoop'
<1> DEFINE names == DOMAIN input.process
           line == input.lines[loop.line + 1]
           env == Start!LoadLine(loop.env, line)
<1>1. /\ kind = "env" /\ loop.line < Len(input.lines) /\ ~done
      /\ loop' = [line |-> loop.line + 1, env |-> env]
      /\ UNCHANGED <<kind, input, done, output>>
  BY DEF LoadLine, Running, Pass
<1>2. /\ loop.line \in 0 .. Len(input.lines) /\ loop.env \in [names -> EnvValue]
  BY <1>1 DEF EnvLoop
<1>3. Len(input.lines) \in Nat /\ loop.line + 1 \in 1 .. Len(input.lines)
  <2>1. Len(input.lines) \in Nat
    BY <1>1, EnvInput
  <2> QED
    BY <1>1, <1>2, <2>1
<1>4. line.key \in names \cup {""} /\ line.value \in EnvValue /\ "" \notin names
  <2>1. "" \notin names
    BY <1>1, EnvInput
  <2>2. \A i \in 1 .. Len(input.lines) :
          input.lines[i].key \in names \cup {""} /\ input.lines[i].value \in EnvValue
    BY <1>1, EnvInput
  <2> QED
    BY <1>3, <2>1, <2>2
<1>5. env \in [names -> EnvValue]
  BY <1>2, <1>4 DEF Start!LoadLine
<1>6. \A key \in names :
        env[key] = IF line.key = key /\ loop.env[key] = Start!Unset THEN line.value
                   ELSE loop.env[key]
  BY <1>2, <1>4 DEF Start!LoadLine
<1>7. ASSUME NEW key \in names
      PROVE  IF input.process[key] # Start!Unset THEN env[key] = input.process[key]
             ELSE SetByLine(key, env, loop.line + 1)
  <2>1. IF input.process[key] # Start!Unset THEN loop.env[key] = input.process[key]
        ELSE SetByLine(key, loop.env, loop.line)
    BY <1>1 DEF EnvLoop
  <2>2. CASE input.process[key] # Start!Unset
    BY <2>1, <2>2, <1>6
  <2>3. CASE input.process[key] = Start!Unset /\ loop.env[key] # Start!Unset
    <3>1. PICK i \in 1 .. loop.line :
            /\ input.lines[i].key = key /\ input.lines[i].value # Start!Unset
            /\ loop.env[key] = input.lines[i].value
            /\ \A j \in 1 .. i - 1 :
                 input.lines[j].key = key => input.lines[j].value = Start!Unset
      BY <2>1, <2>3 DEF SetByLine
    <3>2. i \in 1 .. loop.line + 1 /\ env[key] = input.lines[i].value
      BY <3>1, <2>3, <1>6, <1>2
    <3> QED
      BY <2>3, <3>1, <3>2 DEF SetByLine
  <2>4. CASE input.process[key] = Start!Unset /\ loop.env[key] = Start!Unset
    <3>1. \A i \in 1 .. loop.line :
            input.lines[i].key = key => input.lines[i].value = Start!Unset
      BY <2>1, <2>4 DEF SetByLine
    <3>2. CASE line.key = key /\ line.value # Start!Unset
      <4>1. env[key] = line.value /\ (loop.line + 1) - 1 = loop.line
            /\ loop.line + 1 \in 1 .. loop.line + 1
        BY <3>2, <2>4, <1>2, <1>6
      <4> QED
        BY <2>4, <3>1, <3>2, <4>1 DEF SetByLine
    <3>3. CASE ~(line.key = key /\ line.value # Start!Unset)
      <4>1. env[key] = Start!Unset
        BY <3>3, <2>4, <1>6
      <4>2. \A i \in 1 .. loop.line + 1 :
              input.lines[i].key = key => input.lines[i].value = Start!Unset
        BY <3>1, <3>3, <1>2
      <4> QED
        BY <2>4, <4>1, <4>2 DEF SetByLine
    <3> QED
      BY <3>2, <3>3
  <2> QED
    BY <2>2, <2>3, <2>4
<1> HIDE DEF env
<1>8. loop' \in [line : 0 .. Len(input.lines), env : [names -> EnvValue]]
  BY <1>1, <1>3, <1>5
<1>9. loop'.line = loop.line + 1 /\ loop'.env = env
  BY <1>1
<1> QED
  BY <1>1, <1>7, <1>8, <1>9 DEF EnvLoop, SetByLine

(* A call goes on with the steps of its own function.                      *)
LEMMA StepsOfKind ==
  ASSUME [Next]_vars
  PROVE  /\ kind' = kind /\ input' = input
         /\ kind = "env" => LoadLine \/ Loaded \/ UNCHANGED vars
         /\ kind = "paragraph" => TakeWhole \/ CutWindow \/ CutUp \/ UNCHANGED vars
         /\ kind = "document" =>
              ReadLine \/ CloseLast \/ SplitPart \/ SplitUp \/ UNCHANGED vars
         /\ kind = "map" => MaskAudit \/ Sanitize \/ MaskAnswer \/ Masked \/ UNCHANGED vars
         /\ kind = "expression" =>
              ParseFactor \/ EndFactor \/ NextOperand \/ Calculated \/ UNCHANGED vars
<1> USE DEF Running, Return, Pass
<1>1. CASE JudgeSQL BY <1>1 DEF JudgeSQL
<1>2. CASE JudgeURL BY <1>2 DEF JudgeURL
<1>3. CASE Validate BY <1>3 DEF Validate
<1>4. CASE Plan BY <1>4 DEF Plan
<1>5. CASE BootUp BY <1>5 DEF BootUp
<1>6. CASE Respond BY <1>6 DEF Respond
<1>7. CASE LoadLine BY <1>7 DEF LoadLine
<1>8. CASE Loaded BY <1>8 DEF Loaded
<1>9. CASE TakeWhole BY <1>9 DEF TakeWhole
<1>10. CASE CutWindow BY <1>10 DEF CutWindow
<1>11. CASE CutUp BY <1>11 DEF CutUp
<1>12. CASE ReadLine BY <1>12 DEF ReadLine
<1>13. CASE CloseLast BY <1>13 DEF CloseLast
<1>14. CASE SplitPart BY <1>14 DEF SplitPart
<1>15. CASE SplitUp BY <1>15 DEF SplitUp
<1>16. CASE MaskAudit BY <1>16 DEF MaskAudit
<1>17. CASE Sanitize BY <1>17 DEF Sanitize
<1>18. CASE MaskAnswer BY <1>18 DEF MaskAnswer
<1>19. CASE Masked BY <1>19 DEF Masked
<1>20. CASE Operate BY <1>20 DEF Operate
<1>21. CASE ParseFactor BY <1>21 DEF ParseFactor
<1>22. CASE EndFactor BY <1>22 DEF EndFactor, Returned
<1>23. CASE NextOperand BY <1>23 DEF NextOperand, Returned
<1>24. CASE Calculated BY <1>24 DEF Calculated
<1>25. CASE UNCHANGED vars BY <1>25 DEF vars
<1> QED
  BY <1>1, <1>2, <1>3, <1>4, <1>5, <1>6, <1>7, <1>8, <1>9, <1>10, <1>11, <1>12, <1>13,
     <1>14, <1>15, <1>16, <1>17, <1>18, <1>19, <1>20, <1>21, <1>22, <1>23, <1>24, <1>25 DEF Next

LEMMA EnvInv == Spec => [](InputStays /\ EnvLoop)
<1>1. Init => EnvLoop
  <2> SUFFICES ASSUME Init, kind = "env" PROVE EnvLoop
    BY DEF EnvLoop
  <2>1. loop = [line |-> 0, env |-> input.process] /\ ~done
    BY DEF Init, BeforeLoop
  <2>2. InputStays
    BY DEF Init, InputStays
  <2>3. input.process \in [DOMAIN input.process -> EnvValue] /\ Len(input.lines) \in Nat
    BY <2>2, EnvInput
  <2>4. loop \in [line : 0 .. Len(input.lines), env : [DOMAIN input.process -> EnvValue]]
    BY <2>1, <2>3
  <2>5. \A key \in DOMAIN input.process :
          IF input.process[key] # Start!Unset THEN loop.env[key] = input.process[key]
          ELSE SetByLine(key, loop.env, loop.line)
    BY <2>1 DEF SetByLine
  <2> QED
    BY <2>1, <2>4, <2>5 DEF EnvLoop
<1>2. InputStays /\ EnvLoop /\ [Next]_vars => EnvLoop'
  <2> SUFFICES ASSUME InputStays, EnvLoop, [Next]_vars, kind = "env" PROVE EnvLoop'
    BY StepsOfKind DEF EnvLoop
  <2>1. CASE LoadLine
    BY <2>1, LoadLineKeeps
  <2>2. CASE Loaded
    <3>1. UNCHANGED <<kind, input, loop>> /\ output' = loop.env /\ loop.line = Len(input.lines)
      BY <2>2 DEF Loaded, Return
    <3> QED
      BY <3>1 DEF EnvLoop, SetByLine
  <2>3. CASE UNCHANGED vars
    BY <2>3 DEF vars, EnvLoop, SetByLine
  <2> QED
    BY <2>1, <2>2, <2>3, StepsOfKind
<1> QED
  BY <1>1, <1>2, ResultInv, PTL DEF Spec

LEMMA EnvWins ==
  ASSUME InputStays, EnvLoop
  PROVE  ProcessEnvWins
<1> SUFFICES ASSUME Done("env") PROVE ProcessEnvWins
  BY DEF ProcessEnvWins
<1> DEFINE names == DOMAIN input.process
           count == Len(input.lines)
<1>1. /\ kind = "env" /\ output \in [names -> EnvValue]
      /\ \A key \in names :
           IF input.process[key] # Start!Unset THEN output[key] = input.process[key]
           ELSE SetByLine(key, output, count)
  <2>1. kind = "env" /\ output = loop.env /\ loop.line = count
    BY DEF Done, EnvLoop
  <2> QED
    BY <2>1 DEF EnvLoop
<1>2. count \in Nat /\ DOMAIN input.lines = 1 .. count
  BY <1>1, EnvInput
<1>3. ASSUME NEW key \in names
      PROVE  LET given == {i \in DOMAIN input.lines :
                             input.lines[i].key = key /\ input.lines[i].value # Start!Unset}
             IN output[key] =
                  IF input.process[key] # Start!Unset THEN input.process[key]
                  ELSE IF given = {} THEN Start!Unset
                  ELSE input.lines[CHOOSE i \in given : \A j \in given : i <= j].value
  <2> DEFINE given == {i \in DOMAIN input.lines :
                         input.lines[i].key = key /\ input.lines[i].value # Start!Unset}
  <2>1. CASE input.process[key] # Start!Unset
    BY <2>1, <1>1
  <2>2. CASE input.process[key] = Start!Unset
    <3>1. SetByLine(key, output, count)
      BY <2>2, <1>1
    <3>2. CASE \A i \in 1 .. count : input.lines[i].key = key => input.lines[i].value = Start!Unset
      <4>1. given = {} /\ output[key] = Start!Unset
        BY <3>1, <3>2, <1>2 DEF SetByLine
      <4> QED
        BY <4>1, <2>2
    <3>3. CASE ~\A i \in 1 .. count : input.lines[i].key = key => input.lines[i].value = Start!Unset
      <4>1. PICK i \in 1 .. count :
              /\ input.lines[i].key = key /\ input.lines[i].value # Start!Unset
              /\ output[key] = input.lines[i].value
              /\ \A j \in 1 .. i - 1 :
                   input.lines[j].key = key => input.lines[j].value = Start!Unset
        BY <3>1, <3>3 DEF SetByLine
      <4>2. i \in given /\ given \subseteq 1 .. count
        BY <4>1, <1>2
      <4>3. \A j \in given : i <= j
        BY <4>1, <4>2, <1>2
      <4>4. \A j \in given : (\A k \in given : j <= k) => j = i
        BY <4>2, <4>3, <1>2
      <4> HIDE DEF given
      <4>5. (CHOOSE j \in given : \A k \in given : j <= k) = i
        BY <4>2, <4>3, <4>4
      <4> QED
        BY <4>1, <4>2, <4>5, <2>2 DEF given
    <3> QED
      BY <3>2, <3>3
  <2> QED
    BY <2>1, <2>2
<1>4. ASSUME NEW i \in DOMAIN input.lines
      PROVE  Start!LoadLine(output, input.lines[i]) = output
  <2> DEFINE line == input.lines[i]
  <2>1. line.key \in names \cup {""} /\ line.value \in EnvValue
    BY <1>1, <1>2, EnvInput
  <2>2. CASE line.key = "" \/ output[line.key] # Start!Unset
    BY <2>2 DEF Start!LoadLine
  <2>3. CASE line.key # "" /\ output[line.key] = Start!Unset
    <3>1. line.key \in names
      BY <2>1, <2>3
    <3>2. SetByLine(line.key, output, count)
      BY <1>1, <2>3, <3>1
    <3>3. line.value = Start!Unset
      BY <3>2, <2>3, <1>2 DEF SetByLine
    <3>4. [output EXCEPT ![line.key] = line.value] = output
      BY <3>3, <2>3, <1>1, <3>1
    <3> QED
      BY <2>3, <3>4 DEF Start!LoadLine
  <2> QED
    BY <2>2, <2>3
<1> QED
  BY <1>1, <1>3, <1>4 DEF ProcessEnvWins

(* What main makes of numbers that are none or out of range.               *)
LEMMA BootIsInRange ==
  ASSUME NEW env \in [Start!Variables -> EnvValue], NEW up
  PROVE  LET config == Start!Boot(env, up)
         IN /\ config.rateLimit > 0 /\ config.timeout > 0 /\ config.rows > 0
            /\ config.queue > 0 => config.workers > 0
            /\ config.mock => config.dimension > 0
<1>1. \A value \in EnvValue, fallback \in Int : Start!EnvInt(value, fallback) \in Int
  BY DEF EnvValue, Start!EnvInt
<1>2. /\ \A n \in Int : Start!RateLimit(n) > 0 /\ Start!DefaultTimeout(n) > 0
                        /\ Start!MaxSQLRows(n) > 0
      /\ \A n, m \in Int : Start!QueueOf(n, m) > 0 => n > 0
  BY DEF Start!RateLimit, Start!DefaultTimeout, Start!MaxSQLRows, Start!QueueOf
<1> DEFINE Read(key, fallback) == Start!EnvInt(env[key], fallback)
           mock == Start!EnvBool(env["ENABLE_MOCK_EMBEDDING"], TRUE)
<1>4. \A key \in Start!Variables, fallback \in Int : Read(key, fallback) \in Int
  BY <1>1
<1>3. /\ Read("ASYNC_WORKERS", 2) \in Int /\ Read("RATE_LIMIT_PER_MINUTE", 60) \in Int
      /\ Read("ASYNC_QUEUE_SIZE", 32) \in Int /\ Read("TOOL_DEFAULT_TIMEOUT_MS", 5000) \in Int
      /\ Read("EMBEDDING_DIMENSION", 64) \in Int /\ Read("MAX_SQL_ROWS", 100) \in Int
  <2>1. {"ASYNC_WORKERS", "RATE_LIMIT_PER_MINUTE", "ASYNC_QUEUE_SIZE", "TOOL_DEFAULT_TIMEOUT_MS",
         "EMBEDDING_DIMENSION", "MAX_SQL_ROWS"} \subseteq Start!Variables
    BY DEF Start!Variables
  <2> HIDE DEF Read
  <2> QED
    BY <1>4, <2>1
<1> HIDE DEF Read, mock
<1>5. Start!RateLimit(Read("RATE_LIMIT_PER_MINUTE", 60)) > 0
      /\ Start!DefaultTimeout(Read("TOOL_DEFAULT_TIMEOUT_MS", 5000)) > 0
      /\ Start!MaxSQLRows(Read("MAX_SQL_ROWS", 100)) > 0
  BY <1>2, <1>3
<1>6. mock => Start!Dimension(mock, Read("EMBEDDING_DIMENSION", 64)) > 0
  BY <1>3 DEF Start!Dimension
<1>7. Start!QueueOf(Read("ASYNC_WORKERS", 2), Read("ASYNC_QUEUE_SIZE", 32)) > 0 =>
        (IF Read("ASYNC_WORKERS", 2) > 0 THEN Read("ASYNC_WORKERS", 2) ELSE 0) > 0
  BY <1>2, <1>3
<1>8. LET config == Start!Boot(env, up)
      IN /\ config.rateLimit = Start!RateLimit(Read("RATE_LIMIT_PER_MINUTE", 60))
         /\ config.timeout = Start!DefaultTimeout(Read("TOOL_DEFAULT_TIMEOUT_MS", 5000))
         /\ config.rows = Start!MaxSQLRows(Read("MAX_SQL_ROWS", 100))
         /\ config.queue =
              Start!QueueOf(Read("ASYNC_WORKERS", 2), Read("ASYNC_QUEUE_SIZE", 32))
         /\ config.workers = IF Read("ASYNC_WORKERS", 2) > 0 THEN Read("ASYNC_WORKERS", 2) ELSE 0
         /\ config.mock = mock
         /\ config.dimension = Start!Dimension(mock, Read("EMBEDDING_DIMENSION", 64))
  BY DEF Start!Boot, Read, mock
<1> QED
  BY <1>5, <1>6, <1>7, <1>8

(* A misspelt number reads as one that is not set.                         *)
LEMMA MisspeltReadsUnset ==
  ASSUME NEW env \in [Start!Variables -> EnvValue], NEW up,
         NEW key \in Start!Variables
                       \ {"MYSQL_DSN", "ENABLE_MOCK_EMBEDDING", "RATE_LIMIT_FAIL_CLOSED"},
         env[key][1] = "word"
  PROVE  Start!Boot(env, up) = Start!Boot([env EXCEPT ![key] = Start!Unset], up)
<1> DEFINE other == [env EXCEPT ![key] = Start!Unset]
<1>1. \A name \in Start!Variables : name # key => other[name] = env[name]
  OBVIOUS
<1>2. \A fallback : Start!EnvInt(other[key], fallback) = Start!EnvInt(env[key], fallback)
  BY DEF Start!EnvInt, Start!Unset
<1>3. \A name \in Start!Variables : \A fallback :
        Start!EnvInt(other[name], fallback) = Start!EnvInt(env[name], fallback)
  BY <1>1, <1>2
<1>4. /\ other["MYSQL_DSN"] = env["MYSQL_DSN"]
      /\ other["ENABLE_MOCK_EMBEDDING"] = env["ENABLE_MOCK_EMBEDDING"]
      /\ other["RATE_LIMIT_FAIL_CLOSED"] = env["RATE_LIMIT_FAIL_CLOSED"]
  BY <1>1 DEF Start!Variables
<1> HIDE DEF other
<1>5. /\ Start!EnvInt(other["ASYNC_WORKERS"], 2) = Start!EnvInt(env["ASYNC_WORKERS"], 2)
      /\ Start!EnvInt(other["RATE_LIMIT_PER_MINUTE"], 60)
           = Start!EnvInt(env["RATE_LIMIT_PER_MINUTE"], 60)
      /\ Start!EnvInt(other["ASYNC_QUEUE_SIZE"], 32) = Start!EnvInt(env["ASYNC_QUEUE_SIZE"], 32)
      /\ Start!EnvInt(other["TOOL_DEFAULT_TIMEOUT_MS"], 5000)
           = Start!EnvInt(env["TOOL_DEFAULT_TIMEOUT_MS"], 5000)
      /\ Start!EnvInt(other["EMBEDDING_DIMENSION"], 64)
           = Start!EnvInt(env["EMBEDDING_DIMENSION"], 64)
      /\ Start!EnvInt(other["MAX_SQL_ROWS"], 100) = Start!EnvInt(env["MAX_SQL_ROWS"], 100)
  BY <1>3 DEF Start!Variables
<1> DEFINE
      Reads(e) ==
        <<e["MYSQL_DSN"], e["ENABLE_MOCK_EMBEDDING"], e["RATE_LIMIT_FAIL_CLOSED"],
          Start!EnvInt(e["ASYNC_WORKERS"], 2), Start!EnvInt(e["RATE_LIMIT_PER_MINUTE"], 60),
          Start!EnvInt(e["ASYNC_QUEUE_SIZE"], 32),
          Start!EnvInt(e["TOOL_DEFAULT_TIMEOUT_MS"], 5000),
          Start!EnvInt(e["EMBEDDING_DIMENSION"], 64), Start!EnvInt(e["MAX_SQL_ROWS"], 100)>>
      Config(r) ==
        [store |-> Start!StoreOf(r[1], "mysql" \in up),
         limiter |-> "redis" \in up,
         failClosed |-> Start!EnvBool(r[3], FALSE),
         rateLimit |-> Start!RateLimit(r[5]),
         workers |-> IF r[4] > 0 THEN r[4] ELSE 0,
         queue |-> Start!QueueOf(r[4], r[6]),
         timeout |-> Start!DefaultTimeout(r[7]),
         mock |-> Start!EnvBool(r[2], TRUE),
         dimension |-> Start!Dimension(Start!EnvBool(r[2], TRUE), r[8]),
         rows |-> Start!MaxSQLRows(r[9])]
<1>6. Start!Boot(env, up) = Config(Reads(env)) /\ Start!Boot(other, up) = Config(Reads(other))
  BY DEF Start!Boot
<1>7. Reads(env) = Reads(other)
  BY <1>4, <1>5
<1> HIDE DEF Reads, Config
<1>8. Start!Boot(env, up) = Start!Boot(other, up)
  BY <1>6, <1>7, Zenon
<1> QED
  BY <1>8, Zenon DEF other

(* From any process, file, environment and choice of servers.              *)
THEOREM ConfigurationIsRight == Spec => []ConfigurationHolds
<1>1. InputStays /\ ResultIsComputed /\ EnvLoop => ConfigurationHolds
  <2> SUFFICES ASSUME InputStays, ResultIsComputed, EnvLoop
               PROVE  ProcessEnvWins /\ BootsInRange /\ MisspeltIsUnset
    BY DEF ConfigurationHolds
  <2>1. ProcessEnvWins
    BY EnvWins
  <2>2. Done("boot") => input.env \in [Start!Variables -> EnvValue]
                        /\ output = Start!Boot(input.env, input.up)
    BY InputsAssumption DEF InputStays, ResultIsComputed, Done
  <2>3. BootsInRange
    BY <2>2, BootIsInRange DEF BootsInRange
  <2>4. MisspeltIsUnset
    <3> SUFFICES ASSUME Done("boot"),
                        NEW key \in DOMAIN input.env
                          \ {"MYSQL_DSN", "ENABLE_MOCK_EMBEDDING", "RATE_LIMIT_FAIL_CLOSED"},
                        input.env[key][1] = "word"
                 PROVE  output = Start!Boot([input.env EXCEPT ![key] = Start!Unset], input.up)
      BY DEF MisspeltIsUnset
    <3>1. DOMAIN input.env = Start!Variables
      BY <2>2
    <3> QED
      BY <2>2, <3>1, MisspeltReadsUnset
  <2> QED
    BY <2>1, <2>3, <2>4
<1> QED
  BY <1>1, ResultInv, EnvInv, PTL
-----------------------------------------------------------------------------
(* The tools. *)

LEMMA Schemas ==
  /\ Tools!Schema("calculator") = Tools!CalculatorSchema
  /\ Tools!Schema("query_mysql_readonly") = Tools!MySQLReadonlySchema
  /\ Tools!Schema("http_get") = Tools!HTTPGetSchema
  /\ Tools!Schema("search_knowledge_base") = Tools!KnowledgeBaseSchema
  /\ Tools!Schema("query_logs") = Tools!QueryLogsSchema
BY DEF Tools!Schema

LEMMA FitsText ==
  ASSUME NEW value, NEW enum
  PROVE  Tools!Fits(value, Tools!Text(enum)) <=>
           value[1] = "string" /\ value[2] # "" /\ (enum = {} \/ value[2] \in enum)
BY DEF Tools!Fits, Tools!Text

LEMMA FitsInteger ==
  ASSUME NEW value, NEW min, NEW max
  PROVE  Tools!Fits(value, Tools!Integer(min, max)) <=>
           value[1] = "number" /\ min <= value[2] /\ \A m \in max : value[2] <= m
BY DEF Tools!Fits, Tools!Integer

(* What it is to be valid, tool by tool; nothing is known of a number that *)
(* a calculator is given.                                                  *)
LEMMA ValidQuery ==
  ASSUME NEW given
  PROVE  Tools!ValidInput("query_mysql_readonly", given) <=>
           "sql" \in DOMAIN given /\ Tools!Fits(given["sql"], Tools!Text({}))
<1> DEFINE properties == [sql |-> Tools!Text({})]
<1>1. DOMAIN properties = {"sql"} /\ properties["sql"] = Tools!Text({})
  OBVIOUS
<1>2. Tools!Schema("query_mysql_readonly") = [required |-> {"sql"}, properties |-> properties]
  BY Schemas DEF Tools!MySQLReadonlySchema
<1> HIDE DEF properties
<1>3. LET schema == Tools!Schema("query_mysql_readonly")
      IN schema.required = {"sql"} /\ schema.properties = properties
  BY <1>2
<1> QED
  BY <1>1, <1>3 DEF Tools!ValidInput

LEMMA ValidGet ==
  ASSUME NEW given
  PROVE  Tools!ValidInput("http_get", given) <=>
           "url" \in DOMAIN given /\ Tools!Fits(given["url"], Tools!Text({}))
<1> DEFINE properties == [url |-> Tools!Text({})]
<1>1. DOMAIN properties = {"url"} /\ properties["url"] = Tools!Text({})
  OBVIOUS
<1>2. Tools!Schema("http_get") = [required |-> {"url"}, properties |-> properties]
  BY Schemas DEF Tools!HTTPGetSchema
<1> HIDE DEF properties
<1>3. LET schema == Tools!Schema("http_get")
      IN schema.required = {"url"} /\ schema.properties = properties
  BY <1>2
<1> QED
  BY <1>1, <1>3 DEF Tools!ValidInput

LEMMA ValidSearch ==
  ASSUME NEW given
  PROVE  Tools!ValidInput("search_knowledge_base", given) <=>
           /\ "query" \in DOMAIN given /\ Tools!Fits(given["query"], Tools!Text({}))
           /\ "top_k" \in DOMAIN given => Tools!Fits(given["top_k"], Tools!Integer(1, {20}))
<1> DEFINE properties == [query |-> Tools!Text({}), top_k |-> Tools!Integer(1, {20})]
<1>1. /\ DOMAIN properties = {"query", "top_k"} /\ properties["query"] = Tools!Text({})
      /\ properties["top_k"] = Tools!Integer(1, {20})
  OBVIOUS
<1>2. Tools!Schema("search_knowledge_base") = [required |-> {"query"}, properties |-> properties]
  BY Schemas DEF Tools!KnowledgeBaseSchema
<1> HIDE DEF properties
<1>3. LET schema == Tools!Schema("search_knowledge_base")
      IN schema.required = {"query"} /\ schema.properties = properties
  BY <1>2
<1> QED
  BY <1>1, <1>3 DEF Tools!ValidInput

LEMMA ValidLogs ==
  ASSUME NEW given
  PROVE  Tools!ValidInput("query_logs", given) <=>
           /\ "kind" \in DOMAIN given =>
                Tools!Fits(given["kind"], Tools!Text({"tool_calls", "policy_rejects"}))
           /\ "limit" \in DOMAIN given => Tools!Fits(given["limit"], Tools!Integer(1, {100}))
           /\ "offset" \in DOMAIN given => Tools!Fits(given["offset"], Tools!Integer(0, {}))
<1> DEFINE properties ==
      [kind |-> Tools!Text({"tool_calls", "policy_rejects"}), limit |-> Tools!Integer(1, {100}),
       offset |-> Tools!Integer(0, {})]
<1>1. /\ DOMAIN properties = {"kind", "limit", "offset"}
      /\ properties["kind"] = Tools!Text({"tool_calls", "policy_rejects"})
      /\ properties["limit"] = Tools!Integer(1, {100})
      /\ properties["offset"] = Tools!Integer(0, {})
  OBVIOUS
<1>2. Tools!Schema("query_logs") = [required |-> {}, properties |-> properties]
  BY Schemas DEF Tools!QueryLogsSchema
<1> HIDE DEF properties
<1>3. LET schema == Tools!Schema("query_logs")
      IN schema.required = {} /\ schema.properties = properties
  BY <1>2
<1> QED
  BY <1>1, <1>3 DEF Tools!ValidInput

LEMMA ValidExpression ==
  ASSUME NEW given, DOMAIN given = {"expression"},
         Tools!Fits(given["expression"], Tools!Text({}))
  PROVE  Tools!ValidInput("calculator", given)
<1>1. LET schema == Tools!Schema("calculator")
      IN schema.required = {} /\ schema.properties["expression"] = Tools!Text({})
  BY Schemas DEF Tools!CalculatorSchema
<1> QED
  BY <1>1 DEF Tools!ValidInput

(* Whatever words are in a message.                                        *)
LEMMA MockIsValid ==
  ASSUME NEW words
  PROVE  LET call == Tools!MockToolCall(words)
         IN /\ call.tool \in Tools!Builtins \cap Tools!AllowedTools
            /\ Tools!ValidInput(call.tool, call.input)
<1>1. /\ Tools!Fits(Tools!String("message"), Tools!Text({}))
      /\ Tools!Fits(Tools!String("1+1"), Tools!Text({}))
      /\ Tools!Fits(Tools!String("tool_calls"), Tools!Text({"tool_calls", "policy_rejects"}))
  BY FitsText DEF Tools!String
<1>2. /\ Tools!Fits(Tools!Number(20), Tools!Integer(1, {100}))
      /\ Tools!Fits(Tools!Number(5), Tools!Integer(1, {20}))
  BY FitsInteger DEF Tools!Number
<1>3. Tools!ValidInput("http_get", [url |-> Tools!String("message")])
  BY <1>1, ValidGet
<1>4. Tools!ValidInput("query_logs",
        [kind |-> Tools!String("tool_calls"), limit |-> Tools!Number(20)])
  BY <1>1, <1>2, ValidLogs
<1>5. Tools!ValidInput("query_mysql_readonly", [sql |-> Tools!String("message")])
  BY <1>1, ValidQuery
<1>6. Tools!ValidInput("search_knowledge_base",
        [query |-> Tools!String("message"), top_k |-> Tools!Number(5)])
  BY <1>1, <1>2, ValidSearch
<1>7. Tools!ValidInput("calculator", [expression |-> Tools!String("1+1")])
  BY <1>1, ValidExpression
<1> QED
  BY <1>3, <1>4, <1>5, <1>6, <1>7
  DEF Tools!MockToolCall, Tools!Builtins, Tools!AllowedTools

LEMMA IntIsGiven ==
  ASSUME NEW given, NEW name, NEW fallback, Tools!Given(given, name),
         given[name][1] = "number", given[name][2] \in 0 .. MaxInt
  PROVE  Tools!IntInput(given, name, fallback) = {given[name][2]}
<1>1. ~(given[name][2] > MaxInt) /\ ~(given[name][2] < -MaxInt - 1)
  BY MaxIntAssumption
<1> QED
  BY <1>1 DEF Tools!IntInput

LEMMA IntOfValue ==
  ASSUME NEW value \in Value, value[1] = "number"
  PROVE  value[2] \in Int
BY DEF Value

(* An input of query_logs that fits its schema.                            *)
LEMMA LogsAreServed ==
  ASSUME NEW given, \A name \in DOMAIN given : given[name] \in Value,
         Tools!ValidInput("query_logs", given)
  PROVE  LET logs == Tools!QueryLogs(given)
             Served(name, values) ==
               Tools!Given(given, name) /\ given[name][2] <= MaxInt => values = {given[name][2]}
         IN /\ logs.list # {}
            /\ Served("limit", logs.limit) /\ logs.limit \subseteq 1 .. 100
            /\ Served("offset", logs.offset)
<1> DEFINE kinds == {"tool_calls", "policy_rejects"}
<1>0. /\ "kind" \in DOMAIN given => Tools!Fits(given["kind"], Tools!Text(kinds))
      /\ "limit" \in DOMAIN given => Tools!Fits(given["limit"], Tools!Integer(1, {100}))
      /\ "offset" \in DOMAIN given => Tools!Fits(given["offset"], Tools!Integer(0, {}))
  BY ValidLogs, Zenon
<1>1. "kind" \in DOMAIN given => given["kind"][1] = "string" /\ given["kind"][2] \in kinds
  <2>1. kinds # {}
    OBVIOUS
  <2> HIDE DEF kinds
  <2> QED
    BY ONLY <1>0, <2>1, FitsText
<1>2. "limit" \in DOMAIN given =>
        given["limit"][1] = "number" /\ 1 <= given["limit"][2] /\ given["limit"][2] <= 100
  BY ONLY <1>0, FitsInteger
<1>3. "offset" \in DOMAIN given =>
        given["offset"][1] = "number" /\ 0 <= given["offset"][2]
  BY ONLY <1>0, FitsInteger
<1>4. Tools!ListOf(Tools!StringInput(given, "kind")) # {}
  <2>1. Tools!StringInput(given, "kind") \in {"", "tool_calls", "policy_rejects"}
    BY <1>1 DEF Tools!StringInput, Tools!Given
  <2> QED
    BY <2>1 DEF Tools!ListOf
<1>7. Tools!Given(given, "offset") /\ given["offset"][2] <= MaxInt =>
        Tools!IntInput(given, "offset", 0) = {given["offset"][2]}
  <2> SUFFICES ASSUME Tools!Given(given, "offset"), given["offset"][2] <= MaxInt
               PROVE  Tools!IntInput(given, "offset", 0) = {given["offset"][2]}
    OBVIOUS
  <2>1. given["offset"][1] = "number" /\ given["offset"][2] \in 0 .. MaxInt
    BY <1>3, IntOfValue, MaxIntAssumption DEF Tools!Given
  <2> QED
    BY <2>1, IntIsGiven
<1>8. /\ Tools!Given(given, "limit") /\ given["limit"][2] <= MaxInt =>
           Tools!IntInput(given, "limit", 20) = {given["limit"][2]}
      /\ Tools!IntInput(given, "limit", 20) \subseteq 1 .. 100
  <2>1. CASE "limit" \in DOMAIN given
    <3>1. given["limit"][2] \in 1 .. 100 /\ given["limit"][2] \in 0 .. MaxInt
      BY <1>2, <2>1, IntOfValue, MaxIntAssumption
    <3>2. Tools!IntInput(given, "limit", 20) = {given["limit"][2]}
      BY <3>1, <1>2, <2>1, IntIsGiven DEF Tools!Given
    <3> QED
      BY <3>1, <3>2
  <2>2. CASE "limit" \notin DOMAIN given
    <3>1. Tools!IntInput(given, "limit", 20) = {20}
      BY <2>2 DEF Tools!IntInput, Tools!Given
    <3> QED
      BY <2>2, <3>1 DEF Tools!Given
  <2> QED
    BY <2>1, <2>2
<1> QED
  BY <1>4, <1>7, <1>8 DEF Tools!QueryLogs

(* An input of search_knowledge_base that fits its schema.                 *)
LEMMA SearchIsServed ==
  ASSUME NEW given, \A name \in DOMAIN given : given[name] \in Value,
         Tools!ValidInput("search_knowledge_base", given),
         Tools!Given(given, "top_k"), given["top_k"][2] <= MaxInt
  PROVE  Tools!SearchTopK(given) = {given["top_k"][2]}
<1> DEFINE k == given["top_k"][2]
<1>1. given["top_k"][1] = "number" /\ 1 <= k
  BY ValidSearch, FitsInteger DEF Tools!Given
<1>2. k \in 0 .. MaxInt
  BY <1>1, IntOfValue, MaxIntAssumption DEF Tools!Given
<1>3. Tools!IntInput(given, "top_k", 5) = {k}
  BY <1>1, <1>2, IntIsGiven
<1>4. ~(k <= 0)
  BY <1>1, <1>2
<1> HIDE DEF k
<1>5. Tools!SearchTopK(given) = {k}
  BY <1>3, <1>4 DEF Tools!SearchTopK
<1> QED
  BY <1>5 DEF k

(* Whatever a tool is given, and whatever the mock model reads.            *)
THEOREM SchemaIsRight == Spec => []SchemaIsHonoured
<1>1. InputStays /\ ResultIsComputed => SchemaIsHonoured
  <2> SUFFICES ASSUME InputStays, ResultIsComputed PROVE ValidIsServed /\ MockCallIsValid
    BY DEF SchemaIsHonoured
  <2>1. ValidIsServed
    <3> SUFFICES ASSUME Done("call"), output = TRUE PROVE ValidIsServed
      BY DEF ValidIsServed, ResultIsComputed
    <3>1. Tools!ValidInput(input.tool, input.input)
      BY DEF ResultIsComputed
    <3>2. \A name \in DOMAIN input.input : input.input[name] \in Value
      BY InputsAssumption DEF InputStays, Done
    <3>3. input.tool = "query_logs" =>
            LET logs == Tools!QueryLogs(input.input)
                Served(name, values) ==
                  Tools!Given(input.input, name) /\ input.input[name][2] <= MaxInt =>
                    values = {input.input[name][2]}
            IN /\ logs.list # {}
               /\ Served("limit", logs.limit) /\ logs.limit \subseteq 1 .. 100
               /\ Served("offset", logs.offset)
      BY <3>1, <3>2, LogsAreServed
    <3>4. input.tool = "search_knowledge_base" =>
            (Tools!Given(input.input, "top_k") /\ input.input["top_k"][2] <= MaxInt =>
               Tools!SearchTopK(input.input) = {input.input["top_k"][2]})
      BY <3>1, <3>2, SearchIsServed
    <3> QED
      BY <3>3, <3>4 DEF ValidIsServed
  <2>2. MockCallIsValid
    BY MockIsValid DEF ResultIsComputed, MockCallIsValid
  <2> QED
    BY <2>1, <2>2
<1> QED
  BY <1>1, ResultInv, PTL
-----------------------------------------------------------------------------
(* Least and greatest members. *)

LEMMA LeastNat ==
  ASSUME NEW S \in SUBSET Nat, S # {}
  PROVE  \E x \in S : \A y \in S : x <= y
<1> DEFINE Less == {ss \in Nat \X Nat : ss[1] < ss[2]}
<1>1. IsWellFoundedOn(Less, Nat)
  BY NatLessThanWellFounded DEF OpToRel
<1> HIDE DEF Less
<1>2. PICK x \in S : \A y \in S : ~(<<y, x>> \in Less)
  BY <1>1, WFMin
<1>3. \A y \in S : y \in Nat
  OBVIOUS
<1>4. \A y \in S : ~(y < x)
  BY <1>2, <1>3 DEF Less
<1> QED
  BY <1>3, <1>4

LEMMA GreatestNat ==
  ASSUME NEW b \in Nat, NEW S \in SUBSET (0 .. b), S # {}
  PROVE  \E x \in S : \A y \in S : y <= x
<1> DEFINE T == {b - y : y \in S}
<1>1. T \in SUBSET Nat /\ T # {}
  <2>1. \A y \in S : b - y \in Nat
    BY SMT
  <2> QED
    BY <2>1
<1> HIDE DEF T
<1>2. PICK t \in T : \A u \in T : t <= u
  BY <1>1, LeastNat
<1>3. PICK x \in S : t = b - x
  BY <1>2 DEF T
<1>4. \A y \in S : b - y \in T
  BY DEF T
<1>5. \A y \in S : y <= x
  BY <1>2, <1>3, <1>4
<1> QED
  BY <1>5

LEMMA MinMax ==
  ASSUME NEW b \in Nat, NEW S \in SUBSET (1 .. b), S # {}
  PROVE  /\ Cut!Min(S) \in S /\ \A y \in S : Cut!Min(S) <= y
         /\ Cut!Max(S) \in S /\ \A y \in S : y <= Cut!Max(S)
         /\ Mark!Min(S) = Cut!Min(S) /\ Mark!Max(S) = Cut!Max(S)
<1>1. S \in SUBSET Nat /\ S \in SUBSET (0 .. b)
  OBVIOUS
<1>2. \E x \in S : \A y \in S : x <= y
  BY <1>1, LeastNat
<1>3. \E x \in S : \A y \in S : x >= y
  <2>1. PICK x \in S : \A y \in S : y <= x
    BY <1>1, GreatestNat
  <2>2. \A y \in S : x >= y
    BY <2>1
  <2> QED
    BY <2>2
<1>4. Cut!Min(S) \in S /\ \A y \in S : Cut!Min(S) <= y
  BY <1>2 DEF Cut!Min
<1>5. Cut!Max(S) \in S /\ \A y \in S : Cut!Max(S) >= y
  BY <1>3 DEF Cut!Max
<1>6. Mark!Min(S) = Cut!Min(S) /\ Mark!Max(S) = Cut!Max(S)
  BY DEF Cut!Min, Cut!Max, Mark!Min, Mark!Max
<1> QED
  BY <1>1, <1>4, <1>5, <1>6
-----------------------------------------------------------------------------
(* The windows of a paragraph. *)

LEMMA KeptIn ==
  ASSUME NEW text \in Seq(Cut!Rune), NEW first \in 1 .. Len(text) + 1, NEW last \in 0 .. Len(text)
  PROVE  Cut!Kept(text, first, last) \in SUBSET (1 .. Len(text))
<1>1. Len(text) \in Nat
  BY LenProperties
<1> QED
  BY <1>1 DEF Cut!Kept

LEMMA TrimSpaceCuts ==
  ASSUME NEW text \in Seq(Cut!Rune)
  PROVE  LET trimmed == Cut!TrimSpace(text)
         IN /\ trimmed \in Seq(Cut!Rune) /\ Len(trimmed) \in 0 .. Len(text)
            /\ Len(trimmed) > 0 => trimmed[1] # "space"
            /\ Cut!Kept(text, 1, Len(text)) # {} => Len(trimmed) > 0
<1> DEFINE kept == Cut!Kept(text, 1, Len(text))
           from == Cut!Min(kept)
           to == Cut!Max(kept)
<1>1. Len(text) \in Nat /\ \A i \in 1 .. Len(text) : text[i] \in Cut!Rune
  BY LenProperties
<1>2. CASE kept = {}
  BY <1>1, <1>2, EmptySeq DEF Cut!TrimSpace
<1>3. CASE kept # {}
  <2>1. kept \in SUBSET (1 .. Len(text))
    BY <1>1, KeptIn
  <2> HIDE DEF kept
  <2>2. from \in kept /\ to \in kept /\ from <= to
    BY <2>1, <1>1, <1>3, MinMax
  <2>3. from \in 1 .. Len(text) /\ to \in 1 .. Len(text) /\ text[from] # "space"
    BY <2>1, <2>2 DEF kept, Cut!Kept
  <2>4. \A i \in from .. to : text[i] \in Cut!Rune
    BY <1>1, <2>3
  <2> HIDE DEF from, to
  <2>5. /\ SubSeq(text, from, to) \in Seq(Cut!Rune)
        /\ Len(SubSeq(text, from, to)) = to - from + 1
        /\ SubSeq(text, from, to)[1] = text[from]
    <3>1. from \in Int /\ to \in Int
      BY <2>3
    <3>2. /\ SubSeq(text, from, to) \in Seq(Cut!Rune)
          /\ Len(SubSeq(text, from, to)) = IF from <= to THEN to - from + 1 ELSE 0
          /\ \A i \in 1 .. to - from + 1 : SubSeq(text, from, to)[i] = text[from + i - 1]
      BY <2>4, <3>1, SubSeqProperties
    <3>3. 1 \in 1 .. to - from + 1 /\ from + 1 - 1 = from
      BY <3>1, <2>2
    <3> QED
      BY <3>2, <3>3, <2>2
  <2>6. Cut!TrimSpace(text) = SubSeq(text, from, to)
    BY <1>3 DEF Cut!TrimSpace, kept, from, to
  <2>7. to - from + 1 \in 1 .. Len(text)
    BY <2>2, <2>3, <1>1
  <2> QED
    BY <2>3, <2>5, <2>6, <2>7, <1>1
<1> QED
  BY <1>2, <1>3

LEMMA TokensCount ==
  ASSUME NEW chunk \in Seq(Cut!Rune), Len(chunk) > 0
  PROVE  Cut!TokenCount(chunk) \in 1 .. Len(chunk)
<1> DEFINE words == {p \in DOMAIN chunk :
                       chunk[p] = "word" /\ (p = 1 \/ chunk[p - 1] # "word")}
<1>1. Len(chunk) \in Nat /\ DOMAIN chunk = 1 .. Len(chunk)
  BY LenProperties
<1>2. words \subseteq 1 .. Len(chunk)
  BY <1>1
<1>3. IsFiniteSet(1 .. Len(chunk)) /\ Cardinality(1 .. Len(chunk)) = Len(chunk)
  <2>1. Cardinality(1 .. Len(chunk)) = IF 1 <= Len(chunk) THEN Len(chunk) - 1 + 1 ELSE 0
    BY <1>1, FS_Interval
  <2>2. (IF 1 <= Len(chunk) THEN Len(chunk) - 1 + 1 ELSE 0) = Len(chunk)
    BY <1>1
  <2> QED
    BY <1>1, <2>1, <2>2, FS_Interval
<1>7. Cut!TokenCount(chunk) = IF words # {} THEN Cardinality(words) ELSE Len(chunk)
  <2>1. Cut!TokenCount(chunk) = IF words # {} THEN Cut!Cardinality(words) ELSE Len(chunk)
    BY DEF Cut!TokenCount
  <2> HIDE DEF words
  <2>2. Cut!Cardinality(words) = Cardinality(words)
    BY DEF Cut!Cardinality, Cardinality
  <2> QED
    BY <2>1, <2>2
<1> HIDE DEF words
<1>4. IsFiniteSet(words) /\ Cardinality(words) \in Nat /\ Cardinality(words) <= Len(chunk)
  BY <1>2, <1>3, FS_Subset, FS_CardinalityType
<1>5. words # {} => Cardinality(words) # 0
  BY <1>4, FS_EmptySet
<1>6. (IF words # {} THEN Cardinality(words) ELSE Len(chunk)) \in 1 .. Len(chunk)
  BY <1>1, <1>4, <1>5
<1> QED
  BY <1>6, <1>7

(* A window that is not blank makes a chunk.                               *)
LEMMA ChunkFits ==
  ASSUME NEW text \in Seq(Cut!Rune), NEW first \in 1 .. Len(text), NEW last \in first .. Len(text),
         Cut!Kept(text, first, last) # {}
  PROVE  LET chunk == Cut!ChunkOf(text, <<first, last>>)
         IN /\ Len(chunk) \in 1 .. last - first + 1
            /\ Cut!TokenCount(chunk) \in 1 .. Len(chunk)
<1> DEFINE part == SubSeq(text, first, last)
<1>1. Len(text) \in Nat /\ \A i \in 1 .. Len(text) : text[i] \in Cut!Rune
  BY LenProperties
<1>2. /\ first \in Int /\ last \in Int /\ first <= last
      /\ \A i \in first .. last : text[i] \in Cut!Rune
  BY <1>1
<1>3. /\ part \in Seq(Cut!Rune) /\ Len(part) = IF first <= last THEN last - first + 1 ELSE 0
      /\ \A i \in 1 .. last - first + 1 : part[i] = text[first + i - 1]
  BY <1>2, SubSeqProperties
<1>4. Len(part) = last - first + 1
  BY <1>2, <1>3
<1> HIDE DEF part
<1>5. Cut!Kept(part, 1, Len(part)) # {}
  <2>1. PICK p \in first .. last : text[p] # "space"
    BY DEF Cut!Kept
  <2>2. p - first + 1 \in 1 .. Len(part) /\ first + (p - first + 1) - 1 = p
    BY <1>2, <1>4
  <2>3. part[p - first + 1] = text[p]
    BY <1>3, <1>4, <2>2
  <2> QED
    BY <2>1, <2>2, <2>3 DEF Cut!Kept
<1> DEFINE chunk == Cut!TrimSpace(part)
<1>6. chunk \in Seq(Cut!Rune) /\ Len(chunk) \in 0 .. Len(part) /\ Len(chunk) > 0
  BY <1>3, <1>5, TrimSpaceCuts
<1>7. Cut!TokenCount(chunk) \in 1 .. Len(chunk)
  BY <1>6, TokensCount
<1>8. Cut!ChunkOf(text, <<first, last>>) = chunk
  BY DEF Cut!ChunkOf, part
<1> HIDE DEF chunk
<1>9. Len(chunk) \in 1 .. last - first + 1
  BY <1>4, <1>6
<1> QED
  BY <1>7, <1>8, <1>9

LEMMA ParagraphInput ==
  ASSUME InputStays, kind = "paragraph"
  PROVE  /\ input.size \in Nat \ {0} /\ input.overlap \in Nat
         /\ Paragraph \in Seq(Cut!Rune) /\ Len(Paragraph) \in Nat
         /\ Len(Paragraph) > 0 => Paragraph[1] # "space"
<1>1. input.size \in Nat \ {0} /\ input.overlap \in Nat /\ input.text \in Seq(Cut!Rune)
  <2>1. input \in [size : Nat \ {0}, overlap : Nat, text : Seq(Cut!Rune)]
    BY InputsAssumption DEF InputStays
  <2> QED
    BY <2>1
<1>2. /\ Paragraph \in Seq(Cut!Rune)
      /\ Len(Paragraph) > 0 => Paragraph[1] # "space"
  BY <1>1, TrimSpaceCuts DEF Paragraph
<1> QED
  BY <1>1, <1>2, LenProperties

(* One more window behind the others.                                      *)
LEMMA WindowAdded ==
  ASSUME NEW text \in Seq(Cut!Rune), NEW start \in Nat, NEW next \in Nat, NEW end \in Nat,
         NEW out \in Seq(Int \X Int), WindowsSoFar(text, start, out),
         input.size \in Nat \ {0}, input.overlap \in Nat,
         start < end, end <= Len(text), end <= start + input.size,
         start < next, next <= end,
         next < Len(text) => end = start + input.size /\ end < Len(text),
         input.overlap < input.size /\ end < Len(text) => next <= end - input.overlap
  PROVE  /\ out \o Cut!Keep(text, start + 1, end) \in Seq(Int \X Int)
         /\ WindowsSoFar(text, next, out \o Cut!Keep(text, start + 1, end))
<1> DEFINE all == Cut!Kept(text, 1, Len(text))
<1>1. Len(text) \in Nat
  BY LenProperties
<1>2. /\ Len(out) \in Nat /\ DOMAIN out = 1 .. Len(out)
      /\ \A i \in 1 .. Len(out) : out[i] \in Int \X Int
  BY LenProperties
<1>3. \A p : p \in all <=> p \in 1 .. Len(text) /\ text[p] # "space"
  BY DEF Cut!Kept
<1>4. \A i \in 1 .. Len(out) :
        /\ out[i][1] \in Int /\ out[i][2] \in Int
        /\ 1 <= out[i][1] /\ out[i][1] <= out[i][2] /\ out[i][2] <= Len(text)
        /\ out[i][2] < out[i][1] + input.size
        /\ out[i][1] <= start
        /\ out[i][2] = out[i][1] + input.size - 1 /\ out[i][2] < Len(text)
        /\ Cut!Kept(text, out[i][1], out[i][2]) # {}
  <2>1. start < Len(text)
    BY <1>1
  <2> QED
    BY <1>2, <2>1 DEF WindowsSoFar
<1>7. \A i, j \in 1 .. Len(out) : i < j => out[i][1] < out[j][1] /\ out[i][2] < out[j][2]
  BY <1>2 DEF WindowsSoFar
<1>8. \A p \in all : p <= start => InWindows(out, p, p)
  BY DEF WindowsSoFar
<1>9. input.overlap < input.size =>
        \A a, b \in all : a <= b /\ b - a <= input.overlap /\ a <= start => InWindows(out, a, b)
  BY DEF WindowsSoFar
<1> HIDE DEF all
<1>5. CASE Cut!Kept(text, start + 1, end) = {}
  <2>1. Cut!Keep(text, start + 1, end) = <<>>
    BY <1>5 DEF Cut!Keep
  <2>2. out \o <<>> = out
    BY ConcatEmptySeq
  <2>3. \A p \in all : p <= next => p <= start
    <3> SUFFICES ASSUME NEW p \in all, p <= next, p > start PROVE FALSE
      BY <1>1, <1>3
    <3>1. p \in start + 1 .. end /\ text[p] # "space"
      BY <1>1, <1>3
    <3> QED
      BY <1>5, <3>1 DEF Cut!Kept
  <2>4. WindowsSoFar(text, next, out)
    <3>1. ASSUME NEW i \in 1 .. Len(out) PROVE out[i][1] <= next
      <4>1. out[i][1] \in Int /\ out[i][1] <= start
        BY <1>4
      <4> QED
        BY <4>1
    <3>2. \A p \in all : p <= next => InWindows(out, p, p)
      BY <1>8, <2>3
    <3>3. input.overlap < input.size =>
           \A a, b \in all : a <= b /\ b - a <= input.overlap /\ a <= next => InWindows(out, a, b)
      BY <1>9, <2>3
    <3> QED
      BY <1>1, <1>2, <1>4, <1>7, <3>1, <3>2, <3>3 DEF WindowsSoFar, all
  <2> QED
    BY <2>1, <2>2, <2>4
<1>6. CASE Cut!Kept(text, start + 1, end) # {}
  <2> DEFINE window == <<start + 1, end>>
             more == out \o <<window>>
             last == Len(out) + 1
  <2>1. Cut!Keep(text, start + 1, end) = <<window>>
    BY <1>6 DEF Cut!Keep
  <2>2. /\ more \in Seq(Int \X Int) /\ DOMAIN more = 1 .. last
        /\ \A i \in 1 .. Len(out) : more[i] = out[i]
        /\ more[last] = window
    <3>1. window \in Int \X Int
      OBVIOUS
    <3> HIDE DEF window
    <3>2. <<window>> \in Seq(Int \X Int) /\ Len(<<window>>) = 1 /\ <<window>>[1] = window
      BY <3>1
    <3>3. /\ more \in Seq(Int \X Int) /\ Len(more) = Len(out) + Len(<<window>>)
          /\ \A i \in 1 .. Len(out) + Len(<<window>>) :
               more[i] = IF i <= Len(out) THEN out[i] ELSE <<window>>[i - Len(out)]
      BY <3>2, ConcatProperties
    <3>4. DOMAIN more = 1 .. Len(more)
      BY <3>3, LenProperties
    <3> HIDE DEF more
    <3>5. \A i \in 1 .. Len(out) : more[i] = out[i]
      BY <3>2, <3>3, <1>2
    <3>6. more[last] = window
      <4>1. last \in 1 .. Len(out) + Len(<<window>>) /\ ~(last <= Len(out)) /\ last - Len(out) = 1
        BY <3>2, <1>2
      <4> QED
        BY <3>2, <3>3, <4>1
    <3> QED
      BY <3>2, <3>3, <3>4, <3>5, <3>6
  <2>3. window[1] = start + 1 /\ window[2] = end
    OBVIOUS
  <2> HIDE DEF window, more
  <2>4. last \in Nat /\ \A i \in 1 .. last : i \in 1 .. Len(out) \/ i = last
    BY <1>2
  <2> HIDE DEF last
  <2>5. \A a, b \in Int : InWindows(out, a, b) => InWindows(more, a, b)
    <3> SUFFICES ASSUME NEW a \in Int, NEW b \in Int, InWindows(out, a, b)
                 PROVE  InWindows(more, a, b)
      OBVIOUS
    <3>1. PICK i \in 1 .. Len(out) : out[i][1] <= a /\ b <= out[i][2]
      BY <1>2 DEF InWindows
    <3>2. i \in 1 .. last /\ more[i] = out[i]
      BY <1>2, <2>2 DEF last
    <3> QED
      BY <2>2, <3>1, <3>2 DEF InWindows
  <2>6. \A a, b \in Int : start < a /\ b <= end => InWindows(more, a, b)
    <3> SUFFICES ASSUME NEW a \in Int, NEW b \in Int, start < a, b <= end
                 PROVE  InWindows(more, a, b)
      OBVIOUS
    <3>1. last \in 1 .. last /\ more[last][1] <= a /\ b <= more[last][2]
      <4>1. last \in 1 .. last
        BY <1>2 DEF last
      <4>2. more[last][1] = start + 1 /\ more[last][2] = end
        BY <2>2, <2>3
      <4> QED
        BY <4>1, <4>2
    <3> QED
      BY <2>2, <3>1 DEF InWindows
  <2>7. ASSUME NEW i \in 1 .. last
        PROVE  /\ 1 <= more[i][1] /\ more[i][1] <= more[i][2] /\ more[i][2] <= Len(text)
               /\ more[i][2] < more[i][1] + input.size
               /\ more[i][1] <= next
               /\ next < Len(text) =>
                    more[i][2] = more[i][1] + input.size - 1 /\ more[i][2] < Len(text)
               /\ Cut!Kept(text, more[i][1], more[i][2]) # {}
    <3>1. CASE i \in 1 .. Len(out)
      <4>1. more[i] = out[i] /\ out[i][1] \in Int /\ out[i][1] <= start
        BY <3>1, <1>4, <2>2
      <4>2. out[i][1] <= next
        BY <4>1
      <4> QED
        BY <3>1, <1>4, <4>1, <4>2
    <3>2. CASE i = last
      <4>1. more[i][1] = start + 1 /\ more[i][2] = end
        BY <3>2, <2>2, <2>3
      <4>2. /\ 1 <= start + 1 /\ start + 1 <= end /\ end < (start + 1) + input.size
            /\ start + 1 <= next
            /\ next < Len(text) => end = (start + 1) + input.size - 1 /\ end < Len(text)
        BY <1>1
      <4> QED
        BY <4>1, <4>2, <1>6
    <3> QED
      BY <3>1, <3>2, <2>4
  <2>8. ASSUME NEW i \in 1 .. last, NEW j \in 1 .. last, i < j
        PROVE  more[i][1] < more[j][1] /\ more[i][2] < more[j][2]
    <3>1. i \in 1 .. Len(out)
      BY <1>2, <2>8 DEF last
    <3>2. CASE j \in 1 .. Len(out)
      BY <3>1, <3>2, <1>7, <2>2, <2>8
    <3>3. CASE j = last
      <4>1. out[i][1] <= start /\ out[i][2] = out[i][1] + input.size - 1 /\ out[i][2] < Len(text)
            /\ out[i][1] \in Int
        BY <3>1, <1>4
      <4>2. end = Len(text) \/ end = start + input.size
        BY <1>1
      <4>3. out[i][2] < end /\ out[i][1] < start + 1
        <5> DEFINE f == out[i][1]
                   l == out[i][2]
        <5>1. f <= start /\ l = f + input.size - 1 /\ l < Len(text) /\ f \in Int
          BY <4>1
        <5> HIDE DEF f, l
        <5>2. l < end /\ f < start + 1
          BY <5>1, <4>2, <1>1
        <5> QED
          BY <5>2 DEF f, l
      <4>4. more[i] = out[i] /\ more[j][1] = start + 1 /\ more[j][2] = end
        BY <3>1, <3>3, <2>2, <2>3
      <4> QED
        BY <4>3, <4>4
    <3> QED
      BY <3>2, <3>3, <2>4
  <2>9. \A p \in all : p <= next => InWindows(more, p, p)
    <3> SUFFICES ASSUME NEW p \in all, p <= next PROVE InWindows(more, p, p)
      OBVIOUS
    <3>1. p \in Int
      BY <1>1, <1>3
    <3>2. CASE p <= start
      BY <3>1, <3>2, <1>8, <2>5
    <3>3. CASE p > start
      BY <3>1, <3>3, <2>6
    <3> QED
      BY <3>1, <3>2, <3>3
  <2>10. ASSUME input.overlap < input.size, NEW a \in all, NEW b \in all,
                a <= b, b - a <= input.overlap, a <= next
         PROVE  InWindows(more, a, b)
    <3>1. a \in Int /\ b \in Int /\ b <= Len(text)
      BY <1>1, <1>3
    <3>2. CASE a <= start
      BY <3>1, <3>2, <2>10, <1>9, <2>5
    <3>3. CASE a > start
      <4>1. b <= end
        BY <3>1, <1>1, <2>10
      <4> QED
        BY <3>1, <3>3, <4>1, <2>6
    <3> QED
      BY <3>1, <3>2, <3>3
  <2>11. WindowsSoFar(text, next, more)
    BY <2>2, <2>7, <2>8, <2>9, <2>10 DEF WindowsSoFar, all
  <2> QED
    BY <2>1, <2>2, <2>11 DEF more
<1> QED
  BY <1>5, <1>6

(* A pass of the loop.                                                     *)
LEMMA CutWindowKeeps ==
  ASSUME InputStays, WindowLoop, CutWindow
  PROVE  WindowLoop'
<1> DEFINE text == Paragraph
           start == loop.start
           end == IF start + input.size > Len(text) THEN Len(text) ELSE start + input.size
           next == IF end = Len(text) THEN Len(text)
                    ELSE start + Cut!Step(input.size, input.overlap)
           out == loop.out \o Cut!Keep(text, start + 1, end)
<1>1. /\ kind = "paragraph" /\ Len(text) > input.size /\ start < Len(text) /\ ~done
      /\ loop' = [start |-> next, out |-> out]
      /\ UNCHANGED <<kind, input, done, output>>
  BY DEF CutWindow, Running, Pass, Cut!CutWindow
<1>2. /\ input.size \in Nat \ {0} /\ input.overlap \in Nat
      /\ text \in Seq(Cut!Rune) /\ Len(text) \in Nat
  BY <1>1, ParagraphInput
<1>3. /\ start \in Nat /\ loop.out \in Seq(Int \X Int)
      /\ WindowsSoFar(text, start, loop.out)
  BY <1>1, <1>2 DEF WindowLoop
<1>4. /\ Cut!Step(input.size, input.overlap) \in 1 .. input.size
      /\ input.overlap < input.size =>
           Cut!Step(input.size, input.overlap) = input.size - input.overlap
  BY <1>2 DEF Cut!Step
<1>5. Paragraph' = text
  BY <1>1 DEF Paragraph
<1> HIDE DEF text, start
<1>6. /\ next \in Nat /\ end \in Nat /\ start < end /\ end <= Len(text)
      /\ end <= start + input.size /\ start < next /\ next <= end
      /\ next < Len(text) => end = start + input.size /\ end < Len(text)
      /\ input.overlap < input.size /\ end < Len(text) => next <= end - input.overlap
  BY <1>1, <1>2, <1>3, <1>4
<1> HIDE DEF next, end
<1>7. out \in Seq(Int \X Int) /\ WindowsSoFar(text, next, out)
  BY <1>2, <1>3, <1>6, WindowAdded
<1> HIDE DEF out
<1>8. loop' \in [start : Nat, out : Seq(Int \X Int)] /\ loop'.start = next /\ loop'.out = out
  BY <1>1, <1>6, <1>7
<1> QED
  BY <1>1, <1>2, <1>5, <1>7, <1>8 DEF WindowLoop, WindowsSoFar

LEMMA WindowInv == Spec => [](InputStays /\ WindowLoop)
<1>1. Init => WindowLoop
  <2> SUFFICES ASSUME Init, kind = "paragraph" PROVE WindowLoop
    BY DEF WindowLoop
  <2>1. loop = [start |-> 0, out |-> <<>>] /\ ~done
    BY DEF Init, BeforeLoop
  <2>2. InputStays
    BY DEF Init, InputStays
  <2>3. input.size \in Nat \ {0} /\ Paragraph \in Seq(Cut!Rune) /\ Len(Paragraph) \in Nat
    BY <2>2, ParagraphInput
  <2>4. loop \in [start : Nat, out : Seq(Int \X Int)] /\ loop.start = 0 /\ loop.out = <<>>
    BY <2>1
  <2>5. WindowsSoFar(Paragraph, 0, <<>>)
    <3>1. DOMAIN <<>> = {}
      OBVIOUS
    <3>2. \A p \in Cut!Kept(Paragraph, 1, Len(Paragraph)) : ~(p <= 0)
      BY <2>3 DEF Cut!Kept
    <3> QED
      BY <3>1, <3>2 DEF WindowsSoFar
  <2> QED
    BY <2>1, <2>4, <2>5 DEF WindowLoop
<1>2. InputStays /\ WindowLoop /\ [Next]_vars => WindowLoop'
  <2> SUFFICES ASSUME InputStays, WindowLoop, [Next]_vars, kind = "paragraph" PROVE WindowLoop'
    BY StepsOfKind DEF WindowLoop
  <2>1. CASE CutWindow
    BY <2>1, CutWindowKeeps
  <2>2. CASE TakeWhole
    <3>1. /\ UNCHANGED <<kind, input, loop>> /\ Len(Paragraph) <= input.size
          /\ output' = Cut!WholeText(Paragraph)
      BY <2>2 DEF TakeWhole, Return
    <3> QED
      BY <3>1 DEF WindowLoop, Paragraph
  <2>3. CASE CutUp
    <3>1. /\ UNCHANGED <<kind, input, loop>> /\ ~(Len(Paragraph) <= input.size)
          /\ output' = loop.out /\ loop.start >= Len(Paragraph)
      <4>1. Len(Paragraph) > input.size /\ input.size \in Nat /\ Len(Paragraph) \in Nat
        BY <2>3, ParagraphInput DEF CutUp
      <4> QED
        BY <2>3, <4>1 DEF CutUp, Return
    <3> QED
      BY <3>1 DEF WindowLoop, Paragraph, WindowsSoFar
  <2>4. CASE UNCHANGED vars
    BY <2>4 DEF vars, WindowLoop, Paragraph, WindowsSoFar
  <2> QED
    BY <2>1, <2>2, <2>3, <2>4, StepsOfKind
<1> QED
  BY <1>1, <1>2, ResultInv, PTL DEF Spec

(* What the loop leaves is what the chunks of a paragraph are to be.       *)
LEMMA WindowsAreRight ==
  ASSUME InputStays, WindowLoop, Done("paragraph")
  PROVE  NothingLost /\ PhraseIsWhole /\ ChunkIsSmall /\ NoWindowInside
<1> DEFINE text == Paragraph
           all == Cut!Kept(text, 1, Len(text))
<1>1. /\ kind = "paragraph" /\ done
      /\ input.size \in Nat \ {0} /\ input.overlap \in Nat
      /\ text \in Seq(Cut!Rune) /\ Len(text) \in Nat
      /\ Len(text) > 0 => text[1] # "space"
  BY ParagraphInput DEF Done
<1>2. \A p \in all : p \in 1 .. Len(text)
  BY DEF Cut!Kept
<1>3. CASE Len(text) <= input.size
  <2>1. output = Cut!WholeText(text)
    BY <1>1, <1>3 DEF WindowLoop
  <2>2. CASE text = <<>>
    <3>1. output = <<>> /\ Len(text) = 0
      BY <2>1, <2>2, EmptySeq DEF Cut!WholeText
    <3>2. all = {} /\ DOMAIN output = {}
      BY <1>2, <3>1
    <3> QED
      BY <3>2 DEF NothingLost, PhraseIsWhole, ChunkIsSmall, NoWindowInside
  <2>3. CASE text # <<>>
    <3>1. output = << <<1, Len(text)>> >> /\ Len(text) > 0
      BY <2>1, <2>3, <1>1, EmptySeq DEF Cut!WholeText
    <3>2. DOMAIN output = {1} /\ output[1] = <<1, Len(text)>>
      BY <3>1
    <3>3. output[1][1] = 1 /\ output[1][2] = Len(text)
      BY <3>2
    <3>4. Cut!Kept(text, 1, Len(text)) # {}
      BY <1>1, <3>1 DEF Cut!Kept
    <3>5. /\ Len(Cut!ChunkOf(text, output[1])) \in 1 .. Len(text) - 1 + 1
          /\ Cut!TokenCount(Cut!ChunkOf(text, output[1])) \in 1 .. Len(Cut!ChunkOf(text, output[1]))
      <4>1. 1 \in 1 .. Len(text) /\ Len(text) \in 1 .. Len(text)
        BY <1>1, <3>1
      <4> QED
        BY <1>1, <3>2, <3>4, <4>1, ChunkFits
    <3>6. Len(Cut!ChunkOf(text, output[1])) \in 1 .. input.size
      BY <1>1, <1>3, <3>5
    <3>7. ChunkIsSmall
      BY <3>2, <3>5, <3>6 DEF ChunkIsSmall
    <3>8. NothingLost /\ PhraseIsWhole
      BY <1>2, <3>2, <3>3 DEF NothingLost, PhraseIsWhole
    <3>9. NoWindowInside
      BY <3>2 DEF NoWindowInside
    <3> QED
      BY <3>7, <3>8, <3>9
  <2> QED
    BY <2>2, <2>3
<1>4. CASE ~(Len(text) <= input.size)
  <2>1. /\ output \in Seq(Int \X Int) /\ loop.start \in Nat /\ loop.start >= Len(text)
        /\ WindowsSoFar(text, loop.start, output)
    <3>1. /\ loop \in [start : Nat, out : Seq(Int \X Int)]
          /\ WindowsSoFar(text, loop.start, loop.out)
          /\ output = loop.out /\ loop.start >= Len(text)
      BY <1>1, <1>4 DEF WindowLoop
    <3> QED
      BY <3>1
  <2>2. \A p \in all : p <= loop.start /\ p \in Int
    BY <1>1, <1>2, <2>1
  <2>3. NothingLost
    BY <2>1, <2>2 DEF WindowsSoFar, InWindows, NothingLost
  <2>4. PhraseIsWhole
    BY <2>1, <2>2 DEF WindowsSoFar, InWindows, PhraseIsWhole
  <2>5. NoWindowInside
    BY <2>1 DEF WindowsSoFar, NoWindowInside
  <2>6. ChunkIsSmall
    <3> SUFFICES ASSUME NEW i \in DOMAIN output
                 PROVE  LET chunk == Cut!ChunkOf(text, output[i])
                        IN /\ Len(chunk) \in 1 .. input.size
                           /\ Cut!TokenCount(chunk) \in 1 .. Len(chunk)
      BY DEF ChunkIsSmall
    <3> DEFINE f == output[i][1]
               l == output[i][2]
    <3>1. output[i] = <<f, l>> /\ f \in Int /\ l \in Int
      BY <2>1, LenProperties
    <3>2. /\ 1 <= f /\ f <= l /\ l <= Len(text) /\ l < f + input.size
          /\ Cut!Kept(text, f, l) # {}
      BY <2>1 DEF WindowsSoFar
    <3> HIDE DEF f, l
    <3>3. f \in 1 .. Len(text) /\ l \in f .. Len(text) /\ 1 .. l - f + 1 \subseteq 1 .. input.size
      BY <1>1, <3>1, <3>2
    <3>4. /\ Len(Cut!ChunkOf(text, <<f, l>>)) \in 1 .. l - f + 1
          /\ Cut!TokenCount(Cut!ChunkOf(text, <<f, l>>)) \in 1 .. Len(Cut!ChunkOf(text, <<f, l>>))
      BY <1>1, <3>2, <3>3, ChunkFits
    <3> QED
      BY <3>1, <3>3, <3>4
  <2> QED
    BY <2>3, <2>4, <2>5, <2>6
<1> QED
  BY <1>3, <1>4
-----------------------------------------------------------------------------
(* The paragraphs of a document. *)

LEMMA DocumentInput ==
  ASSUME InputStays, kind = "document"
  PROVE  /\ input \in Seq(Mark!Kind) /\ Len(input) \in Nat /\ Len(input) > 0
         /\ DOMAIN input = 1 .. Len(input)
<1>1. input \in Seq(Mark!Kind) /\ input # <<>>
  BY InputsAssumption DEF InputStays
<1>2. Len(input) \in Nat /\ Len(input) > 0
  BY <1>1, EmptySeq
<1> QED
  BY <1>1, <1>2, LenProperties

(* A part goes from its first line with text to its last one.              *)
LEMMA NonEmptyHas ==
  ASSUME Len(input) \in Nat, NEW first \in 1 .. Len(input) + 1, NEW last \in 0 .. Len(input)
  PROVE  \/ /\ Mark!NonEmpty(input, first, last) = <<>>
            /\ \A line \in first .. last : ~Mark!HasText(input, line)
         \/ \E a, b \in first .. last :
              /\ Mark!NonEmpty(input, first, last) = << <<a, b>> >>
              /\ a <= b /\ Mark!HasText(input, b)
              /\ \A line \in first .. last : Mark!HasText(input, line) => a <= line /\ line <= b
<1> DEFINE kept == {line \in first .. last : Mark!HasText(input, line)}
<1>1. CASE kept = {}
  BY <1>1 DEF Mark!NonEmpty
<1>2. CASE kept # {}
  <2> DEFINE a == Mark!Min(kept)
             b == Mark!Max(kept)
  <2>1. kept \in SUBSET (1 .. Len(input))
    OBVIOUS
  <2>2. Mark!NonEmpty(input, first, last) = << <<a, b>> >>
    BY <1>2 DEF Mark!NonEmpty
  <2> HIDE DEF kept
  <2>3. a \in kept /\ b \in kept /\ \A line \in kept : a <= line /\ line <= b
    <3>1. Len(input) \in Nat /\ kept \in SUBSET (1 .. Len(input)) /\ kept # {}
      BY <1>2, <2>1
    <3>2. /\ Cut!Min(kept) \in kept /\ \A line \in kept : Cut!Min(kept) <= line
          /\ Cut!Max(kept) \in kept /\ \A line \in kept : line <= Cut!Max(kept)
          /\ a = Cut!Min(kept) /\ b = Cut!Max(kept)
      BY ONLY <3>1, MinMax, Zenon
    <3> QED
      BY ONLY <3>2
  <2> HIDE DEF a, b
  <2>4. a \in first .. last /\ b \in first .. last /\ Mark!HasText(input, b)
    BY <2>3 DEF kept
  <2>5. \A line \in first .. last : Mark!HasText(input, line) => a <= line /\ line <= b
    BY <2>3 DEF kept
  <2>6. a <= b
    BY <2>3
  <2> QED
    BY <2>2, <2>4, <2>5, <2>6
<1> QED
  BY <1>1, <1>2

(* A part behind others.                                                   *)
LEMMA PartAdded ==
  ASSUME Len(input) \in Nat, NEW first \in 1 .. Len(input) + 1, NEW last \in 0 .. Len(input),
         \A line \in first + 1 .. last : input[line] # "heading",
         NEW parts \in Stretches, InOrder(parts),
         \A i \in DOMAIN parts : parts[i][2] < first
  PROVE  LET more == parts \o Mark!NonEmpty(input, first, last)
         IN /\ more \in Stretches /\ InOrder(more)
            /\ \A i \in DOMAIN more :
                 \/ i \in DOMAIN parts /\ more[i] = parts[i]
                 \/ /\ more[i][1] \in first .. last /\ more[i][2] \in first .. last
                    /\ Mark!HasText(input, more[i][2])
            /\ \A line \in 1 .. Len(input) : Within(parts, line) => Within(more, line)
            /\ \A line \in first .. last : Mark!HasText(input, line) => Within(more, line)
<1> DEFINE Lines == 1 .. Len(input)
<1>1. CASE /\ Mark!NonEmpty(input, first, last) = <<>>
           /\ \A line \in first .. last : ~Mark!HasText(input, line)
  <2>1. parts \o <<>> = parts
    BY ConcatEmptySeq DEF Stretches
  <2> QED
    BY <1>1, <2>1
<1>2. ASSUME NEW a \in first .. last, NEW b \in first .. last,
             Mark!NonEmpty(input, first, last) = << <<a, b>> >>,
             a <= b, Mark!HasText(input, b),
             \A line \in first .. last : Mark!HasText(input, line) => a <= line /\ line <= b
      PROVE  LET more == parts \o Mark!NonEmpty(input, first, last)
             IN /\ more \in Stretches /\ InOrder(more)
                /\ \A i \in DOMAIN more :
                     \/ i \in DOMAIN parts /\ more[i] = parts[i]
                     \/ /\ more[i][1] \in first .. last /\ more[i][2] \in first .. last
                        /\ Mark!HasText(input, more[i][2])
                /\ \A line \in Lines : Within(parts, line) => Within(more, line)
                /\ \A line \in first .. last : Mark!HasText(input, line) => Within(more, line)
  <2> DEFINE part == <<a, b>>
             more == parts \o <<part>>
             n == Len(parts) + 1
  <2>1. /\ Len(parts) \in Nat /\ DOMAIN parts = 1 .. Len(parts)
        /\ \A i \in 1 .. Len(parts) : parts[i] \in Lines \X Lines
    BY LenProperties DEF Stretches
  <2>2. /\ more \in Stretches /\ DOMAIN more = 1 .. n /\ n \in 1 .. n
        /\ \A i \in 1 .. Len(parts) : more[i] = parts[i]
        /\ more[n][1] = a /\ more[n][2] = b
    <3>1. part \in Lines \X Lines /\ part[1] = a /\ part[2] = b
      OBVIOUS
    <3> HIDE DEF part
    <3>2. <<part>> \in Seq(Lines \X Lines) /\ Len(<<part>>) = 1 /\ <<part>>[1] = part
      BY <3>1
    <3>3. /\ more \in Seq(Lines \X Lines) /\ Len(more) = Len(parts) + Len(<<part>>)
          /\ \A i \in 1 .. Len(parts) + Len(<<part>>) :
               more[i] = IF i <= Len(parts) THEN parts[i] ELSE <<part>>[i - Len(parts)]
      BY <3>2, ConcatProperties DEF Stretches
    <3>4. DOMAIN more = 1 .. Len(more)
      BY <3>3, LenProperties
    <3> HIDE DEF more
    <3>5. \A i \in 1 .. Len(parts) : more[i] = parts[i]
      BY <3>2, <3>3, <2>1
    <3>6. more[n] = part
      <4>1. n \in 1 .. Len(parts) + Len(<<part>>) /\ ~(n <= Len(parts)) /\ n - Len(parts) = 1
        BY <3>2, <2>1
      <4> QED
        BY <3>2, <3>3, <4>1
    <3>7. n \in 1 .. n
      BY <2>1
    <3> QED
      BY <3>1, <3>2, <3>3, <3>4, <3>5, <3>6, <3>7 DEF Stretches
  <2>3. Mark!NonEmpty(input, first, last) = <<part>>
    BY <1>2
  <2> HIDE DEF part, more
  <2>4. \A i \in 1 .. n : i \in 1 .. Len(parts) \/ i = n
    BY <2>1
  <2>5. \A i, j \in 1 .. n : i < j => i \in 1 .. Len(parts)
    BY <2>1
  <2> HIDE DEF n
  <2>6. InOrder(more)
    <3>1. ASSUME NEW i \in 1 .. n
          PROVE  /\ more[i][1] <= more[i][2]
                 /\ \A line \in more[i][1] + 1 .. more[i][2] : input[line] # "heading"
      <4>1. CASE i \in 1 .. Len(parts)
        BY <4>1, <2>1, <2>2 DEF InOrder
      <4>2. CASE i = n
        <5>1. a + 1 .. b \subseteq first + 1 .. last
          OBVIOUS
        <5> QED
          BY <1>2, <4>2, <2>2, <5>1
      <4> QED
        BY <4>1, <4>2, <2>4
    <3>2. ASSUME NEW i \in 1 .. n, NEW j \in 1 .. n, i < j
          PROVE  more[i][2] < more[j][1]
      <4>1. i \in 1 .. Len(parts) /\ more[i] = parts[i]
        BY <3>2, <2>2, <2>5
      <4>2. CASE j \in 1 .. Len(parts)
        BY <3>2, <4>1, <4>2, <2>1, <2>2 DEF InOrder
      <4>3. CASE j = n
        <5>1. parts[i][2] < first /\ parts[i][2] \in Lines
          BY <4>1, <2>1
        <5>2. parts[i][2] < a
          BY <5>1
        <5> QED
          BY <4>1, <4>3, <5>2, <2>2
      <4> QED
        BY <4>2, <4>3, <2>4
    <3> QED
      BY <3>1, <3>2, <2>2 DEF InOrder
  <2>7. \A i \in DOMAIN more :
          \/ i \in DOMAIN parts /\ more[i] = parts[i]
          \/ /\ more[i][1] \in first .. last /\ more[i][2] \in first .. last
             /\ Mark!HasText(input, more[i][2])
    BY <1>2, <2>1, <2>2, <2>4
  <2>8. \A line \in Lines : Within(parts, line) => Within(more, line)
    <3>1. \A i \in 1 .. Len(parts) : i \in 1 .. n
      BY <2>1 DEF n
    <3> QED
      BY <2>1, <2>2, <3>1 DEF Within
  <2>9. \A line \in first .. last : Mark!HasText(input, line) => Within(more, line)
    <3> SUFFICES ASSUME NEW line \in first .. last, Mark!HasText(input, line)
                 PROVE  Within(more, line)
      OBVIOUS
    <3>1. line \in a .. b
      BY <1>2
    <3> QED
      BY <2>2, <3>1 DEF Within
  <2> QED
    BY <2>2, <2>3, <2>6, <2>7, <2>8, <2>9 DEF more
<1> HIDE DEF Lines
<1> QED
  BY <1>1, <1>2, NonEmptyHas DEF Lines

(* The invariant over what a step leaves in the loop.                      *)
LEMMA LineLoopNext ==
  ASSUME NEW line, NEW first, NEW sections, NEW out, Len(input) \in Nat,
         kind' = kind, input' = input, done' = done, kind = "document", ~done,
         DOMAIN loop' = {"line", "first", "sections", "out"},
         loop'.line = line, loop'.first = first, loop'.sections = sections, loop'.out = out,
         line \in 0 .. Len(input), first \in 1 .. Len(input) + 1,
         IF first > Len(input) THEN line = Len(input)
         ELSE /\ first <= IF line = 0 THEN 1 ELSE line
              /\ out = <<>>
              /\ \A l \in first + 1 .. line : input[l] # "heading",
         sections \in Stretches, InOrder(sections),
         \A i \in DOMAIN sections :
           sections[i][2] < first /\ Mark!HasText(input, sections[i][2]),
         out \in Stretches, InOrder(out),
         \A i \in DOMAIN out :
           /\ \A l \in out[i][1] .. out[i][2] : input[l] # "empty"
           /\ \A j \in DOMAIN sections : out[i][2] < sections[j][1],
         \A l \in 1 .. Len(input) : Mark!HasText(input, l) =>
           l >= first \/ Within(sections, l) \/ Within(out, l)
  PROVE  LineLoop'
<1>1. LinesAreRead'
  BY DEF LinesAreRead
<1>2. SectionsAreInOrder'
  BY DEF SectionsAreInOrder, InOrder, Stretches, Mark!HasText
<1>3. PartsAreInOrder'
  BY DEF PartsAreInOrder, InOrder, Stretches
<1>4. TextIsThere'
  BY DEF TextIsThere, Within, Mark!HasText
<1> QED
  BY <1>1, <1>2, <1>3, <1>4 DEF LineLoop

LEMMA ReadLineKeeps ==
  ASSUME InputStays, LineLoop, ReadLine
  PROVE  LineLoop'
<1> DEFINE line == loop.line + 1
           closes == input[line] = "heading" /\ loop.first < line
           first == IF closes THEN line ELSE loop.first
           closed == loop.sections \o Mark!NonEmpty(input, loop.first, loop.line)
           sections == IF closes THEN closed ELSE loop.sections
<1>1. /\ kind = "document" /\ ~done /\ loop.line < Len(input)
      /\ kind' = kind /\ input' = input /\ done' = done
      /\ loop' = [line |-> line, first |-> first, sections |-> sections, out |-> loop.out]
  BY DEF ReadLine, Running, Pass, Mark!ReadLine
<1>2. Len(input) \in Nat
  BY <1>1, DocumentInput
<1>3. /\ loop.line \in 0 .. Len(input) - 1 /\ loop.first \in 1 .. Len(input)
      /\ loop.first <= line
      /\ loop.out = <<>>
      /\ \A l \in loop.first + 1 .. loop.line : input[l] # "heading"
  <2>1. LinesAreRead
    BY <1>1 DEF LineLoop
  <2>2. ~(loop.first > Len(input)) /\ loop.line \in 0 .. Len(input)
    BY <1>1, <1>2, <2>1 DEF LinesAreRead
  <2> QED
    BY <1>1, <1>2, <2>1, <2>2 DEF LinesAreRead
<1>4. /\ loop.sections \in Stretches /\ InOrder(loop.sections)
      /\ \A i \in DOMAIN loop.sections :
           loop.sections[i][2] < loop.first /\ Mark!HasText(input, loop.sections[i][2])
      /\ loop.out \in Stretches /\ InOrder(loop.out)
      /\ \A l \in 1 .. Len(input) : Mark!HasText(input, l) =>
           l >= loop.first \/ Within(loop.sections, l)
  <2>1. SectionsAreInOrder /\ PartsAreInOrder /\ TextIsThere
    BY <1>1 DEF LineLoop
  <2>2. \A l : ~Within(<<>>, l)
    BY DEF Within
  <2> QED
    BY <1>3, <2>1, <2>2 DEF SectionsAreInOrder, PartsAreInOrder, TextIsThere
<1>5. /\ line \in 0 .. Len(input) /\ first \in 1 .. Len(input) + 1
      /\ ~(first > Len(input)) /\ first <= line /\ line # 0
  BY <1>2, <1>3
<1>6. \A l \in first + 1 .. line : input[l] # "heading"
  <2>1. CASE closes
    BY <1>3, <2>1
  <2>2. CASE ~closes
    <3>1. \A l \in loop.first + 1 .. line : l \in loop.first + 1 .. loop.line \/ l = line
      BY <1>3
    <3> QED
      BY <1>3, <2>2, <3>1
  <2> QED
    BY <2>1, <2>2
<1>7. /\ sections \in Stretches /\ InOrder(sections)
      /\ \A i \in DOMAIN sections :
           sections[i][2] < first /\ Mark!HasText(input, sections[i][2])
      /\ \A l \in 1 .. Len(input) : Mark!HasText(input, l) =>
           l >= first \/ Within(sections, l)
  <2>1. CASE closes
    <3>1. /\ closed \in Stretches /\ InOrder(closed)
          /\ \A i \in DOMAIN closed :
               \/ i \in DOMAIN loop.sections /\ closed[i] = loop.sections[i]
               \/ /\ closed[i][1] \in loop.first .. loop.line
                  /\ closed[i][2] \in loop.first .. loop.line
                  /\ Mark!HasText(input, closed[i][2])
          /\ \A l \in 1 .. Len(input) : Within(loop.sections, l) => Within(closed, l)
          /\ \A l \in loop.first .. loop.line : Mark!HasText(input, l) => Within(closed, l)
      <4>1. loop.first \in 1 .. Len(input) + 1 /\ loop.line \in 0 .. Len(input)
        BY <1>2, <1>3
      <4> QED
        BY <1>2, <1>3, <1>4, <4>1, PartAdded
    <3>2. first = line /\ sections = closed
      BY <2>1
    <3> HIDE DEF closed, closes
    <3>3. ASSUME NEW i \in DOMAIN closed
          PROVE  closed[i][2] < line /\ Mark!HasText(input, closed[i][2])
      <4>1. CASE i \in DOMAIN loop.sections /\ closed[i] = loop.sections[i]
        <5>1. loop.sections[i][2] < loop.first /\ loop.sections[i][2] \in Int
          BY <1>4, <4>1, LenProperties DEF Stretches
        <5> QED
          BY <1>3, <1>4, <4>1, <5>1
      <4>2. CASE closed[i][2] \in loop.first .. loop.line /\ Mark!HasText(input, closed[i][2])
        BY <1>3, <4>2
      <4> QED
        BY <3>1, <4>1, <4>2
    <3>4. ASSUME NEW l \in 1 .. Len(input), Mark!HasText(input, l)
          PROVE  l >= line \/ Within(closed, l)
      <4>1. l >= line \/ l < loop.first \/ l \in loop.first .. loop.line
        BY <1>2, <1>3
      <4>2. l < loop.first => ~(l >= loop.first)
        BY <1>3
      <4> QED
        BY <1>4, <3>1, <3>4, <4>1, <4>2
    <3> QED
      BY <3>1, <3>2, <3>3, <3>4
  <2>2. CASE ~closes
    BY <2>2, <1>4
  <2> QED
    BY <2>1, <2>2
<1>8. \A i \in DOMAIN loop.out : FALSE
  BY <1>3
<1> HIDE DEF line, first, sections
<1>9. /\ DOMAIN loop' = {"line", "first", "sections", "out"}
      /\ loop'.line = line /\ loop'.first = first /\ loop'.sections = sections
      /\ loop'.out = loop.out
  BY <1>1
<1>10. IF first > Len(input) THEN line = Len(input)
       ELSE /\ first <= IF line = 0 THEN 1 ELSE line
            /\ loop.out = <<>>
            /\ \A l \in first + 1 .. line : input[l] # "heading"
  BY <1>3, <1>5, <1>6
<1>11. \A l \in 1 .. Len(input) : Mark!HasText(input, l) =>
         l >= first \/ Within(sections, l) \/ Within(loop.out, l)
  BY <1>7
<1> QED
  BY <1>1, <1>2, <1>4, <1>5, <1>7, <1>8, <1>9, <1>10, <1>11, LineLoopNext

LEMMA CloseLastKeeps ==
  ASSUME InputStays, LineLoop, CloseLast
  PROVE  LineLoop'
<1> DEFINE closed == loop.sections \o Mark!NonEmpty(input, loop.first, Len(input))
           first == Len(input) + 1
<1>1. /\ kind = "document" /\ ~done /\ loop.line = Len(input) /\ loop.first <= Len(input)
      /\ kind' = kind /\ input' = input /\ done' = done
      /\ loop' = [loop EXCEPT !.first = first, !.sections = closed]
  BY DEF CloseLast, Running, Pass, Mark!CloseLast
<1>2. Len(input) \in Nat
  BY <1>1, DocumentInput
<1>3. /\ DOMAIN loop = {"line", "first", "sections", "out"}
      /\ loop.first \in 1 .. Len(input)
      /\ loop.out = <<>>
      /\ \A l \in loop.first + 1 .. Len(input) : input[l] # "heading"
  <2>1. LinesAreRead /\ DOMAIN loop = {"line", "first", "sections", "out"}
    BY <1>1 DEF LineLoop
  <2>2. ~(loop.first > Len(input)) /\ loop.first \in 1 .. Len(input)
    BY <1>1, <1>2, <2>1 DEF LinesAreRead
  <2> QED
    BY <1>1, <2>1, <2>2 DEF LinesAreRead
<1>4. /\ loop.sections \in Stretches /\ InOrder(loop.sections)
      /\ \A i \in DOMAIN loop.sections :
           loop.sections[i][2] < loop.first /\ Mark!HasText(input, loop.sections[i][2])
      /\ loop.out \in Stretches /\ InOrder(loop.out)
      /\ \A l \in 1 .. Len(input) : Mark!HasText(input, l) =>
           l >= loop.first \/ Within(loop.sections, l)
  <2>1. SectionsAreInOrder /\ PartsAreInOrder /\ TextIsThere
    BY <1>1 DEF LineLoop
  <2>2. \A l : ~Within(<<>>, l)
    BY DEF Within
  <2> QED
    BY <1>3, <2>1, <2>2 DEF SectionsAreInOrder, PartsAreInOrder, TextIsThere
<1>5. /\ closed \in Stretches /\ InOrder(closed)
      /\ \A i \in DOMAIN closed :
           \/ i \in DOMAIN loop.sections /\ closed[i] = loop.sections[i]
           \/ /\ closed[i][1] \in loop.first .. Len(input)
              /\ closed[i][2] \in loop.first .. Len(input)
              /\ Mark!HasText(input, closed[i][2])
      /\ \A l \in 1 .. Len(input) : Within(loop.sections, l) => Within(closed, l)
      /\ \A l \in loop.first .. Len(input) : Mark!HasText(input, l) => Within(closed, l)
  <2>1. loop.first \in 1 .. Len(input) + 1 /\ Len(input) \in 0 .. Len(input)
    BY <1>2, <1>3
  <2> QED
    BY <1>2, <1>3, <1>4, <2>1, PartAdded
<1> HIDE DEF closed
<1>6. ASSUME NEW i \in DOMAIN closed
      PROVE  closed[i][2] < first /\ Mark!HasText(input, closed[i][2])
  <2>1. CASE i \in DOMAIN loop.sections /\ closed[i] = loop.sections[i]
    <3>1. loop.sections[i][2] < loop.first /\ loop.sections[i][2] \in Int
      BY <1>4, <2>1, LenProperties DEF Stretches
    <3> QED
      BY <1>2, <1>3, <1>4, <2>1, <3>1
  <2>2. CASE closed[i][2] \in loop.first .. Len(input) /\ Mark!HasText(input, closed[i][2])
    BY <1>2, <1>3, <2>2
  <2> QED
    BY <1>5, <2>1, <2>2
<1>7. \A l \in 1 .. Len(input) : Mark!HasText(input, l) => Within(closed, l)
  <2> SUFFICES ASSUME NEW l \in 1 .. Len(input), Mark!HasText(input, l) PROVE Within(closed, l)
    OBVIOUS
  <2>1. ~(l >= loop.first) \/ l \in loop.first .. Len(input)
    BY <1>2, <1>3
  <2> QED
    BY <1>4, <1>5, <2>1
<1>8. first \in 1 .. Len(input) + 1 /\ first > Len(input) /\ Len(input) \in 0 .. Len(input)
  BY <1>2
<1> HIDE DEF first
<1>9. /\ DOMAIN loop' = {"line", "first", "sections", "out"}
      /\ loop'.line = Len(input) /\ loop'.first = first /\ loop'.sections = closed
      /\ loop'.out = loop.out
  BY <1>1, <1>3
<1>10. \A i \in DOMAIN loop.out : FALSE
  BY <1>3
<1> QED
  BY <1>1, <1>2, <1>4, <1>5, <1>6, <1>7, <1>8, <1>9, <1>10, LineLoopNext

(* Another first member.                                                   *)
LEMMA HeadReplaced ==
  ASSUME NEW S, NEW s \in Seq(S), s # <<>>, NEW e \in S
  PROVE  /\ <<e>> \o Tail(s) \in Seq(S) /\ DOMAIN (<<e>> \o Tail(s)) = DOMAIN s
         /\ (<<e>> \o Tail(s))[1] = e
         /\ \A i \in DOMAIN s : i # 1 => (<<e>> \o Tail(s))[i] = s[i]
<1> DEFINE more == <<e>> \o Tail(s)
<1>1. Len(s) \in Nat \ {0} /\ DOMAIN s = 1 .. Len(s)
  BY EmptySeq, LenProperties
<1>2. /\ Tail(s) \in Seq(S) /\ Len(Tail(s)) = Len(s) - 1
      /\ \A i \in 1 .. Len(Tail(s)) : Tail(s)[i] = s[i + 1]
  BY HeadTailProperties
<1>3. <<e>> \in Seq(S) /\ Len(<<e>>) = 1 /\ <<e>>[1] = e
  OBVIOUS
<1>4. /\ more \in Seq(S) /\ Len(more) = Len(<<e>>) + Len(Tail(s))
      /\ \A i \in 1 .. Len(<<e>>) + Len(Tail(s)) :
           more[i] = IF i <= Len(<<e>>) THEN <<e>>[i] ELSE Tail(s)[i - Len(<<e>>)]
  BY <1>2, <1>3, ConcatProperties
<1> HIDE DEF more
<1>5. DOMAIN more = 1 .. Len(s)
  <2>1. DOMAIN more = 1 .. Len(more) /\ Len(more) = Len(s)
    BY <1>1, <1>2, <1>3, <1>4, LenProperties
  <2> QED
    BY <2>1
<1>6. more[1] = e
  BY <1>1, <1>2, <1>3, <1>4
<1>7. \A i \in 1 .. Len(s) : i # 1 => more[i] = s[i]
  <2> SUFFICES ASSUME NEW i \in 1 .. Len(s), i # 1 PROVE more[i] = s[i]
    OBVIOUS
  <2>1. i - 1 \in 1 .. Len(Tail(s)) /\ (i - 1) + 1 = i /\ ~(i <= 1) /\ i \in 1 .. 1 + Len(Tail(s))
    BY <1>1, <1>2
  <2>2. more[i] = Tail(s)[i - 1]
    BY <1>3, <1>4, <2>1
  <2> QED
    BY <1>2, <2>1, <2>2
<1> QED
  BY <1>1, <1>4, <1>5, <1>6, <1>7 DEF more

(* The part that SplitPart appends is within a section and behind the      *)
(* other parts.                                                            *)
LEMMA PartSplit ==
  ASSUME InputStays, kind = "document", SectionsAreInOrder, PartsAreInOrder,
         loop.sections # <<>>, NEW last \in 0 .. Len(input),
         last <= loop.sections[1][2],
         \A l \in loop.sections[1][1] .. last : input[l] # "empty"
  PROVE  LET first == loop.sections[1][1]
             more == loop.out \o Mark!NonEmpty(input, first, last)
         IN /\ more \in Stretches /\ InOrder(more)
            /\ \A i \in DOMAIN more :
                 /\ \A l \in more[i][1] .. more[i][2] : input[l] # "empty"
                 /\ \/ i \in DOMAIN loop.out /\ more[i] = loop.out[i]
                    \/ more[i][2] \in first .. last
            /\ \A l \in 1 .. Len(input) : Within(loop.out, l) => Within(more, l)
            /\ \A l \in first .. last : Mark!HasText(input, l) => Within(more, l)
<1> DEFINE first == loop.sections[1][1]
           more == loop.out \o Mark!NonEmpty(input, first, last)
<1>1. Len(input) \in Nat
  BY DocumentInput
<1>2. /\ loop.sections \in Stretches /\ 1 \in DOMAIN loop.sections
      /\ loop.sections[1] \in (1 .. Len(input)) \X (1 .. Len(input))
      /\ InOrder(loop.sections)
  <2>1. loop.sections \in Seq((1 .. Len(input)) \X (1 .. Len(input))) /\ InOrder(loop.sections)
    BY DEF SectionsAreInOrder, Stretches
  <2>2. Len(loop.sections) \in Nat \ {0} /\ DOMAIN loop.sections = 1 .. Len(loop.sections)
    BY <2>1, EmptySeq, LenProperties
  <2> QED
    BY <2>1, <2>2, ElementOfSeq DEF Stretches
<1>3. first \in 1 .. Len(input) /\ loop.sections[1][2] \in 1 .. Len(input)
  BY <1>2
<1>4. /\ loop.out \in Stretches /\ InOrder(loop.out)
      /\ \A i \in DOMAIN loop.out :
           /\ loop.out[i][2] < first
           /\ \A l \in loop.out[i][1] .. loop.out[i][2] : input[l] # "empty"
  BY <1>2 DEF PartsAreInOrder
<1>5. \A l \in first + 1 .. last : input[l] # "heading"
  <2>1. \A l \in first + 1 .. loop.sections[1][2] : input[l] # "heading"
    BY <1>2 DEF InOrder
  <2> QED
    BY <1>1, <1>3, <2>1
<1> HIDE DEF first
<1>6. /\ more \in Stretches /\ InOrder(more)
      /\ \A i \in DOMAIN more :
           \/ i \in DOMAIN loop.out /\ more[i] = loop.out[i]
           \/ /\ more[i][1] \in first .. last /\ more[i][2] \in first .. last
              /\ Mark!HasText(input, more[i][2])
      /\ \A l \in 1 .. Len(input) : Within(loop.out, l) => Within(more, l)
      /\ \A l \in first .. last : Mark!HasText(input, l) => Within(more, l)
  <2>1. first \in 1 .. Len(input) + 1
    BY <1>1, <1>3
  <2> QED
    BY <1>1, <1>4, <1>5, <2>1, PartAdded
<1> HIDE DEF more
<1>7. \A l \in first .. last : input[l] # "empty"
  BY DEF first
<1>8. ASSUME NEW i \in DOMAIN more
      PROVE  /\ \A l \in more[i][1] .. more[i][2] : input[l] # "empty"
             /\ \/ i \in DOMAIN loop.out /\ more[i] = loop.out[i]
                \/ more[i][2] \in first .. last
  <2>1. CASE i \in DOMAIN loop.out /\ more[i] = loop.out[i]
    BY <1>4, <2>1
  <2>2. CASE more[i][1] \in first .. last /\ more[i][2] \in first .. last
    <3>1. more[i][1] .. more[i][2] \subseteq first .. last
      BY <1>1, <1>3, <2>2
    <3> QED
      BY <1>7, <2>2, <3>1
  <2> QED
    BY <1>6, <2>1, <2>2
<1> QED
  BY <1>6, <1>8 DEF first, more

LEMMA SplitPartKeeps ==
  ASSUME InputStays, LineLoop, SplitPart
  PROVE  LineLoop'
<1> DEFINE section == Head(loop.sections)
           cuts == Mark!EmptyLines(input, section)
           rest == <<Mark!Min(cuts) + 1, section[2]>>
           sections == IF cuts = {} THEN Tail(loop.sections) ELSE <<rest>> \o Tail(loop.sections)
           last == IF cuts = {} THEN section[2] ELSE Mark!Min(cuts) - 1
           out == loop.out \o Mark!NonEmpty(input, section[1], last)
           Lines == 1 .. Len(input)
<1>1. /\ kind = "document" /\ ~done /\ loop.first > Len(input) /\ loop.sections # <<>>
      /\ kind' = kind /\ input' = input /\ done' = done
      /\ loop' = [loop EXCEPT !.sections = sections, !.out = out]
  BY DEF SplitPart, Running, Pass, Mark!SplitPart
<1>2. Len(input) \in Nat
  BY <1>1, DocumentInput
<1>3. /\ DOMAIN loop = {"line", "first", "sections", "out"}
      /\ loop.line = Len(input) /\ loop.first \in 1 .. Len(input) + 1
      /\ SectionsAreInOrder /\ PartsAreInOrder /\ TextIsThere
  BY <1>1 DEF LineLoop, LinesAreRead
<1>4. /\ loop.sections \in Seq(Lines \X Lines) /\ InOrder(loop.sections)
      /\ \A i \in DOMAIN loop.sections :
           loop.sections[i][2] < loop.first /\ Mark!HasText(input, loop.sections[i][2])
  BY <1>3 DEF SectionsAreInOrder, Stretches
<1>5. /\ Len(loop.sections) \in Nat \ {0} /\ DOMAIN loop.sections = 1 .. Len(loop.sections)
      /\ \A i \in 1 .. Len(loop.sections) : loop.sections[i] \in Lines \X Lines
  BY <1>1, <1>4, EmptySeq, LenProperties
<1>6. section = loop.sections[1] /\ section \in Lines \X Lines /\ 1 \in DOMAIN loop.sections
  BY <1>5
<1> HIDE DEF section
<1>7. /\ section[1] \in Lines /\ section[2] \in Lines /\ section[1] <= section[2]
      /\ Mark!HasText(input, section[2])
  BY <1>4, <1>6 DEF InOrder
<1> DEFINE cut == Mark!Min(cuts)
<1>8. cuts # {} => /\ cut \in section[1] .. section[2] /\ cut < section[2]
                   /\ input[cut] = "empty"
                   /\ \A l \in section[1] .. cut - 1 : input[l] # "empty"
  <2> SUFFICES ASSUME cuts # {}
               PROVE  /\ cut \in section[1] .. section[2] /\ cut < section[2]
                      /\ input[cut] = "empty"
                      /\ \A l \in section[1] .. cut - 1 : input[l] # "empty"
    OBVIOUS
  <2>1. \A l : l \in cuts <=> l \in section[1] .. section[2] /\ input[l] = "empty"
    BY DEF Mark!EmptyLines
  <2> HIDE DEF cuts
  <2>2. cuts \in SUBSET Lines
    BY <1>2, <1>7, <2>1
  <2>3. cut \in cuts /\ \A l \in cuts : cut <= l
    <3>1. Len(input) \in Nat /\ cuts \in SUBSET (1 .. Len(input)) /\ cuts # {}
      BY <1>2, <2>2
    <3>2. /\ Cut!Min(cuts) \in cuts /\ \A l \in cuts : Cut!Min(cuts) <= l
          /\ cut = Cut!Min(cuts)
      BY ONLY <3>1, MinMax, Zenon
    <3> QED
      BY ONLY <3>2
  <2> HIDE DEF cut
  <2>4. cut \in section[1] .. section[2] /\ input[cut] = "empty"
    BY <2>1, <2>3
  <2>5. cut # section[2]
    BY <1>7, <2>4 DEF Mark!HasText
  <2>6. ASSUME NEW l \in section[1] .. cut - 1 PROVE input[l] # "empty"
    <3>1. l \in section[1] .. section[2] /\ ~(cut <= l)
      BY <1>7, <2>4
    <3> QED
      BY <2>1, <2>3, <3>1
  <2>7. cut < section[2]
    BY <1>7, <2>4, <2>5
  <2> QED
    BY <2>4, <2>6, <2>7
<1>9. cuts = {} => \A l \in section[1] .. section[2] : input[l] # "empty"
  BY DEF Mark!EmptyLines
<1>10. last = (IF cuts = {} THEN section[2] ELSE cut - 1) /\ rest = <<cut + 1, section[2]>>
  OBVIOUS
<1>11. sections = IF cuts = {} THEN Tail(loop.sections) ELSE <<rest>> \o Tail(loop.sections)
  OBVIOUS
<1> HIDE DEF cut, cuts, rest, last, sections
<1>12. /\ last \in 0 .. Len(input) /\ last <= section[2]
       /\ \A l \in section[1] .. last : input[l] # "empty"
  BY <1>2, <1>7, <1>8, <1>9, <1>10
<1>13. /\ out \in Stretches /\ InOrder(out)
       /\ \A i \in DOMAIN out :
            /\ \A l \in out[i][1] .. out[i][2] : input[l] # "empty"
            /\ \/ i \in DOMAIN loop.out /\ out[i] = loop.out[i]
               \/ out[i][2] \in section[1] .. last
       /\ \A l \in Lines : Within(loop.out, l) => Within(out, l)
       /\ \A l \in section[1] .. last : Mark!HasText(input, l) => Within(out, l)
  BY <1>1, <1>3, <1>6, <1>12, PartSplit
<1> HIDE DEF out
<1>14. /\ DOMAIN loop' = {"line", "first", "sections", "out"}
       /\ loop'.line = Len(input) /\ loop'.first = loop.first
       /\ loop'.sections = sections /\ loop'.out = out
  BY <1>1, <1>3
<1>15. \A i \in DOMAIN loop.out, j \in DOMAIN loop.sections : loop.out[i][2] < loop.sections[j][1]
  BY <1>3 DEF PartsAreInOrder
<1>16. \A l \in Lines : Mark!HasText(input, l) => Within(loop.sections, l) \/ Within(loop.out, l)
  <2>1. \A l \in Lines : ~(l >= loop.first)
    BY <1>1, <1>2, <1>3
  <2> QED
    BY <1>3, <2>1 DEF TextIsThere
<1>17. CASE cuts = {}
  <2>1. /\ sections \in Seq(Lines \X Lines)
        /\ Len(sections) = Len(loop.sections) - 1 /\ DOMAIN sections = 1 .. Len(sections)
        /\ \A i \in 1 .. Len(sections) : sections[i] = loop.sections[i + 1]
    BY <1>1, <1>4, <1>11, <1>17, HeadTailProperties, LenProperties
  <2>2. \A i \in DOMAIN sections :
          /\ i \in Int /\ i + 1 \in DOMAIN loop.sections /\ 1 < i + 1
          /\ sections[i] = loop.sections[i + 1]
    <3> SUFFICES ASSUME NEW i \in 1 .. Len(sections)
                 PROVE  /\ i \in Int /\ i + 1 \in 1 .. Len(loop.sections) /\ 1 < i + 1
                        /\ sections[i] = loop.sections[i + 1]
      BY <1>5, <2>1
    <3>1. i \in Int /\ i + 1 \in 1 .. Len(loop.sections) /\ 1 < i + 1
      BY <1>5, <2>1
    <3> QED
      BY <2>1, <3>1
  <2>3. InOrder(sections)
    <3>1. \A i, j \in DOMAIN sections : i < j => i + 1 < j + 1
      BY <2>2
    <3> QED
      BY <1>4, <2>2, <3>1 DEF InOrder
  <2>4. \A i \in DOMAIN sections :
          sections[i][2] < loop.first /\ Mark!HasText(input, sections[i][2])
    BY <1>4, <2>2
  <2>5. ASSUME NEW i \in DOMAIN out, NEW j \in DOMAIN sections PROVE out[i][2] < sections[j][1]
    <3>1. CASE i \in DOMAIN loop.out /\ out[i] = loop.out[i]
      BY <1>15, <2>2, <3>1
    <3>2. CASE out[i][2] \in section[1] .. last
      <4>1. section[2] < sections[j][1]
        BY <1>4, <1>6, <2>2 DEF InOrder
      <4>2. sections[j][1] \in Lines
        BY <2>1
      <4> QED
        BY <1>7, <1>12, <3>2, <4>1, <4>2
    <3> QED
      BY <1>13, <3>1, <3>2
  <2>6. ASSUME NEW l \in Lines, Mark!HasText(input, l)
        PROVE  Within(sections, l) \/ Within(out, l)
    <3>1. CASE Within(loop.out, l)
      BY <1>13, <3>1
    <3>2. CASE Within(loop.sections, l)
      <4>1. PICK i \in DOMAIN loop.sections : l \in loop.sections[i][1] .. loop.sections[i][2]
        BY <3>2 DEF Within
      <4>2. CASE i = 1
        <5>1. l \in section[1] .. last
          BY <1>6, <1>10, <1>17, <4>1, <4>2
        <5> QED
          BY <1>13, <2>6, <5>1
      <4>3. CASE i # 1
        <5>1. i - 1 \in DOMAIN sections /\ (i - 1) + 1 = i
          BY <1>5, <2>1, <4>3
        <5> QED
          BY <2>2, <4>1, <5>1 DEF Within
      <4> QED
        BY <4>2, <4>3
    <3> QED
      BY <1>16, <2>6, <3>1, <3>2
  <2>7. sections \in Stretches
    BY <2>1 DEF Stretches
  <2> QED
    BY <1>1, <1>2, <1>3, <1>13, <1>14, <2>3, <2>4, <2>5, <2>6, <2>7, LineLoopNext
<1>18. CASE cuts # {}
  <2>1. rest \in Lines \X Lines /\ rest[1] = cut + 1 /\ rest[2] = section[2]
    <3>1. cut + 1 \in Lines
      BY <1>2, <1>7, <1>8, <1>18
    <3> QED
      BY <3>1, <1>7, <1>10
  <2>2. /\ sections \in Seq(Lines \X Lines) /\ DOMAIN sections = DOMAIN loop.sections
        /\ sections[1] = rest
        /\ \A i \in DOMAIN loop.sections : i # 1 => sections[i] = loop.sections[i]
    <3> DEFINE Pairs == Lines \X Lines
               more == <<rest>> \o Tail(loop.sections)
    <3>1. loop.sections \in Seq(Pairs) /\ loop.sections # <<>> /\ rest \in Pairs
      BY <1>1, <1>4, <2>1
    <3>2. sections = more
      BY <1>11, <1>18
    <3> HIDE DEF Pairs
    <3>3. /\ more \in Seq(Pairs) /\ DOMAIN more = DOMAIN loop.sections /\ more[1] = rest
          /\ \A i \in DOMAIN loop.sections : i # 1 => more[i] = loop.sections[i]
      BY <3>1, HeadReplaced
    <3> HIDE DEF more
    <3> QED
      BY <3>2, <3>3 DEF Pairs
  <2>3. /\ section[1] <= cut /\ cut + 1 <= section[2] /\ cut \in Int
        /\ cut + 1 .. section[2] \subseteq section[1] + 1 .. section[2]
    BY <1>7, <1>8, <1>18
  <2>4. \A i \in DOMAIN sections : i \in Int /\ (i # 1 => 1 < i)
    BY <1>5, <2>2
  <2>5. InOrder(sections)
    <3>1. ASSUME NEW i \in DOMAIN sections
          PROVE  /\ sections[i][1] <= sections[i][2]
                 /\ \A l \in sections[i][1] + 1 .. sections[i][2] : input[l] # "heading"
                 /\ \A j \in DOMAIN sections : i < j => sections[i][2] < sections[j][1]
      <4>1. CASE i = 1
        <5>1. sections[i][1] <= sections[i][2]
          BY <2>1, <2>2, <2>3, <4>1
        <5>2. \A l \in section[1] + 1 .. section[2] : input[l] # "heading"
          BY <1>4, <1>6 DEF InOrder
        <5>3. sections[i][1] + 1 .. sections[i][2] \subseteq section[1] + 1 .. section[2]
          BY <1>7, <2>1, <2>2, <2>3, <4>1
        <5>4. ASSUME NEW j \in DOMAIN sections, i < j PROVE sections[i][2] < sections[j][1]
          <6>1. j # 1 /\ sections[j] = loop.sections[j]
            BY <2>2, <2>4, <4>1, <5>4
          <6>2. section[2] < loop.sections[j][1]
            BY <1>4, <1>6, <2>2, <4>1, <5>4 DEF InOrder
          <6> QED
            BY <2>1, <2>2, <4>1, <6>1, <6>2
        <5> QED
          BY <5>1, <5>2, <5>3, <5>4
      <4>2. CASE i # 1
        <5>1. sections[i] = loop.sections[i]
          BY <2>2, <4>2
        <5>2. ASSUME NEW j \in DOMAIN sections, i < j PROVE sections[i][2] < sections[j][1]
          <6>1. j # 1 /\ sections[j] = loop.sections[j]
            BY <2>2, <2>4, <4>2, <5>2
          <6> QED
            BY <1>4, <2>2, <5>1, <5>2, <6>1 DEF InOrder
        <5> QED
          BY <1>4, <2>2, <5>1, <5>2 DEF InOrder
      <4> QED
        BY <4>1, <4>2
    <3> QED
      BY <3>1 DEF InOrder
  <2>6. \A i \in DOMAIN sections :
          sections[i][2] < loop.first /\ Mark!HasText(input, sections[i][2])
    BY <1>4, <1>6, <2>1, <2>2
  <2>7. ASSUME NEW i \in DOMAIN out, NEW j \in DOMAIN sections PROVE out[i][2] < sections[j][1]
    <3>1. loop.sections[j][1] <= sections[j][1] /\ sections[j][1] \in Int
      <4>1. CASE j = 1
        BY <1>6, <1>7, <2>1, <2>2, <2>3, <4>1
      <4>2. CASE j # 1
        BY <1>5, <2>2, <4>2
      <4> QED
        BY <4>1, <4>2
    <3>2. CASE i \in DOMAIN loop.out /\ out[i] = loop.out[i]
      <4>1. out[i][2] < loop.sections[j][1] /\ loop.sections[j][1] \in Int
        BY <1>5, <1>15, <2>2, <3>2
      <4>2. out[i][2] \in Int
        BY <1>13, LenProperties DEF Stretches
      <4> QED
        BY <3>1, <4>1, <4>2
    <3>3. CASE out[i][2] \in section[1] .. last
      <4>1. cut + 1 <= sections[j][1]
        <5>1. CASE j = 1
          BY <2>1, <2>2, <2>3, <5>1
        <5>2. CASE j # 1
          <6>1. section[2] < loop.sections[j][1] /\ sections[j] = loop.sections[j]
            BY <1>4, <1>6, <2>2, <2>4, <5>2 DEF InOrder
          <6> QED
            BY <1>7, <2>3, <3>1, <6>1
        <5> QED
          BY <5>1, <5>2
      <4>2. last = cut - 1
        BY <1>10, <1>18
      <4> QED
        BY <1>7, <2>3, <3>1, <3>3, <4>1, <4>2
    <3> QED
      BY <1>13, <3>2, <3>3
  <2>8. ASSUME NEW l \in Lines, Mark!HasText(input, l)
        PROVE  Within(sections, l) \/ Within(out, l)
    <3>1. CASE Within(loop.out, l)
      BY <1>13, <3>1
    <3>2. CASE Within(loop.sections, l)
      <4>1. PICK i \in DOMAIN loop.sections : l \in loop.sections[i][1] .. loop.sections[i][2]
        BY <3>2 DEF Within
      <4>2. CASE i = 1
        <5>1. l # cut
          BY <1>8, <1>18, <2>8 DEF Mark!HasText
        <5>2. l \in section[1] .. last \/ l \in rest[1] .. rest[2]
          BY <1>6, <1>7, <1>10, <1>18, <2>1, <2>3, <4>1, <4>2, <5>1
        <5> QED
          BY <1>6, <1>13, <2>2, <2>8, <5>2 DEF Within
      <4>3. CASE i # 1
        BY <2>2, <4>1, <4>3 DEF Within
      <4> QED
        BY <4>2, <4>3
    <3> QED
      BY <1>16, <2>8, <3>1, <3>2
  <2>9. sections \in Stretches
    BY <2>2 DEF Stretches
  <2> QED
    BY <1>1, <1>2, <1>3, <1>13, <1>14, <2>5, <2>6, <2>7, <2>8, <2>9, LineLoopNext
<1> QED
  BY <1>17, <1>18

LEMMA LineInv == Spec => [](InputStays /\ LineLoop)
<1>1. Init => LineLoop
  <2> SUFFICES ASSUME Init, kind = "document" PROVE LineLoop
    BY DEF LineLoop
  <2>1. loop = [line |-> 0, first |-> 1, sections |-> <<>>, out |-> <<>>] /\ ~done
    BY DEF Init, BeforeLoop
  <2>2. InputStays
    BY DEF Init, InputStays
  <2>3. Len(input) \in Nat /\ Len(input) > 0
    BY <2>2, DocumentInput
  <2>4. /\ DOMAIN loop = {"line", "first", "sections", "out"}
        /\ loop.line = 0 /\ loop.first = 1 /\ loop.sections = <<>> /\ loop.out = <<>>
    BY <2>1
  <2>5. <<>> \in Stretches /\ InOrder(<<>>)
    BY EmptySeq DEF Stretches, InOrder
  <2>6. LinesAreRead
    BY <2>3, <2>4 DEF LinesAreRead
  <2>7. SectionsAreInOrder /\ PartsAreInOrder
    BY <2>4, <2>5 DEF SectionsAreInOrder, PartsAreInOrder
  <2>8. TextIsThere
    BY <2>3, <2>4 DEF TextIsThere
  <2> QED
    BY <2>1, <2>4, <2>6, <2>7, <2>8 DEF LineLoop
<1>2. InputStays /\ LineLoop /\ [Next]_vars => LineLoop'
  <2> SUFFICES ASSUME InputStays, LineLoop, [Next]_vars, kind = "document" PROVE LineLoop'
    BY StepsOfKind DEF LineLoop
  <2> USE DEF LinesAreRead, SectionsAreInOrder, PartsAreInOrder, TextIsThere, Stretches, InOrder,
              Within, Mark!HasText
  <2>1. CASE ReadLine
    BY <2>1, ReadLineKeeps
  <2>2. CASE CloseLast
    BY <2>2, CloseLastKeeps
  <2>3. CASE SplitPart
    BY <2>3, SplitPartKeeps
  <2>4. CASE SplitUp
    <3>1. UNCHANGED <<kind, input, loop>> /\ output' = loop.out
          /\ loop.first > Len(input) /\ loop.sections = <<>>
      BY <2>4 DEF SplitUp, Return
    <3> QED
      BY <3>1 DEF LineLoop
  <2>5. CASE UNCHANGED vars
    BY <2>5 DEF vars, LineLoop
  <2> QED
    BY <2>1, <2>2, <2>3, <2>4, <2>5, StepsOfKind
<1> QED
  BY <1>1, <1>2, ResultInv, PTL DEF Spec

(* What the loops leave is what the paragraphs of a document are to be.    *)
LEMMA ParagraphsAreRight ==
  ASSUME InputStays, LineLoop, Done("document")
  PROVE  NoLineLost /\ OrderIsKept /\ HeadingBeginsParagraph /\ EmptyLineSeparates
<1>1. /\ kind = "document" /\ done /\ Len(input) \in Nat /\ DOMAIN input = 1 .. Len(input)
      /\ output = loop.out /\ loop.sections = <<>> /\ loop.first > Len(input)
      /\ loop.first \in 1 .. Len(input) + 1
      /\ PartsAreInOrder /\ TextIsThere
  BY DocumentInput DEF Done, LineLoop, LinesAreRead
<1>2. /\ output \in Stretches /\ InOrder(output)
      /\ \A i \in DOMAIN output :
           \A line \in output[i][1] .. output[i][2] : input[line] # "empty"
  BY <1>1 DEF PartsAreInOrder
<1>3. \A i \in DOMAIN output : output[i][1] \in 1 .. Len(input) /\ output[i][2] \in 1 .. Len(input)
  BY <1>2, LenProperties DEF Stretches
<1>4. NoLineLost
  <2> SUFFICES ASSUME NEW line \in 1 .. Len(input), Mark!HasText(input, line)
               PROVE  \E p \in DOMAIN output : output[p][1] <= line /\ line <= output[p][2]
    BY <1>1 DEF NoLineLost
  <2>1. ~(line >= loop.first) /\ ~Within(loop.sections, line)
    BY <1>1 DEF Within
  <2>2. Within(output, line)
    BY <1>1, <2>1 DEF TextIsThere
  <2> QED
    BY <2>2, <1>3 DEF Within
<1>5. OrderIsKept
  BY <1>1, <1>2, <1>3 DEF InOrder, OrderIsKept
<1>6. HeadingBeginsParagraph /\ EmptyLineSeparates
  BY <1>2 DEF InOrder, HeadingBeginsParagraph, EmptyLineSeparates
<1> QED
  BY <1>4, <1>5, <1>6

(* Whatever a document holds, and however large a chunk may be.            *)
THEOREM ChunksAreRight == Spec => []ChunksCarryDocument
<1>1. InputStays /\ WindowLoop /\ LineLoop => ChunksCarryDocument
  <2>1. ~Done("paragraph") => NothingLost /\ PhraseIsWhole /\ ChunkIsSmall /\ NoWindowInside
    BY DEF NothingLost, PhraseIsWhole, ChunkIsSmall, NoWindowInside
  <2>2. ~Done("document") =>
          NoLineLost /\ OrderIsKept /\ HeadingBeginsParagraph /\ EmptyLineSeparates
    BY DEF NoLineLost, OrderIsKept, HeadingBeginsParagraph, EmptyLineSeparates
  <2> QED
    BY <2>1, <2>2, WindowsAreRight, ParagraphsAreRight DEF ChunksCarryDocument
<1> QED
  BY <1>1, WindowInv, LineInv, PTL
-----------------------------------------------------------------------------
(* A set of numbers in its order. *)

LEMMA SameCardinality == \A S : Rules!Cardinality(S) = Cardinality(S)
BY DEF Rules!Cardinality, Cardinality

LEMMA UpToIsFinite ==
  ASSUME NEW b \in Nat, NEW S \in SUBSET (0 .. b)
  PROVE  IsFiniteSet(S) /\ Cardinality(S) \in Nat
<1>1. IsFiniteSet(0 .. b)
  BY FS_Interval
<1> QED
  BY <1>1, FS_Subset, FS_CardinalityType

LEMMA RankRises ==
  ASSUME NEW b \in Nat, NEW S \in SUBSET (0 .. b)
  PROVE  /\ \A i \in S : Rules!Rank(S, i) \in 1 .. Cardinality(S)
         /\ \A i, j \in S : i < j => Rules!Rank(S, i) < Rules!Rank(S, j)
<1> DEFINE Upto(i) == {j \in S : j <= i}
<1>1. \A i : Rules!Rank(S, i) = Cardinality(Upto(i)) /\ Upto(i) \in SUBSET S
  BY SameCardinality DEF Rules!Rank
<1>2. \A i \in S : i \in Int /\ i \in Upto(i)
  OBVIOUS
<1>3. ASSUME NEW i \in S, NEW j \in S, i < j
      PROVE  Upto(i) \in SUBSET Upto(j) /\ j \notin Upto(i)
  <2>1. \A k \in S : k \in Int
    OBVIOUS
  <2>2. ~(j <= i) /\ \A k \in S : k <= i => k <= j
    BY <1>3, <2>1
  <2> QED
    BY <2>2
<1> HIDE DEF Upto
<1>4. IsFiniteSet(S) /\ \A i : IsFiniteSet(Upto(i)) /\ Cardinality(Upto(i)) \in Nat
  <2>1. IsFiniteSet(S)
    BY UpToIsFinite
  <2> QED
    BY <1>1, <2>1, FS_Subset, FS_CardinalityType
<1>5. ASSUME NEW i \in S PROVE Rules!Rank(S, i) \in 1 .. Cardinality(S)
  <2>1. Cardinality(Upto(i)) <= Cardinality(S) /\ Cardinality(S) \in Nat
    BY <1>1, <1>4, FS_Subset, FS_CardinalityType
  <2>2. Cardinality(Upto(i)) # 0
    BY <1>2, <1>4, FS_EmptySet
  <2> QED
    BY <1>1, <1>4, <2>1, <2>2
<1>6. ASSUME NEW i \in S, NEW j \in S, i < j PROVE Rules!Rank(S, i) < Rules!Rank(S, j)
  <2>1. Upto(i) \in SUBSET Upto(j) /\ Upto(i) # Upto(j)
    BY <1>2, <1>3, <1>6
  <2>2. Cardinality(Upto(i)) <= Cardinality(Upto(j)) /\ Cardinality(Upto(i)) # Cardinality(Upto(j))
    BY <1>4, <2>1, FS_Subset
  <2> QED
    BY <1>1, <1>4, <2>2
<1> QED
  BY <1>5, <1>6

LEMMA NthIsThere ==
  ASSUME NEW b \in Nat, NEW S \in SUBSET (0 .. b)
  PROVE  /\ Cardinality(S) \in Nat
         /\ \A n \in 1 .. Cardinality(S) :
              Rules!Nth(S, n) \in S /\ Rules!Rank(S, Rules!Nth(S, n)) = n
         /\ \A i \in S : Rules!Nth(S, Rules!Rank(S, i)) = i
<1> DEFINE size == Cardinality(S)
           f == [i \in S |-> Rules!Rank(S, i)]
<1>1. IsFiniteSet(S) /\ size \in Nat
  BY UpToIsFinite
<1>2. IsFiniteSet(1 .. size) /\ Cardinality(1 .. size) = size
  <2> HIDE DEF size
  <2>1. Cardinality(1 .. size) = IF 1 <= size THEN size - 1 + 1 ELSE 0
    BY <1>1, FS_Interval
  <2>2. (IF 1 <= size THEN size - 1 + 1 ELSE 0) = size
    BY <1>1
  <2> QED
    BY <1>1, <2>1, <2>2, FS_Interval
<1> HIDE DEF size, f
<1>9. /\ \A i \in S : i \in Int /\ Rules!Rank(S, i) \in 1 .. size
      /\ \A i, j \in S : i < j => Rules!Rank(S, i) < Rules!Rank(S, j)
  <2>1. \A i \in S : i \in Int
    OBVIOUS
  <2> QED
    BY <2>1, RankRises DEF size
<1>3. \A i, j \in S : Rules!Rank(S, i) = Rules!Rank(S, j) => i = j
  <2> SUFFICES ASSUME NEW i \in S, NEW j \in S, i # j
               PROVE  Rules!Rank(S, i) # Rules!Rank(S, j)
    OBVIOUS
  <2>1. i < j \/ j < i
    BY <1>9
  <2>2. Rules!Rank(S, i) \in Int /\ Rules!Rank(S, j) \in Int
    BY <1>9
  <2>3. Rules!Rank(S, i) < Rules!Rank(S, j) \/ Rules!Rank(S, j) < Rules!Rank(S, i)
    BY <2>1, <1>9
  <2> QED
    BY <2>2, <2>3
<1>4. f \in Injection(S, 1 .. size)
  <2>1. f \in [S -> 1 .. size]
    BY <1>9 DEF f
  <2>2. \A i, j \in S : f[i] = f[j] => i = j
    BY <1>3 DEF f
  <2> QED
    BY <2>1, <2>2 DEF Injection, IsInjective
<1>5. f \in Surjection(S, 1 .. size)
  <2>1. Cardinality(S) = Cardinality(1 .. size)
    BY <1>2 DEF size
  <2> QED
    BY <1>2, <1>4, <2>1, FS_Injection
<1>6. \A n \in 1 .. size : \E i \in S : Rules!Rank(S, i) = n
  <2>1. \A n \in 1 .. size : \E i \in S : f[i] = n
    BY <1>5 DEF Surjection
  <2> QED
    BY <2>1 DEF f
<1>7. \A n \in 1 .. size : Rules!Nth(S, n) \in S /\ Rules!Rank(S, Rules!Nth(S, n)) = n
  BY <1>6 DEF Rules!Nth
<1>8. ASSUME NEW i \in S PROVE Rules!Nth(S, Rules!Rank(S, i)) = i
  <2>1. Rules!Rank(S, i) \in 1 .. size
    BY <1>9
  <2> QED
    BY <1>3, <1>7, <2>1
<1> QED
  BY <1>1, <1>7, <1>8 DEF size

LEMMA NthRises ==
  ASSUME NEW b \in Nat, NEW S \in SUBSET (0 .. b)
  PROVE  /\ \A n, m \in 1 .. Cardinality(S) : n < m => Rules!Nth(S, n) < Rules!Nth(S, m)
         /\ \A n \in 1 .. Cardinality(S) : n + 1 \in 1 .. Cardinality(S) =>
              \A x \in S : ~(Rules!Nth(S, n) < x /\ x < Rules!Nth(S, n + 1))
<1> DEFINE size == Cardinality(S)
<1>1. /\ \A i \in S : i \in Int /\ Rules!Rank(S, i) \in 1 .. size
      /\ \A i, j \in S : i < j => Rules!Rank(S, i) < Rules!Rank(S, j)
  <2>1. \A i \in S : i \in Int
    OBVIOUS
  <2> QED
    BY <2>1, RankRises
<1>2. /\ size \in Nat
      /\ \A n \in 1 .. size : Rules!Nth(S, n) \in S /\ Rules!Rank(S, Rules!Nth(S, n)) = n
  BY NthIsThere
<1> HIDE DEF size
<1>3. ASSUME NEW n \in 1 .. size, NEW m \in 1 .. size, n < m
      PROVE  Rules!Nth(S, n) < Rules!Nth(S, m)
  <2> DEFINE i == Rules!Nth(S, n)
             j == Rules!Nth(S, m)
  <2>1. i \in S /\ j \in S /\ Rules!Rank(S, i) = n /\ Rules!Rank(S, j) = m
    BY <1>2
  <2> HIDE DEF i, j
  <2>2. ~(m < n) /\ m # n
    BY <1>3
  <2>3. ~(j < i) /\ i # j
    BY <1>1, <2>1, <2>2
  <2>4. i < j
    BY <1>1, <2>1, <2>3
  <2> QED
    BY <2>4 DEF i, j
<1>4. ASSUME NEW n \in 1 .. size, n + 1 \in 1 .. size, NEW x \in S,
             Rules!Nth(S, n) < x, x < Rules!Nth(S, n + 1)
      PROVE  FALSE
  <2> DEFINE i == Rules!Nth(S, n)
             j == Rules!Nth(S, n + 1)
  <2>1. i \in S /\ Rules!Rank(S, i) = n /\ j \in S /\ Rules!Rank(S, j) = n + 1 /\ i < x /\ x < j
    BY <1>2, <1>4
  <2> HIDE DEF i, j
  <2>2. n < Rules!Rank(S, x) /\ Rules!Rank(S, x) < n + 1 /\ Rules!Rank(S, x) \in Int
    BY <1>1, <1>4, <2>1
  <2> QED
    BY <2>2
<1> QED
  BY <1>3, <1>4 DEF size

(* The first and the last member.                                          *)
LEMMA NthEnds ==
  ASSUME NEW b \in Nat, NEW S \in SUBSET (0 .. b), NEW low \in S, NEW high \in S,
         \A x \in S : low <= x /\ x <= high
  PROVE  /\ Cardinality(S) \in Nat /\ Cardinality(S) > 0
         /\ Rules!Nth(S, 1) = low /\ Rules!Nth(S, Cardinality(S)) = high
<1> DEFINE size == Cardinality(S)
<1>1. /\ size \in Nat
      /\ \A n \in 1 .. size : Rules!Nth(S, n) \in S
      /\ \A i \in S : Rules!Nth(S, Rules!Rank(S, i)) = i
  BY NthIsThere
<1>2. \A i \in S : i \in Int /\ Rules!Rank(S, i) \in 1 .. size
  <2>1. \A i \in S : i \in Int
    OBVIOUS
  <2> QED
    BY <2>1, RankRises
<1>3. \A n, m \in 1 .. size : n < m => Rules!Nth(S, n) < Rules!Nth(S, m)
  BY NthRises
<1> HIDE DEF size
<1>4. size > 0 /\ 1 \in 1 .. size /\ size \in 1 .. size
  <2>1. Rules!Rank(S, low) \in 1 .. size
    BY <1>2
  <2> QED
    BY <1>1, <2>1
<1>5. Rules!Nth(S, 1) = low
  <2> DEFINE r == Rules!Rank(S, low)
             first == Rules!Nth(S, 1)
  <2>1. r \in 1 .. size /\ Rules!Nth(S, r) = low /\ first \in S /\ low <= first
    BY <1>1, <1>2, <1>4
  <2>2. 1 < r => first < low
    BY <1>3, <1>4, <2>1
  <2> HIDE DEF r, first
  <2>3. low \in Int /\ first \in Int
    BY <1>2, <2>1
  <2>4. r = 1
    BY <2>1, <2>2, <2>3
  <2> QED
    BY <2>1, <2>4
<1>6. Rules!Nth(S, size) = high
  <2> DEFINE r == Rules!Rank(S, high)
             last == Rules!Nth(S, size)
  <2>1. r \in 1 .. size /\ Rules!Nth(S, r) = high /\ last \in S /\ last <= high
    BY <1>1, <1>2, <1>4
  <2>2. r < size => high < last
    BY <1>3, <1>4, <2>1
  <2> HIDE DEF r, last
  <2>3. high \in Int /\ last \in Int
    BY <1>2, <2>1
  <2>4. r = size
    BY <1>1, <2>1, <2>2, <2>3
  <2> QED
    BY <2>1, <2>4
<1> QED
  BY <1>1, <1>4, <1>5, <1>6 DEF size
-----------------------------------------------------------------------------
(* The hosts. *)

(* What a host, an entry and their lower case are made of.                 *)
Character == STRING \cup {".", "a"}

(* What is known of a host's dots and labels.                              *)
LEMMA LabelsAre ==
  ASSUME NEW host \in Seq(Character)
  PROVE  LET dots == Rules!Dots(host)
             size == Cardinality(dots)
         IN /\ dots \in SUBSET (0 .. Len(host) + 1)
            /\ \A p \in 1 .. Len(host) : p \in dots <=> host[p] = "."
            /\ size \in Nat /\ size > 1
            /\ Rules!Nth(dots, 1) = 0 /\ Rules!Nth(dots, size) = Len(host) + 1
            /\ DOMAIN Rules!Labels(host) = 1 .. size - 1
            /\ Len(Rules!Labels(host)) = size - 1
            /\ \A n \in 1 .. size - 1 : Rules!Labels(host)[n] = Rules!LabelAt(host, n)
<1> DEFINE dots == Rules!Dots(host)
           size == Cardinality(dots)
<1>1. Len(host) \in Nat /\ DOMAIN host = 1 .. Len(host)
  BY LenProperties
<1>2. /\ dots \in SUBSET (0 .. Len(host) + 1) /\ 0 \in dots /\ Len(host) + 1 \in dots
      /\ \A p \in 1 .. Len(host) : p \in dots <=> host[p] = "."
  BY <1>1 DEF Rules!Dots
<1>3. \A x \in dots : 0 <= x /\ x <= Len(host) + 1
  BY <1>1, <1>2
<1> HIDE DEF dots
<1>4. /\ size \in Nat /\ size > 0
      /\ Rules!Nth(dots, 1) = 0 /\ Rules!Nth(dots, size) = Len(host) + 1
  <2>1. Len(host) + 1 \in Nat
    BY <1>1
  <2> QED
    BY <1>2, <1>3, <2>1, NthEnds
<1>5. size # 1
  <2>1. 0 # Len(host) + 1
    BY <1>1
  <2> QED
    BY <1>4, <2>1
<1>6. Rules!Labels(host) = [n \in 1 .. size - 1 |-> Rules!LabelAt(host, n)]
  BY SameCardinality DEF Rules!Labels, dots
<1> HIDE DEF size
<1>7. size - 1 \in Nat /\ size > 1
  BY <1>4, <1>5
<1>8. /\ DOMAIN Rules!Labels(host) = 1 .. size - 1 /\ Len(Rules!Labels(host)) = size - 1
      /\ \A n \in 1 .. size - 1 : Rules!Labels(host)[n] = Rules!LabelAt(host, n)
  BY <1>6, <1>7
<1> QED
  BY <1>2, <1>4, <1>7, <1>8 DEF size, dots

LEMMA LabelHas ==
  ASSUME NEW host \in Seq(Character), NEW n \in 1 .. Cardinality(Rules!Dots(host)) - 1
  PROVE  LET from == Rules!Nth(Rules!Dots(host), n)
             to == Rules!Nth(Rules!Dots(host), n + 1)
         IN /\ from \in Rules!Dots(host) /\ to \in Rules!Dots(host)
            /\ from \in 0 .. Len(host) /\ to \in 1 .. Len(host) + 1 /\ from < to
            /\ Rules!LabelAt(host, n) \in Seq(Character)
            /\ Len(Rules!LabelAt(host, n)) = to - from - 1
            /\ DOMAIN Rules!LabelAt(host, n) = 1 .. to - from - 1
            /\ \A i \in 1 .. to - from - 1 :
                 Rules!LabelAt(host, n)[i] = host[from + i] /\ host[from + i] # "."
<1> DEFINE dots == Rules!Dots(host)
           size == Cardinality(dots)
           from == Rules!Nth(dots, n)
           to == Rules!Nth(dots, n + 1)
           label == SubSeq(host, from + 1, to - 1)
<1>1. Len(host) \in Nat /\ \A i \in 1 .. Len(host) : host[i] \in Character
  BY LenProperties
<1>2. /\ dots \in SUBSET (0 .. Len(host) + 1) /\ size \in Nat
      /\ \A p \in 1 .. Len(host) : p \in dots <=> host[p] = "."
  BY LabelsAre
<1>3. n \in 1 .. size /\ n + 1 \in 1 .. size /\ n < n + 1 /\ Len(host) + 1 \in Nat
  BY <1>1, <1>2
<1> HIDE DEF dots
<1>4. /\ from \in dots /\ to \in dots /\ from < to
      /\ \A x \in dots : ~(from < x /\ x < to)
  BY <1>2, <1>3, NthIsThere, NthRises
<1> HIDE DEF from, to
<1>5. from \in 0 .. Len(host) /\ to \in 1 .. Len(host) + 1
  BY <1>1, <1>2, <1>4
<1>6. /\ label \in Seq(Character)
      /\ Len(label) = IF from + 1 <= to - 1 THEN (to - 1) - (from + 1) + 1 ELSE 0
      /\ \A i \in 1 .. (to - 1) - (from + 1) + 1 : label[i] = host[(from + 1) + i - 1]
  <2>1. from + 1 \in Int /\ to - 1 \in Int /\ \A i \in from + 1 .. to - 1 : host[i] \in Character
    BY <1>1, <1>5
  <2> QED
    BY <2>1, SubSeqProperties
<1>7. DOMAIN label = 1 .. Len(label)
  BY <1>6, LenProperties
<1> HIDE DEF label
<1>8. Len(label) = to - from - 1
  BY <1>4, <1>5, <1>6
<1>9. ASSUME NEW i \in 1 .. to - from - 1
      PROVE  label[i] = host[from + i] /\ host[from + i] # "."
  <2>1. i \in 1 .. (to - 1) - (from + 1) + 1 /\ (from + 1) + i - 1 = from + i
    BY <1>5
  <2>2. from + i \in 1 .. Len(host) /\ from < from + i /\ from + i < to
    BY <1>1, <1>5
  <2> QED
    BY <1>2, <1>4, <1>6, <2>1, <2>2
<1>10. Rules!LabelAt(host, n) = label
  BY DEF Rules!LabelAt, label, from, to, dots
<1> QED
  BY <1>4, <1>5, <1>6, <1>7, <1>8, <1>9, <1>10 DEF from, to, dots

LEMMA SuffixIs ==
  ASSUME NEW s \in Seq(Character), NEW t \in Seq(Character)
  PROVE  Rules!IsSuffix(s, t) <=>
           Len(s) <= Len(t) /\ \A i \in 1 .. Len(s) : s[i] = t[Len(t) - Len(s) + i]
<1> DEFINE r == Rules!Reverse(s)
           q == Rules!Reverse(t)
           a == Len(s)
           b == Len(t)
<1>1. /\ a \in Nat /\ \A i \in 1 .. a : s[i] \in Character
      /\ b \in Nat /\ \A i \in 1 .. b : t[i] \in Character
  BY LenProperties
<1>2. r = [i \in 1 .. a |-> s[(a - i) + 1]] /\ q = [i \in 1 .. b |-> t[(b - i) + 1]]
  BY DEF Rules!Reverse
<1> HIDE DEF r, q, a, b
<1>3. /\ Len(r) = a /\ \A i \in 1 .. a : r[i] = s[(a - i) + 1]
      /\ Len(q) = b /\ \A i \in 1 .. b : q[i] = t[(b - i) + 1]
  BY <1>1, <1>2
<1>4. \A i \in 1 .. a : r[i] \in Character
  <2> SUFFICES ASSUME NEW i \in 1 .. a PROVE r[i] \in Character
    OBVIOUS
  <2>1. (a - i) + 1 \in 1 .. a
    BY <1>1
  <2> QED
    BY <1>1, <1>3, <2>1
<1>5. \A i \in 1 .. b : q[i] \in Character
  <2> SUFFICES ASSUME NEW i \in 1 .. b PROVE q[i] \in Character
    OBVIOUS
  <2>1. (b - i) + 1 \in 1 .. b
    BY <1>1
  <2> QED
    BY <1>1, <1>3, <2>1
<1>6. Rules!IsSuffix(s, t) <=> a <= b /\ SubSeq(r, 1, a) = SubSeq(q, 1, a)
  BY <1>3 DEF Rules!IsSuffix, Rules!IsPrefix, r, q
<1>7. CASE a <= b
  <2>1. /\ SubSeq(r, 1, a) \in Seq(Character)
        /\ Len(SubSeq(r, 1, a)) = IF 1 <= a THEN a - 1 + 1 ELSE 0
        /\ \A i \in 1 .. a - 1 + 1 : SubSeq(r, 1, a)[i] = r[1 + i - 1]
    <3>1. 1 \in Int /\ a \in Int
      BY <1>1
    <3> QED
      BY <1>4, <3>1, SubSeqProperties
  <2>2. /\ SubSeq(q, 1, a) \in Seq(Character)
        /\ Len(SubSeq(q, 1, a)) = IF 1 <= a THEN a - 1 + 1 ELSE 0
        /\ \A i \in 1 .. a - 1 + 1 : SubSeq(q, 1, a)[i] = q[1 + i - 1]
    <3>1. 1 \in Int /\ a \in Int /\ \A i \in 1 .. a : q[i] \in Character
      BY <1>1, <1>5, <1>7
    <3> QED
      BY <3>1, SubSeqProperties
  <2>3. a - 1 + 1 = a /\ (IF 1 <= a THEN a - 1 + 1 ELSE 0) = a
    BY <1>1
  <2>4. \A i \in 1 .. a : 1 + i - 1 = i
    BY <1>1
  <2> DEFINE u == SubSeq(r, 1, a)
             v == SubSeq(q, 1, a)
  <2>5. /\ u \in Seq(Character) /\ Len(u) = a /\ \A i \in 1 .. a : u[i] = r[i]
        /\ v \in Seq(Character) /\ Len(v) = a /\ \A i \in 1 .. a : v[i] = q[i]
    BY <2>1, <2>2, <2>3, <2>4
  <2> HIDE DEF u, v
  <2>6. u = v <=> \A i \in 1 .. a : r[i] = q[i]
    <3>1. ASSUME \A i \in 1 .. a : r[i] = q[i] PROVE u = v
      BY <2>5, <3>1, SeqEqual
    <3>2. ASSUME u = v PROVE \A i \in 1 .. a : r[i] = q[i]
      BY <2>5, <3>2
    <3> QED
      BY <3>1, <3>2
  <2>7. (\A i \in 1 .. a : r[i] = q[i]) <=> \A i \in 1 .. a : s[i] = t[b - a + i]
    <3>1. ASSUME \A i \in 1 .. a : r[i] = q[i], NEW i \in 1 .. a PROVE s[i] = t[b - a + i]
      <4>1. (a - i) + 1 \in 1 .. a /\ (a - i) + 1 \in 1 .. b
            /\ (a - ((a - i) + 1)) + 1 = i /\ (b - ((a - i) + 1)) + 1 = b - a + i
        BY <1>1, <1>7
      <4>2. r[(a - i) + 1] = q[(a - i) + 1]
        BY ONLY <3>1, <4>1
      <4>3. /\ r[(a - i) + 1] = s[(a - ((a - i) + 1)) + 1]
            /\ q[(a - i) + 1] = t[(b - ((a - i) + 1)) + 1]
        BY ONLY <1>3, <4>1
      <4> QED
        BY ONLY <4>1, <4>2, <4>3
    <3>2. ASSUME \A i \in 1 .. a : s[i] = t[b - a + i], NEW i \in 1 .. a PROVE r[i] = q[i]
      <4>1. (a - i) + 1 \in 1 .. a /\ i \in 1 .. b /\ b - a + ((a - i) + 1) = (b - i) + 1
        BY <1>1, <1>7
      <4>2. s[(a - i) + 1] = t[b - a + ((a - i) + 1)]
        BY <3>2, <4>1
      <4>3. r[i] = s[(a - i) + 1] /\ q[i] = t[(b - i) + 1]
        BY <1>3, <4>1
      <4> QED
        BY <4>1, <4>2, <4>3
    <3> QED
      BY <3>1, <3>2
  <2> QED
    BY <1>6, <1>7, <2>6, <2>7 DEF u, v, a, b
<1>8. CASE ~(a <= b)
  BY <1>6, <1>8 DEF a, b
<1> QED
  BY <1>7, <1>8

(* An entry ends a host, at the beginning of a label.                      *)
EndsAtLabel(entry, host) ==
  LET rest == Len(host) - Len(entry)
  IN /\ rest >= 0 /\ (rest > 0 => host[rest] = ".")
     /\ \A i \in 1 .. Len(entry) : entry[i] = host[rest + i]

LEMMA MatchIsAtLabel ==
  ASSUME NEW host \in Seq(Character), NEW entry \in Seq(Character)
  PROVE  Rules!MatchesEntry(host, entry) <=> EndsAtLabel(entry, host)
<1> DEFINE dotted == <<".">> \o entry
           rest == Len(host) - Len(entry)
<1>1. Len(host) \in Nat /\ Len(entry) \in Nat
  BY LenProperties
<1>2. /\ dotted \in Seq(Character) /\ Len(dotted) = 1 + Len(entry)
      /\ dotted[1] = "." /\ \A i \in 1 .. Len(entry) : dotted[i + 1] = entry[i]
  <2>1. <<".">> \in Seq(Character) /\ Len(<<".">>) = 1 /\ <<".">>[1] = "."
    <3>1. "." \in Character
      BY DEF Character
    <3> QED
      BY <3>1
  <2>2. /\ dotted \in Seq(Character) /\ Len(dotted) = 1 + Len(entry)
        /\ \A i \in 1 .. 1 + Len(entry) : dotted[i] = IF i <= 1 THEN <<".">>[i] ELSE entry[i - 1]
    BY <2>1, ConcatProperties
  <2> HIDE DEF dotted
  <2>3. dotted[1] = "."
    BY <1>1, <2>1, <2>2
  <2>4. ASSUME NEW i \in 1 .. Len(entry) PROVE dotted[i + 1] = entry[i]
    <3>1. i + 1 \in 1 .. 1 + Len(entry) /\ ~(i + 1 <= 1) /\ (i + 1) - 1 = i
      BY <1>1
    <3> QED
      BY <2>2, <3>1
  <2> QED
    BY <2>2, <2>3, <2>4
<1> HIDE DEF dotted
<1>3. Rules!IsSuffix(dotted, host) <=>
         /\ Len(dotted) <= Len(host)
         /\ \A i \in 1 .. Len(dotted) : dotted[i] = host[Len(host) - Len(dotted) + i]
  BY <1>2, SuffixIs
<1>4. Rules!IsSuffix(dotted, host) <=>
        rest > 0 /\ host[rest] = "." /\ \A i \in 1 .. Len(entry) : entry[i] = host[rest + i]
  <2>1. CASE ~(rest > 0)
    BY <1>1, <1>2, <1>3, <2>1
  <2>2. CASE rest > 0
    <3>1. Len(dotted) <= Len(host) /\ Len(host) - Len(dotted) + 1 = rest
      BY <1>1, <1>2, <2>2
    <3>2. \A i \in 1 .. Len(entry) :
            i + 1 \in 1 .. Len(dotted) /\ Len(host) - Len(dotted) + (i + 1) = rest + i
      BY <1>1, <1>2
    <3>3. ASSUME \A i \in 1 .. Len(dotted) : dotted[i] = host[Len(host) - Len(dotted) + i]
          PROVE  host[rest] = "." /\ \A i \in 1 .. Len(entry) : entry[i] = host[rest + i]
      <4>1. 1 \in 1 .. Len(dotted)
        BY <1>1, <1>2
      <4>2. host[rest] = "."
        BY <1>2, <3>1, <3>3, <4>1
      <4>3. \A i \in 1 .. Len(entry) : entry[i] = host[rest + i]
        BY <1>2, <3>2, <3>3
      <4> QED
        BY <4>2, <4>3
    <3>4. ASSUME host[rest] = ".", \A i \in 1 .. Len(entry) : entry[i] = host[rest + i],
                 NEW i \in 1 .. Len(dotted)
          PROVE  dotted[i] = host[Len(host) - Len(dotted) + i]
      <4>1. CASE i = 1
        BY <1>2, <3>1, <3>4, <4>1
      <4>2. CASE i # 1
        <5>1. /\ i - 1 \in 1 .. Len(entry) /\ (i - 1) + 1 = i
              /\ Len(host) - Len(dotted) + i = rest + (i - 1)
          BY <1>1, <1>2, <4>2
        <5>2. dotted[i] = entry[i - 1]
          BY <1>2, <5>1
        <5>3. entry[i - 1] = host[rest + (i - 1)]
          BY <3>4, <5>1
        <5> QED
          BY <5>1, <5>2, <5>3
      <4> QED
        BY <4>1, <4>2
    <3> QED
      BY <1>3, <2>2, <3>1, <3>3, <3>4
  <2> QED
    BY <2>1, <2>2
<1>5. host = entry <=> rest = 0 /\ \A i \in 1 .. Len(entry) : entry[i] = host[rest + i]
  <2>1. ASSUME host = entry PROVE rest = 0 /\ \A i \in 1 .. Len(entry) : entry[i] = host[rest + i]
    <3>1. rest = 0 /\ \A i \in 1 .. Len(entry) : rest + i = i
      BY <1>1, <2>1
    <3> QED
      BY <2>1, <3>1
  <2>2. ASSUME rest = 0, \A i \in 1 .. Len(entry) : entry[i] = host[rest + i] PROVE host = entry
    <3>1. Len(host) = Len(entry)
      BY <1>1, <2>2
    <3>2. \A i \in 1 .. Len(host) : host[i] = entry[i]
      <4> SUFFICES ASSUME NEW i \in 1 .. Len(host) PROVE host[i] = entry[i]
        OBVIOUS
      <4>1. i \in 1 .. Len(entry) /\ 0 + i = i
        BY <1>1, <3>1
      <4>2. entry[i] = host[0 + i]
        BY <2>2, <4>1
      <4> QED
        BY <4>1, <4>2
    <3> QED
      BY <3>1, <3>2, SeqEqual
  <2> QED
    BY <2>1, <2>2
<1>6. rest \in Int
  BY <1>1
<1> HIDE DEF rest
<1>7. Rules!MatchesEntry(host, entry) <=>
        /\ rest >= 0 /\ (rest > 0 => host[rest] = ".")
        /\ \A i \in 1 .. Len(entry) : entry[i] = host[rest + i]
  BY <1>4, <1>5, <1>6 DEF Rules!MatchesEntry, dotted
<1> QED
  BY <1>7 DEF EndsAtLabel, rest

FollowDown(A, B, s) ==
  \A n \in 1 .. Cardinality(A) - 1 :
    LET m == Cardinality(B) - Cardinality(A) + n
    IN m + 1 \in 1 .. Cardinality(B) /\ Rules!Nth(B, m + 1) = s + Rules!Nth(A, n + 1)
         => m > 0 /\ Rules!Nth(B, m) = s + Rules!Nth(A, n)

AlignedFromTop(A, B, s) ==
  \A n \in 1 .. Cardinality(A) :
    LET m == Cardinality(B) - Cardinality(A) + n
    IN m \in 1 .. Cardinality(B) /\ Rules!Nth(B, m) = s + Rules!Nth(A, n)

(* Two sets of numbers whose greatest members are as far apart as any two  *)
(* that follow them downwards: the numbers are counted from the top.       *)
LEMMA NthsAlign ==
  ASSUME NEW x \in Nat, NEW A \in SUBSET (0 .. x), NEW y \in Nat, NEW B \in SUBSET (0 .. y),
         NEW s \in Int,
         Cardinality(A) > 0, Cardinality(B) > 0,
         Rules!Nth(B, Cardinality(B)) = s + Rules!Nth(A, Cardinality(A)),
         FollowDown(A, B, s)
  PROVE  AlignedFromTop(A, B, s)
<1> DEFINE a == Cardinality(A)
           b == Cardinality(B)
           Aligned(n) == b - a + n \in 1 .. b /\ Rules!Nth(B, b - a + n) = s + Rules!Nth(A, n)
           Bad == {j \in 0 .. a - 1 : ~Aligned(a - j)}
<1>1. a \in Nat /\ b \in Nat
  BY NthIsThere
<1>2. Aligned(a)
  <2>1. b - a + a = b /\ b \in 1 .. b
    BY <1>1
  <2> QED
    BY <2>1
<1>3. \A n \in 1 .. a - 1 : Aligned(n + 1) => Aligned(n)
  <2> SUFFICES ASSUME NEW n \in 1 .. a - 1, Aligned(n + 1) PROVE Aligned(n)
    OBVIOUS
  <2> DEFINE m == b - a + n
  <2>1. b - a + (n + 1) = m + 1
    BY <1>1
  <2>0. m + 1 \in 1 .. b /\ Rules!Nth(B, m + 1) = s + Rules!Nth(A, n + 1)
          => m > 0 /\ Rules!Nth(B, m) = s + Rules!Nth(A, n)
    BY DEF FollowDown
  <2>2. m + 1 \in 1 .. b /\ Rules!Nth(B, m + 1) = s + Rules!Nth(A, n + 1)
    BY <2>1
  <2>3. m > 0 /\ Rules!Nth(B, m) = s + Rules!Nth(A, n)
    BY <2>0, <2>2
  <2>4. m \in 1 .. b
    BY <1>1, <2>2, <2>3
  <2> QED
    BY <2>3, <2>4
<1> HIDE DEF a, b, Aligned
<1>4. Bad = {}
  <2> SUFFICES ASSUME Bad # {} PROVE FALSE
    OBVIOUS
  <2>1. Bad \in SUBSET Nat
    OBVIOUS
  <2>2. PICK j \in Bad : \A k \in Bad : j <= k
    BY <2>1, LeastNat
  <2>3. j \in 0 .. a - 1 /\ ~Aligned(a - j)
    BY <2>2
  <2>4. j # 0
    <3> SUFFICES ASSUME j = 0 PROVE FALSE
      OBVIOUS
    <3>1. a - j = a
      BY <1>1
    <3> QED
      BY <1>2, <2>3, <3>1
  <2>5. j - 1 \in 0 .. a - 1 /\ ~(j <= j - 1)
    BY <1>1, <2>3, <2>4
  <2>6. Aligned(a - (j - 1))
    BY <2>2, <2>5
  <2>7. a - j \in 1 .. a - 1 /\ (a - j) + 1 = a - (j - 1)
    BY <1>1, <2>3, <2>4
  <2> QED
    BY <1>3, <2>3, <2>6, <2>7
<1>5. ASSUME NEW n \in 1 .. a PROVE Aligned(n)
  <2>1. a - n \in 0 .. a - 1 /\ a - (a - n) = n
    BY <1>1
  <2> QED
    BY <1>4, <2>1
<1> QED
  BY <1>5 DEF Aligned, a, b, AlignedFromTop

(* The labels of an entry are the last ones of a host.                     *)
EndsIn(labels, host) ==
  /\ Len(labels) <= Len(host)
  /\ \A i \in DOMAIN labels : labels[i] = host[Len(host) - Len(labels) + i]

LEMMA AtLabelThenLabels ==
  ASSUME NEW host \in Seq(Character), NEW entry \in Seq(Character), EndsAtLabel(entry, host)
  PROVE  EndsIn(Rules!Labels(entry), Rules!Labels(host))
<1> DEFINE A == Rules!Dots(entry)
           B == Rules!Dots(host)
           a == Cardinality(A)
           b == Cardinality(B)
           s == Len(host) - Len(entry)
<1>1. Len(host) \in Nat /\ Len(entry) \in Nat /\ s \in Int
  BY LenProperties
<1>2. /\ s >= 0 /\ (s > 0 => host[s] = ".")
      /\ \A i \in 1 .. Len(entry) : entry[i] = host[s + i]
  BY DEF EndsAtLabel
<1>3. /\ A \in SUBSET (0 .. Len(entry) + 1)
      /\ \A p \in 1 .. Len(entry) : p \in A <=> entry[p] = "."
      /\ a \in Nat /\ a > 1
      /\ Rules!Nth(A, 1) = 0 /\ Rules!Nth(A, a) = Len(entry) + 1
      /\ DOMAIN Rules!Labels(entry) = 1 .. a - 1
      /\ Len(Rules!Labels(entry)) = a - 1
      /\ \A n \in 1 .. a - 1 : Rules!Labels(entry)[n] = Rules!LabelAt(entry, n)
  BY LabelsAre
<1>4. /\ B \in SUBSET (0 .. Len(host) + 1)
      /\ \A p \in 1 .. Len(host) : p \in B <=> host[p] = "."
      /\ b \in Nat /\ b > 1
      /\ Rules!Nth(B, 1) = 0 /\ Rules!Nth(B, b) = Len(host) + 1
      /\ DOMAIN Rules!Labels(host) = 1 .. b - 1
      /\ Len(Rules!Labels(host)) = b - 1
      /\ \A n \in 1 .. b - 1 : Rules!Labels(host)[n] = Rules!LabelAt(host, n)
  BY LabelsAre
<1>5. Len(host) + 1 \in Nat /\ Len(entry) + 1 \in Nat
  BY <1>1
<1>6. 0 \in A /\ Len(entry) + 1 \in A /\ 0 \in B /\ Len(host) + 1 \in B
  BY DEF Rules!Dots
<1>7. s + (Len(entry) + 1) = Len(host) + 1
  BY <1>1
<1> HIDE DEF A, B, a, b, s
<1>8. ASSUME NEW p \in 0 .. Len(entry) + 1 PROVE p \in A <=> s + p \in B
  <2>1. CASE p = 0
    <3>1. s + p = s /\ (s = 0 \/ s \in 1 .. Len(host))
      BY <1>1, <1>2, <1>7, <2>1
    <3>2. s \in B
      BY <1>2, <1>4, <1>6, <3>1, <1>1
    <3> QED
      BY <1>6, <2>1, <3>1, <3>2
  <2>2. CASE p = Len(entry) + 1
    BY <1>6, <1>7, <2>2
  <2>3. CASE p # 0 /\ p # Len(entry) + 1
    <3>1. p \in 1 .. Len(entry) /\ s + p \in 1 .. Len(host)
      BY <1>1, <1>2, <1>7, <2>3
    <3> QED
      BY <1>2, <1>3, <1>4, <3>1
  <2> QED
    BY <2>1, <2>2, <2>3
<1>9. /\ \A n \in 1 .. a : Rules!Nth(A, n) \in A /\ Rules!Nth(A, n) \in Int
      /\ \A n \in 1 .. b : Rules!Nth(B, n) \in B /\ Rules!Nth(B, n) \in Int
      /\ \A q \in B : Rules!Rank(B, q) \in 1 .. b /\ Rules!Nth(B, Rules!Rank(B, q)) = q
  <2>1. \A n \in 1 .. a : Rules!Nth(A, n) \in A
    BY <1>3, <1>5, NthIsThere DEF a
  <2>2. \A n \in 1 .. b : Rules!Nth(B, n) \in B
    BY <1>4, <1>5, NthIsThere DEF b
  <2>3. \A q \in B : Rules!Rank(B, q) \in 1 .. b /\ Rules!Nth(B, Rules!Rank(B, q)) = q
    BY <1>4, <1>5, NthIsThere, RankRises DEF b
  <2>4. (\A q \in A : q \in Int) /\ (\A q \in B : q \in Int)
    BY <1>1, <1>3, <1>4
  <2> QED
    BY <2>1, <2>2, <2>3, <2>4
<1>10. /\ \A n, m \in 1 .. a : n < m => Rules!Nth(A, n) < Rules!Nth(A, m)
       /\ \A n \in 1 .. a : n + 1 \in 1 .. a =>
            \A x \in A : ~(Rules!Nth(A, n) < x /\ x < Rules!Nth(A, n + 1))
  BY <1>3, <1>5, NthRises DEF a
<1>11. \A n, m \in 1 .. b : n < m => Rules!Nth(B, n) < Rules!Nth(B, m)
  BY <1>4, <1>5, NthRises DEF b
<1>12. ASSUME NEW n \in 1 .. a - 1, (b - a + n) + 1 \in 1 .. b,
              Rules!Nth(B, (b - a + n) + 1) = s + Rules!Nth(A, n + 1)
       PROVE  b - a + n > 0 /\ Rules!Nth(B, b - a + n) = s + Rules!Nth(A, n)
  <2> DEFINE m == b - a + n
             low == Rules!Nth(A, n)
             high == Rules!Nth(A, n + 1)
             r == Rules!Rank(B, s + low)
             t == Rules!Nth(B, m)
  <2>1. n \in 1 .. a /\ n + 1 \in 1 .. a /\ n < n + 1
    BY <1>3
  <2>2. low \in A /\ low \in Int /\ high \in A /\ high \in Int /\ low < high
    BY <1>9, <1>10, <2>1
  <2>3. low \in 0 .. Len(entry) + 1 /\ high \in 0 .. Len(entry) + 1
    BY <1>3, <2>2
  <2>4. s + low \in B
    BY <1>8, <2>2, <2>3
  <2>5. r \in 1 .. b /\ Rules!Nth(B, r) = s + low
    BY <1>9, <2>4
  <2>6. m + 1 \in 1 .. b /\ Rules!Nth(B, m + 1) = s + high
    BY <1>12
  <2>7. m + 1 < r => s + high < s + low
    BY <1>11, <2>5, <2>6
  <2>8. m \in Int /\ r \in Int
    BY <1>3, <1>4, <2>5
  <2>9. \A x \in A : ~(low < x /\ x < high)
    BY <1>10, <2>1
  <2> HIDE DEF low, high, r
  <2>10. ~(m + 1 < r) /\ r # m + 1
    BY <1>1, <2>2, <2>5, <2>6, <2>7
  <2>11. m \in 1 .. b /\ (r = m \/ r < m) /\ m < m + 1
    BY <2>5, <2>6, <2>8, <2>10, <1>4
  <2>12. t \in B /\ t \in Int
    BY <1>9, <2>11
  <2>13. s + low <= t /\ t < s + high
    <3>1. r < m => s + low < t
      BY <1>11, <2>5, <2>11
    <3>2. r = m => s + low = t
      BY <2>5
    <3>3. t < s + high
      BY <1>11, <2>6, <2>11
    <3> HIDE DEF t
    <3> QED
      BY <1>1, <2>2, <2>11, <2>12, <3>1, <3>2, <3>3
  <2> HIDE DEF t, m
  <2>14. t - s \in 0 .. Len(entry) + 1 /\ s + (t - s) = t /\ low <= t - s /\ t - s < high
    BY <1>1, <2>2, <2>3, <2>12, <2>13
  <2>15. t - s \in A
    BY <1>8, <2>12, <2>14
  <2>16. t - s = low
    BY <2>2, <2>9, <2>14, <2>15
  <2>17. t = s + low
    BY <1>1, <2>12, <2>16
  <2> QED
    BY <2>11, <2>17 DEF m, t, low
<1>13. \A n \in 1 .. a : b - a + n \in 1 .. b /\ Rules!Nth(B, b - a + n) = s + Rules!Nth(A, n)
  <2>1. a > 0 /\ b > 0 /\ Rules!Nth(B, b) = s + Rules!Nth(A, a)
    BY <1>3, <1>4, <1>7
  <2>2. \A n \in 1 .. a - 1 :
          (b - a + n) + 1 \in 1 .. b /\ Rules!Nth(B, (b - a + n) + 1) = s + Rules!Nth(A, n + 1)
            => b - a + n > 0 /\ Rules!Nth(B, b - a + n) = s + Rules!Nth(A, n)
    BY <1>12
  <2>3. /\ Len(entry) + 1 \in Nat /\ A \in SUBSET (0 .. Len(entry) + 1)
        /\ Len(host) + 1 \in Nat /\ B \in SUBSET (0 .. Len(host) + 1)
        /\ s \in Int
    BY <1>1, <1>3, <1>4, <1>5
  <2>4. AlignedFromTop(A, B, s)
    <3>1. FollowDown(A, B, s)
      BY <2>2 DEF a, b, FollowDown
    <3>2. /\ Cardinality(A) > 0 /\ Cardinality(B) > 0
          /\ Rules!Nth(B, Cardinality(B)) = s + Rules!Nth(A, Cardinality(A))
      BY <2>1 DEF a, b
    <3> QED
      BY ONLY <2>3, <3>1, <3>2, NthsAlign, Zenon
  <2> QED
    BY <2>4 DEF a, b, AlignedFromTop
<1>14. b - a >= 0
  <2>1. 1 \in 1 .. a
    BY <1>3
  <2>2. b - a + 1 \in 1 .. b
    BY <1>13, <2>1
  <2> QED
    BY <1>3, <1>4, <2>2
<1>15. ASSUME NEW n \in 1 .. a - 1
       PROVE  Rules!LabelAt(entry, n) = Rules!LabelAt(host, b - a + n)
  <2> DEFINE m == b - a + n
             low == Rules!Nth(A, n)
             high == Rules!Nth(A, n + 1)
             l == Rules!LabelAt(entry, n)
             k == Rules!LabelAt(host, m)
  <2>1. n \in 1 .. a /\ n + 1 \in 1 .. a /\ m \in 1 .. b - 1 /\ b - a + (n + 1) = m + 1
    BY <1>3, <1>4, <1>14
  <2>2. Rules!Nth(B, m) = s + low /\ Rules!Nth(B, m + 1) = s + high
    BY <1>13, <2>1
  <2>3. /\ low \in 0 .. Len(entry) /\ high \in 1 .. Len(entry) + 1 /\ low < high
        /\ l \in Seq(Character)
        /\ Len(l) = high - low - 1
        /\ \A i \in 1 .. high - low - 1 : l[i] = entry[low + i]
    BY LabelHas DEF A, a
  <2>4. /\ k \in Seq(Character)
        /\ Len(k) = (s + high) - (s + low) - 1
        /\ \A i \in 1 .. (s + high) - (s + low) - 1 : k[i] = host[(s + low) + i]
    <3>1. m \in 1 .. Cardinality(Rules!Dots(host)) - 1
      BY <2>1 DEF B, b
    <3>2. /\ k \in Seq(Character)
          /\ Len(k) = Rules!Nth(B, m + 1) - Rules!Nth(B, m) - 1
          /\ \A i \in 1 .. Rules!Nth(B, m + 1) - Rules!Nth(B, m) - 1 :
               k[i] = host[Rules!Nth(B, m) + i]
      BY <3>1, LabelHas DEF B
    <3> QED
      BY <2>2, <3>2
  <2> HIDE DEF m, low, high, l, k
  <2>5. (s + high) - (s + low) - 1 = high - low - 1
    BY <1>1, <2>3
  <2>6. ASSUME NEW i \in 1 .. high - low - 1 PROVE l[i] = k[i]
    <3>1. low + i \in 1 .. Len(entry) /\ s + (low + i) = (s + low) + i
      BY <1>1, <2>3
    <3> QED
      BY <1>2, <2>3, <2>4, <2>5, <3>1
  <2>7. l = k
    BY <2>3, <2>4, <2>5, <2>6, SeqEqual
  <2> QED
    BY <2>7 DEF l, k, m
<1> QED
  <2> DEFINE le == Rules!Labels(entry)
             lh == Rules!Labels(host)
  <2>1. /\ DOMAIN le = 1 .. a - 1 /\ Len(le) = a - 1 /\ Len(lh) = b - 1
        /\ \A n \in 1 .. a - 1 : le[n] = Rules!LabelAt(entry, n)
        /\ \A n \in 1 .. b - 1 : lh[n] = Rules!LabelAt(host, n)
    BY <1>3, <1>4
  <2> HIDE DEF le, lh
  <2>2. ASSUME NEW n \in 1 .. a - 1 PROVE le[n] = lh[Len(lh) - Len(le) + n]
    <3>1. Len(lh) - Len(le) + n = b - a + n /\ b - a + n \in 1 .. b - 1
      BY <1>3, <1>4, <1>14, <2>1
    <3> QED
      BY <1>15, <2>1, <3>1
  <2>3. Len(le) <= Len(lh)
    BY <1>3, <1>4, <1>14, <2>1
  <2> QED
    BY <2>1, <2>2, <2>3 DEF EndsIn, le, lh

LEMMA LabelsThenAtLabel ==
  ASSUME NEW host \in Seq(Character), NEW entry \in Seq(Character),
         EndsIn(Rules!Labels(entry), Rules!Labels(host))
  PROVE  EndsAtLabel(entry, host)
<1> DEFINE A == Rules!Dots(entry)
           B == Rules!Dots(host)
           a == Cardinality(A)
           b == Cardinality(B)
           s == Len(host) - Len(entry)
<1>1. Len(host) \in Nat /\ Len(entry) \in Nat /\ s \in Int
  BY LenProperties
<1>2. /\ A \in SUBSET (0 .. Len(entry) + 1)
      /\ \A p \in 1 .. Len(entry) : p \in A <=> entry[p] = "."
      /\ a \in Nat /\ a > 1
      /\ Rules!Nth(A, 1) = 0 /\ Rules!Nth(A, a) = Len(entry) + 1
      /\ DOMAIN Rules!Labels(entry) = 1 .. a - 1
      /\ Len(Rules!Labels(entry)) = a - 1
      /\ \A n \in 1 .. a - 1 : Rules!Labels(entry)[n] = Rules!LabelAt(entry, n)
  BY LabelsAre
<1>3. /\ B \in SUBSET (0 .. Len(host) + 1)
      /\ \A p \in 1 .. Len(host) : p \in B <=> host[p] = "."
      /\ b \in Nat /\ b > 1
      /\ Rules!Nth(B, 1) = 0 /\ Rules!Nth(B, b) = Len(host) + 1
      /\ Len(Rules!Labels(host)) = b - 1
      /\ \A n \in 1 .. b - 1 : Rules!Labels(host)[n] = Rules!LabelAt(host, n)
  BY LabelsAre
<1>4. Len(host) + 1 \in Nat /\ Len(entry) + 1 \in Nat
  BY <1>1
<1>5. s + (Len(entry) + 1) = Len(host) + 1
  BY <1>1
<1>6. /\ a - 1 <= b - 1
      /\ \A n \in 1 .. a - 1 :
           Rules!LabelAt(entry, n) = Rules!LabelAt(host, (b - 1) - (a - 1) + n)
  <2> DEFINE le == Rules!Labels(entry)
             lh == Rules!Labels(host)
  <2>1. /\ DOMAIN le = 1 .. a - 1 /\ Len(le) = a - 1 /\ Len(lh) = b - 1
        /\ \A n \in 1 .. a - 1 : le[n] = Rules!LabelAt(entry, n)
        /\ \A n \in 1 .. b - 1 : lh[n] = Rules!LabelAt(host, n)
    BY <1>2, <1>3
  <2>2. Len(le) <= Len(lh) /\ \A n \in DOMAIN le : le[n] = lh[Len(lh) - Len(le) + n]
    BY DEF EndsIn
  <2> HIDE DEF le, lh, a, b
  <2>3. a - 1 <= b - 1
    BY <2>1, <2>2
  <2>4. ASSUME NEW n \in 1 .. a - 1
        PROVE  Rules!LabelAt(entry, n) = Rules!LabelAt(host, (b - 1) - (a - 1) + n)
    <3>1. (b - 1) - (a - 1) + n \in 1 .. b - 1
      BY <1>2, <1>3, <2>3
    <3>2. le[n] = lh[(b - 1) - (a - 1) + n]
      BY <2>1, <2>2
    <3> QED
      BY <2>1, <3>1, <3>2
  <2> QED
    BY <2>3, <2>4
<1> HIDE DEF A, B, a, b, s
<1>7. \A n \in 1 .. a - 1 :
        /\ b - a + n \in 1 .. b - 1
        /\ Rules!LabelAt(entry, n) = Rules!LabelAt(host, b - a + n)
  <2> SUFFICES ASSUME NEW n \in 1 .. a - 1
               PROVE  b - a + n \in 1 .. b - 1
                      /\ Rules!LabelAt(entry, n) = Rules!LabelAt(host, b - a + n)
    OBVIOUS
  <2>1. (b - 1) - (a - 1) + n = b - a + n /\ b - a + n \in 1 .. b - 1
    BY <1>2, <1>3, <1>6
  <2> QED
    BY <1>6, <2>1
<1>8. ASSUME NEW n \in 1 .. a - 1
      PROVE  /\ Rules!Nth(A, n) \in 0 .. Len(entry) /\ Rules!Nth(A, n + 1) \in Int
             /\ Len(Rules!LabelAt(entry, n)) = Rules!Nth(A, n + 1) - Rules!Nth(A, n) - 1
             /\ \A i \in 1 .. Rules!Nth(A, n + 1) - Rules!Nth(A, n) - 1 :
                  Rules!LabelAt(entry, n)[i] = entry[Rules!Nth(A, n) + i]
  <2>1. n \in 1 .. Cardinality(Rules!Dots(entry)) - 1
    BY DEF A, a
  <2> QED
    BY <2>1, LabelHas DEF A
<1>9. ASSUME NEW m \in 1 .. b - 1
      PROVE  /\ Rules!Nth(B, m) \in Int /\ Rules!Nth(B, m + 1) \in Int
             /\ Len(Rules!LabelAt(host, m)) = Rules!Nth(B, m + 1) - Rules!Nth(B, m) - 1
             /\ \A i \in 1 .. Rules!Nth(B, m + 1) - Rules!Nth(B, m) - 1 :
                  Rules!LabelAt(host, m)[i] = host[Rules!Nth(B, m) + i]
  <2>1. m \in 1 .. Cardinality(Rules!Dots(host)) - 1
    BY DEF B, b
  <2> QED
    BY <2>1, LabelHas DEF B
<1>10. ASSUME NEW n \in 1 .. a - 1, (b - a + n) + 1 \in 1 .. b,
              Rules!Nth(B, (b - a + n) + 1) = s + Rules!Nth(A, n + 1)
       PROVE  b - a + n > 0 /\ Rules!Nth(B, b - a + n) = s + Rules!Nth(A, n)
  <2> DEFINE m == b - a + n
             low == Rules!Nth(A, n)
             high == Rules!Nth(A, n + 1)
             from == Rules!Nth(B, m)
             to == Rules!Nth(B, m + 1)
  <2>1. m \in 1 .. b - 1 /\ Rules!LabelAt(entry, n) = Rules!LabelAt(host, m)
    BY <1>7
  <2>2. low \in Int /\ high \in Int /\ Len(Rules!LabelAt(entry, n)) = high - low - 1
    BY <1>8
  <2>3. from \in Int /\ to \in Int /\ Len(Rules!LabelAt(host, m)) = to - from - 1
    BY <1>9, <2>1
  <2>4. to = s + high
    BY <1>10
  <2> HIDE DEF m, low, high, from, to
  <2>5. from = s + low /\ m > 0
    BY <1>1, <1>3, <2>1, <2>2, <2>3, <2>4
  <2> QED
    BY <2>5 DEF m, low, from
<1>11. \A n \in 1 .. a : b - a + n \in 1 .. b /\ Rules!Nth(B, b - a + n) = s + Rules!Nth(A, n)
  <2>1. a > 0 /\ b > 0 /\ Rules!Nth(B, b) = s + Rules!Nth(A, a)
    BY <1>2, <1>3, <1>5
  <2>2. \A n \in 1 .. a - 1 :
          (b - a + n) + 1 \in 1 .. b /\ Rules!Nth(B, (b - a + n) + 1) = s + Rules!Nth(A, n + 1)
            => b - a + n > 0 /\ Rules!Nth(B, b - a + n) = s + Rules!Nth(A, n)
    BY <1>10
  <2>3. /\ Len(entry) + 1 \in Nat /\ A \in SUBSET (0 .. Len(entry) + 1)
        /\ Len(host) + 1 \in Nat /\ B \in SUBSET (0 .. Len(host) + 1)
        /\ s \in Int
    BY <1>1, <1>2, <1>3, <1>4
  <2>4. AlignedFromTop(A, B, s)
    <3>1. FollowDown(A, B, s)
      BY <2>2 DEF a, b, FollowDown
    <3>2. /\ Cardinality(A) > 0 /\ Cardinality(B) > 0
          /\ Rules!Nth(B, Cardinality(B)) = s + Rules!Nth(A, Cardinality(A))
      BY <2>1 DEF a, b
    <3> QED
      BY ONLY <2>3, <3>1, <3>2, NthsAlign, Zenon
  <2> QED
    BY <2>4 DEF a, b, AlignedFromTop
<1>12. /\ \A n \in 1 .. a : Rules!Nth(A, n) \in A /\ Rules!Nth(A, n) \in Int
       /\ \A n \in 1 .. b : Rules!Nth(B, n) \in B
       /\ \A q \in A : Rules!Rank(A, q) \in 1 .. a /\ Rules!Nth(A, Rules!Rank(A, q)) = q
  <2>1. \A n \in 1 .. a : Rules!Nth(A, n) \in A
    BY <1>2, <1>4, NthIsThere DEF a
  <2>2. \A n \in 1 .. b : Rules!Nth(B, n) \in B
    BY <1>3, <1>4, NthIsThere DEF b
  <2>3. \A q \in A : Rules!Rank(A, q) \in 1 .. a /\ Rules!Nth(A, Rules!Rank(A, q)) = q
    BY <1>2, <1>4, NthIsThere, RankRises DEF a
  <2>4. \A q \in A : q \in Int
    BY <1>1, <1>2
  <2> QED
    BY <2>1, <2>2, <2>3, <2>4
<1>13. s \in B
  <2>1. 1 \in 1 .. a
    BY <1>2
  <2>2. b - a + 1 \in 1 .. b /\ Rules!Nth(B, b - a + 1) = s + 0
    BY <1>2, <1>11, <2>1
  <2>3. s + 0 = s
    BY <1>1
  <2> QED
    BY <1>12, <2>2, <2>3
<1>14. s >= 0 /\ s <= Len(host)
  <2>1. s \in 0 .. Len(host) + 1
    BY <1>3, <1>13
  <2> QED
    BY <1>1, <1>5, <2>1
<1>15. s > 0 => host[s] = "."
  <2> SUFFICES ASSUME s > 0 PROVE host[s] = "."
    OBVIOUS
  <2>1. s \in 1 .. Len(host)
    BY <1>1, <1>14
  <2> QED
    BY <1>3, <1>13, <2>1
<1>16. ASSUME NEW p \in 1 .. Len(entry) PROVE entry[p] = host[s + p]
  <2>0. s + p \in 1 .. Len(host)
    BY <1>1, <1>5, <1>14
  <2>1. CASE p \in A
    <3> DEFINE n == Rules!Rank(A, p)
    <3>1. n \in 1 .. a /\ Rules!Nth(A, n) = p
      BY <1>12, <2>1
    <3> HIDE DEF n
    <3>2. b - a + n \in 1 .. b /\ Rules!Nth(B, b - a + n) = s + p
      BY <1>11, <3>1
    <3>3. s + p \in B
      BY <1>12, <3>2
    <3> QED
      BY <1>2, <1>3, <2>0, <2>1, <3>3
  <2>2. CASE p \notin A
    <3> DEFINE below == {n \in 1 .. a : Rules!Nth(A, n) < p}
    <3>1. below # {} /\ below \in SUBSET (0 .. a)
      <4>1. 1 \in 1 .. a /\ Rules!Nth(A, 1) < p
        BY <1>2
      <4> QED
        BY <4>1
    <3>2. PICK n \in below : \A k \in below : k <= n
      BY <1>2, <3>1, GreatestNat
    <3> DEFINE low == Rules!Nth(A, n)
               high == Rules!Nth(A, n + 1)
    <3>3. n \in 1 .. a /\ low < p
      BY <3>2
    <3>4. n # a
      <4>1. Rules!Nth(A, a) = Len(entry) + 1 /\ ~(Len(entry) + 1 < p)
        BY <1>1, <1>2
      <4> QED
        BY <3>3, <4>1
    <3>5. n \in 1 .. a - 1 /\ n + 1 \in 1 .. a /\ ~(n + 1 <= n)
      BY <1>2, <3>3, <3>4
    <3>6. ~(high < p)
      BY <3>2, <3>5
    <3>7. high \in A /\ high \in Int /\ low \in Int
      BY <1>12, <3>3, <3>5
    <3>8. p < high
      <4>1. high # p
        BY <2>2, <3>7
      <4> HIDE DEF high
      <4> QED
        BY <3>6, <3>7, <4>1
    <3> DEFINE m == b - a + n
               from == Rules!Nth(B, m)
               to == Rules!Nth(B, m + 1)
               i == p - low
    <3>9. /\ m \in 1 .. b - 1 /\ Rules!LabelAt(entry, n) = Rules!LabelAt(host, m)
          /\ from = s + low
      BY <1>7, <1>11, <3>3, <3>5
    <3>10. to = s + high
      <4>1. b - a + (n + 1) = m + 1
        BY <1>2, <1>3, <3>5
      <4> QED
        BY <1>11, <3>5, <4>1
    <3>11. /\ \A x \in 1 .. high - low - 1 : Rules!LabelAt(entry, n)[x] = entry[low + x]
           /\ \A x \in 1 .. to - from - 1 : Rules!LabelAt(host, m)[x] = host[from + x]
      BY <1>8, <1>9, <3>5, <3>9
    <3> HIDE DEF low, high, from, to, m
    <3>12. /\ i \in 1 .. high - low - 1 /\ i \in 1 .. to - from - 1
           /\ low + i = p /\ from + i = s + p
      BY <1>1, <3>3, <3>7, <3>8, <3>9, <3>10
    <3> HIDE DEF i
    <3>13. Rules!LabelAt(entry, n)[i] = entry[p] /\ Rules!LabelAt(host, m)[i] = host[s + p]
      BY <3>11, <3>12
    <3> QED
      BY <3>9, <3>13
  <2> QED
    BY <2>1, <2>2
<1> QED
  BY <1>14, <1>15, <1>16 DEF EndsAtLabel, s

LEMMA LowerIs ==
  ASSUME NEW host \in Seq(STRING)
  PROVE  /\ Rules!Lower(host) \in Seq(Character)
         /\ Rules!Lower(host) = <<>> <=> host = <<>>
<1>1. /\ Len(host) \in Nat /\ DOMAIN host = 1 .. Len(host)
      /\ \A i \in 1 .. Len(host) : host[i] \in STRING
  BY LenProperties
<1>2. Rules!Lower(host) = [i \in 1 .. Len(host) |-> IF host[i] = "A" THEN "a" ELSE host[i]]
  BY <1>1 DEF Rules!Lower
<1>3. \A i \in 1 .. Len(host) : (IF host[i] = "A" THEN "a" ELSE host[i]) \in Character
  BY <1>1 DEF Character
<1>4. Rules!Lower(host) \in [1 .. Len(host) -> Character]
  BY <1>2, <1>3
<1> HIDE DEF Rules!Lower
<1>5. Rules!Lower(host) \in Seq(Character) /\ Len(Rules!Lower(host)) = Len(host)
  BY <1>1, <1>4
<1>6. Rules!Lower(host) = <<>> <=> Len(host) = 0
  BY <1>5, EmptySeq
<1>7. host = <<>> <=> Len(host) = 0
  BY EmptySeq
<1> QED
  BY <1>5, <1>6, <1>7

(* A host is accepted by its last labels, whatever the case of letters.    *)
LEMMA HostsAreListed == ASSUME InputStays, ResultIsComputed PROVE HostIsListed
<1> SUFFICES ASSUME Done("url")
             PROVE  LET host == Rules!Labels(Rules!Lower(input.url.host))
                    IN output = "ok" <=>
                         /\ input.url.scheme \in {"http", "https"}
                         /\ input.url.host # <<>>
                         /\ ~Rules!IsPrivateHost(Rules!Lower(input.url.host))
                         /\ \E e \in input.allowlist :
                              e # <<>> /\ EndsIn(Rules!Labels(Rules!Lower(e)), host)
  BY DEF HostIsListed, EndsIn
<1> DEFINE host == Rules!Lower(input.url.host)
<1>1. input.url.host \in Seq(STRING) /\ \A e \in input.allowlist : e \in Seq(STRING)
  BY InputsAssumption DEF InputStays, Done
<1>2. host \in Seq(Character)
  BY <1>1, LowerIs
<1>3. output = Rules!CheckURL(input.url, input.allowlist)
  BY DEF ResultIsComputed, Done
<1>4. ASSUME NEW e \in input.allowlist
      PROVE  Rules!MatchesEntry(host, Rules!Lower(e))
               <=> EndsIn(Rules!Labels(Rules!Lower(e)), Rules!Labels(host))
  <2>1. Rules!Lower(e) \in Seq(Character)
    BY <1>1, LowerIs
  <2> HIDE DEF host
  <2> QED
    BY <1>2, <2>1, MatchIsAtLabel, AtLabelThenLabels, LabelsThenAtLabel
<1>5. (\E entry \in Rules!UrlAllowlist(input.allowlist) : Rules!MatchesEntry(host, entry))
        <=> \E e \in input.allowlist :
              e # <<>> /\ EndsIn(Rules!Labels(Rules!Lower(e)), Rules!Labels(host))
  <2>1. \A entry : entry \in Rules!UrlAllowlist(input.allowlist)
                     <=> \E e \in input.allowlist : e # <<>> /\ entry = Rules!Lower(e)
    BY <1>1, LowerIs DEF Rules!UrlAllowlist
  <2> HIDE DEF host
  <2> QED
    BY <1>4, <2>1
<1>6. output = "ok" <=>
        /\ input.url.host # <<>> /\ input.url.scheme \in {"http", "https"}
        /\ ~Rules!IsPrivateHost(host)
        /\ \E entry \in Rules!UrlAllowlist(input.allowlist) : Rules!MatchesEntry(host, entry)
  BY <1>3 DEF Rules!CheckURL
<1> QED
  BY <1>5, <1>6
-----------------------------------------------------------------------------
(* The texts of SQL. *)

(* A text without the blanks at its ends.                                  *)
LEMMA TrimBlankCuts ==
  ASSUME NEW raw \in Seq(Rules!Token)
  PROVE  LET sql == Rules!TrimBlank(raw)
         IN /\ sql \in Seq(Rules!Token)
            /\ sql # <<>> => Len(sql) > 0 /\ sql[1] \notin Rules!Blank
            /\ sql # <<>> => \E from \in 1 .. Len(raw) :
                 /\ from + Len(sql) - 1 <= Len(raw)
                 /\ \A i \in 1 .. Len(sql) : sql[i] = raw[from + i - 1]
<1> DEFINE kept == {i \in DOMAIN raw : raw[i] \notin Rules!Blank}
           from == CHOOSE i \in kept : \A j \in kept : i <= j
           to == CHOOSE i \in kept : \A j \in kept : j <= i
<1>1. /\ Len(raw) \in Nat /\ DOMAIN raw = 1 .. Len(raw)
      /\ \A i \in 1 .. Len(raw) : raw[i] \in Rules!Token
  BY LenProperties
<1>2. CASE kept = {}
  <2>1. Rules!TrimBlank(raw) = <<>>
    BY <1>2 DEF Rules!TrimBlank
  <2> QED
    BY <2>1, EmptySeq
<1>3. CASE kept # {}
  <2>1. kept \in SUBSET Nat /\ kept \in SUBSET (0 .. Len(raw))
    BY <1>1
  <2>2. Rules!TrimBlank(raw) = SubSeq(raw, from, to)
    BY <1>3 DEF Rules!TrimBlank
  <2>3. \A i \in kept : i \in 1 .. Len(raw) /\ raw[i] \notin Rules!Blank
    BY <1>1
  <2> HIDE DEF kept
  <2>4. (\E i \in kept : \A j \in kept : i <= j) /\ \E i \in kept : \A j \in kept : j <= i
    BY <1>1, <1>3, <2>1, LeastNat, GreatestNat
  <2>5. from \in kept /\ to \in kept /\ from <= to
    BY <2>4
  <2> HIDE DEF from, to
  <2>6. from \in 1 .. Len(raw) /\ to \in 1 .. Len(raw) /\ raw[from] \notin Rules!Blank
    BY <2>3, <2>5
  <2> DEFINE sql == SubSeq(raw, from, to)
  <2>7. /\ sql \in Seq(Rules!Token) /\ Len(sql) = IF from <= to THEN to - from + 1 ELSE 0
        /\ \A i \in 1 .. to - from + 1 : sql[i] = raw[from + i - 1]
    <3>1. from \in Int /\ to \in Int /\ \A i \in from .. to : raw[i] \in Rules!Token
      BY <1>1, <2>6
    <3> QED
      BY <3>1, SubSeqProperties
  <2> HIDE DEF sql
  <2>8. Len(sql) = to - from + 1 /\ Len(sql) > 0 /\ from + Len(sql) - 1 <= Len(raw)
    BY <1>1, <2>5, <2>6, <2>7
  <2>9. sql[1] = raw[from]
    <3>1. 1 \in 1 .. to - from + 1 /\ from + 1 - 1 = from
      BY <2>5, <2>6
    <3> QED
      BY <2>7, <3>1
  <2>10. \A i \in 1 .. Len(sql) : sql[i] = raw[from + i - 1]
    BY <2>7, <2>8
  <2> QED
    BY <2>2, <2>6, <2>7, <2>8, <2>9, <2>10 DEF sql
<1> QED
  BY <1>2, <1>3

(* A text without blanks at its ends is left as it is.                     *)
LEMMA TrimBlankKeeps ==
  ASSUME NEW sql \in Seq(Rules!Token), Len(sql) > 0,
         sql[1] \notin Rules!Blank, sql[Len(sql)] \notin Rules!Blank
  PROVE  Rules!TrimBlank(sql) = sql
<1> DEFINE kept == {i \in DOMAIN sql : sql[i] \notin Rules!Blank}
           from == CHOOSE i \in kept : \A j \in kept : i <= j
           to == CHOOSE i \in kept : \A j \in kept : j <= i
<1>0. DOMAIN sql = 1 .. Len(sql)
  BY LenProperties
<1>1. Len(sql) \in Nat
  BY LenProperties
<1>2. 1 \in kept /\ Len(sql) \in kept /\ \A i \in kept : i \in 1 .. Len(sql)
  BY <1>0, <1>1
<1>3. Rules!TrimBlank(sql) = SubSeq(sql, from, to)
  BY <1>2 DEF Rules!TrimBlank
<1> HIDE DEF kept
<1>4. from \in kept /\ \A j \in kept : from <= j
  <2>1. \E i \in kept : \A j \in kept : i <= j
    BY <1>2
  <2> QED
    BY <2>1
<1>5. to \in kept /\ \A j \in kept : j <= to
  <2>1. \E i \in kept : \A j \in kept : j <= i
    BY <1>2
  <2> QED
    BY <2>1
<1> HIDE DEF from, to
<1>6. from \in 1 .. Len(sql) /\ to \in 1 .. Len(sql) /\ from <= 1 /\ Len(sql) <= to
  BY <1>2, <1>4, <1>5
<1>7. from = 1 /\ to = Len(sql)
  BY <1>1, <1>6
<1>8. SubSeq(sql, 1, Len(sql)) = sql
  BY SubSeqFull
<1> QED
  BY <1>3, <1>7, <1>8

(* The provers cannot read the sign itself.                                *)
Semicolon == ";"

LastIn(S) == CHOOSE i \in S : \A j \in S : j <= i

LEMMA TrimSemicolonsIs ==
  ASSUME NEW sql
  PROVE  /\ Rules!TrimSemicolons(sql) =
              LET kept == {i \in DOMAIN sql : sql[i] # Semicolon}
              IN IF kept = {} THEN <<>> ELSE SubSeq(sql, 1, LastIn(kept))
         /\ Semicolon = ";"
BY Zenon DEF Rules!TrimSemicolons, Semicolon, LastIn

(* The text up to its last token that is no semicolon.                     *)
LEMMA TrimSemicolonsCuts ==
  ASSUME NEW sql \in Seq(Rules!Token), NEW m \in 1 .. Len(sql), sql[m] # Semicolon,
         \A j \in 1 .. Len(sql) : m < j => sql[j] = Semicolon
  PROVE  /\ Rules!TrimSemicolons(sql) \in Seq(Rules!Token)
         /\ Len(Rules!TrimSemicolons(sql)) = m
         /\ \A i \in 1 .. m : Rules!TrimSemicolons(sql)[i] = sql[i]
<1> DEFINE kept == {i \in DOMAIN sql : sql[i] # Semicolon}
           to == LastIn(kept)
<1>0. DOMAIN sql = 1 .. Len(sql)
  BY LenProperties
<1>1. Len(sql) \in Nat /\ \A i \in 1 .. Len(sql) : sql[i] \in Rules!Token
  BY LenProperties
<1>2. m \in kept /\ \A i \in kept : i \in 1 .. Len(sql) /\ ~(m < i)
  BY <1>0, <1>1
<1>3. Rules!TrimSemicolons(sql) = SubSeq(sql, 1, to)
  <2>1. kept # {}
    BY <1>2
  <2>2. Rules!TrimSemicolons(sql) = IF kept = {} THEN <<>> ELSE SubSeq(sql, 1, to)
    BY TrimSemicolonsIs, Zenon
  <2> HIDE DEF kept, to
  <2> QED
    BY <2>1, <2>2
<1> HIDE DEF kept
<1>4. to \in kept /\ m <= to
  <2>1. \E i \in kept : \A j \in kept : j <= i
    BY <1>2
  <2> QED
    BY <1>2, <2>1 DEF LastIn
<1> HIDE DEF to
<1>5. to = m
  BY <1>2, <1>4
<1>6. /\ SubSeq(sql, 1, m) \in Seq(Rules!Token)
      /\ Len(SubSeq(sql, 1, m)) = IF 1 <= m THEN m - 1 + 1 ELSE 0
      /\ \A i \in 1 .. m - 1 + 1 : SubSeq(sql, 1, m)[i] = sql[1 + i - 1]
  <2>1. 1 \in Int /\ m \in Int /\ \A i \in 1 .. m : sql[i] \in Rules!Token
    BY <1>1
  <2> QED
    BY <2>1, SubSeqProperties
<1>7. (IF 1 <= m THEN m - 1 + 1 ELSE 0) = m /\ m - 1 + 1 = m /\ \A i \in 1 .. m : 1 + i - 1 = i
  OBVIOUS
<1> QED
  BY <1>3, <1>5, <1>6, <1>7

LEMMA LastThatIsNone ==
  ASSUME NEW sql \in Seq(Rules!Token), \E i \in 1 .. Len(sql) : sql[i] # Semicolon
  PROVE  \E m \in 1 .. Len(sql) :
           /\ sql[m] # Semicolon
           /\ \A j \in 1 .. Len(sql) : m < j => sql[j] = Semicolon
<1> DEFINE kept == {i \in 1 .. Len(sql) : sql[i] # Semicolon}
<1>1. Len(sql) \in Nat
  BY LenProperties
<1>2. kept \in SUBSET (0 .. Len(sql)) /\ kept # {}
  OBVIOUS
<1>3. PICK m \in kept : \A j \in kept : j <= m
  BY <1>1, <1>2, GreatestNat
<1>4. \A j \in 1 .. Len(sql) : m < j => sql[j] = Semicolon
  BY <1>1, <1>3
<1> QED
  BY <1>3, <1>4

LEMMA OccursAt ==
  ASSUME NEW sql \in Seq(Rules!Token), NEW token
  PROVE  Rules!Occurs(token, sql) <=> \E i \in 1 .. Len(sql) : sql[i] = token
<1>1. DOMAIN sql = 1 .. Len(sql)
  BY LenProperties
<1> QED
  BY <1>1 DEF Rules!Occurs, Rules!Range

(* Semicolons are at the end of an accepted text only.                     *)
LEMMA OneStatement ==
  ASSUME NEW sql \in Seq(Rules!Token)
  PROVE  ~Rules!Occurs(Semicolon, Rules!TrimSemicolons(sql))
           <=> \A i, j \in 1 .. Len(sql) : i < j /\ sql[i] = Semicolon => sql[j] = Semicolon
<1>0. DOMAIN sql = 1 .. Len(sql)
  BY LenProperties
<1>1. Len(sql) \in Nat
  BY LenProperties
<1>2. CASE \A i \in 1 .. Len(sql) : sql[i] = Semicolon
  <2>1. Rules!TrimSemicolons(sql) = <<>>
    <3>1. {i \in DOMAIN sql : sql[i] # Semicolon} = {}
      BY <1>0, <1>2
    <3> QED
      BY <3>1, TrimSemicolonsIs, Zenon
  <2>2. ~Rules!Occurs(Semicolon, <<>>)
    BY DEF Rules!Occurs, Rules!Range
  <2> QED
    BY <1>2, <2>1, <2>2
<1>3. CASE \E i \in 1 .. Len(sql) : sql[i] # Semicolon
  <2>1. PICK m \in 1 .. Len(sql) : sql[m] # Semicolon
            /\ \A j \in 1 .. Len(sql) : m < j => sql[j] = Semicolon
    BY <1>3, LastThatIsNone
  <2> DEFINE u == Rules!TrimSemicolons(sql)
  <2>2. u \in Seq(Rules!Token) /\ Len(u) = m /\ \A i \in 1 .. m : u[i] = sql[i]
    BY <2>1, TrimSemicolonsCuts
  <2> HIDE DEF u
  <2>3. Rules!Occurs(Semicolon, u) <=> \E i \in 1 .. m : sql[i] = Semicolon
    BY <2>2, OccursAt
  <2>4. ASSUME NEW i \in 1 .. m, sql[i] = Semicolon PROVE i \in 1 .. Len(sql) /\ i < m
    <3>1. i # m
      BY <2>1, <2>4
    <3> QED
      BY <1>1, <3>1
  <2>5. ASSUME NEW i \in 1 .. Len(sql), NEW j \in 1 .. Len(sql),
               i < j, sql[i] = Semicolon, sql[j] # Semicolon
        PROVE  i \in 1 .. m
    <3>1. ~(m < j)
      BY <2>1, <2>5
    <3> QED
      BY <1>1, <2>5, <3>1
  <2> QED
    BY <2>1, <2>3, <2>4, <2>5 DEF u
<1> QED
  BY <1>2, <1>3

(* Every token is of one kind.                                             *)
LEMMA TokenKinds ==
  /\ \A t \in Rules!Token : t \in Rules!WordToken \/ t \in Rules!Blank \/ t \in Rules!Sign
  /\ \A t \in Rules!Sign : t \notin Rules!WordToken /\ t \notin Rules!Blank
  /\ \A t \in Rules!WordToken : t \notin Rules!Blank
<1>1. \A t \in Rules!Token : t \in Rules!WordToken \/ t \in Rules!Blank \/ t \in Rules!Sign
  BY Zenon DEF Rules!Token
<1>2. Rules!Sign = {Semicolon, "--", ")"}
  BY Zenon DEF Rules!Sign, Semicolon
<1>3. Semicolon \notin Rules!WordToken /\ Semicolon \notin Rules!Blank
  BY Zenon DEF Rules!WordToken, Rules!Blank, Semicolon
<1>4. \A t \in {"--", ")"} : t \notin Rules!WordToken /\ t \notin Rules!Blank
  BY DEF Rules!WordToken, Rules!Blank
<1>5. \A t \in Rules!WordToken : t \notin Rules!Blank
  BY DEF Rules!WordToken, Rules!Blank
<1> QED
  BY <1>1, <1>2, <1>3, <1>4, <1>5

LEMMA StartsAre ==
  ASSUME NEW sql \in Seq(Rules!Token)
  PROVE  /\ Rules!Starts(sql) \in SUBSET (0 .. Len(sql))
         /\ \A i : i \in Rules!Starts(sql) <=>
              /\ i \in 1 .. Len(sql) /\ sql[i] \notin Rules!Blank
              /\ sql[i] \in Rules!Sign \/ Rules!StartsWord(sql, i)
<1>1. DOMAIN sql = 1 .. Len(sql)
  BY LenProperties
<1>2. Rules!Starts(sql) = {i \in 1 .. Len(sql) :
                        /\ sql[i] \notin Rules!Blank
                        /\ sql[i] \in Rules!Sign \/ Rules!StartsWord(sql, i)}
  BY <1>1 DEF Rules!Starts
<1> QED
  BY <1>2

(* A word that ends is not shorter than any stretch of its tokens.         *)
LEMMA WordIsLongest ==
  ASSUME NEW sql \in Seq(Rules!Token), NEW i \in 1 .. Len(sql), NEW k \in i .. Len(sql),
         \A p \in i .. k : sql[p] \in Rules!WordToken,
         NEW e \in i .. Len(sql), Rules!EndsWord(sql, e)
  PROVE  k <= e
<1>1. Len(sql) \in Nat
  BY LenProperties
<1> SUFFICES ASSUME e < k PROVE FALSE
  BY <1>1
<1>2. e + 1 \in i .. k /\ e # Len(sql)
  BY <1>1
<1> QED
  BY <1>2 DEF Rules!EndsWord

LEMMA WordAtIs ==
  ASSUME NEW sql \in Seq(Rules!Token), NEW i \in Rules!Starts(sql)
  PROVE  \E e \in i .. Len(sql) :
           /\ Rules!WordAt(sql, i) \in Seq(Rules!Token)
           /\ Len(Rules!WordAt(sql, i)) = e - i + 1
           /\ \A x \in 1 .. e - i + 1 : Rules!WordAt(sql, i)[x] = sql[i + x - 1]
           /\ IF sql[i] \in Rules!Sign THEN e = i
              ELSE Rules!EndsWord(sql, e) /\ \A p \in i .. e : sql[p] \in Rules!WordToken
<1>1. Len(sql) \in Nat /\ \A p \in 1 .. Len(sql) : sql[p] \in Rules!Token
  BY LenProperties
<1>2. i \in 1 .. Len(sql) /\ sql[i] \notin Rules!Blank
  BY StartsAre
<1>3. CASE sql[i] \in Rules!Sign
  <2> DEFINE t == sql[i]
  <2>1. Rules!WordAt(sql, i) = <<t>>
    BY <1>3 DEF Rules!WordAt
  <2>2. t \in Rules!Token
    BY <1>1, <1>2
  <2> HIDE DEF t
  <2>3. <<t>> \in Seq(Rules!Token) /\ Len(<<t>>) = 1 /\ <<t>>[1] = t
    BY <2>2
  <2>4. i \in i .. Len(sql) /\ i - i + 1 = 1 /\ i + 1 - 1 = i
    BY <1>1, <1>2
  <2>5. \A x \in 1 .. i - i + 1 : <<t>>[x] = sql[i + x - 1]
    <3>1. \A x \in 1 .. 1 : x = 1
      OBVIOUS
    <3> QED
      BY <2>3, <2>4, <3>1 DEF t
  <2> QED
    BY <1>3, <2>1, <2>3, <2>4, <2>5
<1>4. CASE sql[i] \notin Rules!Sign
  <2>1. sql[i] \in Rules!WordToken
    BY <1>1, <1>2, <1>4, TokenKinds
  <2> DEFINE Word(k) == \A p \in i .. k : sql[p] \in Rules!WordToken
             reach == {k \in i .. Len(sql) : Word(k)}
             e == CHOOSE k \in i .. Len(sql) : Rules!EndsWord(sql, k) /\ Word(k)
  <2>2. \E k \in i .. Len(sql) : Rules!EndsWord(sql, k) /\ Word(k)
    <3>1. reach \in SUBSET (0 .. Len(sql)) /\ i \in reach
      <4>1. Word(i) /\ i \in i .. Len(sql)
        BY <1>1, <1>2, <2>1
      <4> QED
        BY <1>2, <4>1
    <3>2. PICK k \in reach : \A j \in reach : j <= k
      BY <1>1, <3>1, GreatestNat
    <3>3. k \in i .. Len(sql) /\ Word(k)
      BY <3>2
    <3>4. Rules!EndsWord(sql, k)
      <4> SUFFICES ASSUME k # Len(sql), sql[k + 1] \in Rules!WordToken PROVE FALSE
        BY DEF Rules!EndsWord
      <4>1. k + 1 \in i .. Len(sql) /\ ~(k + 1 <= k)
        BY <1>1, <1>2, <3>3
      <4>2. \A p \in i .. k + 1 : p \in i .. k \/ p = k + 1
        BY <1>2, <3>3
      <4>3. Word(k + 1)
        BY <3>3, <4>2
      <4> QED
        BY <3>2, <4>1, <4>3
    <3> QED
      BY <3>3, <3>4
  <2>3. e \in i .. Len(sql) /\ Rules!EndsWord(sql, e) /\ Word(e)
    BY <2>2
  <2>4. Rules!WordAt(sql, i) = SubSeq(sql, i, e)
    BY <1>4 DEF Rules!WordAt
  <2> HIDE DEF e
  <2>5. /\ SubSeq(sql, i, e) \in Seq(Rules!Token)
        /\ Len(SubSeq(sql, i, e)) = IF i <= e THEN e - i + 1 ELSE 0
        /\ \A x \in 1 .. e - i + 1 : SubSeq(sql, i, e)[x] = sql[i + x - 1]
    <3>1. i \in Int /\ e \in Int /\ \A p \in i .. e : sql[p] \in Rules!Token
      BY <1>1, <1>2, <2>3
    <3> QED
      BY <3>1, SubSeqProperties
  <2>6. (IF i <= e THEN e - i + 1 ELSE 0) = e - i + 1
    BY <1>2, <2>3
  <2> QED
    BY <1>4, <2>3, <2>4, <2>5, <2>6
<1> QED
  BY <1>3, <1>4

(* Every word token lies in a word.                                        *)
LEMMA WordBefore ==
  ASSUME NEW sql \in Seq(Rules!Token), NEW p \in 1 .. Len(sql), sql[p] \in Rules!WordToken
  PROVE  \E i \in Rules!Starts(sql) :
           i \in 1 .. p /\ \A q \in i .. p : sql[q] \in Rules!WordToken
<1>1. Len(sql) \in Nat
  BY LenProperties
<1> DEFINE back == {i \in 1 .. p : \A q \in i .. p : sql[q] \in Rules!WordToken}
<1>2. back \in SUBSET Nat /\ back # {}
  <2>1. p \in 1 .. p /\ \A q \in p .. p : q = p
    BY <1>1
  <2>2. \A q \in p .. p : sql[q] \in Rules!WordToken
    BY <2>1
  <2>3. p \in back
    BY <2>1, <2>2
  <2>4. \A i \in back : i \in Nat
    OBVIOUS
  <2> HIDE DEF back
  <2> QED
    BY <2>3, <2>4
<1>3. PICK i \in back : \A j \in back : i <= j
  BY <1>2, LeastNat
<1>4. i \in 1 .. p /\ \A q \in i .. p : sql[q] \in Rules!WordToken
  BY <1>3
<1>5. i \in 1 .. Len(sql) /\ sql[i] \in Rules!WordToken
  BY <1>1, <1>4
<1>6. Rules!StartsWord(sql, i)
  <2> SUFFICES ASSUME i # 1, sql[i - 1] \in Rules!WordToken PROVE FALSE
    BY DEF Rules!StartsWord
  <2>1. i - 1 \in 1 .. p /\ ~(i <= i - 1)
    BY <1>4
  <2>2. \A q \in i - 1 .. p : q = i - 1 \/ q \in i .. p
    BY <1>4
  <2>3. i - 1 \in back
    BY <1>4, <2>1, <2>2
  <2> QED
    BY <1>3, <2>1, <2>3
<1>7. i \in Rules!Starts(sql)
  BY <1>5, <1>6, StartsAre, TokenKinds
<1> QED
  BY <1>4, <1>7

LEMMA WordsAre ==
  ASSUME NEW sql \in Seq(Rules!Token)
  PROVE  LET size == Cardinality(Rules!Starts(sql))
         IN /\ size \in Nat /\ DOMAIN Rules!Words(sql) = 1 .. size /\ Len(Rules!Words(sql)) = size
            /\ \A n \in 1 .. size :
                 /\ Rules!Nth(Rules!Starts(sql), n) \in Rules!Starts(sql)
                 /\ Rules!Words(sql)[n] = Rules!WordAt(sql, Rules!Nth(Rules!Starts(sql), n))
            /\ \A i \in Rules!Starts(sql) :
                 /\ Rules!Rank(Rules!Starts(sql), i) \in 1 .. size
                 /\ Rules!Words(sql)[Rules!Rank(Rules!Starts(sql), i)] = Rules!WordAt(sql, i)
<1> DEFINE S == Rules!Starts(sql)
           size == Cardinality(S)
<1>1. S \in SUBSET (0 .. Len(sql)) /\ Len(sql) \in Nat
  BY StartsAre, LenProperties
<1>2. Rules!Words(sql) = [n \in 1 .. size |-> Rules!WordAt(sql, Rules!Nth(S, n))]
  BY SameCardinality DEF Rules!Words
<1> HIDE DEF S
<1>3. /\ size \in Nat
      /\ \A n \in 1 .. size : Rules!Nth(S, n) \in S
      /\ \A i \in S : Rules!Nth(S, Rules!Rank(S, i)) = i /\ Rules!Rank(S, i) \in 1 .. size
  BY <1>1, NthIsThere, RankRises
<1> HIDE DEF size
<1>4. /\ DOMAIN Rules!Words(sql) = 1 .. size /\ Len(Rules!Words(sql)) = size
      /\ \A n \in 1 .. size : Rules!Words(sql)[n] = Rules!WordAt(sql, Rules!Nth(S, n))
  BY <1>2, <1>3
<1>5. \A i \in S : Rules!Words(sql)[Rules!Rank(S, i)] = Rules!WordAt(sql, i)
  BY <1>3, <1>4
<1> QED
  BY <1>3, <1>4, <1>5 DEF S, size

(* What is said are the words that begin somewhere.                        *)
LEMMA SaidIs ==
  ASSUME NEW sql \in Seq(Rules!Token)
  PROVE  LET words == Rules!Words(sql)
             said == {words[n] : n \in DOMAIN words}
         IN \A w : w \in said <=> \E i \in Rules!Starts(sql) : w = Rules!WordAt(sql, i)
<1> DEFINE words == Rules!Words(sql)
           S == Rules!Starts(sql)
<1>1. /\ \A n \in DOMAIN words : Rules!Nth(S, n) \in S
                                   /\ words[n] = Rules!WordAt(sql, Rules!Nth(S, n))
      /\ \A i \in S : Rules!Rank(S, i) \in DOMAIN words
                    /\ words[Rules!Rank(S, i)] = Rules!WordAt(sql, i)
  BY WordsAre
<1> HIDE DEF words, S
<1> QED
  BY <1>1 DEF words, S

(* A word alone: between two word boundaries.                              *)
LEMMA SaidAlone ==
  ASSUME NEW sql \in Seq(Rules!Token), NEW t \in Rules!WordToken
  PROVE  (\E i \in Rules!Starts(sql) : <<t>> = Rules!WordAt(sql, i)) <=> Rules!MatchesWord(sql, t)
<1>0. Len(sql) \in Nat /\ t \notin Rules!Sign /\ t \notin Rules!Blank
  BY LenProperties, TokenKinds
<1>1. Len(<<t>>) = 1 /\ <<t>>[1] = t
  OBVIOUS
<1>2. ASSUME NEW i \in Rules!Starts(sql), <<t>> = Rules!WordAt(sql, i)
      PROVE  Rules!MatchesWord(sql, t)
  <2>1. PICK e \in i .. Len(sql) :
          /\ Len(Rules!WordAt(sql, i)) = e - i + 1
          /\ \A x \in 1 .. e - i + 1 : Rules!WordAt(sql, i)[x] = sql[i + x - 1]
          /\ IF sql[i] \in Rules!Sign THEN e = i
             ELSE Rules!EndsWord(sql, e) /\ \A p \in i .. e : sql[p] \in Rules!WordToken
    BY WordAtIs
  <2>2. /\ i \in 1 .. Len(sql)
        /\ sql[i] \in Rules!Sign \/ Rules!StartsWord(sql, i)
    BY StartsAre
  <2>3. 1 = e - i + 1 /\ \A x \in 1 .. e - i + 1 : <<t>>[x] = sql[i + x - 1]
    BY <1>1, <1>2, <2>1
  <2>4. e = i /\ 1 \in 1 .. e - i + 1 /\ i + 1 - 1 = i
    BY <2>2, <2>3
  <2>5. sql[i] = t
    BY <1>1, <2>3, <2>4
  <2>6. Rules!StartsWord(sql, i) /\ Rules!EndsWord(sql, i)
    BY <1>0, <2>1, <2>2, <2>4, <2>5
  <2>7. DOMAIN sql = 1 .. Len(sql)
    BY LenProperties
  <2> QED
    BY <2>2, <2>5, <2>6, <2>7 DEF Rules!MatchesWord
<1>3. ASSUME NEW i \in 1 .. Len(sql), sql[i] = t, Rules!StartsWord(sql, i), Rules!EndsWord(sql, i)
      PROVE  i \in Rules!Starts(sql) /\ <<t>> = Rules!WordAt(sql, i)
  <2>1. i \in Rules!Starts(sql)
    BY <1>0, <1>3, StartsAre
  <2>2. PICK e \in i .. Len(sql) :
          /\ Rules!WordAt(sql, i) \in Seq(Rules!Token)
          /\ Len(Rules!WordAt(sql, i)) = e - i + 1
          /\ \A x \in 1 .. e - i + 1 : Rules!WordAt(sql, i)[x] = sql[i + x - 1]
          /\ IF sql[i] \in Rules!Sign THEN e = i
             ELSE Rules!EndsWord(sql, e) /\ \A p \in i .. e : sql[p] \in Rules!WordToken
    BY <2>1, WordAtIs
  <2>3. \A p \in i .. e : sql[p] \in Rules!WordToken
    BY <1>0, <1>3, <2>2
  <2>4. e <= i
    <3>1. i \in i .. Len(sql)
      BY <1>0
    <3> QED
      BY <1>3, <2>2, <2>3, <3>1, WordIsLongest
  <2>5. e = i /\ e - i + 1 = 1 /\ i + 1 - 1 = i /\ 1 \in 1 .. 1
    BY <2>2, <2>4
  <2>6. Len(Rules!WordAt(sql, i)) = 1 /\ Rules!WordAt(sql, i)[1] = t
    BY <1>3, <2>2, <2>5
  <2>7. <<t>> \in Seq(Rules!Token)
    BY DEF Rules!Token
  <2> DEFINE w == Rules!WordAt(sql, i)
  <2>8. w \in Seq(Rules!Token) /\ Len(w) = 1 /\ w[1] = t
    BY <2>2, <2>6
  <2> HIDE DEF w
  <2>9. \A x \in 1 .. 1 : x = 1
    OBVIOUS
  <2>10. <<t>> = w
    BY <1>1, <2>7, <2>8, <2>9, SeqEqual
  <2> QED
    BY <2>1, <2>10 DEF w
<1>4. DOMAIN sql = 1 .. Len(sql)
  BY LenProperties
<1>5. Rules!MatchesWord(sql, t) <=>
        \E i \in 1 .. Len(sql) :
          sql[i] = t /\ Rules!StartsWord(sql, i) /\ Rules!EndsWord(sql, i)
  BY <1>4 DEF Rules!MatchesWord
<1> QED
  BY <1>2, <1>3, <1>5

(* A sign is a word of its own.                                            *)
LEMMA SaidSign ==
  ASSUME NEW sql \in Seq(Rules!Token), NEW t \in Rules!Sign
  PROVE  (\E i \in Rules!Starts(sql) : <<t>> = Rules!WordAt(sql, i)) <=> Rules!Occurs(t, sql)
<1>1. Len(<<t>>) = 1 /\ <<t>>[1] = t
  OBVIOUS
<1>2. ASSUME NEW i \in Rules!Starts(sql), <<t>> = Rules!WordAt(sql, i)
      PROVE  i \in 1 .. Len(sql) /\ sql[i] = t
  <2>1. PICK e \in i .. Len(sql) :
          /\ Len(Rules!WordAt(sql, i)) = e - i + 1
          /\ \A x \in 1 .. e - i + 1 : Rules!WordAt(sql, i)[x] = sql[i + x - 1]
    BY WordAtIs
  <2>2. i \in 1 .. Len(sql)
    BY StartsAre
  <2>3. 1 = e - i + 1 /\ \A x \in 1 .. e - i + 1 : <<t>>[x] = sql[i + x - 1]
    BY <1>1, <1>2, <2>1
  <2>4. 1 \in 1 .. e - i + 1 /\ i + 1 - 1 = i
    BY <2>2, <2>3
  <2> QED
    BY <1>1, <2>2, <2>3, <2>4
<1>3. ASSUME NEW i \in 1 .. Len(sql), sql[i] = t
      PROVE  i \in Rules!Starts(sql) /\ <<t>> = Rules!WordAt(sql, i)
  <2>1. i \in Rules!Starts(sql)
    BY <1>3, StartsAre, TokenKinds
  <2> QED
    BY <1>3, <2>1 DEF Rules!WordAt
<1> QED
  BY <1>2, <1>3, OccursAt

(* A word token is part of something said if and only if it occurs.        *)
LEMMA SaidIn ==
  ASSUME NEW sql \in Seq(Rules!Token), NEW t \in Rules!WordToken
  PROVE  (\E i \in Rules!Starts(sql) : \E x \in DOMAIN Rules!WordAt(sql, i) :
            Rules!WordAt(sql, i)[x] = t) <=> Rules!Occurs(t, sql)
<1>0. Len(sql) \in Nat
  BY LenProperties
<1>1. ASSUME NEW i \in Rules!Starts(sql), NEW x \in DOMAIN Rules!WordAt(sql, i),
             Rules!WordAt(sql, i)[x] = t
      PROVE  \E p \in 1 .. Len(sql) : sql[p] = t
  <2>1. PICK e \in i .. Len(sql) :
          /\ Rules!WordAt(sql, i) \in Seq(Rules!Token)
          /\ Len(Rules!WordAt(sql, i)) = e - i + 1
          /\ \A y \in 1 .. e - i + 1 : Rules!WordAt(sql, i)[y] = sql[i + y - 1]
    BY WordAtIs
  <2>2. i \in 1 .. Len(sql)
    BY StartsAre
  <2>3. x \in 1 .. e - i + 1
    <3>1. DOMAIN Rules!WordAt(sql, i) = 1 .. Len(Rules!WordAt(sql, i))
      BY <2>1, LenProperties
    <3> QED
      BY <2>1, <3>1
  <2>4. i + x - 1 \in 1 .. Len(sql)
    BY <1>0, <2>2, <2>3
  <2>5. sql[i + x - 1] = t
    BY <1>1, <2>1, <2>3
  <2> QED
    BY <2>4, <2>5
<1>2. ASSUME NEW p \in 1 .. Len(sql), sql[p] = t
      PROVE  \E i \in Rules!Starts(sql) : \E x \in DOMAIN Rules!WordAt(sql, i) :
               Rules!WordAt(sql, i)[x] = t
  <2>1. PICK i \in Rules!Starts(sql) :
          i \in 1 .. p /\ \A q \in i .. p : sql[q] \in Rules!WordToken
    BY <1>2, WordBefore
  <2>2. PICK e \in i .. Len(sql) :
          /\ Rules!WordAt(sql, i) \in Seq(Rules!Token)
          /\ Len(Rules!WordAt(sql, i)) = e - i + 1
          /\ \A x \in 1 .. e - i + 1 : Rules!WordAt(sql, i)[x] = sql[i + x - 1]
          /\ IF sql[i] \in Rules!Sign THEN e = i
             ELSE Rules!EndsWord(sql, e) /\ \A q \in i .. e : sql[q] \in Rules!WordToken
    BY WordAtIs
  <2>3. i \in 1 .. Len(sql) /\ p \in i .. Len(sql) /\ i \in i .. p
    BY <1>0, <2>1
  <2>4. sql[i] \in Rules!WordToken /\ sql[i] \notin Rules!Sign
    BY <2>1, <2>3, TokenKinds
  <2>5. p <= e
    BY <2>1, <2>2, <2>3, <2>4, WordIsLongest
  <2>6. p - i + 1 \in 1 .. e - i + 1 /\ i + (p - i + 1) - 1 = p
    BY <1>0, <2>1, <2>2, <2>5
  <2>7. Rules!WordAt(sql, i)[p - i + 1] = t
    BY <1>2, <2>2, <2>6
  <2>8. DOMAIN Rules!WordAt(sql, i) = 1 .. Len(Rules!WordAt(sql, i))
    BY <2>2, LenProperties
  <2>9. p - i + 1 \in DOMAIN Rules!WordAt(sql, i)
    BY <2>2, <2>6, <2>8
  <2> QED
    BY <2>7, <2>9
<1> QED
  BY <1>1, <1>2, OccursAt

(* The first word is the one that the text begins with.                    *)
LEMMA FirstWord ==
  ASSUME NEW sql \in Seq(Rules!Token), sql # <<>> => Len(sql) > 0 /\ sql[1] \notin Rules!Blank
  PROVE  /\ Rules!Words(sql) = <<>> <=> sql = <<>>
         /\ sql # <<>> => Rules!Words(sql)[1][1] = sql[1]
         /\ sql # <<>> => 1 \in DOMAIN Rules!Words(sql) /\ 1 \in DOMAIN Rules!Words(sql)[1]
<1> DEFINE S == Rules!Starts(sql)
           size == Cardinality(S)
<1>0. Len(sql) \in Nat /\ S \in SUBSET (0 .. Len(sql))
  BY LenProperties, StartsAre
<1>1. /\ size \in Nat /\ DOMAIN Rules!Words(sql) = 1 .. size /\ Len(Rules!Words(sql)) = size
      /\ \A n \in 1 .. size :
           Rules!Nth(S, n) \in S /\ Rules!Words(sql)[n] = Rules!WordAt(sql, Rules!Nth(S, n))
      /\ \A i \in S : Rules!Rank(S, i) \in 1 .. size
  BY WordsAre
<1>2. CASE sql = <<>>
  <2>1. S = {}
    <3>1. Len(sql) = 0
      BY <1>2, EmptySeq
    <3>2. \A i : i \notin 1 .. 0
      OBVIOUS
    <3> QED
      BY <3>1, <3>2, StartsAre
  <2> HIDE DEF S
  <2>2. size = 0
    BY <2>1, FS_EmptySet
  <2>3. Rules!Words(sql) = [n \in 1 .. 0 |-> Rules!WordAt(sql, Rules!Nth(S, n))]
    <3>1. Rules!Words(sql) = [n \in 1 .. size |-> Rules!WordAt(sql, Rules!Nth(S, n))]
      BY SameCardinality DEF Rules!Words, S
    <3> HIDE DEF size
    <3> QED
      BY <2>2, <3>1
  <2>4. [n \in 1 .. 0 |-> Rules!WordAt(sql, Rules!Nth(S, n))] = <<>>
    OBVIOUS
  <2> QED
    BY <1>2, <2>3, <2>4
<1>3. CASE sql # <<>>
  <2>1. Len(sql) > 0 /\ sql[1] \notin Rules!Blank
    BY <1>3
  <2>2. 1 \in 1 .. Len(sql) /\ Rules!StartsWord(sql, 1)
    BY <1>0, <2>1 DEF Rules!StartsWord
  <2>3. 1 \in S /\ \A i \in S : i \in 1 .. Len(sql)
    BY <2>1, <2>2, StartsAre
  <2> HIDE DEF S
  <2>4. Rules!Nth(S, 1) = 1
    <3>1. \A i \in S : i \in Int /\ 1 <= i
      BY <2>3
    <3>2. Rules!Rank(S, 1) \in 1 .. size
      BY <1>1, <2>3
    <3>3. 1 \in 1 .. size
      BY <1>1, <3>2
    <3>4. Rules!Nth(S, 1) \in S
      BY <1>1, <3>3
    <3>5. \A i \in S : Rules!Nth(S, Rules!Rank(S, i)) = i
      BY <1>0, NthIsThere
    <3>6. \A n, m \in 1 .. size : n < m => Rules!Nth(S, n) < Rules!Nth(S, m)
      BY <1>0, NthRises
    <3> HIDE DEF size
    <3>7. 1 < Rules!Rank(S, 1) => Rules!Nth(S, 1) < 1
      BY <3>2, <3>3, <3>5, <3>6, <2>3
    <3>8. Rules!Rank(S, 1) = 1
      BY <3>1, <3>2, <3>4, <3>7, <1>1
    <3> QED
      BY <2>3, <3>5, <3>8
  <2>5. 1 \in 1 .. size
    <3>1. Rules!Rank(S, 1) \in 1 .. size
      BY <1>1, <2>3
    <3> HIDE DEF size
    <3> QED
      BY <1>1, <3>1
  <2>6. Rules!Words(sql)[1] = Rules!WordAt(sql, 1)
    BY <1>1, <2>4, <2>5
  <2>7. Rules!WordAt(sql, 1)[1] = sql[1] /\ 1 \in DOMAIN Rules!WordAt(sql, 1)
    <3>1. PICK e \in 1 .. Len(sql) :
            /\ Rules!WordAt(sql, 1) \in Seq(Rules!Token)
            /\ Len(Rules!WordAt(sql, 1)) = e - 1 + 1
            /\ \A x \in 1 .. e - 1 + 1 : Rules!WordAt(sql, 1)[x] = sql[1 + x - 1]
      BY <2>3, WordAtIs DEF S
    <3>2. 1 \in 1 .. e - 1 + 1 /\ 1 + 1 - 1 = 1
      OBVIOUS
    <3>3. DOMAIN Rules!WordAt(sql, 1) = 1 .. Len(Rules!WordAt(sql, 1))
      BY <3>1, LenProperties
    <3> QED
      BY <3>1, <3>2, <3>3
  <2>8. Rules!Words(sql) # <<>>
    <3>1. Len(<<>>) = 0
      OBVIOUS
    <3>2. Len(Rules!Words(sql)) # 0
      <4> HIDE DEF size
      <4> QED
        BY <1>1, <2>5
    <3> QED
      BY <3>1, <3>2
  <2>9. 1 \in DOMAIN Rules!Words(sql)
    BY <1>1, <2>5
  <2> QED
    BY <1>3, <2>6, <2>7, <2>8, <2>9
<1> QED
  BY <1>2, <1>3

(* Between a word that ends at i and the start after it are blanks.        *)
LEMMA BlankBetween ==
  ASSUME NEW sql \in Seq(Rules!Token), NEW i \in 1 .. Len(sql), Rules!EndsWord(sql, i),
         i \in Rules!Starts(sql), NEW j \in 1 .. Len(sql),
         \A x \in Rules!Starts(sql) : ~(i < x /\ x < j)
  PROVE  \A p \in i + 1 .. j - 1 : sql[p] \in Rules!Blank
<1>1. Len(sql) \in Nat /\ \A p \in 1 .. Len(sql) : sql[p] \in Rules!Token
  BY LenProperties
<1> SUFFICES ASSUME NEW p \in i + 1 .. j - 1, sql[p] \notin Rules!Blank PROVE FALSE
  OBVIOUS
<1>2. p \in 1 .. Len(sql) /\ i < p /\ p < j /\ p \in i .. Len(sql)
  BY <1>1
<1>3. CASE sql[p] \in Rules!Sign
  <2>1. p \in Rules!Starts(sql)
    BY <1>2, <1>3, StartsAre
  <2> QED
    BY <1>2, <2>1
<1>4. CASE sql[p] \notin Rules!Sign
  <2>1. sql[p] \in Rules!WordToken
    BY <1>1, <1>2, <1>4, TokenKinds
  <2>2. PICK x \in Rules!Starts(sql) :
          x \in 1 .. p /\ \A q \in x .. p : sql[q] \in Rules!WordToken
    BY <1>2, <2>1, WordBefore
  <2>3. x <= i
    <3>1. x < j
      BY <1>2, <2>2
    <3> QED
      BY <2>2, <3>1
  <2>4. \A q \in i .. p : sql[q] \in Rules!WordToken
    BY <2>2, <2>3
  <2>5. i \in i .. Len(sql)
    BY <1>1
  <2>6. p <= i
    BY <1>2, <2>4, <2>5, WordIsLongest
  <2> QED
    BY <1>2, <2>6
<1> QED
  BY <1>3, <1>4

(* LIMIT and a number, as two words that follow each other.                *)
LEMMA PlaceInWord ==
  ASSUME NEW j \in Int, NEW k \in Int, NEW p \in j .. k
  PROVE  p - j + 1 \in 1 .. k - j + 1 /\ j + (p - j + 1) - 1 = p
  OBVIOUS

LEMMA LimitsAre ==
  ASSUME NEW sql \in Seq(Rules!Token)
  PROVE  Rules!Limits(sql) # {} <=> Rules!MatchesLimit(sql)
<1> DEFINE S == Rules!Starts(sql)
           size == Cardinality(S)
           words == Rules!Words(sql)
<1>0. Len(sql) \in Nat /\ S \in SUBSET (0 .. Len(sql))
  BY LenProperties, StartsAre
<1>1. /\ size \in Nat /\ Len(words) = size
      /\ \A n \in 1 .. size : Rules!Nth(S, n) \in S /\ words[n] = Rules!WordAt(sql, Rules!Nth(S, n))
      /\ \A i \in S : Rules!Rank(S, i) \in 1 .. size
                      /\ words[Rules!Rank(S, i)] = Rules!WordAt(sql, i)
  BY WordsAre
<1>2. Rules!Limits(sql) = {n \in 1 .. size - 1 : words[n] = <<"limit">>
                                               /\ Rules!IsNumber(words[n + 1])}
  BY <1>1 DEF Rules!Limits
<1>3. /\ \A i \in S : Rules!Nth(S, Rules!Rank(S, i)) = i
      /\ \A n \in 1 .. size : Rules!Rank(S, Rules!Nth(S, n)) = n
  BY <1>0, NthIsThere
<1>4. /\ \A n, m \in 1 .. size : n < m => Rules!Nth(S, n) < Rules!Nth(S, m)
      /\ \A n \in 1 .. size : n + 1 \in 1 .. size =>
           \A x \in S : ~(Rules!Nth(S, n) < x /\ x < Rules!Nth(S, n + 1))
  BY <1>0, NthRises
<1>5. "limit" \in Rules!WordToken /\ "9" \in Rules!WordToken
  BY DEF Rules!WordToken
<1>6. \A i : i \in S <=> /\ i \in 1 .. Len(sql) /\ sql[i] \notin Rules!Blank
                         /\ sql[i] \in Rules!Sign \/ Rules!StartsWord(sql, i)
  BY StartsAre
<1> HIDE DEF S, size, words
<1>7. ASSUME NEW i \in S
      PROVE  \E e \in i .. Len(sql) :
               /\ DOMAIN Rules!WordAt(sql, i) = 1 .. e - i + 1
               /\ \A x \in 1 .. e - i + 1 : Rules!WordAt(sql, i)[x] = sql[i + x - 1]
               /\ sql[i] \in Rules!WordToken =>
                    Rules!EndsWord(sql, e) /\ \A p \in i .. e : sql[p] \in Rules!WordToken
  <2>1. PICK e \in i .. Len(sql) :
          /\ Rules!WordAt(sql, i) \in Seq(Rules!Token)
          /\ Len(Rules!WordAt(sql, i)) = e - i + 1
          /\ \A x \in 1 .. e - i + 1 : Rules!WordAt(sql, i)[x] = sql[i + x - 1]
          /\ IF sql[i] \in Rules!Sign THEN e = i
             ELSE Rules!EndsWord(sql, e) /\ \A p \in i .. e : sql[p] \in Rules!WordToken
    BY WordAtIs DEF S
  <2>2. DOMAIN Rules!WordAt(sql, i) = 1 .. Len(Rules!WordAt(sql, i))
    BY <2>1, LenProperties
  <2>3. sql[i] \in Rules!WordToken => sql[i] \notin Rules!Sign
    BY TokenKinds
  <2> QED
    BY <2>1, <2>2, <2>3
<1>8. ASSUME NEW n \in Rules!Limits(sql) PROVE Rules!MatchesLimit(sql)
  <2> DEFINE i == Rules!Nth(S, n)
             j == Rules!Nth(S, n + 1)
  <2>1. /\ n \in 1 .. size /\ n + 1 \in 1 .. size /\ n < n + 1
        /\ words[n] = <<"limit">> /\ Rules!IsNumber(words[n + 1])
    BY <1>1, <1>2
  <2>2. i \in S /\ j \in S /\ words[n] = Rules!WordAt(sql, i) /\ words[n + 1] = Rules!WordAt(sql, j)
    BY <1>1, <2>1
  <2>3. i < j /\ \A x \in S : ~(i < x /\ x < j)
    BY <1>4, <2>1
  <2> HIDE DEF i, j
  <2>4. i \in 1 .. Len(sql) /\ j \in 1 .. Len(sql)
    BY <1>6, <2>2
  <2>5. PICK e \in i .. Len(sql) :
          /\ DOMAIN Rules!WordAt(sql, i) = 1 .. e - i + 1
          /\ \A x \in 1 .. e - i + 1 : Rules!WordAt(sql, i)[x] = sql[i + x - 1]
          /\ sql[i] \in Rules!WordToken =>
               Rules!EndsWord(sql, e) /\ \A p \in i .. e : sql[p] \in Rules!WordToken
    BY <1>7, <2>2
  <2>6. e = i
    <3>1. 1 .. e - i + 1 = 1 .. 1
      <4>1. DOMAIN <<"limit">> = 1 .. 1
        OBVIOUS
      <4>2. Rules!WordAt(sql, i) = <<"limit">>
        BY <2>1, <2>2
      <4> QED
        BY <2>5, <4>1, <4>2
    <3>2. e - i + 1 \in 1 .. e - i + 1
      BY <2>4
    <3>3. e - i + 1 \in 1 .. 1
      BY <3>1, <3>2
    <3> QED
      BY <2>4, <3>3
  <2>7. sql[i] = "limit"
    <3>1. 1 \in 1 .. e - i + 1 /\ i + 1 - 1 = i
      BY <2>4, <2>6
    <3> QED
      BY <2>1, <2>2, <2>5, <3>1
  <2>8. Rules!EndsWord(sql, i) /\ Rules!StartsWord(sql, i)
    <3>1. "limit" \notin Rules!Sign
      BY <1>5, TokenKinds
    <3> QED
      BY <1>5, <1>6, <2>2, <2>5, <2>6, <2>7, <3>1
  <2>9. \A p \in i + 1 .. j - 1 : sql[p] \in Rules!Blank
    BY <2>2, <2>3, <2>4, <2>8, BlankBetween DEF S
  <2>10. PICK k \in j .. Len(sql) :
          /\ DOMAIN Rules!WordAt(sql, j) = 1 .. k - j + 1
          /\ \A x \in 1 .. k - j + 1 : Rules!WordAt(sql, j)[x] = sql[j + x - 1]
          /\ sql[j] \in Rules!WordToken =>
               Rules!EndsWord(sql, k) /\ \A p \in j .. k : sql[p] \in Rules!WordToken
    BY <1>7, <2>2
  <2>11. ASSUME NEW p \in j .. k PROVE sql[p] = "9"
    <3>0. k \in Int
      BY <2>10
    <3>1. p - j + 1 \in 1 .. k - j + 1 /\ j + (p - j + 1) - 1 = p
      BY <2>4, <3>0, PlaceInWord
    <3>2. Rules!WordAt(sql, j)[p - j + 1] = "9"
      BY <2>1, <2>2, <2>10, <3>1 DEF Rules!IsNumber
    <3> QED
      BY <2>10, <3>1, <3>2
  <2>12. sql[j] = "9"
    BY <2>4, <2>10, <2>11
  <2>13. Rules!EndsWord(sql, k)
    BY <1>5, <2>10, <2>12
  <2>14. i + 1 < j
    <3> SUFFICES ASSUME j = i + 1 PROVE FALSE
      BY <2>3, <2>4
    <3>1. i # Len(sql)
      BY <2>4
    <3> QED
      BY <1>5, <2>8, <2>12, <3>1 DEF Rules!EndsWord
  <2>15. k \in 1 .. Len(sql) /\ j <= k
    BY <2>4, <2>10
  <2>16. DOMAIN sql = 1 .. Len(sql)
    BY LenProperties
  <2>17. i \in DOMAIN sql /\ j \in DOMAIN sql /\ k \in DOMAIN sql
    BY <2>4, <2>15, <2>16
  <2> QED
    BY <2>7, <2>8, <2>9, <2>11, <2>13, <2>14, <2>15, <2>17 DEF Rules!MatchesLimit
<1>9. ASSUME Rules!MatchesLimit(sql) PROVE Rules!Limits(sql) # {}
  <2>0. DOMAIN sql = 1 .. Len(sql)
    BY LenProperties
  <2>1. PICK i \in 1 .. Len(sql), j \in 1 .. Len(sql), k \in 1 .. Len(sql) :
          /\ i + 1 < j /\ j <= k
          /\ sql[i] = "limit" /\ Rules!StartsWord(sql, i)
          /\ \A p \in i + 1 .. j - 1 : sql[p] \in Rules!Blank
          /\ \A p \in j .. k : sql[p] = "9"
          /\ Rules!EndsWord(sql, k)
    BY <1>9, <2>0 DEF Rules!MatchesLimit
  <2>2. i \in S
    BY <1>5, <1>6, <2>1, TokenKinds
  <2>3. i + 1 \in i + 1 .. j - 1 /\ j - 1 \in i + 1 .. j - 1 /\ j \in j .. k
    BY <2>1
  <2>4. Rules!EndsWord(sql, i)
    BY <2>1, <2>3, TokenKinds DEF Rules!EndsWord
  <2>5. sql[j] = "9" /\ Rules!StartsWord(sql, j)
    BY <2>1, <2>3, TokenKinds DEF Rules!StartsWord
  <2>6. j \in S
    BY <1>5, <1>6, <2>5, TokenKinds
  <2>7. \A x \in S : ~(i < x /\ x < j)
    <3> SUFFICES ASSUME NEW x \in S, i < x, x < j PROVE FALSE
      OBVIOUS
    <3>1. x \in 1 .. Len(sql) /\ sql[x] \notin Rules!Blank
      BY <1>6
    <3>2. x \in i + 1 .. j - 1
      BY <3>1
    <3> QED
      BY <2>1, <3>1, <3>2
  <2> DEFINE n == Rules!Rank(S, i)
             m == Rules!Rank(S, j)
  <2>8. /\ n \in 1 .. size /\ m \in 1 .. size
        /\ Rules!Nth(S, n) = i /\ Rules!Nth(S, m) = j
        /\ words[n] = Rules!WordAt(sql, i) /\ words[m] = Rules!WordAt(sql, j)
    BY <1>1, <1>3, <2>2, <2>6
  <2> HIDE DEF n, m
  <2>9. n < m
    <3>1. m < n => j < i
      BY <1>4, <2>8
    <3>2. m = n => j = i
      BY <2>8
    <3>3. i < j
      BY <2>1
    <3> QED
      BY <1>1, <2>8, <3>1, <3>2, <3>3
  <2>10. m = n + 1
    <3> SUFFICES ASSUME n + 1 < m PROVE FALSE
      BY <1>1, <2>8, <2>9
    <3>1. n + 1 \in 1 .. size /\ n < n + 1
      BY <1>1, <2>8
    <3>2. Rules!Nth(S, n + 1) \in S /\ i < Rules!Nth(S, n + 1) /\ Rules!Nth(S, n + 1) < j
      BY <1>1, <1>4, <2>8, <3>1
    <3> QED
      BY <2>7, <3>2
  <2>11. Rules!WordAt(sql, i) = <<"limit">>
    <3>1. PICK e \in i .. Len(sql) :
            /\ Rules!WordAt(sql, i) \in Seq(Rules!Token)
            /\ Len(Rules!WordAt(sql, i)) = e - i + 1
            /\ \A x \in 1 .. e - i + 1 : Rules!WordAt(sql, i)[x] = sql[i + x - 1]
            /\ IF sql[i] \in Rules!Sign THEN e = i
               ELSE Rules!EndsWord(sql, e) /\ \A p \in i .. e : sql[p] \in Rules!WordToken
      BY <2>2, WordAtIs DEF S
    <3>2. \A p \in i .. e : sql[p] \in Rules!WordToken
      BY <1>5, <2>1, <3>1, TokenKinds
    <3>3. e <= i
      <4>1. i \in i .. Len(sql)
        BY <1>0
      <4> QED
        BY <2>4, <3>1, <3>2, <4>1, WordIsLongest
    <3>4. e = i /\ e - i + 1 = 1 /\ i + 1 - 1 = i /\ 1 \in 1 .. 1
      BY <3>1, <3>3
    <3> DEFINE w == Rules!WordAt(sql, i)
    <3>5. w \in Seq(Rules!Token) /\ Len(w) = 1 /\ w[1] = "limit"
      BY <2>1, <3>1, <3>4
    <3>6. <<"limit">> \in Seq(Rules!Token) /\ Len(<<"limit">>) = 1 /\ <<"limit">>[1] = "limit"
      <4>1. "limit" \in Rules!Token
        BY <1>5 DEF Rules!Token
      <4> QED
        BY <4>1
    <3>7. \A x \in 1 .. 1 : x = 1
      OBVIOUS
    <3> HIDE DEF w
    <3>8. w = <<"limit">>
      BY <3>5, <3>6, <3>7, SeqEqual
    <3> QED
      BY <3>8 DEF w
  <2>12. Rules!IsNumber(Rules!WordAt(sql, j))
    <3>1. PICK e \in j .. Len(sql) :
            /\ DOMAIN Rules!WordAt(sql, j) = 1 .. e - j + 1
            /\ \A x \in 1 .. e - j + 1 : Rules!WordAt(sql, j)[x] = sql[j + x - 1]
            /\ sql[j] \in Rules!WordToken =>
                 Rules!EndsWord(sql, e) /\ \A p \in j .. e : sql[p] \in Rules!WordToken
      BY <1>7, <2>6
    <3>2. \A p \in j .. e : sql[p] \in Rules!WordToken
      BY <1>5, <2>5, <3>1
    <3>3. e <= k
      <4>1. k \in j .. Len(sql)
        BY <2>1
      <4> QED
        BY <2>1, <3>1, <3>2, <4>1, WordIsLongest
    <3>4. ASSUME NEW x \in DOMAIN Rules!WordAt(sql, j) PROVE Rules!WordAt(sql, j)[x] = "9"
      <4>1. x \in 1 .. e - j + 1
        BY <3>1
      <4>2. j + x - 1 \in j .. k
        BY <2>1, <3>1, <3>3, <4>1
      <4> QED
        BY <2>1, <3>1, <4>1, <4>2
    <3> QED
      BY <3>4 DEF Rules!IsNumber
  <2>13. n \in 1 .. size - 1
    BY <1>1, <2>8, <2>10
  <2> QED
    BY <1>2, <2>8, <2>10, <2>11, <2>12, <2>13
<1> QED
  BY <1>8, <1>9

(* What the checks let through.                                            *)
Accepted(sql) ==
  /\ sql # <<>>
  /\ ~Rules!Occurs("--", sql)
  /\ ~Rules!Occurs(Semicolon, Rules!TrimSemicolons(sql))
  /\ ~Rules!MatchesWord(sql, "drop")
  /\ sql[1] \in {"select", "with"}
  /\ sql[1] = "with" => Rules!Occurs("select", sql)
  /\ ~Rules!MatchesWord(sql, "users")
  /\ Rules!MatchesLimit(sql)

LEMMA AcceptedIs ==
  ASSUME NEW raw
  PROVE  Rules!CheckSQL(raw) = "ok" <=> Accepted(Rules!TrimBlank(raw))
<1> DEFINE sql == Rules!TrimBlank(raw)
           verdict ==
             IF sql = <<>> THEN "required"
             ELSE IF Rules!Occurs("--", sql) THEN "comment"
             ELSE IF Rules!Occurs(Semicolon, Rules!TrimSemicolons(sql)) THEN "many"
             ELSE IF Rules!MatchesWord(sql, "drop") THEN "dangerous"
             ELSE IF sql[1] \notin {"select", "with"} THEN "not_select"
             ELSE IF sql[1] = "with" /\ ~Rules!Occurs("select", sql) THEN "cte"
             ELSE IF Rules!MatchesWord(sql, "users") THEN "blocked"
             ELSE IF ~Rules!MatchesLimit(sql) THEN "limit"
             ELSE "ok"
<1>1. Rules!CheckSQL(raw) = verdict
  BY Zenon DEF Rules!CheckSQL, Semicolon
<1> HIDE DEF sql
<1>2. verdict = "ok" <=> Accepted(sql)
  BY DEF Accepted
<1> QED
  BY <1>1, <1>2 DEF sql

(* A text is accepted by its words, and by what two of them begin with.    *)
LEMMA SqlIsJudged == ASSUME InputStays, ResultIsComputed PROVE SqlIsJudgedByWords
<1> DEFINE sql == Rules!TrimBlank(input)
           words == Rules!Words(sql)
           said == {words[n] : n \in DOMAIN words}
           ByWords ==
             /\ words # <<>>
             /\ words[1][1] \in {"select", "with"}
             /\ \E w \in said : \E i \in DOMAIN w : w[i] = "select"
             /\ said \cap {<<"--">>, <<"drop">>, <<"users">>} = {}
             /\ \A i, j \in DOMAIN sql : i < j /\ sql[i] = Semicolon => sql[j] = Semicolon
             /\ Rules!Limits(sql) # {}
<1>1. (Done("sql") => (output = "ok" <=> ByWords)) => SqlIsJudgedByWords
  BY Zenon DEF SqlIsJudgedByWords, Semicolon
<1> SUFFICES ASSUME Done("sql") PROVE output = "ok" <=> ByWords
  BY <1>1
<1>2. input \in Seq(Rules!Token) /\ output = Rules!CheckSQL(input)
  BY InputsAssumption DEF InputStays, ResultIsComputed, Done
<1>3. output = "ok" <=> Accepted(sql)
  BY <1>2, AcceptedIs
<1>4. sql \in Seq(Rules!Token) /\ (sql # <<>> => Len(sql) > 0 /\ sql[1] \notin Rules!Blank)
  BY <1>2, TrimBlankCuts
<1> HIDE DEF sql
<1>5. /\ words = <<>> <=> sql = <<>>
      /\ sql # <<>> => words[1][1] = sql[1]
  BY <1>4, FirstWord
<1>6. \A w : w \in said <=> \E i \in Rules!Starts(sql) : w = Rules!WordAt(sql, i)
  BY <1>4, SaidIs
<1>7. <<"--">> \in said <=> Rules!Occurs("--", sql)
  <2>1. "--" \in Rules!Sign
    BY Zenon DEF Rules!Sign
  <2> QED
    BY <1>4, <1>6, <2>1, SaidSign
<1>8. /\ <<"drop">> \in said <=> Rules!MatchesWord(sql, "drop")
      /\ <<"users">> \in said <=> Rules!MatchesWord(sql, "users")
  <2>1. "drop" \in Rules!WordToken /\ "users" \in Rules!WordToken
    BY DEF Rules!WordToken
  <2> QED
    BY <1>4, <1>6, <2>1, SaidAlone
<1>9. (\E w \in said : \E i \in DOMAIN w : w[i] = "select") <=> Rules!Occurs("select", sql)
  <2>1. "select" \in Rules!WordToken
    BY DEF Rules!WordToken
  <2>2. (\E w \in said : \E i \in DOMAIN w : w[i] = "select")
          <=> \E i \in Rules!Starts(sql) : \E x \in DOMAIN Rules!WordAt(sql, i) :
                Rules!WordAt(sql, i)[x] = "select"
    <3> HIDE DEF said
    <3> QED
      BY <1>6
  <2> QED
    BY <1>4, <2>1, <2>2, SaidIn
<1>10. ~Rules!Occurs(Semicolon, Rules!TrimSemicolons(sql))
         <=> \A i, j \in DOMAIN sql : i < j /\ sql[i] = Semicolon => sql[j] = Semicolon
  <2>1. DOMAIN sql = 1 .. Len(sql)
    BY <1>4, LenProperties
  <2> QED
    BY <1>4, <2>1, OneStatement
<1>11. Rules!Limits(sql) # {} <=> Rules!MatchesLimit(sql)
  BY <1>4, LimitsAre
<1>12. sql # <<>> /\ sql[1] = "select" => Rules!Occurs("select", sql)
  <2>1. Len(sql) \in Nat
    BY <1>4, LenProperties
  <2>2. sql # <<>> => 1 \in 1 .. Len(sql)
    BY <1>4, <2>1
  <2> QED
    BY <1>4, <2>2, OccursAt
<1>13. said \cap {<<"--">>, <<"drop">>, <<"users">>} = {}
         <=> <<"--">> \notin said /\ <<"drop">> \notin said /\ <<"users">> \notin said
  <2> HIDE DEF said
  <2> QED
    OBVIOUS
<1> HIDE DEF words, said
<1> QED
  BY <1>3, <1>5, <1>7, <1>8, <1>9, <1>10, <1>11, <1>12, <1>13 DEF Accepted

(* Where select and with stand alone, the beginning and the part of a word *)
(* that the policy finds are words.                                        *)
LEMMA SelectIsAWord ==
  ASSUME InputStays, ResultIsComputed, SqlIsJudgedByWords PROVE SelectIsSaid
<1> DEFINE sql == Rules!TrimBlank(input)
           words == Rules!Words(sql)
           said == {words[n] : n \in DOMAIN words}
           IsAlone(t) == \A w \in said : (\E i \in DOMAIN w : w[i] = t) => w = <<t>>
<1> SUFFICES ASSUME Done("sql"), output = "ok", IsAlone("select"), IsAlone("with")
             PROVE  words[1] \in {<<"select">>, <<"with">>} /\ <<"select">> \in said
  BY Zenon DEF SelectIsSaid
<1>1. /\ words # <<>>
      /\ words[1][1] \in {"select", "with"}
      /\ \E w \in said : \E i \in DOMAIN w : w[i] = "select"
  BY Zenon DEF SqlIsJudgedByWords
<1>2. input \in Seq(Rules!Token)
  BY InputsAssumption DEF InputStays, Done
<1>3. sql \in Seq(Rules!Token) /\ (sql # <<>> => Len(sql) > 0 /\ sql[1] \notin Rules!Blank)
  BY <1>2, TrimBlankCuts
<1> HIDE DEF sql
<1>4. 1 \in DOMAIN words /\ 1 \in DOMAIN words[1]
  BY <1>1, <1>3, FirstWord
<1> HIDE DEF words
<1>5. words[1] \in said
  BY <1>4
<1> HIDE DEF said
<1>6. <<"select">> \in said
  BY ONLY <1>1, IsAlone("select")
<1> QED
  BY ONLY <1>1, <1>4, <1>5, <1>6, IsAlone("select"), IsAlone("with")

(* A limit that the policy has found is there for QueryReadonly, unless    *)
(* blanks or a sign hide it.                                               *)
Plain(sql) ==
  \A i \in DOMAIN sql :
    /\ sql[i] \notin {"newline", ")"}
    /\ i > 1 => ~(sql[i] = " " /\ sql[i - 1] = " ")

LEMMA LimitsDoAgree == ASSUME InputStays, ResultIsComputed PROVE LimitsAgree
<1> SUFFICES ASSUME Done("sql"), output = "ok", Plain(input)
             PROVE  Rules!EnforceLimit(input) = input
  BY DEF LimitsAgree, Plain
<1> DEFINE sql == Rules!TrimBlank(input)
<1>1. input \in Seq(Rules!Token) /\ output = Rules!CheckSQL(input)
  BY InputsAssumption DEF InputStays, ResultIsComputed, Done
<1>2. Accepted(sql)
  BY <1>1, AcceptedIs
<1>3. /\ sql \in Seq(Rules!Token)
      /\ sql # <<>>
      /\ \E from \in 1 .. Len(input) :
           /\ from + Len(sql) - 1 <= Len(input)
           /\ \A i \in 1 .. Len(sql) : sql[i] = input[from + i - 1]
  BY <1>1, <1>2, TrimBlankCuts DEF Accepted
<1> HIDE DEF sql
<1>4. PICK from \in 1 .. Len(input) :
           /\ from + Len(sql) - 1 <= Len(input)
           /\ \A i \in 1 .. Len(sql) : sql[i] = input[from + i - 1]
  BY <1>3
<1>5. Len(input) \in Nat /\ Len(sql) \in Nat
  BY <1>1, <1>3, LenProperties
<1>6. DOMAIN input = 1 .. Len(input) /\ DOMAIN sql = 1 .. Len(sql)
  BY <1>1, <1>3, LenProperties
<1>7. PICK i \in 1 .. Len(sql), j \in 1 .. Len(sql) :
        /\ i + 1 < j
        /\ sql[i] = "limit" /\ Rules!StartsWord(sql, i)
        /\ \A p \in i + 1 .. j - 1 : sql[p] \in Rules!Blank
  BY <1>2, <1>6 DEF Accepted, Rules!MatchesLimit
<1>8. \A p \in 1 .. Len(sql) :
        /\ from + p - 1 \in 1 .. Len(input) /\ sql[p] = input[from + p - 1]
        /\ sql[p] \in Rules!Token /\ sql[p] \notin {"newline", ")"}
  <2> SUFFICES ASSUME NEW p \in 1 .. Len(sql)
               PROVE  /\ from + p - 1 \in 1 .. Len(input) /\ sql[p] = input[from + p - 1]
                      /\ sql[p] \in Rules!Token /\ sql[p] \notin {"newline", ")"}
    OBVIOUS
  <2>1. from + p - 1 \in 1 .. Len(input)
    BY <1>4, <1>5
  <2>2. sql[p] \in Rules!Token
    BY <1>3, LenProperties
  <2> QED
    BY <1>4, <1>6, <2>1, <2>2 DEF Plain
<1>9. i # 1
  BY <1>2, <1>7 DEF Accepted
<1>10. sql[i - 1] = " "
  <2>1. i - 1 \in 1 .. Len(sql) /\ i - 1 < i
    BY <1>5, <1>9
  <2>2. sql[i - 1] \notin Rules!WordToken /\ sql[i - 1] \in Rules!Token
    BY <1>7, <1>8, <1>9, <2>1 DEF Rules!StartsWord
  <2>3. sql[i - 1] \in Rules!Blank \/ sql[i - 1] \in Rules!Sign
    BY <2>2, TokenKinds
  <2>4. sql[i - 1] \in {" ", "newline"} \/ sql[i - 1] \in {Semicolon, "--", ")"}
    BY <2>3, Zenon DEF Rules!Blank, Rules!Sign, Semicolon
  <2>5. sql[i - 1] # "--"
    BY <1>2, <1>3, <2>1, OccursAt DEF Accepted
  <2>6. sql[i - 1] # Semicolon
    <3> SUFFICES ASSUME sql[i - 1] = Semicolon PROVE FALSE
      OBVIOUS
    <3>1. sql[i] = Semicolon
      <4>1. \A x, y \in 1 .. Len(sql) : x < y /\ sql[x] = Semicolon => sql[y] = Semicolon
        BY <1>2, <1>3, OneStatement DEF Accepted
      <4> QED
        BY <2>1, <4>1
    <3>2. "limit" # Semicolon
      BY Zenon DEF Semicolon
    <3> QED
      BY <1>7, <3>1, <3>2
  <2> QED
    BY <1>8, <2>1, <2>4, <2>5, <2>6
<1>11. sql[i + 1] = " "
  <2>1. i + 1 \in i + 1 .. j - 1 /\ i + 1 \in 1 .. Len(sql)
    BY <1>5, <1>7
  <2>2. sql[i + 1] \in {" ", "newline"}
    BY <1>7, <2>1 DEF Rules!Blank
  <2> QED
    BY <1>8, <2>1, <2>2
<1> DEFINE m == from + i - 1
<1>12. /\ m \in 2 .. Len(input) - 1
       /\ i - 1 \in 1 .. Len(sql) /\ from + (i - 1) - 1 = m - 1
       /\ i + 1 \in 1 .. Len(sql) /\ from + (i + 1) - 1 = m + 1
  BY <1>4, <1>5, <1>7, <1>9
<1>13. input[m - 1] = " " /\ input[m] = "limit" /\ input[m + 1] = " "
  <2>1. sql[i - 1] = input[m - 1] /\ sql[i] = input[m] /\ sql[i + 1] = input[m + 1]
    BY <1>4, <1>12
  <2> QED
    BY <1>7, <1>10, <1>11, <2>1
<1> HIDE DEF m
<1> QED
  BY <1>12, <1>13 DEF Rules!EnforceLimit

(* A limit behind an accepted text, without the semicolons at its end.     *)
Appended == <<" ", "limit", " ", "9">>

LEMMA ThereIsOne == ASSUME NEW s, Len(s) > 0 PROVE s # <<>>
  OBVIOUS

LEMMA FourTokens ==
  ASSUME NEW T, NEW a \in T, NEW b \in T, NEW c \in T, NEW d \in T
  PROVE  LET s == <<a, b, c, d>>
         IN /\ s \in Seq(T) /\ Len(s) = 4
            /\ s[1] = a /\ s[2] = b /\ s[3] = c /\ s[4] = d
  OBVIOUS

LEMMA AppendedIs ==
  /\ Appended \in Seq(Rules!Token) /\ Len(Appended) = 4
  /\ Appended[1] = " " /\ Appended[2] = "limit" /\ Appended[3] = " " /\ Appended[4] = "9"
<1>1. " " \in Rules!Token /\ "limit" \in Rules!Token /\ "9" \in Rules!Token
  BY DEF Rules!Token, Rules!WordToken, Rules!Blank
<1> QED
  BY ONLY <1>1, FourTokens, Zenon DEF Appended

(* The places of a text of m tokens with a limit behind it.                *)
LEMMA PlacesBehind ==
  ASSUME NEW m \in Nat
  PROVE  /\ \A i \in 1 .. m + 4 : \/ i \in 1 .. m
                                  \/ i = m + 1 \/ i = m + 2 \/ i = m + 3 \/ i = m + 4
         /\ \A i \in 1 .. m : /\ i # 1 => i - 1 \in 1 .. m
                              /\ i # m + 4 /\ i \in 1 .. m + 4
         /\ m + 2 \in 1 .. m + 4 /\ m + 4 \in 1 .. m + 4
         /\ (m + 2) - 1 = m + 1 /\ (m + 2) + 1 < m + 4 /\ m + 4 <= m + 4
         /\ m + 2 # 1 /\ m + 4 > 0
         /\ \A p \in (m + 2) + 1 .. (m + 4) - 1 : p = m + 3
         /\ \A p \in m + 4 .. m + 4 : p = m + 4
  OBVIOUS

(* The places within a text of n tokens, of which the first m are left.    *)
LEMMA PlacesWithin ==
  ASSUME NEW n \in Nat, NEW m \in 1 .. n
  PROVE  /\ m \in Nat /\ 1 \in 1 .. m
         /\ \A i \in 1 .. m : i \in 1 .. n /\ (i # n => i + 1 \in 1 .. n)
         /\ \A i \in 1 .. n : ~(m < i) => i \in 1 .. m
         /\ \A i \in 1 .. n : i \notin 1 .. m => m < i
  OBVIOUS

(* What is sent: the first m tokens of the text, and a limit.              *)
HasLimitAt(sent, m) ==
  sent[m + 1] = " " /\ sent[m + 2] = "limit" /\ sent[m + 3] = " " /\ sent[m + 4] = "9"

IsSent(sent, u, m) ==
  /\ sent \in Seq(Rules!Token) /\ Len(sent) = m + 4
  /\ \A i \in 1 .. m : sent[i] = u[i]
  /\ HasLimitAt(sent, m)
  /\ \A i \in 1 .. m + 4 :
       i \in 1 .. m \/ i = m + 1 \/ i = m + 2 \/ i = m + 3 \/ i = m + 4

(* What is sent: u is the text without its semicolons, whose length is m.  *)
LEMMA SentHas ==
  ASSUME NEW u \in Seq(Rules!Token), NEW m \in Nat, Len(u) = m
  PROVE  LET sent == u \o Appended
         IN IsSent(sent, u, m)
<1> DEFINE sent == u \o Appended
<1>1. /\ sent \in Seq(Rules!Token) /\ Len(sent) = Len(u) + Len(Appended)
      /\ \A i \in 1 .. Len(u) + Len(Appended) :
           sent[i] = IF i <= Len(u) THEN u[i] ELSE Appended[i - Len(u)]
  BY AppendedIs, ConcatProperties
<1> HIDE DEF sent
<1>2. \A i \in 1 .. m + 4 : sent[i] = IF i <= m THEN u[i] ELSE Appended[i - m]
  BY <1>1, AppendedIs
<1>3. \A i \in 1 .. m : i \in 1 .. m + 4 /\ i <= m
  OBVIOUS
<1>4. \A i \in 1 .. m : sent[i] = u[i]
  BY <1>2, <1>3
<1>5. \A k \in 1 .. 4 : m + k \in 1 .. m + 4 /\ ~(m + k <= m) /\ (m + k) - m = k
  OBVIOUS
<1>6. \A k \in 1 .. 4 : sent[m + k] = Appended[k]
  BY <1>2, <1>5
<1>7. 1 \in 1 .. 4 /\ 2 \in 1 .. 4 /\ 3 \in 1 .. 4 /\ 4 \in 1 .. 4
  OBVIOUS
<1>8. \A i \in 1 .. m + 4 :
        i \in 1 .. m \/ i = m + 1 \/ i = m + 2 \/ i = m + 3 \/ i = m + 4
  OBVIOUS
<1> QED
  <2>1. HasLimitAt(sent, m)
    BY <1>6, <1>7, AppendedIs DEF HasLimitAt
  <2>2. sent \in Seq(Rules!Token) /\ Len(sent) = m + 4
    BY <1>1, AppendedIs
  <2> QED
    BY <1>4, <1>8, <2>1, <2>2 DEF IsSent, sent

Continues(sent, sql, m) ==
  /\ Len(sent) = m + 4
  /\ \A i \in 1 .. m : sent[i] = sql[i]
  /\ HasLimitAt(sent, m)

\* Behind its first m tokens the text has only semicolons.
SignsAfter(sql, m) == \A j \in 1 .. Len(sql) : m < j => sql[j] = Semicolon

(* A word of what is sent, but for the limit, is a word of the text: what  *)
(* comes behind the text begins with a blank, and semicolons end a word.   *)
LEMMA SentSays ==
  ASSUME NEW sql \in Seq(Rules!Token), NEW m \in 1 .. Len(sql), NEW sent \in Seq(Rules!Token),
         Continues(sent, sql, m), SignsAfter(sql, m),
         NEW t \in {"drop", "users"}, Rules!MatchesWord(sent, t)
  PROVE  Rules!MatchesWord(sql, t)
<1>1. Len(sql) \in Nat
  BY LenProperties
<1>2. Semicolon \notin Rules!WordToken
  <2>1. Semicolon \in Rules!Sign
    BY Zenon DEF Rules!Sign, Semicolon
  <2> QED
    BY <2>1, TokenKinds
<1>3. DOMAIN sql = 1 .. Len(sql) /\ DOMAIN sent = 1 .. Len(sent)
  BY LenProperties
<1>4. m \in Nat
  BY <1>1
<1>5. Len(sent) = m + 4 /\ \A i \in 1 .. m : sent[i] = sql[i]
  BY DEF Continues
<1>6. PICK i \in 1 .. m + 4 : sent[i] = t /\ Rules!StartsWord(sent, i) /\ Rules!EndsWord(sent, i)
  BY <1>3, <1>5 DEF Rules!MatchesWord
<1>7. i \in 1 .. m
  <2>1. i \in 1 .. m \/ i = m + 1 \/ i = m + 2 \/ i = m + 3 \/ i = m + 4
    BY <1>4, PlacesBehind
  <2>2. t # " " /\ t # "limit" /\ t # "9"
    OBVIOUS
  <2> QED
    BY <1>6, <2>1, <2>2 DEF Continues, HasLimitAt
<1>8. i \in 1 .. Len(sql) /\ sql[i] = t
  BY <1>1, <1>5, <1>6, <1>7, PlacesWithin
<1>9. Rules!StartsWord(sql, i)
  <2>1. i # 1 => i - 1 \in 1 .. m
    BY <1>4, <1>7, PlacesBehind
  <2>2. i = 1 \/ sent[i - 1] \notin Rules!WordToken
    BY <1>6 DEF Rules!StartsWord
  <2> QED
    BY <1>5, <2>1, <2>2 DEF Rules!StartsWord
<1>10. Rules!EndsWord(sql, i)
  <2> SUFFICES ASSUME i # Len(sql) PROVE sql[i + 1] \notin Rules!WordToken
    BY DEF Rules!EndsWord
  <2>1. i + 1 \in 1 .. Len(sql)
    BY <1>1, <1>7, PlacesWithin
  <2>2. CASE i + 1 \in 1 .. m
    <3>1. i # m + 4
      BY <1>4, <1>7, PlacesBehind
    <3>2. sent[i + 1] \notin Rules!WordToken
      BY <1>5, <1>6, <3>1 DEF Rules!EndsWord
    <3> QED
      BY <1>5, <2>2, <3>2
  <2>3. CASE i + 1 \notin 1 .. m
    <3>1. m < i + 1
      BY <1>1, <2>1, <2>3, PlacesWithin
    <3>2. sql[i + 1] = Semicolon
      BY <2>1, <3>1 DEF SignsAfter
    <3> QED
      BY <1>2, <3>2
  <2> QED
    BY <2>2, <2>3
<1> QED
  BY <1>3, <1>8, <1>9, <1>10 DEF Rules!MatchesWord

LEMMA SentIsLimited ==
  ASSUME NEW m \in Nat, NEW sent \in Seq(Rules!Token), Len(sent) = m + 4, HasLimitAt(sent, m)
  PROVE  Rules!MatchesLimit(sent)
<1>1. DOMAIN sent = 1 .. Len(sent)
  BY LenProperties
<1>2. m + 2 \in DOMAIN sent /\ m + 4 \in DOMAIN sent
  BY <1>1, PlacesBehind
<1>3. (m + 2) + 1 < m + 4 /\ m + 4 <= m + 4
  BY PlacesBehind
<1>4. sent[m + 2] = "limit"
  BY DEF HasLimitAt
<1>5. Rules!StartsWord(sent, m + 2)
  <2>1. (m + 2) - 1 = m + 1
    BY PlacesBehind
  <2>2. " " \notin Rules!WordToken
    BY DEF Rules!WordToken
  <2>3. sent[(m + 2) - 1] \notin Rules!WordToken
    BY <2>1, <2>2 DEF HasLimitAt
  <2> QED
    BY <2>3, Zenon DEF Rules!StartsWord
<1>6. \A p \in (m + 2) + 1 .. (m + 4) - 1 : sent[p] \in Rules!Blank
  <2>1. \A p \in (m + 2) + 1 .. (m + 4) - 1 : p = m + 3
    BY PlacesBehind
  <2>2. sent[m + 3] \in Rules!Blank
    BY DEF Rules!Blank, HasLimitAt
  <2> QED
    BY <2>1, <2>2, Zenon
<1>7. \A p \in m + 4 .. m + 4 : sent[p] = "9"
  <2>1. \A p \in m + 4 .. m + 4 : p = m + 4
    BY PlacesBehind
  <2>2. sent[m + 4] = "9"
    BY DEF HasLimitAt
  <2> QED
    BY <2>1, <2>2, Zenon
<1>8. Rules!EndsWord(sent, m + 4)
  BY Zenon DEF Rules!EndsWord
<1> HIDE DEF HasLimitAt
<1> QED
  BY <1>2, <1>3, <1>4, <1>5, <1>6, <1>7, <1>8 DEF Rules!MatchesLimit

(* An accepted text is accepted again when a limit is put behind it.       *)
LEMMA SentAccepted ==
  ASSUME NEW sql \in Seq(Rules!Token), Len(sql) > 0, sql[1] \notin Rules!Blank, Accepted(sql)
  PROVE  LET sent == Rules!TrimSemicolons(sql) \o Appended
         IN Rules!TrimBlank(sent) = sent /\ Accepted(sent)
<1> DEFINE u == Rules!TrimSemicolons(sql)
           sent == u \o Appended
<1>1. Len(sql) \in Nat
  BY LenProperties
<1>2. 1 \in 1 .. Len(sql) /\ sql[1] # Semicolon
  <2>1. "select" # Semicolon /\ "with" # Semicolon
    BY Zenon DEF Semicolon
  <2> QED
    BY <1>1, <2>1 DEF Accepted
<1>3. PICK m \in 1 .. Len(sql) :
        sql[m] # Semicolon /\ \A j \in 1 .. Len(sql) : m < j => sql[j] = Semicolon
  BY <1>2, LastThatIsNone
<1>4. u \in Seq(Rules!Token) /\ Len(u) = m /\ \A i \in 1 .. m : u[i] = sql[i]
  BY <1>3, TrimSemicolonsCuts
<1>5. /\ m \in Nat /\ 1 \in 1 .. m
      /\ \A i \in 1 .. m : i \in 1 .. Len(sql)
      /\ \A i \in 1 .. Len(sql) : ~(m < i) => i \in 1 .. m
  BY <1>1, PlacesWithin
<1> HIDE DEF u
<1>6. /\ sent \in Seq(Rules!Token) /\ Len(sent) = m + 4
      /\ \A i \in 1 .. m : sent[i] = u[i]
      /\ HasLimitAt(sent, m)
      /\ \A i \in 1 .. m + 4 :
           i \in 1 .. m \/ i = m + 1 \/ i = m + 2 \/ i = m + 3 \/ i = m + 4
  <2>1. IsSent(u \o Appended, u, m)
    BY ONLY <1>4, <1>5, SentHas, Zenon
  <2> QED
    BY ONLY <2>1 DEF IsSent, sent
<1> HIDE DEF sent
<1>7. \A i \in 1 .. m : sent[i] = sql[i]
  BY <1>4, <1>6
<1>8. sent[1] = sql[1]
  BY <1>5, <1>7
<1>9. m + 4 > 0 /\ sent[m + 4] \notin Rules!Blank
  <2>1. m + 4 > 0
    BY <1>5, PlacesBehind
  <2>2. sent[m + 4] = "9" /\ "9" \notin Rules!Blank
    BY <1>6 DEF Rules!Blank, HasLimitAt
  <2> QED
    BY <2>1, <2>2
<1>10. Rules!TrimBlank(sent) = sent
  <2>1. sent[1] \notin Rules!Blank /\ Len(sent) > 0 /\ sent[Len(sent)] \notin Rules!Blank
    BY <1>6, <1>8, <1>9
  <2> QED
    BY <1>6, <2>1, TrimBlankKeeps
<1>11. sent # <<>>
  <2>1. Len(sent) > 0
    BY <1>6, <1>9
  <2> QED
    BY <2>1, ThereIsOne
<1>12. ~Rules!Occurs("--", sent)
  <2>1. \A i \in 1 .. Len(sql) : sql[i] # "--"
    BY OccursAt DEF Accepted
  <2>2. \A i \in 1 .. m + 4 : sent[i] # "--"
    BY <1>5, <1>6, <1>7, <2>1 DEF HasLimitAt
  <2> QED
    BY <1>6, <2>2, OccursAt
<1>13. ~Rules!Occurs(Semicolon, Rules!TrimSemicolons(sent))
  <2>1. \A i \in 1 .. m : sent[i] # Semicolon
    <3>1. ~Rules!Occurs(Semicolon, u)
      BY DEF Accepted, u
    <3> QED
      BY <1>4, <1>6, <3>1, OccursAt
  <2>2. " " # Semicolon /\ "limit" # Semicolon /\ "9" # Semicolon
    BY Zenon DEF Semicolon
  <2>3. \A i \in 1 .. m + 4 : sent[i] # Semicolon
    BY <1>6, <2>1, <2>2 DEF HasLimitAt
  <2> QED
    BY <1>6, <2>3, OneStatement
<1>14. ~Rules!MatchesWord(sent, "drop") /\ ~Rules!MatchesWord(sent, "users")
  <2>1. Continues(sent, sql, m) /\ SignsAfter(sql, m)
    BY <1>3, <1>6, <1>7 DEF Continues, SignsAfter
  <2>2. \A t \in {"drop", "users"} : Rules!MatchesWord(sent, t) => Rules!MatchesWord(sql, t)
    BY <1>6, <2>1, SentSays
  <2> QED
    BY <2>2 DEF Accepted
<1>15. sent[1] \in {"select", "with"}
  BY <1>8 DEF Accepted
<1>16. sent[1] = "with" => Rules!Occurs("select", sent)
  <2> SUFFICES ASSUME sql[1] = "with" PROVE Rules!Occurs("select", sent)
    BY <1>8
  <2>1. PICK p \in 1 .. Len(sql) : sql[p] = "select"
    BY OccursAt DEF Accepted
  <2>2. "select" # Semicolon
    BY Zenon DEF Semicolon
  <2>3. ~(m < p)
    BY <1>3, <2>1, <2>2
  <2>4. p \in 1 .. m
    BY <1>5, <2>3
  <2>5. p \in 1 .. m + 4
    BY <1>5, <2>4, PlacesBehind
  <2>6. sent[p] = "select"
    BY <1>7, <2>1, <2>4
  <2> QED
    BY <1>6, <2>5, <2>6, OccursAt
<1>17. Rules!MatchesLimit(sent)
  BY <1>5, <1>6, SentIsLimited
<1> QED
  BY <1>10, <1>11, <1>12, <1>13, <1>14, <1>15, <1>16, <1>17 DEF Accepted, sent, u

LEMMA SentWillPass == ASSUME InputStays, ResultIsComputed PROVE SentIsAccepted
<1> SUFFICES ASSUME Done("sql"), output = "ok"
             PROVE  Rules!CheckSQL(Rules!EnforceLimit(input)) = "ok"
  BY DEF SentIsAccepted
<1> DEFINE sql == Rules!TrimBlank(input)
           sent == Rules!TrimSemicolons(sql) \o Appended
<1>1. input \in Seq(Rules!Token) /\ output = Rules!CheckSQL(input)
  BY InputsAssumption DEF InputStays, ResultIsComputed, Done
<1>2. Accepted(sql)
  BY <1>1, AcceptedIs
<1>3. sql \in Seq(Rules!Token) /\ Len(sql) > 0 /\ sql[1] \notin Rules!Blank
  BY <1>1, <1>2, TrimBlankCuts DEF Accepted
<1>4. Rules!EnforceLimit(input) = input \/ Rules!EnforceLimit(input) = sent
  BY DEF Rules!EnforceLimit, Appended
<1> HIDE DEF sql
<1>5. Rules!TrimBlank(sent) = sent /\ Accepted(sent)
  BY <1>2, <1>3, SentAccepted
<1> HIDE DEF sent
<1>6. Rules!CheckSQL(sent) = "ok"
  BY <1>5, AcceptedIs
<1> QED
  BY <1>1, <1>4, <1>6

(* For every text of SQL and every host: comments, statements, dangerous   *)
(* words, tables and limits are judged by words, never by a part of one;   *)
(* select and with by the beginning of the first word and by any part of a *)
(* word, which are words where they occur in no longer ones; hosts by their*)
(* labels; and QueryReadonly sends what was judged.                        *)
THEOREM RulesAreRight == Spec => []RulesHold
<1>1. InputStays /\ ResultIsComputed => RulesHold
  BY SqlIsJudged, SelectIsAWord, SentWillPass, LimitsDoAgree, HostsAreListed DEF RulesHold
<1> QED
  BY <1>1, ResultInv, PTL
-----------------------------------------------------------------------------
(* The masks. *)

(* What is below a node that a walk has yet to go through is not in it.    *)
SensitiveOf(value, n) == {c \in Hide!Below(value, n) : Sensitive(value, c)}

WalkedOn(value, walk, n, kinds) ==
  Hide!Walked(value, walk, n, SensitiveOf(value, n),
    {c \in Hide!Below(value, n) \ SensitiveOf(value, n) : value.kind[c] \in kinds})

LEMMA ValueHas ==
  ASSUME NEW value, Hide!IsValue(value)
  PROVE  /\ Hide!Root \in DOMAIN value.kind
         /\ DOMAIN value.parent = DOMAIN value.kind \ {Hide!Root}
         /\ \A n \in DOMAIN value.kind : value.kind[n] \in {"map", "list", "leaf"}
         /\ \A n \in DOMAIN value.parent :
              /\ value.parent[n] \in DOMAIN value.kind
              /\ value.kind[value.parent[n]] # "leaf"
BY DEF Hide!IsValue

LEMMA BeginFits ==
  ASSUME NEW value, Hide!IsValue(value), NEW kinds,
         value.kind[Hide!Root] \in kinds \cup {"leaf"}
  PROVE  /\ WalkFits(value, Hide!Begin(value))
         /\ WalkIsCopy(value, Hide!Begin(value), kinds)
<1> DEFINE walk == Hide!Begin(value)
<1>1. /\ walk.kept = {Hide!Root} /\ walk.masked = {} /\ walk.names = {}
      /\ walk.open = {Hide!Root} \ {n \in DOMAIN value.kind : value.kind[n] = "leaf"}
  BY DEF Hide!Begin
<1> HIDE DEF walk
<1>2. WalkFits(value, walk)
  BY <1>1, ValueHas DEF WalkFits
<1>3. \A n \in walk.open : value.kind[n] \in kinds
  BY <1>1, ValueHas
<1>4. ASSUME NEW n \in DOMAIN value.parent
      PROVE  n \notin walk.kept /\ ~WentThrough(value, walk, kinds, value.parent[n])
  <2>1. n # Hide!Root /\ value.kind[value.parent[n]] # "leaf"
    BY ValueHas
  <2> QED
    BY <1>1, <2>1 DEF WentThrough
<1>5. WalkIsCopy(value, walk, kinds)
  BY <1>1, <1>3, <1>4 DEF WalkIsCopy
<1> QED
  BY <1>2, <1>5 DEF walk

LEMMA WalkedKeeps ==
  ASSUME NEW value, Hide!IsValue(value), NEW kinds, "leaf" \notin kinds,
         NEW walk, WalkFits(value, walk), WalkIsCopy(value, walk, kinds), NEW n \in walk.open
  PROVE  /\ WalkFits(value, WalkedOn(value, walk, n, kinds))
         /\ WalkIsCopy(value, WalkedOn(value, walk, n, kinds), kinds)
<1> DEFINE after == WalkedOn(value, walk, n, kinds)
           below == Hide!Below(value, n)
           hidden == SensitiveOf(value, n)
           shown == below \ hidden
           opened == {c \in shown : value.kind[c] \in kinds}
<1>1. /\ after.open = (walk.open \ {n}) \cup opened /\ after.kept = walk.kept \cup shown
      /\ after.masked = walk.masked \cup hidden
      /\ after.names = walk.names \cup {value.key[c] : c \in hidden}
  BY DEF WalkedOn, Hide!Walked
<1>2. \A c : c \in below <=> c \in DOMAIN value.parent /\ value.parent[c] = n
  BY DEF Hide!Below
<1>3. \A c : c \in hidden <=> c \in below /\ Sensitive(value, c)
  BY DEF SensitiveOf
<1>4. \A c \in below : c \notin walk.kept /\ c \notin walk.masked
  BY <1>2 DEF WalkIsCopy, WentThrough
<1>5. n \in walk.kept /\ value.kind[n] \in kinds
  BY DEF WalkFits, WalkIsCopy
<1> HIDE DEF after, below, hidden
<1>6. WalkFits(value, after)
  <2>1. below \subseteq DOMAIN value.parent /\ below \subseteq DOMAIN value.kind /\ hidden \subseteq below
    BY <1>2, <1>3, ValueHas
  <2>2. after.names = {value.key[c] : c \in after.masked}
    BY <1>1 DEF WalkFits
  <2>3. Hide!Root \in after.kept /\ after.open \subseteq after.kept
    BY <1>1 DEF WalkFits
  <2>4. after.kept \subseteq DOMAIN value.kind /\ after.masked \subseteq DOMAIN value.parent
    BY <1>1, <2>1 DEF WalkFits
  <2> QED
    BY <2>2, <2>3, <2>4 DEF WalkFits
<1>7. \A c \in after.open : value.kind[c] \in kinds
  BY <1>1 DEF WalkIsCopy
<1>8. ASSUME NEW c \in DOMAIN value.parent
      PROVE  WentThrough(value, after, kinds, value.parent[c])
               <=> WentThrough(value, walk, kinds, value.parent[c]) \/ c \in below
  <2>1. CASE value.parent[c] = n
    <3>1. n \in after.kept /\ n \notin opened
      BY <1>1, <1>4, <1>5
    <3> QED
      BY <1>1, <1>2, <1>5, <2>1, <3>1 DEF WentThrough
  <2>2. CASE value.parent[c] # n
    <3> DEFINE p == value.parent[c]
    <3>1. c \notin below
      BY <1>2, <2>2
    <3>2. CASE p \in shown
      <4>1. p \notin walk.kept
        BY <1>4, <3>2
      <4>2. value.kind[p] \in kinds => p \in after.open
        BY <1>1, <3>2
      <4> QED
        BY <3>1, <4>1, <4>2 DEF WentThrough
    <3>3. CASE p \notin shown
      <4>1. (p \in after.kept <=> p \in walk.kept) /\ (p \in after.open <=> p \in walk.open)
        BY <1>1, <2>2, <3>3
      <4> QED
        BY <3>1, <4>1 DEF WentThrough
    <3> QED
      BY <3>2, <3>3
  <2> QED
    BY <2>1, <2>2
<1>9. WalkIsCopy(value, after, kinds)
  <2>1. ASSUME NEW c \in DOMAIN value.parent
        PROVE  /\ c \in after.kept
                    <=> WentThrough(value, after, kinds, value.parent[c]) /\ ~Sensitive(value, c)
               /\ c \in after.masked
                    <=> WentThrough(value, after, kinds, value.parent[c]) /\ Sensitive(value, c)
    <3>1. /\ c \in walk.kept
               <=> WentThrough(value, walk, kinds, value.parent[c]) /\ ~Sensitive(value, c)
          /\ c \in walk.masked
               <=> WentThrough(value, walk, kinds, value.parent[c]) /\ Sensitive(value, c)
      BY DEF WalkIsCopy
    <3> QED
      BY <1>1, <1>3, <1>8, <3>1
  <2> QED
    BY <1>7, <2>1 DEF WalkIsCopy
<1> QED
  BY <1>6, <1>9 DEF after

(* Both functions take such a step: what is below a map is a field.        *)
LEMMA SanitizeWalks ==
  ASSUME NEW value, NEW walk, NEW n, value.kind[n] = "map"
  PROVE  Hide!SanitizeInput(value, walk, n) = WalkedOn(value, walk, n, {"map"})
<1>1. Hide!SensitiveBelow(value, n) = SensitiveOf(value, n)
  BY DEF Hide!SensitiveBelow, SensitiveOf, Sensitive, Hide!Below
<1>2. \A k : k = "map" <=> k \in {"map"}
  OBVIOUS
<1> QED
  BY <1>1, <1>2 DEF Hide!SanitizeInput, WalkedOn

LEMMA MaskWalks ==
  ASSUME NEW value, Hide!IsValue(value), NEW walk, NEW n, NEW fields,
         \A name \in fields : Hide!IsSensitiveField(name)
  PROVE  Hide!MaskSensitive(value, walk, n, fields) = WalkedOn(value, walk, n, {"map", "list"})
<1> DEFINE hidden == {c \in Hide!Below(value, n) :
                        /\ value.kind[n] = "map"
                        /\ Hide!IsSensitiveField(value.key[c]) \/ value.key[c] \in fields}
<1>1. hidden = SensitiveOf(value, n)
  BY DEF SensitiveOf, Sensitive, Hide!Below
<1>2. \A c \in Hide!Below(value, n) : value.kind[c] # "leaf" <=> value.kind[c] \in {"map", "list"}
  <2>1. \A c \in Hide!Below(value, n) : c \in DOMAIN value.kind
    BY ValueHas DEF Hide!Below
  <2> QED
    BY <2>1, ValueHas
<1> DEFINE rest == Hide!Below(value, n) \ SensitiveOf(value, n)
<1>3. {c \in rest : value.kind[c] # "leaf"} = {c \in rest : value.kind[c] \in {"map", "list"}}
  BY <1>2
<1>4. Hide!MaskSensitive(value, walk, n, fields)
        = Hide!Walked(value, walk, n, hidden,
            {c \in Hide!Below(value, n) \ hidden : value.kind[c] # "leaf"})
  BY DEF Hide!MaskSensitive
<1> QED
  BY <1>1, <1>3, <1>4 DEF WalkedOn

\* The names that one walk reports are sensitive without being reported.
LEMMA NamesAreSensitive ==
  ASSUME NEW value, NEW walk, NEW kinds, WalkFits(value, walk), WalkIsCopy(value, walk, kinds)
  PROVE  \A name \in walk.names : Hide!IsSensitiveField(name)
<1>1. \A c \in walk.masked : c \in DOMAIN value.parent
  BY DEF WalkFits
<1>2. \A c \in walk.masked : Sensitive(value, c)
  BY <1>1 DEF WalkIsCopy
<1>3. walk.names = {value.key[c] : c \in walk.masked}
  BY DEF WalkFits
<1> QED
  BY <1>2, <1>3 DEF Sensitive

LEMMA MaskInput ==
  ASSUME InputStays, kind = "map"
  PROVE  /\ Hide!IsValue(input.given) /\ Hide!IsValue(input.data)
         /\ input.given.kind[Hide!Root] = "map"
BY InputsAssumption DEF InputStays

(* What is in the walk for the tool is in a walk for the audit that ended. *)
LEMMA StaysWithin ==
  ASSUME NEW value, NEW audit, WalkIsCopy(value, audit, {"map", "list"}), audit.open = {},
         NEW sane, WalkFits(value, sane), WalkIsCopy(value, sane, {"map"}),
         sane.kept \subseteq audit.kept, sane.masked \subseteq audit.masked,
         NEW n \in sane.open
  PROVE  LET after == WalkedOn(value, sane, n, {"map"})
         IN after.kept \subseteq audit.kept /\ after.masked \subseteq audit.masked
<1> DEFINE after == WalkedOn(value, sane, n, {"map"})
<1>1. /\ after.kept = sane.kept \cup (Hide!Below(value, n) \ SensitiveOf(value, n))
      /\ after.masked = sane.masked \cup SensitiveOf(value, n)
  BY DEF WalkedOn, Hide!Walked
<1>2. WentThrough(value, audit, {"map", "list"}, n)
  <2>1. n \in audit.kept
    BY DEF WalkFits
  <2>2. value.kind[n] = "map"
    BY DEF WalkIsCopy
  <2> QED
    BY <2>1, <2>2 DEF WentThrough
<1>3. \A c \in Hide!Below(value, n) :
        IF Sensitive(value, c) THEN c \in audit.masked ELSE c \in audit.kept
  BY <1>2 DEF WalkIsCopy, Hide!Below
<1>4. SensitiveOf(value, n) = {c \in Hide!Below(value, n) : Sensitive(value, c)}
  BY DEF SensitiveOf
<1> HIDE DEF after
<1>5. after.kept \subseteq audit.kept /\ after.masked \subseteq audit.masked
  BY <1>1, <1>3, <1>4
<1> QED
  BY <1>5 DEF after

LEMMA MaskStepKeeps ==
  ASSUME InputStays, MaskLoop, kind = "map", MaskAudit \/ Sanitize \/ MaskAnswer
  PROVE  MaskLoop'
<1> DEFINE given == input.given
           data == input.data
           both == {"map", "list"}
<1>1. /\ loop = [audit |-> loop.audit, sane |-> loop.sane, answer |-> loop.answer]
      /\ WalkFits(given, loop.audit) /\ WalkIsCopy(given, loop.audit, both)
      /\ WalkFits(given, loop.sane) /\ WalkIsCopy(given, loop.sane, {"map"})
      /\ WalkFits(data, loop.answer) /\ WalkIsCopy(data, loop.answer, both)
      /\ loop.sane.kept \subseteq loop.audit.kept /\ loop.sane.masked \subseteq loop.audit.masked
  BY DEF MaskLoop
<1>2. Hide!IsValue(given) /\ Hide!IsValue(data)
  BY MaskInput
<1>3. ~done /\ ~done' /\ input' = input /\ kind' = kind
  BY DEF MaskAudit, Sanitize, MaskAnswer, Running, Pass
<1>4. "leaf" \notin both /\ "leaf" \notin {"map"}
  OBVIOUS
<1>5. SUFFICES
        /\ loop' = [audit |-> loop'.audit, sane |-> loop'.sane, answer |-> loop'.answer]
        /\ WalkFits(given, loop'.audit) /\ WalkIsCopy(given, loop'.audit, both)
        /\ WalkFits(given, loop'.sane) /\ WalkIsCopy(given, loop'.sane, {"map"})
        /\ WalkFits(data, loop'.answer) /\ WalkIsCopy(data, loop'.answer, both)
        /\ loop'.sane.kept \subseteq loop'.audit.kept
        /\ loop'.sane.masked \subseteq loop'.audit.masked
  BY <1>3 DEF MaskLoop, WalkFits, WalkIsCopy
<1> HIDE DEF both
<1>6. CASE MaskAudit
  <2>1. PICK n \in loop.audit.open :
          loop' = [loop EXCEPT !.audit = Hide!MaskSensitive(given, loop.audit, n, {})]
    BY <1>6 DEF MaskAudit, Pass
  <2> DEFINE after == WalkedOn(given, loop.audit, n, both)
  <2>2. Hide!MaskSensitive(given, loop.audit, n, {}) = after
    BY <1>2, MaskWalks DEF both
  <2>3. WalkFits(given, after) /\ WalkIsCopy(given, after, both)
    BY <1>1, <1>2, <1>4, WalkedKeeps
  <2>4. loop.audit.kept \subseteq after.kept /\ loop.audit.masked \subseteq after.masked
    BY DEF WalkedOn, Hide!Walked
  <2> HIDE DEF after
  <2>5. loop' = [audit |-> after, sane |-> loop.sane, answer |-> loop.answer]
    BY <1>1, <2>1, <2>2
  <2> QED
    BY <1>1, <2>3, <2>4, <2>5
<1>7. CASE Sanitize
  <2>1. PICK n \in loop.sane.open :
          /\ loop' = [loop EXCEPT !.sane = Hide!SanitizeInput(given, loop.sane, n)]
          /\ loop.audit.open = {}
    BY <1>7 DEF Sanitize, Pass
  <2> DEFINE after == WalkedOn(given, loop.sane, n, {"map"})
  <2>2. Hide!SanitizeInput(given, loop.sane, n) = after
    <3>1. given.kind[n] = "map"
      BY <1>1 DEF WalkIsCopy
    <3> QED
      BY <3>1, SanitizeWalks
  <2>3. WalkFits(given, after) /\ WalkIsCopy(given, after, {"map"})
    BY <1>1, <1>2, <1>4, WalkedKeeps
  <2>4. after.kept \subseteq loop.audit.kept /\ after.masked \subseteq loop.audit.masked
    BY <1>1, <2>1, StaysWithin DEF both
  <2> HIDE DEF after
  <2>5. loop' = [audit |-> loop.audit, sane |-> after, answer |-> loop.answer]
    BY <1>1, <2>1, <2>2
  <2> QED
    BY <1>1, <2>3, <2>4, <2>5
<1>8. CASE MaskAnswer
  <2>1. PICK n \in loop.answer.open :
          loop' = [loop EXCEPT !.answer =
                     Hide!MaskSensitive(data, loop.answer, n, loop.sane.names)]
    BY <1>8 DEF MaskAnswer, Pass
  <2> DEFINE after == WalkedOn(data, loop.answer, n, both)
  <2>2. \A name \in loop.sane.names : Hide!IsSensitiveField(name)
    BY <1>1, NamesAreSensitive
  <2>3. Hide!MaskSensitive(data, loop.answer, n, loop.sane.names) = after
    BY <1>2, <2>2, MaskWalks DEF both
  <2>4. WalkFits(data, after) /\ WalkIsCopy(data, after, both)
    BY <1>1, <1>2, <1>4, WalkedKeeps
  <2> HIDE DEF after
  <2>5. loop' = [audit |-> loop.audit, sane |-> loop.sane, answer |-> after]
    BY <1>1, <2>1, <2>3
  <2> QED
    BY <1>1, <2>4, <2>5
<1> QED
  BY <1>6, <1>7, <1>8

LEMMA MaskInv == Spec => [](InputStays /\ MaskLoop)
<1>1. Init => MaskLoop
  <2> SUFFICES ASSUME Init, kind = "map" PROVE MaskLoop
    BY DEF MaskLoop
  <2>1. InputStays /\ ~done
    BY DEF Init, InputStays
  <2>2. loop = [audit |-> Hide!Begin(input.given), sane |-> Hide!Begin(input.given),
                answer |-> Hide!Begin(input.data)]
    BY DEF Init, BeforeLoop
  <2>3. /\ Hide!IsValue(input.given) /\ Hide!IsValue(input.data)
        /\ input.given.kind[Hide!Root] = "map"
        /\ input.data.kind[Hide!Root] \in {"map", "list"} \cup {"leaf"}
    BY <2>1, MaskInput, ValueHas
  <2>4. /\ WalkFits(input.given, Hide!Begin(input.given))
        /\ WalkIsCopy(input.given, Hide!Begin(input.given), {"map", "list"})
        /\ WalkIsCopy(input.given, Hide!Begin(input.given), {"map"})
    BY <2>3, BeginFits
  <2>5. /\ WalkFits(input.data, Hide!Begin(input.data))
        /\ WalkIsCopy(input.data, Hide!Begin(input.data), {"map", "list"})
    BY <2>3, BeginFits
  <2>6. /\ loop.audit = Hide!Begin(input.given) /\ loop.sane = loop.audit
        /\ loop.answer = Hide!Begin(input.data)
        /\ loop = [audit |-> loop.audit, sane |-> loop.sane, answer |-> loop.answer]
    BY <2>2
  <2> QED
    BY <2>1, <2>4, <2>5, <2>6 DEF MaskLoop
<1>2. InputStays /\ MaskLoop /\ [Next]_vars => MaskLoop'
  <2> SUFFICES ASSUME InputStays, MaskLoop, [Next]_vars, kind = "map" PROVE MaskLoop'
    BY StepsOfKind DEF MaskLoop
  <2>1. CASE MaskAudit \/ Sanitize \/ MaskAnswer
    BY <2>1, MaskStepKeeps
  <2>2. CASE Masked
    <3>1. /\ UNCHANGED <<kind, input, loop>> /\ output' = loop
          /\ loop.audit.open = {} /\ loop.sane.open = {} /\ loop.answer.open = {}
      BY <2>2 DEF Masked, Return
    <3> QED
      BY <3>1 DEF MaskLoop, WalkFits, WalkIsCopy
  <2>3. CASE UNCHANGED vars
    BY <2>3 DEF vars, MaskLoop, WalkFits, WalkIsCopy
  <2> QED
    BY <2>1, <2>2, <2>3, StepsOfKind
<1> QED
  BY <1>1, <1>2, ResultInv, PTL DEF Spec

(* A walk through maps and lists that ended has made a masked copy.        *)
LEMMA EndedIsCopy ==
  ASSUME NEW value, Hide!IsValue(value), NEW walk, walk.open = {},
         WalkFits(value, walk), WalkIsCopy(value, walk, {"map", "list"})
  PROVE  Hide!IsMaskedCopy(value, walk)
<1>1. ASSUME NEW n \in DOMAIN value.parent
      PROVE  WentThrough(value, walk, {"map", "list"}, value.parent[n])
               <=> value.parent[n] \in walk.kept
  BY ValueHas DEF WentThrough
<1>2. \A n \in DOMAIN value.parent :
        /\ n \in walk.kept <=> value.parent[n] \in walk.kept /\ ~Sensitive(value, n)
        /\ n \in walk.masked <=> value.parent[n] \in walk.kept /\ Sensitive(value, n)
  BY <1>1 DEF WalkIsCopy
<1>3. Hide!Root \in walk.kept
  BY DEF WalkFits
<1> QED
  BY <1>2, <1>3 DEF Hide!IsMaskedCopy, Sensitive

(* Whatever the input of a tool and the data it returns, however deep: the *)
(* audit and the answer are masked copies, and the tool gets the audit's,  *)
(* but for what is in lists.                                               *)
THEOREM MasksAreRight == Spec => []MaskingHolds
<1>1. InputStays /\ MaskLoop => MaskingHolds
  <2> SUFFICES ASSUME InputStays, MaskLoop, Done("map") PROVE MaskingHolds
    BY DEF MaskingHolds, ShownAsMaskedCopy, MaskersAgree
  <2>1. /\ kind = "map" /\ output = loop
        /\ loop.audit.open = {} /\ loop.sane.open = {} /\ loop.answer.open = {}
        /\ WalkFits(input.given, loop.audit) /\ WalkIsCopy(input.given, loop.audit, {"map", "list"})
        /\ WalkFits(input.given, loop.sane) /\ WalkIsCopy(input.given, loop.sane, {"map"})
        /\ WalkFits(input.data, loop.answer) /\ WalkIsCopy(input.data, loop.answer, {"map", "list"})
        /\ loop.sane.kept \subseteq loop.audit.kept /\ loop.sane.masked \subseteq loop.audit.masked
    BY DEF Done, MaskLoop
  <2>2. Hide!IsValue(input.given) /\ Hide!IsValue(input.data)
    BY <2>1, MaskInput
  <2>3. ShownAsMaskedCopy
    BY <2>1, <2>2, EndedIsCopy DEF ShownAsMaskedCopy
  <2> DEFINE given == input.given
             audit == loop.audit
             sane == loop.sane
  <2>4. ASSUME NEW n \in (audit.kept \cup audit.masked) \ (sane.kept \cup sane.masked)
        PROVE  given.parent[n] \notin sane.kept \/ given.kind[given.parent[n]] = "list"
    <3>1. n \in DOMAIN given.parent
      <4>1. n \in DOMAIN given.kind
        BY <2>1, <2>2, ValueHas DEF WalkFits
      <4>2. n # Hide!Root
        BY <2>1 DEF WalkFits
      <4> QED
        BY <2>2, <4>1, <4>2, ValueHas
    <3>2. ~WentThrough(given, sane, {"map"}, given.parent[n])
      BY <2>1, <3>1 DEF WalkIsCopy
    <3>3. given.kind[given.parent[n]] \in {"map", "list"}
      BY <2>2, <3>1, ValueHas
    <3> QED
      BY <2>1, <3>2, <3>3 DEF WentThrough
  <2>5. MaskersAgree
    <3>1. sane.names = {given.key[n] : n \in sane.masked}
      BY <2>1 DEF WalkFits
    <3> QED
      BY <2>1, <2>4, <3>1 DEF MaskersAgree
  <2> QED
    BY <2>3, <2>5 DEF MaskingHolds
<1> QED
  BY <1>1, MaskInv, PTL
-----------------------------------------------------------------------------
(* The calculator reads. *)

LEMMA SkipSpaceIs ==
  ASSUME NEW s \in Seq(STRING), NEW p \in Pos(s)
  PROVE  LET r == Expr!SkipSpace(s, p)
         IN r \in p .. Len(s) /\ (r = Len(s) \/ s[r + 1] # " ")
<1> DEFINE Q == {q \in p .. Len(s) : q = Len(s) \/ s[q + 1] # " "}
<1>1. Len(s) \in Nat /\ p \in Nat /\ p <= Len(s)
  BY LenProperties DEF Pos
<1>2. Q \subseteq p .. Len(s)
  BY Zenon
<1>3. Len(s) \in Q
  <2>1. Len(s) \in p .. Len(s)
    BY <1>1
  <2> QED
    BY <2>1, Zenon
<1> HIDE DEF Q
<1>4. \E x \in Q : \A y \in Q : x =< y
  <2>1. Q \in SUBSET Nat
    BY <1>1, <1>2
  <2> QED
    BY <1>3, <2>1, LeastNat
<1>5. Expr!Min(Q) \in Q
  BY <1>4 DEF Expr!Min
<1>6. Expr!SkipSpace(s, p) = Expr!Min(Q)
  BY DEF Q, Expr!SkipSpace
<1>7. \A q \in Q : q \in p .. Len(s) /\ (q = Len(s) \/ s[q + 1] # " ")
  BY Zenon DEF Q
<1> QED
  BY <1>5, <1>6, <1>7

LEMMA SkipSpaceStays ==
  ASSUME NEW s \in Seq(STRING), NEW p \in Pos(s)
  PROVE  /\ Expr!SkipSpace(s, p) \in p .. Len(s)
         /\ Expr!SkipSpace(s, p) < Len(s) => Behind(s, p) \in Pos(s) /\ p < Behind(s, p)
<1>1. Len(s) \in Nat /\ p \in Nat /\ p <= Len(s)
  BY LenProperties DEF Pos
<1>2. Expr!SkipSpace(s, p) \in p .. Len(s)
  BY SkipSpaceIs
<1> QED
  BY <1>1, <1>2 DEF Behind, Pos

(* Where no space is, none is skipped.                                     *)
LEMMA SkipSpaceTwice ==
  ASSUME NEW s \in Seq(STRING), NEW p \in Pos(s)
  PROVE  LET r == Expr!SkipSpace(s, p)
         IN r \in Pos(s) /\ Expr!SkipSpace(s, r) = r
<1>1. PICK r : r = Expr!SkipSpace(s, p)
  OBVIOUS
<1> DEFINE Q == {q \in r .. Len(s) : q = Len(s) \/ s[q + 1] # " "}
<1>2. Len(s) \in Nat /\ p \in Nat /\ p <= Len(s)
  BY LenProperties DEF Pos
<1>3. r \in p .. Len(s)
  BY <1>1, SkipSpaceIs
<1>4. r = Len(s) \/ s[r + 1] # " "
  BY <1>1, SkipSpaceIs
<1>5. r \in Nat /\ r \in Pos(s) /\ r \in r .. Len(s)
  BY <1>2, <1>3 DEF Pos
<1>6. r \in Q
  BY <1>4, <1>5, Zenon
<1>7. Expr!SkipSpace(s, r) = Expr!Min(Q)
  BY DEF Expr!SkipSpace
<1>8. Q \subseteq r .. Len(s)
  BY Zenon
<1> HIDE DEF Q
<1>9. \A y \in Q : y \in Nat /\ r <= y
  BY <1>2, <1>5, <1>8
<1>10. Expr!Min(Q) \in Q /\ \A y \in Q : Expr!Min(Q) <= y
  BY <1>6, <1>9 DEF Expr!Min
<1>11. \A m \in Nat : r <= m /\ m <= r => m = r
  BY <1>5
<1>12. Expr!Min(Q) = r
  BY <1>6, <1>9, <1>10, <1>11, Zenon
<1> QED
  BY <1>1, <1>5, <1>7, <1>12

(* A sign is a character of the text, with a position behind it.           *)
LEMMA SignIsThere ==
  ASSUME NEW s \in Seq(STRING), NEW p \in Pos(s),
         SignAt(s, p) \in {"-", "(", ")", "+", "*", "/"}
  PROVE  Behind(s, p) \in Pos(s) /\ p < Behind(s, p)
<1>1. Expr!SkipSpace(s, p) < Len(s)
  BY DEF SignAt, Expr!Peek
<1> QED
  BY <1>1, SkipSpaceStays

LEMMA EndHasNoSign ==
  ASSUME NEW s \in Seq(STRING), NEW p \in Pos(s), Expr!SkipSpace(s, p) = Len(s)
  PROVE  SignAt(s, p) = "end"
BY LenProperties DEF SignAt, Expr!Peek

LEMMA NumberEndStays ==
  ASSUME NEW s \in Seq(STRING), NEW p \in Pos(s)
  PROVE  /\ Expr!NumberEnd(s, p) \in p .. Len(s)
         /\ \A i \in p + 1 .. Expr!NumberEnd(s, p) : s[i] \in Expr!Digits \/ s[i] = "."
<1> DEFINE Q == {q \in p .. Len(s) :
                   /\ \A i \in p + 1 .. q : s[i] \in Expr!Digits \/ s[i] = "."
                   /\ Expr!Cardinality(Expr!Points(s, p + 1, q)) <= 1}
<1>1. Len(s) \in Nat /\ p \in Nat /\ p <= Len(s)
  BY LenProperties DEF Pos
<1>2. Q \subseteq p .. Len(s)
  BY Zenon
<1>3. p \in Q
  <2>1. p + 1 .. p = {}
    BY <1>1
  <2>2. Expr!Points(s, p + 1, p) = {}
    BY <2>1 DEF Expr!Points
  <2>3. Expr!Cardinality({}) = 0
    BY FS_EmptySet DEF Expr!Cardinality, Cardinality
  <2>4. p \in p .. Len(s)
    BY <1>1
  <2>5. Expr!Cardinality(Expr!Points(s, p + 1, p)) <= 1
    <3>1. Expr!Cardinality(Expr!Points(s, p + 1, p)) = 0
      BY <2>2, <2>3, Zenon
    <3> QED
      BY <3>1
  <2> QED
    BY <2>1, <2>4, <2>5, Zenon
<1> HIDE DEF Q
<1>4. PICK x \in Q : \A y \in Q : y <= x
  <2>1. Q \in SUBSET (0 .. Len(s))
    BY <1>1, <1>2
  <2> QED
    BY <1>1, <1>3, <2>1, GreatestNat
<1>5. \A y \in Q : x >= y
  BY <1>1, <1>2, <1>4
<1>6. Expr!Max(Q) \in Q
  BY <1>5 DEF Expr!Max
<1>7. Expr!NumberEnd(s, p) = Expr!Max(Q)
  BY DEF Q, Expr!NumberEnd
<1>8. \A q \in Q : \A i \in p + 1 .. q : s[i] \in Expr!Digits \/ s[i] = "."
  BY Zenon DEF Q
<1> QED
  BY <1>2, <1>6, <1>7, <1>8

(* A number has a character, and begins with none of a factor's signs.     *)
LEMMA NumberIsThere ==
  ASSUME NEW s \in Seq(STRING), NEW p \in Pos(s), Expr!ParseNumber(s, p).ok
  PROVE  /\ Expr!ParseNumber(s, p).pos \in Pos(s) /\ p < Expr!ParseNumber(s, p).pos
         /\ SignAt(s, p) \notin {"-", "("}
<1> DEFINE start == Expr!SkipSpace(s, p)
           end == Expr!NumberEnd(s, start)
<1>1. Len(s) \in Nat /\ p \in Nat /\ p <= Len(s)
  BY LenProperties DEF Pos
<1>2. start \in p .. Len(s)
  BY SkipSpaceStays
<1>3. /\ end \in start .. Len(s)
      /\ \A i \in start + 1 .. end : s[i] \in Expr!Digits \/ s[i] = "."
  BY <1>1, <1>2, NumberEndStays DEF Pos
<1>4. Expr!ParseNumber(s, p).pos = end /\ Expr!IsNumeral(SubSeq(s, start + 1, end))
  BY DEF Expr!ParseNumber
<1>5. SignAt(s, p) = IF start < Len(s) THEN s[start + 1] ELSE "end"
  BY DEF SignAt, Expr!Peek
<1> HIDE DEF start, end
<1>6. start < end
  <2> SUFFICES ASSUME end = start PROVE FALSE
    BY <1>1, <1>2, <1>3
  <2>1. SubSeq(s, start + 1, end) = <<>>
    BY <1>1, <1>2, SubSeqEmpty
  <2>2. DOMAIN <<>> = {}
    OBVIOUS
  <2> QED
    BY <1>4, <2>1, <2>2 DEF Expr!IsNumeral
<1>7. start + 1 \in start + 1 .. end /\ start < Len(s)
  BY <1>1, <1>2, <1>3, <1>6
<1>8. s[start + 1] \in Expr!Digits \/ s[start + 1] = "."
  BY <1>3, <1>7
<1>9. "-" \notin Expr!Digits /\ "(" \notin Expr!Digits
  BY DEF Expr!Digits, Expr!Digit
<1>10. s[start + 1] \notin {"-", "("}
  BY <1>8, <1>9
<1> QED
  BY <1>1, <1>2, <1>3, <1>4, <1>6, <1>7, <1>5, <1>10 DEF Pos
-----------------------------------------------------------------------------
(* The grammar of a text. *)

IsText(s) == s \in Seq(STRING) /\ Expr!IsGrammar(s, Meaning(s))

LEMMA WorthIs ==
  ASSUME NEW s, IsText(s), NEW p \in Pos(s), NEW q \in Pos(s)
  PROVE  LET g == Meaning(s) IN
         /\ g.factor[<<p, q>>] = IF p < q THEN Expr!FactorsOf(s, g, p, q) ELSE {}
         /\ g.product[<<p, q>>] =
              IF p < q THEN Expr!ChainsOf(s, g.product, g.factor, Expr!Signs.product, p, q) ELSE {}
         /\ g.sum[<<p, q>>] =
              IF p < q THEN Expr!ChainsOf(s, g.sum, g.product, Expr!Signs.sum, p, q) ELSE {}
BY Zenon DEF IsText, Expr!IsGrammar, Pos

LEMMA WorthHasLength ==
  ASSUME NEW s, IsText(s), NEW part \in {"sum", "product", "factor"}, NEW p, NEW q, NEW v,
         IsWorth(s, part, p, q, v)
  PROVE  p \in Pos(s) /\ q \in Pos(s) /\ p < q /\ v \in Amounts(s) /\ <<q, v>> \in Items(s)
<1>1. p \in Pos(s) /\ q \in Pos(s) /\ v \in Meaning(s)[part][<<p, q>>]
  BY DEF IsWorth
<1>2. Meaning(s)[part][<<p, q>>] # {}
  BY <1>1
<1>3. p < q
  <2>1. CASE part = "factor"
    BY <1>1, <1>2, <2>1, WorthIs
  <2>2. CASE part = "product"
    BY <1>1, <1>2, <2>2, WorthIs
  <2>3. CASE part = "sum"
    BY <1>1, <1>2, <2>3, WorthIs
  <2> QED
    BY <2>1, <2>2, <2>3
<1>4. v \in Amounts(s)
  <2>1. <<p, q>> \in Pos(s) \X Pos(s)
    BY <1>1
  <2> QED
    BY <1>1, <2>1 DEF Amounts
<1> QED
  BY <1>1, <1>3, <1>4 DEF Items

LEMMA FactorIs ==
  ASSUME NEW s, IsText(s), NEW p, NEW q, NEW v
  PROVE  IsWorth(s, "factor", p, q, v) <=>
           p \in Pos(s) /\ q \in Pos(s) /\ p < q /\ v \in Expr!FactorsOf(s, Meaning(s), p, q)
BY WorthIs DEF IsWorth

LEMMA MinusIsWorth ==
  ASSUME NEW s, IsText(s), NEW p \in Pos(s), SignAt(s, p) = "-", NEW q, NEW v
  PROVE  IsWorth(s, "factor", p, q, v) <=>
           \E u : IsWorth(s, "factor", Behind(s, p), q, u) /\ v = Expr!Negated(u)
<1>1. s \in Seq(STRING) /\ Behind(s, p) \in Pos(s) /\ p < Behind(s, p)
  BY SignIsThere DEF IsText
<1>2. Expr!FactorsOf(s, Meaning(s), p, q) =
        {Expr!Negated(u) : u \in Meaning(s).factor[<<Behind(s, p), q>>]}
  BY DEF Expr!FactorsOf, SignAt, Behind
<1>3. ASSUME NEW u, IsWorth(s, "factor", Behind(s, p), q, u)
      PROVE  q \in Pos(s) /\ p < q
  <2>1. q \in Pos(s) /\ Behind(s, p) < q
    BY <1>3, WorthHasLength
  <2>2. p \in Nat /\ q \in Nat /\ Behind(s, p) \in Nat
    BY <1>1, <2>1, LenProperties DEF Pos
  <2> QED
    BY <1>1, <2>1, <2>2
<1>4. ASSUME IsWorth(s, "factor", p, q, v)
      PROVE  \E u : IsWorth(s, "factor", Behind(s, p), q, u) /\ v = Expr!Negated(u)
  <2>1. q \in Pos(s) /\ v \in Expr!FactorsOf(s, Meaning(s), p, q)
    BY <1>4, FactorIs
  <2>2. PICK u \in Meaning(s).factor[<<Behind(s, p), q>>] : v = Expr!Negated(u)
    BY <1>2, <2>1
  <2>3. IsWorth(s, "factor", Behind(s, p), q, u)
    BY <1>1, <2>1 DEF IsWorth
  <2> QED
    BY <2>2, <2>3
<1>5. ASSUME NEW u, IsWorth(s, "factor", Behind(s, p), q, u), v = Expr!Negated(u)
      PROVE  IsWorth(s, "factor", p, q, v)
  <2>1. u \in Meaning(s).factor[<<Behind(s, p), q>>]
    BY <1>5 DEF IsWorth
  <2>2. v \in Expr!FactorsOf(s, Meaning(s), p, q)
    BY <1>2, <1>5, <2>1
  <2> QED
    BY <1>3, <1>5, <2>2, FactorIs
<1> QED
  BY <1>4, <1>5

LEMMA ParenIsWorth ==
  ASSUME NEW s, IsText(s), NEW p \in Pos(s), SignAt(s, p) = "(", NEW q, NEW v
  PROVE  IsWorth(s, "factor", p, q, v) <=>
           \E m : /\ IsWorth(s, "sum", Behind(s, p), m, v)
                  /\ SignAt(s, m) = ")" /\ q = Behind(s, m)
<1>1. s \in Seq(STRING) /\ Behind(s, p) \in Pos(s) /\ p < Behind(s, p)
  BY SignIsThere DEF IsText
<1> DEFINE b == Behind(s, p)
           M == Expr!BeforeClosing(s, b + 1, q)
<1>2. Expr!FactorsOf(s, Meaning(s), p, q) = UNION {Meaning(s).sum[<<b, m>>] : m \in M}
  <2>1. (Expr!SkipSpace(s, p) + 1) + 1 = Expr!SkipSpace(s, p) + 2
    BY <1>1, SkipSpaceStays DEF Pos
  <2> QED
    BY <2>1 DEF Expr!FactorsOf, SignAt, Behind
<1>3. Len(s) \in Nat /\ p \in Nat /\ b \in Nat
  BY <1>1, LenProperties DEF Pos
<1> HIDE DEF b, M
<1>4. ASSUME IsWorth(s, "factor", p, q, v)
      PROVE  \E m : IsWorth(s, "sum", b, m, v) /\ SignAt(s, m) = ")" /\ q = Behind(s, m)
  <2>1. q \in Pos(s) /\ v \in Expr!FactorsOf(s, Meaning(s), p, q)
    BY <1>4, FactorIs
  <2>2. PICK m \in M : v \in Meaning(s).sum[<<b, m>>]
    BY <1>2, <2>1
  <2>3. m \in b + 1 .. q /\ SignAt(s, m) = ")" /\ q = Behind(s, m)
    BY DEF M, Expr!BeforeClosing, SignAt, Behind
  <2>4. m \in Pos(s) /\ b \in Pos(s)
    BY <1>1, <1>3, <2>1, <2>3 DEF Pos, b
  <2> QED
    BY <2>2, <2>3, <2>4 DEF IsWorth
<1>5. ASSUME NEW m, IsWorth(s, "sum", b, m, v), SignAt(s, m) = ")", q = Behind(s, m)
      PROVE  IsWorth(s, "factor", p, q, v)
  <2>1. m \in Pos(s) /\ b < m /\ v \in Meaning(s).sum[<<b, m>>]
    BY <1>5, WorthHasLength DEF IsWorth
  <2>2. q \in Pos(s) /\ m < q
    BY <1>1, <1>5, <2>1, SignIsThere
  <2>3. m \in Nat /\ q \in Nat
    BY <1>3, <2>1, <2>2 DEF Pos
  <2>4. m \in b + 1 .. q /\ p < q
    BY <1>1, <1>3, <2>1, <2>2, <2>3 DEF b
  <2>5. m \in M
    BY <1>5, <2>4 DEF M, Expr!BeforeClosing, SignAt, Behind
  <2>6. v \in Expr!FactorsOf(s, Meaning(s), p, q)
    BY <1>2, <2>1, <2>5
  <2> QED
    BY <2>2, <2>4, <2>6, FactorIs
<1> QED
  BY <1>4, <1>5 DEF b

LEMMA NumberIsWorth ==
  ASSUME NEW s, IsText(s), NEW p \in Pos(s), SignAt(s, p) \notin {"-", "("}, NEW q, NEW v
  PROVE  LET number == Expr!ParseNumber(s, Expr!SkipSpace(s, p))
         IN IsWorth(s, "factor", p, q, v) <=> number.ok /\ q = number.pos /\ v = number.value
<1> DEFINE b == Expr!SkipSpace(s, p)
           number == Expr!ParseNumber(s, b)
<1>1. s \in Seq(STRING) /\ Len(s) \in Nat
  BY LenProperties DEF IsText
<1>2. b \in Pos(s) /\ p \in Nat /\ b \in Nat /\ p <= b
  BY <1>1, SkipSpaceStays DEF Pos
<1>3. Expr!FactorsOf(s, Meaning(s), p, q) =
        IF number.ok /\ number.pos = q THEN {number.value} ELSE {}
  BY DEF Expr!FactorsOf, SignAt
<1>4. number.ok => number.pos \in Pos(s) /\ b < number.pos
  BY <1>1, <1>2, NumberIsThere
<1> HIDE DEF b, number
<1>5. number.ok => p < number.pos
  BY <1>1, <1>2, <1>4 DEF Pos
<1>6. IsWorth(s, "factor", p, q, v) <=> number.ok /\ q = number.pos /\ v = number.value
  BY <1>3, <1>4, <1>5, FactorIs
<1> QED
  BY <1>6 DEF b, number
-----------------------------------------------------------------------------
(* Chains of operands. *)

LEMMA JoinedHas ==
  ASSUME NEW s, NEW chain, NEW operand, NEW p, NEW m, NEW q, NEW v
  PROVE  v \in Expr!Joined(s, chain, operand, p, m, q) <=>
           \E l \in chain[<<p, m>>], x \in operand[<<Behind(s, m), q>>] :
             ~Expr!ByZero(SignAt(s, m), x) /\ v = Expr!Combine(SignAt(s, m), l, x)
<1> DEFINE op == SignAt(s, m)
           Y == {y \in chain[<<p, m>>] \X operand[<<Behind(s, m), q>>] : ~Expr!ByZero(op, y[2])}
<1>1. Expr!Joined(s, chain, operand, p, m, q) = {Expr!Combine(op, x[1], x[2]) : x \in Y}
  BY DEF Expr!Joined, SignAt, Behind
<1> HIDE DEF op
<1>2. ASSUME NEW x \in Y, v = Expr!Combine(op, x[1], x[2])
      PROVE  \E l \in chain[<<p, m>>], u \in operand[<<Behind(s, m), q>>] :
               ~Expr!ByZero(op, u) /\ v = Expr!Combine(op, l, u)
  <2>1. x[1] \in chain[<<p, m>>] /\ x[2] \in operand[<<Behind(s, m), q>>]
        /\ ~Expr!ByZero(op, x[2])
    OBVIOUS
  <2> QED
    BY <1>2, <2>1
<1>3. ASSUME NEW l \in chain[<<p, m>>], NEW x \in operand[<<Behind(s, m), q>>],
             ~Expr!ByZero(op, x), v = Expr!Combine(op, l, x)
      PROVE  \E y \in Y : v = Expr!Combine(op, y[1], y[2])
  <2>1. <<l, x>> \in Y
    BY <1>3
  <2>2. v = Expr!Combine(op, <<l, x>>[1], <<l, x>>[2])
    BY <1>3
  <2> HIDE DEF Y
  <2> QED
    BY <2>1, <2>2
<1> HIDE DEF Y
<1> QED
  BY <1>1, <1>2, <1>3 DEF op

LEMMA ChainHas ==
  ASSUME NEW s, NEW chain, NEW operand, NEW signs, NEW p, NEW q, NEW v
  PROVE  v \in Expr!ChainsOf(s, chain, operand, signs, p, q) <=>
           \/ v \in operand[<<p, q>>]
           \/ \E m \in p + 1 .. q - 1 :
                \E l \in chain[<<p, m>>], x \in operand[<<Behind(s, m), q>>] :
                  /\ SignAt(s, m) \in signs /\ ~Expr!ByZero(SignAt(s, m), x)
                  /\ v = Expr!Combine(SignAt(s, m), l, x)
<1> DEFINE M == {m \in p + 1 .. q - 1 : SignAt(s, m) \in signs}
<1>1. Expr!ChainsOf(s, chain, operand, signs, p, q) =
        operand[<<p, q>>] \cup UNION {Expr!Joined(s, chain, operand, p, m, q) : m \in M}
  BY DEF Expr!ChainsOf, SignAt
<1>2. \A m : m \in M <=> m \in p + 1 .. q - 1 /\ SignAt(s, m) \in signs
  OBVIOUS
<1>3. \A m : v \in Expr!Joined(s, chain, operand, p, m, q) <=>
               \E l \in chain[<<p, m>>], x \in operand[<<Behind(s, m), q>>] :
                 ~Expr!ByZero(SignAt(s, m), x) /\ v = Expr!Combine(SignAt(s, m), l, x)
  BY JoinedHas
<1> HIDE DEF M
<1>4. v \in Expr!ChainsOf(s, chain, operand, signs, p, q) <=>
        \/ v \in operand[<<p, q>>]
        \/ \E m \in M : v \in Expr!Joined(s, chain, operand, p, m, q)
  BY <1>1
<1> QED
  BY <1>2, <1>3, <1>4

(* A sum or a product is an operand, or a shorter one with one more.       *)
LEMMA ChainIsWorth ==
  ASSUME NEW s, IsText(s), NEW call \in {"sum", "product"}, NEW p, NEW q, NEW v
  PROVE  IsWorth(s, call, p, q, v) <=>
           \/ IsWorth(s, Awaited[call], p, q, v)
           \/ \E m, l : /\ IsWorth(s, call, p, m, l) /\ q \in Pos(s)
                        /\ Leads(s, call, <<m, l>>, <<q, v>>)
<1> DEFINE chain == Meaning(s)[call]
           operand == Meaning(s)[Awaited[call]]
           signs == Expr!Signs[call]
           Shorter(m, l) == IsWorth(s, call, p, m, l) /\ q \in Pos(s)
                            /\ Leads(s, call, <<m, l>>, <<q, v>>)
<1>1. Awaited[call] \in {"product", "factor"}
  BY DEF Awaited
<1>2. ASSUME p \in Pos(s), q \in Pos(s)
      PROVE  chain[<<p, q>>] =
               IF p < q THEN Expr!ChainsOf(s, chain, operand, signs, p, q) ELSE {}
  <2>1. CASE call = "sum"
    BY <1>2, <2>1, WorthIs, Zenon DEF Awaited, Expr!Signs
  <2>2. CASE call = "product"
    BY <1>2, <2>2, WorthIs, Zenon DEF Awaited, Expr!Signs
  <2> QED
    BY <2>1, <2>2
<1>3. s \in Seq(STRING) /\ Len(s) \in Nat
  BY LenProperties DEF IsText
<1>4. signs \subseteq {"-", "(", ")", "+", "*", "/"}
  BY DEF Expr!Signs
<1> HIDE DEF chain, operand, signs
<1>5. ASSUME IsWorth(s, call, p, q, v), ~IsWorth(s, Awaited[call], p, q, v)
      PROVE  \E m, l : Shorter(m, l)
  <2>1. p \in Pos(s) /\ q \in Pos(s) /\ p < q
    BY <1>5, WorthHasLength
  <2>2. p \in Nat /\ q \in Nat /\ q <= Len(s)
    BY <1>3, <2>1 DEF Pos
  <2>3. v \in Expr!ChainsOf(s, chain, operand, signs, p, q) /\ v \notin operand[<<p, q>>]
    BY <1>2, <1>5, <2>1 DEF IsWorth, chain, operand
  <2>4. PICK m \in p + 1 .. q - 1 :
          \E l \in chain[<<p, m>>], x \in operand[<<Behind(s, m), q>>] :
            /\ SignAt(s, m) \in signs /\ ~Expr!ByZero(SignAt(s, m), x)
            /\ v = Expr!Combine(SignAt(s, m), l, x)
    BY <2>3, ChainHas
  <2>5. PICK l \in chain[<<p, m>>], x \in operand[<<Behind(s, m), q>>] :
          /\ SignAt(s, m) \in signs /\ ~Expr!ByZero(SignAt(s, m), x)
          /\ v = Expr!Combine(SignAt(s, m), l, x)
    BY <2>4
  <2>6. m \in Pos(s)
    BY <1>3, <2>2 DEF Pos
  <2>7. Behind(s, m) \in Pos(s)
    BY <1>3, <1>4, <2>5, <2>6, SignIsThere
  <2>8. IsWorth(s, call, p, m, l)
    BY <2>1, <2>5, <2>6 DEF IsWorth, chain
  <2>9. IsWorth(s, Awaited[call], Behind(s, m), q, x)
    BY <2>1, <2>5, <2>7 DEF IsWorth, operand
  <2>10. x \in Amounts(s)
    BY <1>1, <2>9, WorthHasLength
  <2>11. Leads(s, call, <<m, l>>, <<q, v>>)
    BY <2>5, <2>9, <2>10 DEF Leads, signs
  <2> QED
    BY <2>1, <2>8, <2>11
<1>6. ASSUME NEW m, NEW l, Shorter(m, l)
      PROVE  IsWorth(s, call, p, q, v)
  <2>1. p \in Pos(s) /\ m \in Pos(s) /\ p < m /\ q \in Pos(s) /\ l \in chain[<<p, m>>]
    BY <1>6, WorthHasLength DEF IsWorth, chain
  <2>2. PICK x \in Amounts(s) :
          /\ IsWorth(s, Awaited[call], Behind(s, m), q, x)
          /\ ~Expr!ByZero(SignAt(s, m), x) /\ v = Expr!Combine(SignAt(s, m), l, x)
    BY <1>6 DEF Leads
  <2>3. SignAt(s, m) \in signs
    BY <1>6 DEF Leads, signs
  <2>4. Behind(s, m) \in Pos(s) /\ m < Behind(s, m)
    BY <1>3, <1>4, <2>1, <2>3, SignIsThere
  <2>5. Behind(s, m) < q /\ x \in operand[<<Behind(s, m), q>>]
    BY <1>1, <2>2, WorthHasLength DEF IsWorth, operand
  <2>6. p \in Nat /\ m \in Nat /\ q \in Nat /\ Behind(s, m) \in Nat
    BY <1>3, <2>1, <2>4 DEF Pos
  <2>7. p < q /\ m \in p + 1 .. q - 1
    BY <2>1, <2>4, <2>5, <2>6
  <2>8. v \in Expr!ChainsOf(s, chain, operand, signs, p, q)
    BY <2>1, <2>2, <2>3, <2>5, <2>7, ChainHas
  <2> QED
    BY <1>2, <2>1, <2>7, <2>8 DEF IsWorth, chain
<1>7. ASSUME IsWorth(s, Awaited[call], p, q, v)
      PROVE  IsWorth(s, call, p, q, v)
  <2>1. p \in Pos(s) /\ q \in Pos(s) /\ p < q /\ v \in operand[<<p, q>>]
    BY <1>1, <1>7, WorthHasLength DEF IsWorth, operand
  <2>2. v \in Expr!ChainsOf(s, chain, operand, signs, p, q)
    BY <2>1, ChainHas
  <2> QED
    BY <1>2, <2>1, <2>2 DEF IsWorth, chain
<1> QED
  BY <1>5, <1>6, <1>7
-----------------------------------------------------------------------------
(* What is reached by signs and operands. *)

LEMMA ReachesItself == \A s, call, a : Reaches(s, call, a, a)
BY DEF Reaches

LEMMA ReachesOn ==
  ASSUME NEW s, NEW call, NEW a, NEW b, NEW c \in Items(s),
         Reaches(s, call, a, b), b \in Items(s) \cup {a}, Leads(s, call, b, c)
  PROVE  Reaches(s, call, a, c)
<1> SUFFICES ASSUME NEW X \in SUBSET (Items(s) \cup {a}), a \in X, IsClosed(s, call, X)
             PROVE  c \in X
  BY DEF Reaches
<1>1. b \in X
  BY DEF Reaches
<1> QED
  BY <1>1 DEF IsClosed

LEMMA ReachesFirst ==
  ASSUME NEW s, NEW call, NEW a, NEW b, Reaches(s, call, a, b), a # b
  PROVE  \E c \in Items(s) : Leads(s, call, a, c) /\ Reaches(s, call, c, b)
<1> DEFINE Next1(d) == \E c \in Items(s) : Leads(s, call, a, c) /\ Reaches(s, call, c, d)
           X == {d \in Items(s) : Next1(d)} \cup {a}
<1>1. X \in SUBSET (Items(s) \cup {a}) /\ a \in X
  OBVIOUS
<1>2. ASSUME NEW d \in X, NEW e \in Items(s), Leads(s, call, d, e)
      PROVE  Next1(e)
  <2>1. CASE d = a
    BY <1>2, <2>1, ReachesItself
  <2>2. CASE d # a
    <3>1. PICK c \in Items(s) : Leads(s, call, a, c) /\ Reaches(s, call, c, d)
      BY <2>2
    <3>2. d \in Items(s)
      BY <2>2
    <3>3. Reaches(s, call, c, e)
      BY <1>2, <3>1, <3>2, ReachesOn
    <3> QED
      BY <3>1, <3>3
  <2> QED
    BY <2>1, <2>2
<1> HIDE DEF Next1
<1>3. \A d \in X, e \in Items(s) : Leads(s, call, d, e) => e \in X
  BY <1>2
<1>4. \A d \in X : d # a => Next1(d)
  OBVIOUS
<1> HIDE DEF X
<1>5. b \in X
  BY <1>1, <1>3 DEF Reaches, IsClosed
<1> QED
  BY <1>4, <1>5 DEF Next1

(* A sum or a product begins with an operand.                              *)
LEMMA ChainBegins ==
  ASSUME NEW s, IsText(s), NEW call \in {"sum", "product"}, NEW p, NEW q, NEW v,
         IsWorth(s, call, p, q, v)
  PROVE  \E m, u : IsWorth(s, Awaited[call], p, m, u) /\ Reaches(s, call, <<m, u>>, <<q, v>>)
<1> DEFINE Begins(n, w) ==
             \E m, u : IsWorth(s, Awaited[call], p, m, u) /\ Reaches(s, call, <<m, u>>, <<n, w>>)
           Bad == {n \in Pos(s) : \E w : IsWorth(s, call, p, n, w) /\ ~Begins(n, w)}
<1>1. Len(s) \in Nat /\ Pos(s) \subseteq Nat
  BY LenProperties DEF IsText, Pos
<1>2. Awaited[call] \in {"product", "factor"}
  BY DEF Awaited
<1>3. Bad = {}
  <2> SUFFICES ASSUME Bad # {} PROVE FALSE
    OBVIOUS
  <2>1. Bad \in SUBSET Nat
    BY <1>1
  <2> HIDE DEF Begins
  <2>2. PICK n \in Bad : \A y \in Bad : n <= y
    BY <2>1, LeastNat
  <2>3. PICK w : IsWorth(s, call, p, n, w) /\ ~Begins(n, w)
    OBVIOUS
  <2>4. CASE IsWorth(s, Awaited[call], p, n, w)
    <3>1. Reaches(s, call, <<n, w>>, <<n, w>>)
      BY ReachesItself
    <3> QED
      BY <2>3, <2>4, <3>1 DEF Begins
  <2>5. CASE ~IsWorth(s, Awaited[call], p, n, w)
    <3>1. PICK m, l : IsWorth(s, call, p, m, l) /\ Leads(s, call, <<m, l>>, <<n, w>>)
      BY <2>3, <2>5, ChainIsWorth
    <3>2. m \in Pos(s) /\ <<m, l>> \in Items(s)
      BY <3>1, WorthHasLength
    <3>3. n \in Pos(s) /\ <<n, w>> \in Items(s)
      BY <2>3, WorthHasLength
    <3>4. m < n
      <4>1. PICK x : IsWorth(s, Awaited[call], Behind(s, m), n, x)
        BY <3>1 DEF Leads
      <4>2. Behind(s, m) < n /\ Behind(s, m) \in Pos(s)
        BY <1>2, <4>1, WorthHasLength
      <4>3. SignAt(s, m) \in {"-", "(", ")", "+", "*", "/"}
        BY <3>1 DEF Leads, Expr!Signs
      <4>4. m < Behind(s, m)
        BY <3>2, <4>3, SignIsThere DEF IsText
      <4> QED
        BY <1>1, <3>2, <3>3, <4>2, <4>4
    <3>5. m \notin Bad
      BY <1>1, <2>2, <3>2, <3>3, <3>4
    <3>6. Begins(m, l)
      BY <3>1, <3>2, <3>5
    <3>7. PICK f, u : IsWorth(s, Awaited[call], p, f, u) /\ Reaches(s, call, <<f, u>>, <<m, l>>)
      BY <3>6 DEF Begins
    <3>8. Reaches(s, call, <<f, u>>, <<n, w>>)
      BY <3>1, <3>2, <3>3, <3>7, ReachesOn
    <3> QED
      BY <2>3, <3>7, <3>8 DEF Begins
  <2> QED
    BY <2>4, <2>5
<1>4. q \in Pos(s)
  BY WorthHasLength
<1> QED
  BY <1>3, <1>4

(* A sum goes on with its operand's end only at its own signs.             *)
LEMMA OperandEnds ==
  ASSUME NEW s, NEW a, NEW b, Reaches(s, "sum", a, b), Ends(s, "sum", b)
  PROVE  Ends(s, "product", a)
<1>1. CASE a = b
  BY <1>1 DEF Ends
<1>2. CASE a # b
  <2>1. SignAt(s, a[1]) \in Expr!Signs["sum"]
    BY <1>2, ReachesFirst DEF Leads
  <2> QED
    BY <2>1 DEF Ends, Expr!Signs
<1> QED
  BY <1>1, <1>2
-----------------------------------------------------------------------------
(* The stack of the parser's calls, and what they make of an item. *)

LEMMA StackPush ==
  ASSUME NEW s, NEW stack, IsStack(s, stack), NEW f \in Frames(s), FrameFits(s, f),
         Yields[f.call] = PartAbove(stack, Len(stack)), f.at = StartAbove(stack, Len(stack))
  PROVE  LET more == Append(stack, f) IN
         /\ IsStack(s, more) /\ more # <<>>
         /\ PartAbove(more, Len(more)) = Awaited[f.call]
         /\ StartAbove(more, Len(more)) = f.from
<1> DEFINE more == Append(stack, f)
           n == Len(stack)
<1>1. stack \in Seq(Frames(s)) /\ n \in Nat /\ DOMAIN stack = 1 .. n
  BY LenProperties DEF IsStack
<1>2. /\ more \in Seq(Frames(s)) /\ more # <<>> /\ Len(more) = n + 1
      /\ \A i \in 1 .. n + 1 : more[i] = IF i = n + 1 THEN f ELSE stack[i]
  BY <1>1, AppendProperties
<1>3. DOMAIN more = 1 .. n + 1
  BY <1>2, LenProperties
<1> HIDE DEF more, n
<1>4. more[n + 1] = f
  BY <1>1, <1>2
<1>5. \A i \in 1 .. n : more[i] = stack[i]
  BY <1>1, <1>2
<1>6. \A i \in 0 .. n : PartAbove(more, i) = PartAbove(stack, i)
                        /\ StartAbove(more, i) = StartAbove(stack, i)
  BY <1>1, <1>5 DEF PartAbove, StartAbove
<1>7. ASSUME NEW i \in 1 .. n + 1
      PROVE  /\ FrameFits(s, more[i])
             /\ Yields[more[i].call] = PartAbove(more, i - 1)
             /\ more[i].at = StartAbove(more, i - 1)
  <2>1. i - 1 \in 0 .. n /\ (i \in 1 .. n \/ i = n + 1)
    BY <1>1
  <2>2. CASE i \in 1 .. n
    <3>1. /\ FrameFits(s, stack[i])
          /\ Yields[stack[i].call] = PartAbove(stack, i - 1)
          /\ stack[i].at = StartAbove(stack, i - 1)
      BY <1>1, <2>2 DEF IsStack
    <3> QED
      BY <1>5, <1>6, <2>1, <2>2, <3>1
  <2>3. CASE i = n + 1
    <3>1. i - 1 = n
      BY <1>1, <2>3
    <3> QED
      BY <1>4, <1>6, <2>1, <2>3, <3>1 DEF n
  <2> QED
    BY <2>1, <2>2, <2>3
<1>8. IsStack(s, more)
  BY <1>2, <1>3, <1>7 DEF IsStack
<1>9. PartAbove(more, Len(more)) = Awaited[f.call] /\ StartAbove(more, Len(more)) = f.from
  BY <1>1, <1>2, <1>4 DEF PartAbove, StartAbove
<1> QED
  BY <1>2, <1>8, <1>9 DEF more

LEMMA FrontAndLast ==
  ASSUME NEW S, NEW stack \in Seq(S), stack # <<>>
  PROVE  /\ Expr!Front(stack) \in Seq(S) /\ Expr!Last(stack) \in S
         /\ Len(stack) \in Nat \ {0} /\ Len(Expr!Front(stack)) = Len(stack) - 1
         /\ Expr!Last(stack) = stack[Len(stack)]
         /\ \A i \in 1 .. Len(stack) - 1 : Expr!Front(stack)[i] = stack[i]
<1>1. Len(stack) \in Nat \ {0}
  BY EmptySeq
<1>2. \A i \in 1 .. Len(stack) - 1 : stack[i] \in S
  BY <1>1, ElementOfSeq
<1>3. stack[Len(stack)] \in S
  BY <1>1, ElementOfSeq
<1>4. Expr!Front(stack) = SubSeq(stack, 1, Len(stack) - 1)
  BY DEF Expr!Front
<1>5. 1 \in Int /\ Len(stack) - 1 \in Int
  BY <1>1
<1>6. /\ SubSeq(stack, 1, Len(stack) - 1) \in Seq(S)
      /\ Len(SubSeq(stack, 1, Len(stack) - 1)) =
           IF 1 <= Len(stack) - 1 THEN (Len(stack) - 1) - 1 + 1 ELSE 0
      /\ \A i \in 1 .. (Len(stack) - 1) - 1 + 1 :
           SubSeq(stack, 1, Len(stack) - 1)[i] = stack[1 + i - 1]
  BY <1>2, <1>5, SubSeqProperties
<1>7. Len(SubSeq(stack, 1, Len(stack) - 1)) = Len(stack) - 1
  <2>1. \A n \in Nat \ {0} : (IF 1 <= n - 1 THEN (n - 1) - 1 + 1 ELSE 0) = n - 1
    OBVIOUS
  <2> QED
    BY <1>1, <1>6, <2>1, Zenon
<1>8. \A i \in 1 .. Len(stack) - 1 :
        i \in 1 .. (Len(stack) - 1) - 1 + 1 /\ 1 + i - 1 = i
  BY <1>1
<1>9. \A i \in 1 .. Len(stack) - 1 : SubSeq(stack, 1, Len(stack) - 1)[i] = stack[i]
  BY <1>6, <1>8
<1> QED
  BY <1>1, <1>3, <1>4, <1>6, <1>7, <1>9 DEF Expr!Last

LEMMA StackPop ==
  ASSUME NEW s, NEW stack, IsStack(s, stack), stack # <<>>
  PROVE  LET less == Expr!Front(stack)
             f == Expr!Last(stack)
         IN /\ IsStack(s, less) /\ f \in Frames(s) /\ FrameFits(s, f)
            /\ Yields[f.call] = PartAbove(less, Len(less))
            /\ f.at = StartAbove(less, Len(less))
            /\ PartAbove(stack, Len(stack)) = Awaited[f.call]
            /\ StartAbove(stack, Len(stack)) = f.from
<1> DEFINE less == Expr!Front(stack)
           f == Expr!Last(stack)
           n == Len(stack)
<1>1. stack \in Seq(Frames(s)) /\ DOMAIN stack = 1 .. n
  BY LenProperties DEF IsStack
<1>2. /\ less \in Seq(Frames(s)) /\ f \in Frames(s) /\ n \in Nat \ {0} /\ Len(less) = n - 1
      /\ f = stack[n] /\ \A i \in 1 .. n - 1 : less[i] = stack[i]
  BY <1>1, FrontAndLast
<1>3. DOMAIN less = 1 .. n - 1
  BY <1>2, LenProperties
<1> HIDE DEF less, f, n
<1>4. \A i \in 0 .. n - 1 : PartAbove(less, i) = PartAbove(stack, i)
                            /\ StartAbove(less, i) = StartAbove(stack, i)
  BY <1>2 DEF PartAbove, StartAbove
<1>5. \A i \in 1 .. n : /\ FrameFits(s, stack[i])
                        /\ Yields[stack[i].call] = PartAbove(stack, i - 1)
                        /\ stack[i].at = StartAbove(stack, i - 1)
  BY <1>1 DEF IsStack
<1>6. \A i \in 1 .. n - 1 : i \in 1 .. n /\ i - 1 \in 0 .. n - 1
  BY <1>2
<1>7. \A i \in 1 .. n - 1 : /\ FrameFits(s, less[i])
                            /\ Yields[less[i].call] = PartAbove(less, i - 1)
                            /\ less[i].at = StartAbove(less, i - 1)
  BY <1>2, <1>4, <1>5, <1>6
<1>8. IsStack(s, less)
  BY <1>2, <1>3, <1>7 DEF IsStack
<1>9. n \in 1 .. n /\ n - 1 \in 0 .. n - 1
  BY <1>2
<1>10. FrameFits(s, f) /\ Yields[f.call] = PartAbove(less, n - 1) /\ f.at = StartAbove(less, n - 1)
  BY <1>2, <1>4, <1>5, <1>9
<1>11. PartAbove(stack, n) = Awaited[f.call] /\ StartAbove(stack, n) = f.from
  BY <1>2 DEF PartAbove, StartAbove
<1> QED
  BY <1>2, <1>8, <1>10, <1>11 DEF less, f, n

LEMMA WorthOfNone ==
  ASSUME NEW s, NEW v, NEW a
  PROVE  /\ MakesWorth(s, <<>>, v, a) => a[2] = v /\ Expr!SkipSpace(s, a[1]) = Len(s)
         /\ a \in Items(s) /\ a[2] = v /\ Expr!SkipSpace(s, a[1]) = Len(s) =>
              MakesWorth(s, <<>>, v, a)
<1>1. Len(<<>>) = 0 /\ 0 + 1 = 1 /\ 1 .. 0 = {}
  OBVIOUS
<1>2. ASSUME NEW plan, IsPlan(s, <<>>, v, a, plan)
      PROVE  a[2] = v /\ Expr!SkipSpace(s, a[1]) = Len(s)
  BY <1>1, <1>2 DEF IsPlan
<1>3. ASSUME a \in Items(s), a[2] = v, Expr!SkipSpace(s, a[1]) = Len(s)
      PROVE  MakesWorth(s, <<>>, v, a)
  <2>1. <<a>> \in Seq(Items(s)) /\ Len(<<a>>) = 1 /\ <<a>>[1] = a
    BY <1>3
  <2>2. IsPlan(s, <<>>, v, a, <<a>>)
    BY <1>1, <1>3, <2>1 DEF IsPlan
  <2> QED
    BY <2>1, <2>2 DEF MakesWorth
<1> QED
  BY <1>2, <1>3 DEF MakesWorth

LEMMA WorthPush ==
  ASSUME NEW s, NEW S, NEW stack \in Seq(S), NEW f \in S, NEW v, NEW a, NEW b \in Items(s),
         MakesWorth(s, stack, v, a), Returns(s, f, b, a)
  PROVE  MakesWorth(s, Append(stack, f), v, b)
<1> DEFINE n == Len(stack)
           more == Append(stack, f)
<1>1. n \in Nat /\ Len(more) = n + 1
      /\ \A i \in 1 .. n + 1 : more[i] = IF i = n + 1 THEN f ELSE stack[i]
  BY LenProperties, AppendProperties
<1>2. PICK plan \in Seq(Items(s)) : IsPlan(s, stack, v, a, plan)
  BY DEF MakesWorth
<1> DEFINE longer == Append(plan, b)
<1>3. /\ Len(plan) = n + 1 /\ plan[n + 1] = a
      /\ plan[1][2] = v /\ Expr!SkipSpace(s, plan[1][1]) = Len(s)
      /\ \A i \in 1 .. n : Returns(s, stack[i], plan[i + 1], plan[i])
  BY <1>2 DEF IsPlan
<1> HIDE DEF n, more
<1>4. /\ longer \in Seq(Items(s)) /\ Len(longer) = (n + 1) + 1
      /\ \A i \in 1 .. (n + 1) + 1 : longer[i] = IF i = (n + 1) + 1 THEN b ELSE plan[i]
  BY <1>3, AppendProperties
<1> HIDE DEF longer
<1>5. /\ \A i \in 1 .. n + 1 : longer[i] = plan[i]
      /\ longer[(n + 1) + 1] = b
  BY <1>1, <1>4
<1>6. more[n + 1] = f /\ \A i \in 1 .. n : more[i] = stack[i]
  BY <1>1
<1>7. /\ 1 \in 1 .. n + 1 /\ n + 1 \in 1 .. n + 1
      /\ \A i \in 1 .. n : i \in 1 .. n + 1 /\ i + 1 \in 1 .. n + 1
      /\ \A i \in 1 .. n + 1 : i \in 1 .. n \/ i = n + 1
  BY <1>1
<1>8. ASSUME NEW i \in 1 .. n + 1
      PROVE  Returns(s, more[i], longer[i + 1], longer[i])
  <2>1. CASE i \in 1 .. n
    BY <1>3, <1>5, <1>6, <1>7, <2>1
  <2>2. CASE i = n + 1
    BY <1>3, <1>5, <1>6, <1>7, <2>2
  <2> QED
    BY <1>7, <2>1, <2>2
<1>9. longer[1] = plan[1]
  BY <1>5, <1>7
<1>10. IsPlan(s, more, v, b, longer)
  BY <1>1, <1>3, <1>4, <1>5, <1>8, <1>9 DEF IsPlan
<1> QED
  BY <1>4, <1>10 DEF MakesWorth, more

LEMMA WorthPop ==
  ASSUME NEW s, NEW S, NEW stack \in Seq(S), stack # <<>>, NEW v, NEW b,
         MakesWorth(s, stack, v, b)
  PROVE  \E a \in Items(s) :
           MakesWorth(s, Expr!Front(stack), v, a) /\ Returns(s, Expr!Last(stack), b, a)
<1> DEFINE n == Len(stack)
           less == Expr!Front(stack)
           f == Expr!Last(stack)
<1>1. /\ n \in Nat \ {0} /\ Len(less) = n - 1
      /\ f = stack[n] /\ \A i \in 1 .. n - 1 : less[i] = stack[i]
  BY FrontAndLast
<1>2. PICK plan \in Seq(Items(s)) : IsPlan(s, stack, v, b, plan)
  BY DEF MakesWorth
<1> DEFINE shorter == Expr!Front(plan)
<1>3. /\ Len(plan) = n + 1 /\ plan[n + 1] = b
      /\ plan[1][2] = v /\ Expr!SkipSpace(s, plan[1][1]) = Len(s)
      /\ \A i \in 1 .. n : Returns(s, stack[i], plan[i + 1], plan[i])
  BY <1>2 DEF IsPlan
<1> HIDE DEF n, less, f
<1>4. plan # <<>>
  BY <1>1, <1>3, EmptySeq
<1>5. /\ shorter \in Seq(Items(s)) /\ Len(shorter) = (n + 1) - 1
      /\ \A i \in 1 .. (n + 1) - 1 : shorter[i] = plan[i]
  BY <1>3, <1>4, FrontAndLast
<1> HIDE DEF shorter
<1>6. (n + 1) - 1 = n /\ (n - 1) + 1 = n /\ 1 \in 1 .. n /\ n \in 1 .. n
      /\ \A i \in 1 .. n - 1 : i \in 1 .. n /\ i + 1 \in 1 .. n
  BY <1>1
<1>7. Len(shorter) = n /\ \A i \in 1 .. n : shorter[i] = plan[i]
  BY <1>5, <1>6
<1>8. \A i \in 1 .. n - 1 : Returns(s, less[i], shorter[i + 1], shorter[i])
  BY <1>1, <1>3, <1>6, <1>7
<1>9. shorter[1] = plan[1] /\ shorter[n] = plan[n]
  BY <1>6, <1>7
<1>10. IsPlan(s, less, v, plan[n], shorter)
  BY <1>1, <1>3, <1>6, <1>7, <1>8, <1>9 DEF IsPlan
<1>11. MakesWorth(s, less, v, plan[n])
  BY <1>5, <1>10 DEF MakesWorth
<1>12. Returns(s, f, b, plan[n])
  BY <1>1, <1>3, <1>6
<1>13. plan[n] \in Items(s)
  <2>1. n \in 1 .. n + 1
    BY <1>1
  <2> QED
    BY <1>3, <2>1, ElementOfSeq
<1> QED
  BY <1>11, <1>12, <1>13 DEF less, f
-----------------------------------------------------------------------------
(* The steps of the parser. *)

LEMMA FrameIs ==
  ASSUME NEW s, NEW call \in {"sum", "product", "minus", "paren"},
         NEW at \in Pos(s), NEW from \in Pos(s)
  PROVE  LET f == Expr!Frame(call, at, from) IN
         /\ f \in Frames(s)
         /\ f.call = call /\ f.at = at /\ f.from = from /\ f.op = "first"
<1>1. call \in DOMAIN Awaited
  BY DEF Awaited
<1> DEFINE f == Expr!Frame(call, at, from)
<1>2. f = [call |-> call, at |-> at, from |-> from, op |-> "first", left |-> <<0, 1>>]
  BY DEF Expr!Frame
<1> HIDE DEF f
<1>3. f \in Frames(s)
  <2>1. <<0, 1>> \in Amounts(s) \cup {<<0, 1>>}
    BY Zenon
  <2> DEFINE zero == <<0, 1>>
             lefts == Amounts(s) \cup {zero}
  <2> HIDE DEF zero, lefts
  <2>2. [call |-> call, at |-> at, from |-> from, op |-> "first", left |-> zero] \in
          [call : DOMAIN Awaited, at : Pos(s), from : Pos(s),
           op : {"first", "+", "-", "*", "/"}, left : lefts]
    BY <1>1, <2>1 DEF zero, lefts
  <2> QED
    BY <1>2, <2>2 DEF Frames, zero, lefts
<1>4. f.call = call /\ f.at = at /\ f.from = from /\ f.op = "first"
  BY <1>2
<1> QED
  BY <1>3, <1>4 DEF f

LEMMA CallsAre ==
  /\ Awaited["sum"] = "product" /\ Awaited["product"] = "factor"
  /\ Awaited["minus"] = "factor" /\ Awaited["paren"] = "sum"
  /\ Yields["sum"] = "sum" /\ Yields["product"] = "product"
  /\ Yields["minus"] = "factor" /\ Yields["paren"] = "factor"
  /\ DOMAIN Awaited = {"sum", "product", "minus", "paren"}
BY DEF Awaited, Yields

LEMMA ValueIsWorth ==
  ASSUME NEW s, IsText(s), NEW v
  PROVE  v \in Expr!ValuesOf(s, Meaning(s)) <=>
           \E q : IsWorth(s, "sum", 0, q, v) /\ Expr!SkipSpace(s, q) = Len(s)
<1> DEFINE Q == {q \in 0 .. Len(s) : Expr!SkipSpace(s, q) = Len(s)}
<1>1. Expr!ValuesOf(s, Meaning(s)) = UNION {Meaning(s).sum[<<0, q>>] : q \in Q}
  BY DEF Expr!ValuesOf
<1>2. 0 \in Pos(s)
  BY LenProperties DEF IsText, Pos
<1>3. \A q : q \in Q <=> q \in Pos(s) /\ Expr!SkipSpace(s, q) = Len(s)
  BY DEF Pos
<1> HIDE DEF Q
<1>4. v \in Expr!ValuesOf(s, Meaning(s)) <=> \E q \in Q : v \in Meaning(s).sum[<<0, q>>]
  BY <1>1
<1> QED
  BY <1>2, <1>3, <1>4 DEF IsWorth

\* What l is planned to come to.
IsDue(s, l, v, a) ==
  /\ a \in Items(s) /\ MakesWorth(s, l.stack, v, a)
  /\ IF l.reading THEN IsWorth(s, "factor", l.pos, a[1], a[2]) ELSE a = <<l.pos, l.value>>

LEMMA WhatIsDue ==
  ASSUME NEW s, NEW l, ParserFits(s, l), NEW v \in Expr!ValuesOf(s, Meaning(s))
  PROVE  l.ok /\ \E a : IsDue(s, l, v, a)
<1>1. Planned(s, l, v)
  BY DEF ParserFits
<1> QED
  BY <1>1 DEF Planned, IsDue

LEMMA FitsAgain ==
  ASSUME NEW s, NEW l, DOMAIN l = {"ok", "reading", "pos", "value", "stack"},
         l.ok = TRUE, l.reading \in BOOLEAN, l.pos \in Pos(s), IsStack(s, l.stack),
         ReadingFits(s, l),
         \A v \in Expr!ValuesOf(s, Meaning(s)) : \E a : IsDue(s, l, v, a)
  PROVE  ParserFits(s, l)
<1>1. IsParser(s, l)
  BY DEF IsParser
<1>2. \A v \in Expr!ValuesOf(s, Meaning(s)) : Planned(s, l, v)
  BY DEF Planned, IsDue
<1> QED
  BY <1>1, <1>2 DEF ParserFits

LEMMA RefusedFits ==
  ASSUME NEW s, NEW l, ParserFits(s, l), Expr!ValuesOf(s, Meaning(s)) = {}
  PROVE  ParserFits(s, Expr!Refused(l))
<1> DEFINE after == Expr!Refused(l)
<1>1. IsParser(s, l) /\ IsStack(s, l.stack)
  BY DEF ParserFits
<1>2. after.ok = FALSE /\ after.reading = l.reading /\ after.pos = l.pos /\ after.value = l.value
      /\ after.stack = l.stack /\ DOMAIN after = DOMAIN l
  BY <1>1 DEF IsParser, Expr!Refused
<1> HIDE DEF after
<1>3. IsParser(s, after)
  BY <1>1, <1>2 DEF IsParser
<1> QED
  BY <1>1, <1>2, <1>3 DEF ParserFits, after

LEMMA ProductOpens ==
  ASSUME NEW s, IsText(s), NEW stack \in Seq(Frames(s)), NEW p \in Pos(s), NEW v, NEW a \in Items(s),
         MakesWorth(s, stack, v, a), IsWorth(s, "product", p, a[1], a[2]), Ends(s, "product", a)
  PROVE  \E b \in Items(s) :
           /\ MakesWorth(s, Append(stack, Expr!Frame("product", p, p)), v, b)
           /\ IsWorth(s, "factor", p, b[1], b[2])
<1> DEFINE f == Expr!Frame("product", p, p)
<1>1. f \in Frames(s) /\ f.call = "product" /\ f.op = "first"
  BY FrameIs
<1> HIDE DEF f
<1>2. PICK m, u : IsWorth(s, "factor", p, m, u) /\ Reaches(s, "product", <<m, u>>, <<a[1], a[2]>>)
  BY ChainBegins, CallsAre
<1>3. <<m, u>> \in Items(s)
  BY <1>2, WorthHasLength
<1>4. a = <<a[1], a[2]>> /\ <<m, u>>[1] = m /\ <<m, u>>[2] = u
  BY DEF Items
<1>5. Returns(s, f, <<m, u>>, a)
  BY <1>1, <1>2, <1>4 DEF Returns, Expr!ByZero
<1>6. MakesWorth(s, Append(stack, f), v, <<m, u>>)
  BY <1>1, <1>3, <1>5, WorthPush
<1> QED
  BY <1>2, <1>3, <1>4, <1>6 DEF f

LEMMA SumOpens ==
  ASSUME NEW s, IsText(s), NEW stack \in Seq(Frames(s)), NEW p \in Pos(s), NEW v, NEW a \in Items(s),
         MakesWorth(s, stack, v, a), IsWorth(s, "sum", p, a[1], a[2]), Ends(s, "sum", a)
  PROVE  \E b \in Items(s) :
           /\ MakesWorth(s, Append(Append(stack, Expr!Frame("sum", p, p)),
                                   Expr!Frame("product", p, p)), v, b)
           /\ IsWorth(s, "factor", p, b[1], b[2])
<1> DEFINE f == Expr!Frame("sum", p, p)
<1>1. f \in Frames(s) /\ f.call = "sum" /\ f.op = "first"
  BY FrameIs
<1> HIDE DEF f
<1>2. PICK m, u : IsWorth(s, "product", p, m, u) /\ Reaches(s, "sum", <<m, u>>, <<a[1], a[2]>>)
  BY ChainBegins, CallsAre
<1>3. <<m, u>> \in Items(s)
  BY <1>2, WorthHasLength
<1>4. a = <<a[1], a[2]>> /\ <<m, u>>[1] = m /\ <<m, u>>[2] = u
  BY DEF Items
<1>5. Returns(s, f, <<m, u>>, a)
  BY <1>1, <1>2, <1>4 DEF Returns, Expr!ByZero
<1>6. MakesWorth(s, Append(stack, f), v, <<m, u>>) /\ Append(stack, f) \in Seq(Frames(s))
  BY <1>1, <1>3, <1>5, WorthPush, AppendProperties
<1>7. Ends(s, "product", <<m, u>>)
  BY <1>2, <1>4, OperandEnds
<1> QED
  BY <1>2, <1>3, <1>4, <1>6, <1>7, ProductOpens DEF f

\* The two calls that parseExpression begins with.
LEMMA StackOpens ==
  ASSUME NEW s, NEW stack, IsStack(s, stack), NEW p \in Pos(s),
         PartAbove(stack, Len(stack)) = "sum", StartAbove(stack, Len(stack)) = p
  PROVE  LET more == Append(Append(stack, Expr!Frame("sum", p, p)), Expr!Frame("product", p, p)) IN
         /\ IsStack(s, more)
         /\ PartAbove(more, Len(more)) = "factor"
         /\ StartAbove(more, Len(more)) = p
<1> DEFINE f == Expr!Frame("sum", p, p)
           g == Expr!Frame("product", p, p)
           one == Append(stack, f)
           more == Append(one, g)
<1>1. f \in Frames(s) /\ f.call = "sum" /\ f.op = "first" /\ f.at = p /\ f.from = p
  BY FrameIs
<1>2. g \in Frames(s) /\ g.call = "product" /\ g.op = "first" /\ g.at = p /\ g.from = p
  BY FrameIs
<1> HIDE DEF f, g
<1>3. FrameFits(s, f) /\ FrameFits(s, g)
  BY <1>1, <1>2 DEF FrameFits
<1>4. IsStack(s, one) /\ PartAbove(one, Len(one)) = "product" /\ StartAbove(one, Len(one)) = p
  BY <1>1, <1>3, StackPush, CallsAre
<1> HIDE DEF one
<1>5. IsStack(s, more) /\ PartAbove(more, Len(more)) = "factor" /\ StartAbove(more, Len(more)) = p
  BY <1>2, <1>3, <1>4, StackPush, CallsAre
<1> QED
  BY <1>5 DEF f, g, one

LEMMA AppendTwo ==
  ASSUME NEW S, NEW stack \in Seq(S), NEW f \in S, NEW g \in S
  PROVE  stack \o <<f, g>> = Append(Append(stack, f), g)
<1>1. <<f>> \in Seq(S) /\ <<g>> \in Seq(S) /\ <<f, g>> = <<f>> \o <<g>>
  <2>1. <<f>> \in Seq(S) /\ Len(<<f>>) = 1 /\ <<f>>[1] = f
    OBVIOUS
  <2>2. <<g>> \in Seq(S) /\ Len(<<g>>) = 1 /\ <<g>>[1] = g
    OBVIOUS
  <2>3. <<f, g>> \in Seq(S) /\ Len(<<f, g>>) = 2 /\ <<f, g>>[1] = f /\ <<f, g>>[2] = g
    OBVIOUS
  <2> DEFINE t == <<f, g>>
             u == <<f>>
             w == <<g>>
  <2> HIDE DEF t, u, w
  <2>4. /\ u \o w \in Seq(S) /\ Len(u \o w) = 2
        /\ \A i \in 1 .. 2 : (u \o w)[i] = IF i <= 1 THEN u[i] ELSE w[i - 1]
    BY <2>1, <2>2, ConcatProperties DEF u, w
  <2>5. \A i \in 1 .. 2 : (u \o w)[i] = t[i]
    BY <2>1, <2>2, <2>3, <2>4 DEF t, u, w
  <2>6. t = u \o w
    BY <2>3, <2>4, <2>5, SeqEqual DEF t
  <2> QED
    BY <2>1, <2>2, <2>6 DEF t, u, w
<1>2. Append(stack, f) = stack \o <<f>> /\ Append(stack, f) \in Seq(S)
  BY AppendIsConcat, AppendProperties
<1>3. Append(Append(stack, f), g) = Append(stack, f) \o <<g>>
  BY <1>2, AppendIsConcat
<1> QED
  BY <1>1, <1>2, <1>3, ConcatAssociative
-----------------------------------------------------------------------------
LEMMA ParseFactorKeeps ==
  ASSUME NEW s, IsText(s), NEW l, ParserFits(s, l), l.ok, l.reading
  PROVE  ParserFits(s, Expr!ParseFactor(s, l))
<1> DEFINE p == l.pos
           b == Expr!SkipSpace(s, p)
           number == Expr!ParseNumber(s, b)
           after == Expr!ParseFactor(s, l)
           values == Expr!ValuesOf(s, Meaning(s))
           Place == PartAbove(l.stack, Len(l.stack)) = "factor"
                    /\ StartAbove(l.stack, Len(l.stack)) = p
<1>1. /\ DOMAIN l = {"ok", "reading", "pos", "value", "stack"} /\ l.ok = TRUE /\ l.reading = TRUE
      /\ p \in Pos(s) /\ IsStack(s, l.stack) /\ l.stack \in Seq(Frames(s))
  BY DEF ParserFits, IsParser, IsStack
<1>2. Place
  BY DEF ParserFits, ReadingFits
<1>3. s \in Seq(STRING)
  BY DEF IsText
<1>4. \A v \in values : \E a : IsDue(s, l, v, a)
  BY WhatIsDue
<1>5. ASSUME NEW v, NEW a, IsDue(s, l, v, a)
      PROVE  a \in Items(s) /\ MakesWorth(s, l.stack, v, a) /\ IsWorth(s, "factor", p, a[1], a[2])
             /\ a = <<a[1], a[2]>> /\ a[1] \in Pos(s)
  BY <1>1, <1>5 DEF IsDue, Items
<1> HIDE DEF values, Place
<1>6. CASE SignAt(s, p) = "-"
  <2> DEFINE f == Expr!Frame("minus", p, Behind(s, p))
  <2>1. Behind(s, p) \in Pos(s)
    BY <1>1, <1>3, <1>6, SignIsThere
  <2>2. f \in Frames(s) /\ f.call = "minus" /\ f.at = p /\ f.from = Behind(s, p)
    BY <1>1, <2>1, FrameIs
  <2>3. after = [l EXCEPT !.pos = Behind(s, p), !.stack = Append(@, f)]
    BY <1>6 DEF Expr!ParseFactor, SignAt, Behind
  <2> HIDE DEF f, after
  <2>4. /\ DOMAIN after = DOMAIN l /\ after.ok = TRUE /\ after.reading = TRUE
        /\ after.pos = Behind(s, p) /\ after.stack = Append(l.stack, f)
    BY <1>1, <2>3
  <2>5. FrameFits(s, f)
    BY <1>6, <2>2 DEF FrameFits
  <2>6. /\ IsStack(s, after.stack)
        /\ PartAbove(after.stack, Len(after.stack)) = "factor"
        /\ StartAbove(after.stack, Len(after.stack)) = Behind(s, p)
    BY <1>1, <1>2, <2>2, <2>4, <2>5, StackPush, CallsAre DEF Place
  <2>7. ReadingFits(s, after)
    BY <2>4, <2>6 DEF ReadingFits
  <2>8. ASSUME NEW v \in values
        PROVE  \E c : IsDue(s, after, v, c)
    <3>1. PICK a : IsDue(s, l, v, a)
      BY <1>4
    <3>2. a \in Items(s) /\ MakesWorth(s, l.stack, v, a) /\ IsWorth(s, "factor", p, a[1], a[2])
          /\ a = <<a[1], a[2]>>
      BY <1>5, <3>1
    <3>3. PICK u : IsWorth(s, "factor", Behind(s, p), a[1], u) /\ a[2] = Expr!Negated(u)
      BY <1>1, <1>6, <3>2, MinusIsWorth
    <3> DEFINE c == <<a[1], u>>
    <3>4. c \in Items(s)
      BY <3>3, WorthHasLength
    <3>5. c[1] = a[1] /\ c[2] = u
      OBVIOUS
    <3> HIDE DEF c
    <3>6. Returns(s, f, c, a)
      BY <2>2, <3>2, <3>3, <3>5 DEF Returns
    <3>7. MakesWorth(s, after.stack, v, c)
      BY <1>1, <2>2, <2>4, <3>2, <3>4, <3>6, WorthPush
    <3> QED
      BY <2>4, <3>3, <3>4, <3>5, <3>7 DEF IsDue
  <2> QED
    BY <1>1, <2>1, <2>4, <2>6, <2>7, <2>8, FitsAgain DEF after, values
<1>7. CASE SignAt(s, p) = "("
  <2> DEFINE f == Expr!Frame("paren", p, Behind(s, p))
             one == Append(l.stack, f)
             more == Append(Append(one, Expr!Frame("sum", Behind(s, p), Behind(s, p))),
                            Expr!Frame("product", Behind(s, p), Behind(s, p)))
  <2>1. Behind(s, p) \in Pos(s)
    BY <1>1, <1>3, <1>7, SignIsThere
  <2>2. f \in Frames(s) /\ f.call = "paren" /\ f.at = p /\ f.from = Behind(s, p)
    BY <1>1, <2>1, FrameIs
  <2>3. after = [l EXCEPT !.pos = Behind(s, p), !.stack = one \o Expr!Opened(Behind(s, p))]
    BY <1>7 DEF Expr!ParseFactor, SignAt, Behind
  <2>4. one \in Seq(Frames(s))
    BY <1>1, <2>2, AppendProperties
  <2> HIDE DEF f, after
  <2>5. one \o Expr!Opened(Behind(s, p)) = more
    <3>1. /\ Expr!Frame("sum", Behind(s, p), Behind(s, p)) \in Frames(s)
          /\ Expr!Frame("product", Behind(s, p), Behind(s, p)) \in Frames(s)
      BY <2>1, FrameIs
    <3> QED
      BY <2>4, <3>1, AppendTwo DEF Expr!Opened
  <2>6. /\ DOMAIN after = DOMAIN l /\ after.ok = TRUE /\ after.reading = TRUE
        /\ after.pos = Behind(s, p) /\ after.stack = more
    BY <1>1, <2>3, <2>5
  <2>7. FrameFits(s, f)
    BY <1>7, <2>2 DEF FrameFits
  <2>8. /\ IsStack(s, one)
        /\ PartAbove(one, Len(one)) = "sum" /\ StartAbove(one, Len(one)) = Behind(s, p)
    BY <1>1, <1>2, <2>2, <2>7, StackPush, CallsAre DEF Place
  <2> HIDE DEF one
  <2>9. /\ IsStack(s, more)
        /\ PartAbove(more, Len(more)) = "factor" /\ StartAbove(more, Len(more)) = Behind(s, p)
    BY <2>1, <2>8, StackOpens
  <2>10. ReadingFits(s, after)
    BY <2>6, <2>9 DEF ReadingFits
  <2>11. ASSUME NEW v \in values
         PROVE  \E c : IsDue(s, after, v, c)
    <3>1. PICK a : IsDue(s, l, v, a)
      BY <1>4
    <3>2. a \in Items(s) /\ MakesWorth(s, l.stack, v, a) /\ IsWorth(s, "factor", p, a[1], a[2])
          /\ a = <<a[1], a[2]>>
      BY <1>5, <3>1
    <3>3. PICK m : /\ IsWorth(s, "sum", Behind(s, p), m, a[2])
                   /\ SignAt(s, m) = ")" /\ a[1] = Behind(s, m)
      BY <1>1, <1>7, <3>2, ParenIsWorth
    <3> DEFINE c == <<m, a[2]>>
    <3>4. c \in Items(s)
      BY <3>3, WorthHasLength
    <3>5. c[1] = m /\ c[2] = a[2]
      OBVIOUS
    <3> HIDE DEF c
    <3>6. Returns(s, f, c, a)
      BY <2>2, <3>2, <3>3, <3>5 DEF Returns
    <3>7. MakesWorth(s, one, v, c)
      BY <1>1, <2>2, <3>2, <3>4, <3>6, WorthPush DEF one
    <3>8. Ends(s, "sum", c)
      BY <3>3, <3>5 DEF Ends, Expr!Signs
    <3>9. \E d \in Items(s) : MakesWorth(s, more, v, d) /\ IsWorth(s, "factor", Behind(s, p), d[1], d[2])
      BY <2>1, <2>4, <3>3, <3>4, <3>5, <3>7, <3>8, SumOpens
    <3> QED
      BY <2>6, <3>9 DEF IsDue
  <2> HIDE DEF more
  <2> QED
    BY <1>1, <2>1, <2>6, <2>9, <2>10, <2>11, FitsAgain DEF after, values
<1>8. CASE SignAt(s, p) \notin {"-", "("} /\ number.ok
  <2>1. after = [l EXCEPT !.reading = FALSE, !.pos = number.pos, !.value = number.value]
    BY <1>8 DEF Expr!ParseFactor, SignAt
  <2> HIDE DEF after
  <2>2. \A q, v : IsWorth(s, "factor", p, q, v) <=> q = number.pos /\ v = number.value
    BY <1>1, <1>8, NumberIsWorth
  <2> HIDE DEF number
  <2>3. IsWorth(s, "factor", p, number.pos, number.value)
    BY <2>2
  <2>4. number.pos \in Pos(s)
    BY <2>3, WorthHasLength
  <2>5. /\ DOMAIN after = DOMAIN l /\ after.ok = TRUE /\ after.reading = FALSE
        /\ after.pos = number.pos /\ after.value = number.value /\ after.stack = l.stack
    BY <1>1, <2>1
  <2>6. ReadingFits(s, after)
    BY <1>2, <2>3, <2>5 DEF ReadingFits, Place
  <2>7. ASSUME NEW v \in values
        PROVE  \E c : IsDue(s, after, v, c)
    <3>1. PICK a : IsDue(s, l, v, a)
      BY <1>4
    <3>2. a \in Items(s) /\ MakesWorth(s, l.stack, v, a) /\ IsWorth(s, "factor", p, a[1], a[2])
          /\ a = <<a[1], a[2]>>
      BY <1>5, <3>1
    <3>3. a = <<number.pos, number.value>>
      BY <2>2, <3>2
    <3> QED
      BY <2>5, <3>2, <3>3 DEF IsDue
  <2> QED
    BY <1>1, <2>4, <2>5, <2>6, <2>7, FitsAgain DEF after, values
<1>9. CASE SignAt(s, p) \notin {"-", "("} /\ ~number.ok
  <2>1. after = Expr!Refused(l)
    BY <1>9 DEF Expr!ParseFactor, SignAt
  <2>2. \A q, v : ~IsWorth(s, "factor", p, q, v)
    BY <1>1, <1>9, NumberIsWorth
  <2>3. values = {}
    BY <1>4, <1>5, <2>2
  <2> QED
    BY <2>1, <2>3, RefusedFits DEF values
<1> QED
  BY <1>6, <1>7, <1>8, <1>9

LEMMA EndFactorKeeps ==
  ASSUME NEW s, IsText(s), NEW l, ParserFits(s, l), l.ok, ~l.reading, l.stack # <<>>,
         Expr!Last(l.stack).call \in {"minus", "paren"}
  PROVE  ParserFits(s, Expr!EndFactor(s, l))
<1> DEFINE f == Expr!Last(l.stack)
           less == Expr!Front(l.stack)
           after == Expr!EndFactor(s, l)
           values == Expr!ValuesOf(s, Meaning(s))
<1>1. /\ DOMAIN l = {"ok", "reading", "pos", "value", "stack"} /\ l.ok = TRUE /\ l.reading = FALSE
      /\ l.pos \in Pos(s) /\ IsStack(s, l.stack) /\ l.stack \in Seq(Frames(s))
  BY DEF ParserFits, IsParser, IsStack
<1>2. /\ IsStack(s, less) /\ f \in Frames(s) /\ FrameFits(s, f)
      /\ Yields[f.call] = PartAbove(less, Len(less)) /\ f.at = StartAbove(less, Len(less))
      /\ PartAbove(l.stack, Len(l.stack)) = Awaited[f.call]
      /\ StartAbove(l.stack, Len(l.stack)) = f.from
  BY <1>1, StackPop
<1>3. s \in Seq(STRING) /\ f.at \in Pos(s)
  BY <1>2 DEF IsText, Frames
<1>4. IsWorth(s, Awaited[f.call], f.from, l.pos, l.value)
  BY <1>1, <1>2 DEF ParserFits, ReadingFits
<1>5. ASSUME NEW v \in values
      PROVE  \E a \in Items(s) : MakesWorth(s, less, v, a) /\ Returns(s, f, <<l.pos, l.value>>, a)
  <2>1. PICK b : IsDue(s, l, v, b)
    BY WhatIsDue
  <2>2. MakesWorth(s, l.stack, v, <<l.pos, l.value>>)
    BY <1>1, <2>1 DEF IsDue
  <2> QED
    BY <1>1, <2>2, WorthPop
<1> DEFINE here == <<l.pos, l.value>>
<1>6. here[1] = l.pos /\ here[2] = l.value
  OBVIOUS
<1> HIDE DEF values, less, f
<1>7. CASE f.call = "minus"
  <2>1. after = [l EXCEPT !.value = Expr!Negated(@), !.stack = less]
    BY <1>7 DEF Expr!EndFactor, f, less
  <2> HIDE DEF after, here
  <2>2. /\ DOMAIN after = DOMAIN l /\ after.ok = TRUE /\ after.reading = FALSE
        /\ after.pos = l.pos /\ after.value = Expr!Negated(l.value) /\ after.stack = less
    BY <1>1, <2>1
  <2>3. IsWorth(s, "factor", f.at, l.pos, Expr!Negated(l.value))
    <3>1. SignAt(s, f.at) = "-" /\ f.from = Behind(s, f.at)
      BY <1>2, <1>7 DEF FrameFits
    <3>2. IsWorth(s, "factor", Behind(s, f.at), l.pos, l.value)
      BY <1>4, <1>7, <3>1, CallsAre
    <3> QED
      BY <1>3, <3>1, <3>2, MinusIsWorth
  <2>4. ReadingFits(s, after)
    BY <1>2, <1>7, <2>2, <2>3, CallsAre DEF ReadingFits
  <2>5. ASSUME NEW v \in values
        PROVE  \E c : IsDue(s, after, v, c)
    <3>1. PICK a \in Items(s) : MakesWorth(s, less, v, a) /\ Returns(s, f, here, a)
      BY <1>5 DEF here
    <3>2. a = <<l.pos, Expr!Negated(l.value)>>
      BY <1>6, <1>7, <3>1 DEF Returns
    <3> QED
      BY <2>2, <3>1, <3>2 DEF IsDue
  <2> QED
    BY <1>1, <1>2, <2>2, <2>4, <2>5, FitsAgain DEF after, values
<1>8. CASE f.call = "paren" /\ SignAt(s, l.pos) = ")"
  <2>1. after = [l EXCEPT !.pos = Behind(s, l.pos), !.stack = less]
    BY <1>8 DEF Expr!EndFactor, f, less, SignAt, Behind
  <2> HIDE DEF after, here
  <2>2. /\ DOMAIN after = DOMAIN l /\ after.ok = TRUE /\ after.reading = FALSE
        /\ after.pos = Behind(s, l.pos) /\ after.value = l.value /\ after.stack = less
    BY <1>1, <2>1
  <2>3. Behind(s, l.pos) \in Pos(s)
    BY <1>1, <1>3, <1>8, SignIsThere
  <2>4. IsWorth(s, "factor", f.at, Behind(s, l.pos), l.value)
    <3>1. SignAt(s, f.at) = "(" /\ f.from = Behind(s, f.at)
      BY <1>2, <1>8 DEF FrameFits
    <3>2. IsWorth(s, "sum", Behind(s, f.at), l.pos, l.value)
      BY <1>4, <1>8, <3>1, CallsAre
    <3> QED
      BY <1>3, <1>8, <3>1, <3>2, ParenIsWorth
  <2>5. ReadingFits(s, after)
    BY <1>2, <1>8, <2>2, <2>4, CallsAre DEF ReadingFits
  <2>6. ASSUME NEW v \in values
        PROVE  \E c : IsDue(s, after, v, c)
    <3>1. PICK a \in Items(s) : MakesWorth(s, less, v, a) /\ Returns(s, f, here, a)
      BY <1>5 DEF here
    <3>2. a = <<Behind(s, l.pos), l.value>>
      BY <1>6, <1>8, <3>1 DEF Returns
    <3> QED
      BY <2>2, <3>1, <3>2 DEF IsDue
  <2> QED
    BY <1>1, <1>2, <2>2, <2>3, <2>5, <2>6, FitsAgain DEF after, values
<1>9. CASE f.call = "paren" /\ SignAt(s, l.pos) # ")"
  <2>1. after = Expr!Refused(l)
    BY <1>9 DEF Expr!EndFactor, f, SignAt
  <2>2. \A v \in values : FALSE
    <3> HIDE DEF here
    <3>1. ASSUME NEW v \in values, NEW a \in Items(s), Returns(s, f, here, a)
          PROVE  FALSE
      BY <1>6, <1>9, <3>1 DEF Returns
    <3> QED
      BY <1>5, <3>1 DEF here
  <2> QED
    BY <2>1, <2>2, RefusedFits DEF values
<1> QED
  BY <1>7, <1>8, <1>9 DEF f

\* What a call has when its operand is there.
Taken(f, value) == IF f.op = "first" THEN value ELSE Expr!Combine(f.op, f.left, value)

LEMMA TakenIsWorth ==
  ASSUME NEW s, IsText(s), NEW f \in Frames(s), f.call \in {"sum", "product"}, FrameFits(s, f),
         NEW pos, NEW value, IsWorth(s, Awaited[f.call], f.from, pos, value),
         ~Expr!ByZero(f.op, value)
  PROVE  IsWorth(s, f.call, f.at, pos, Taken(f, value))
<1>1. CASE f.op = "first"
  <2>1. f.from = f.at
    BY <1>1 DEF FrameFits
  <2> QED
    BY <1>1, <2>1, ChainIsWorth DEF Taken
<1>2. CASE f.op # "first"
  <2>1. PICK m \in Pos(s) : /\ IsWorth(s, f.call, f.at, m, f.left)
                            /\ SignAt(s, m) = f.op /\ f.from = Behind(s, m)
    BY <1>2 DEF FrameFits
  <2>2. f.op \in Expr!Signs[f.call]
    BY <1>2 DEF FrameFits
  <2>3. Awaited[f.call] \in {"product", "factor"}
    BY CallsAre
  <2>4. value \in Amounts(s) /\ pos \in Pos(s)
    BY <2>3, WorthHasLength
  <2> DEFINE a == <<m, f.left>>
             b == <<pos, Taken(f, value)>>
  <2>5. a[1] = m /\ a[2] = f.left /\ b[1] = pos /\ b[2] = Taken(f, value)
    OBVIOUS
  <2>6. Taken(f, value) = Expr!Combine(SignAt(s, m), f.left, value)
    BY <1>2, <2>1 DEF Taken
  <2> HIDE DEF a, b
  <2>7. Leads(s, f.call, a, b)
    BY <2>1, <2>2, <2>4, <2>5, <2>6 DEF Leads
  <2>8. Leads(s, f.call, <<m, f.left>>, <<pos, Taken(f, value)>>)
    BY <2>7, Zenon DEF a, b
  <2>9. IsWorth(s, f.call, f.at, m, f.left) /\ pos \in Pos(s)
    BY <2>1, <2>4
  <2>10. \E n, l : /\ IsWorth(s, f.call, f.at, n, l) /\ pos \in Pos(s)
                   /\ Leads(s, f.call, <<n, l>>, <<pos, Taken(f, value)>>)
    BY <2>8, <2>9
  <2> QED
    BY <2>10, ChainIsWorth
<1> QED
  BY <1>1, <1>2

LEMMA NextOperandIs ==
  ASSUME NEW s, NEW l, DOMAIN l = {"ok", "reading", "pos", "value", "stack"},
         NEW S, l.stack \in Seq(S), l.stack # <<>>
  PROVE  LET f == Expr!Last(l.stack)
             sign == SignAt(s, l.pos)
             left == Taken(f, l.value)
             again == [f EXCEPT !.op = sign, !.left = left, !.from = Behind(s, l.pos)]
             deeper == IF f.call = "sum"
                       THEN << Expr!Frame("product", Behind(s, l.pos), Behind(s, l.pos)) >>
                       ELSE <<>>
             after == Expr!NextOperand(s, l)
         IN /\ Expr!ByZero(f.op, l.value) => after = Expr!Refused(l)
            /\ ~Expr!ByZero(f.op, l.value) => DOMAIN after = DOMAIN l /\ after.ok = l.ok
            /\ ~Expr!ByZero(f.op, l.value) /\ sign \in Expr!Signs[f.call] =>
                 /\ after.reading = TRUE /\ after.pos = Behind(s, l.pos)
                 /\ after.stack = Append(Expr!Front(l.stack), again) \o deeper
            /\ ~Expr!ByZero(f.op, l.value) /\ sign \notin Expr!Signs[f.call] =>
                 /\ after.reading = l.reading /\ after.pos = l.pos
                 /\ after.value = left /\ after.stack = Expr!Front(l.stack)
BY DEF Expr!NextOperand, SignAt, Behind, Taken

LEMMA NextOperandKeeps ==
  ASSUME NEW s, IsText(s), NEW l, ParserFits(s, l), l.ok, ~l.reading, l.stack # <<>>,
         Expr!Last(l.stack).call \in {"sum", "product"}
  PROVE  ParserFits(s, Expr!NextOperand(s, l))
<1> DEFINE f == Expr!Last(l.stack)
           less == Expr!Front(l.stack)
           after == Expr!NextOperand(s, l)
           values == Expr!ValuesOf(s, Meaning(s))
           sign == SignAt(s, l.pos)
           left == Taken(f, l.value)
           next == Behind(s, l.pos)
           again == [f EXCEPT !.op = sign, !.left = left, !.from = next]
           deep == Expr!Frame("product", next, next)
           here == <<l.pos, l.value>>
           taken == <<l.pos, left>>
<1>1. /\ DOMAIN l = {"ok", "reading", "pos", "value", "stack"} /\ l.ok = TRUE /\ l.reading = FALSE
      /\ l.pos \in Pos(s) /\ IsStack(s, l.stack) /\ l.stack \in Seq(Frames(s))
  BY DEF ParserFits, IsParser, IsStack
<1>2. /\ IsStack(s, less) /\ f \in Frames(s) /\ FrameFits(s, f)
      /\ Yields[f.call] = PartAbove(less, Len(less)) /\ f.at = StartAbove(less, Len(less))
      /\ PartAbove(l.stack, Len(l.stack)) = Awaited[f.call]
      /\ StartAbove(l.stack, Len(l.stack)) = f.from
  BY <1>1, StackPop
<1>3. s \in Seq(STRING) /\ f.at \in Pos(s) /\ less \in Seq(Frames(s))
  BY <1>2 DEF IsText, Frames, IsStack
<1>4. IsWorth(s, Awaited[f.call], f.from, l.pos, l.value)
  BY <1>1, <1>2 DEF ParserFits, ReadingFits
<1>5. ASSUME NEW v \in values
      PROVE  \E c \in Items(s) : MakesWorth(s, less, v, c) /\ Returns(s, f, here, c)
  <2>1. PICK b : IsDue(s, l, v, b)
    BY WhatIsDue
  <2>2. MakesWorth(s, l.stack, v, here)
    BY <1>1, <2>1 DEF IsDue
  <2> QED
    BY <1>1, <2>2, WorthPop
<1>6. here[1] = l.pos /\ here[2] = l.value /\ taken[1] = l.pos /\ taken[2] = left
  OBVIOUS
<1>7. f.call \in {"sum", "product"} /\ Yields[f.call] = f.call
  BY CallsAre
<1>8. ASSUME NEW c \in Items(s), Returns(s, f, here, c)
      PROVE  ~Expr!ByZero(f.op, l.value) /\ Reaches(s, f.call, taken, c) /\ Ends(s, f.call, c)
  <2> HIDE DEF here, f
  <2>1. taken = <<here[1], IF f.op = "first" THEN here[2] ELSE Expr!Combine(f.op, f.left, here[2])>>
    BY <1>6 DEF Taken
  <2> HIDE DEF taken
  <2> QED
    BY <1>6, <1>7, <1>8, <2>1 DEF Returns
<1>9. CASE Expr!ByZero(f.op, l.value)
  <2>1. after = Expr!Refused(l)
    BY <1>1, <1>9, NextOperandIs
  <2>2. values = {}
    <3> HIDE DEF values, here, taken, f, less
    <3> QED
      BY <1>5, <1>8, <1>9
  <2> QED
    BY <2>1, <2>2, RefusedFits
<1>10. CASE ~Expr!ByZero(f.op, l.value) /\ sign \notin Expr!Signs[f.call]
  <2>1. /\ DOMAIN after = DOMAIN l /\ after.ok = TRUE /\ after.reading = FALSE
        /\ after.pos = l.pos /\ after.value = left /\ after.stack = less
    <3>1. /\ DOMAIN after = DOMAIN l /\ after.ok = l.ok
          /\ after.reading = l.reading /\ after.pos = l.pos
          /\ after.value = left /\ after.stack = less
      BY <1>1, <1>10, NextOperandIs, Zenon
    <3> QED
      BY <1>1, <3>1
  <2>2. IsWorth(s, f.call, f.at, l.pos, left)
    BY <1>2, <1>4, <1>7, <1>10, TakenIsWorth
  <2> HIDE DEF after, here, f, less, left
  <2>3. ReadingFits(s, after)
    BY <1>2, <1>7, <2>1, <2>2 DEF ReadingFits
  <2>4. ASSUME NEW v \in values
        PROVE  \E c : IsDue(s, after, v, c)
    <3>1. PICK c \in Items(s) : MakesWorth(s, less, v, c) /\ Returns(s, f, here, c)
      BY <1>5
    <3>2. Reaches(s, f.call, taken, c)
      BY <1>8, <3>1
    <3>3. taken = c
      <4> SUFFICES ASSUME taken # c PROVE FALSE
        OBVIOUS
      <4>1. PICK d \in Items(s) : Leads(s, f.call, taken, d)
        BY <3>2, ReachesFirst
      <4> QED
        BY <1>6, <1>10, <4>1 DEF Leads
    <3> QED
      BY <2>1, <3>1, <3>3 DEF IsDue
  <2> HIDE DEF values
  <2> QED
    BY <1>1, <1>2, <2>1, <2>3, <2>4, FitsAgain DEF after, values
<1>11. CASE ~Expr!ByZero(f.op, l.value) /\ sign \in Expr!Signs[f.call]
  <2> DEFINE one == Append(less, again)
             deeper == IF f.call = "sum" THEN <<deep>> ELSE <<>>
  <2>0. /\ DOMAIN after = DOMAIN l /\ after.ok = l.ok
        /\ after.reading = TRUE /\ after.pos = next /\ after.stack = one \o deeper
    BY <1>1, <1>11, NextOperandIs, Zenon
  <2>1. /\ DOMAIN after = DOMAIN l /\ after.ok = TRUE /\ after.reading = TRUE
        /\ after.pos = next /\ after.stack = one \o deeper
    BY <1>1, <2>0
  <2>2. IsWorth(s, f.call, f.at, l.pos, left)
    BY <1>2, <1>4, <1>7, <1>11, TakenIsWorth
  <2>3. left \in Amounts(s)
    BY <1>7, <2>2, WorthHasLength
  <2>4. sign \in {"+", "-", "*", "/"}
    BY <1>7, <1>11 DEF Expr!Signs
  <2>5. next \in Pos(s)
    BY <1>1, <1>3, <2>4, SignIsThere
  <2>6. /\ again \in Frames(s) /\ again.call = f.call /\ again.at = f.at
        /\ again.op = sign /\ again.left = left /\ again.from = next
    <3> HIDE DEF f, left, sign, next
    <3> QED
      BY <1>2, <2>3, <2>4, <2>5 DEF Frames
  <2>7. FrameFits(s, again)
    <3>1. sign # "first"
      BY <2>4
    <3> HIDE DEF again, f, left
    <3> QED
      BY <1>1, <1>7, <1>11, <2>2, <2>6, <3>1 DEF FrameFits
  <2> HIDE DEF after, here, f, less, left, again, next
  <2>8. IsStack(s, one) /\ PartAbove(one, Len(one)) = Awaited[f.call]
        /\ StartAbove(one, Len(one)) = next
    BY <1>2, <1>7, <2>6, <2>7, StackPush
  <2>9. ASSUME NEW v \in values
        PROVE  \E b \in Items(s) :
                 /\ MakesWorth(s, one, v, b) /\ IsWorth(s, Awaited[f.call], next, b[1], b[2])
                 /\ f.call = "sum" => Ends(s, "product", b)
    <3>1. PICK c \in Items(s) : MakesWorth(s, less, v, c) /\ Returns(s, f, here, c)
      BY <1>5
    <3>2. Reaches(s, f.call, taken, c) /\ Ends(s, f.call, c)
      BY <1>8, <3>1
    <3>3. taken # c
      <4>1. CASE f.call = "sum"
        BY <1>6, <1>11, <3>2, <4>1 DEF Ends, Expr!Signs
      <4>2. CASE f.call = "product"
        BY <1>6, <1>11, <3>2, <4>2 DEF Ends, Expr!Signs
      <4> QED
        BY <1>7, <4>1, <4>2
    <3>4. PICK d \in Items(s) : Leads(s, f.call, taken, d) /\ Reaches(s, f.call, d, c)
      BY <3>2, <3>3, ReachesFirst
    <3>5. PICK x \in Amounts(s) :
            /\ IsWorth(s, Awaited[f.call], next, d[1], x)
            /\ ~Expr!ByZero(sign, x) /\ d[2] = Expr!Combine(sign, left, x)
      BY <1>6, <3>4 DEF Leads, next
    <3> DEFINE b == <<d[1], x>>
    <3>6. b \in Items(s)
      <4>1. d[1] \in Pos(s)
        BY DEF Items
      <4> QED
        BY <4>1 DEF Items
    <3>7. b[1] = d[1] /\ b[2] = x /\ d = <<d[1], d[2]>>
      BY DEF Items
    <3> HIDE DEF b
    <3>8. Returns(s, again, b, c)
      <4>1. sign # "first"
        BY <2>4
      <4>2. d = <<b[1], IF again.op = "first" THEN b[2] ELSE Expr!Combine(again.op, again.left, b[2])>>
        BY <2>6, <3>5, <3>7, <4>1
      <4>3. ~Expr!ByZero(again.op, b[2])
        BY <2>6, <3>5, <3>7
      <4> QED
        BY <1>7, <2>6, <3>2, <3>4, <4>2, <4>3 DEF Returns
    <3>9. MakesWorth(s, one, v, b)
      BY <1>3, <2>6, <3>1, <3>6, <3>8, WorthPush
    <3>10. ASSUME f.call = "sum" PROVE Ends(s, "product", b)
      <4>1. Ends(s, "product", d)
        BY <3>2, <3>4, <3>10, OperandEnds
      <4> QED
        BY <3>7, <4>1 DEF Ends
    <3> QED
      BY <3>5, <3>6, <3>7, <3>9, <3>10
  <2>10. one \in Seq(Frames(s))
    BY <2>8 DEF IsStack
  <2> HIDE DEF one, values
  <2>11. /\ IsStack(s, after.stack)
         /\ PartAbove(after.stack, Len(after.stack)) = "factor"
         /\ StartAbove(after.stack, Len(after.stack)) = next
         /\ \A v \in values : \E b \in Items(s) :
              MakesWorth(s, after.stack, v, b) /\ IsWorth(s, "factor", next, b[1], b[2])
    <3>1. CASE f.call = "product"
      <4>1. after.stack = one
        BY <2>1, <2>10, <3>1, ConcatEmptySeq
      <4> QED
        BY <2>8, <2>9, <3>1, <4>1, CallsAre
    <3>2. CASE f.call = "sum"
      <4>1. deep \in Frames(s) /\ deep.call = "product" /\ deep.op = "first"
            /\ deep.at = next /\ deep.from = next
        BY <2>5, FrameIs
      <4> HIDE DEF deep
      <4>2. after.stack = Append(one, deep)
        BY <2>1, <2>10, <3>2, <4>1, AppendIsConcat
      <4>3. FrameFits(s, deep)
        BY <4>1 DEF FrameFits
      <4>4. IsStack(s, Append(one, deep))
            /\ PartAbove(Append(one, deep), Len(Append(one, deep))) = "factor"
            /\ StartAbove(Append(one, deep), Len(Append(one, deep))) = next
        BY <2>8, <3>2, <4>1, <4>3, StackPush, CallsAre
      <4>5. ASSUME NEW v \in values
            PROVE  \E b \in Items(s) :
                     /\ MakesWorth(s, Append(one, deep), v, b)
                     /\ IsWorth(s, "factor", next, b[1], b[2])
        <5>1. PICK c \in Items(s) :
                /\ MakesWorth(s, one, v, c) /\ IsWorth(s, "product", next, c[1], c[2])
                /\ Ends(s, "product", c)
          BY <2>9, <3>2, CallsAre
        <5> QED
          BY <2>5, <2>10, <5>1, ProductOpens DEF deep
      <4> QED
        BY <4>2, <4>4, <4>5
    <3> QED
      BY <1>7, <3>1, <3>2
  <2>12. ReadingFits(s, after)
    BY <2>1, <2>11 DEF ReadingFits
  <2>13. \A v \in values : \E b : IsDue(s, after, v, b)
    BY <2>1, <2>11 DEF IsDue
  <2> QED
    BY <1>1, <2>1, <2>5, <2>11, <2>12, <2>13, FitsAgain DEF after, values
<1> QED
  BY <1>9, <1>10, <1>11 DEF f

(* The parser begins with what the grammar says of the whole text.         *)
LEMMA ParserBegins ==
  ASSUME NEW s, IsText(s)
  PROVE  ParserFits(s, Expr!Begin)
<1> DEFINE l == Expr!Begin
           F == Expr!Frame("sum", 0, 0)
           G == Expr!Frame("product", 0, 0)
           stack == Append(Append(<<>>, F), G)
<1>1. s \in Seq(STRING) /\ Len(s) \in Nat /\ 0 \in Pos(s)
  BY LenProperties DEF IsText, Pos
<1>2. F \in Frames(s) /\ G \in Frames(s)
  BY <1>1, FrameIs
<1>3. <<F, G>> = stack
  OBVIOUS
<1>4. /\ DOMAIN l = {"ok", "reading", "pos", "value", "stack"}
      /\ l.ok = TRUE /\ l.reading = TRUE /\ l.pos = 0 /\ l.stack = <<F, G>>
  BY DEF Expr!Begin, Expr!Opened
<1>5. IsStack(s, <<>>) /\ <<>> \in Seq(Frames(s))
  BY DEF IsStack
<1>6. PartAbove(<<>>, Len(<<>>)) = "sum" /\ StartAbove(<<>>, Len(<<>>)) = 0
  BY DEF PartAbove, StartAbove
<1>7. /\ IsStack(s, stack)
      /\ PartAbove(stack, Len(stack)) = "factor" /\ StartAbove(stack, Len(stack)) = 0
  <2>1. PICK none : none = <<>>
    OBVIOUS
  <2>2. /\ IsStack(s, none) /\ PartAbove(none, Len(none)) = "sum"
        /\ StartAbove(none, Len(none)) = 0
    BY <1>5, <1>6, <2>1
  <2>3. LET more == Append(Append(none, Expr!Frame("sum", 0, 0)), Expr!Frame("product", 0, 0))
        IN /\ IsStack(s, more)
           /\ PartAbove(more, Len(more)) = "factor" /\ StartAbove(more, Len(more)) = 0
    BY <1>1, <2>2, StackOpens
  <2> QED
    BY <2>1, <2>3
<1>8. ASSUME NEW v \in Expr!ValuesOf(s, Meaning(s))
      PROVE  \E b \in Items(s) : MakesWorth(s, stack, v, b) /\ IsWorth(s, "factor", 0, b[1], b[2])
  <2>1. PICK q : IsWorth(s, "sum", 0, q, v) /\ Expr!SkipSpace(s, q) = Len(s)
    BY <1>8, ValueIsWorth
  <2>2. q \in Pos(s) /\ <<q, v>> \in Items(s)
    BY <2>1, WorthHasLength
  <2> DEFINE a == <<q, v>>
  <2>3. a[1] = q /\ a[2] = v
    OBVIOUS
  <2>4. a \in Items(s)
    BY <2>2
  <2> HIDE DEF a
  <2>5. MakesWorth(s, <<>>, v, a)
    BY <2>1, <2>3, <2>4, WorthOfNone
  <2>6. Ends(s, "sum", a)
    BY <1>1, <2>1, <2>2, <2>3, EndHasNoSign DEF Ends, Expr!Signs
  <2> QED
    BY <1>1, <1>5, <2>1, <2>3, <2>4, <2>5, <2>6, SumOpens
<1> HIDE DEF stack, l, F, G
<1>9. ReadingFits(s, l)
  BY <1>3, <1>4, <1>7 DEF ReadingFits
<1>10. \A v \in Expr!ValuesOf(s, Meaning(s)) : \E b : IsDue(s, l, v, b)
  BY <1>3, <1>4, <1>8 DEF IsDue
<1> QED
  BY <1>1, <1>3, <1>4, <1>7, <1>9, <1>10, FitsAgain DEF l

(* What the parser returns is what the grammar says of the whole text.     *)
LEMMA ParsedIsRight ==
  ASSUME NEW s, IsText(s), NEW l, ParserFits(s, l), l.ok => ~l.reading /\ l.stack = <<>>
  PROVE  LET result == Expr!Parsed(s, l)
         IN Expr!ValuesOf(s, Meaning(s)) = IF result.ok THEN {result.value} ELSE {}
<1> DEFINE values == Expr!ValuesOf(s, Meaning(s))
<1>1. /\ Expr!Parsed(s, l).ok <=> l.ok /\ Expr!SkipSpace(s, l.pos) = Len(s)
      /\ Expr!Parsed(s, l).value = l.value
  BY DEF Expr!Parsed
<1>2. ASSUME l.ok, Expr!SkipSpace(s, l.pos) = Len(s)
      PROVE  l.value \in values
  <2>1. IsWorth(s, "sum", 0, l.pos, l.value)
    BY <1>2 DEF ParserFits, ReadingFits, PartAbove, StartAbove
  <2> QED
    BY <1>2, <2>1, ValueIsWorth
<1>3. ASSUME NEW v \in values
      PROVE  l.ok /\ Expr!SkipSpace(s, l.pos) = Len(s) /\ v = l.value
  <2>1. PICK a : l.ok /\ IsDue(s, l, v, a)
    BY WhatIsDue
  <2>2. a = <<l.pos, l.value>> /\ MakesWorth(s, <<>>, v, a)
    BY <2>1 DEF IsDue
  <2>3. a[2] = v /\ Expr!SkipSpace(s, a[1]) = Len(s)
    BY <2>2, WorthOfNone
  <2> QED
    BY <2>1, <2>2, <2>3
<1> HIDE DEF values
<1> QED
  BY <1>1, <1>2, <1>3 DEF values
-----------------------------------------------------------------------------
(* Two numbers and a sign. *)

\* SignedNumber of any text.
Signed(s, p) ==
  LET b == Expr!SkipSpace(s, p)
      number == Expr!ParseNumber(s, b + 1)
  IN IF Expr!Peek(s, b) = "-"
     THEN [number EXCEPT !.value = Expr!Negated(@)] ELSE Expr!ParseNumber(s, b)

LEMMA NumberOnly ==
  ASSUME NEW s, IsText(s), NEW p \in Pos(s), NEW number, number = Expr!ParseNumber(s, p), number.ok
  PROVE  \A q, v : IsWorth(s, "factor", p, q, v) <=> q = number.pos /\ v = number.value
<1>1. s \in Seq(STRING)
  BY DEF IsText
<1>2. SignAt(s, p) \notin {"-", "("}
  BY <1>1, NumberIsThere
<1>3. Expr!SkipSpace(s, Expr!SkipSpace(s, p)) = Expr!SkipSpace(s, p)
  BY <1>1, SkipSpaceTwice
<1>4. Expr!ParseNumber(s, Expr!SkipSpace(s, p)) = Expr!ParseNumber(s, p)
  BY <1>3 DEF Expr!ParseNumber
<1> TAKE q, v
<1>5. LET found == Expr!ParseNumber(s, Expr!SkipSpace(s, p))
      IN IsWorth(s, "factor", p, q, v) <=> found.ok /\ q = found.pos /\ v = found.value
  BY <1>2, NumberIsWorth
<1> QED
  BY <1>4, <1>5

(* A number with at most one minus sign is one factor, and no other one    *)
(* begins where it does.                                                   *)
LEMMA SignedIsWorth ==
  ASSUME NEW s, IsText(s), NEW p \in Pos(s), Signed(s, p).ok
  PROVE  /\ IsWorth(s, "factor", p, Signed(s, p).pos, Signed(s, p).value)
         /\ \A q, v : IsWorth(s, "factor", p, q, v) =>
              q = Signed(s, p).pos /\ v = Signed(s, p).value
<1>1. s \in Seq(STRING)
  BY DEF IsText
<1>2. CASE SignAt(s, p) = "-"
  <2> DEFINE number == Expr!ParseNumber(s, Behind(s, p))
  <2>1. DOMAIN number = {"ok", "pos", "value"}
    BY DEF Expr!ParseNumber
  <2>2. Signed(s, p) = [number EXCEPT !.value = Expr!Negated(@)]
    BY <1>2 DEF Signed, SignAt, Behind
  <2>3. Behind(s, p) \in Pos(s)
    BY <1>1, <1>2, SignIsThere
  <2>4. PICK n : n = number
    OBVIOUS
  <2> HIDE DEF number
  <2>5. /\ n.ok /\ Signed(s, p).pos = n.pos
        /\ Signed(s, p).value = Expr!Negated(n.value)
    BY <2>1, <2>2, <2>4
  <2>6. \A q, u : IsWorth(s, "factor", Behind(s, p), q, u) <=> q = n.pos /\ u = n.value
    BY <2>3, <2>4, <2>5, NumberOnly DEF number
  <2>7. \A q, v : IsWorth(s, "factor", p, q, v) <=>
          \E u : IsWorth(s, "factor", Behind(s, p), q, u) /\ v = Expr!Negated(u)
    BY <1>2, MinusIsWorth
  <2> QED
    BY <2>5, <2>6, <2>7
<1>3. CASE SignAt(s, p) # "-"
  <2> DEFINE r == Expr!SkipSpace(s, p)
  <2>1. r \in Pos(s) /\ Expr!SkipSpace(s, r) = r
    BY <1>1, SkipSpaceTwice
  <2>2. Expr!ParseNumber(s, r) = Expr!ParseNumber(s, p)
    BY <2>1 DEF Expr!ParseNumber
  <2>3. Signed(s, p) = Expr!ParseNumber(s, p)
    BY <1>3, <2>2 DEF Signed, SignAt
  <2> HIDE DEF r
  <2> QED
    BY <2>3, NumberOnly
<1> QED
  BY <1>2, <1>3

LEMMA OperandIsWorth ==
  ASSUME NEW s, IsText(s), NEW p, NEW q, NEW v
  PROVE  /\ IsWorth(s, "factor", p, q, v) => IsWorth(s, "product", p, q, v)
         /\ IsWorth(s, "product", p, q, v) => IsWorth(s, "sum", p, q, v)
<1>1. ASSUME NEW call \in {"sum", "product"}, IsWorth(s, Awaited[call], p, q, v)
      PROVE  IsWorth(s, call, p, q, v)
  BY <1>1, ChainIsWorth
<1>2. IsWorth(s, Awaited["product"], p, q, v) => IsWorth(s, "product", p, q, v)
  BY <1>1
<1>3. IsWorth(s, Awaited["sum"], p, q, v) => IsWorth(s, "sum", p, q, v)
  BY <1>1
<1> QED
  BY <1>2, <1>3, CallsAre

(* Where a signed number, a sign and a signed number are the text, it is   *)
(* worth what the operation makes of them, and nothing if it divides by    *)
(* zero.                                                                   *)
LEMMA TwoNumbers ==
  ASSUME NEW s, IsText(s), NEW a, a = Signed(s, 0), a.ok,
         NEW op, op = SignAt(s, a.pos), op \in {"+", "-", "*", "/"},
         NEW b, b = Signed(s, Behind(s, a.pos)), b.ok, Expr!SkipSpace(s, b.pos) = Len(s)
  PROVE  /\ Expr!ByZero(op, b.value) => Expr!ValuesOf(s, Meaning(s)) = {}
         /\ ~Expr!ByZero(op, b.value) =>
              Expr!Combine(op, a.value, b.value) \in Expr!ValuesOf(s, Meaning(s))
<1> DEFINE next == Behind(s, a.pos)
           values == Expr!ValuesOf(s, Meaning(s))
           whole == Expr!Combine(op, a.value, b.value)
<1>1. s \in Seq(STRING) /\ Len(s) \in Nat /\ 0 \in Pos(s)
  BY LenProperties DEF IsText, Pos
<1>2. /\ IsWorth(s, "factor", 0, a.pos, a.value)
      /\ \A q, v : IsWorth(s, "factor", 0, q, v) => q = a.pos /\ v = a.value
  BY <1>1, SignedIsWorth
<1>3. a.pos \in Pos(s)
  BY <1>2, WorthHasLength
<1>4. next \in Pos(s)
  BY <1>1, <1>3, SignIsThere
<1>5. /\ IsWorth(s, "factor", next, b.pos, b.value)
      /\ \A q, v : IsWorth(s, "factor", next, q, v) => q = b.pos /\ v = b.value
  BY <1>4, SignedIsWorth
<1>6. b.pos \in Pos(s) /\ b.value \in Amounts(s)
  BY <1>5, WorthHasLength
<1>7. SignAt(s, b.pos) = "end"
  BY <1>1, <1>6, EndHasNoSign
<1> DEFINE x == <<a.pos, a.value>>
           y == <<b.pos, whole>>
<1>8. x[1] = a.pos /\ x[2] = a.value /\ y[1] = b.pos /\ y[2] = whole
  OBVIOUS
<1>9. ASSUME NEW w \in values
      PROVE  \E q, m, u : /\ Expr!SkipSpace(s, q) = Len(s) /\ q \in Pos(s)
                          /\ Reaches(s, "sum", <<m, u>>, <<q, w>>)
                          /\ Reaches(s, "product", x, <<m, u>>)
  <2>1. PICK q : IsWorth(s, "sum", 0, q, w) /\ Expr!SkipSpace(s, q) = Len(s)
    BY <1>9, ValueIsWorth
  <2>2. PICK m, u : IsWorth(s, "product", 0, m, u) /\ Reaches(s, "sum", <<m, u>>, <<q, w>>)
    BY <2>1, ChainBegins, CallsAre
  <2>3. PICK n, z : IsWorth(s, "factor", 0, n, z) /\ Reaches(s, "product", <<n, z>>, <<m, u>>)
    BY <2>2, ChainBegins, CallsAre
  <2>4. n = a.pos /\ z = a.value
    BY <1>2, <2>3
  <2>5. q \in Pos(s)
    BY <2>1 DEF IsWorth
  <2> QED
    BY <2>1, <2>2, <2>3, <2>4, <2>5
<1>10. CASE Expr!ByZero(op, b.value)
  <2>1. op = "/"
    BY <1>10 DEF Expr!ByZero
  <2> HIDE DEF next, values, whole, x, y
  <2>2. ASSUME NEW c, Leads(s, "sum", x, c) PROVE FALSE
    BY <1>8, <2>1, <2>2 DEF Leads, Expr!Signs
  <2>3. ASSUME NEW c, Leads(s, "product", x, c) PROVE FALSE
    <3>1. PICK v \in Amounts(s) :
            IsWorth(s, "factor", next, c[1], v) /\ ~Expr!ByZero(op, v)
      BY <1>8, <2>3, CallsAre DEF Leads, next
    <3> QED
      BY <1>5, <1>10, <3>1
  <2>4. ASSUME NEW w \in values PROVE FALSE
    <3>1. PICK q, m, u : /\ Expr!SkipSpace(s, q) = Len(s) /\ q \in Pos(s)
                         /\ Reaches(s, "sum", <<m, u>>, <<q, w>>)
                         /\ Reaches(s, "product", x, <<m, u>>)
      BY <1>9, <2>4
    <3>2. x = <<m, u>>
      BY <2>3, <3>1, ReachesFirst
    <3>3. x = <<q, w>>
      BY <2>2, <3>1, <3>2, ReachesFirst
    <3>4. SignAt(s, a.pos) = "end"
      BY <1>1, <1>8, <3>1, <3>3, EndHasNoSign
    <3> QED
      BY <2>1, <3>4
  <2> QED
    BY <1>10, <2>4 DEF values
<1>11. CASE ~Expr!ByZero(op, b.value)
  <2>1. PICK call \in {"sum", "product"} : op \in Expr!Signs[call]
    BY DEF Expr!Signs
  <2>2. /\ IsWorth(s, call, 0, a.pos, a.value)
        /\ IsWorth(s, Awaited[call], next, b.pos, b.value)
    <3>1. IsWorth(s, "product", 0, a.pos, a.value) /\ IsWorth(s, "product", next, b.pos, b.value)
      BY <1>2, <1>5, OperandIsWorth
    <3>2. IsWorth(s, "sum", 0, a.pos, a.value)
      BY <3>1, OperandIsWorth
    <3> QED
      BY <1>5, <3>1, <3>2, CallsAre
  <2> HIDE DEF values, whole, next, x, y
  <2>3. Leads(s, call, x, y)
    BY <1>6, <1>8, <1>11, <2>1, <2>2 DEF Leads, whole, next
  <2>4. IsWorth(s, call, 0, b.pos, whole)
    <3>1. Leads(s, call, <<a.pos, a.value>>, <<b.pos, whole>>)
      BY <2>3, Zenon DEF x, y
    <3>2. \E m, l : /\ IsWorth(s, call, 0, m, l) /\ b.pos \in Pos(s)
                    /\ Leads(s, call, <<m, l>>, <<b.pos, whole>>)
      BY <1>6, <2>2, <3>1
    <3> QED
      BY <3>2, ChainIsWorth
  <2>5. IsWorth(s, "sum", 0, b.pos, whole)
    BY <2>4, OperandIsWorth
  <2>6. whole \in values
    BY <2>5, ValueIsWorth DEF values
  <2> QED
    BY <1>11, <2>6 DEF values, whole
<1> QED
  BY <1>10, <1>11 DEF values, whole

(* The parser's result and the operation's are the same.                   *)
LEMMA FormsAgree ==
  ASSUME NEW s, IsText(s), NEW name \in DOMAIN Names, NEW a, a = Signed(s, 0), a.ok,
         NEW b, b = Signed(s, Behind(s, a.pos)), b.ok, Expr!SkipSpace(s, b.pos) = Len(s),
         SignAt(s, a.pos) = Names[name],
         NEW found, Expr!ValuesOf(s, Meaning(s)) = IF found.ok THEN {found.value} ELSE {}
  PROVE  LET result == Expr!Operation(name, a.value, b.value)
         IN (found.ok <=> result.ok) /\ (found.ok => found.value = result.value)
<1> DEFINE op == Names[name]
           x == a.value
           y == b.value
<1>1. op \in {"+", "-", "*", "/"}
  BY DEF Names
<1>2. PICK sign : sign = op
  OBVIOUS
<1>3. sign = SignAt(s, a.pos) /\ sign \in {"+", "-", "*", "/"}
  BY <1>1, <1>2
<1>4. /\ Expr!ByZero(sign, b.value) => Expr!ValuesOf(s, Meaning(s)) = {}
      /\ ~Expr!ByZero(sign, b.value) =>
           Expr!Combine(sign, a.value, b.value) \in Expr!ValuesOf(s, Meaning(s))
  BY <1>3, TwoNumbers
<1>5. /\ Expr!ByZero(op, y) => ~found.ok
      /\ ~Expr!ByZero(op, y) => found.ok /\ found.value = Expr!Combine(op, x, y)
  BY <1>2, <1>4
<1>6. /\ Expr!Operation(name, x, y).ok <=> ~Expr!ByZero(op, y)
      /\ ~Expr!ByZero(op, y) => Expr!Operation(name, x, y).value = Expr!Combine(op, x, y)
  <2> HIDE DEF x, y
  <2>1. CASE name = "add"
    BY <2>1 DEF Names, Expr!Operation, Expr!ByZero, Expr!Combine
  <2>2. CASE name = "subtract"
    BY <2>2 DEF Names, Expr!Operation, Expr!ByZero, Expr!Combine
  <2>3. CASE name = "multiply"
    BY <2>3 DEF Names, Expr!Operation, Expr!ByZero, Expr!Combine
  <2>4. CASE name = "divide"
    BY <2>4 DEF Names, Expr!Operation, Expr!ByZero, Expr!Combine
  <2> QED
    BY <2>1, <2>2, <2>3, <2>4 DEF Names
<1> QED
  BY <1>5, <1>6
-----------------------------------------------------------------------------
(* The steps of a call of the calculator. *)

LEMMA ExpressionInput == InputStays /\ kind = "expression" => IsText(input)
BY InputsAssumption DEF InputStays, IsText

LEMMA ParserInv == Spec => [](InputStays /\ ParserLoop)
<1>1. Init => ParserLoop
  <2> SUFFICES ASSUME Init, kind = "expression" PROVE ParserLoop
    BY DEF ParserLoop
  <2>1. InputStays /\ ~done /\ loop = Expr!Begin
    BY DEF Init, InputStays, BeforeLoop
  <2>2. ParserFits(input, loop)
    BY <2>1, ExpressionInput, ParserBegins
  <2> QED
    BY <2>1, <2>2 DEF ParserLoop
<1>2. InputStays /\ ParserLoop /\ [Next]_vars => ParserLoop'
  <2> SUFFICES ASSUME InputStays, ParserLoop, [Next]_vars, kind = "expression" PROVE ParserLoop'
    BY StepsOfKind DEF ParserLoop
  <2>1. IsText(input) /\ ParserFits(input, loop)
    BY ExpressionInput DEF ParserLoop
  <2>2. CASE ParseFactor
    <3>1. /\ loop.ok /\ loop.reading /\ ~done /\ done' = done /\ input' = input
          /\ loop' = Expr!ParseFactor(input, loop)
      BY <2>2 DEF ParseFactor, Running, Pass
    <3>2. ParserFits(input', loop')
      BY <2>1, <3>1, ParseFactorKeeps
    <3> QED
      BY <3>1, <3>2 DEF ParserLoop
  <2>3. CASE EndFactor
    <3>1. /\ loop.ok /\ ~loop.reading /\ loop.stack # <<>>
          /\ Expr!Last(loop.stack).call \in {"minus", "paren"}
          /\ ~done /\ done' = done /\ input' = input
          /\ loop' = Expr!EndFactor(input, loop)
      BY <2>3 DEF EndFactor, Returned, Running, Pass, Expr!Last
    <3>2. ParserFits(input', loop')
      BY <2>1, <3>1, EndFactorKeeps
    <3> QED
      BY <3>1, <3>2 DEF ParserLoop
  <2>4. CASE NextOperand
    <3>1. /\ loop.ok /\ ~loop.reading /\ loop.stack # <<>>
          /\ Expr!Last(loop.stack).call \in {"sum", "product"}
          /\ ~done /\ done' = done /\ input' = input
          /\ loop' = Expr!NextOperand(input, loop)
      BY <2>4 DEF NextOperand, Returned, Running, Pass, Expr!Last
    <3>2. ParserFits(input', loop')
      BY <2>1, <3>1, NextOperandKeeps
    <3> QED
      BY <3>1, <3>2 DEF ParserLoop
  <2>5. CASE Calculated
    <3>1. /\ loop.ok => ~loop.reading /\ loop.stack = <<>>
          /\ input' = input /\ loop' = loop /\ output' = Expr!Parsed(input, loop)
      BY <2>5 DEF Calculated, Return
    <3> QED
      BY <2>1, <3>1 DEF ParserLoop
  <2>6. CASE UNCHANGED vars
    BY <2>6 DEF vars, ParserLoop
  <2> QED
    BY <2>2, <2>3, <2>4, <2>5, <2>6, StepsOfKind
<1> QED
  BY <1>1, <1>2, ResultInv, PTL DEF Spec

(* Whatever the text, however long and deep: the parser accepts it if and  *)
(* only if the grammar gives it a value, it has one value then and the     *)
(* parser returns that, and of two numbers and a sign both forms of the    *)
(* calculator make the same.                                               *)
THEOREM CalculatorIsExact == Spec => []CalculatorIsRight
<1>1. InputStays /\ ParserLoop => CalculatorIsRight
  <2> SUFFICES ASSUME InputStays, ParserLoop, Done("expression") PROVE CalculatorIsRight
    BY DEF CalculatorIsRight, ParserIsRight, CalculatorAgrees
  <2>1. /\ IsText(input) /\ ParserFits(input, loop) /\ output = Expr!Parsed(input, loop)
        /\ loop.ok => ~loop.reading /\ loop.stack = <<>>
    BY ExpressionInput DEF Done, ParserLoop
  <2>2. Expr!ValuesOf(input, Meaning(input)) = IF output.ok THEN {output.value} ELSE {}
    BY <2>1, ParsedIsRight
  <2>3. ParserIsRight
    BY <2>2 DEF ParserIsRight
  <2>4. ASSUME NEW name \in DOMAIN Names, NEW a, a = SignedNumber(0), a.ok,
               NEW sign, sign = Expr!SkipSpace(input, a.pos),
               Expr!Peek(input, sign) = Names[name],
               NEW b, b = SignedNumber(sign + 1), b.ok,
               Expr!SkipSpace(input, b.pos) = Len(input)
        PROVE  LET result == Expr!Operation(name, a.value, b.value)
               IN output.ok = result.ok /\ (output.ok => output.value = result.value)
    <3>1. a = Signed(input, 0) /\ b = Signed(input, Behind(input, a.pos))
      BY <2>4 DEF SignedNumber, Signed, Behind
    <3>2. SignAt(input, a.pos) = Names[name]
      BY <2>4 DEF SignAt
    <3>3. LET result == Expr!Operation(name, a.value, b.value)
          IN (output.ok <=> result.ok) /\ (output.ok => output.value = result.value)
      BY <2>1, <2>2, <2>4, <3>1, <3>2, FormsAgree
    <3>4. output.ok \in BOOLEAN
      BY <2>1 DEF Expr!Parsed
    <3>5. Expr!Operation(name, a.value, b.value).ok \in BOOLEAN
      BY DEF Expr!Operation, Names
    <3> QED
      BY <3>3, <3>4, <3>5
  <2>5. CalculatorAgrees
    BY <2>4 DEF CalculatorAgrees
  <2> QED
    BY <2>3, <2>5 DEF CalculatorIsRight
<1> QED
  BY <1>1, ParserInv, PTL
-----------------------------------------------------------------------------
(* The loops and the recursions end. *)

\* A step leaves one less to do, at least, and never less than nothing.
LeavesLess == StepsLeft' \in 0 .. StepsLeft - 1

LEMMA ReturnLeavesNone ==
  ASSUME PassesLeft \in Nat, ~done, done'
  PROVE  LeavesLess
BY DEF LeavesLess, StepsLeft

LEMMA PassLeavesLess ==
  ASSUME NEW m \in Nat, NEW n \in Nat, n < m, PassesLeft = m, PassesLeft' = n, ~done, ~done'
  PROVE  LeavesLess
<1>1. StepsLeft = 1 + m /\ StepsLeft' = 1 + n
  BY DEF StepsLeft
<1>2. 1 + n \in 0 .. (1 + m) - 1
  BY ONLY m \in Nat, n \in Nat, n < m
<1> QED
  BY <1>1, <1>2 DEF LeavesLess

LEMMA EnvEnds ==
  ASSUME InputStays, EnvLoop, EnvLoop', kind = "env", LoadLine \/ Loaded
  PROVE  LeavesLess
<1>1. /\ PassesLeft = Len(input.lines) - loop.line
      /\ kind' = kind /\ input' = input /\ ~done
  BY DEF PassesLeft, LoadLine, Loaded, Running, Return, Pass
<1>2. Len(input.lines) \in Nat /\ loop.line \in 0 .. Len(input.lines)
  BY EnvInput DEF EnvLoop
<1>3. PassesLeft \in Nat
  BY <1>1, <1>2
<1>4. CASE LoadLine
  <2>1. loop'.line = loop.line + 1 /\ ~done'
    BY <1>1, <1>4 DEF LoadLine, Pass
  <2>2. PassesLeft' = Len(input.lines) - loop'.line /\ loop'.line \in 0 .. Len(input.lines)
    BY <1>1 DEF PassesLeft, EnvLoop
  <2> DEFINE m == Len(input.lines) - loop.line
             n == Len(input.lines) - loop'.line
  <2>3. m \in Nat /\ n \in Nat /\ n < m /\ PassesLeft = m /\ PassesLeft' = n
    BY <1>1, <1>2, <2>1, <2>2
  <2> HIDE DEF m, n
  <2> QED
    BY <1>1, <2>1, <2>3, PassLeavesLess
<1>5. CASE Loaded
  BY <1>1, <1>3, <1>5, ReturnLeavesNone DEF Loaded, Return
<1> QED
  BY <1>4, <1>5

LEMMA WindowsEnd ==
  ASSUME InputStays, WindowLoop, WindowLoop', kind = "paragraph", TakeWhole \/ CutWindow \/ CutUp
  PROVE  LeavesLess
<1>1. PassesLeft = RunesLeft /\ kind' = kind /\ input' = input /\ ~done
  BY DEF PassesLeft, TakeWhole, CutWindow, CutUp, Running, Return, Pass
<1>2. /\ input.size \in Nat \ {0} /\ input.overlap \in Nat /\ Len(Paragraph) \in Nat
      /\ Paragraph' = Paragraph
  BY <1>1, ParagraphInput DEF Paragraph
<1>3. Len(Paragraph) > input.size => loop.start \in Nat
  BY <1>1, <1>2 DEF WindowLoop
<1>4. PassesLeft \in Nat
  BY <1>1, <1>2, <1>3 DEF RunesLeft
<1>5. CASE CutWindow
  <2> DEFINE end == IF loop.start + input.size > Len(Paragraph) THEN Len(Paragraph)
                    ELSE loop.start + input.size
             next == IF end = Len(Paragraph) THEN Len(Paragraph)
                     ELSE loop.start + Cut!Step(input.size, input.overlap)
  <2>1. /\ Len(Paragraph) > input.size /\ loop.start < Len(Paragraph)
        /\ loop' = Cut!CutWindow(Paragraph, loop, input.size, input.overlap) /\ ~done'
    BY <1>1, <1>5 DEF CutWindow, Pass
  <2>2. loop'.start = next
    BY <2>1 DEF Cut!CutWindow
  <2>3. Cut!Step(input.size, input.overlap) \in 1 .. input.size
    BY <1>2 DEF Cut!Step
  <2>4. next \in loop.start + 1 .. Len(Paragraph)
    BY <1>2, <1>3, <2>1, <2>3
  <2> HIDE DEF next
  <2>5. RunesLeft = Len(Paragraph) - loop.start
    BY <2>1 DEF RunesLeft
  <2>6. PassesLeft' = IF loop'.start < Len(Paragraph) THEN Len(Paragraph) - loop'.start ELSE 0
    BY <1>1, <1>2, <2>1 DEF PassesLeft, RunesLeft
  <2> DEFINE m == Len(Paragraph) - loop.start
             n == IF loop'.start < Len(Paragraph) THEN Len(Paragraph) - loop'.start ELSE 0
  <2>7. m \in Nat /\ n \in Nat /\ n < m
    BY <1>2, <1>3, <2>1, <2>2, <2>4
  <2>8. PassesLeft = m /\ PassesLeft' = n
    BY <1>1, <2>5, <2>6
  <2> HIDE DEF m, n
  <2> QED
    BY <1>1, <2>1, <2>7, <2>8, PassLeavesLess
<1>6. CASE TakeWhole \/ CutUp
  BY <1>1, <1>4, <1>6, ReturnLeavesNone DEF TakeWhole, CutUp, Return
<1> QED
  BY <1>5, <1>6

LEMMA LinesAreCounted ==
  ASSUME InputStays, LineLoop, kind = "document"
  PROVE  /\ PassesLeft = LinesLeft /\ LinesLeft \in Nat /\ Len(input) \in Nat
         /\ loop.line \in 0 .. Len(input) /\ loop.first \in 1 .. Len(input) + 1
         /\ loop.sections # <<>> => Head(loop.sections)[1] \in 1 .. Len(input)
<1>1. PassesLeft = LinesLeft /\ Len(input) \in Nat
  BY DocumentInput DEF PassesLeft
<1>2. loop.line \in 0 .. Len(input) /\ loop.first \in 1 .. Len(input) + 1
  BY DEF LineLoop, LinesAreRead
<1>3. loop.sections # <<>> => Head(loop.sections)[1] \in 1 .. Len(input)
  <2>1. loop.sections \in Seq((1 .. Len(input)) \X (1 .. Len(input)))
    BY DEF LineLoop, SectionsAreInOrder, Stretches
  <2> QED
    BY <2>1, HeadTailProperties
<1>4. LinesLeft \in Nat
  BY <1>1, <1>2, <1>3 DEF LinesLeft
<1> QED
  BY <1>1, <1>2, <1>3, <1>4

LEMMA LinesEnd ==
  ASSUME InputStays, LineLoop, LineLoop', kind = "document",
         ReadLine \/ CloseLast \/ SplitPart \/ SplitUp
  PROVE  LeavesLess
<1> DEFINE N == Len(input)
           head == Head(loop.sections)
<1>1. /\ kind' = kind /\ input' = input /\ ~done
      /\ DOMAIN loop = {"line", "first", "sections", "out"}
  BY DEF ReadLine, CloseLast, SplitPart, SplitUp, Running, Return, Pass, LineLoop
<1>2. /\ PassesLeft = LinesLeft /\ LinesLeft \in Nat /\ N \in Nat
      /\ loop.line \in 0 .. N /\ loop.first \in 1 .. N + 1
      /\ loop.sections # <<>> => head[1] \in 1 .. N
  BY LinesAreCounted
<1>3. /\ PassesLeft' = LinesLeft' /\ LinesLeft' \in Nat
      /\ loop'.line \in 0 .. N /\ loop'.first \in 1 .. N + 1
      /\ loop'.sections # <<>> => Head(loop'.sections)[1] \in 1 .. N
  <2>1. PassesLeft' = LinesLeft'
    BY <1>1 DEF PassesLeft
  <2>2. loop'.line \in 0 .. N /\ loop'.first \in 1 .. N + 1
    BY <1>1 DEF LineLoop, LinesAreRead
  <2>3. loop'.sections \in Seq((1 .. N) \X (1 .. N))
    BY <1>1 DEF LineLoop, SectionsAreInOrder, Stretches
  <2>4. loop'.sections # <<>> => Head(loop'.sections)[1] \in 1 .. N
    BY <2>3, HeadTailProperties
  <2>5. LinesLeft' = IF loop'.first <= N THEN 2 * N + 3 - loop'.line
                     ELSE IF loop'.sections # <<>> THEN N + 2 - Head(loop'.sections)[1] ELSE 0
    BY <1>1 DEF LinesLeft
  <2>6. N \in Nat /\ 2 * N + 3 - loop'.line \in Nat
    BY <1>2, <2>2
  <2>7. loop'.sections # <<>> => N + 2 - Head(loop'.sections)[1] \in Nat
    BY <1>2, <2>4
  <2>8. LinesLeft' \in Nat
    BY <2>5, <2>6, <2>7
  <2> QED
    BY <2>1, <2>2, <2>4, <2>8
<1>4. LinesLeft' = IF loop'.first <= N THEN 2 * N + 3 - loop'.line
                   ELSE IF loop'.sections # <<>> THEN N + 2 - Head(loop'.sections)[1] ELSE 0
  BY <1>1 DEF LinesLeft
<1> SUFFICES ASSUME NEW m, NEW n, m = LinesLeft, n = LinesLeft' PROVE LeavesLess
  OBVIOUS
<1>41. m \in Nat /\ n \in Nat /\ PassesLeft = m /\ PassesLeft' = n
  BY <1>2, <1>3
<1>5. CASE ReadLine
  <2>1. /\ loop.line < N /\ loop' = Mark!ReadLine(input, loop) /\ ~done'
    BY <1>1, <1>5 DEF ReadLine, Pass
  <2>2. loop'.line = loop.line + 1
    BY <2>1 DEF Mark!ReadLine
  <2>3. loop'.first = loop.first \/ loop'.first = loop.line + 1
    BY <2>1 DEF Mark!ReadLine
  <2>4. loop.first <= N
    <3>1. loop.first > N => loop.line = N
      BY DEF LineLoop, LinesAreRead
    <3> QED
      BY <1>2, <2>1, <3>1
  <2>5. m = 2 * N + 3 - loop.line
    BY <2>4 DEF LinesLeft
  <2>6. n = 2 * N + 3 - (loop.line + 1)
    BY <1>2, <1>4, <2>1, <2>2, <2>3, <2>4
  <2>7. n < m
    BY <1>2, <2>5, <2>6
  <2> QED
    BY <1>1, <1>41, <2>1, <2>7, PassLeavesLess
<1>6. CASE CloseLast
  <2>1. /\ loop.line = N /\ loop.first <= N /\ loop' = Mark!CloseLast(input, loop) /\ ~done'
    BY <1>1, <1>6 DEF CloseLast, Pass
  <2>2. loop'.first = N + 1
    BY <1>1, <2>1 DEF Mark!CloseLast
  <2>3. m = N + 3
    BY <1>2, <2>1 DEF LinesLeft
  <2>4. n <= N + 1
    BY <1>2, <1>3, <1>4, <2>2
  <2>5. n < m
    BY <1>2, <1>41, <2>3, <2>4
  <2> QED
    BY <1>1, <1>41, <2>1, <2>5, PassLeavesLess
<1>7. CASE SplitPart
  <2> DEFINE cuts == Mark!EmptyLines(input, head)
             rest == <<Mark!Min(cuts) + 1, head[2]>>
             sections == IF cuts = {} THEN Tail(loop.sections) ELSE <<rest>> \o Tail(loop.sections)
  <2>1. /\ loop.first > N /\ loop.sections # <<>> /\ ~done'
        /\ loop'.first = loop.first /\ loop'.sections = sections
    BY <1>1, <1>7 DEF SplitPart, Pass, Mark!SplitPart
  <2>2. m = N + 2 - head[1]
    BY <1>2, <2>1 DEF LinesLeft
  <2>3. /\ loop.sections \in Seq((1 .. N) \X (1 .. N)) /\ InOrder(loop.sections)
        /\ head \in (1 .. N) \X (1 .. N) /\ head = loop.sections[1]
        /\ Len(loop.sections) \in Nat \ {0} /\ DOMAIN loop.sections = 1 .. Len(loop.sections)
    <3>1. loop.sections \in Seq((1 .. N) \X (1 .. N)) /\ InOrder(loop.sections)
      BY DEF LineLoop, SectionsAreInOrder, Stretches
    <3> QED
      BY <2>1, <3>1, HeadTailProperties, EmptySeq, LenProperties
  <2>4. loop'.sections # <<>> => head[1] < Head(loop'.sections)[1]
    <3>1. CASE cuts = {}
      <4> SUFFICES ASSUME Tail(loop.sections) # <<>>
                   PROVE  head[1] < Head(Tail(loop.sections))[1]
        BY <2>1, <3>1
      <4>1. /\ Tail(loop.sections) \in Seq((1 .. N) \X (1 .. N))
            /\ Len(Tail(loop.sections)) = Len(loop.sections) - 1
            /\ \A i \in 1 .. Len(loop.sections) - 1 : Tail(loop.sections)[i] = loop.sections[i + 1]
        BY <2>1, <2>3, HeadTailProperties
      <4>2. Len(Tail(loop.sections)) \in Nat \ {0}
        BY <4>1, EmptySeq
      <4>3. Head(Tail(loop.sections)) = loop.sections[2] /\ Len(loop.sections) >= 2
        <5>1. Head(Tail(loop.sections)) = Tail(loop.sections)[1]
          BY <4>1, <4>2, HeadTailProperties
        <5>2. Len(loop.sections) >= 2 /\ 1 \in 1 .. Len(loop.sections) - 1
          BY <2>3, <4>1, <4>2
        <5>3. Tail(loop.sections)[1] = loop.sections[1 + 1]
          BY <4>1, <5>2
        <5> QED
          BY <5>1, <5>2, <5>3
      <4>4. loop.sections[1][1] <= loop.sections[1][2] /\ loop.sections[1][2] < loop.sections[2][1]
        <5>1. 1 \in DOMAIN loop.sections /\ 2 \in DOMAIN loop.sections /\ 1 < 2
          BY <2>3, <4>3
        <5>2. \A i, j \in DOMAIN loop.sections :
                /\ loop.sections[i][1] <= loop.sections[i][2]
                /\ i < j => loop.sections[i][2] < loop.sections[j][1]
          BY <2>3 DEF InOrder
        <5> QED
          BY ONLY <5>1, <5>2
      <4>5. /\ loop.sections[1] \in (1 .. N) \X (1 .. N) /\ loop.sections[2] \in (1 .. N) \X (1 .. N)
        BY <2>3, <4>3, ElementOfSeq
      <4> QED
        BY <1>2, <2>3, <4>3, <4>4, <4>5
    <3>2. CASE cuts # {}
      <4>1. \A l : l \in cuts <=> l \in head[1] .. head[2] /\ input[l] = "empty"
        BY DEF Mark!EmptyLines
      <4>2. cuts \in SUBSET (1 .. Len(input))
        BY <1>2, <2>3, <4>1
      <4> HIDE DEF cuts
      <4>3. Cut!Min(cuts) \in cuts /\ Mark!Min(cuts) = Cut!Min(cuts)
        <5>1. Len(input) \in Nat /\ cuts \in SUBSET (1 .. Len(input)) /\ cuts # {}
          BY <1>2, <3>2, <4>2
        <5> QED
          BY ONLY <5>1, MinMax, Zenon
      <4>4. Mark!Min(cuts) \in head[1] .. head[2]
        BY <4>1, <4>3
      <4> HIDE DEF rest
      <4>5. Head(<<rest>> \o Tail(loop.sections)) = rest
        BY <2>1, <2>3, HeadTailProperties
      <4>6. Head(loop'.sections) = rest
        BY <2>1, <3>2, <4>5
      <4> QED
        BY <2>3, <4>4, <4>6 DEF rest
    <3> QED
      BY <3>1, <3>2
  <2>5. ~(loop'.first <= N)
    BY <1>2, <2>1
  <2>6. n < m
    <3>1. CASE loop'.sections # <<>>
      <4>1. PICK ahead : ahead = Head(loop'.sections)[1]
        OBVIOUS
      <4>2. n = N + 2 - ahead
        BY <1>4, <2>5, <3>1, <4>1
      <4>3. ahead \in 1 .. N /\ head[1] < ahead /\ head[1] \in 1 .. N
        BY <1>2, <1>3, <2>1, <2>4, <3>1, <4>1
      <4> QED
        BY <1>2, <2>2, <4>2, <4>3
    <3>2. CASE loop'.sections = <<>>
      <4>1. n = 0
        BY <1>4, <2>5, <3>2
      <4> QED
        BY <1>2, <2>1, <2>2, <4>1
    <3> QED
      BY <3>1, <3>2
  <2> QED
    BY <1>1, <1>41, <2>1, <2>6, PassLeavesLess
<1>8. CASE SplitUp
  BY <1>1, <1>2, <1>8, ReturnLeavesNone DEF SplitUp, Return
<1> QED
  BY <1>5, <1>6, <1>7, <1>8

\* Each call of a mask has come to a node, and comes to no node twice.
LEMMA WalkShrinks ==
  ASSUME NEW value, Hide!IsValue(value), IsFiniteSet(DOMAIN value.kind),
         NEW kinds, "leaf" \notin kinds,
         NEW walk, WalkFits(value, walk), WalkIsCopy(value, walk, kinds), NEW n \in walk.open
  PROVE  /\ NodesLeft(value, WalkedOn(value, walk, n, kinds)) \in Nat
         /\ NodesLeft(value, WalkedOn(value, walk, n, kinds)) < NodesLeft(value, walk)
<1> DEFINE after == WalkedOn(value, walk, n, kinds)
           below == Hide!Below(value, n)
           shown == below \ SensitiveOf(value, n)
           opened == {c \in shown : value.kind[c] \in kinds}
           before == DOMAIN value.kind \ (walk.kept \ walk.open)
           rest == DOMAIN value.kind \ (after.kept \ after.open)
<1>1. after.open = (walk.open \ {n}) \cup opened /\ after.kept = walk.kept \cup shown
  BY DEF WalkedOn, Hide!Walked
<1>2. opened \subseteq shown /\ shown \subseteq below
  OBVIOUS
<1>3. \A c \in below : c \notin walk.kept
  BY DEF Hide!Below, WalkIsCopy, WentThrough
<1>4. n \in walk.open /\ n \in walk.kept /\ n \in DOMAIN value.kind
  BY DEF WalkFits
<1> HIDE DEF after, shown, below, opened
<1>5. rest \subseteq before /\ n \in before /\ n \notin rest
  BY <1>1, <1>2, <1>3, <1>4
<1>6. before \in SUBSET (DOMAIN value.kind)
  OBVIOUS
<1>7. NodesLeft(value, walk) = Cardinality(before) /\ NodesLeft(value, after) = Cardinality(rest)
  BY DEF NodesLeft
<1> HIDE DEF before, rest
<1>8. IsFiniteSet(before)
  BY <1>6, FS_Subset
<1>9. /\ IsFiniteSet(rest) /\ Cardinality(rest) <= Cardinality(before)
      /\ Cardinality(rest) # Cardinality(before)
  BY <1>5, <1>8, FS_Subset
<1>10. Cardinality(rest) \in Nat /\ Cardinality(before) \in Nat
  BY <1>8, <1>9, FS_CardinalityType
<1> QED
  BY <1>7, <1>9, <1>10 DEF after

LEMMA NodesAreCounted ==
  ASSUME NEW value, IsFiniteSet(DOMAIN value.kind), NEW walk
  PROVE  NodesLeft(value, walk) \in Nat
<1>1. DOMAIN value.kind \ (walk.kept \ walk.open) \in SUBSET (DOMAIN value.kind)
  OBVIOUS
<1> QED
  BY <1>1, FS_Subset, FS_CardinalityType DEF NodesLeft

LEMMA MasksEnd ==
  ASSUME InputStays, MaskLoop, kind = "map", MaskAudit \/ Sanitize \/ MaskAnswer \/ Masked
  PROVE  LeavesLess
<1> DEFINE given == input.given
           data == input.data
           both == {"map", "list"}
           x == NodesLeft(given, loop.audit)
           y == NodesLeft(given, loop.sane)
           z == NodesLeft(data, loop.answer)
<1>1. kind' = kind /\ input' = input /\ ~done
  BY DEF MaskAudit, Sanitize, MaskAnswer, Masked, Running, Return, Pass
<1>2. /\ Hide!IsValue(given) /\ Hide!IsValue(data)
      /\ IsFiniteSet(DOMAIN given.kind) /\ IsFiniteSet(DOMAIN data.kind)
  BY InputsAssumption DEF InputStays
<1>3. /\ loop = [audit |-> loop.audit, sane |-> loop.sane, answer |-> loop.answer]
      /\ WalkFits(given, loop.audit) /\ WalkIsCopy(given, loop.audit, both)
      /\ WalkFits(given, loop.sane) /\ WalkIsCopy(given, loop.sane, {"map"})
      /\ WalkFits(data, loop.answer) /\ WalkIsCopy(data, loop.answer, both)
  BY DEF MaskLoop
<1>4. x \in Nat /\ y \in Nat /\ z \in Nat
  BY <1>2, NodesAreCounted
<1>5. /\ PassesLeft = x + y + z
      /\ PassesLeft' = NodesLeft(given, loop'.audit) + NodesLeft(given, loop'.sane)
                         + NodesLeft(data, loop'.answer)
  BY <1>1 DEF PassesLeft
<1>6. "leaf" \notin both /\ "leaf" \notin {"map"}
  OBVIOUS
<1> HIDE DEF both, x, y, z
<1>7. CASE MaskAudit
  <2>1. PICK n \in loop.audit.open :
          loop' = [loop EXCEPT !.audit = Hide!MaskSensitive(given, loop.audit, n, {})] /\ ~done'
    BY <1>1, <1>7 DEF MaskAudit, Pass
  <2> DEFINE after == WalkedOn(given, loop.audit, n, both)
  <2>2. Hide!MaskSensitive(given, loop.audit, n, {}) = after
    BY <1>2, MaskWalks DEF both
  <2>3. NodesLeft(given, after) \in Nat /\ NodesLeft(given, after) < x
    BY <1>2, <1>3, <1>6, WalkShrinks DEF x
  <2> HIDE DEF after
  <2>4. loop'.audit = after /\ loop'.sane = loop.sane /\ loop'.answer = loop.answer
    BY <1>3, <2>1, <2>2
  <2>5. PassesLeft' = NodesLeft(given, after) + y + z
    BY <1>5, <2>4 DEF y, z
  <2>6. PassesLeft' \in Nat /\ PassesLeft \in Nat /\ PassesLeft' < PassesLeft
    BY <1>4, <1>5, <2>3, <2>5
  <2> QED
    BY <1>1, <2>1, <2>6, PassLeavesLess
<1>8. CASE Sanitize
  <2>1. PICK n \in loop.sane.open :
          loop' = [loop EXCEPT !.sane = Hide!SanitizeInput(given, loop.sane, n)] /\ ~done'
    BY <1>1, <1>8 DEF Sanitize, Pass
  <2> DEFINE after == WalkedOn(given, loop.sane, n, {"map"})
  <2>2. Hide!SanitizeInput(given, loop.sane, n) = after
    <3>1. given.kind[n] = "map"
      BY <1>3 DEF WalkIsCopy
    <3> QED
      BY <3>1, SanitizeWalks
  <2>3. NodesLeft(given, after) \in Nat /\ NodesLeft(given, after) < y
    BY <1>2, <1>3, <1>6, WalkShrinks DEF y
  <2> HIDE DEF after
  <2>4. loop'.audit = loop.audit /\ loop'.sane = after /\ loop'.answer = loop.answer
    BY <1>3, <2>1, <2>2
  <2>5. PassesLeft' = x + NodesLeft(given, after) + z
    BY <1>5, <2>4 DEF x, z
  <2>6. PassesLeft' \in Nat /\ PassesLeft \in Nat /\ PassesLeft' < PassesLeft
    BY <1>4, <1>5, <2>3, <2>5
  <2> QED
    BY <1>1, <2>1, <2>6, PassLeavesLess
<1>9. CASE MaskAnswer
  <2>1. PICK n \in loop.answer.open :
          /\ loop' = [loop EXCEPT !.answer =
                        Hide!MaskSensitive(data, loop.answer, n, loop.sane.names)]
          /\ ~done'
    BY <1>1, <1>9 DEF MaskAnswer, Pass
  <2> DEFINE after == WalkedOn(data, loop.answer, n, both)
  <2>2. \A name \in loop.sane.names : Hide!IsSensitiveField(name)
    BY <1>3, NamesAreSensitive
  <2>3. Hide!MaskSensitive(data, loop.answer, n, loop.sane.names) = after
    BY <1>2, <2>2, MaskWalks DEF both
  <2>4. NodesLeft(data, after) \in Nat /\ NodesLeft(data, after) < z
    BY <1>2, <1>3, <1>6, WalkShrinks DEF z
  <2> HIDE DEF after
  <2>5. loop'.audit = loop.audit /\ loop'.sane = loop.sane /\ loop'.answer = after
    BY <1>3, <2>1, <2>3
  <2>6. PassesLeft' = x + y + NodesLeft(data, after)
    BY <1>5, <2>5 DEF x, y
  <2>7. PassesLeft' \in Nat /\ PassesLeft \in Nat /\ PassesLeft' < PassesLeft
    BY <1>4, <1>5, <2>4, <2>6
  <2> QED
    BY <1>1, <2>1, <2>7, PassLeavesLess
<1>10. CASE Masked
  <2>1. PassesLeft \in Nat
    BY <1>4, <1>5
  <2> QED
    BY <1>1, <1>10, <2>1, ReturnLeavesNone DEF Masked, Return
<1> QED
  BY <1>7, <1>8, <1>9, <1>10

LEMMA SeqWidens ==
  ASSUME NEW S, NEW T, S \subseteq T, NEW s \in Seq(S)
  PROVE  s \in Seq(T)
<1>1. Len(s) \in Nat /\ s \in [1 .. Len(s) -> S]
  BY LenProperties
<1>2. s \in [1 .. Len(s) -> T]
  BY <1>1
<1> QED
  BY <1>1, <1>2, SeqDef

\* How many calls wait when others begin.
LEMMA MoreCalls ==
  ASSUME NEW S, NEW stack \in Seq(S), NEW f, NEW g, NEW h
  PROVE  /\ Len(Append(stack, f)) = Len(stack) + 1
         /\ Len(Append(stack, f) \o <<>>) = Len(stack) + 1
         /\ Len(Append(stack, f) \o <<g>>) = Len(stack) + 2
         /\ Len(Append(stack, f) \o <<g, h>>) = Len(stack) + 3
<1> DEFINE T == S \cup {f, g, h}
           more == Append(stack, f)
<1>1. stack \in Seq(T)
  BY SeqWidens
<1>2. f \in T /\ g \in T /\ h \in T
  OBVIOUS
<1> HIDE DEF T
<1>3. more \in Seq(T) /\ Len(more) = Len(stack) + 1 /\ Len(stack) \in Nat
  BY <1>1, <1>2, AppendProperties
<1> HIDE DEF more
<1>4. <<g>> \in Seq(T) /\ Len(<<g>>) = 1
  BY <1>2
<1>5. <<g, h>> \in Seq(T) /\ Len(<<g, h>>) = 2
  BY <1>2
<1>6. <<>> \in Seq(T) /\ Len(<<>>) = 0
  OBVIOUS
<1>7. \A t \in Seq(T) : Len(more \o t) = Len(more) + Len(t)
  BY <1>3, ConcatProperties
<1>8. Len(more \o <<>>) = Len(more) + 0
  BY <1>6, <1>7
<1>9. Len(more \o <<g>>) = Len(more) + 1
  BY <1>4, <1>7
<1>10. Len(more \o <<g, h>>) = Len(more) + 2
  BY <1>5, <1>7
<1> QED
  BY <1>3, <1>8, <1>9, <1>10 DEF more

(* A call of the parser refuses the text, reads on and opens three calls   *)
(* at most, or returns.                                                    *)
GoesOn(l, after) ==
  \/ after.ok = FALSE
  \/ l.pos < after.pos /\ Len(after.stack) <= Len(l.stack) + 3
  \/ l.pos = after.pos /\ Len(after.stack) = Len(l.stack) - 1

LEMMA RefusedGoesOn ==
  ASSUME NEW s, NEW l, IsParser(s, l)
  PROVE  GoesOn(l, Expr!Refused(l))
BY DEF IsParser, Expr!Refused, GoesOn

LEMMA ParseFactorGoesOn ==
  ASSUME NEW s \in Seq(STRING), NEW l, IsParser(s, l), IsStack(s, l.stack)
  PROVE  GoesOn(l, Expr!ParseFactor(s, l))
<1> DEFINE p == l.pos
           b == Expr!SkipSpace(s, p)
           number == Expr!ParseNumber(s, b)
           after == Expr!ParseFactor(s, l)
           sign == SignAt(s, p)
           next == Behind(s, p)
<1>1. /\ DOMAIN l = {"ok", "reading", "pos", "value", "stack"}
      /\ p \in Pos(s) /\ l.stack \in Seq(Frames(s)) /\ Len(l.stack) \in Nat
  BY LenProperties DEF IsParser, IsStack
<1>2. sign = Expr!Peek(s, b) /\ next = b + 1
  BY DEF SignAt, Behind
<1>3. CASE sign = "-"
  <2> DEFINE f == Expr!Frame("minus", p, next)
  <2>1. after = [l EXCEPT !.pos = next, !.stack = Append(@, f)]
    BY <1>2, <1>3 DEF Expr!ParseFactor
  <2>2. p < next
    BY <1>1, <1>3, SignIsThere
  <2> HIDE DEF after, f, next
  <2>3. after.pos = next /\ after.stack = Append(l.stack, f)
    BY <1>1, <2>1
  <2>4. Len(after.stack) = Len(l.stack) + 1
    BY <1>1, <2>3, MoreCalls
  <2> QED
    BY <1>1, <2>2, <2>3, <2>4 DEF GoesOn, after
<1>4. CASE sign = "("
  <2> DEFINE f == Expr!Frame("paren", p, next)
             g == Expr!Frame("sum", next, next)
             h == Expr!Frame("product", next, next)
  <2>1. after = [l EXCEPT !.pos = next, !.stack = Append(@, f) \o <<g, h>>]
    BY <1>2, <1>4 DEF Expr!ParseFactor, Expr!Opened
  <2>2. p < next
    BY <1>1, <1>4, SignIsThere
  <2> HIDE DEF after, f, g, h, next
  <2>3. after.pos = next /\ after.stack = Append(l.stack, f) \o <<g, h>>
    BY <1>1, <2>1
  <2>4. Len(after.stack) = Len(l.stack) + 3
    BY <1>1, <2>3, MoreCalls
  <2> QED
    BY <1>1, <2>2, <2>3, <2>4 DEF GoesOn, after
<1>5. CASE sign \notin {"-", "("} /\ number.ok
  <2>1. after = [l EXCEPT !.reading = FALSE, !.pos = number.pos, !.value = number.value]
    BY <1>2, <1>5 DEF Expr!ParseFactor
  <2>2. b \in Pos(s) /\ p <= b
    BY <1>1, SkipSpaceStays, LenProperties DEF Pos
  <2>3. number.pos \in Pos(s) /\ b < number.pos
    BY <1>5, <2>2, NumberIsThere
  <2>4. p < number.pos
    BY <1>1, <2>2, <2>3 DEF Pos
  <2> HIDE DEF after, number
  <2>5. after.pos = number.pos /\ after.stack = l.stack
    BY <1>1, <2>1
  <2> QED
    BY <1>1, <2>4, <2>5 DEF GoesOn, after
<1>6. CASE sign \notin {"-", "("} /\ ~number.ok
  <2>1. after = Expr!Refused(l)
    BY <1>2, <1>6 DEF Expr!ParseFactor
  <2> QED
    BY <2>1, RefusedGoesOn
<1> QED
  BY <1>3, <1>4, <1>5, <1>6

LEMMA EndFactorGoesOn ==
  ASSUME NEW s \in Seq(STRING), NEW l, IsParser(s, l), IsStack(s, l.stack), l.stack # <<>>,
         Expr!Last(l.stack).call \in {"minus", "paren"}
  PROVE  GoesOn(l, Expr!EndFactor(s, l))
<1> DEFINE f == Expr!Last(l.stack)
           less == Expr!Front(l.stack)
           after == Expr!EndFactor(s, l)
           next == Behind(s, l.pos)
<1>1. /\ DOMAIN l = {"ok", "reading", "pos", "value", "stack"}
      /\ l.pos \in Pos(s) /\ l.stack \in Seq(Frames(s))
  BY DEF IsParser, IsStack
<1>2. Len(l.stack) \in Nat \ {0} /\ Len(less) = Len(l.stack) - 1
  BY <1>1, FrontAndLast
<1>3. CASE f.call = "minus"
  <2>1. after = [l EXCEPT !.value = Expr!Negated(@), !.stack = less]
    BY <1>3 DEF Expr!EndFactor
  <2> HIDE DEF after, less
  <2>2. after.pos = l.pos /\ after.stack = less
    BY <1>1, <2>1
  <2> QED
    BY <1>2, <2>2 DEF GoesOn, after
<1>4. CASE f.call = "paren" /\ SignAt(s, l.pos) = ")"
  <2>1. after = [l EXCEPT !.pos = next, !.stack = less]
    BY <1>4 DEF Expr!EndFactor, SignAt, Behind
  <2>2. l.pos < next
    BY <1>1, <1>4, SignIsThere
  <2> HIDE DEF after, less, next
  <2>3. after.pos = next /\ after.stack = less
    BY <1>1, <2>1
  <2> QED
    BY <1>2, <2>2, <2>3 DEF GoesOn, after
<1>5. CASE f.call = "paren" /\ SignAt(s, l.pos) # ")"
  <2>1. after = Expr!Refused(l)
    BY <1>5 DEF Expr!EndFactor, SignAt
  <2> QED
    BY <2>1, RefusedGoesOn
<1> QED
  BY <1>3, <1>4, <1>5

LEMMA NextOperandGoesOn ==
  ASSUME NEW s \in Seq(STRING), NEW l, IsParser(s, l), IsStack(s, l.stack), l.stack # <<>>,
         Expr!Last(l.stack).call \in {"sum", "product"}
  PROVE  GoesOn(l, Expr!NextOperand(s, l))
<1> DEFINE f == Expr!Last(l.stack)
           less == Expr!Front(l.stack)
           after == Expr!NextOperand(s, l)
           sign == SignAt(s, l.pos)
           next == Behind(s, l.pos)
           again == [f EXCEPT !.op = sign, !.left = Taken(f, l.value), !.from = next]
           deep == Expr!Frame("product", next, next)
           zero == Expr!ByZero(f.op, l.value)
           goes == sign \in Expr!Signs[f.call]
<1>1. /\ DOMAIN l = {"ok", "reading", "pos", "value", "stack"}
      /\ l.pos \in Pos(s) /\ l.stack \in Seq(Frames(s))
  BY DEF IsParser, IsStack
<1>2. less \in Seq(Frames(s)) /\ Len(l.stack) \in Nat \ {0} /\ Len(less) = Len(l.stack) - 1
  BY <1>1, FrontAndLast
<1>3. /\ zero => after = Expr!Refused(l)
      /\ ~zero /\ goes =>
           /\ after.pos = next
           /\ after.stack = Append(less, again) \o (IF f.call = "sum" THEN <<deep>> ELSE <<>>)
      /\ ~zero /\ ~goes => after.pos = l.pos /\ after.stack = less
  BY <1>1, NextOperandIs
<1>4. goes => l.pos < next
  <2>1. goes => sign \in {"-", "(", ")", "+", "*", "/"}
    BY DEF Expr!Signs
  <2> QED
    BY <1>1, <2>1, SignIsThere
<1> HIDE DEF after, less, again, deep, zero, goes, next
<1>5. CASE zero
  BY <1>3, <1>5, RefusedGoesOn DEF after
<1>6. CASE ~zero /\ goes
  <2>1. /\ Len(Append(less, again) \o <<deep>>) = Len(less) + 2
        /\ Len(Append(less, again) \o <<>>) = Len(less) + 1
    BY <1>2, MoreCalls
  <2>2. after.stack = Append(less, again) \o <<deep>> \/ after.stack = Append(less, again) \o <<>>
    BY <1>3, <1>6
  <2>3. Len(after.stack) <= Len(l.stack) + 3
    BY <1>2, <2>1, <2>2
  <2> QED
    BY <1>3, <1>4, <1>6, <2>3 DEF GoesOn, after
<1>7. CASE ~zero /\ ~goes
  BY <1>2, <1>3, <1>7 DEF GoesOn, after
<1> QED
  BY <1>5, <1>6, <1>7

LEMMA FewerCalls ==
  ASSUME NEW size \in Nat, NEW p \in 0 .. size, NEW q \in 0 .. size, NEW j \in Nat, NEW k \in Nat,
         (p < q /\ k <= j + 3) \/ (p = q /\ k = j - 1)
  PROVE  /\ 1 + 4 * (size - p) + j \in Nat /\ 1 + 4 * (size - q) + k \in Nat
         /\ 1 + 4 * (size - q) + k < 1 + 4 * (size - p) + j
OBVIOUS

LEMMA CallsEnd ==
  ASSUME InputStays, ParserLoop, ParserLoop', kind = "expression",
         ParseFactor \/ EndFactor \/ NextOperand \/ Calculated
  PROVE  LeavesLess
<1>1. /\ PassesLeft = CallsLeft
      /\ kind' = kind /\ input' = input /\ ~done /\ PassesLeft' = CallsLeft'
  BY DEF PassesLeft, ParseFactor, EndFactor, NextOperand, Calculated, Returned, Running, Return, Pass
<1>2. /\ input \in Seq(STRING) /\ Len(input) \in Nat
      /\ IsParser(input, loop) /\ IsStack(input, loop.stack)
      /\ loop.pos \in 0 .. Len(input) /\ Len(loop.stack) \in Nat /\ loop.ok \in BOOLEAN
  <2>1. IsText(input) /\ IsParser(input, loop) /\ IsStack(input, loop.stack)
    BY ExpressionInput DEF ParserLoop, ParserFits
  <2> QED
    BY <2>1, LenProperties DEF IsText, IsParser, IsStack, Pos
<1>3. loop'.pos \in 0 .. Len(input) /\ Len(loop'.stack) \in Nat /\ loop'.ok \in BOOLEAN
  <2>1. IsParser(input, loop') /\ loop'.stack \in Seq(Frames(input))
    BY <1>1 DEF ParserLoop, ParserFits, IsStack
  <2> QED
    BY <2>1, LenProperties DEF IsParser, Pos
<1>4. CallsLeft = IF loop.ok THEN 1 + 4 * (Len(input) - loop.pos) + Len(loop.stack) ELSE 0
  BY DEF CallsLeft
<1>5. CallsLeft' = IF loop'.ok THEN 1 + 4 * (Len(input) - loop'.pos) + Len(loop'.stack) ELSE 0
  BY <1>1 DEF CallsLeft
<1>6. PassesLeft \in Nat
  BY <1>1, <1>2, <1>4
<1>7. CASE ParseFactor \/ EndFactor \/ NextOperand
  <2>1. /\ ~done' /\ loop.ok
        /\ \/ loop' = Expr!ParseFactor(input, loop)
           \/ /\ loop.stack # <<>> /\ loop' = Expr!EndFactor(input, loop)
              /\ loop.stack[Len(loop.stack)].call \in {"minus", "paren"}
           \/ /\ loop.stack # <<>> /\ loop' = Expr!NextOperand(input, loop)
              /\ loop.stack[Len(loop.stack)].call \in {"sum", "product"}
    BY <1>1, <1>7 DEF ParseFactor, EndFactor, NextOperand, Returned, Pass
  <2>2. Expr!Last(loop.stack) = loop.stack[Len(loop.stack)]
    BY DEF Expr!Last
  <2>3. GoesOn(loop, loop')
    BY <1>2, <2>1, <2>2, ParseFactorGoesOn, EndFactorGoesOn, NextOperandGoesOn
  <2> DEFINE m == 1 + 4 * (Len(input) - loop.pos) + Len(loop.stack)
             n == IF loop'.ok THEN 1 + 4 * (Len(input) - loop'.pos) + Len(loop'.stack) ELSE 0
  <2>4. m \in Nat /\ n \in Nat /\ n < m
    <3>1. loop'.ok = TRUE \/ loop'.ok = FALSE
      BY <1>3
    <3>2. CASE loop'.ok = FALSE
      BY <1>2, <3>2
    <3>3. CASE loop'.ok = TRUE
      <4>1. n = 1 + 4 * (Len(input) - loop'.pos) + Len(loop'.stack)
        BY <3>3
      <4>2. \/ loop.pos < loop'.pos /\ Len(loop'.stack) <= Len(loop.stack) + 3
            \/ loop.pos = loop'.pos /\ Len(loop'.stack) = Len(loop.stack) - 1
        BY <2>3, <3>3 DEF GoesOn
      <4> HIDE DEF m, n
      <4>3. m = 1 + 4 * (Len(input) - loop.pos) + Len(loop.stack)
        BY DEF m
      <4> QED
        BY ONLY <1>2, <1>3, <4>1, <4>2, <4>3, FewerCalls
    <3> QED
      BY <3>1, <3>2, <3>3
  <2>5. PassesLeft = m /\ PassesLeft' = n
    BY <1>1, <1>4, <1>5, <2>1
  <2> HIDE DEF m, n
  <2> QED
    BY <1>1, <2>1, <2>4, <2>5, PassLeavesLess
<1>8. CASE Calculated
  BY <1>1, <1>6, <1>8, ReturnLeavesNone DEF Calculated, Return
<1> QED
  BY <1>7, <1>8

LEMMA StepsWithoutLoop ==
  ASSUME Next, kind \notin {"env", "paragraph", "document", "map", "expression"}
  PROVE  ~done /\ done'
<1> USE DEF Running, Return
<1>1. kind \in {"sql", "url", "call", "message", "boot", "operation", "request"}
  BY DEF Next, JudgeSQL, JudgeURL, Validate, Plan, BootUp, Respond, Operate, LoadLine, Loaded,
         TakeWhole, CutWindow, CutUp, ReadLine, CloseLast, SplitPart, SplitUp, MaskAudit,
         Sanitize, MaskAnswer, Masked, ParseFactor, EndFactor, NextOperand, Calculated, Returned
<1>2. JudgeSQL \/ JudgeURL \/ Validate \/ Plan \/ BootUp \/ Respond \/ Operate
  BY <1>1 DEF Next, LoadLine, Loaded, TakeWhole, CutWindow, CutUp, ReadLine, CloseLast, SplitPart,
         SplitUp, MaskAudit, Sanitize, MaskAnswer, Masked, ParseFactor, EndFactor, NextOperand,
         Calculated, Returned
<1> QED
  BY <1>2 DEF JudgeSQL, JudgeURL, Validate, Plan, BootUp, Respond, Operate

(* Whatever the input, the loops and the recursions come to their end:     *)
(* every pass and every call leaves less to do.                            *)
THEOREM CallsAreFinite == Spec => EveryCallEnds
<1>1. InputStays /\ RoutinesInv /\ RoutinesInv' /\ [Next]_vars
        => [StepsLeft' \in 0 .. StepsLeft - 1]_vars
  <2> SUFFICES ASSUME InputStays, RoutinesInv, RoutinesInv', Next
               PROVE  LeavesLess \/ UNCHANGED vars
    BY DEF LeavesLess
  <2> USE DEF RoutinesInv
  <2>1. CASE kind \in {"env", "paragraph", "document", "map", "expression"}
    BY <2>1, StepsOfKind, EnvEnds, WindowsEnd, LinesEnd, MasksEnd, CallsEnd
  <2>2. CASE kind \notin {"env", "paragraph", "document", "map", "expression"}
    <3>1. PassesLeft = 0
      BY <2>2 DEF PassesLeft
    <3>2. ~done /\ done'
      BY <2>2, StepsWithoutLoop
    <3> QED
      BY <3>1, <3>2, ReturnLeavesNone
  <2> QED
    BY <2>1, <2>2
<1>2. Spec => [](InputStays /\ RoutinesInv)
  BY ResultInv, EnvInv, WindowInv, LineInv, MaskInv, ParserInv, PTL DEF RoutinesInv
<1> QED
  BY <1>1, <1>2, PTL DEF Spec, EveryCallEnds
=============================================================================
