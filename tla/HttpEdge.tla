------------------------------ MODULE HttpEdge ------------------------------
(***************************************************************************)
(* What becomes of one HTTP request: the middleware of internal/middleware *)
(* in the order of internal/router/router.go (BodyLimit, CORS, Metrics,    *)
(* and APIKey for /v1), and a handler of internal/handler/handler.go that  *)
(* asks AgentService.                                                      *)
(*                                                                         *)
(* A request is [method, route, origin, key, body, outcome]: key is how its*)
(* Authorization compares with the API key, outcome how the service would  *)
(* answer.  The body is known by whether its first JSON value decodes and  *)
(* by the length up to the end of that value, where the decoder stops.     *)
(***************************************************************************)
EXTENDS Naturals

Chat == "/v1/agent/chat"

(* The routes; those of two more lists are like the last one.  The handlers *)
(* of POST bind a body.                                                    *)
Routes ==
  {<<"GET", "/health">>, <<"GET", "/v1/tools">>, <<"GET", "/v1/async-tasks/:id">>,
   <<"POST", "/v1/tools/execute">>, <<"POST", Chat>>, <<"POST", "/v1/documents">>,
   <<"POST", "/v1/sessions">>, <<"GET", "/v1/audit/tool-calls">>}

Protected(route) == route # "/health"

(* The status of an error of the service, handler by handler.              *)
ErrorStatus(route) ==
  CASE route = "/health" -> 503
    [] route = "/v1/async-tasks/:id" -> 404
    [] route \in {"/v1/sessions", "/v1/audit/tool-calls"} -> 500
    [] OTHER -> 400

Answer(status, asked) == [status |-> status, asked |-> asked]
-----------------------------------------------------------------------------
(* The handlers.  ListTools has no error to answer.                        *)

Binds(request, limit) ==
  request.body.decodes /\ (limit = 0 \/ request.body.length <= limit)

(* gin.Recovery answers a panic with 500.                                  *)
Handle(request, limit) ==
  IF request.method = "POST" /\ ~Binds(request, limit) THEN Answer(400, FALSE)
  ELSE IF request.outcome = "panic" THEN Answer(500, TRUE)
  ELSE IF request.outcome = "error" /\ request.route # "/v1/tools"
  THEN Answer(ErrorStatus(request.route), TRUE)
  ELSE Answer(200, TRUE)

(* APIKey: without one in the configuration every request passes.          *)
HasKey(options, request) == options.key => request.key = "right"

Route(options, request) ==
  IF <<request.method, request.route>> \notin Routes THEN Answer(404, FALSE)
  ELSE IF Protected(request.route) /\ ~HasKey(options, request) THEN Answer(401, FALSE)
  ELSE Handle(request, options.limit)
-----------------------------------------------------------------------------
(* The middleware. *)

(* Metrics counts a chat behind c.Next(): a panic goes by it, and gin      *)
(* leaves FullPath empty for a method that the route does not have.        *)
Counted(request, answer) ==
  IF <<request.method, request.route>> = <<"POST", Chat>>
     /\ ~(answer.asked /\ request.outcome = "panic")
  THEN IF answer.status >= 400 THEN {"failed"} ELSE {"success"}
  ELSE {}

(* CORS: the Access-Control-Allow-Origin it sets, if any.                  *)
AllowOrigin(options, request) ==
  request.origin # "none" /\ ("*" \in options.origins \/ request.origin \in options.origins)

(* Mutant: the headers are set when the request is through.                *)
ServeCORSLast(options, request) ==
  LET answer == Route(options, request)
  IN [status |-> answer.status, asked |-> answer.asked, counted |-> Counted(request, answer),
      allowed |-> AllowOrigin(options, request) /\ answer.status < 400]

(* Any OPTIONS request ends in CORS.                                       *)
Serve(options, request) ==
  LET allowed == AllowOrigin(options, request)
      answer == Route(options, request)
  IN IF request.method = "OPTIONS"
     THEN [status |-> IF allowed THEN 204 ELSE 403, asked |-> FALSE,
           counted |-> {}, allowed |-> allowed]
     ELSE [status |-> answer.status, asked |-> answer.asked,
           counted |-> Counted(request, answer), allowed |-> allowed]
=============================================================================
