----------------------------- MODULE OllamaProvider -----------------------------
(***************************************************************************)
(* The language model provider: what its two HTTP exchanges (is the model  *)
(* there, and the generation itself) come to.                              *)
(*   lib/ai/ollama-provider.ts, lib/ai/idempotency-service.ts              *)
(*                                                                         *)
(* An exchange is [net, status, body]: net is "ok", "abort" (a signal or   *)
(* the timeout) or "lost"; body is what can be made of the payload.        *)
(***************************************************************************)
EXTENDS Integers, Sequences

Request(exchange) ==
  CASE exchange.net = "ok" -> "ok"
    [] exchange.net = "abort" -> "REQUEST_TIMEOUT"
    [] exchange.net = "lost" -> "PROVIDER_UNAVAILABLE"

(* GET /api/tags lists the models.                                           *)
AssertModelAvailable(tags) ==
  CASE Request(tags) # "ok" -> Request(tags)
    [] Request(tags) = "ok" /\ (tags.status # 200 \/ tags.body = "garbled") ->
         "PROVIDER_UNAVAILABLE"
    [] Request(tags) = "ok" /\ tags.status = 200 /\ tags.body = "missing" ->
         "MODEL_UNAVAILABLE"
    [] OTHER -> "ok"

Health(tags) ==
  CASE AssertModelAvailable(tags) = "ok" -> "ready"
    [] AssertModelAvailable(tags) = "MODEL_UNAVAILABLE" -> "MODEL_MISSING"
    [] AssertModelAvailable(tags) = "REQUEST_TIMEOUT" -> "TIMEOUT"
    [] AssertModelAvailable(tags) = "PROVIDER_UNAVAILABLE" -> "UNAVAILABLE"

Refusal(answer) ==
  IF answer.status = 404 THEN "MODEL_UNAVAILABLE" ELSE "GENERATION_FAILED"

(* "ok", with a text that is not blank, or the code of an AIError.           *)
GenerateOutcome(tags, answer) ==
  CASE AssertModelAvailable(tags) # "ok" -> AssertModelAvailable(tags)
    [] AssertModelAvailable(tags) = "ok" /\ Request(answer) # "ok" -> Request(answer)
    [] AssertModelAvailable(tags) = "ok" /\ Request(answer) = "ok" /\ answer.status # 200 ->
         Refusal(answer)
    [] OTHER -> IF answer.body \in {"text", "json"} THEN "ok" ELSE "GENERATION_FAILED"

(* The text has to parse, and to fit the schema.                             *)
StructuredOutcome(tags, answer) ==
  IF GenerateOutcome(tags, answer) = "ok" /\ answer.body # "json"
  THEN "INVALID_STRUCTURED_OUTPUT" ELSE GenerateOutcome(tags, answer)

(* A line of a stream: a "chunk", the "last" chunk (done), or what it fails  *)
(* on.                                                                       *)
LineOutcome(line) ==
  CASE line \in {"chunk", "last"} -> "ok"
    [] line = "garbled" -> "GENERATION_FAILED"
    [] line = "abort" -> "REQUEST_TIMEOUT"
    [] line = "lost" -> "PROVIDER_UNAVAILABLE"

(* [sent |-> chunks handed on, end |-> "ok" or a code].  A body that ends     *)
(* without a last chunk counts as complete; what follows one is left out.    *)
StreamOutcome(tags, answer, lines) ==
  LET head == CASE AssertModelAvailable(tags) # "ok" -> AssertModelAvailable(tags)
                [] AssertModelAvailable(tags) = "ok" /\ Request(answer) # "ok" -> Request(answer)
                [] OTHER -> IF answer.status # 200 THEN Refusal(answer) ELSE "ok"
      ends == {i \in DOMAIN lines : lines[i] # "chunk"}
      end == CHOOSE i \in ends : \A j \in ends : i <= j
  IN IF head # "ok" THEN [sent |-> 0, end |-> head]
     ELSE IF ends = {}
     THEN [sent |-> Len(lines), end |-> IF lines = <<>> THEN "GENERATION_FAILED" ELSE "ok"]
     ELSE [sent |-> IF lines[end] = "last" THEN end ELSE end - 1,
           end |-> LineOutcome(lines[end])]

(* The error a duplicate of a failed operation gets, from the recorded code. *)
ReplayFailure(code) ==
  IF code \in {"PROVIDER_UNAVAILABLE", "MODEL_UNAVAILABLE", "REQUEST_TIMEOUT", "INVALID_REQUEST"}
  THEN code ELSE "GENERATION_FAILED"
===============================================================================
