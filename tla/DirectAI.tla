-------------------------------- MODULE DirectAI --------------------------------
(***************************************************************************)
(* Direct AI generation: POST /api/ai/generate with and without an         *)
(* Idempotency-Key, the rows ai_generation_idempotency, their stale        *)
(* recovery and their deletion.                                            *)
(*   app/api/ai/generate/route.ts, lib/ai/idempotency-service.ts           *)
(*   lib/ai/service.ts, lib/ai/ollama-provider.ts, lib/usage/retention.ts  *)
(*                                                                         *)
(* A body stands for the request with the prompt assembled from it (the    *)
(* fingerprint covers both); a generated text is named by the request that *)
(* had it generated.                                                       *)
(***************************************************************************)
EXTENDS UsageAdmission, OllamaProvider, SecretEnvelope

CONSTANTS
  Requests,     \* the POSTs
  Keys,         \* Idempotency-Key headers
  NoKey,        \* a request without the header
  Bodies,
  Streams,      \* the bodies with stream = true
  StaleAfter,   \* AI_IDEMPOTENCY_STALE_AFTER_SECONDS in ticks
  ResponseKeyring, \* AI_IDEMPOTENCY_RESPONSE_KEYRING_JSON, with the versions it once had
  ResponseKey,     \* the current version of it
  AiRetention   \* the 7 days after which a settled row is deleted, in ticks

ASSUME DirectAIAssumption ==
  /\ NoKey \notin Keys /\ Keys \cap Requests = {} /\ Streams \subseteq Bodies
  /\ StaleAfter \in Nat /\ AiRetention \in Nat
  /\ AiRetention <= Retention
  /\ "AI_GENERATION_DAY" \in Metrics
  /\ HasKey(ResponseKeyring, ResponseKey)

VARIABLES
  operation,  \* operation[k]: the row of key k, or NoRow
  request     \* request[r]: where request r is

directVars == <<operation, request>>

AiMetric == "AI_GENERATION_DAY"

NoRow == [status |-> "none"]
Settled == {"SUCCEEDED", "FAILED", "UNKNOWN", "STREAM_COMPLETED"}

(* [pc |-> where, key, body |-> of the request, began |-> when its row was    *)
(* inserted, or -1, told |-> the kind of answer, text |-> the text in it].    *)
Unsent == [pc |-> "idle", key |-> NoKey, body |-> CHOOSE b \in Bodies : TRUE,
           began |-> -1, told |-> "nothing", text |-> "none"]

DirectInit ==
  /\ operation = [k \in Keys |-> NoRow]
  /\ request = [r \in Requests |-> Unsent]

Move(r, pc) == request' = [request EXCEPT ![r].pc = pc]
Tell(r, answer, text) ==
  request' = [request EXCEPT ![r].pc = "done", ![r].told = answer, ![r].text = text]

IsStream(r) == request[r].body \in Streams

-------------------------------------------------------------------------------
(* requireUser, prepareGeneration: membership, brand and prompt are read.    *)
Prepare(r) ==
  /\ request[r] = Unsent
  /\ \E k \in Keys \cup {NoKey}, b \in Bodies :
       request' = [request EXCEPT ![r].pc = "prepared", ![r].key = k, ![r].body = b]
  /\ UNCHANGED <<clock, ledger, operation>>

NewRow(r) ==
  [status |-> "IN_PROGRESS", by |-> r, body |-> request[r].body, text |-> Invalid,
   created |-> clock, updated |-> clock]

(* encryptAiIdempotencyResponse, bound to the workspace and the row.  A text *)
(* it refuses for its length is a failure of Complete.                       *)
SealedAnswer(r) == Seal("ai_response", r, <<r>>, ResponseKeyring, ResponseKey)

(* decryptAiIdempotencyResponse, and decryptReplay with the versions still   *)
(* in the keyring.                                                           *)
OpenAnswer(envelope, by, keyring) == Open(envelope, "ai_response", <<by>>, keyring)

Replay(row, versions) ==
  OpenAnswer(row.text, row.by, [v \in versions |-> ResponseKeyring[v]])

(* beginAiIdempotency: row and admission are one transaction.                *)
Begin(r) ==
  /\ request[r].pc = "prepared" /\ request[r].key # NoKey
  /\ operation[request[r].key] = NoRow
  /\ CanAdmit(ledger, AiMetric, request[r].key, clock)
  /\ ledger' = Admit(ledger, AiMetric, request[r].key, clock)
  /\ operation' = [operation EXCEPT ![request[r].key] = NewRow(r)]
  /\ request' = [request EXCEPT ![r].pc = "calling", ![r].began = clock]
  /\ UNCHANGED clock

(* The rate limit or the quota refuses, and the row is rolled back.          *)
BeginRefused(r) ==
  /\ request[r].pc = "prepared" /\ request[r].key # NoKey
  /\ operation[request[r].key] = NoRow
  /\ Tell(r, "limited", "none")
  /\ UNCHANGED <<clock, ledger, operation>>

BeginTaken(r) ==
  /\ request[r].pc = "prepared" /\ request[r].key # NoKey
  /\ operation[request[r].key] # NoRow
  /\ Move(r, "taken")
  /\ UNCHANGED <<clock, ledger, operation>>

(* Mutated form of SameRequest: the fingerprint is not compared.             *)
AnyRequest(r, row) == TRUE

SameRequest(r, row) == row.body = request[r].body

(* The row that was in the way is read by a statement of its own; by then it *)
(* may be settled, or deleted.  An envelope whose key version has left the   *)
(* keyring does not open.                                                    *)
ReadExisting(r) ==
  /\ request[r].pc = "taken"
  /\ LET row == operation[request[r].key]
     IN CASE row = NoRow -> Tell(r, "unavailable", "none")
          [] row # NoRow /\ ~SameRequest(r, row) -> Tell(r, "conflict", "none")
          [] row # NoRow /\ SameRequest(r, row) /\ row.status # "SUCCEEDED" ->
               Tell(r, row.status, "none")
          [] OTHER -> \E versions \in SUBSET DOMAIN ResponseKeyring :
               LET text == Replay(row, versions)
               IN IF text = Invalid THEN Tell(r, "unavailable", "none") ELSE Tell(r, "answer", text)
  /\ UNCHANGED <<clock, ledger, operation>>

(* generateText, streamText without a key: admission is the first thing in  *)
(* the try block, so a refusal is reported as a failed generation.           *)
AdmitUnkeyed(r) ==
  /\ request[r].pc = "prepared" /\ request[r].key = NoKey
  /\ \/ /\ CanAdmit(ledger, AiMetric, r, clock)
        /\ ledger' = Admit(ledger, AiMetric, r, clock)
        /\ Move(r, "calling")
     \/ /\ Tell(r, "FAILED", "none") /\ UNCHANGED ledger
  /\ UNCHANGED <<clock, operation>>

(* The provider answers, or refuses, times out, returns nothing usable, or   *)
(* breaks off a stream.                                                      *)
Generate(r) ==
  /\ request[r].pc = "calling"
  /\ \/ Move(r, IF request[r].key = NoKey THEN "delivering" ELSE "answered")
     \/ Move(r, "failed")
  /\ UNCHANGED <<clock, ledger, operation>>

Deliver(r) ==
  /\ request[r].pc = "delivering"
  /\ Tell(r, "answer", r)
  /\ UNCHANGED <<clock, ledger, operation>>

(* Mutated form of IsOpen: the update asks for the id alone.                 *)
IsRowOf(r) ==
  LET row == operation[request[r].key]
  IN row # NoRow /\ row.by = r

(* The row a request inserted, by its id, and still unsettled.               *)
IsOpen(r) ==
  LET row == operation[request[r].key]
  IN row # NoRow /\ row.by = r /\ row.status = "IN_PROGRESS"

Settle(r, status, text) ==
  IF IsOpen(r)
  THEN operation' = [operation EXCEPT ![request[r].key].status = status,
                                      ![request[r].key].text = text,
                                      ![request[r].key].updated = clock]
  ELSE UNCHANGED operation

(* completeAiIdempotency, completeAiStreamIdempotency; whether a row was     *)
(* updated is not looked at, and the answer goes out.                        *)
Complete(r) ==
  /\ request[r].pc = "answered"
  /\ IF IsStream(r) THEN Settle(r, "STREAM_COMPLETED", Invalid) ELSE Settle(r, "SUCCEEDED", SealedAnswer(r))
  /\ Tell(r, "answer", r)
  /\ UNCHANGED <<clock, ledger>>

(* The update throws, with or without effect.  A stream then takes the way   *)
(* of a failed one, though every chunk has been sent.                        *)
CompleteFails(r) ==
  /\ request[r].pc = "answered"
  /\ \/ UNCHANGED operation
     \/ IF IsStream(r) THEN Settle(r, "STREAM_COMPLETED", Invalid) ELSE Settle(r, "SUCCEEDED", SealedAnswer(r))
  /\ IF IsStream(r) THEN Move(r, "failed") ELSE Tell(r, "unavailable", "none")
  /\ UNCHANGED <<clock, ledger>>

(* failAiIdempotency; what it throws is dropped.                             *)
Fail(r) ==
  /\ request[r].pc = "failed"
  /\ request[r].key # NoKey => Settle(r, "FAILED", Invalid) \/ UNCHANGED operation
  /\ request[r].key = NoKey => UNCHANGED operation
  /\ Tell(r, "FAILED", "none")
  /\ UNCHANGED <<clock, ledger>>

(* The process is killed, or its connection to the client is gone before a   *)
(* row says what came of the call.                                           *)
Crash(r) ==
  /\ request[r].pc \in {"calling", "answered", "delivering", "failed"}
  /\ Tell(r, "nothing", "none")
  /\ UNCHANGED <<clock, ledger, operation>>

-------------------------------------------------------------------------------
(* Mutated form of IsStale: streams are left to those who sent them.         *)
IsStaleAnswer(k) ==
  /\ operation[k].status = "IN_PROGRESS" /\ operation[k].body \notin Streams
  /\ operation[k].updated < clock - StaleAfter

IsStale(k) ==
  /\ operation[k].status = "IN_PROGRESS"
  /\ operation[k].updated < clock - StaleAfter

(* recoverStaleAiIdempotency                                                 *)
RecoverStale ==
  /\ \E k \in Keys : IsStale(k)
  /\ operation' = [k \in Keys |->
       IF IsStale(k) THEN [operation[k] EXCEPT !.status = "UNKNOWN", !.updated = clock]
       ELSE operation[k]]
  /\ UNCHANGED <<clock, ledger, request>>

(* Mutated form of Purgeable: what is settled goes, whatever its age.        *)
SettledRow(k) == operation[k].status \in Settled

Purgeable(k) ==
  /\ operation[k].status \in Settled
  /\ operation[k].created < clock - AiRetention

(* purgeAiIdempotency                                                        *)
PurgeOperations ==
  /\ \E k \in Keys : Purgeable(k)
  /\ operation' = [k \in Keys |-> IF Purgeable(k) THEN NoRow ELSE operation[k]]
  /\ UNCHANGED <<clock, ledger, request>>

RequestStep ==
  \E r \in Requests :
    \/ Prepare(r) \/ Begin(r) \/ BeginRefused(r) \/ BeginTaken(r) \/ ReadExisting(r)
    \/ AdmitUnkeyed(r) \/ Generate(r) \/ Deliver(r) \/ Complete(r) \/ CompleteFails(r)
    \/ Fail(r) \/ Crash(r)

DirectStep == RequestStep \/ RecoverStale \/ PurgeOperations

-------------------------------------------------------------------------------
HasRow(r) == request[r].key # NoKey /\ request[r].began >= 0
Distance(a, b) == IF a <= b THEN b - a ELSE a - b

(* The provider is called for a key once in AiRetention: no duplicate, no    *)
(* crash and no deletion of a row lets a second request through before.      *)
OneCallPerKey ==
  \A r, s \in Requests :
    r # s /\ HasRow(r) /\ HasRow(s) /\ request[r].key = request[s].key
      => Distance(request[r].began, request[s].began) > AiRetention

(* Two callers of one operation are told one thing: a text that is replayed  *)
(* is the text of the same request body, and the one its caller has, if that *)
(* caller has any; who is told that the operation failed contradicts nobody  *)
(* who was given a text in the same lifetime of the row.                     *)
AnswersAgree ==
  \A r, s \in Requests :
    /\ r # s /\ request[s].told = "answer" /\ request[s].text = r =>
         request[s].body = request[r].body /\ ~IsStream(r)
         /\ (request[r].told = "answer" => request[r].text = r)
         /\ request[r].told # "FAILED"
    /\ LET row == operation[request[r].key]
       IN HasRow(r) /\ IsRowOf(r) /\ request[r].told = "answer" => row.status # "FAILED"

(* What is recorded of an operation is never overwritten: a late answer, or  *)
(* a late failure, leaves the UNKNOWN of the stale recovery alone.           *)
SettledStaysSettled ==
  [][\A k \in Keys :
       operation[k].status \in Settled => operation'[k] \in {operation[k], NoRow}]_directVars
===============================================================================
