----------------------------- MODULE GenerationProofs -----------------------------
(***************************************************************************)
(* What a workspace is told by its models, for any number of requests,     *)
(* keys, agents' executions and tools: an operation calls its provider     *)
(* once and its callers hear one thing of it, and the rows of an agent's   *)
(* run tell how it came to its answer.                                     *)
(***************************************************************************)
EXTENDS Generation, TLAPS

AnyBody == Bodies \cup {Unsent.body}
RequestRecord ==
  [pc : {"idle", "prepared", "calling", "taken", "answered", "failed", "delivering", "done"},
   key : Keys \cup {NoKey}, body : AnyBody, began : Nat \cup {-1},
   told : {"nothing", "limited", "unavailable", "conflict", "answer", "IN_PROGRESS"} \cup Settled,
   text : Requests \cup {"none"}]
OperationRow ==
  [status : {"IN_PROGRESS"} \cup Settled, by : Requests, body : AnyBody,
   text : {Invalid} \cup {SealedAnswer(r) : r \in Requests}, created : Nat, updated : Nat]

HasOperation(k) == operation[k] # NoRow

(* The type of the direct requests and their rows.                           *)
DirectTypeOK ==
  /\ clock \in Nat
  /\ operation \in [Keys -> {NoRow} \cup OperationRow]
  /\ request \in [Requests -> RequestRecord]
  /\ \A r \in Requests :
       /\ request[r].pc \in {"taken", "answered"} => request[r].key \in Keys
       /\ request[r].began <= clock
       /\ request[r].pc # "done" => request[r].told = "nothing"

(* A request that has sealed its text has answered with it, or could not.    *)
HasSealed(r) ==
  /\ request[r].pc = "done" /\ request[r].told \in {"answer", "unavailable"}
  /\ request[r].told = "answer" => request[r].text = r
  /\ ~IsStream(r)

(* A row is that of the request that inserted it, and what it says of the    *)
(* operation is what this request has told its caller.                       *)
IsHonest(row, k) ==
  /\ request[row.by].key = k /\ request[row.by].began = row.created
  /\ request[row.by].body = row.body
  /\ row.text \in {Invalid, SealedAnswer(row.by)}
  /\ row.status = "SUCCEEDED" => HasSealed(row.by)
  /\ row.status = "FAILED" => request[row.by].pc = "done" /\ request[row.by].told = "FAILED"

RowsAreHonest == \A k \in Keys : HasOperation(k) => IsHonest(operation[k], k)

(* Whoever inserted a row for a key was followed by the present one, or had  *)
(* its row deleted at the end of the retention.                              *)
RowsOutliveTheirCalls ==
  \A r \in Requests : HasRow(r) =>
    IF HasOperation(request[r].key) THEN request[r].began <= operation[request[r].key].created
    ELSE request[r].began < clock - AiRetention

(* A text is the caller's own or the sealed one of the same body.            *)
TextsAreOwnOrSealed ==
  \A s \in Requests : request[s].told = "answer" =>
    \/ request[s].text = s
    \/ \E r \in Requests :
         request[s].text = r /\ HasSealed(r) /\ request[s].body = request[r].body

DirectInv ==
  DirectTypeOK /\ RowsAreHonest /\ RowsOutliveTheirCalls /\ OneCallPerKey /\ TextsAreOwnOrSealed

-------------------------------------------------------------------------------
LEMMA RowShapes ==
  ASSUME NEW row \in {NoRow} \cup OperationRow
  PROVE  row # NoRow <=> row \in OperationRow
BY DEF OperationRow, NoRow, Settled

(* An answer opens as the text of the request that sealed it.                *)
LEMMA AnswersOpenAsTheirs ==
  ASSUME NEW row, NEW r \in Requests, row.by = r, row.text \in {Invalid, SealedAnswer(r)},
         NEW versions \in SUBSET DOMAIN ResponseKeyring, Replay(row, versions) # Invalid
  PROVE  Replay(row, versions) = r
BY DirectAIAssumption DEF Replay, OpenAnswer, Open, SealedAnswer, Seal

(* A request that is not done moves on, keeps what it has asked for and is   *)
(* told what it may be; the rows stay.                                       *)
MovesOn(r) ==
  /\ request' = [request EXCEPT ![r] = request'[r]]
  /\ request'[r] \in RequestRecord
  /\ request'[r].pc \in {"taken", "answered"} => request'[r].key \in Keys
  /\ request'[r].key = request[r].key /\ request'[r].body = request[r].body
  /\ request'[r].began = request[r].began
  /\ request[r].pc # "done"
  /\ request'[r].pc # "done" => request'[r].told = "nothing"

LEMMA MovesOnKeeps ==
  ASSUME DirectInv, NEW r \in Requests, MovesOn(r), UNCHANGED <<clock, operation>>,
         request'[r].told = "answer" => request'[r].text = r \/
           \E s \in Requests : request'[r].text = s /\ HasSealed(s) /\ request[r].body = request[s].body
  PROVE  DirectInv'
<1> USE DEF DirectInv, DirectTypeOK
<1>1. \A s \in Requests : s # r => request'[s] = request[s]
  BY DEF MovesOn
<1>2. \A s \in Requests : /\ request'[s].key = request[s].key
                          /\ request'[s].body = request[s].body
                          /\ request'[s].began = request[s].began
  BY <1>1 DEF MovesOn
<1>3. \A s \in Requests : request[s].pc = "done" => request'[s] = request[s]
  BY <1>1 DEF MovesOn
<1>4. DirectTypeOK'
  BY <1>1 DEF MovesOn
<1>5. \A s \in Requests : HasSealed(s) => HasSealed(s)'
  BY <1>2, <1>3 DEF HasSealed, IsStream
<1>6. RowsAreHonest'
  <2> SUFFICES ASSUME NEW k \in Keys, HasOperation(k)' PROVE IsHonest(operation[k], k)'
    BY DEF RowsAreHonest
  <2>1. HasOperation(k) /\ operation[k]' = operation[k]
    BY DEF HasOperation
  <2>2. IsHonest(operation[k], k) /\ operation[k].by \in Requests
    BY <2>1, RowShapes DEF RowsAreHonest, HasOperation, OperationRow
  <2> QED BY <1>2, <1>3, <1>5, <2>1, <2>2 DEF IsHonest, SealedAnswer, Seal
<1>7. RowsOutliveTheirCalls'
  BY <1>2 DEF RowsOutliveTheirCalls, HasRow, HasOperation
<1>8. OneCallPerKey'
  BY <1>2 DEF OneCallPerKey, HasRow
<1>9. TextsAreOwnOrSealed'
  BY <1>1, <1>2, <1>5 DEF TextsAreOwnOrSealed
<1> QED BY <1>4, <1>6, <1>7, <1>8, <1>9

(* The row a request inserted is settled with what its caller is told.       *)
LEMMA SettlesKeeps ==
  ASSUME DirectInv, NEW r \in Requests, request[r].pc \in {"answered", "failed"},
         request[r].key \in Keys, MovesOn(r), UNCHANGED clock,
         request'[r].told = "answer" => request'[r].text = r,
         NEW status \in Settled, NEW text \in {Invalid, SealedAnswer(r)}, Settle(r, status, text),
         status = "SUCCEEDED" => HasSealed(r)',
         status = "FAILED" => request'[r].pc = "done" /\ request'[r].told = "FAILED"
  PROVE  DirectInv'
<1> DEFINE k == request[r].key
<1>1. CASE ~IsOpen(r)
  BY <1>1, MovesOnKeeps DEF Settle
<1>2. CASE IsOpen(r)
  <2> DEFINE row == [operation[k] EXCEPT !.status = status, !.text = text, !.updated = clock]
  <2> USE DEF DirectInv, DirectTypeOK
  <2>1. operation[k] \in OperationRow /\ operation[k].by = r
    BY <1>2, RowShapes DEF IsOpen
  <2>2. operation' = [operation EXCEPT ![k] = row]
    BY <1>2, <2>1 DEF Settle, OperationRow
  <2>3. /\ row \in OperationRow /\ row.by = r /\ row.body = operation[k].body
        /\ row.created = operation[k].created /\ row.status = status /\ row.text = text
    BY <2>1 DEF OperationRow
  <2> HIDE DEF row
  <2>4. \A s \in Requests : s # r => request'[s] = request[s]
    BY DEF MovesOn
  <2>5. \A s \in Requests : /\ request'[s].key = request[s].key
                            /\ request'[s].body = request[s].body
                            /\ request'[s].began = request[s].began
    BY <2>4 DEF MovesOn
  <2>6. \A s \in Requests : request[s].pc = "done" => request'[s] = request[s]
    BY <2>4 DEF MovesOn
  <2>7. DirectTypeOK'
    BY <2>2, <2>3, <2>4 DEF MovesOn
  <2>8. \A s \in Requests : HasSealed(s) => HasSealed(s)'
    BY <2>5, <2>6 DEF HasSealed, IsStream
  <2>9. \A j \in Keys : /\ HasOperation(j)' <=> HasOperation(j)
                        /\ HasOperation(j) => operation'[j].created = operation[j].created
    BY <2>1, <2>2, <2>3, RowShapes DEF HasOperation
  <2>10. RowsAreHonest'
    <3> SUFFICES ASSUME NEW j \in Keys, HasOperation(j)' PROVE IsHonest(operation[j], j)'
      BY DEF RowsAreHonest
    <3>1. HasOperation(j) /\ IsHonest(operation[j], j) /\ operation[j].by \in Requests
      BY <2>9, RowShapes DEF RowsAreHonest, HasOperation, OperationRow
    <3>2. CASE j # k
      <4>1. operation'[j] = operation[j]
        BY <2>2, <3>2
      <4> QED BY <2>5, <2>6, <2>8, <3>1, <4>1 DEF IsHonest, SealedAnswer, Seal
    <3>3. CASE j = k
      <4>1. operation'[j] = row
        BY <2>2, <3>3
      <4> QED BY <2>1, <2>3, <2>5, <3>1, <3>3, <4>1 DEF IsHonest, SealedAnswer, Seal
    <3> QED BY <3>2, <3>3
  <2>11. RowsOutliveTheirCalls'
    BY <2>5, <2>9 DEF RowsOutliveTheirCalls, HasRow, HasOperation, RequestRecord
  <2>12. OneCallPerKey'
    BY <2>5 DEF OneCallPerKey, HasRow
  <2>13. TextsAreOwnOrSealed'
    BY <2>4, <2>5, <2>8 DEF TextsAreOwnOrSealed
  <2> QED BY <2>7, <2>10, <2>11, <2>12, <2>13
<1> QED BY <1>1, <1>2

-------------------------------------------------------------------------------
(* A request is sent, with its key or without.                               *)
LEMMA PrepareKeeps ==
  ASSUME DirectInv, NEW r \in Requests, Prepare(r)
  PROVE  DirectInv'
<1> USE DEF DirectInv, DirectTypeOK
<1>1. PICK k \in Keys \cup {NoKey}, b \in Bodies :
        request' = [request EXCEPT ![r].pc = "prepared", ![r].key = k, ![r].body = b]
  BY DEF Prepare
<1>2. request[r] = Unsent /\ clock' = clock /\ operation' = operation
  BY DEF Prepare
<1>3. /\ request[r].began = -1 /\ request[r].pc = "idle" /\ request[r].told = "nothing"
      /\ request'[r].began = -1 /\ request'[r].pc = "prepared" /\ request'[r].told = "nothing"
      /\ request'[r] \in RequestRecord
  <2>1. request[r].began = -1 /\ request[r].pc = "idle" /\ request[r].told = "nothing"
    BY <1>2 DEF Unsent
  <2>2. request'[r] = [request[r] EXCEPT !.pc = "prepared", !.key = k, !.body = b]
    BY <1>1
  <2>3. request[r] \in RequestRecord /\ b \in AnyBody
    BY DEF AnyBody
  <2> HIDE DEF DirectInv, DirectTypeOK
  <2> QED BY <2>1, <2>2, <2>3 DEF RequestRecord
<1>4. \A s \in Requests : s # r => request'[s] = request[s]
  BY <1>1
<1>5. request' \in [Requests -> RequestRecord]
  BY <1>1, <1>3, <1>4
<1>6. DirectTypeOK'
  BY <1>2, <1>3, <1>4, <1>5
<1>7. \A j \in Keys : HasOperation(j) => operation[j].by \in Requests \ {r}
  BY <1>3, RowShapes DEF HasOperation, RowsAreHonest, IsHonest, OperationRow
<1>8. \A s \in Requests : HasSealed(s) => s # r /\ HasSealed(s)'
  BY <1>3, <1>4 DEF HasSealed, IsStream
<1>9. RowsAreHonest'
  BY <1>2, <1>4, <1>7, <1>8 DEF RowsAreHonest, HasOperation, IsHonest, SealedAnswer, Seal
<1>10. ~HasRow(r)' /\ \A s \in Requests : s # r => (HasRow(s)' <=> HasRow(s))
  BY <1>3, <1>4 DEF HasRow
<1>11. RowsOutliveTheirCalls'
  BY <1>2, <1>4, <1>10 DEF RowsOutliveTheirCalls, HasOperation
<1>12. OneCallPerKey'
  BY <1>4, <1>10 DEF OneCallPerKey
<1>13. TextsAreOwnOrSealed'
  BY <1>3, <1>4, <1>8 DEF TextsAreOwnOrSealed
<1> QED BY <1>6, <1>9, <1>11, <1>12, <1>13

(* The insert that decides: whoever had a row for this key before lost it    *)
(* more than AiRetention ago.                                                *)
LEMMA BeginKeeps ==
  ASSUME DirectInv, NEW r \in Requests, Begin(r)
  PROVE  DirectInv'
<1> DEFINE k == request[r].key
<1> USE DEF DirectInv, DirectTypeOK
<1>1. /\ request[r].pc = "prepared" /\ k \in Keys /\ ~HasOperation(k)
      /\ clock' = clock /\ operation' = [operation EXCEPT ![k] = NewRow(r)]
      /\ request' = [request EXCEPT ![r].pc = "calling", ![r].began = clock]
  BY DEF Begin, HasOperation, RequestRecord
<1>2. NewRow(r) \in OperationRow /\ NewRow(r).by = r /\ NewRow(r).created = clock
  BY DEF NewRow, OperationRow, RequestRecord
<1>3. /\ request'[r] \in RequestRecord /\ request'[r].pc = "calling" /\ request'[r].began = clock
      /\ request'[r].key = k /\ request'[r].body = request[r].body
      /\ request'[r].told = request[r].told /\ request'[r].text = request[r].text
  BY <1>1 DEF RequestRecord
<1>4. \A s \in Requests : s # r => request'[s] = request[s]
  BY <1>1
<1>5. request' \in [Requests -> RequestRecord]
  BY <1>1, <1>3, <1>4
<1>6. operation' \in [Keys -> {NoRow} \cup OperationRow] /\ HasOperation(k)' /\ operation'[k] = NewRow(r)
  BY <1>1, <1>2, RowShapes DEF HasOperation
<1>7. DirectTypeOK'
  BY <1>1, <1>3, <1>4, <1>5, <1>6
<1>8. \A j \in Keys : j # k => operation'[j] = operation[j]
  BY <1>1
<1>9. \A j \in Keys : HasOperation(j) => j # k /\ operation[j].by \in Requests \ {r}
  BY <1>1, RowShapes DEF HasOperation, RowsAreHonest, IsHonest, OperationRow
<1>10. \A s \in Requests : HasSealed(s) => s # r /\ HasSealed(s)'
  BY <1>1, <1>4 DEF HasSealed, IsStream
<1>11. RowsAreHonest'
  <2> SUFFICES ASSUME NEW j \in Keys, HasOperation(j)' PROVE IsHonest(operation[j], j)'
    BY DEF RowsAreHonest
  <2>1. CASE j # k
    <3>1. operation'[j] = operation[j] /\ HasOperation(j)
      BY <1>8, <2>1 DEF HasOperation
    <3> QED BY <1>4, <1>9, <1>10, <3>1 DEF RowsAreHonest, IsHonest, SealedAnswer, Seal
  <2>2. CASE j = k
    BY <1>1, <1>3, <1>6, <2>2 DEF IsHonest, NewRow
  <2> QED BY <2>1, <2>2
<1>12. \A s \in Requests : s # r /\ HasRow(s)' => HasRow(s)
  BY <1>4 DEF HasRow
<1>13. \A s \in Requests : s # r /\ HasRow(s)' /\ request[s].key = k =>
         request[s].began < clock - AiRetention /\ request[s].began \in Nat
  BY <1>1, <1>12 DEF RowsOutliveTheirCalls, HasRow, RequestRecord
<1>14. RowsOutliveTheirCalls'
  <2> SUFFICES ASSUME NEW s \in Requests, HasRow(s)'
               PROVE  (IF HasOperation(request[s].key)
                       THEN request[s].began <= operation[request[s].key].created
                       ELSE request[s].began < clock - AiRetention)'
    BY DEF RowsOutliveTheirCalls
  <2>1. CASE s = r
    BY <1>2, <1>3, <1>6, <2>1 DEF HasOperation
  <2>2. CASE s # r /\ request[s].key = k
    <3>1. request[s].began <= clock
      BY <2>2
    <3> QED BY <1>1, <1>2, <1>4, <1>6, <2>2, <3>1 DEF HasOperation
  <2>3. CASE s # r /\ request[s].key # k
    <3>1. HasRow(s) /\ request'[s] = request[s] /\ request[s].key \in Keys
      BY <1>4, <1>12, <2>3 DEF HasRow, RequestRecord
    <3>2. operation'[request[s].key] = operation[request[s].key]
      BY <1>8, <2>3, <3>1
    <3> QED BY <1>1, <3>1, <3>2 DEF RowsOutliveTheirCalls, HasOperation
  <2> QED BY <2>1, <2>2, <2>3
<1>15. OneCallPerKey'
  <2> SUFFICES ASSUME NEW s \in Requests, NEW t \in Requests, s # t, HasRow(s)', HasRow(t)',
                      request'[s].key = request'[t].key
               PROVE  Distance(request'[s].began, request'[t].began) > AiRetention
    BY DEF OneCallPerKey
  <2>1. CASE s # r /\ t # r
    BY <1>4, <1>12, <2>1 DEF OneCallPerKey
  <2>2. CASE s = r
    BY <1>3, <1>4, <1>13, <2>2, DirectAIAssumption DEF Distance
  <2>3. CASE t = r
    BY <1>3, <1>4, <1>13, <2>3, DirectAIAssumption DEF Distance
  <2> QED BY <2>1, <2>2, <2>3
<1>16. TextsAreOwnOrSealed'
  BY <1>3, <1>4, <1>10 DEF TextsAreOwnOrSealed
<1> QED BY <1>7, <1>11, <1>14, <1>15, <1>16

(* The row in the way answers for the one who inserted it.                   *)
LEMMA ReadExistingKeeps ==
  ASSUME DirectInv, NEW r \in Requests, ReadExisting(r)
  PROVE  DirectInv'
<1> DEFINE row == operation[request[r].key]
<1> USE DEF DirectInv, DirectTypeOK
<1>1. request[r].pc = "taken" /\ request[r].key \in Keys /\ UNCHANGED <<clock, operation>>
  BY DEF ReadExisting
<1>2. \/ \E told \in {"unavailable", "conflict", "IN_PROGRESS"} \cup Settled : Tell(r, told, "none")
      \/ /\ HasOperation(request[r].key) /\ SameRequest(r, row) /\ row.status = "SUCCEEDED"
         /\ \E versions \in SUBSET DOMAIN ResponseKeyring :
              Replay(row, versions) # Invalid /\ Tell(r, "answer", Replay(row, versions))
  <2>1. row # NoRow => row \in OperationRow
    BY <1>1, RowShapes
  <2> QED BY <1>1, <2>1 DEF ReadExisting, HasOperation, OperationRow
<1>3. CASE \E told \in {"unavailable", "conflict", "IN_PROGRESS"} \cup Settled : Tell(r, told, "none")
  <2>1. PICK told \in {"unavailable", "conflict", "IN_PROGRESS"} \cup Settled : Tell(r, told, "none")
    BY <1>3
  <2>2. MovesOn(r) /\ request'[r].told # "answer"
    BY <1>1, <2>1 DEF Tell, MovesOn, RequestRecord, Settled
  <2> QED BY <1>1, <2>2, MovesOnKeeps
<1>4. CASE /\ HasOperation(request[r].key) /\ SameRequest(r, row) /\ row.status = "SUCCEEDED"
           /\ \E versions \in SUBSET DOMAIN ResponseKeyring :
                Replay(row, versions) # Invalid /\ Tell(r, "answer", Replay(row, versions))
  <2>1. PICK versions \in SUBSET DOMAIN ResponseKeyring :
          Replay(row, versions) # Invalid /\ Tell(r, "answer", Replay(row, versions))
    BY <1>4
  <2>2. row.by \in Requests /\ IsHonest(row, request[r].key)
    BY <1>1, <1>4, RowShapes DEF RowsAreHonest, HasOperation, OperationRow
  <2>3. Replay(row, versions) = row.by
    BY <2>1, <2>2, AnswersOpenAsTheirs DEF IsHonest
  <2>4. Tell(r, "answer", row.by)
    BY <2>1, <2>3
  <2>5. HasSealed(row.by) /\ request[r].body = request[row.by].body
    BY <1>4, <2>2 DEF IsHonest, SameRequest
  <2> HIDE DEF row
  <2>6. MovesOn(r) /\ request'[r].text = row.by
    BY <1>1, <2>2, <2>4 DEF Tell, MovesOn, RequestRecord
  <2> QED BY <1>1, <2>2, <2>5, <2>6, MovesOnKeeps
<1> QED BY <1>2, <1>3, <1>4

(* A request that is neither begun nor answered for moves on.                *)
LEMMA ToPlaceKeeps ==
  ASSUME DirectInv, NEW r \in Requests, UNCHANGED <<clock, operation>>,
         NEW pc \in {"taken", "calling", "delivering", "answered", "failed"}, Move(r, pc),
         pc \in {"taken", "answered"} => request[r].key # NoKey, request[r].pc # "done"
  PROVE  DirectInv'
<1> USE DEF DirectInv, DirectTypeOK
<1>1. MovesOn(r)
  BY DEF Move, MovesOn, RequestRecord
<1>2. request'[r].told # "answer"
  BY DEF Move, RequestRecord
<1> QED BY <1>1, <1>2, MovesOnKeeps

LEMMA ToAnswerKeeps ==
  ASSUME DirectInv, NEW r \in Requests, UNCHANGED <<clock, operation>>, request[r].pc # "done",
         \/ Tell(r, "answer", r)
         \/ \E told \in {"nothing", "limited", "unavailable", "FAILED"} : Tell(r, told, "none")
  PROVE  DirectInv'
<1> USE DEF DirectInv, DirectTypeOK
<1>1. MovesOn(r)
  BY DEF Tell, MovesOn, RequestRecord, Settled
<1>2. request'[r].told = "answer" => request'[r].text = r
  BY DEF Tell, RequestRecord
<1> QED BY <1>1, <1>2, MovesOnKeeps

LEMMA OtherRequestStepKeeps ==
  ASSUME DirectInv, NEW r \in Requests,
         BeginRefused(r) \/ BeginTaken(r) \/ AdmitUnkeyed(r) \/ Generate(r) \/ Deliver(r) \/ Crash(r)
  PROVE  DirectInv'
<1>1. CASE BeginRefused(r)
  BY <1>1, ToAnswerKeeps DEF BeginRefused
<1>2. CASE BeginTaken(r)
  BY <1>2, ToPlaceKeeps DEF BeginTaken
<1>3. CASE AdmitUnkeyed(r)
  BY <1>3, ToPlaceKeeps, ToAnswerKeeps DEF AdmitUnkeyed
<1>4. CASE Generate(r)
  BY <1>4, ToPlaceKeeps DEF Generate
<1>5. CASE Deliver(r)
  BY <1>5, ToAnswerKeeps DEF Deliver
<1>6. CASE Crash(r)
  BY <1>6, ToAnswerKeeps DEF Crash
<1> QED BY <1>1, <1>2, <1>3, <1>4, <1>5, <1>6

(* The answer is sealed, or the stream recorded, and goes out.               *)
LEMMA CompleteKeeps ==
  ASSUME DirectInv, NEW r \in Requests, Complete(r)
  PROVE  DirectInv'
<1>1. /\ request[r].pc = "answered" /\ request[r].key \in Keys /\ clock' = clock
      /\ Tell(r, "answer", r)
  BY DEF Complete, DirectInv, DirectTypeOK
<1>2. /\ MovesOn(r) /\ request'[r].pc = "done" /\ request'[r].told = "answer"
      /\ request'[r].text = r /\ request'[r].body = request[r].body
  BY <1>1 DEF Tell, MovesOn, RequestRecord, DirectInv, DirectTypeOK
<1>3. CASE IsStream(r)
  BY <1>1, <1>2, <1>3, SettlesKeeps DEF Complete, Settled
<1>4. CASE ~IsStream(r)
  <2>1. HasSealed(r)'
    BY <1>2, <1>4 DEF HasSealed, IsStream
  <2> QED BY <1>1, <1>2, <1>4, <2>1, SettlesKeeps DEF Complete, Settled
<1> QED BY <1>3, <1>4

LEMMA CompleteFailsKeeps ==
  ASSUME DirectInv, NEW r \in Requests, CompleteFails(r)
  PROVE  DirectInv'
<1>1. request[r].pc = "answered" /\ request[r].key \in Keys /\ clock' = clock
  BY DEF CompleteFails, DirectInv, DirectTypeOK
<1>2. CASE IsStream(r)
  <2>1. Move(r, "failed")
    BY <1>2 DEF CompleteFails
  <2>2. MovesOn(r) /\ request'[r].told # "answer"
    BY <1>1, <2>1 DEF Move, MovesOn, RequestRecord, DirectInv, DirectTypeOK
  <2>3. CASE UNCHANGED operation
    BY <1>1, <2>2, <2>3, MovesOnKeeps
  <2>4. CASE Settle(r, "STREAM_COMPLETED", Invalid)
    BY <1>1, <2>2, <2>4, SettlesKeeps DEF Settled
  <2> QED BY <1>2, <2>3, <2>4 DEF CompleteFails
<1>3. CASE ~IsStream(r)
  <2>1. Tell(r, "unavailable", "none")
    BY <1>3 DEF CompleteFails
  <2>2. /\ MovesOn(r) /\ request'[r].pc = "done" /\ request'[r].told = "unavailable"
        /\ request'[r].body = request[r].body
    BY <1>1, <2>1 DEF Tell, MovesOn, RequestRecord, DirectInv, DirectTypeOK
  <2>3. HasSealed(r)'
    BY <1>3, <2>2 DEF HasSealed, IsStream
  <2>4. CASE UNCHANGED operation
    BY <1>1, <2>2, <2>4, MovesOnKeeps
  <2>5. CASE Settle(r, "SUCCEEDED", SealedAnswer(r))
    BY <1>1, <2>2, <2>3, <2>5, SettlesKeeps DEF Settled
  <2> QED BY <1>3, <2>4, <2>5 DEF CompleteFails
<1> QED BY <1>2, <1>3

LEMMA FailKeeps ==
  ASSUME DirectInv, NEW r \in Requests, Fail(r)
  PROVE  DirectInv'
<1>1. request[r].pc = "failed" /\ clock' = clock /\ Tell(r, "FAILED", "none")
  BY DEF Fail
<1>2. MovesOn(r) /\ request'[r].pc = "done" /\ request'[r].told = "FAILED"
  BY <1>1 DEF Tell, MovesOn, RequestRecord, DirectInv, DirectTypeOK, Settled
<1>3. CASE UNCHANGED operation
  BY <1>1, <1>2, <1>3, MovesOnKeeps
<1>4. CASE request[r].key # NoKey /\ Settle(r, "FAILED", Invalid)
  <2>1. request[r].key \in Keys
    BY <1>4 DEF DirectInv, DirectTypeOK, RequestRecord
  <2> QED BY <1>1, <1>2, <1>4, <2>1, SettlesKeeps DEF Settled
<1> QED BY <1>3, <1>4 DEF Fail

-------------------------------------------------------------------------------
(* Maintenance turns rows that were open too long into UNKNOWN ones, and     *)
(* deletes the old ones of the settled.                                      *)
LEMMA RecoverKeeps ==
  ASSUME DirectInv, RecoverStale
  PROVE  DirectInv'
<1> USE DEF DirectInv, DirectTypeOK
<1> DEFINE unknown(k) == [operation[k] EXCEPT !.status = "UNKNOWN", !.updated = clock]
<1>1. clock' = clock /\ request' = request
  BY DEF RecoverStale
<1>2. \A k \in Keys : operation'[k] = IF IsStale(k) THEN unknown(k) ELSE operation[k]
  BY DEF RecoverStale
<1>3. \A k \in Keys : IsStale(k) =>
        /\ HasOperation(k) /\ operation[k] \in OperationRow /\ unknown(k) \in OperationRow
        /\ unknown(k).by = operation[k].by /\ unknown(k).body = operation[k].body
        /\ unknown(k).text = operation[k].text /\ unknown(k).created = operation[k].created
        /\ unknown(k).status = "UNKNOWN"
  <2> SUFFICES ASSUME NEW k \in Keys, IsStale(k)
               PROVE  /\ HasOperation(k) /\ operation[k] \in OperationRow
                      /\ unknown(k) \in OperationRow
                      /\ unknown(k).by = operation[k].by /\ unknown(k).body = operation[k].body
                      /\ unknown(k).text = operation[k].text
                      /\ unknown(k).created = operation[k].created
                      /\ unknown(k).status = "UNKNOWN"
    OBVIOUS
  <2>1. HasOperation(k) /\ operation[k] \in OperationRow
    BY RowShapes DEF IsStale, HasOperation, NoRow
  <2> QED BY <2>1 DEF OperationRow, Settled
<1> HIDE DEF unknown
<1>4. operation' \in [Keys -> {NoRow} \cup OperationRow]
  <2>1. operation' = [k \in Keys |-> IF IsStale(k) THEN unknown(k) ELSE operation[k]]
    BY DEF RecoverStale, unknown
  <2> QED BY <1>3, <2>1
<1>5. \A k \in Keys : /\ HasOperation(k)' <=> HasOperation(k)
                      /\ HasOperation(k) => operation'[k].created = operation[k].created
  BY <1>2, <1>3, RowShapes DEF HasOperation
<1>6. \A s \in Requests : HasSealed(s)' <=> HasSealed(s)
  BY <1>1 DEF HasSealed, IsStream
<1>7. RowsAreHonest'
  <2> SUFFICES ASSUME NEW k \in Keys, HasOperation(k)' PROVE IsHonest(operation[k], k)'
    BY DEF RowsAreHonest
  <2>1. HasOperation(k) /\ IsHonest(operation[k], k) /\ operation[k].by \in Requests
    BY <1>5, RowShapes DEF RowsAreHonest, HasOperation, OperationRow
  <2> QED BY <1>1, <1>2, <1>3, <1>6, <2>1 DEF IsHonest, SealedAnswer, Seal
<1>8. RowsOutliveTheirCalls'
  BY <1>1, <1>5 DEF RowsOutliveTheirCalls, HasRow, HasOperation, RequestRecord
<1>9. OneCallPerKey' /\ TextsAreOwnOrSealed'
  BY <1>1, <1>6 DEF OneCallPerKey, HasRow, TextsAreOwnOrSealed
<1> QED BY <1>1, <1>4, <1>7, <1>8, <1>9

LEMMA PurgeKeeps ==
  ASSUME DirectInv, PurgeOperations
  PROVE  DirectInv'
<1> USE DEF DirectInv, DirectTypeOK
<1>1. clock' = clock /\ request' = request
  BY DEF PurgeOperations
<1>2. operation' = [k \in Keys |-> IF Purgeable(k) THEN NoRow ELSE operation[k]]
  BY DEF PurgeOperations
<1>3. operation' \in [Keys -> {NoRow} \cup OperationRow]
  BY <1>2
<1>4. \A k \in Keys : HasOperation(k)' => HasOperation(k) /\ operation'[k] = operation[k]
  BY <1>2 DEF HasOperation
<1>5. \A k \in Keys : HasOperation(k) /\ ~HasOperation(k)' => operation[k].created < clock - AiRetention
  BY <1>2 DEF HasOperation, Purgeable
<1>6. \A s \in Requests : HasSealed(s)' <=> HasSealed(s)
  BY <1>1 DEF HasSealed, IsStream
<1>7. RowsAreHonest'
  <2> SUFFICES ASSUME NEW k \in Keys, HasOperation(k)' PROVE IsHonest(operation[k], k)'
    BY DEF RowsAreHonest
  <2>1. HasOperation(k) /\ operation'[k] = operation[k] /\ operation[k].by \in Requests
    BY <1>4, RowShapes DEF HasOperation, OperationRow
  <2>2. IsHonest(operation[k], k)
    BY <2>1 DEF RowsAreHonest
  <2> QED BY <1>1, <1>6, <2>1, <2>2 DEF IsHonest, SealedAnswer, Seal
<1>8. RowsOutliveTheirCalls'
  <2> SUFFICES ASSUME NEW r \in Requests, HasRow(r)
               PROVE  (IF HasOperation(request[r].key)
                       THEN request[r].began <= operation[request[r].key].created
                       ELSE request[r].began < clock - AiRetention)'
    BY <1>1 DEF RowsOutliveTheirCalls, HasRow
  <2> DEFINE k == request[r].key
  <2>1. k \in Keys /\ request[r].began \in Nat
    BY DEF HasRow, RequestRecord
  <2>2. CASE HasOperation(k)'
    <3>1. HasOperation(k) /\ operation'[k] = operation[k]
      BY <1>1, <1>4, <2>1, <2>2
    <3> QED BY <1>1, <2>2, <3>1 DEF RowsOutliveTheirCalls, HasOperation
  <2>3. CASE HasOperation(k) /\ ~HasOperation(k)'
    <3>1. operation[k].created < clock - AiRetention /\ request[r].began <= operation[k].created
      BY <1>1, <1>5, <2>1, <2>3 DEF RowsOutliveTheirCalls
    <3>2. operation[k].created \in Nat
      BY <2>1, <2>3, RowShapes DEF HasOperation, OperationRow
    <3>3. request[r].began < clock - AiRetention
      BY <2>1, <3>1, <3>2, DirectAIAssumption
    <3> QED BY <1>1, <2>3, <3>3 DEF HasOperation
  <2>4. CASE ~HasOperation(k)
    <3>1. ~HasOperation(k)'
      BY <1>1, <1>4, <2>1, <2>4
    <3> QED BY <1>1, <2>4, <3>1 DEF RowsOutliveTheirCalls, HasOperation
  <2> QED BY <2>2, <2>3, <2>4
<1>9. OneCallPerKey' /\ TextsAreOwnOrSealed'
  BY <1>1, <1>6 DEF OneCallPerKey, HasRow, TextsAreOwnOrSealed
<1> QED BY <1>1, <1>3, <1>7, <1>8, <1>9

(* The direct requests and their rows, while something else happens.         *)
LEMMA DirectLeftAlone ==
  ASSUME DirectInv, UNCHANGED directVars, clock' \in {clock, clock + 1}
  PROVE  DirectInv'
<1> USE DEF DirectInv, DirectTypeOK, directVars
<1>1. clock' \in Nat /\ clock <= clock'
  OBVIOUS
<1>2. DirectTypeOK'
  <2>1. \A r \in Requests : request[r].began \in Int /\ request[r].began <= clock'
    BY <1>1 DEF RequestRecord
  <2> QED BY <1>1, <2>1
<1>3. \A s \in Requests : HasSealed(s)' <=> HasSealed(s)
  BY DEF HasSealed, IsStream
<1>4. RowsAreHonest' /\ TextsAreOwnOrSealed'
  <2>1. RowsAreHonest'
    <3> SUFFICES ASSUME NEW k \in Keys, HasOperation(k)' PROVE IsHonest(operation[k], k)'
      BY DEF RowsAreHonest
    <3>1. HasOperation(k) /\ operation[k] \in OperationRow /\ operation[k].by \in Requests
      BY RowShapes DEF HasOperation, OperationRow
    <3>2. IsHonest(operation[k], k)
      BY <3>1 DEF RowsAreHonest
    <3> QED BY <1>3, <3>1, <3>2 DEF IsHonest, SealedAnswer, Seal
  <2>2. TextsAreOwnOrSealed'
    BY <1>3 DEF TextsAreOwnOrSealed
  <2> QED BY <2>1, <2>2
<1>5. RowsOutliveTheirCalls'
  BY <1>1, DirectAIAssumption DEF RowsOutliveTheirCalls, HasOperation, HasRow, RequestRecord
<1>6. OneCallPerKey'
  BY DEF OneCallPerKey, HasRow
<1> QED BY <1>2, <1>4, <1>5, <1>6

LEMMA DirectInit0 ==
  ASSUME Init
  PROVE  DirectInv
<1>1. \A k \in Keys : ~HasOperation(k)
  BY DEF Init, DirectInit, HasOperation
<1>2. \A r \in Requests : request[r] = Unsent
  BY DEF Init, DirectInit
<1>3. Unsent \in RequestRecord /\ Unsent.began = -1 /\ Unsent.told = "nothing" /\ Unsent.pc = "idle"
  <2>1. Unsent.body \in AnyBody
    BY DEF AnyBody
  <2> QED BY <2>1 DEF Unsent, RequestRecord
<1>4. DirectTypeOK
  BY <1>2, <1>3 DEF Init, DirectInit, DirectTypeOK
<1> QED
  BY <1>1, <1>2, <1>3, <1>4
     DEF DirectInv, RowsAreHonest, RowsOutliveTheirCalls, OneCallPerKey, TextsAreOwnOrSealed, HasRow

(* The inductive step of the direct requests.                                *)
LEMMA DirectStepKeeps ==
  ASSUME DirectInv, DirectStep
  PROVE  DirectInv'
BY PrepareKeeps, BeginKeeps, ReadExistingKeeps, OtherRequestStepKeeps, CompleteKeeps,
   CompleteFailsKeeps, FailKeeps, RecoverKeeps, PurgeKeeps DEF DirectStep, RequestStep

-------------------------------------------------------------------------------
(* Where an execution is: before it has a run, in its loop, after it.        *)
Before == {"idle", "loaded", "starting", "reserved", "admitted"}
Loop == {"created", "grounding", "groundingTool", "charging", "asking", "decided", "toolCall",
         "tool", "final", "completing", "maxsteps"}
Places == Before \cup Loop \cup {"catch", "failing", "leaving", "done"}
Verdicts == {"COMPLETED", "MAX_STEPS_REACHED"}

AgentRow == [exists : BOOLEAN, enabled : BOOLEAN, brand : BOOLEAN, tools : SUBSET Tools]
ExecRecord ==
  [pc : Places, key : RunKeys \cup StepKeys \cup {"none"}, owner : Owners \cup {"none"},
   goal : Goals \cup {"none"}, agent : AgentRow, slot : Executions \cup {"none"},
   pending : SUBSET Tools, step : Nat, attempt : Nat, seen : Nat, repaired : BOOLEAN,
   decision : {"none", "final", "tool"}, error : {"none", "FAILED", "CANCELLED"},
   told : {"nothing", "error", "limited", "conflict", "exists"} \cup Verdicts,
   from : Executions \cup {"none"}]
RunRow ==
  [status : {"RUNNING", "FAILED", "CANCELLED"} \cup Verdicts, goal : Goals \cup {"none"},
   answer : BOOLEAN, stepCount : Nat, key : RunKeys \cup {"none"}]
StepRow ==
  [type : {"TOOL_CALL", "TOOL_RESULT", "MODEL_DECISION", "FINAL_RESPONSE", "ERROR"}, number : Nat]

(* The type of the agent, its executions and what they have written.         *)
AgentTypeOK ==
  /\ agent \in AgentRow
  /\ agentEdit \in Patches \cup {NoPatch}
  /\ exec \in [Executions -> ExecRecord]
  /\ run \in [Executions -> {NoRun} \cup RunRow]
  /\ steps \in [Executions -> Seq(StepRow)]
  /\ capacity \in [RunKeys \cup StepKeys ->
                    [owner : Owners \cup {"none"}, by : Executions \cup {"none"}]]
  /\ \A x \in Executions :
       exec[x].pc \notin {"idle", "done"} => exec[x].key \in RunKeys \cup StepKeys

HasRun(x) == run[x] # NoRun
LastStep(x) == steps[x][Len(steps[x])]

(* The step rows as they must read, whatever comes of the run.               *)
ReadsAsAccount(s) ==
  /\ \A i \in 2..Len(s) :
       /\ s[i - 1].number <= s[i].number
       /\ s[i].type = "TOOL_RESULT" => s[i - 1] = [type |-> "TOOL_CALL", number |-> s[i].number]
       /\ s[i].type = "MODEL_DECISION" => s[i - 1].number < s[i].number
       /\ s[i - 1].type = "FINAL_RESPONSE" => s[i].type = "ERROR"
       /\ s[i - 1].type # "ERROR"
  /\ \A i \in DOMAIN s : s[i].number > MaxSteps => s[i].type = "ERROR"

(* The last row is the one the execution is about to go on from.             *)
AtStep(x, type) ==
  /\ steps[x] # <<>> /\ exec[x].step <= MaxSteps
  /\ LastStep(x) = [type |-> type, number |-> exec[x].step]

AfterResult(x, n) ==
  steps[x] # <<>> => LastStep(x).type = "TOOL_RESULT" /\ LastStep(x).number <= n

StandsWhereItWrote(x) ==
  LET pc == exec[x].pc
  IN /\ pc \in Before \cup {"created"} => steps[x] = <<>> /\ exec[x].step = 0
     /\ pc = "grounding" => exec[x].step <= MaxSteps /\ AfterResult(x, exec[x].step)
     /\ pc \in {"groundingTool", "tool"} => AtStep(x, "TOOL_CALL")
     /\ pc \in {"charging", "asking", "decided"} =>
          exec[x].step <= MaxSteps /\ AfterResult(x, exec[x].step - 1)
     /\ pc = "maxsteps" => AfterResult(x, exec[x].step - 1)
     /\ pc \in {"final", "toolCall"} => AtStep(x, "MODEL_DECISION")
     /\ pc = "completing" => AtStep(x, "FINAL_RESPONSE")
     /\ pc = "catch" /\ steps[x] # <<>> =>
          LastStep(x).type # "ERROR" /\ LastStep(x).number <= exec[x].step
     /\ pc = "failing" => Has(x, "ERROR")

(* The row of a run is made by its execution and is RUNNING until the loop   *)
(* has ended.                                                                *)
RowFollows(x) ==
  /\ exec[x].pc \in Before => ~HasRun(x)
  /\ exec[x].pc \in Loop \cup {"catch", "failing"} => HasRun(x)
  /\ exec[x].pc \in Loop => run[x].status = "RUNNING"
  /\ exec[x].pc \in Loop /\ Has(x, "FINAL_RESPONSE") => exec[x].pc = "completing"
  /\ exec[x].pc = "failing" => exec[x].error # "none"
  /\ exec[x].pc = "catch" => exec[x].error # "none"
  /\ HasRun(x) =>
       /\ run[x].goal = exec[x].goal
       /\ run[x].key = IF exec[x].key \in RunKeys THEN exec[x].key ELSE "none"

(* The end a row records is the one the step rows record.                    *)
EndIsRecorded(x) ==
  /\ run[x].status = "COMPLETED" => Has(x, "FINAL_RESPONSE") /\ run[x].answer
  /\ run[x].status \in {"FAILED", "CANCELLED"} => Has(x, "ERROR")
  /\ run[x].status = "MAX_STEPS_REACHED" => ~Has(x, "FINAL_RESPONSE")

(* What an answer is drawn from.                                             *)
AnswerIsDrawn(x) ==
  /\ exec[x].seen > 0 => Has(x, "TOOL_RESULT")
  /\ exec[x].pc \in {"final", "completing"} => MayConclude(x)
  /\ exec[x].pc = "decided" /\ exec[x].decision = "final" => MayConclude(x)
  /\ HasRun(x) /\ run[x].answer =>
       Has(x, "FINAL_RESPONSE") /\ (exec[x].agent.tools # {} => Has(x, "TOOL_RESULT"))

ExecutionOK(x) ==
  /\ ReadsAsAccount(steps[x]) /\ StandsWhereItWrote(x)
  /\ RowFollows(x) /\ EndIsRecorded(x) /\ AnswerIsDrawn(x)

(* The unique index on the Idempotency-Key.                                  *)
RunsAreUnique ==
  \A x, y \in Executions :
    HasRun(x) /\ HasRun(y) /\ run[x].key = run[y].key /\ run[x].key \in RunKeys => x = y

(* Who is told COMPLETED has a run to name.                                  *)
ToldOf(x) ==
  exec[x].told = "COMPLETED" =>
    LET y == exec[x].from
    IN /\ y \in Executions /\ HasRun(y) /\ run[y].answer /\ run[y].goal = exec[x].goal
       /\ exec[x].key \in RunKeys => run[y].key = exec[x].key

AgentInv ==
  /\ AgentTypeOK /\ RunsAreUnique
  /\ \A x \in Executions : ExecutionOK(x) /\ ToldOf(x)

IInv == DirectInv /\ AgentInv

-------------------------------------------------------------------------------
(* What a row may follow.                                                    *)
MayFollow(s, row) ==
  /\ s # <<>> =>
       /\ s[Len(s)].number <= row.number
       /\ row.type = "TOOL_RESULT" => s[Len(s)] = [type |-> "TOOL_CALL", number |-> row.number]
       /\ row.type = "MODEL_DECISION" => s[Len(s)].number < row.number
       /\ s[Len(s)].type = "FINAL_RESPONSE" => row.type = "ERROR"
       /\ s[Len(s)].type # "ERROR"
  /\ row.number > MaxSteps => row.type = "ERROR"

LEMMA AppendsReadOn ==
  ASSUME NEW s \in Seq(StepRow), NEW row \in StepRow, ReadsAsAccount(s), MayFollow(s, row)
  PROVE  ReadsAsAccount(Append(s, row))
<1> DEFINE n == Len(s)
           t == Append(s, row)
<1>1. /\ n \in Nat /\ Len(t) = n + 1 /\ t[n + 1] = row /\ DOMAIN s = 1..n /\ DOMAIN t = 1..(n + 1)
      /\ \A i \in 1..n : t[i] = s[i]
  OBVIOUS
<1>2. s # <<>> <=> n > 0
  BY <1>1
<1> HIDE DEF t
<1>3. ASSUME NEW i \in 2..Len(t)
      PROVE  /\ t[i - 1].number <= t[i].number
             /\ t[i].type = "TOOL_RESULT" => t[i - 1] = [type |-> "TOOL_CALL", number |-> t[i].number]
             /\ t[i].type = "MODEL_DECISION" => t[i - 1].number < t[i].number
             /\ t[i - 1].type = "FINAL_RESPONSE" => t[i].type = "ERROR"
             /\ t[i - 1].type # "ERROR"
  <2>1. CASE i <= n
    <3>1. i \in 2..Len(s) /\ t[i] = s[i] /\ t[i - 1] = s[i - 1]
      BY <1>1, <2>1
    <3> QED BY <3>1 DEF ReadsAsAccount
  <2>2. CASE i = n + 1
    <3>1. n > 0 /\ t[i - 1] = s[Len(s)] /\ t[i] = row
      BY <1>1, <2>2
    <3> QED BY <1>2, <3>1 DEF MayFollow
  <2> QED BY <1>1, <2>1, <2>2
<1>4. ASSUME NEW i \in DOMAIN t
      PROVE  t[i].number > MaxSteps => t[i].type = "ERROR"
  <2>1. CASE i <= n
    BY <1>1, <2>1 DEF ReadsAsAccount
  <2>2. CASE i = n + 1
    BY <1>1, <2>2 DEF MayFollow
  <2> QED BY <1>1, <2>1, <2>2
<1>5. ReadsAsAccount(t)
  BY <1>3, <1>4 DEF ReadsAsAccount
<1> QED BY <1>5 DEF t

(* A row is written: the others stay, and it is the last.                    *)
LEMMA RecordsOneRow ==
  ASSUME AgentTypeOK, NEW x \in Executions, NEW type, NEW n,
         [type |-> type, number |-> n] \in StepRow, Record(x, type, n)
  PROVE  /\ steps'[x] = Append(steps[x], [type |-> type, number |-> n])
         /\ steps'[x] \in Seq(StepRow) /\ steps'[x] # <<>>
         /\ LastStep(x)' = [type |-> type, number |-> n]
         /\ \A y \in Executions : y # x => steps'[y] = steps[y]
         /\ \A t : Has(x, t)' <=> Has(x, t) \/ t = type
<1> DEFINE row == [type |-> type, number |-> n]
<1>1. steps[x] \in Seq(StepRow) /\ steps' = [steps EXCEPT ![x] = Append(steps[x], row)]
  BY DEF AgentTypeOK, Record
<1>2. steps'[x] = Append(steps[x], row) /\ \A y \in Executions : y # x => steps'[y] = steps[y]
  BY <1>1 DEF AgentTypeOK
<1> DEFINE s == steps[x]
<1>3. /\ s \in Seq(StepRow) /\ Append(s, row) \in Seq(StepRow)
      /\ Len(Append(s, row)) = Len(s) + 1 /\ Len(s) \in Nat
      /\ DOMAIN s = 1..Len(s) /\ DOMAIN Append(s, row) = 1..(Len(s) + 1)
      /\ Append(s, row)[Len(s) + 1] = row /\ \A i \in 1..Len(s) : Append(s, row)[i] = s[i]
  BY <1>1
<1>4. row.type = type
  OBVIOUS
<1> HIDE DEF row, s
<1>5. steps'[x] = Append(s, row)
  BY <1>2 DEF s
<1>6. LastStep(x)' = row /\ steps'[x] # <<>>
  BY <1>3, <1>5 DEF LastStep
<1>7. ASSUME NEW t
      PROVE  Has(x, t)' <=> Has(x, t) \/ t = type
  <2>1. Has(x, t)' <=> \E i \in 1..(Len(s) + 1) : Append(s, row)[i].type = t
    BY <1>3, <1>5 DEF Has
  <2>2. Has(x, t) <=> \E i \in 1..Len(s) : s[i].type = t
    BY <1>3 DEF Has, s
  <2> QED BY <1>3, <1>4, <2>1, <2>2
<1> QED BY <1>2, <1>3, <1>5, <1>6, <1>7 DEF row, s

LEMMA RunShapes ==
  ASSUME NEW row \in {NoRun} \cup RunRow
  PROVE  row # NoRun <=> row \in RunRow
BY DEF RunRow, NoRun, Verdicts

(* What every step of a running execution has in common.                     *)
Advances(x) ==
  /\ exec' = [exec EXCEPT ![x] = exec'[x]] /\ exec'[x] \in ExecRecord
  /\ exec'[x].pc \notin {"idle", "done"} => exec'[x].key \in RunKeys \cup StepKeys
  /\ exec'[x].told = "COMPLETED" => exec'[x].key = exec[x].key /\ exec'[x].goal = exec[x].goal
  /\ run' = [run EXCEPT ![x] = run'[x]] /\ run'[x] \in {NoRun} \cup RunRow
  /\ HasRun(x) => /\ HasRun(x)' /\ run'[x].key = run[x].key /\ run'[x].goal = run[x].goal
                  /\ run[x].answer => run'[x].answer
  /\ HasRun(x)' /\ ~HasRun(x) /\ run'[x].key \in RunKeys => RunsOf(run'[x].key) = {}
  /\ steps' = [steps EXCEPT ![x] = steps'[x]] /\ steps'[x] \in Seq(StepRow)
  /\ agent' = agent /\ agentEdit' = agentEdit
  /\ capacity' \in [RunKeys \cup StepKeys ->
                     [owner : Owners \cup {"none"}, by : Executions \cup {"none"}]]

(* ... and what it keeps, if the execution itself stays in order.            *)
LEMMA AdvancesKeeps ==
  ASSUME AgentInv, NEW x \in Executions, Advances(x), ExecutionOK(x)',
         exec'[x].told = "COMPLETED" =>
           \/ exec'[x].told = exec[x].told /\ exec'[x].from = exec[x].from
           \/ \E y \in Executions :
                /\ exec'[x].from = y
                /\ HasRun(y)' /\ run'[y].answer /\ run'[y].goal = exec[x].goal
                /\ exec[x].key \in RunKeys => run'[y].key = exec[x].key
  PROVE  AgentInv'
<1> USE DEF AgentInv
<1>1. \A y \in Executions : y # x => exec'[y] = exec[y] /\ run'[y] = run[y] /\ steps'[y] = steps[y]
  BY DEF Advances, AgentTypeOK
<1>2. AgentTypeOK'
  <2>1. exec' \in [Executions -> ExecRecord]
    BY <1>1 DEF Advances, AgentTypeOK
  <2>2. run' \in [Executions -> {NoRun} \cup RunRow]
    BY <1>1 DEF Advances, AgentTypeOK
  <2>3. steps' \in [Executions -> Seq(StepRow)]
    <3> DEFINE Rows == Seq(StepRow)
    <3>1. steps \in [Executions -> Rows] /\ steps'[x] \in Rows
      BY DEF Advances, AgentTypeOK
    <3> HIDE DEF Rows
    <3>2. steps' \in [Executions -> Rows]
      BY <3>1 DEF Advances
    <3> QED BY <3>2 DEF Rows
  <2>4. \A y \in Executions : exec'[y].pc \notin {"idle", "done"} => exec'[y].key \in RunKeys \cup StepKeys
    BY <1>1 DEF Advances, AgentTypeOK
  <2> QED BY <2>1, <2>2, <2>3, <2>4 DEF Advances, AgentTypeOK
<1>3. \A y \in Executions :
        HasRun(y) => /\ HasRun(y)' /\ run'[y].key = run[y].key /\ run'[y].goal = run[y].goal
                     /\ run[y].answer => run'[y].answer
  BY <1>1 DEF Advances, HasRun
<1>4. RunsAreUnique'
  <2> SUFFICES ASSUME NEW y \in Executions, NEW z \in Executions, HasRun(y)', HasRun(z)',
                      run'[y].key = run'[z].key, run'[y].key \in RunKeys, y # z
               PROVE  FALSE
    BY DEF RunsAreUnique
  <2>1. CASE HasRun(y) /\ HasRun(z)
    BY <1>3, <2>1 DEF RunsAreUnique
  <2>2. CASE y = x /\ ~HasRun(x)
    BY <1>1, <2>2 DEF Advances, HasRun, RunsOf
  <2>3. CASE z = x /\ ~HasRun(x)
    BY <1>1, <2>3 DEF Advances, HasRun, RunsOf
  <2>4. (HasRun(y) \/ y = x) /\ (HasRun(z) \/ z = x)
    BY <1>1 DEF HasRun
  <2> QED BY <2>1, <2>2, <2>3, <2>4
<1>5. ASSUME NEW y \in Executions
      PROVE  ExecutionOK(y)'
  <2>1. CASE y # x
    <3>1. exec'[y] = exec[y] /\ run'[y] = run[y] /\ steps'[y] = steps[y]
      BY <1>1, <2>1
    <3>2. ExecutionOK(y)
      OBVIOUS
    <3>3. (\A t : Has(y, t)' <=> Has(y, t)) /\ LastStep(y)' = LastStep(y)
      BY <3>1 DEF Has, LastStep
    <3>4. ReadsAsAccount(steps[y])' /\ EndIsRecorded(y)'
      BY <3>1, <3>2, <3>3 DEF ExecutionOK, EndIsRecorded, ReadsAsAccount
    <3>5. StandsWhereItWrote(y)'
      BY <3>1, <3>2, <3>3 DEF ExecutionOK, StandsWhereItWrote, AtStep, AfterResult
    <3>6. RowFollows(y)'
      BY <3>1, <3>2, <3>3 DEF ExecutionOK, RowFollows, HasRun
    <3>7. AnswerIsDrawn(y)'
      <4>1. (HasRun(y)' <=> HasRun(y)) /\ (MayConclude(y)' <=> MayConclude(y))
        BY <3>1 DEF HasRun, MayConclude
      <4> QED BY <3>1, <3>2, <3>3, <4>1 DEF ExecutionOK, AnswerIsDrawn
    <3> QED BY <3>4, <3>5, <3>6, <3>7 DEF ExecutionOK
  <2> QED BY <2>1
<1>6. ASSUME NEW y \in Executions
      PROVE  ToldOf(y)'
  <2>1. CASE y = x /\ \/ exec'[x].told # exec[x].told
                      \/ exec'[x].from # exec[x].from
    BY <2>1 DEF ToldOf, Advances
  <2>2. CASE \/ y # x
             \/ exec'[x].told = exec[x].told /\ exec'[x].from = exec[x].from
    <3>1. /\ exec'[y].told = exec[y].told /\ exec'[y].from = exec[y].from
          /\ exec'[y].told = "COMPLETED" =>
               exec'[y].goal = exec[y].goal /\ exec'[y].key = exec[y].key
      BY <1>1, <2>2 DEF Advances
    <3>2. ToldOf(y)
      OBVIOUS
    <3> QED BY <1>3, <3>1, <3>2 DEF ToldOf
  <2> QED BY <2>1, <2>2
<1> QED BY <1>2, <1>4, <1>5, <1>6

Capacities ==
  [RunKeys \cup StepKeys -> [owner : Owners \cup {"none"}, by : Executions \cup {"none"}]]

(* A step that writes no row of the run.                                     *)
LEMMA MovesKeeps ==
  ASSUME AgentInv, NEW x \in Executions, NEW e \in ExecRecord, Set(x, e),
         UNCHANGED <<agent, agentEdit, run, steps>>, capacity' \in Capacities,
         e.pc \notin {"idle", "done"} => e.key \in RunKeys \cup StepKeys,
         e.told = "COMPLETED" =>
           /\ e.key = exec[x].key /\ e.goal = exec[x].goal
           /\ \/ e.told = exec[x].told /\ e.from = exec[x].from
              \/ \E y \in Executions :
                   /\ e.from = y
                   /\ HasRun(y) /\ run[y].answer /\ run[y].goal = exec[x].goal
                   /\ exec[x].key \in RunKeys => run[y].key = exec[x].key,
         StandsWhereItWrote(x)', RowFollows(x)', AnswerIsDrawn(x)'
  PROVE  AgentInv'
<1> USE DEF AgentInv
<1>1. exec' = [exec EXCEPT ![x] = e] /\ exec'[x] = e
  BY DEF Set, AgentTypeOK
<1>2. run' = [run EXCEPT ![x] = run'[x]] /\ run'[x] = run[x] /\ run[x] \in {NoRun} \cup RunRow
  BY DEF AgentTypeOK
<1>3. steps' = [steps EXCEPT ![x] = steps'[x]] /\ steps'[x] \in Seq(StepRow)
  BY DEF AgentTypeOK
<1>4. Advances(x)
  BY <1>1, <1>2, <1>3 DEF Advances, HasRun, Capacities
<1>5. \A t : Has(x, t)' <=> Has(x, t)
  BY DEF Has
<1>7. \A y \in Executions : (HasRun(y)' <=> HasRun(y)) /\ run'[y] = run[y]
  BY DEF HasRun
<1>6. ExecutionOK(x)'
  <2>1. ReadsAsAccount(steps[x])' /\ EndIsRecorded(x)'
    BY <1>5 DEF ExecutionOK, ReadsAsAccount, EndIsRecorded
  <2> QED BY <2>1 DEF ExecutionOK
<1> QED BY <1>1, <1>4, <1>6, <1>7, AdvancesKeeps

(* What the rows of x say while they are left alone.                         *)
LEMMA RowsStay ==
  ASSUME UNCHANGED <<run, steps>>, NEW x \in Executions
  PROVE  /\ \A t : Has(x, t)' <=> Has(x, t)
         /\ LastStep(x)' = LastStep(x) /\ steps'[x] = steps[x]
         /\ (HasRun(x)' <=> HasRun(x)) /\ run'[x] = run[x]
BY DEF Has, LastStep, HasRun

(* The call, the lookup and the capacity come before there is a row.         *)
LEMMA CallKeeps ==
  ASSUME AgentInv, NEW x \in Executions, Call(x)
  PROVE  AgentInv'
<1>1. exec[x] = Waiting /\ UNCHANGED <<agent, agentEdit, run, steps, capacity>>
  BY DEF Call
<1>2. /\ exec[x].pc = "idle" /\ exec[x].step = 0 /\ exec[x].seen = 0 /\ exec[x].told = "nothing"
      /\ Waiting \in ExecRecord
  <2>1. exec[x] \in ExecRecord
    BY DEF AgentInv, AgentTypeOK
  <2>2. /\ Waiting.pc = "idle" /\ Waiting.step = 0 /\ Waiting.seen = 0
        /\ Waiting.told = "nothing"
    BY DEF Waiting
  <2> QED BY <1>1, <2>1, <2>2
<1>3. agent \in AgentRow /\ capacity' \in Capacities
  BY <1>1 DEF AgentInv, AgentTypeOK, Capacities
<1>4. PICK k \in RunKeys \cup StepKeys, o \in Owners, g \in Goals :
        Set(x, IF agent.exists
               THEN [Waiting EXCEPT !.pc = "loaded", !.key = k, !.owner = o, !.goal = g,
                                    !.agent = agent]
               ELSE [Waiting EXCEPT !.pc = "done", !.told = "error"])
  BY DEF Call
<1>5. ~HasRun(x) /\ steps[x] = <<>>
  BY <1>2 DEF AgentInv, ExecutionOK, RowFollows, StandsWhereItWrote, Before
<1>6. PICK e \in ExecRecord :
        /\ Set(x, e)
        /\ e.pc \in {"loaded", "done"} /\ e.step = 0 /\ e.seen = 0
        /\ e.pc = "loaded" => e.key \in RunKeys \cup StepKeys /\ e.told = "nothing"
        /\ e.pc = "done" => e.told = "error"
        /\ e.from = exec[x].from /\ exec[x].told = "nothing"
  <2>1. CASE agent.exists
    <3> DEFINE e == [Waiting EXCEPT !.pc = "loaded", !.key = k, !.owner = o, !.goal = g,
                                    !.agent = agent]
    <3>1. e \in ExecRecord
      BY <1>2, <1>3 DEF ExecRecord, Places, Before
    <3>2. /\ e.pc = "loaded" /\ e.step = 0 /\ e.seen = 0 /\ e.key = k /\ e.told = "nothing"
          /\ e.from = exec[x].from /\ exec[x].told = "nothing"
      BY <1>1, <1>2 DEF Waiting
    <3>3. Set(x, e)
      BY <1>4, <2>1
    <3> HIDE DEF e
    <3> QED BY <3>1, <3>2, <3>3
  <2>2. CASE ~agent.exists
    <3> DEFINE e == [Waiting EXCEPT !.pc = "done", !.told = "error"]
    <3>1. e \in ExecRecord
      BY <1>2, <1>3 DEF ExecRecord, Places, Before
    <3>2. /\ e.pc = "done" /\ e.step = 0 /\ e.seen = 0 /\ e.told = "error"
          /\ e.from = exec[x].from /\ exec[x].told = "nothing"
      BY <1>1, <1>2 DEF Waiting
    <3>3. Set(x, e)
      BY <1>4, <2>2
    <3> HIDE DEF e
    <3> QED BY <3>1, <3>2, <3>3
  <2> QED BY <2>1, <2>2
<1>7. exec'[x] = e
  BY <1>6 DEF Set, AgentInv, AgentTypeOK
<1>8. StandsWhereItWrote(x)' /\ RowFollows(x)' /\ AnswerIsDrawn(x)'
  BY <1>1, <1>5, <1>6, <1>7, RowsStay
     DEF StandsWhereItWrote, RowFollows, AnswerIsDrawn, Before, Loop
<1> QED BY <1>1, <1>3, <1>6, <1>8, MovesKeeps

(* An execution's record, field by field.                                    *)
LEMMA ExecutionsStayTyped ==
  ASSUME NEW e \in ExecRecord
  PROVE  /\ \A pc \in Places : [e EXCEPT !.pc = pc] \in ExecRecord
         /\ \A pc \in Places, told \in {"nothing", "error", "limited", "conflict", "exists"} \cup Verdicts,
               y \in Executions \cup {"none"} :
              [e EXCEPT !.pc = pc, !.told = told, !.from = y] \in ExecRecord
         /\ \A pc \in Places, y \in Executions \cup {"none"} :
              [e EXCEPT !.pc = pc, !.slot = y] \in ExecRecord
         /\ \A pc \in Places, pending \in SUBSET Tools :
              [e EXCEPT !.pc = pc, !.pending = pending] \in ExecRecord
         /\ \A pc \in Places, status \in {"FAILED", "CANCELLED"} :
              [e EXCEPT !.pc = pc, !.error = status] \in ExecRecord
         /\ \A pc \in Places, decision \in {"final", "tool"} :
              [e EXCEPT !.pc = pc, !.decision = decision] \in ExecRecord
         /\ [e EXCEPT !.attempt = e.attempt + 1] \in ExecRecord
         /\ [e EXCEPT !.attempt = e.attempt + 1, !.repaired = TRUE] \in ExecRecord
         /\ [e EXCEPT !.seen = e.seen + 1] \in ExecRecord
         /\ \A n \in Nat : [e EXCEPT !.step = n] \in ExecRecord
<1>1. \A pc \in Places : [e EXCEPT !.pc = pc] \in ExecRecord
  BY DEF ExecRecord
<1>2. \A pc \in Places, told \in {"nothing", "error", "limited", "conflict", "exists"} \cup Verdicts,
        y \in Executions \cup {"none"} :
        [e EXCEPT !.pc = pc, !.told = told, !.from = y] \in ExecRecord
  BY DEF ExecRecord
<1>3. \A pc \in Places, y \in Executions \cup {"none"} :
        [e EXCEPT !.pc = pc, !.slot = y] \in ExecRecord
  BY DEF ExecRecord
<1>4. \A pc \in Places, pending \in SUBSET Tools :
        [e EXCEPT !.pc = pc, !.pending = pending] \in ExecRecord
  BY DEF ExecRecord
<1>5. \A pc \in Places, status \in {"FAILED", "CANCELLED"} :
        [e EXCEPT !.pc = pc, !.error = status] \in ExecRecord
  BY DEF ExecRecord
<1>6. \A pc \in Places, decision \in {"final", "tool"} :
        [e EXCEPT !.pc = pc, !.decision = decision] \in ExecRecord
  BY DEF ExecRecord
<1>7. [e EXCEPT !.attempt = e.attempt + 1] \in ExecRecord
  BY DEF ExecRecord
<1>8. [e EXCEPT !.attempt = e.attempt + 1, !.repaired = TRUE] \in ExecRecord
  <2>1. [[e EXCEPT !.attempt = e.attempt + 1] EXCEPT !.repaired = TRUE] \in ExecRecord
    BY <1>7 DEF ExecRecord
  <2> QED BY <2>1
<1>9. [e EXCEPT !.seen = e.seen + 1] \in ExecRecord
  BY DEF ExecRecord
<1>10. \A n \in Nat : [e EXCEPT !.step = n] \in ExecRecord
  BY DEF ExecRecord
<1> QED BY <1>1, <1>2, <1>3, <1>4, <1>5, <1>6, <1>7, <1>8, <1>9, <1>10

LEMMA PlacesAre ==
  \A pc \in {"idle", "loaded", "starting", "reserved", "admitted", "created", "grounding",
             "groundingTool", "charging", "asking", "decided", "toolCall", "tool", "final",
             "completing", "maxsteps", "catch", "failing", "leaving", "done"} : pc \in Places
BY DEF Places, Before, Loop

LEMMA ExecutionIsOK ==
  ASSUME AgentInv, NEW x \in Executions
  PROVE  /\ exec[x] \in ExecRecord /\ ExecutionOK(x) /\ capacity \in Capacities
         /\ exec[x].pc \notin {"idle", "done"} => exec[x].key \in RunKeys \cup StepKeys
         /\ \A e : Set(x, e) => exec'[x] = e
         /\ steps[x] \in Seq(StepRow) /\ run[x] \in {NoRun} \cup RunRow
BY DEF AgentInv, AgentTypeOK, Capacities, Set

(* Until it has a run, an execution only moves on ...                        *)
LEMMA EarlyMoveKeeps ==
  ASSUME AgentInv, NEW x \in Executions, NEW e \in ExecRecord, Set(x, e),
         UNCHANGED <<agent, agentEdit, run, steps>>, capacity' \in Capacities,
         exec[x].pc \in Before \ {"idle"}, e.pc \in Before \ {"idle"},
         e.key = exec[x].key, e.goal = exec[x].goal, e.told = exec[x].told,
         e.from = exec[x].from, e.step = exec[x].step, e.seen = exec[x].seen
  PROVE  AgentInv'
<1>1. exec'[x] = e /\ ExecutionOK(x) /\ e.key \in RunKeys \cup StepKeys
  BY ExecutionIsOK DEF Before
<1>2. StandsWhereItWrote(x)'
  BY <1>1, RowsStay DEF ExecutionOK, StandsWhereItWrote, Before
<1>3. RowFollows(x)'
  BY <1>1, RowsStay DEF ExecutionOK, RowFollows, Before, Loop
<1>4. AnswerIsDrawn(x)'
  BY <1>1, RowsStay DEF ExecutionOK, RowFollows, AnswerIsDrawn, Before
<1> QED BY <1>1, <1>2, <1>3, <1>4, MovesKeeps

(* ... and wherever it is, it may be over.                                   *)
LEMMA EndKeeps ==
  ASSUME AgentInv, NEW x \in Executions, NEW e \in ExecRecord, Set(x, e),
         UNCHANGED <<agent, agentEdit, run, steps>>, capacity' \in Capacities,
         exec[x].pc \notin {"idle", "done"}, e.pc \in {"leaving", "done"},
         e.key = exec[x].key, e.goal = exec[x].goal, e.agent = exec[x].agent,
         e.seen = exec[x].seen,
         e.told = "COMPLETED" =>
           \/ e.told = exec[x].told /\ e.from = exec[x].from
           \/ \E y \in Executions :
                /\ e.from = y
                /\ HasRun(y) /\ run[y].answer /\ run[y].goal = exec[x].goal
                /\ exec[x].key \in RunKeys => run[y].key = exec[x].key
  PROVE  AgentInv'
<1>1. exec'[x] = e /\ ExecutionOK(x) /\ e.key \in RunKeys \cup StepKeys
  BY ExecutionIsOK
<1>2. StandsWhereItWrote(x)'
  BY <1>1 DEF StandsWhereItWrote, Before
<1>3. RowFollows(x)'
  BY <1>1, RowsStay DEF ExecutionOK, RowFollows, Before, Loop
<1>4. AnswerIsDrawn(x)'
  BY <1>1, RowsStay DEF ExecutionOK, AnswerIsDrawn
<1> QED BY <1>1, <1>2, <1>3, <1>4, MovesKeeps

LEMMA ReleaseKeepsType ==
  ASSUME AgentInv, NEW x \in Executions, Release(x)
  PROVE  capacity' \in Capacities
<1>1. capacity \in Capacities /\ Free \in [owner : Owners \cup {"none"}, by : Executions \cup {"none"}]
  BY DEF AgentInv, AgentTypeOK, Capacities, Free
<1> QED BY <1>1 DEF Release, Capacities

LEMMA EarlyStepKeeps ==
  ASSUME AgentInv, NEW x \in Executions, Lookup(x) \/ Reserve(x) \/ ChargeRun(x)
  PROVE  AgentInv'
<1> DEFINE to(pc) == [exec[x] EXCEPT !.pc = pc]
           end(told) == [exec[x] EXCEPT !.pc = "done", !.told = told]
<1>1. /\ UNCHANGED <<agent, agentEdit, run, steps>>
      /\ exec[x].pc \in {"loaded", "starting", "reserved"}
      /\ exec[x] \in ExecRecord /\ capacity \in Capacities /\ exec[x].key \in RunKeys \cup StepKeys
  BY ExecutionIsOK DEF Lookup, Reserve, ChargeRun
<1>2. ASSUME NEW pc \in {"starting", "reserved", "admitted"}, To(x, pc), capacity' \in Capacities
      PROVE  AgentInv'
  <2>1. /\ to(pc) \in ExecRecord /\ Set(x, to(pc)) /\ to(pc).pc = pc
        /\ to(pc).key = exec[x].key /\ to(pc).goal = exec[x].goal /\ to(pc).told = exec[x].told
        /\ to(pc).from = exec[x].from /\ to(pc).step = exec[x].step /\ to(pc).seen = exec[x].seen
    BY <1>1, <1>2 DEF To, ExecRecord, Places, Before
  <2> QED BY <1>1, <1>2, <2>1, EarlyMoveKeeps DEF Before
<1>3. ASSUME NEW told \in {"error", "limited"}, End(x, told), capacity' \in Capacities
      PROVE  AgentInv'
  <2>1. /\ end(told) \in ExecRecord /\ Set(x, end(told)) /\ end(told).pc = "done"
        /\ end(told).key = exec[x].key /\ end(told).goal = exec[x].goal /\ end(told).told = told
        /\ end(told).agent = exec[x].agent /\ end(told).seen = exec[x].seen
    BY <1>1, <1>3 DEF End, ExecRecord, Places
  <2> QED BY <1>1, <1>3, <2>1, EndKeeps
<1>4. CASE Lookup(x)
  <2>1. ASSUME NEW y \in RunsOf(exec[x].key), exec[x].key \in RunKeys, AnswerFrom(x, y)
        PROVE  AgentInv'
    <3>1. y \in Executions /\ HasRun(y) /\ run[y].key = exec[x].key /\ run[y] \in RunRow
      BY <2>1, ExecutionIsOK, RunShapes DEF RunsOf, HasRun
    <3>2. PICK told \in {"conflict", "exists"} \cup Verdicts :
            /\ Set(x, [exec[x] EXCEPT !.pc = "done", !.told = told, !.from = y])
            /\ told = "COMPLETED" => run[y].goal = exec[x].goal /\ run[y].status = "COMPLETED"
      <4> DEFINE said == IF run[y].goal # exec[x].goal THEN "conflict"
                         ELSE IF run[y].status \in {"COMPLETED", "MAX_STEPS_REACHED"}
                              THEN run[y].status ELSE "exists"
      <4>1. Set(x, [exec[x] EXCEPT !.pc = "done", !.told = said, !.from = y])
        BY <2>1 DEF AnswerFrom
      <4>2. /\ said \in {"conflict", "exists"} \cup Verdicts
            /\ said = "COMPLETED" => run[y].goal = exec[x].goal /\ run[y].status = "COMPLETED"
        BY DEF Verdicts
      <4> HIDE DEF said
      <4> QED BY <4>1, <4>2
    <3> DEFINE e == [exec[x] EXCEPT !.pc = "done", !.told = told, !.from = y]
    <3>3. /\ e \in ExecRecord /\ Set(x, e) /\ e.pc = "done" /\ e.key = exec[x].key
          /\ e.goal = exec[x].goal /\ e.agent = exec[x].agent /\ e.seen = exec[x].seen
          /\ e.told = told /\ e.from = y
      <4>1. exec[x] \in ExecRecord /\ told \in {"conflict", "exists"} \cup Verdicts /\ y \in Executions
        BY <1>1, <3>1
      <4>2. Set(x, e)
        BY <3>2
      <4>3. e \in ExecRecord
        BY <4>1, PlacesAre, ExecutionsStayTyped
      <4>4. /\ e.pc = "done" /\ e.key = exec[x].key /\ e.told = told /\ e.from = y
            /\ e.goal = exec[x].goal /\ e.agent = exec[x].agent /\ e.seen = exec[x].seen
        BY <4>1 DEF ExecRecord
      <4> QED BY <4>2, <4>3, <4>4
    <3>4. told = "COMPLETED" => run[y].answer
      BY <3>1, <3>2, ExecutionIsOK DEF ExecutionOK, EndIsRecorded
    <3>5. capacity' \in Capacities
      BY <1>1, <1>4 DEF Lookup
    <3> HIDE DEF e
    <3> QED BY <1>1, <3>1, <3>2, <3>3, <3>4, <3>5, EndKeeps
  <2>2. capacity' \in Capacities
    BY <1>1, <1>4 DEF Lookup
  <2>3. \/ To(x, "starting") \/ End(x, "error")
        \/ exec[x].key \in RunKeys /\ \E y \in RunsOf(exec[x].key) : AnswerFrom(x, y)
    BY <1>4 DEF Lookup
  <2> QED BY <1>2, <1>3, <2>1, <2>2, <2>3
<1>5. CASE Reserve(x)
  <2> DEFINE k == exec[x].key
  <2>1. CASE End(x, "limited") /\ UNCHANGED capacity
    BY <1>1, <1>3, <2>1
  <2>2. ASSUME NEW by \in Executions \cup {"none"},
               Set(x, [exec[x] EXCEPT !.pc = "reserved", !.slot = by]), capacity' \in Capacities
        PROVE  AgentInv'
    <3> DEFINE e == [exec[x] EXCEPT !.pc = "reserved", !.slot = by]
    <3>1. /\ e \in ExecRecord /\ Set(x, e) /\ e.pc = "reserved"
          /\ e.key = exec[x].key /\ e.goal = exec[x].goal /\ e.told = exec[x].told
          /\ e.from = exec[x].from /\ e.step = exec[x].step /\ e.seen = exec[x].seen
      <4>1. exec[x] \in ExecRecord
        BY <1>1
      <4>2. Set(x, e)
        BY <2>2
      <4>3. e \in ExecRecord
        BY <4>1, PlacesAre, ExecutionsStayTyped
      <4>4. /\ e.pc = "reserved" /\ e.key = exec[x].key /\ e.goal = exec[x].goal
            /\ e.told = exec[x].told /\ e.from = exec[x].from /\ e.step = exec[x].step
            /\ e.seen = exec[x].seen
        BY <4>1 DEF ExecRecord
      <4> QED BY <4>2, <4>3, <4>4
    <3> HIDE DEF e
    <3> QED BY <1>1, <2>2, <3>1, EarlyMoveKeeps DEF Before
  <2>3. CASE /\ Set(x, [exec[x] EXCEPT !.pc = "reserved", !.slot = capacity[k].by])
             /\ UNCHANGED capacity
    <3>1. capacity[k].by \in Executions \cup {"none"}
      BY <1>1 DEF Capacities
    <3> QED BY <1>1, <2>2, <2>3, <3>1
  <2>4. CASE /\ capacity' = [capacity EXCEPT ![k] = [owner |-> exec[x].owner, by |-> x]]
             /\ Set(x, [exec[x] EXCEPT !.pc = "reserved", !.slot = x])
    <3>1. [owner |-> exec[x].owner, by |-> x] \in [owner : Owners \cup {"none"}, by : Executions \cup {"none"}]
      BY <1>1 DEF ExecRecord
    <3>2. capacity' \in Capacities
      BY <1>1, <2>4, <3>1 DEF Capacities
    <3> QED BY <2>2, <2>4, <3>2
  <2> QED BY <1>5, <2>1, <2>3, <2>4 DEF Reserve
<1>6. CASE ChargeRun(x)
  BY <1>1, <1>2, <1>3, <1>6, ReleaseKeepsType DEF ChargeRun
<1> QED BY <1>4, <1>5, <1>6

(* From a place of the loop, an error leads to the catch block.              *)
LEMMA ThrowKeeps ==
  ASSUME AgentInv, NEW x \in Executions, NEW status \in {"FAILED", "CANCELLED"}, Throw(x, status),
         UNCHANGED <<agent, agentEdit, run, steps, capacity>>,
         exec[x].pc \in Loop \ {"grounding"}
  PROVE  AgentInv'
<1> DEFINE e == [exec[x] EXCEPT !.pc = "catch", !.error = status]
<1>1. exec[x] \in ExecRecord /\ exec[x].key \in RunKeys \cup StepKeys /\ ExecutionOK(x)
  BY ExecutionIsOK DEF Loop
<1>2. /\ e.pc = "catch" /\ e.error = status /\ e.key = exec[x].key /\ e.goal = exec[x].goal
      /\ e.agent = exec[x].agent /\ e.told = exec[x].told /\ e.from = exec[x].from
      /\ e.step = exec[x].step /\ e.seen = exec[x].seen
  BY <1>1 DEF ExecRecord
<1>3. e \in ExecRecord /\ Set(x, e) /\ exec'[x] = e
  BY <1>1, PlacesAre, ExecutionsStayTyped, ExecutionIsOK DEF Throw
<1> HIDE DEF e
<1>4. steps[x] # <<>> => LastStep(x) \in StepRow
  BY ExecutionIsOK DEF LastStep
<1>5. exec[x].step \in Nat
  BY <1>1 DEF ExecRecord
<1>6. steps[x] # <<>> => LastStep(x).type # "ERROR" /\ LastStep(x).number <= exec[x].step
  BY <1>1, <1>4, <1>5
     DEF ExecutionOK, StandsWhereItWrote, AtStep, AfterResult, Loop, Before, StepRow
<1>7. StandsWhereItWrote(x)'
  BY <1>2, <1>3, <1>6, RowsStay DEF StandsWhereItWrote, Before
<1>8. RowFollows(x)'
  BY <1>1, <1>2, <1>3, RowsStay DEF ExecutionOK, RowFollows, Before, Loop
<1>9. AnswerIsDrawn(x)'
  BY <1>1, <1>2, <1>3, RowsStay DEF ExecutionOK, AnswerIsDrawn
<1>10. capacity' \in Capacities
  BY ExecutionIsOK
<1> QED BY <1>1, <1>2, <1>3, <1>7, <1>8, <1>9, <1>10, MovesKeeps

(* What the model returns, and the charge before it is asked.                *)
LEMMA AskingMoveKeeps ==
  ASSUME AgentInv, NEW x \in Executions, NEW e \in ExecRecord, Set(x, e),
         UNCHANGED <<agent, agentEdit, run, steps, capacity>>,
         exec[x].pc \in {"charging", "asking"}, e.pc \in {"asking", "decided"},
         e.key = exec[x].key, e.goal = exec[x].goal, e.agent = exec[x].agent,
         e.told = exec[x].told, e.from = exec[x].from,
         e.step = exec[x].step, e.seen = exec[x].seen,
         e.pc = "decided" /\ e.decision = "final" => MayConclude(x)
  PROVE  AgentInv'
<1>1. exec'[x] = e /\ ExecutionOK(x) /\ e.key \in RunKeys \cup StepKeys /\ capacity' \in Capacities
  BY ExecutionIsOK
<1>2. StandsWhereItWrote(x)'
  BY <1>1, RowsStay DEF ExecutionOK, StandsWhereItWrote, AfterResult, Before
<1>3. RowFollows(x)'
  BY <1>1, RowsStay DEF ExecutionOK, RowFollows, Before, Loop
<1>4. MayConclude(x)' <=> MayConclude(x)
  BY <1>1 DEF MayConclude
<1>5. AnswerIsDrawn(x)'
  BY <1>1, <1>4, RowsStay DEF ExecutionOK, AnswerIsDrawn
<1> QED BY <1>1, <1>2, <1>3, <1>5, MovesKeeps

LEMMA ChargeDecisionKeeps ==
  ASSUME AgentInv, NEW x \in Executions, ChargeDecision(x)
  PROVE  AgentInv'
<1>1. exec[x].pc = "charging" /\ UNCHANGED <<agent, agentEdit, run, steps, capacity>>
  BY DEF ChargeDecision
<1>2. CASE Throw(x, "FAILED")
  BY <1>1, <1>2, ThrowKeeps DEF Loop
<1>3. CASE To(x, "asking")
  <2> DEFINE e == [exec[x] EXCEPT !.pc = "asking"]
  <2>1. exec[x] \in ExecRecord
    BY ExecutionIsOK
  <2>2. /\ e.pc = "asking" /\ e.key = exec[x].key /\ e.goal = exec[x].goal
        /\ e.agent = exec[x].agent /\ e.told = exec[x].told /\ e.from = exec[x].from
        /\ e.step = exec[x].step /\ e.seen = exec[x].seen
    BY <2>1 DEF ExecRecord
  <2>3. e \in ExecRecord /\ Set(x, e)
    BY <1>3, <2>1, PlacesAre, ExecutionsStayTyped DEF To
  <2> HIDE DEF e
  <2> QED BY <1>1, <2>2, <2>3, AskingMoveKeeps
<1> QED BY <1>2, <1>3 DEF ChargeDecision

LEMMA AskKeeps ==
  ASSUME AgentInv, NEW x \in Executions,
         AskUnstructured(x) \/ AskUnusable(x) \/ AskFinal(x) \/ AskTool(x) \/ AskThrows(x)
  PROVE  AgentInv'
<1>1. exec[x].pc = "asking" /\ UNCHANGED <<agent, agentEdit, run, steps, capacity>>
  BY DEF AskUnstructured, AskUnusable, AskFinal, AskTool, AskThrows, Ask
<1>2. exec[x] \in ExecRecord
  BY ExecutionIsOK
<1>3. ASSUME NEW status \in {"FAILED", "CANCELLED"}, Throw(x, status)
      PROVE  AgentInv'
  BY <1>1, <1>3, ThrowKeeps DEF Loop
<1>4. CASE \/ Set(x, [exec[x] EXCEPT !.attempt = exec[x].attempt + 1])
           \/ Set(x, [exec[x] EXCEPT !.attempt = exec[x].attempt + 1, !.repaired = TRUE])
  <2>1. PICK e \in {[exec[x] EXCEPT !.attempt = exec[x].attempt + 1],
                    [exec[x] EXCEPT !.attempt = exec[x].attempt + 1, !.repaired = TRUE]} : Set(x, e)
    BY <1>4
  <2>2. /\ e.pc = exec[x].pc /\ e.key = exec[x].key /\ e.goal = exec[x].goal
        /\ e.agent = exec[x].agent /\ e.told = exec[x].told /\ e.from = exec[x].from
        /\ e.step = exec[x].step /\ e.seen = exec[x].seen
    BY <1>2 DEF ExecRecord
  <2>3. e \in ExecRecord
    BY <1>2, ExecutionsStayTyped
  <2> QED BY <1>1, <2>1, <2>2, <2>3, AskingMoveKeeps
<1>5. ASSUME NEW decision \in {"final", "tool"}, Decide(x, decision),
             decision = "final" => MayConclude(x)
      PROVE  AgentInv'
  <2> DEFINE e == [exec[x] EXCEPT !.pc = "decided", !.decision = decision]
  <2>1. /\ e.pc = "decided" /\ e.decision = decision /\ e.key = exec[x].key /\ e.goal = exec[x].goal
        /\ e.agent = exec[x].agent /\ e.told = exec[x].told /\ e.from = exec[x].from
        /\ e.step = exec[x].step /\ e.seen = exec[x].seen
    BY <1>2 DEF ExecRecord
  <2>2. e \in ExecRecord /\ Set(x, e)
    BY <1>2, <1>5, PlacesAre, ExecutionsStayTyped DEF Decide
  <2> HIDE DEF e
  <2> QED BY <1>1, <1>5, <2>1, <2>2, AskingMoveKeeps
<1>6. CASE AskUnstructured(x)
  BY <1>3, <1>4, <1>6 DEF AskUnstructured, Ask
<1>7. CASE AskUnusable(x)
  BY <1>3, <1>4, <1>7 DEF AskUnusable, Ask, Retry
<1>8. CASE AskFinal(x)
  BY <1>5, <1>8 DEF AskFinal, Ask
<1>9. CASE AskTool(x)
  BY <1>5, <1>9 DEF AskTool, Ask
<1>10. CASE AskThrows(x)
  BY <1>3, <1>10 DEF AskThrows, Ask
<1> QED BY <1>6, <1>7, <1>8, <1>9, <1>10

LEMMA StepFailsKeeps ==
  ASSUME AgentInv, NEW x \in Executions, StepFails(x)
  PROVE  AgentInv'
BY ThrowKeeps DEF StepFails, Loop

(* The ways out.                                                             *)
LEMMA LeaveKeeps ==
  ASSUME AgentInv, NEW x \in Executions, FailureIsLost(x) \/ Leave(x) \/ CrashRun(x)
  PROVE  AgentInv'
<1>1. exec[x].pc \notin {"idle", "done"} /\ UNCHANGED <<agent, agentEdit, run, steps>>
  BY DEF FailureIsLost, Leave, CrashRun
<1>2. exec[x] \in ExecRecord /\ capacity' \in Capacities
  BY ExecutionIsOK, ReleaseKeepsType DEF FailureIsLost, Leave, CrashRun
<1>3. PICK e \in ExecRecord :
        /\ Set(x, e) /\ e.pc \in {"leaving", "done"} /\ e.key = exec[x].key
        /\ e.goal = exec[x].goal /\ e.agent = exec[x].agent /\ e.seen = exec[x].seen
        /\ e.told = "COMPLETED" => e.told = exec[x].told /\ e.from = exec[x].from
  <2>1. CASE FailureIsLost(x)
    <3> DEFINE e == [exec[x] EXCEPT !.pc = "leaving", !.told = "error", !.from = x]
    <3>1. /\ e.pc = "leaving" /\ e.told = "error" /\ e.key = exec[x].key
          /\ e.goal = exec[x].goal /\ e.agent = exec[x].agent /\ e.seen = exec[x].seen
      BY <1>2 DEF ExecRecord
    <3>2. e \in ExecRecord /\ Set(x, e)
      BY <1>2, <2>1, PlacesAre, ExecutionsStayTyped DEF FailureIsLost, Leaving
    <3> HIDE DEF e
    <3> QED BY <3>1, <3>2
  <2>2. CASE Leave(x)
    <3> DEFINE e == [exec[x] EXCEPT !.pc = "done"]
    <3>1. /\ e.pc = "done" /\ e.told = exec[x].told /\ e.from = exec[x].from /\ e.key = exec[x].key
          /\ e.goal = exec[x].goal /\ e.agent = exec[x].agent /\ e.seen = exec[x].seen
      BY <1>2 DEF ExecRecord
    <3>2. e \in ExecRecord /\ Set(x, e)
      BY <1>2, <2>2, PlacesAre, ExecutionsStayTyped DEF Leave, To
    <3> HIDE DEF e
    <3> QED BY <3>1, <3>2
  <2>3. CASE CrashRun(x)
    <3> DEFINE e == [exec[x] EXCEPT !.pc = "done", !.told = "nothing"]
    <3>1. /\ e.pc = "done" /\ e.told = "nothing" /\ e.key = exec[x].key
          /\ e.goal = exec[x].goal /\ e.agent = exec[x].agent /\ e.seen = exec[x].seen
      BY <1>2 DEF ExecRecord
    <3>2. Set(x, e)
      BY <2>3 DEF CrashRun
    <3>3. [exec[x] EXCEPT !.pc = "done"] \in ExecRecord
      BY <1>2, PlacesAre, ExecutionsStayTyped
    <3>4. [[exec[x] EXCEPT !.pc = "done"] EXCEPT !.told = "nothing"] \in ExecRecord
      BY <3>3 DEF ExecRecord
    <3>5. e \in ExecRecord
      BY <3>4
    <3> HIDE DEF e
    <3> QED BY <3>1, <3>2, <3>5
  <2> QED BY <2>1, <2>2, <2>3
<1> QED BY <1>1, <1>2, <1>3, EndKeeps

-------------------------------------------------------------------------------
(* A step that writes the row of the run.                                    *)
LEMMA WritesRunKeeps ==
  ASSUME AgentInv, NEW x \in Executions, NEW e \in ExecRecord, Set(x, e),
         NEW row \in RunRow, run' = [run EXCEPT ![x] = row],
         UNCHANGED <<agent, agentEdit, steps>>, capacity' \in Capacities,
         e.pc \notin {"idle", "done"} => e.key \in RunKeys \cup StepKeys,
         e.key = exec[x].key, e.goal = exec[x].goal,
         HasRun(x) => row.key = run[x].key /\ row.goal = run[x].goal /\ (run[x].answer => row.answer),
         ~HasRun(x) /\ row.key \in RunKeys => RunsOf(row.key) = {},
         e.told = "COMPLETED" =>
           (e.told = exec[x].told /\ e.from = exec[x].from)
             \/ (e.from = x /\ row.answer /\ row.goal = exec[x].goal
                   /\ (exec[x].key \in RunKeys => row.key = exec[x].key)),
         StandsWhereItWrote(x)', RowFollows(x)', EndIsRecorded(x)', AnswerIsDrawn(x)'
  PROVE  AgentInv'
<1> USE DEF AgentInv
<1>1. exec' = [exec EXCEPT ![x] = e] /\ exec'[x] = e
  BY DEF Set, AgentTypeOK
<1>2. run' = [run EXCEPT ![x] = run'[x]] /\ run'[x] = row
  BY DEF AgentTypeOK
<1>3. HasRun(x)'
  BY <1>2, RunShapes DEF HasRun
<1>4. steps' = [steps EXCEPT ![x] = steps'[x]] /\ steps'[x] \in Seq(StepRow)
  BY DEF AgentTypeOK
<1>5. Advances(x)
  BY <1>1, <1>2, <1>3, <1>4 DEF Advances, Capacities
<1>6. ExecutionOK(x)'
  BY DEF ExecutionOK, ReadsAsAccount
<1> QED BY <1>1, <1>2, <1>3, <1>5, <1>6, AdvancesKeeps

LEMMA NewRunIsARow ==
  ASSUME AgentInv, NEW x \in Executions, exec[x].pc = "admitted"
  PROVE  /\ NewRun(x) \in RunRow /\ ~HasRun(x) /\ steps[x] = <<>>
         /\ NewRun(x).goal = exec[x].goal /\ NewRun(x).status = "RUNNING" /\ ~NewRun(x).answer
         /\ NewRun(x).key = IF exec[x].key \in RunKeys THEN exec[x].key ELSE "none"
         /\ ~IsTaken(x) /\ NewRun(x).key \in RunKeys => RunsOf(NewRun(x).key) = {}
<1>1. exec[x] \in ExecRecord /\ ExecutionOK(x)
  BY ExecutionIsOK
<1>2. NewRun(x) \in RunRow
  BY <1>1 DEF NewRun, RunRow, ExecRecord
<1>3. ~HasRun(x) /\ steps[x] = <<>>
  BY <1>1 DEF ExecutionOK, RowFollows, StandsWhereItWrote, Before
<1>4. ~IsTaken(x) /\ NewRun(x).key \in RunKeys => RunsOf(NewRun(x).key) = {}
  BY AgentsAssumption DEF NewRun, IsTaken
<1> QED BY <1>2, <1>3, <1>4 DEF NewRun

(* The row is inserted; nothing has been written under it.                   *)
LEMMA InsertKeeps ==
  ASSUME AgentInv, NEW x \in Executions, NEW e \in ExecRecord, Set(x, e),
         exec[x].pc = "admitted", ~IsTaken(x), run' = [run EXCEPT ![x] = NewRun(x)],
         UNCHANGED <<agent, agentEdit, steps>>, capacity' \in Capacities,
         e.pc \in {"created", "done"}, e.key = exec[x].key, e.goal = exec[x].goal,
         e.step = exec[x].step, e.seen = exec[x].seen, e.told # "COMPLETED" \/
           (e.told = exec[x].told /\ e.from = exec[x].from)
  PROVE  AgentInv'
<1>1. ExecutionOK(x) /\ exec'[x] = e /\ exec[x].key \in RunKeys \cup StepKeys
  BY ExecutionIsOK
<1>2. run'[x] = NewRun(x) /\ HasRun(x)'
  BY NewRunIsARow, RunShapes DEF AgentInv, AgentTypeOK, HasRun
<1>3. \A t : ~Has(x, t)'
  BY NewRunIsARow DEF Has
<1>4. StandsWhereItWrote(x)'
  BY <1>1, NewRunIsARow DEF ExecutionOK, StandsWhereItWrote, Before
<1>5. RowFollows(x)'
  BY <1>1, <1>2, <1>3, NewRunIsARow DEF RowFollows, Before, Loop
<1>6. EndIsRecorded(x)'
  BY <1>2, NewRunIsARow DEF EndIsRecorded
<1>7. ~Has(x, "TOOL_RESULT")
  BY NewRunIsARow DEF Has
<1>8. ~(exec[x].seen > 0)
  BY <1>1, <1>7 DEF ExecutionOK, AnswerIsDrawn
<1>9. AnswerIsDrawn(x)'
  BY <1>1, <1>2, <1>8, NewRunIsARow DEF AnswerIsDrawn
<1> QED BY <1>1, <1>4, <1>5, <1>6, <1>9, NewRunIsARow, WritesRunKeeps

LEMMA InsertStepKeeps ==
  ASSUME AgentInv, NEW x \in Executions, InsertRun(x) \/ InsertFails(x)
  PROVE  AgentInv'
<1>1. exec[x].pc = "admitted" /\ UNCHANGED <<agent, agentEdit, steps>>
  BY DEF InsertRun, InsertFails
<1>2. exec[x] \in ExecRecord /\ capacity' \in Capacities
  BY ExecutionIsOK, ReleaseKeepsType DEF InsertRun, InsertFails
<1>3. CASE InsertRun(x)
  <2> DEFINE e == [exec[x] EXCEPT !.pc = "created"]
  <2>1. /\ e.pc = "created" /\ e.told = exec[x].told /\ e.from = exec[x].from
        /\ e.key = exec[x].key /\ e.goal = exec[x].goal /\ e.step = exec[x].step
        /\ e.seen = exec[x].seen
    BY <1>2 DEF ExecRecord
  <2>2. e \in ExecRecord /\ Set(x, e) /\ ~IsTaken(x) /\ run' = [run EXCEPT ![x] = NewRun(x)]
    BY <1>2, <1>3, PlacesAre, ExecutionsStayTyped DEF InsertRun, To
  <2> HIDE DEF e
  <2> QED BY <1>1, <1>2, <2>1, <2>2, InsertKeeps
<1>4. CASE InsertFails(x)
  <2> DEFINE e == [exec[x] EXCEPT !.pc = "done", !.told = "error"]
  <2>1. /\ e.pc = "done" /\ e.told = "error" /\ e.key = exec[x].key /\ e.goal = exec[x].goal
        /\ e.agent = exec[x].agent /\ e.step = exec[x].step /\ e.seen = exec[x].seen
    BY <1>2 DEF ExecRecord
  <2>2. Set(x, e)
    BY <1>4 DEF InsertFails, End
  <2>3. e \in ExecRecord
    <3>1. [exec[x] EXCEPT !.pc = "done"] \in ExecRecord
      BY <1>2, PlacesAre, ExecutionsStayTyped
    <3>2. [[exec[x] EXCEPT !.pc = "done"] EXCEPT !.told = "error"] \in ExecRecord
      BY <3>1 DEF ExecRecord
    <3> QED BY <3>2
  <2> HIDE DEF e
  <2>4. CASE IsTaken(x)
    <3>1. UNCHANGED <<agent, agentEdit, run, steps>>
      BY <1>1, <1>4, <2>4 DEF InsertFails
    <3> QED BY <1>1, <1>2, <2>1, <2>2, <2>3, <3>1, EndKeeps
  <2>5. CASE ~IsTaken(x)
    <3>1. run' = [run EXCEPT ![x] = NewRun(x)]
      BY <1>4, <2>5 DEF InsertFails
    <3> QED BY <1>1, <1>2, <2>1, <2>2, <2>3, <2>5, <3>1, InsertKeeps
  <2> QED BY <2>4, <2>5
<1> QED BY <1>3, <1>4

-------------------------------------------------------------------------------
(* A step that writes a row of the transcript.                               *)
LEMMA RecordKeeps ==
  ASSUME AgentInv, NEW x \in Executions, NEW e \in ExecRecord, Set(x, e), NEW type, NEW n,
         [type |-> type, number |-> n] \in StepRow, Record(x, type, n),
         MayFollow(steps[x], [type |-> type, number |-> n]),
         UNCHANGED <<agent, agentEdit, run, capacity>>,
         e.pc \notin {"idle", "done"}, exec[x].pc \notin {"idle", "done"},
         e.key = exec[x].key, e.goal = exec[x].goal, e.told = exec[x].told, e.from = exec[x].from,
         type = "FINAL_RESPONSE" => run[x].status # "MAX_STEPS_REACHED",
         StandsWhereItWrote(x)', RowFollows(x)', AnswerIsDrawn(x)'
  PROVE  AgentInv'
<1> DEFINE row == [type |-> type, number |-> n]
<1>1. AgentTypeOK /\ ExecutionOK(x) /\ exec[x].key \in RunKeys \cup StepKeys
  BY ExecutionIsOK DEF AgentInv
<1>2. exec' = [exec EXCEPT ![x] = e] /\ exec'[x] = e
  BY <1>1 DEF Set, AgentTypeOK
<1>3. run' = [run EXCEPT ![x] = run'[x]] /\ run'[x] = run[x] /\ run[x] \in {NoRun} \cup RunRow
  BY <1>1 DEF AgentTypeOK
<1>4. /\ steps'[x] = Append(steps[x], row) /\ steps'[x] \in Seq(StepRow)
      /\ \A t : Has(x, t)' <=> Has(x, t) \/ t = type
  BY <1>1, RecordsOneRow
<1>5. steps' = [steps EXCEPT ![x] = steps'[x]]
  BY <1>1, <1>4 DEF Record, AgentTypeOK
<1>6. capacity' \in Capacities
  BY ExecutionIsOK
<1>7. Advances(x)
  BY <1>1, <1>2, <1>3, <1>4, <1>5, <1>6 DEF Advances, HasRun, Capacities
<1>8. ReadsAsAccount(steps[x])'
  <2>1. ReadsAsAccount(Append(steps[x], row))
    BY <1>1, AppendsReadOn, ExecutionIsOK DEF ExecutionOK
  <2> QED BY <1>4, <2>1 DEF ReadsAsAccount
<1>9. EndIsRecorded(x)'
  BY <1>1, <1>3, <1>4 DEF ExecutionOK, EndIsRecorded
<1>10. ExecutionOK(x)'
  BY <1>8, <1>9 DEF ExecutionOK
<1> QED BY <1>2, <1>7, <1>10, AdvancesKeeps

(* The tools that ground a run, and the head of its loop.                    *)
LEMMA EnterKeeps ==
  ASSUME AgentInv, NEW x \in Executions, Enter(x)
  PROVE  AgentInv'
<1>1. exec[x].pc = "created" /\ UNCHANGED <<agent, agentEdit, run, steps, capacity>>
  BY DEF Enter
<1>2. /\ exec[x] \in ExecRecord /\ ExecutionOK(x) /\ capacity' \in Capacities
      /\ exec[x].key \in RunKeys \cup StepKeys
  BY <1>1, ExecutionIsOK
<1>3. CASE Throw(x, "FAILED")
  BY <1>1, <1>3, ThrowKeeps DEF Loop
<1>4. CASE Set(x, [exec[x] EXCEPT !.pc = "grounding", !.pending = exec[x].agent.tools])
  <2> DEFINE e == [exec[x] EXCEPT !.pc = "grounding", !.pending = exec[x].agent.tools]
  <2>1. /\ e.pc = "grounding" /\ e.key = exec[x].key /\ e.goal = exec[x].goal
        /\ e.agent = exec[x].agent /\ e.told = exec[x].told /\ e.from = exec[x].from
        /\ e.step = exec[x].step /\ e.seen = exec[x].seen
    BY <1>2 DEF ExecRecord
  <2>2. exec[x].agent.tools \in SUBSET Tools
    BY <1>2 DEF ExecRecord, AgentRow
  <2>3. e \in ExecRecord /\ Set(x, e) /\ exec'[x] = e
    BY <1>2, <1>4, <2>2, PlacesAre, ExecutionsStayTyped, ExecutionIsOK
  <2> HIDE DEF e
  <2>4. StandsWhereItWrote(x)'
    BY <1>1, <1>2, <2>1, <2>3, RowsStay, AgentsAssumption
       DEF ExecutionOK, StandsWhereItWrote, AfterResult, Before
  <2>5. RowFollows(x)'
    BY <1>1, <1>2, <2>1, <2>3, RowsStay DEF ExecutionOK, RowFollows, Before, Loop
  <2>6. AnswerIsDrawn(x)'
    BY <1>1, <1>2, <2>1, <2>3, RowsStay DEF ExecutionOK, AnswerIsDrawn
  <2> QED BY <1>1, <1>2, <2>1, <2>3, <2>4, <2>5, <2>6, MovesKeeps
<1> QED BY <1>3, <1>4 DEF Enter

(* What NextStep makes of a record.                                          *)
LEMMA NextStepIs ==
  ASSUME NEW e \in ExecRecord
  PROVE  /\ NextStep(e) \in ExecRecord /\ NextStep(e).step = e.step + 1
         /\ e.step + 1 <= MaxSteps => NextStep(e).pc = "charging"
         /\ ~(e.step + 1 <= MaxSteps) => NextStep(e).pc = "maxsteps"
         /\ NextStep(e).key = e.key /\ NextStep(e).goal = e.goal /\ NextStep(e).agent = e.agent
         /\ NextStep(e).told = e.told /\ NextStep(e).from = e.from /\ NextStep(e).seen = e.seen
<1> DEFINE pc == IF e.step + 1 <= MaxSteps THEN "charging" ELSE "maxsteps"
<1>1. pc \in Places
  BY PlacesAre
<1>2. [e EXCEPT !.step = e.step + 1] \in ExecRecord
  BY DEF ExecRecord
<1>3. [[e EXCEPT !.step = e.step + 1] EXCEPT !.attempt = 0] \in ExecRecord
  BY <1>2 DEF ExecRecord
<1>4. [[[e EXCEPT !.step = e.step + 1] EXCEPT !.attempt = 0] EXCEPT !.repaired = FALSE] \in ExecRecord
  BY <1>3 DEF ExecRecord
<1>5. [[[[e EXCEPT !.step = e.step + 1] EXCEPT !.attempt = 0] EXCEPT !.repaired = FALSE]
         EXCEPT !.pc = pc] \in ExecRecord
  BY <1>1, <1>4, ExecutionsStayTyped
<1>6. NextStep(e) \in ExecRecord
  BY <1>5 DEF NextStep
<1> HIDE DEF pc
<1>7. /\ NextStep(e).step = e.step + 1
      /\ NextStep(e).key = e.key /\ NextStep(e).goal = e.goal /\ NextStep(e).agent = e.agent
      /\ NextStep(e).told = e.told /\ NextStep(e).from = e.from /\ NextStep(e).seen = e.seen
  BY DEF NextStep, ExecRecord
<1>8. NextStep(e).pc = pc
  BY DEF NextStep, ExecRecord, pc
<1> QED BY <1>6, <1>7, <1>8 DEF pc

LEMMA GroundingCallKeeps ==
  ASSUME AgentInv, NEW x \in Executions, GroundingCall(x)
  PROVE  AgentInv'
<1>1. exec[x].pc = "grounding" /\ UNCHANGED <<agent, agentEdit, run, capacity>>
  BY DEF GroundingCall
<1>2. /\ exec[x] \in ExecRecord /\ ExecutionOK(x) /\ capacity' \in Capacities
      /\ exec[x].key \in RunKeys \cup StepKeys /\ steps[x] \in Seq(StepRow)
  BY <1>1, ExecutionIsOK
<1>3. exec[x].step \in Nat /\ exec[x].step <= MaxSteps /\ AfterResult(x, exec[x].step)
  BY <1>1, <1>2 DEF ExecRecord, ExecutionOK, StandsWhereItWrote
<1>4. steps[x] # <<>> => LastStep(x) \in StepRow
  BY <1>2 DEF LastStep
<1>5. CASE Set(x, NextStep(exec[x])) /\ UNCHANGED steps
  <2> DEFINE e == NextStep(exec[x])
  <2>1. /\ e \in ExecRecord /\ e.step = exec[x].step + 1 /\ e.pc \in {"charging", "maxsteps"}
        /\ e.pc = "charging" => e.step <= MaxSteps
        /\ e.key = exec[x].key /\ e.goal = exec[x].goal /\ e.agent = exec[x].agent
        /\ e.told = exec[x].told /\ e.from = exec[x].from /\ e.seen = exec[x].seen
    BY <1>2, NextStepIs
  <2>2. exec'[x] = e
    BY <1>5, ExecutionIsOK
  <2> HIDE DEF e
  <2>3. e.step - 1 = exec[x].step
    BY <1>3, <2>1
  <2>4. StandsWhereItWrote(x)'
    BY <1>1, <1>3, <1>5, <2>1, <2>2, <2>3, RowsStay DEF StandsWhereItWrote, AfterResult, Before
  <2>5. RowFollows(x)'
    BY <1>1, <1>2, <1>5, <2>1, <2>2, RowsStay DEF ExecutionOK, RowFollows, Before, Loop
  <2>6. AnswerIsDrawn(x)'
    BY <1>1, <1>2, <1>5, <2>1, <2>2, RowsStay DEF ExecutionOK, AnswerIsDrawn
  <2>7. Set(x, e)
    BY <1>5 DEF e
  <2> QED BY <1>1, <1>2, <1>5, <2>1, <2>4, <2>5, <2>6, <2>7, MovesKeeps
<1>6. ASSUME NEW t \in exec[x].pending, exec[x].step < MaxSteps,
             Set(x, [exec[x] EXCEPT !.pc = "groundingTool", !.step = exec[x].step + 1,
                                    !.pending = exec[x].pending \ {t}]),
             Record(x, "TOOL_CALL", exec[x].step + 1)
      PROVE  AgentInv'
  <2> DEFINE e == [exec[x] EXCEPT !.pc = "groundingTool", !.step = exec[x].step + 1,
                                  !.pending = exec[x].pending \ {t}]
             row == [type |-> "TOOL_CALL", number |-> exec[x].step + 1]
  <2>1. /\ e.pc = "groundingTool" /\ e.step = exec[x].step + 1
        /\ e.key = exec[x].key /\ e.goal = exec[x].goal /\ e.agent = exec[x].agent
        /\ e.told = exec[x].told /\ e.from = exec[x].from /\ e.seen = exec[x].seen
    BY <1>2 DEF ExecRecord
  <2>2. e \in ExecRecord
    <3>1. [exec[x] EXCEPT !.pc = "groundingTool"] \in ExecRecord
      BY <1>2, PlacesAre, ExecutionsStayTyped
    <3>2. [[exec[x] EXCEPT !.pc = "groundingTool"] EXCEPT !.step = exec[x].step + 1] \in ExecRecord
      <4>1. exec[x].step + 1 \in Nat
        BY <1>3
      <4> DEFINE r == [exec[x] EXCEPT !.pc = "groundingTool"]
      <4>2. r \in ExecRecord
        BY <3>1
      <4> HIDE DEF r
      <4>3. [r EXCEPT !.step = exec[x].step + 1] \in ExecRecord
        BY <4>1, <4>2, ExecutionsStayTyped
      <4> QED BY <4>3 DEF r
    <3>3. exec[x].pending \ {t} \in SUBSET Tools
      BY <1>2 DEF ExecRecord
    <3>4. [[[exec[x] EXCEPT !.pc = "groundingTool"] EXCEPT !.step = exec[x].step + 1]
             EXCEPT !.pending = exec[x].pending \ {t}] \in ExecRecord
      BY <3>2, <3>3 DEF ExecRecord
    <3> QED BY <3>4
  <2>3. Set(x, e) /\ exec'[x] = e
    BY <1>6, ExecutionIsOK
  <2> HIDE DEF e
  <2>4. row \in StepRow /\ Record(x, "TOOL_CALL", exec[x].step + 1)
    BY <1>3, <1>6 DEF StepRow
  <2>5. /\ steps'[x] # <<>> /\ LastStep(x)' = row
        /\ \A u : Has(x, u)' <=> Has(x, u) \/ u = "TOOL_CALL"
    BY <2>4, RecordsOneRow DEF AgentInv
  <2>6. MayFollow(steps[x], row)
    <3>1. row.type = "TOOL_CALL" /\ row.number = exec[x].step + 1 /\ row.number <= MaxSteps
      BY <1>3, <1>6, AgentsAssumption
    <3> HIDE DEF row
    <3> QED BY <1>3, <1>4, <3>1, AgentsAssumption DEF MayFollow, AfterResult, LastStep, StepRow
  <2>7. StandsWhereItWrote(x)'
    BY <1>3, <1>6, <2>1, <2>3, <2>5, AgentsAssumption DEF StandsWhereItWrote, AtStep, Before
  <2>8. run'[x] = run[x] /\ (HasRun(x)' <=> HasRun(x))
    BY <1>1 DEF HasRun
  <2>9. RowFollows(x)'
    BY <1>1, <1>2, <2>1, <2>3, <2>5, <2>8 DEF ExecutionOK, RowFollows, Before, Loop
  <2>10. AnswerIsDrawn(x)'
    BY <1>1, <1>2, <2>1, <2>3, <2>5, <2>8 DEF ExecutionOK, AnswerIsDrawn
  <2> QED BY <1>1, <2>1, <2>2, <2>3, <2>4, <2>6, <2>7, <2>9, <2>10, RecordKeeps
<1> QED BY <1>5, <1>6 DEF GroundingCall

(* What an execution in its loop writes next, and where it goes.             *)
Writes(x, type, e) ==
  \/ exec[x].pc = "groundingTool" /\ type = "TOOL_RESULT" /\ e.pc = "grounding"
       /\ e.seen = exec[x].seen + 1
  \/ exec[x].pc = "decided" /\ type = "MODEL_DECISION" /\ e.pc \in {"final", "toolCall"}
       /\ e.seen = exec[x].seen /\ (e.pc = "final" => exec[x].decision = "final")
  \/ exec[x].pc = "final" /\ type = "FINAL_RESPONSE" /\ e.pc = "completing"
       /\ e.seen = exec[x].seen
  \/ exec[x].pc = "toolCall" /\ type = "TOOL_CALL" /\ e.pc = "tool"
       /\ e.seen = exec[x].seen

LEMMA WritesKeeps ==
  ASSUME AgentInv, NEW x \in Executions, NEW e \in ExecRecord, Set(x, e), NEW type,
         Writes(x, type, e), Record(x, type, exec[x].step),
         UNCHANGED <<agent, agentEdit, run, capacity>>,
         e.key = exec[x].key, e.goal = exec[x].goal, e.agent = exec[x].agent,
         e.told = exec[x].told, e.from = exec[x].from, e.step = exec[x].step
  PROVE  AgentInv'
<1> DEFINE row == [type |-> type, number |-> exec[x].step]
<1>1. /\ exec[x] \in ExecRecord /\ ExecutionOK(x) /\ exec'[x] = e /\ steps[x] \in Seq(StepRow)
      /\ AgentTypeOK
  BY ExecutionIsOK DEF AgentInv
<1>2. exec[x].pc \in Loop /\ e.pc \in Loop /\ exec[x].step \in Nat /\ exec[x].step <= MaxSteps
  BY <1>1 DEF Writes, Loop, ExecRecord, ExecutionOK, StandsWhereItWrote, AtStep
<1>3. row \in StepRow /\ row.type = type /\ row.number = exec[x].step
  BY <1>2 DEF Writes, StepRow
<1>4. /\ steps'[x] # <<>> /\ LastStep(x)' = row
      /\ \A t : Has(x, t)' <=> Has(x, t) \/ t = type
  BY <1>1, <1>3, RecordsOneRow
<1>5. steps[x] # <<>> => LastStep(x) \in StepRow
  BY <1>1 DEF LastStep
<1>6. run'[x] = run[x] /\ (HasRun(x)' <=> HasRun(x)) /\ run[x].status = "RUNNING"
  BY <1>1, <1>2 DEF HasRun, ExecutionOK, RowFollows
<1>7. MayFollow(steps[x], row)
  <2>1. StandsWhereItWrote(x)
    BY <1>1 DEF ExecutionOK
  <2>2. CASE exec[x].pc \in {"groundingTool", "final", "toolCall"}
    <3>1. LastStep(x).number = exec[x].step /\ LastStep(x).type \in {"TOOL_CALL", "MODEL_DECISION"}
      BY <2>1, <2>2 DEF StandsWhereItWrote, AtStep
    <3>2. type = "TOOL_RESULT" => LastStep(x) = [type |-> "TOOL_CALL", number |-> exec[x].step]
      BY <2>1, <2>2 DEF StandsWhereItWrote, AtStep, Writes
    <3>3. type # "MODEL_DECISION"
      BY <2>2 DEF Writes
    <3> HIDE DEF row
    <3> QED BY <1>2, <1>3, <3>1, <3>2, <3>3, AgentsAssumption DEF MayFollow, LastStep
  <2>3. CASE exec[x].pc = "decided"
    <3>1. /\ type = "MODEL_DECISION"
          /\ steps[x] # <<>> => LastStep(x).type = "TOOL_RESULT" /\ LastStep(x).number <= exec[x].step - 1
      BY <2>1, <2>3 DEF StandsWhereItWrote, AfterResult, Writes
    <3>2. steps[x] # <<>> => LastStep(x).number \in Nat
      BY <1>5 DEF StepRow
    <3> HIDE DEF row
    <3> QED BY <1>2, <1>3, <3>1, <3>2, AgentsAssumption DEF MayFollow, LastStep
  <2> QED BY <2>2, <2>3 DEF Writes
<1> HIDE DEF row
<1>8. StandsWhereItWrote(x)'
  <2>1. CASE e.pc = "grounding"
    BY <1>1, <1>2, <1>3, <1>4, <2>1 DEF Writes, StandsWhereItWrote, AfterResult, Before
  <2>2. CASE e.pc # "grounding"
    <3>1. LastStep(x)' = [type |-> type, number |-> exec[x].step]
      BY <1>4 DEF row
    <3> QED BY <1>1, <1>2, <1>4, <2>2, <3>1 DEF Writes, StandsWhereItWrote, AtStep, Before
  <2> QED BY <2>1, <2>2
<1>9. RowFollows(x)'
  BY <1>1, <1>2, <1>4, <1>6 DEF Writes, ExecutionOK, RowFollows, Before, Loop
<1>10. MayConclude(x) => MayConclude(x)'
  BY <1>1 DEF Writes, MayConclude, ExecRecord
<1>11. AnswerIsDrawn(x)'
  BY <1>1, <1>4, <1>6, <1>10 DEF Writes, ExecutionOK, AnswerIsDrawn
<1>12. type = "FINAL_RESPONSE" => run[x].status # "MAX_STEPS_REACHED"
  BY <1>6
<1>13. e.pc \notin {"idle", "done"} /\ exec[x].pc \notin {"idle", "done"}
  BY <1>2 DEF Loop
<1> QED BY <1>3, <1>7, <1>8, <1>9, <1>11, <1>12, <1>13, RecordKeeps DEF row

LEMMA LoopRecordsKeep ==
  ASSUME AgentInv, NEW x \in Executions,
         GroundingResult(x) \/ RecordDecision(x) \/ RecordFinal(x) \/ CallTool(x)
  PROVE  AgentInv'
<1>1. exec[x] \in ExecRecord
  BY ExecutionIsOK
<1>2. CASE GroundingResult(x)
  <2> DEFINE e == [exec[x] EXCEPT !.pc = "grounding", !.seen = exec[x].seen + 1]
  <2>1. /\ e.pc = "grounding" /\ e.seen = exec[x].seen + 1 /\ e.key = exec[x].key
        /\ e.goal = exec[x].goal /\ e.agent = exec[x].agent /\ e.told = exec[x].told
        /\ e.from = exec[x].from /\ e.step = exec[x].step
    BY <1>1 DEF ExecRecord
  <2>2. Set(x, e)
    BY <1>2 DEF GroundingResult
  <2>3. e \in ExecRecord
    <3>1. [exec[x] EXCEPT !.pc = "grounding"] \in ExecRecord
      BY <1>1, PlacesAre, ExecutionsStayTyped
    <3>2. exec[x].seen + 1 \in Nat
      BY <1>1 DEF ExecRecord
    <3>3. [[exec[x] EXCEPT !.pc = "grounding"] EXCEPT !.seen = exec[x].seen + 1] \in ExecRecord
      BY <3>1, <3>2 DEF ExecRecord
    <3> QED BY <3>3
  <2> HIDE DEF e
  <2>4. Writes(x, "TOOL_RESULT", e) /\ Record(x, "TOOL_RESULT", exec[x].step)
    BY <1>2, <2>1 DEF GroundingResult, Writes
  <2> QED BY <1>2, <2>1, <2>2, <2>3, <2>4, WritesKeeps DEF GroundingResult
<1>3. CASE RecordDecision(x) \/ RecordFinal(x) \/ CallTool(x)
  <2>1. PICK pc \in {"final", "toolCall", "completing", "tool"},
             type \in {"MODEL_DECISION", "FINAL_RESPONSE", "TOOL_CALL"} :
          /\ To(x, pc) /\ Record(x, type, exec[x].step)
          /\ \/ exec[x].pc = "decided" /\ type = "MODEL_DECISION" /\ pc \in {"final", "toolCall"}
                  /\ (pc = "final" => exec[x].decision = "final")
             \/ exec[x].pc = "final" /\ type = "FINAL_RESPONSE" /\ pc = "completing"
             \/ exec[x].pc = "toolCall" /\ type = "TOOL_CALL" /\ pc = "tool"
    BY <1>3 DEF RecordDecision, RecordFinal, CallTool
  <2> DEFINE e == [exec[x] EXCEPT !.pc = pc]
  <2>2. /\ e.pc = pc /\ e.seen = exec[x].seen /\ e.key = exec[x].key
        /\ e.goal = exec[x].goal /\ e.agent = exec[x].agent /\ e.told = exec[x].told
        /\ e.from = exec[x].from /\ e.step = exec[x].step
    BY <1>1 DEF ExecRecord
  <2>3. e \in ExecRecord /\ Set(x, e)
    BY <1>1, <2>1, PlacesAre, ExecutionsStayTyped DEF To
  <2> HIDE DEF e
  <2>4. Writes(x, type, e)
    BY <2>1, <2>2 DEF Writes
  <2>5. UNCHANGED <<agent, agentEdit, run, capacity>>
    BY <1>3 DEF RecordDecision, RecordFinal, CallTool
  <2> QED BY <2>1, <2>2, <2>3, <2>4, <2>5, WritesKeeps
<1> QED BY <1>2, <1>3

(* The result of a tool the model asked for, and the next step.              *)
LEMMA ToolResultKeeps ==
  ASSUME AgentInv, NEW x \in Executions, ToolResult(x)
  PROVE  AgentInv'
<1> DEFINE seen == [exec[x] EXCEPT !.seen = exec[x].seen + 1]
           e == NextStep(seen)
           row == [type |-> "TOOL_RESULT", number |-> exec[x].step]
<1>1. /\ exec[x].pc = "tool" /\ UNCHANGED <<agent, agentEdit, run, capacity>>
      /\ Record(x, "TOOL_RESULT", exec[x].step) /\ Set(x, e)
  BY DEF ToolResult
<1>2. /\ exec[x] \in ExecRecord /\ ExecutionOK(x) /\ exec'[x] = e /\ steps[x] \in Seq(StepRow)
      /\ AgentTypeOK
  BY <1>1, ExecutionIsOK DEF AgentInv
<1>3. /\ seen \in ExecRecord /\ seen.seen = exec[x].seen + 1 /\ seen.key = exec[x].key
      /\ seen.goal = exec[x].goal /\ seen.agent = exec[x].agent /\ seen.told = exec[x].told
      /\ seen.from = exec[x].from /\ seen.step = exec[x].step
  <2>1. seen \in ExecRecord
    BY <1>2, ExecutionsStayTyped
  <2> QED BY <1>2, <2>1 DEF ExecRecord
<1> HIDE DEF seen
<1>4. /\ e \in ExecRecord /\ e.step = exec[x].step + 1 /\ e.pc \in {"charging", "maxsteps"}
      /\ e.pc = "charging" => e.step <= MaxSteps
      /\ e.key = exec[x].key /\ e.goal = exec[x].goal /\ e.agent = exec[x].agent
      /\ e.told = exec[x].told /\ e.from = exec[x].from /\ e.seen = exec[x].seen + 1
  BY <1>3, NextStepIs
<1> HIDE DEF e
<1>5. /\ exec[x].step \in Nat /\ exec[x].step <= MaxSteps /\ e.step - 1 = exec[x].step
      /\ LastStep(x) = [type |-> "TOOL_CALL", number |-> exec[x].step]
  BY <1>1, <1>2, <1>4 DEF ExecRecord, ExecutionOK, StandsWhereItWrote, AtStep
<1>6. row \in StepRow /\ row.type = "TOOL_RESULT" /\ row.number = exec[x].step
  BY <1>5 DEF StepRow
<1>7. /\ steps'[x] # <<>> /\ LastStep(x)' = row
      /\ \A t : Has(x, t)' <=> Has(x, t) \/ t = "TOOL_RESULT"
  BY <1>1, <1>2, <1>6, RecordsOneRow
<1>8. MayFollow(steps[x], row)
  <2> HIDE DEF row
  <2> QED BY <1>5, <1>6, AgentsAssumption DEF MayFollow, LastStep
<1> HIDE DEF row
<1>9. run'[x] = run[x] /\ (HasRun(x)' <=> HasRun(x))
  BY <1>1 DEF HasRun
<1>10. StandsWhereItWrote(x)'
  BY <1>2, <1>4, <1>5, <1>6, <1>7 DEF StandsWhereItWrote, AfterResult, Before
<1>11. RowFollows(x)'
  BY <1>1, <1>2, <1>4, <1>7, <1>9 DEF ExecutionOK, RowFollows, Before, Loop
<1>12. AnswerIsDrawn(x)'
  BY <1>2, <1>4, <1>7, <1>9 DEF ExecutionOK, AnswerIsDrawn
<1> QED
  BY <1>1, <1>4, <1>6, <1>8, <1>10, <1>11, <1>12, RecordKeeps DEF row

-------------------------------------------------------------------------------
LEMMA LeastIsNat ==
  ASSUME AgentInv, NEW x \in Executions
  PROVE  Least(exec[x].step, MaxSteps) \in Nat
<1>1. exec[x].step \in Nat
  BY ExecutionIsOK DEF ExecRecord
<1> QED BY <1>1, AgentsAssumption DEF Least

(* The verdict of the loop is recorded ...                                   *)
LEMMA ConcludeKeeps ==
  ASSUME AgentInv, NEW x \in Executions, Conclude(x) \/ ConcludeFails(x)
  PROVE  AgentInv'
<1> DEFINE status == IF exec[x].pc = "completing" THEN "COMPLETED" ELSE "MAX_STEPS_REACHED"
           n == Least(exec[x].step, MaxSteps)
<1>1. /\ exec[x].pc \in {"completing", "maxsteps"} /\ UNCHANGED <<agent, agentEdit, steps, capacity>>
      /\ exec[x] \in ExecRecord /\ ExecutionOK(x) /\ exec[x].key \in RunKeys \cup StepKeys
      /\ capacity' \in Capacities /\ steps[x] \in Seq(StepRow)
  BY ExecutionIsOK DEF Conclude, ConcludeFails
<1>2. /\ HasRun(x) /\ run[x].status = "RUNNING" /\ run[x].goal = exec[x].goal
      /\ run[x].key = IF exec[x].key \in RunKeys THEN exec[x].key ELSE "none"
      /\ Has(x, "FINAL_RESPONSE") => exec[x].pc = "completing"
      /\ exec[x].pc = "completing" => MayConclude(x)
      /\ exec[x].seen > 0 => Has(x, "TOOL_RESULT")
  BY <1>1 DEF ExecutionOK, RowFollows, AnswerIsDrawn, Loop
<1>3. exec[x].pc = "completing" => Has(x, "FINAL_RESPONSE")
  <2>1. exec[x].pc = "completing" => steps[x] # <<>> /\ LastStep(x).type = "FINAL_RESPONSE"
    BY <1>1 DEF ExecutionOK, StandsWhereItWrote, AtStep
  <2>2. steps[x] # <<>> => Len(steps[x]) \in DOMAIN steps[x]
    BY <1>1
  <2> QED BY <2>1, <2>2 DEF Has, LastStep
<1>4. PICK row \in RunRow :
        /\ Conclude(x) => run' = [run EXCEPT ![x] = row]
        /\ ConcludeFails(x) => run' \in {run, [run EXCEPT ![x] = row]}
        /\ row.status = status /\ row.key = run[x].key /\ row.goal = run[x].goal
        /\ row.answer <=> status = "COMPLETED" \/ run[x].answer
  <2> DEFINE given == IF status = "COMPLETED" THEN TRUE ELSE run[x].answer
             row == [run[x] EXCEPT !.status = status, !.stepCount = n, !.answer = given]
             updated == [run EXCEPT ![x].status = status, ![x].stepCount = n, ![x].answer = given]
  <2>1. run[x] \in RunRow /\ run \in [Executions -> {NoRun} \cup RunRow]
    BY <1>2, RunShapes DEF AgentInv, AgentTypeOK, HasRun
  <2>2. /\ Conclude(x) => run' = updated
        /\ ConcludeFails(x) => run' \in {run, updated}
    BY <2>1 DEF Conclude, ConcludeFails, Updated, RunRow
  <2>3. /\ status \in {"RUNNING", "FAILED", "CANCELLED"} \cup Verdicts
        /\ n \in Nat /\ given \in BOOLEAN
    BY <2>1, LeastIsNat DEF Verdicts, RunRow
  <2>4. given <=> status = "COMPLETED" \/ run[x].answer
    BY <2>1 DEF RunRow
  <2> HIDE DEF given, status, n
  <2>5. updated = [run EXCEPT ![x] = row]
    BY <2>1 DEF RunRow
  <2>6. row \in RunRow
    BY <2>1, <2>3 DEF RunRow
  <2>7. /\ row.status = status /\ row.key = run[x].key /\ row.goal = run[x].goal
        /\ row.answer = given
    BY <2>1 DEF RunRow
  <2> HIDE DEF row, updated
  <2> QED BY <2>2, <2>4, <2>5, <2>6, <2>7
<1>5. \A t : Has(x, t)' <=> Has(x, t)
  BY <1>1 DEF Has
<1>6. steps[x] # <<>> => LastStep(x) \in StepRow
  BY <1>1 DEF LastStep
<1>7. exec[x].step \in Nat
  BY <1>1 DEF ExecRecord
<1>8. steps[x] # <<>> => LastStep(x).type # "ERROR" /\ LastStep(x).number <= exec[x].step
  BY <1>1, <1>6, <1>7
     DEF ExecutionOK, StandsWhereItWrote, AtStep, AfterResult, Before, StepRow
<1>9. row.answer => Has(x, "FINAL_RESPONSE") /\ (exec[x].agent.tools # {} => Has(x, "TOOL_RESULT"))
  BY <1>1, <1>2, <1>3, <1>4 DEF MayConclude, ExecutionOK, AnswerIsDrawn
<1>10. CASE Conclude(x)
  <2> DEFINE e == [exec[x] EXCEPT !.pc = "leaving", !.told = status, !.from = x]
  <2>1. /\ e.pc = "leaving" /\ e.told = status /\ e.from = x /\ e.key = exec[x].key
        /\ e.goal = exec[x].goal /\ e.agent = exec[x].agent /\ e.seen = exec[x].seen
    BY <1>1 DEF ExecRecord
  <2>2. Set(x, e) /\ exec'[x] = e /\ run' = [run EXCEPT ![x] = row]
    BY <1>4, <1>10, ExecutionIsOK DEF Conclude
  <2>3. e \in ExecRecord
    BY <1>1, PlacesAre, ExecutionsStayTyped DEF Verdicts
  <2> HIDE DEF e
  <2>4. run'[x] = row
    BY <2>2 DEF AgentInv, AgentTypeOK
  <2>5. StandsWhereItWrote(x)' /\ RowFollows(x)'
    BY <1>2, <1>4, <2>1, <2>2, <2>4 DEF StandsWhereItWrote, RowFollows, Before, Loop, HasRun
  <2>6. EndIsRecorded(x)'
    BY <1>2, <1>3, <1>4, <1>5, <2>4 DEF EndIsRecorded
  <2>7. AnswerIsDrawn(x)'
    BY <1>2, <1>5, <1>9, <2>1, <2>2, <2>4 DEF AnswerIsDrawn
  <2>8. /\ HasRun(x) => row.key = run[x].key /\ row.goal = run[x].goal /\ (run[x].answer => row.answer)
        /\ e.told = "COMPLETED" =>
             /\ row.answer /\ row.goal = exec[x].goal
             /\ exec[x].key \in RunKeys => row.key = exec[x].key
        /\ ~HasRun(x) /\ row.key \in RunKeys => RunsOf(row.key) = {}
    BY <1>2, <1>4, <2>1
  <2> HIDE DEF status
  <2> QED BY <1>1, <2>1, <2>2, <2>3, <2>5, <2>6, <2>7, <2>8, WritesRunKeeps
<1>11. CASE ConcludeFails(x)
  <2>1. Throw(x, "FAILED") /\ (run' = run \/ run' = [run EXCEPT ![x] = row])
    BY <1>4, <1>11 DEF ConcludeFails
  <2>2. CASE run' = run
    BY <1>1, <2>1, <2>2, ThrowKeeps DEF Loop
  <2>3. CASE run' = [run EXCEPT ![x] = row]
    <3> DEFINE e == [exec[x] EXCEPT !.pc = "catch", !.error = "FAILED"]
    <3>1. /\ e.pc = "catch" /\ e.error = "FAILED" /\ e.told = exec[x].told /\ e.from = exec[x].from
          /\ e.key = exec[x].key /\ e.goal = exec[x].goal /\ e.agent = exec[x].agent
          /\ e.seen = exec[x].seen /\ e.step = exec[x].step
      BY <1>1 DEF ExecRecord
    <3>2. Set(x, e) /\ exec'[x] = e
      BY <2>1, ExecutionIsOK DEF Throw
    <3>3. e \in ExecRecord
      BY <1>1, PlacesAre, ExecutionsStayTyped
    <3> HIDE DEF e
    <3>4. run'[x] = row /\ HasRun(x)'
      BY <2>3, RunShapes DEF AgentInv, AgentTypeOK, HasRun
    <3>5. LastStep(x)' = LastStep(x)
      BY <1>1 DEF LastStep
    <3>6. StandsWhereItWrote(x)'
      BY <1>1, <1>8, <3>1, <3>2, <3>5 DEF StandsWhereItWrote, Before
    <3>7. RowFollows(x)'
      BY <1>2, <1>4, <3>1, <3>2, <3>4 DEF RowFollows, Before, Loop
    <3>8. EndIsRecorded(x)'
      BY <1>2, <1>3, <1>4, <1>5, <3>4 DEF EndIsRecorded
    <3>9. AnswerIsDrawn(x)'
      BY <1>2, <1>5, <1>9, <3>1, <3>2, <3>4 DEF AnswerIsDrawn
    <3> QED BY <1>1, <1>2, <1>4, <2>3, <3>1, <3>2, <3>3, <3>6, <3>7, <3>8, <3>9, WritesRunKeeps
  <2> QED BY <2>1, <2>2, <2>3
<1> QED BY <1>10, <1>11

(* ... or its error is, in the transcript first.                             *)
LEMMA RecordErrorKeeps ==
  ASSUME AgentInv, NEW x \in Executions, RecordError(x)
  PROVE  AgentInv'
<1> DEFINE e == [exec[x] EXCEPT !.pc = "failing"]
           n == IF exec[x].step = 0 THEN 1 ELSE exec[x].step
           row == [type |-> "ERROR", number |-> n]
<1>1. /\ exec[x].pc = "catch" /\ UNCHANGED <<agent, agentEdit, run, capacity>>
      /\ Record(x, "ERROR", n) /\ Set(x, e)
  BY DEF RecordError, To
<1>2. /\ exec[x] \in ExecRecord /\ ExecutionOK(x) /\ exec'[x] = e /\ steps[x] \in Seq(StepRow)
      /\ AgentTypeOK
  BY <1>1, ExecutionIsOK DEF AgentInv
<1>3. /\ e.pc = "failing" /\ e.error = exec[x].error /\ e.told = exec[x].told
      /\ e.from = exec[x].from /\ e.key = exec[x].key /\ e.goal = exec[x].goal
      /\ e.agent = exec[x].agent /\ e.seen = exec[x].seen
  BY <1>2 DEF ExecRecord
<1>4. e \in ExecRecord
  BY <1>2, PlacesAre, ExecutionsStayTyped
<1> HIDE DEF e
<1>5. n \in Nat /\ exec[x].step \in Nat /\ exec[x].step <= n
  BY <1>2 DEF ExecRecord
<1> HIDE DEF n
<1>6. row \in StepRow /\ row.type = "ERROR" /\ row.number = n
  BY <1>5 DEF StepRow
<1>7. \A t : Has(x, t)' <=> Has(x, t) \/ t = "ERROR"
  BY <1>1, <1>2, <1>6, RecordsOneRow
<1>8. MayFollow(steps[x], row)
  <2>1. steps[x] # <<>> => LastStep(x) \in StepRow
    BY <1>2 DEF LastStep
  <2>2. steps[x] # <<>> => LastStep(x).type # "ERROR" /\ LastStep(x).number <= exec[x].step
    BY <1>1, <1>2 DEF ExecutionOK, StandsWhereItWrote
  <2> HIDE DEF row
  <2> QED BY <1>5, <1>6, <2>1, <2>2 DEF MayFollow, LastStep, StepRow
<1>9. run'[x] = run[x] /\ (HasRun(x)' <=> HasRun(x))
  BY <1>1 DEF HasRun
<1>10. StandsWhereItWrote(x)'
  BY <1>2, <1>3, <1>7 DEF StandsWhereItWrote, Before
<1>11. RowFollows(x)'
  BY <1>1, <1>2, <1>3, <1>9 DEF ExecutionOK, RowFollows, Before, Loop
<1>12. AnswerIsDrawn(x)'
  BY <1>2, <1>3, <1>7, <1>9 DEF ExecutionOK, AnswerIsDrawn
<1> QED
  BY <1>1, <1>3, <1>4, <1>6, <1>8, <1>10, <1>11, <1>12, RecordKeeps DEF row

LEMMA FailRunKeeps ==
  ASSUME AgentInv, NEW x \in Executions, FailRun(x)
  PROVE  AgentInv'
<1> DEFINE e == [exec[x] EXCEPT !.pc = "leaving", !.told = "error", !.from = x]
           n == Least(exec[x].step, MaxSteps)
<1>1. /\ exec[x].pc = "failing" /\ UNCHANGED <<agent, agentEdit, steps, capacity>>
      /\ run' = Updated(x, exec[x].error, n, FALSE) /\ Set(x, e)
  BY DEF FailRun, Leaving
<1>2. /\ exec[x] \in ExecRecord /\ ExecutionOK(x) /\ exec'[x] = e /\ capacity' \in Capacities
      /\ exec[x].key \in RunKeys \cup StepKeys
  BY <1>1, ExecutionIsOK
<1>3. /\ e.pc = "leaving" /\ e.told = "error" /\ e.key = exec[x].key
      /\ e.goal = exec[x].goal /\ e.agent = exec[x].agent /\ e.seen = exec[x].seen
  BY <1>2 DEF ExecRecord
<1>4. e \in ExecRecord
  BY <1>2, PlacesAre, ExecutionsStayTyped
<1> HIDE DEF e
<1>5. /\ HasRun(x) /\ exec[x].error \in {"FAILED", "CANCELLED"} /\ Has(x, "ERROR")
      /\ run[x].goal = exec[x].goal
      /\ run[x].key = IF exec[x].key \in RunKeys THEN exec[x].key ELSE "none"
  BY <1>1, <1>2 DEF ExecutionOK, RowFollows, StandsWhereItWrote, ExecRecord
<1>6. PICK row \in RunRow :
        /\ run' = [run EXCEPT ![x] = row] /\ row.status = exec[x].error
        /\ row.key = run[x].key /\ row.goal = run[x].goal /\ (row.answer <=> run[x].answer)
  <2> DEFINE status == exec[x].error
             answer == run[x].answer
             row == [run[x] EXCEPT !.status = status, !.stepCount = n, !.answer = answer]
             updated == [run EXCEPT ![x].status = status, ![x].stepCount = n, ![x].answer = answer]
  <2>1. run[x] \in RunRow /\ run \in [Executions -> {NoRun} \cup RunRow]
    BY <1>5, RunShapes DEF AgentInv, AgentTypeOK, HasRun
  <2>2. run' = updated
    BY <1>1, <2>1 DEF Updated, RunRow
  <2>3. status \in {"RUNNING", "FAILED", "CANCELLED"} \cup Verdicts /\ n \in Nat /\ answer \in BOOLEAN
    BY <1>5, <2>1, LeastIsNat DEF RunRow
  <2> HIDE DEF answer, status, n
  <2>4. updated = [run EXCEPT ![x] = row]
    BY <2>1 DEF RunRow
  <2>5. row \in RunRow
    BY <2>1, <2>3 DEF RunRow
  <2>6. /\ row.status = status /\ row.key = run[x].key /\ row.goal = run[x].goal
        /\ row.answer = answer
    BY <2>1 DEF RunRow
  <2> HIDE DEF row, updated
  <2> QED BY <2>2, <2>4, <2>5, <2>6 DEF status, answer
<1>7. run'[x] = row /\ HasRun(x)'
  BY <1>6, RunShapes DEF AgentInv, AgentTypeOK, HasRun
<1>8. \A t : Has(x, t)' <=> Has(x, t)
  BY <1>1 DEF Has
<1>9. StandsWhereItWrote(x)' /\ RowFollows(x)'
  BY <1>2, <1>3, <1>5, <1>6, <1>7 DEF StandsWhereItWrote, RowFollows, Before, Loop
<1>10. EndIsRecorded(x)'
  BY <1>5, <1>6, <1>7, <1>8 DEF EndIsRecorded
<1>11. AnswerIsDrawn(x)'
  BY <1>2, <1>3, <1>5, <1>6, <1>7, <1>8 DEF ExecutionOK, AnswerIsDrawn
<1> QED BY <1>1, <1>2, <1>3, <1>4, <1>5, <1>6, <1>9, <1>10, <1>11, WritesRunKeeps

-------------------------------------------------------------------------------
(* What is no step of an execution leaves its account alone.                 *)
LEMMA ExecutionsLeftAlone ==
  ASSUME AgentInv, UNCHANGED <<exec, run, steps>>, agent' \in AgentRow,
         agentEdit' \in Patches \cup {NoPatch}, capacity' \in Capacities
  PROVE  AgentInv'
<1>1. AgentTypeOK'
  BY DEF AgentInv, AgentTypeOK, Capacities
<1>2. RunsAreUnique'
  BY DEF AgentInv, RunsAreUnique, HasRun
<1>3. ASSUME NEW x \in Executions PROVE ExecutionOK(x)'
  <2>1. /\ ExecutionOK(x) /\ exec'[x] = exec[x]
        /\ \A t : Has(x, t)' <=> Has(x, t)
        /\ LastStep(x)' = LastStep(x) /\ steps'[x] = steps[x]
        /\ (HasRun(x)' <=> HasRun(x)) /\ run'[x] = run[x]
    BY RowsStay DEF AgentInv
  <2>2. ReadsAsAccount(steps[x])' /\ EndIsRecorded(x)' /\ AnswerIsDrawn(x)'
    BY <2>1 DEF ExecutionOK, ReadsAsAccount, EndIsRecorded, AnswerIsDrawn, MayConclude
  <2>3. StandsWhereItWrote(x)' /\ RowFollows(x)'
    BY <2>1 DEF ExecutionOK, StandsWhereItWrote, RowFollows, AtStep, AfterResult
  <2> QED BY <2>2, <2>3 DEF ExecutionOK
<1>4. ASSUME NEW x \in Executions PROVE ToldOf(x)'
  BY <1>4 DEF AgentInv, ToldOf, HasRun
<1> QED BY <1>1, <1>2, <1>3, <1>4 DEF AgentInv

LEMMA PatchedIs ==
  ASSUME NEW row \in AgentRow, NEW patch \in Patches
  PROVE  Patched(row, patch) \in AgentRow
<1>1. patch \in [named : SUBSET {"brand", "tools"}, brand : BOOLEAN, tools : SUBSET Tools]
  BY AgentsAssumption
<1> DEFINE brand == IF "brand" \in patch.named THEN patch.brand ELSE row.brand
           tools == IF "tools" \in patch.named THEN patch.tools ELSE row.tools
<1>2. brand \in BOOLEAN /\ tools \in SUBSET Tools
  BY <1>1 DEF AgentRow
<1>3. Patched(row, patch) = [row EXCEPT !.brand = brand, !.tools = tools]
  BY DEF Patched, AgentRow
<1> HIDE DEF brand, tools
<1> QED BY <1>2, <1>3 DEF AgentRow

(* The edits of an agent.                                                    *)
LEMMA EditKeeps ==
  ASSUME AgentInv, AgentEdit
  PROVE  AgentInv'
<1>1. UNCHANGED <<exec, run, steps, capacity>>
  BY DEF AgentEdit, ReadForPatch, WritePatch, UpdateAgent, DeleteAgent, runnerVars
<1>2. agent \in AgentRow /\ agentEdit \in Patches \cup {NoPatch} /\ capacity' \in Capacities
  BY <1>1 DEF AgentInv, AgentTypeOK, Capacities
<1>3. agent' \in AgentRow
  <2>1. \A patch \in Patches : Patched(agent, patch) \in AgentRow
    BY <1>2, PatchedIs
  <2>2. /\ [agent EXCEPT !.enabled = ~agent.enabled] \in AgentRow
        /\ [agent EXCEPT !.exists = FALSE, !.enabled = FALSE] \in AgentRow
    BY <1>2 DEF AgentRow
  <2> QED
    BY <1>2, <2>1, <2>2 DEF AgentEdit, ReadForPatch, WritePatch, UpdateAgent, DeleteAgent
<1>4. agentEdit' \in Patches \cup {NoPatch}
  BY <1>2 DEF AgentEdit, ReadForPatch, WritePatch, UpdateAgent, DeleteAgent
<1> QED BY <1>1, <1>2, <1>3, <1>4, ExecutionsLeftAlone

(* The lease of a reservation runs out.                                      *)
LEMMA ExpireKeeps ==
  ASSUME AgentInv, ExpireCapacity
  PROVE  AgentInv'
<1>1. capacity \in Capacities /\ Free \in [owner : Owners \cup {"none"}, by : Executions \cup {"none"}]
  BY DEF AgentInv, AgentTypeOK, Capacities, Free
<1>2. capacity' \in Capacities
  BY <1>1 DEF ExpireCapacity, Capacities
<1>3. /\ UNCHANGED <<exec, run, steps>> /\ agent' \in AgentRow
      /\ agentEdit' \in Patches \cup {NoPatch}
  BY DEF ExpireCapacity, AgentInv, AgentTypeOK
<1> QED BY <1>2, <1>3, ExecutionsLeftAlone

LEMMA AgentInit0 ==
  ASSUME Init
  PROVE  AgentInv
<1>1. \A x \in Executions : exec[x] = Waiting /\ run[x] = NoRun /\ steps[x] = <<>>
  BY DEF Init, AgentInit
<1>2. NewAgent \in AgentRow
  BY DEF NewAgent, AgentRow
<1>3. Waiting \in ExecRecord
  <2>1. Waiting.step \in Nat /\ Waiting.seen \in Nat
    BY DEF Waiting
  <2> QED BY <1>2, <2>1 DEF Waiting, ExecRecord, Before, Loop, Places
<1>4. AgentTypeOK
  <2>1. Free \in [owner : Owners \cup {"none"}, by : Executions \cup {"none"}]
    BY DEF Free
  <2>2. <<>> \in Seq(StepRow) /\ Waiting.pc = "idle"
    BY DEF Waiting
  <2> QED BY <1>2, <1>3, <2>1, <2>2 DEF Init, AgentInit, AgentTypeOK
<1>5. RunsAreUnique
  BY <1>1 DEF RunsAreUnique, HasRun
<1>6. ASSUME NEW x \in Executions PROVE ExecutionOK(x) /\ ToldOf(x)
  <2>1. /\ Waiting.pc = "idle" /\ Waiting.step = 0 /\ Waiting.seen = 0 /\ Waiting.told = "nothing"
        /\ NoRun.status = "none" /\ ~HasRun(x) /\ \A t : ~Has(x, t)
    BY <1>1 DEF Waiting, NoRun, HasRun, Has
  <2>2. ReadsAsAccount(steps[x])
    BY <1>1 DEF ReadsAsAccount
  <2>3. StandsWhereItWrote(x) /\ RowFollows(x)
    BY <1>1, <2>1 DEF StandsWhereItWrote, RowFollows, Before, Loop
  <2>4. EndIsRecorded(x) /\ AnswerIsDrawn(x) /\ ToldOf(x)
    BY <1>1, <2>1 DEF EndIsRecorded, AnswerIsDrawn, ToldOf
  <2> QED BY <2>2, <2>3, <2>4 DEF ExecutionOK
<1> QED BY <1>4, <1>5, <1>6 DEF AgentInv

(* The inductive step of the agents and their runs.                          *)
LEMMA AgentStepKeeps ==
  ASSUME AgentInv, AgentStep
  PROVE  AgentInv'
<1>1. ASSUME RunnerStep PROVE AgentInv'
  BY <1>1, ExpireKeeps, CallKeeps, EarlyStepKeeps, InsertStepKeeps, EnterKeeps, GroundingCallKeeps,
     LoopRecordsKeep, ChargeDecisionKeeps, AskKeeps, ToolResultKeeps, StepFailsKeeps,
     ConcludeKeeps, RecordErrorKeeps, FailRunKeeps, LeaveKeeps DEF RunnerStep
<1> QED BY <1>1, EditKeeps DEF AgentStep

LEMMA AgentsLeftAlone ==
  ASSUME AgentInv, UNCHANGED agentVars
  PROVE  AgentInv'
<1>1. /\ UNCHANGED <<exec, run, steps>> /\ agent' \in AgentRow
      /\ agentEdit' \in Patches \cup {NoPatch} /\ capacity' \in Capacities
  BY DEF agentVars, AgentInv, AgentTypeOK, Capacities
<1> QED BY <1>1, ExecutionsLeftAlone

-------------------------------------------------------------------------------
(* What every step of Generation is: one of the direct requests, one of the  *)
(* agents, or time and the purge of admissions, which touch neither.         *)
LEMMA InvStep ==
  ASSUME IInv, [Next]_vars
  PROVE  IInv'
<1>1. DirectInv /\ AgentInv /\ clock \in Nat
  BY DEF IInv, DirectInv, DirectTypeOK
<1>2. CASE DirectStep /\ UNCHANGED agentVars
  BY <1>1, <1>2, DirectStepKeeps, AgentsLeftAlone DEF IInv
<1>3. CASE AgentStep /\ UNCHANGED directVars
  <2>1. UNCHANGED clock
    BY <1>3 DEF AgentStep, AgentEdit, ReadForPatch, WritePatch, UpdateAgent, DeleteAgent, RunnerStep,
                ExpireCapacity, Call, Lookup, Reserve, ChargeRun, InsertRun, InsertFails, Enter,
                GroundingCall, GroundingResult, ChargeDecision, AskUnstructured, AskUnusable,
                AskFinal, AskTool, AskThrows, Ask, RecordDecision, RecordFinal, CallTool,
                ToolResult, StepFails, Conclude, ConcludeFails, RecordError, FailRun,
                FailureIsLost, Leave, CrashRun
  <2> QED BY <1>1, <1>3, <2>1, AgentStepKeeps, DirectLeftAlone DEF IInv
<1>4. CASE (Tick /\ UNCHANGED <<ledger, directVars, agentVars>>) \/ ForgetAdmissions \/ UNCHANGED vars
  <2>1. UNCHANGED directVars /\ UNCHANGED agentVars /\ clock' \in {clock, clock + 1}
    BY <1>4 DEF Tick, ForgetAdmissions, vars, directVars
  <2> QED BY <1>1, <2>1, DirectLeftAlone, AgentsLeftAlone DEF IInv
<1> QED BY <1>2, <1>3, <1>4 DEF Next

(* The invariant of generation: the rows of direct requests say what their   *)
(* callers were told, and each agent's run and its steps follow the place    *)
(* its execution has reached.                                                *)
THEOREM InvCorrect == Spec => []IInv
<1>1. Init => IInv
  BY DirectInit0, AgentInit0 DEF IInv
<1>2. IInv /\ [Next]_vars => IInv'
  BY InvStep
<1> QED BY <1>1, <1>2, PTL DEF Spec

(* beginAiIdempotency lets one request of a key through to the provider in   *)
(* the time a row is kept, whatever duplicates, crashes and purges there are.*)
THEOREM OneCallCorrect == Spec => []OneCallPerKey
<1>1. IInv => OneCallPerKey
  BY DEF IInv, DirectInv
<1> QED BY <1>1, InvCorrect, PTL

(* Two callers of one operation are told one thing: a replayed text is that  *)
(* of its request, and a failure is told to nobody beside a text.            *)
THEOREM AnswersAgreeCorrect == Spec => []AnswersAgree
<1>1. IInv => AnswersAgree
  <2> SUFFICES ASSUME DirectInv, NEW r \in Requests, NEW s \in Requests
               PROVE  /\ r # s /\ request[s].told = "answer" /\ request[s].text = r =>
                           /\ request[s].body = request[r].body /\ ~IsStream(r)
                           /\ request[r].told = "answer" => request[r].text = r
                           /\ request[r].told # "FAILED"
                      /\ HasRow(r) /\ IsRowOf(r) /\ request[r].told = "answer" =>
                           operation[request[r].key].status # "FAILED"
    BY DEF IInv, AnswersAgree
  <2>1. ASSUME r # s, request[s].told = "answer", request[s].text = r
        PROVE  HasSealed(r) /\ request[s].body = request[r].body
    BY <2>1 DEF DirectInv, TextsAreOwnOrSealed
  <2>2. ASSUME HasRow(r), IsRowOf(r), operation[request[r].key].status = "FAILED"
        PROVE  request[r].told = "FAILED"
    <3>1. request[r].key \in Keys
      BY <2>2 DEF DirectInv, DirectTypeOK, RequestRecord, HasRow
    <3> QED
      BY <2>2, <3>1 DEF DirectInv, RowsAreHonest, IsHonest, HasOperation, IsRowOf
  <2> QED BY <2>1, <2>2 DEF HasSealed
<1> QED BY <1>1, InvCorrect, PTL

(* What is recorded of an operation is never overwritten: an answer that     *)
(* comes after recoverStaleAiIdempotency leaves the UNKNOWN there.           *)
THEOREM SettledCorrect == Spec => SettledStaysSettled
<1> DEFINE Stays == \A k \in Keys :
              operation[k].status \in Settled => operation'[k] \in {operation[k], NoRow}
<1>1. IInv /\ [Next]_vars => Stays \/ UNCHANGED directVars
  <2> SUFFICES ASSUME DirectInv, DirectStep, NEW k \in Keys, operation[k].status \in Settled
               PROVE  operation'[k] \in {operation[k], NoRow}
    BY DEF IInv, Next, vars, directVars, ForgetAdmissions
  <2>1. operation \in [Keys -> {NoRow} \cup OperationRow] /\ request \in [Requests -> RequestRecord]
    BY DEF DirectInv, DirectTypeOK
  <2>2. operation[k] # NoRow /\ operation[k].status # "IN_PROGRESS"
    BY DEF Settled, NoRow
  <2>3. ASSUME NEW r \in Requests, NEW status, NEW text, Settle(r, status, text)
        PROVE  operation'[k] = operation[k]
    <3>1. CASE IsOpen(r)
      BY <2>1, <2>2, <2>3, <3>1 DEF Settle, IsOpen
    <3>2. CASE ~IsOpen(r)
      BY <2>3, <3>2 DEF Settle
    <3> QED BY <3>1, <3>2
  <2>4. ASSUME NEW r \in Requests, Begin(r) PROVE operation'[k] = operation[k]
    BY <2>1, <2>2, <2>4 DEF Begin
  <2>5. ASSUME NEW r \in Requests, Complete(r) \/ CompleteFails(r) \/ Fail(r)
        PROVE  operation'[k] = operation[k]
    BY <2>3, <2>5 DEF Complete, CompleteFails, Fail
  <2>6. ASSUME RecoverStale PROVE operation'[k] = operation[k]
    BY <2>2, <2>6 DEF RecoverStale, IsStale
  <2>7. ASSUME PurgeOperations PROVE operation'[k] \in {operation[k], NoRow}
    BY <2>7 DEF PurgeOperations
  <2>8. ASSUME NEW r \in Requests,
               Prepare(r) \/ BeginRefused(r) \/ BeginTaken(r) \/ ReadExisting(r) \/ AdmitUnkeyed(r)
               \/ Generate(r) \/ Deliver(r) \/ Crash(r)
        PROVE  operation'[k] = operation[k]
    BY <2>8 DEF Prepare, BeginRefused, BeginTaken, ReadExisting, AdmitUnkeyed, Generate, Deliver, Crash
  <2> QED BY <2>4, <2>5, <2>6, <2>7, <2>8 DEF DirectStep, RequestStep
<1> HIDE DEF Stays
<1>2. Spec => [][Stays]_directVars
  BY <1>1, InvCorrect, PTL DEF Spec
<1> QED BY <1>2 DEF Stays, SettledStaysSettled

(* Who is told that an agent has completed, by the execution itself or under *)
(* its Idempotency-Key, is told of the one run of the key, with its answer   *)
(* recorded and drawn after the tools of the agent were heard.               *)
THEOREM AnswersBackedCorrect == Spec => []AnswersAreBacked
<1>1. IInv => AnswersAreBacked
  <2> SUFFICES ASSUME AgentInv, NEW x \in Executions, exec[x].told = "COMPLETED"
               PROVE  LET y == exec[x].from
                      IN /\ run[y].answer /\ Has(y, "FINAL_RESPONSE") /\ run[y].goal = exec[x].goal
                         /\ exec[x].key \in RunKeys => RunsOf(exec[x].key) = {y}
                         /\ exec[y].agent.tools # {} => Has(y, "TOOL_RESULT")
    BY DEF IInv, AnswersAreBacked
  <2> DEFINE y == exec[x].from
  <2>1. /\ y \in Executions /\ HasRun(y) /\ run[y].answer /\ run[y].goal = exec[x].goal
        /\ exec[x].key \in RunKeys => run[y].key = exec[x].key
    BY DEF AgentInv, ToldOf
  <2> HIDE DEF y
  <2>2. Has(y, "FINAL_RESPONSE") /\ (exec[y].agent.tools # {} => Has(y, "TOOL_RESULT"))
    BY <2>1 DEF AgentInv, ExecutionOK, AnswerIsDrawn
  <2>3. exec[x].key \in RunKeys => RunsOf(exec[x].key) = {y}
    BY <2>1 DEF AgentInv, RunsAreUnique, RunsOf, HasRun
  <2> QED BY <2>1, <2>2, <2>3 DEF y
<1> QED BY <1>1, InvCorrect, PTL

(* agent_run_steps reads as the account of its run, in order, and ends the   *)
(* way the row of the run says, whatever fails or is aborted on the way.     *)
THEOREM TranscriptCorrect == Spec => []TranscriptMatchesRun
<1>1. IInv => TranscriptMatchesRun
  BY DEF IInv, AgentInv, ExecutionOK, ReadsAsAccount, EndIsRecorded, TranscriptMatchesRun
<1> QED BY <1>1, InvCorrect, PTL
===============================================================================
