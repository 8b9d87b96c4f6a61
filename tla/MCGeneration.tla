----------------------------- MODULE MCGeneration -----------------------------
EXTENDS Generation

CONSTANTS r1, r2, k1, b1, b2, x1, x2, c1, s1, o1, g1, g2, t1

Limits == [m \in {"AI_GENERATION_DAY", "AGENT_RUN_DAY"} |-> 2]
Ring == [v \in {"v1"} |-> "key"]
Body(named, brand, tools) == [named |-> named, brand |-> brand, tools |-> tools]
SomePatches ==
  {Body({"tools"}, FALSE, {}), Body({"tools"}, FALSE, {t1}), Body({"brand"}, FALSE, {})}

Net == {"ok", "abort", "lost"}
TagsExchanges == [net : Net, status : {200, 500}, body : {"listed", "missing", "garbled"}]
AnswerExchanges == [net : Net, status : {200, 404, 500}, body : {"text", "json", "blank", "garbled"}]
LineKinds == {"chunk", "last", "garbled", "abort", "lost"}
Lines == UNION {[1..n -> LineKinds] : n \in 0..3}

(* The failure of an operation is replayed under the code it had.            *)
ASSUME FailuresReplayAsThemselves ==
  \A tags \in TagsExchanges, answer \in AnswerExchanges :
    LET code == GenerateOutcome(tags, answer)
    IN code # "ok" => ReplayFailure(code) = code

(* The readiness check says "ready" of a provider that takes requests.       *)
ASSUME ReadyMeansAvailable ==
  \A tags \in TagsExchanges, answer \in AnswerExchanges :
    /\ StructuredOutcome(tags, answer) = "ok" => GenerateOutcome(tags, answer) = "ok"
    /\ GenerateOutcome(tags, answer) = "ok" => Health(tags) = "ready"
    /\ Health(tags) # "ready" => GenerateOutcome(tags, answer) = AssertModelAvailable(tags)

(* A stream that ends well has sent something, and nothing after its last    *)
(* chunk; one that breaks off says so, whatever it has sent.                 *)
ASSUME StreamsEndOnce ==
  \A tags \in TagsExchanges, lines \in Lines :
    LET answer == [net |-> "ok", status |-> 200, body |-> "text"]
        outcome == StreamOutcome(tags, answer, lines)
    IN /\ outcome.end = "ok" => outcome.sent > 0
       /\ \A i \in 1..outcome.sent : LineOutcome(lines[i]) = "ok"
       /\ \A i \in 1..outcome.sent - 1 : lines[i] = "chunk"
       /\ \A i \in DOMAIN lines :
            i = outcome.sent + 1 /\ LineOutcome(lines[i]) # "ok" /\ Health(tags) = "ready"
              /\ (outcome.sent > 0 => lines[outcome.sent] # "last")
              => outcome.end # "ok"

(* What the repair returns was in the response or is made of the facts; it   *)
(* passes the check and keeps a response that passed, unless the trusted     *)
(* text rules out promotions and its own product name sounds like one.       *)
Claims == [category : {"price", "discount"}, evidence : {"e1", "e2"}]
Sentences == [claims : {c \in SUBSET Claims : Cardinality(c) <= 1}, framed : BOOLEAN,
              negative : BOOLEAN, invented : BOOLEAN]
Contexts == [facts : SUBSET {"e1"}, noPromotion : BOOLEAN,
             product : {{}, {[category |-> "discount", evidence |-> "e1"]}}]
Possible(c) == c.product # {} => "e1" \in c.facts
ASSUME RepairIsGrounded ==
  \A c \in {d \in Contexts : Possible(d)}, s1_, s2_ \in Sentences :
    LET repaired == Repair({s1_, s2_}, c)
    IN /\ \A s \in repaired : s \in {s1_, s2_} \/ s \in Fallback(c)
       /\ ~(c.noPromotion /\ c.product # {}) =>
            /\ Validates(repaired, c)
            /\ Validates({s1_, s2_}, c) => {s1_, s2_} \subseteq repaired

(* Bounds of the model: direct requests, or agent runs; or one of each while  *)
(* the other is being admitted.  Time passes for direct requests.  Of two     *)
(* agent runs one has no steps yet; the other is not corrected or aborted.    *)
Sent == {r \in Requests : request[r] # Unsent}
Started == {x \in Executions : exec[x] # Waiting}
AgentIsNew == agent = NewAgent /\ agentEdit = NoPatch
NoAgents == Started = {} /\ AgentIsNew
OneAgent ==
  /\ Started \subseteq {x1} /\ exec[x1].goal # g2
  /\ Started # {} => agentEdit = NoPatch
TwoAgents ==
  /\ AgentIsNew /\ x1 \in Started /\ exec[x1].goal # g2
  /\ \E x \in Started : steps[x] = <<>>
  /\ \A x \in Started : exec[x].attempt = 0 /\ exec[x].error # "CANCELLED"
OneOfEach ==
  /\ AgentIsNew /\ clock = 0 /\ Started \subseteq {x1} /\ Sent \subseteq {r1}
  /\ request[r1].pc \in {"prepared", "calling", "done"} /\ exec[x1].attempt = 0
  /\ exec[x1].key \in {"none", s1} /\ exec[x1].goal # g2
GenerationBound ==
  \/ NoAgents /\ (r2 \in Sent => r1 \in Sent)
  \/ Sent = {} /\ clock = 0 /\ (OneAgent \/ TwoAgents)
  \/ OneOfEach
===============================================================================
