------------------------- MODULE MCIntegrationActions -------------------------
EXTENDS IntegrationActions, TLC

CONSTANTS a1, a2, t1, t2, t3, c1, u1, u2, k1

Limits == [m \in {"INTEGRATION_ACTION_DAY"} |-> 1]
ActionOfAttempt == (t1 :> a1) @@ (t2 :> a1) @@ (t3 :> a2)
CredentialOfAction == [a \in Actions |-> c1]
OneKey == ("v1" :> k1)

(* An envelope opens for the purpose and in the context it was sealed in,    *)
(* under a keyring that still has the key of its version, and otherwise not. *)
Rings == [{"v1"} -> {"x", "y"}] \cup [{"v2"} -> {"x", "y"}] \cup [{"v1", "v2"} -> {"x", "y"}]
Contexts == {<<1>>, <<2>>}
SameKey(r1, r2, v) == v \in DOMAIN r2 /\ r1[v] = r2[v]
ASSUME EnvelopesOpenWhereSealed ==
  \A p1, p2 \in Purposes, d1, d2 \in Contexts, r1, r2 \in Rings :
    \A v \in DOMAIN r1 :
      Open(Seal(p1, "secret", d1, r1, v), p2, d2, r2) =
        IF p1 = p2 /\ d1 = d2 /\ SameKey(r1, r2, v) THEN "secret" ELSE Invalid
ASSUME WebhookEnvelopesOpenWhereSealed ==
  \A d1, d2 \in Contexts, x1, x2 \in {"x", "y"}, v1, v2 \in {"v1", "v2"} :
    OpenWebhook(SealWebhook("secret", d1, x1, v1), d2, x2, v2) =
      IF d1 = d2 /\ x1 = x2 /\ v1 = v2 THEN "secret" ELSE Invalid

(* Bounds of the model: two users work on the credential before any attempt  *)
(* starts, and one beside a single attempt; two attempts of one action, or   *)
(* one of each action, run under a credential nobody is changing.            *)
Idle(t) == attempt[t] = Unstarted
NoManager(u) == manager[u] = NoCall
ActionBound ==
  \/ \A t \in Attempts : Idle(t)
  \/ Idle(t2) /\ Idle(t3) /\ NoManager(u2)
  \/ /\ Idle(t2) \/ Idle(t3)
     /\ NoManager(u1) /\ NoManager(u2)
     /\ credential[c1].status = "active" => credential[c1].version = 1
===============================================================================
