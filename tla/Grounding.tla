------------------------------- MODULE Grounding -------------------------------
(***************************************************************************)
(* The check and the repair of an agent's final response against the       *)
(* facts its tools returned and its goal confirms.                         *)
(*   lib/agents/grounding.ts                                               *)
(*                                                                         *)
(* A response is a set of sentences [claims, framed, negative, invented]:  *)
(* the claims the patterns find in it, each [category, evidence]; whether  *)
(* it is conditional, or says that something is known not to be; whether   *)
(* it owns up to inventing.  A context is [facts, noPromotion, product]:   *)
(* the evidence found in the trusted text, whether that text rules out     *)
(* promotions, and the claim its product name makes by its wording.        *)
(***************************************************************************)
EXTENDS FiniteSets

(* The categories whose patterns ask for the evidence itself.                *)
Strict == {"price", "percentage", "quantity", "notice", "contact"}

IsExcused(s) == s.framed \/ s.negative

(* addIfUnsupported                                                          *)
IsSupported(claim, s, context) ==
  IF claim.category = "discount" /\ context.noPromotion
  THEN IsExcused(s)
  ELSE claim.evidence \in context.facts \/ IsExcused(s)

Validates(response, context) ==
  \A s \in response :
    /\ ~s.invented
    /\ \A c \in s.claims :
         IF c.category \in Strict THEN c.evidence \in context.facts
         ELSE IsSupported(c, s, context)

(* buildVerifiedDetails: the facts that make details, read off the trusted   *)
(* text; a product name is quoted with whatever words it is made of.         *)
Details(context) ==
  {[category |-> "price", evidence |-> e] : e \in context.facts} \cup context.product

Plain(claims) == [claims |-> claims, framed |-> FALSE, negative |-> FALSE, invented |-> FALSE]

Fallback(context) == {Plain({}), Plain(Details(context))}

SafeSentences(response, context) == {s \in response : Validates({s}, context)}

(* repairGroundedFinalResponse                                               *)
Repair(response, context) ==
  LET safe == SafeSentences(response, context)
      repaired == safe \cup (IF Details(context) = {} THEN {} ELSE {Plain(Details(context))})
  IN IF safe # {} /\ Validates(repaired, context) THEN repaired ELSE Fallback(context)
===============================================================================
