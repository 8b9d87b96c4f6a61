----------------------------- MODULE WorkflowGraph -----------------------------
(***************************************************************************)
(* Which definitions may be stored, and what a run may then meet on its    *)
(* way through one.                                                        *)
(*   lib/workflows/graph.ts, integration-policy.ts, validation.ts          *)
(*                                                                         *)
(* A step has an id, a type, the ids its edges lead to and the ids of the  *)
(* steps its values refer to.  Every registered operation of an            *)
(* integration asks for approval.                                          *)
(***************************************************************************)
EXTENDS Naturals, Sequences, FiniteSets

CONSTANT Definitions  \* definitions that are tried

ASSUME GraphAssumption ==
  \A d \in Definitions :
    /\ Len(d.steps) \in Nat /\ DOMAIN d.steps = 1..Len(d.steps)
    /\ \A i \in DOMAIN d.steps :
         Len(d.steps[i].next) \in Nat /\ DOMAIN d.steps[i].next = 1..Len(d.steps[i].next)

VARIABLE walk  \* a definition that was accepted, and a run of it

Leaving == {"SET_VALUE", "TRANSFORM", "AI_GENERATE", "AGENT", "APPROVAL", "INTEGRATION_ACTION"}
Conditional == {"CONDITION"}

Positions(d) == DOMAIN d.steps
Ids(d) == {d.steps[i].id : i \in Positions(d)}
Step(d, id) == d.steps[CHOOSE i \in Positions(d) : d.steps[i].id = id]

(* edgeIds                                                                   *)
Targets(step) == {step.next[i] : i \in DOMAIN step.next}

(* The shape that the schema asks for.                                       *)
HasShape(step) ==
  IF step.type \in Conditional THEN Len(step.next) = 2
  ELSE step.type \in Leaving /\ Len(step.next) <= 1

(* The ids that edges lead to from some, when only some steps are left.     *)
Reached(d, from, left) ==
  LET within[n \in Nat] ==
        IF n = 0 THEN from
        ELSE LET ids == within[n - 1]
             IN ids \cup UNION {Targets(Step(d, id)) : id \in ids \cap left}
  IN within[Len(d.steps)]

Precedes(d, a, b) == b \in Reached(d, Targets(Step(d, a)), Ids(d))

(* Mutated form of Ancestors: any other step will do.                        *)
OtherSteps(d, id) == Ids(d) \ {id}

(* ancestorsFor                                                              *)
Ancestors(d, id) == {a \in Ids(d) : Precedes(d, a, id)}

(* validateWorkflowGraph                                                     *)
ValidGraph(d) ==
  /\ \A i, j \in Positions(d) : d.steps[i].id = d.steps[j].id => i = j
  /\ d.entry \in Ids(d)
  /\ \A i \in Positions(d) : Targets(d.steps[i]) \subseteq Ids(d)
  /\ Ids(d) \subseteq Reached(d, {d.entry}, Ids(d))
  /\ \A id \in Ids(d) : ~Precedes(d, id, id)
  /\ \A i \in Positions(d) : d.steps[i].refs \subseteq Ancestors(d, d.steps[i].id)

(* The steps met on a path on which nothing has been approved.               *)
Unapproved(d) == Reached(d, {d.entry}, {id \in Ids(d) : Step(d, id).type # "APPROVAL"})

(* Mutated form of ApprovalsCover: one path with an approval will do.        *)
SomePathApproves(d) ==
  \A id \in Unapproved(d) :
    Step(d, id).type = "INTEGRATION_ACTION" =>
      \E a \in Ancestors(d, id) : Step(d, a).type = "APPROVAL"

(* validateIntegrationApprovalPolicy                                         *)
ApprovalsCover(d) == \A id \in Unapproved(d) : Step(d, id).type # "INTEGRATION_ACTION"

(* validateWorkflowDefinition                                                *)
IsValid(d) ==
  /\ d.steps # <<>> /\ \A i \in Positions(d) : HasShape(d.steps[i])
  /\ ValidGraph(d) /\ ApprovalsCover(d)

-------------------------------------------------------------------------------
NoWalk == [state |-> "none"]

(* A run of a definition starts at its entry step.                           *)
Accept(d) == [state |-> "running", definition |-> d, at |-> d.entry, done |-> {}]

Accepted == {d \in Definitions : IsValid(d)}

GraphInit == walk = NoWalk \/ \E d \in Accepted : walk = Accept(d)

(* A step that nothing follows ends the run, unless it is an approval: a     *)
(* decision stores the next step, null here, and a null resume point sends   *)
(* whoever claims the run next to the entry step.                            *)
EndsInApproval(d, id) == Step(d, id).type = "APPROVAL" /\ Targets(Step(d, id)) = {}
Following(d, id) == IF EndsInApproval(d, id) THEN {d.entry} ELSE Targets(Step(d, id))

(* The executor runs a step and goes on to a following one.  A value that    *)
(* refers to a step that has not run fails the run, unless it is asked       *)
(* whether it exists; so does an approval that has been decided already.     *)
Take ==
  LET d == walk.definition
      step == Step(d, walk.at)
      done == walk.done \cup {walk.at}
      missing == ~(step.refs \subseteq walk.done)
      decided == step.type = "APPROVAL" /\ walk.at \in walk.done
  IN  /\ walk.state = "running"
      /\ \/ /\ ~decided /\ (missing => step.type = "CONDITION")
            /\ \/ \E id \in Following(d, walk.at) : walk' = [walk EXCEPT !.done = done, !.at = id]
               \/ /\ Following(d, walk.at) = {}
                  /\ walk' = [walk EXCEPT !.done = done, !.state = "completed"]
         \/ (decided \/ missing) /\ walk' = [walk EXCEPT !.state = "failed"]

-------------------------------------------------------------------------------
(* No run of a stored definition comes to an external action without a       *)
(* decision on its way, whichever branches it takes.                         *)
ActsWhenApproved ==
  walk.state = "running" /\ Step(walk.definition, walk.at).type = "INTEGRATION_ACTION" =>
    \E id \in walk.done : Step(walk.definition, id).type = "APPROVAL"

(* A run fails on a reference only because a condition has sent it past the  *)
(* step referred to; and it comes to a step twice only after its last step   *)
(* was an approval.                                                          *)
ReferencesResolve ==
  walk.state # "none" =>
    /\ walk.state = "running" /\ walk.at \in walk.done =>
         \E id \in walk.done : EndsInApproval(walk.definition, id)
    /\ walk.state = "failed" =>
         \A id \in Step(walk.definition, walk.at).refs \ walk.done :
           \E c \in walk.done :
             Step(walk.definition, c).type = "CONDITION" /\ Precedes(walk.definition, c, id)
===============================================================================
