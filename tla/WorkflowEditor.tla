----------------------------- MODULE WorkflowEditor -----------------------------
(***************************************************************************)
(* The graph that the visual editor works on, and its way to a definition  *)
(* and back.                                                               *)
(*   lib/workflows/editor.ts, components/forms/workflow-editor.tsx         *)
(*                                                                         *)
(* An id is a name and a number, as nextNodeId makes them of a step's      *)
(* type.  Positions are cells of a grid; where an added node is put matters *)
(* to nobody.                                                              *)
(***************************************************************************)
EXTENDS WorkflowGraph, SequencesExt

StepTypes == Leaving \cup Conditional

Edge(source, target, kind) ==
  [id |-> <<source, kind, target>>, source |-> source, target |-> target, kind |-> kind]

Kinds(type) == IF type = "CONDITION" THEN <<"true", "false">> ELSE <<"next">>

Cell(i) == <<(i - 1) % 3, (i - 1) \div 3>>

DefaultLayout(d) == [i \in Positions(d) |-> [id |-> d.steps[i].id, cell |-> Cell(i)]]

(* deserializeWorkflowDefinition                                             *)
Deserialize(d) ==
  [entry |-> d.entry,
   nodes |-> [i \in Positions(d) |->
     [id |-> d.steps[i].id, type |-> d.steps[i].type, refs |-> d.steps[i].refs, cell |-> Cell(i)]],
   edges |-> FlattenSeq([i \in Positions(d) |->
     [k \in DOMAIN d.steps[i].next |->
       Edge(d.steps[i].id, d.steps[i].next[k], Kinds(d.steps[i].type)[k])]])]

NodeIds(state) == {n.id : n \in ToSet(state.nodes)}
NodeOf(state, id) == CHOOSE n \in ToSet(state.nodes) : n.id = id
Outgoing(state, id) == SelectSeq(state.edges, LAMBDA e : e.source = id)

IsEdge(state, e) ==
  /\ {e.source, e.target} \subseteq NodeIds(state) /\ e.source # e.target
  /\ e.kind = "next" <=> NodeOf(state, e.source).type # "CONDITION"

HasEdges(state, n) ==
  LET kinds == [k \in DOMAIN Outgoing(state, n.id) |-> Outgoing(state, n.id)[k].kind]
  IN IF n.type = "CONDITION" THEN Len(kinds) = 2 /\ ToSet(kinds) = {"true", "false"}
     ELSE Len(kinds) <= 1

IsDrawn(state) ==
  /\ \A i, j \in DOMAIN state.nodes : state.nodes[i].id = state.nodes[j].id => i = j
  /\ \A n \in ToSet(state.nodes) : n.type \in StepTypes
  /\ state.entry \in NodeIds(state)
  /\ \A i, j \in DOMAIN state.edges : state.edges[i].id = state.edges[j].id => i = j
  /\ \A e \in ToSet(state.edges) : IsEdge(state, e)
  /\ \A n \in ToSet(state.nodes) : HasEdges(state, n)

(* The targets of a node, the branch that is taken when true first.          *)
NextOf(state, n) ==
  LET out == Outgoing(state, n.id)
      along(kind) == SelectSeq(out, LAMBDA e : e.kind = kind)[1].target
  IN [k \in 1..Len(out) |-> along(Kinds(n.type)[k])]

(* serializeWorkflowEditorState; what it refuses is an empty set here.       *)
Serialize(state) ==
  LET d == [entry |-> state.entry,
            steps |-> [i \in DOMAIN state.nodes |->
              [id |-> state.nodes[i].id, type |-> state.nodes[i].type,
               next |-> NextOf(state, state.nodes[i]), refs |-> state.nodes[i].refs]]]
  IN IF IsDrawn(state) THEN {x \in {d} : IsValid(x)} ELSE {}

(* applyWorkflowEditorLayout; nodes that it does not place stay.             *)
ApplyLayout(state, layout) ==
  [state EXCEPT !.nodes = [i \in DOMAIN state.nodes |->
    LET places == {p \in ToSet(layout) : p.id = state.nodes[i].id}
    IN IF places = {} THEN state.nodes[i]
       ELSE [state.nodes[i] EXCEPT !.cell = (CHOOSE p \in places : TRUE).cell]]]

LayoutOf(state) ==
  [i \in DOMAIN state.nodes |-> [id |-> state.nodes[i].id, cell |-> state.nodes[i].cell]]

-------------------------------------------------------------------------------
NextNodeId(ids, type) ==
  <<type, CHOOSE k \in 1..Cardinality(ids) + 1 :
            <<type, k>> \notin ids /\ \A j \in 1..k - 1 : <<type, j>> \in ids>>

Terminals(state) ==
  {i \in DOMAIN state.nodes :
     state.nodes[i].type # "CONDITION" /\ Outgoing(state, state.nodes[i].id) = <<>>}

NewNode(id, type, cell) == [id |-> id, type |-> type, refs |-> {}, cell |-> cell]

(* addStep: after the first step that leads nowhere; a condition brings two  *)
(* steps of its own with it.                                                 *)
Added(state, type) ==
  LET after == state.nodes[CHOOSE i \in Terminals(state) : \A j \in Terminals(state) : i <= j]
      id == NextNodeId(NodeIds(state), type)
      yes == NextNodeId(NodeIds(state) \cup {id}, "SET_VALUE")
      no == NextNodeId(NodeIds(state) \cup {id, yes}, "SET_VALUE")
      node == NewNode(id, type, after.cell)
      branches == <<NewNode(yes, "SET_VALUE", after.cell), NewNode(no, "SET_VALUE", after.cell)>>
      isCondition == type = "CONDITION"
  IN [state EXCEPT
       !.nodes = @ \o <<node>> \o IF isCondition THEN branches ELSE <<>>,
       !.edges = @ \o <<Edge(after.id, id, "next")>>
                   \o IF isCondition THEN <<Edge(id, yes, "true"), Edge(id, no, "false")>> ELSE <<>>]

-------------------------------------------------------------------------------
(* A definition that is loaded into the editor and saved again is the same,  *)
(* wherever its nodes have been put.                                         *)
ASSUME RoundTrip ==
  \A d \in Accepted :
    Serialize(ApplyLayout(Deserialize(d), DefaultLayout(d))) = {d}

(* There is a place for a new step in every graph that was accepted, and     *)
(* with the step it is accepted again, unless the step is an action that     *)
(* nothing approves.  The layout saved with it places every step once.       *)
ASSUME AddedFits ==
  \A d \in Accepted, type \in StepTypes :
    /\ Terminals(Deserialize(d)) # {}
    /\ LET state == Added(Deserialize(d), type)
       IN /\ Serialize(state) = {} => type = "INTEGRATION_ACTION"
          /\ \A x \in Serialize(state) :
               Ids(d) \subseteq Ids(x) /\ {p.id : p \in ToSet(LayoutOf(state))} = Ids(x)
===============================================================================
