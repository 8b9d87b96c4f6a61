-------------------------- MODULE WorkflowDefinitions --------------------------
(***************************************************************************)
(* One workflow: its immutable versions, its editor layout, and the        *)
(* editors (browser tabs) that load it, change it and save it.             *)
(*   lib/workflows/service.ts, editor-state.ts                             *)
(*   components/forms/workflow-editor.tsx                                  *)
(*                                                                         *)
(* A definition is the set of its step ids, and a layout the set of the    *)
(* ids it places.  Editors add steps; the advanced tab can also take one   *)
(* out, which is left out, so that a step that is gone was lost.  Agents,  *)
(* brands and credentials that a definition names are checked before it is *)
(* stored and are left out too.                                            *)
(***************************************************************************)
EXTENDS Authorization, Sequences

CONSTANTS
  StepIds,     \* step ids
  FirstSteps,  \* the definition the workflow is created with
  Tabs,        \* editors
  Clients,     \* callers of PATCH /api/workflows/:id that are not editors
  MaxVersions  \* bound of the model: versions ever stored

ASSUME DefinitionsAssumption ==
  /\ FirstSteps \subseteq StepIds /\ FirstSteps # {}
  /\ MaxVersions \in Nat \ {0} /\ Tabs \cap Clients = {}

VARIABLES
  workflow,  \* the row: status "none", "live" or "deleted", enabled
  versions,  \* versions[n]: the definition of version n; the last is current
  layout,    \* the workflow_editor_layouts row, or NoLayout
  tab,       \* tab[t]: the state of the reducer, and the save in flight
  patch      \* patch[r]: the request of sender r while the server handles it

definitionVars == <<workflow, versions, layout, tab, patch>>

Senders == Tabs \cup Clients

NoLayout == [version |-> 0, nodes |-> {}]
NoPatch == [pc |-> "none"]
Closed == [open |-> FALSE, version |-> 0, nodes |-> {}, dirty |-> FALSE]

Current == Len(versions)
Definition == versions[Current]

DefinitionsInit ==
  /\ workflow = [status |-> "none", enabled |-> FALSE]
  /\ versions = <<>>
  /\ layout = NoLayout
  /\ tab = [t \in Tabs |-> Closed]
  /\ patch = [r \in Senders |-> NoPatch]

-------------------------------------------------------------------------------
(* The workflow and its first version, in one transaction.                   *)
CreateWorkflow ==
  /\ workflow.status = "none" /\ SomebodyMay("workflow.write")
  /\ \E enabled \in BOOLEAN : workflow' = [status |-> "live", enabled |-> enabled]
  /\ versions' = <<FirstSteps>>
  /\ UNCHANGED <<layout, tab, patch>>

(* The row stays, with deletedAt set.                                        *)
DeleteWorkflow ==
  /\ workflow.status = "live" /\ SomebodyMay("workflow.delete")
  /\ workflow' = [status |-> "deleted", enabled |-> FALSE]
  /\ UNCHANGED <<versions, layout, tab, patch>>

(* The rows of a workspace go with it.                                       *)
WorkflowGone ==
  /\ workflow' = [status |-> IF workflow.status = "none" THEN "none" ELSE "deleted",
                  enabled |-> FALSE]
  /\ UNCHANGED <<versions, layout, tab, patch>>

-------------------------------------------------------------------------------
(* loadProjection                                                            *)
Load(t) ==
  /\ ~tab[t].open /\ workflow.status = "live" /\ SomebodyMay("workflow.read")
  /\ tab' = [tab EXCEPT ![t] =
       [open |-> TRUE, version |-> Current, nodes |-> Definition, dirty |-> FALSE]]
  /\ UNCHANGED <<workflow, versions, layout, patch>>

(* The tab is closed or reloaded; a save in flight is waited for, or its     *)
(* answer counts as lost.                                                    *)
Leave(t) ==
  /\ tab[t].open /\ patch[t] = NoPatch
  /\ tab' = [tab EXCEPT ![t] = Closed]
  /\ UNCHANGED <<workflow, versions, layout, patch>>

(* addStep, or applyRawDefinition: also while a save is in flight.           *)
AddStep(t, s) ==
  /\ tab[t].open /\ s \notin tab[t].nodes
  /\ tab' = [tab EXCEPT ![t].nodes = @ \cup {s}, ![t].dirty = TRUE]
  /\ UNCHANGED <<workflow, versions, layout, patch>>

(* A PATCH; nodes and definition are {} when it has none, and expected is 0. *)
Send(r, definition, nodes, expected, enabled) ==
  /\ patch[r] = NoPatch
  /\ patch' = [patch EXCEPT ![r] =
       [pc |-> "sent", definition |-> definition, nodes |-> nodes, expected |-> expected,
        enabled |-> enabled, answer |-> "none", version |-> 0]]
  /\ UNCHANGED <<workflow, versions, layout, tab>>

Save(t) ==
  /\ tab[t].open /\ tab[t].dirty
  /\ Send(t, tab[t].nodes, tab[t].nodes, tab[t].version, "as it is")

(* A client that moves nodes about, for a version it has read; or that       *)
(* enables or disables the workflow, which needs no version.                 *)
SendLayout(r, n) ==
  /\ n \in 1..Current
  /\ Send(r, {}, versions[n], n, "as it is")

SendEnabled(r, enabled) == workflow.status = "live" /\ Send(r, {}, {}, 0, enabled)

-------------------------------------------------------------------------------
Answer(r, answer, version) ==
  patch' = [patch EXCEPT ![r].pc = "answered", ![r].answer = answer, ![r].version = version]

(* isCompatibleWorkflowLayout; the ids of a layout are distinct.             *)
IsCompatible(nodes, definition) == nodes = definition

(* updateWorkflow, before its transaction.                                   *)
CheckPatch(r) ==
  /\ patch[r].pc = "sent"
  /\ IF /\ workflow.status = "live" /\ SomebodyMay("workflow.write")
        /\ patch[r].nodes # {} =>
             IsCompatible(patch[r].nodes,
                          IF patch[r].definition # {} THEN patch[r].definition ELSE Definition)
     THEN patch' = [patch EXCEPT ![r].pc = "checked"]
     ELSE Answer(r, "error", 0)
  /\ UNCHANGED <<workflow, versions, layout, tab>>

(* Mutated form of IsBased: only a new definition has to be of the version   *)
(* that is current.                                                          *)
IsBasedIfDefined(r) == patch[r].definition # {} => patch[r].expected = Current

(* Mutated form of IsBased: no version has to match.                         *)
AnyBase(r) == patch[r].pc = "checked"

(* requiresVersionMatch                                                      *)
IsBased(r) ==
  patch[r].definition # {} \/ patch[r].nodes # {} => patch[r].expected = Current

(* The transaction, which holds the workflow row.                            *)
ApplyPatch(r) ==
  /\ patch[r].pc = "checked"
  /\ patch[r].definition # {} => Current < MaxVersions
  /\ IF workflow.status = "live" /\ IsBased(r)
     THEN /\ versions' = IF patch[r].definition = {} THEN versions
                         ELSE Append(versions, patch[r].definition)
          /\ layout' = IF patch[r].nodes = {} THEN layout
                       ELSE [version |-> Len(versions'), nodes |-> patch[r].nodes]
          /\ workflow' = IF patch[r].enabled = "as it is" THEN workflow
                         ELSE [workflow EXCEPT !.enabled = patch[r].enabled = "on"]
          /\ Answer(r, "saved", Len(versions'))
     ELSE /\ Answer(r, IF workflow.status = "live" THEN "conflict" ELSE "error", 0)
          /\ UNCHANGED <<workflow, versions, layout>>
  /\ UNCHANGED tab

(* The answer: the tab goes on from the version it has saved.  After a       *)
(* conflict, an error, or an answer that is lost, it keeps the version it    *)
(* had.  A save that succeeds takes the edits made since for saved.          *)
Receive(r) ==
  /\ patch[r].pc = "answered"
  /\ patch' = [patch EXCEPT ![r] = NoPatch]
  /\ \/ /\ r \in Tabs
        /\ \/ /\ patch[r].answer = "saved"
              /\ tab' = [tab EXCEPT ![r].version = patch[r].version, ![r].dirty = FALSE]
           \/ tab' = [tab EXCEPT ![r].dirty = TRUE]
     \/ r \in Clients /\ UNCHANGED tab
  /\ UNCHANGED <<workflow, versions, layout>>

DefinitionStep ==
  \/ CreateWorkflow \/ DeleteWorkflow
  \/ \E t \in Tabs :
       Load(t) \/ Leave(t) \/ Save(t) \/ \E s \in StepIds : AddStep(t, s)
  \/ \E r \in Clients :
       \/ \E n \in 1..MaxVersions : SendLayout(r, n)
       \/ \E enabled \in {"on", "off"} : SendEnabled(r, enabled)
  \/ \E r \in Senders : CheckPatch(r) \/ ApplyPatch(r) \/ Receive(r)

-------------------------------------------------------------------------------
(* No save takes out a step that another editor has put in, whatever order   *)
(* they load, edit and save in, and whatever answers are lost: a version is  *)
(* made of the one before it.                                                *)
SavesAreBased ==
  \A n \in 1..Current - 1 : versions[n] \subseteq versions[n + 1]

(* A layout stored for the version that is current places every step of it,  *)
(* and nothing else, though it is compared before the row is locked.         *)
LayoutFits ==
  layout # NoLayout /\ layout.version = Current => layout.nodes = Definition
===============================================================================
