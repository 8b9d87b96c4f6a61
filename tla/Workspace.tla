------------------------------- MODULE Workspace -------------------------------
(***************************************************************************)
(* What the users of one workspace do to it: memberships, the knowledge of *)
(* a brand and the definition of a workflow, which go when it is deleted;  *)
(* and a run of a definition that was accepted.                            *)
(***************************************************************************)
EXTENDS Memberships, Knowledge, WorkflowDefinitions, WorkflowEditor

vars == <<tenantVars, call, knowledgeVars, definitionVars, walk>>

Init == MembershipInit /\ KnowledgeInit /\ DefinitionsInit /\ GraphInit

(* The delete of the workspace row cascades.                                 *)
DeleteWorkspace(c) ==
  /\ WriteDelete(c)
  /\ Cascade(IF brand = "none" THEN "none" ELSE "deleted") /\ UNCHANGED edit
  /\ WorkflowGone

(* Bound of the model: members come and go before there is a brand or a      *)
(* workflow; after that the only requests to the workspace are to delete it. *)
MembersFirst == brand = "none" /\ workflow.status = "none"

Next ==
  \/ MembersFirst /\ MembershipStep /\ UNCHANGED <<knowledgeVars, definitionVars, walk>>
  \/ \E c \in Calls, a \in Users :
       ~MembersFirst /\ BeginDelete(c, a) /\ UNCHANGED <<knowledgeVars, definitionVars, walk>>
  \/ \E c \in Calls : DeleteWorkspace(c) /\ UNCHANGED walk
  \/ KnowledgeStep /\ UNCHANGED <<tenantVars, call, definitionVars, walk>>
  \/ DefinitionStep /\ UNCHANGED <<tenantVars, call, knowledgeVars, walk>>
  \/ Take /\ UNCHANGED <<tenantVars, call, knowledgeVars, definitionVars>>

Spec == Init /\ [][Next]_vars

===============================================================================
