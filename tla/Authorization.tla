----------------------------- MODULE Authorization -----------------------------
(***************************************************************************)
(* One workspace, its membership rows, and what a role may do.             *)
(*   lib/authz/authorization.ts, lib/workspaces/roles.ts                   *)
(***************************************************************************)
EXTENDS Naturals, FiniteSets

CONSTANT Users

VARIABLES
  workspace,  \* the workspace row: "none", "open" or "deleted"
  member      \* member[u]: role of u, and the id of the row that says so

tenantVars == <<workspace, member>>

Roles == {"OWNER", "ADMIN", "MEMBER"}

(* Row ids are counted per user and never used again.                        *)
NotMember(id) == [role |-> "none", id |-> id]
Role(u) == member[u].role
Owners == {u \in Users : Role(u) = "OWNER"}

(* What is left to a MEMBER.                                                 *)
MemberActions ==
  {"workspace.read", "brand.read", "agent.read", "agent.run", "workflow.read", "workflow.run",
   "workflow.cancel", "workflow_approval.read", "workflow_schedule.read",
   "workflow_webhook.read", "integration.read"}

(* canPerformWorkspaceAction; an ADMIN may do all but these two.             *)
CanPerform(role, action) ==
  \/ role = "OWNER"
  \/ role = "ADMIN" /\ action \notin {"workspace.delete", "membership.role"}
  \/ role = "MEMBER" /\ action \in MemberActions

(* requireWorkspaceAction, for some user: it is asked once, when a request   *)
(* comes in.                                                                 *)
SomebodyMay(action) == \E u \in Users : CanPerform(Role(u), action)

(* canManageMembership; target is "none" when there is no row yet.           *)
CanManage(role, target, op) ==
  \/ role = "OWNER"
  \/ role = "ADMIN" /\ op = "add" /\ target = "none"
  \/ role = "ADMIN" /\ op = "remove" /\ target = "MEMBER"
===============================================================================
