------------------------------ MODULE Memberships ------------------------------
(***************************************************************************)
(* Who belongs to the workspace: requests that add, promote, remove and    *)
(* leave.                                                                  *)
(*   lib/memberships/service.ts, lib/workspaces/service.ts                 *)
(*                                                                         *)
(* A request reads the caller's role, the target's row and the number of   *)
(* owners, and writes, in statements of their own and in no transaction.   *)
(***************************************************************************)
EXTENDS Authorization

CONSTANTS
  Calls,  \* requests in progress
  MaxRows \* bound of the model: how often one user joins

ASSUME MembershipsAssumption == MaxRows \in Nat \ {0} /\ IsFiniteSet(Users)

VARIABLE call  \* call[c]: where request c is, and what it has read

NoCall == [pc |-> "idle"]

MembershipInit ==
  /\ workspace = "none"
  /\ member = [u \in Users |-> NotMember(0)]
  /\ call = [c \in Calls |-> NoCall]

Go(c, pc) == call' = [call EXCEPT ![c].pc = pc]
End(c) == call' = [call EXCEPT ![c] = NoCall]

CreateWorkspace(u) ==
  /\ workspace = "none"
  /\ workspace' = "open"
  /\ member' = [member EXCEPT ![u] = [role |-> "OWNER", id |-> 1]]
  /\ UNCHANGED call

-------------------------------------------------------------------------------
(* All that a request keeps of its caller is the role it had.                *)
Request(c, pc, op, as, t, r, seen) ==
  /\ call[c] = NoCall
  /\ call' = [call EXCEPT ![c] =
       [pc |-> pc, op |-> op, as |-> as, target |-> t, to |-> r, seen |-> seen, owners |-> 0]]
  /\ UNCHANGED tenantVars

(* A request that is refused ends at once, here and below, and leaves        *)
(* nothing.                                                                  *)
BeginAdd(c, as, t, r) ==
  /\ CanManage(as, "none", "add")
  /\ r \in {"ADMIN", "MEMBER"} /\ (r = "ADMIN" => as = "OWNER")
  /\ member[t].id < MaxRows
  /\ Request(c, "reading", "add", as, t, r, NotMember(0))

BeginChange(c, as, t, r) ==
  /\ as = "OWNER"
  /\ Request(c, "reading", "change", as, t, r, NotMember(0))

BeginRemove(c, as, t) ==
  /\ as # "none"
  /\ Request(c, "reading", "remove", as, t, "none", NotMember(0))

(* The caller's own row has been read: it is the target.                     *)
BeginLeave(c, a) ==
  /\ Role(a) # "none"
  /\ Request(c, IF Role(a) = "OWNER" THEN "counting" ELSE "writing", "leave", Role(a), a, "none",
             member[a])

BeginDelete(c, a) ==
  /\ Role(a) = "OWNER"
  /\ Request(c, "writing", "delete", Role(a), a, "none", member[a])

Refused(c, seen) ==
  \/ call[c].op = "add" /\ seen.role # "none"
  \/ call[c].op = "change" /\ seen.role = "none"
  \/ /\ call[c].op = "remove"
     /\ seen.role \in {"none", "OWNER"} \/ ~CanManage(call[c].as, seen.role, "remove")

(* Mutated form of TakesAnOwner: an owner may step down uncounted.           *)
NeverCounted(c, seen) == FALSE

TakesAnOwner(c, seen) == call[c].op = "change" /\ seen.role = "OWNER" /\ call[c].to # "OWNER"

ReadTarget(c) ==
  /\ call[c].pc = "reading"
  /\ LET seen == member[call[c].target]
     IN IF Refused(c, seen) THEN End(c)
        ELSE call' = [call EXCEPT ![c].seen = seen,
               ![c].pc = IF TakesAnOwner(c, seen) THEN "counting" ELSE "writing"]
  /\ UNCHANGED tenantVars

CountOwners(c) ==
  /\ call[c].pc = "counting"
  /\ IF Cardinality(Owners) <= 1 THEN End(c)
     ELSE call' = [call EXCEPT ![c].owners = Cardinality(Owners), ![c].pc = "writing"]
  /\ UNCHANGED tenantVars

-------------------------------------------------------------------------------
IsWriting(c, op) == call[c].pc = "writing" /\ call[c].op = op

(* The update and the delete ask for the id of the row alone, and may find   *)
(* none: the request succeeds all the same.                                  *)
IsThere(c) ==
  LET row == member[call[c].target] IN row.role # "none" /\ row.id = call[c].seen.id

(* A second row of one user is refused by the unique index.                  *)
WriteAdd(c) ==
  /\ IsWriting(c, "add")
  /\ LET t == call[c].target
     IN member' = IF workspace = "open" /\ Role(t) = "none"
                  THEN [member EXCEPT ![t] = [role |-> call[c].to, id |-> @.id + 1]]
                  ELSE member
  /\ End(c) /\ UNCHANGED workspace

WriteChange(c) ==
  /\ IsWriting(c, "change")
  /\ member' = IF IsThere(c) THEN [member EXCEPT ![call[c].target].role = call[c].to] ELSE member
  /\ End(c) /\ UNCHANGED workspace

WriteRemoval(c) ==
  /\ IsWriting(c, "remove") \/ IsWriting(c, "leave")
  /\ member' = IF IsThere(c) THEN [member EXCEPT ![call[c].target].role = "none"] ELSE member
  /\ End(c) /\ UNCHANGED workspace

(* The rows of the workspace go with it.                                     *)
WriteDelete(c) ==
  /\ IsWriting(c, "delete")
  /\ workspace' = IF workspace = "open" THEN "deleted" ELSE workspace
  /\ member' = [u \in Users |-> NotMember(member[u].id)]
  /\ End(c)

MembershipStep ==
  \/ \E u \in Users : CreateWorkspace(u)
  \/ \E c \in Calls, as \in {Role(a) : a \in Users}, t \in Users :
       \/ \E r \in Roles : BeginAdd(c, as, t, r) \/ BeginChange(c, as, t, r)
       \/ BeginRemove(c, as, t)
  \/ \E c \in Calls, a \in Users : BeginLeave(c, a) \/ BeginDelete(c, a)
  \/ \E c \in Calls :
       \/ ReadTarget(c) \/ CountOwners(c)
       \/ WriteAdd(c) \/ WriteChange(c) \/ WriteRemoval(c)

-------------------------------------------------------------------------------
(* changeMemberRole and leaveWorkspace: "The workspace must retain an        *)
(* owner."  It does unless the request that takes the last one away writes   *)
(* on what it read before another request changed it: the row it writes had  *)
(* another role, or there were more owners when they were counted.           *)
LastOwnerGoesUnseen ==
  [][Owners # {} /\ Owners' = {} /\ workspace' = "open" =>
       \E c \in Calls :
         /\ call[c].pc = "writing" /\ call'[c] = NoCall
         /\ \/ call[c].seen # member[call[c].target]
            \/ call[c].owners > Cardinality(Owners)]_<<tenantVars, call>>
===============================================================================
