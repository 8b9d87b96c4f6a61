----------------------------- MODULE RunLifecycle -----------------------------
(***************************************************************************)
(* What the rest of Flowyn may rely on about one row of workflow_runs,     *)
(* whoever writes it: workers, the approval service, the cancel route.     *)
(* Status, execution token and lease only; no steps and no workers.        *)
(* RunExecution implements this module; Dispatch uses its actions for the  *)
(* run it delivers.                                                        *)
(***************************************************************************)
EXTENDS Naturals

CONSTANT MaxClaims      \* bound of the model: how many tokens are ever issued

ASSUME MaxClaimsAssumption == MaxClaims \in Nat \ {0}

VARIABLES
  status,   \* workflow_runs.status
  owner,    \* workflow_runs.execution_token, NoToken for NULL
  lease,    \* workflow_runs.lease_expires_at, compared with the clock
  issued    \* how many execution tokens randomUUID() has produced

lifecycleVars == <<status, owner, lease, issued>>

NoToken == 0
Token == 1..MaxClaims

(* The status column, and the subset no operation may leave. *)
Terminal == {"COMPLETED", "FAILED", "CANCELLED", "TIMED_OUT", "REJECTED", "EXPIRED"}
Status == {"QUEUED", "RUNNING", "WAITING_APPROVAL", "CANCEL_REQUESTED"} \cup Terminal

(* "due" is the instant of expiry: of two processes that captured `now`     *)
(* around it, one sees the lease as held and another as expired.            *)
Lease == {"none", "live", "due", "lapsed"}

TypeOK ==
  /\ status \in Status
  /\ owner \in Token \cup {NoToken}
  /\ lease \in Lease
  /\ issued \in 0..MaxClaims

Init ==
  /\ status = "QUEUED"
  /\ owner = NoToken
  /\ lease = "none"
  /\ issued = 0

(* A worker takes a queued run, or a running one whose lease has expired.   *)
Claim ==
  /\ status = "QUEUED" \/ (status = "RUNNING" /\ lease = "lapsed")
  /\ issued < MaxClaims
  /\ issued' = issued + 1
  /\ owner' = issued'
  /\ status' = "RUNNING"
  /\ lease' = "live"

(* The owner's heartbeat extends a lease that has not expired.              *)
Renew ==
  /\ status = "RUNNING" /\ lease \in {"live", "due"}
  /\ lease' = "live"
  /\ UNCHANGED <<status, owner, issued>>

(* Time passes without a heartbeat.                                         *)
LeaseTick ==
  /\ status = "RUNNING" /\ lease \in {"live", "due"}
  /\ lease' = IF lease = "live" THEN "due" ELSE "lapsed"
  /\ UNCHANGED <<status, owner, issued>>

(* The owner settles the run; its token stays in the row.                   *)
Finish(verdict) ==
  /\ status \in {"RUNNING", "CANCEL_REQUESTED"}
  /\ status' = verdict
  /\ lease' = "none"
  /\ UNCHANGED <<owner, issued>>

RequestCancel ==
  /\ status \in {"QUEUED", "RUNNING"}
  /\ status' = "CANCEL_REQUESTED"
  /\ UNCHANGED <<owner, lease, issued>>

Pause ==
  /\ status = "RUNNING" /\ lease \in {"live", "due"}
  /\ status' = "WAITING_APPROVAL"
  /\ owner' = NoToken
  /\ lease' = "none"
  /\ UNCHANGED issued

Resume ==
  /\ status = "WAITING_APPROVAL"
  /\ status' = "QUEUED"
  /\ owner' = NoToken
  /\ lease' = "none"
  /\ UNCHANGED issued

Close(verdict) ==
  /\ status = "WAITING_APPROVAL"
  /\ status' = verdict
  /\ owner' = NoToken
  /\ lease' = "none"
  /\ UNCHANGED issued

Next ==
  \/ Claim \/ Renew \/ LeaseTick \/ RequestCancel \/ Pause \/ Resume
  \/ \E verdict \in {"COMPLETED", "FAILED", "CANCELLED", "TIMED_OUT"} : Finish(verdict)
  \/ \E verdict \in {"CANCELLED", "REJECTED", "EXPIRED"} : Close(verdict)

Spec == Init /\ [][Next]_lifecycleVars
===============================================================================
