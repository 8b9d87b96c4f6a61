---------------------------- MODULE UsageAdmission ----------------------------
(***************************************************************************)
(* The durable usage quotas of one workspace: the admission rows           *)
(* workspace_usage_admissions, one per metric and operation key, and the   *)
(* counters workspace_usage_buckets.                                       *)
(*   lib/usage/admission.ts, service.ts, policy.ts, retention.ts           *)
(*                                                                         *)
(* Both tables are one value, the ledger, so that a transaction that       *)
(* admits several operations and fails leaves the ledger it found.         *)
(***************************************************************************)
EXTENDS Integers, FiniteSets

CONSTANTS
  UsageLimit,  \* UsageLimit[m]: the limit of metric m (its domain: the metrics in use)
  Day,         \* ticks in a day; a tick is a minute
  Retention,   \* age in ticks past which maintenance deletes operational rows
  MaxTime      \* bound of the model: the last tick

ASSUME UsageAssumption ==
  /\ \A m \in DOMAIN UsageLimit : UsageLimit[m] \in Nat \ {0}
  /\ Day \in Nat \ {0} /\ Retention \in Nat \ {0} /\ MaxTime \in Nat

VARIABLES
  clock,   \* the time new Date() reads
  ledger   \* [admissions |-> the admission rows, consumed |-> the bucket counters]

Now == 0..MaxTime
Metrics == DOMAIN UsageLimit
MinuteMetrics == {"WEBHOOK_ACCEPTED_MINUTE"}

Bucket(m, now) == IF m \in MinuteMetrics THEN now ELSE now \div Day

EmptyLedger ==
  [admissions |-> {}, consumed |-> [m \in Metrics |-> [b \in Now |-> 0]]]

(* The unique index on (metric, operation key) finds the row of an earlier  *)
(* admission.                                                               *)
IsAdmitted(l, m, key) == \E a \in l.admissions : a.metric = m /\ a.key = key

(* Mutated form of HasRoom: the bucket is compared before it is counted up. *)
HasRoomBeforeCounting(l, m, now) == l.consumed[m][Bucket(m, now)] <= UsageLimit[m]

HasRoom(l, m, now) == l.consumed[m][Bucket(m, now)] + 1 <= UsageLimit[m]

(* Whether admitWorkspaceUsage returns rather than throws.                  *)
CanAdmit(l, m, key, now) == IsAdmitted(l, m, key) \/ HasRoom(l, m, now)

(* The ledger after admitWorkspaceUsage has returned.                       *)
Admit(l, m, key, now) ==
  IF IsAdmitted(l, m, key) THEN l
  ELSE [admissions |-> l.admissions \cup
          {[metric |-> m, key |-> key, bucket |-> Bucket(m, now), created |-> now]},
        consumed |-> [l.consumed EXCEPT ![m][Bucket(m, now)] = @ + 1]]

Cutoff == clock - Retention

(* purgeUsageAdmissions: admissions are deleted, buckets stay.              *)
PurgeAdmissions(l) ==
  [l EXCEPT !.admissions = {a \in @ : a.created >= Cutoff}]

-------------------------------------------------------------------------------
AdmissionsIn(m, b) == {a \in ledger.admissions : a.metric = m /\ a.bucket = b}

(* A bucket counts every admission of its period, none twice, and never     *)
(* passes the limit: what a refused or rolled back operation counted is     *)
(* gone with it, and the deletion of an old admission frees nothing.        *)
UsageIsCharged ==
  \A m \in Metrics, b \in Now :
    /\ Cardinality(AdmissionsIn(m, b)) <= ledger.consumed[m][b]
    /\ ledger.consumed[m][b] <= UsageLimit[m]

Tick ==
  /\ clock < MaxTime
  /\ clock' = clock + 1
===============================================================================
