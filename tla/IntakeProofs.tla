----------------------------- MODULE IntakeProofs -----------------------------
(***************************************************************************)
(* What a workspace can rely on however its users, schedules and webhooks  *)
(* start runs side by side: quotas are charged and kept, what says it      *)
(* triggered has its run, an event starts one run, and a schedule fires on *)
(* time and makes up for one instant at most.                              *)
(***************************************************************************)
EXTENDS Intake, FiniteSetTheorems, TLAPS

(* A schedule's row has the field of its type.                               *)
Sound(row) ==
  /\ row.type = "INTERVAL" => row.every \in Nat \ {0}
  /\ row.type = "ONE_TIME" => row.runAt \in Nat

Instants == Nat \cup {Never}
AnyRow ==
  [status : {"live"}, enabled : BOOLEAN, type : {"CRON", "INTERVAL", "ONE_TIME"},
   every : Instants, runAt : Instants, misfire : {"SKIP", "FIRE_ONCE"},
   next : Instants, processed : BOOLEAN]
LiveRow == {row \in AnyRow : Sound(row)}

(* What a call is about to write agrees with itself.                         *)
OwnRow == {row \in LiveRow : ~IsMismatched(row)}

(* The keys of runs, by what starts them.                                    *)
DedupeKeys ==
  ({"event"} \X Events \X {0}) \cup ({"payload"} \X (Payloads \ Events) \X Nat)
UserKeys == {"user"} \X ClientKeys
ScheduleKeys == {"schedule"} \X Schedules \X Nat
WebhookKeys == {"webhook"} \X Triggers \X DedupeKeys
RunKeys == UserKeys \cup ScheduleKeys \cup WebhookKeys

Statuses == {"TRIGGERED", "SKIPPED", "FAILED"}
Occurrence ==
  [schedule : Schedules, at : Nat, status : Statuses, run : RunKeys \cup {"none"}, created : Now]
Event ==
  [trigger : Triggers, key : DedupeKeys, status : Statuses, run : RunKeys \cup {"none"},
   workflow : Workflows, expires : Nat]

(* The calls in flight.                                                      *)
Idle == [pc |-> "idle"]
Request == [pc : {"checked", "inserting"}, workflow : Workflows, key : UserKeys]
Creation == [pc : {"read", "counted"}, op : {"create"}, schedule : Schedules, row : OwnRow]
Enabling == [pc : {"read", "counted"}, op : {"enable"}, schedule : Schedules]
Edit == [pc : {"read"}, op : {"edit", "input"}, schedule : Schedules, row : OwnRow]
Delivery ==
  [pc : {"verified"}, trigger : Triggers, workflow : Workflows, key : DedupeKeys, now : Now]

AdmissionTypeOK ==
  /\ workflow \in [Workflows -> WorkflowStates]
  /\ runs \subseteq [key : RunKeys, workflow : Workflows]
  /\ dispatches \subseteq RunKeys
  /\ request \in [Requesters -> Request \cup {NoRequest}]

ScheduleTypeOK ==
  /\ schedule \in [Schedules -> LiveRow \cup {NoSchedule, Deleted}]
  /\ editor \in [Editors -> Creation \cup Enabling \cup Edit \cup {Idle}]
  /\ scheduler \in [Schedulers -> [due : SUBSET Schedules, now : Now]]
  /\ occurrences \subseteq Occurrence
  /\ offTime \subseteq Schedules \X Nat

TriggerRow == [status : {"live"}, enabled : BOOLEAN, workflow : Workflows, secret : Nat]
WebhookTypeOK ==
  /\ trigger \in [Triggers -> TriggerRow \cup {NoTrigger, DeletedTrigger}]
  /\ events \subseteq Event
  /\ delivery \in [Deliveries -> Delivery \cup {NoDelivery}]

TypeOK == clock \in Now /\ AdmissionTypeOK /\ ScheduleTypeOK /\ WebhookTypeOK

(* A ledger: finitely many admissions, charged within the limit.             *)
In(l, m, b) == {a \in l.admissions : a.metric = m /\ a.bucket = b}
LedgerOK(l) ==
  /\ l = [admissions |-> l.admissions, consumed |-> l.consumed]
  /\ IsFiniteSet(l.admissions)
  /\ l.consumed \in [Metrics -> [Now -> Nat]]
  /\ \A m \in Metrics, b \in Now :
       /\ Cardinality(In(l, m, b)) <= l.consumed[m][b]
       /\ l.consumed[m][b] <= UsageLimit[m]
LedgerInv == LedgerOK(ledger)

(* Whoever has counted holds the workspace, and what it counted leaves room. *)
Counted(e) == editor[e].pc = "counted"
QuotaInv ==
  /\ IsFiniteSet(Active)
  /\ ActiveWithinQuota
  /\ \A e \in Editors : Counted(e) => Cardinality(Active) < ActiveLimit
  /\ \A e, f \in Editors : Counted(e) /\ Counted(f) => e = f
  /\ \A e \in Editors : editor[e].pc # "idle" /\ editor[e].op \in {"enable", "edit", "input"} =>
       schedule[editor[e].schedule] # NoSchedule

(* No poll happens before its time, and what it records has come by then or  *)
(* is known to be off its time.                                              *)
TimesInv ==
  /\ \A p \in Schedulers : scheduler[p].due # {} => scheduler[p].now <= clock
  /\ \A o \in occurrences : o.at <= o.created \/ <<o.schedule, o.at>> \in offTime

(* A scheduled instant has been dealt with: it is recorded, or it is too old *)
(* to trigger for the polls under way and for all later ones, or it was once *)
(* recorded off its time.                                                    *)
Recorded(s, at) == \E o \in occurrences : o.schedule = s /\ o.at = at
TooOld(at) ==
  /\ clock - at > Grace
  /\ \A p \in Schedulers : scheduler[p].due # {} => scheduler[p].now - at > Grace
DealtWith(s, at) == Recorded(s, at) \/ TooOld(at) \/ <<s, at>> \in offTime

(* One run has a key; only a schedule's run can be without a dispatch row,   *)
(* and then its instant has been dealt with.                                 *)
RunsInv ==
  /\ \A r, q \in runs : r.key = q.key => r = q
  /\ \A r \in runs :
       /\ r.key \notin ScheduleKeys => r.key \in dispatches
       /\ r.key \in ScheduleKeys =>
            /\ r.workflow = ScheduleOwner[r.key[2]]
            /\ r.key \in dispatches \/ DealtWith(r.key[2], r.key[3])

IInv == TypeOK /\ LedgerInv /\ QuotaInv /\ TimesInv /\ RunsInv /\ TriggeredHasItsRun

-------------------------------------------------------------------------------
(* Sets of instants have a least and, below a bound, a greatest member.      *)
LEMMA LeastInstant ==
  ASSUME NEW T \in SUBSET Nat, T # {}
  PROVE  Min(T) \in T /\ \A t \in T : Min(T) <= t
<1> DEFINE Before == {ss \in Nat \X Nat : ss[1] < ss[2]}
<1>1. IsWellFoundedOn(Before, Nat)
  BY NatLessThanWellFounded DEF OpToRel
<1>2. PICK x \in T : \A y \in T : ~(<<y, x>> \in Before)
  <2> HIDE DEF Before
  <2> QED BY <1>1, WFMin
<1>3. ASSUME NEW y \in T PROVE x <= y
  <2>1. x \in Nat /\ y \in Nat /\ <<y, x>> \in Nat \X Nat /\ <<y, x>>[1] = y /\ <<y, x>>[2] = x
    OBVIOUS
  <2>2. ~(<<y, x>>[1] < <<y, x>>[2])
    BY <1>2, <2>1, Zenon
  <2> QED BY <2>1, <2>2
<1> QED BY <1>3 DEF Min

LEMMA GreatestInstant ==
  ASSUME NEW T \in SUBSET Nat, T # {}, NEW n \in Nat, \A t \in T : t <= n
  PROVE  Max(T) \in T /\ \A t \in T : Max(T) >= t
<1> DEFINE U == {n - t : t \in T}
<1>1. U \in SUBSET Nat /\ U # {}
  OBVIOUS
<1>2. PICK t \in T : Min(U) = n - t
  BY <1>1, LeastInstant
<1>3. \A y \in T : n - y \in U
  OBVIOUS
<1>4. \A y \in T : t >= y
  BY <1>1, <1>2, <1>3, LeastInstant
<1> QED BY <1>4 DEF Max

(* Flooring to a whole number of intervals loses less than one of them.      *)
LEMMA Intervals ==
  ASSUME NEW a \in Nat, NEW b \in Nat \ {0}
  PROVE  /\ a \div b \in Nat /\ (a \div b) * b \in Nat
         /\ (a \div b) * b <= a /\ a < (a \div b + 1) * b
<1>1. a \div b \in Nat /\ a % b \in 0 .. b - 1 /\ a = b * (a \div b) + (a % b)
  BY SMT
<1> DEFINE q == a \div b
<1>2. q \in Nat /\ b * q \in Nat /\ q * b = b * q /\ (q + 1) * b = b * q + b
  BY <1>1
<1> HIDE DEF q
<1> QED BY <1>1, <1>2 DEF q

(* The instants a recurring schedule moves between are instants of its type. *)
LEMMA CronNeighbours ==
  ASSUME NEW now \in Now
  PROVE  /\ CronNext(now) \in CronInstants /\ CronNext(now) > now
         /\ \A t \in CronInstants : t <= now =>
              CronPrev(now + 1) \in CronInstants /\ CronPrev(now + 1) <= now
<1>0. now \in Nat /\ CronInstants \subseteq Nat
  BY UsageAssumption, CalculatorAssumption DEF Now
<1>1. CronNext(now) \in CronInstants /\ CronNext(now) > now
  <2> DEFINE T == {t \in CronInstants : t > now}
  <2>1. T \in SUBSET Nat /\ T # {}
    <3>1. \E t \in CronInstants : t > now
      BY SchedulesAssumption
    <3> QED BY <1>0, <3>1
  <2>2. Min(T) \in T
    <3> HIDE DEF T
    <3> QED BY <2>1, LeastInstant
  <2>3. CronNext(now) \in T
    BY <2>2 DEF CronNext
  <2> QED BY <2>3
<1>2. ASSUME NEW t \in CronInstants, t <= now
      PROVE  CronPrev(now + 1) \in CronInstants /\ CronPrev(now + 1) <= now
  <2> DEFINE T == {u \in CronInstants : u < now + 1}
  <2>1. T \in SUBSET Nat /\ \A u \in T : u <= now
    <3>1. ASSUME NEW u \in T PROVE u \in Nat /\ u <= now
      <4>1. u \in CronInstants /\ u < now + 1
        OBVIOUS
      <4>2. u \in Nat
        BY <1>0, <4>1
      <4> QED BY <1>0, <4>1, <4>2
    <3> QED BY <3>1
  <2>4. t \in T
    BY <1>0, <1>2
  <2>2. Max(T) \in T
    <3> HIDE DEF T
    <3> QED BY <1>0, <2>1, <2>4, GreatestInstant
  <2>3. CronPrev(now + 1) \in T
    BY <2>2 DEF CronPrev
  <2>5. ASSUME NEW u \in T PROVE u \in CronInstants /\ u <= now
    BY <2>1
  <2> HIDE DEF T
  <2> QED BY <2>3, <2>5
<1> QED BY <1>1, <1>2

LEMMA LatestInstant ==
  ASSUME NEW row \in LiveRow, row.type # "ONE_TIME", NEW now \in Now, IsDue(row, now)
  PROVE  LET latest == calculateLatestRunAt(row, now)
         IN  /\ latest \in Nat /\ latest <= now
             /\ row.type = "CRON" => latest \in CronInstants
<1>0. now \in Nat /\ CronInstants \subseteq Nat
  BY UsageAssumption, CalculatorAssumption DEF Now
<1>1. CASE row.type = "CRON"
  <2>1. 0 \in CronInstants /\ 0 <= now
    BY <1>0, SchedulesAssumption
  <2> QED BY <1>0, <1>1, <2>1, CronNeighbours DEF calculateLatestRunAt
<1>2. CASE row.type = "INTERVAL"
  <2>1. row.next \in Nat /\ row.every \in Nat \ {0} /\ row.next <= now
    BY <1>2 DEF LiveRow, AnyRow, Instants, Sound, IsDue
  <2>2. now - row.next \in Nat
    BY <1>0, <2>1
  <2> DEFINE lost == ((now - row.next) \div row.every) * row.every
  <2>3. lost \in Nat /\ lost <= now - row.next
    BY <2>1, <2>2, Intervals
  <2>4. calculateLatestRunAt(row, now) = row.next + lost
    BY <1>2 DEF calculateLatestRunAt
  <2> HIDE DEF lost
  <2> QED BY <1>0, <1>2, <2>1, <2>3, <2>4
<1> QED BY <1>1, <1>2 DEF LiveRow, AnyRow

LEMMA FollowingInstant ==
  ASSUME NEW row \in LiveRow, row.type # "ONE_TIME", NEW now \in Now, NEW at \in Nat, at <= now
  PROVE  LET following == calculateFollowingRunAt(row, at, now)
         IN  /\ following \in Nat /\ following > now
             /\ row.type = "CRON" => following \in CronInstants
<1>0. now \in Nat /\ CronInstants \subseteq Nat
  BY UsageAssumption, CalculatorAssumption DEF Now
<1>1. CASE row.type = "CRON"
  BY <1>0, <1>1, CronNeighbours DEF calculateFollowingRunAt
<1>2. CASE row.type = "INTERVAL"
  <2>1. row.every \in Nat \ {0} /\ now - at \in Nat
    BY <1>0, <1>2 DEF LiveRow, Sound
  <2> DEFINE times == (now - at) \div row.every
  <2>2. times \in Nat /\ now - at < (times + 1) * row.every
    BY <2>1, Intervals
  <2>3. calculateFollowingRunAt(row, at, now) = at + (times + 1) * row.every
    BY <1>2 DEF calculateFollowingRunAt
  <2> HIDE DEF times
  <2>4. (times + 1) * row.every \in Nat
    BY <2>1, <2>2
  <2> QED BY <1>0, <1>2, <2>2, <2>3, <2>4
<1> QED BY <1>1, <1>2 DEF LiveRow, AnyRow

(* The decision for a due schedule, and its row after that: unless the row   *)
(* was mismatched, an instant that has come, not longer ago than the grace   *)
(* period if it triggers; a next one that has not; and no mismatch any more. *)
LEMMA DueDecision ==
  ASSUME NEW row \in LiveRow, NEW now \in Now, IsDue(row, now)
  PROVE  LET d == calculateDueSchedule(row, now)
         IN  /\ d.at \in Nat
             /\ ~IsMismatched(row) =>
                  /\ IsOnTime(d, now)
                  /\ row.type = "CRON" /\ d.action = "TRIGGER" => d.at \in CronInstants
             /\ d.terminal \in BOOLEAN
             /\ d.next # Never => d.next > now
             /\ [row EXCEPT !.next = d.next] \in OwnRow
<1>0. now \in Nat /\ CronInstants \subseteq Nat /\ Never \notin Nat /\ row.next \in Nat
      /\ row.next <= now /\ row.next # Never /\ row.status = "live" /\ row \in AnyRow /\ Sound(row)
  BY UsageAssumption, CalculatorAssumption DEF Now, IsDue, LiveRow, AnyRow, Instants
<1>1. CASE row.type = "ONE_TIME"
  <2>1. row.runAt \in Nat /\ (~IsMismatched(row) => row.next = row.runAt)
    BY <1>0, <1>1 DEF Sound, IsMismatched
  <2>2. calculateDueSchedule(row, now) =
          Decision(IF WithinGrace(row.next, now) THEN "TRIGGER" ELSE "SKIP", row.runAt, Never, TRUE)
    BY <1>1 DEF calculateDueSchedule
  <2>3. [row EXCEPT !.next = Never] \in OwnRow
    BY <1>0, <1>1 DEF OwnRow, LiveRow, Sound, AnyRow, Instants, IsMismatched
  <2> QED BY <1>0, <1>1, <2>1, <2>2, <2>3 DEF Decision, WithinGrace, IsOnTime
<1>2. CASE row.type # "ONE_TIME"
  <2> DEFINE latest == calculateLatestRunAt(row, now)
             Choice(action, at) == Decision(action, at, calculateFollowingRunAt(row, at, now), FALSE)
             OfTheCalendar(at) == row.type = "CRON" => at \in CronInstants
             Fits(d) == /\ d.at \in Nat
                        /\ ~IsMismatched(row) =>
                             /\ IsOnTime(d, now)
                             /\ d.action = "TRIGGER" => OfTheCalendar(d.at)
                        /\ d.terminal \in BOOLEAN
                        /\ d.next # Never => d.next > now
                        /\ [row EXCEPT !.next = d.next] \in OwnRow
  <2>1. latest \in Nat /\ latest <= now /\ OfTheCalendar(latest)
    BY <1>2, LatestInstant
  <2>2. ASSUME NEW at \in Nat, at <= now, NEW action,
               action = "TRIGGER" => WithinGrace(at, now) /\ (~IsMismatched(row) => OfTheCalendar(at))
        PROVE  Fits(Choice(action, at))
    <3>1. /\ calculateFollowingRunAt(row, at, now) \in Nat
          /\ calculateFollowingRunAt(row, at, now) > now
          /\ row.type = "CRON" => calculateFollowingRunAt(row, at, now) \in CronInstants
      BY <1>2, <2>2, FollowingInstant
    <3> DEFINE following == calculateFollowingRunAt(row, at, now)
    <3> HIDE DEF following
    <3>3. [row EXCEPT !.next = following] \in OwnRow
      BY <1>0, <1>2, <3>1 DEF OwnRow, LiveRow, Sound, AnyRow, Instants, IsMismatched, following
    <3> HIDE DEF OfTheCalendar
    <3>4. Choice(action, at).next = following /\ Choice(action, at).at = at
          /\ Choice(action, at).action = action /\ Choice(action, at).terminal = FALSE
      BY DEF Decision, following
    <3>5. ~IsMismatched(row) => IsOnTime(Choice(action, at), now) /\ (action = "TRIGGER" => OfTheCalendar(at))
      <4> HIDE DEF Choice
      <4> QED BY <2>2, <3>4 DEF WithinGrace, IsOnTime
    <3>6. following > now
      BY <3>1 DEF following
    <3> HIDE DEF Choice
    <3> QED BY <2>2, <3>3, <3>4, <3>5, <3>6
  <2>3. \/ /\ WithinGrace(row.next, now)
           /\ calculateDueSchedule(row, now) = Choice("TRIGGER", row.next)
        \/ /\ WithinGrace(latest, now)
           /\ calculateDueSchedule(row, now) = Choice("TRIGGER", latest)
        \/ calculateDueSchedule(row, now) = Choice("SKIP", row.next)
    BY <1>2 DEF calculateDueSchedule
  <2>4. ~IsMismatched(row) => OfTheCalendar(row.next)
    BY <1>0 DEF IsMismatched
  <2> HIDE DEF latest, Choice, Fits, OfTheCalendar
  <2>5. Fits(calculateDueSchedule(row, now))
    BY <1>0, <2>1, <2>2, <2>3, <2>4
  <2> QED BY <2>5 DEF Fits, OfTheCalendar
<1> QED BY <1>1, <1>2

-------------------------------------------------------------------------------
(* The ledger.                                                               *)
LEMMA BucketOfTheTime ==
  ASSUME NEW m, NEW now \in Now
  PROVE  Bucket(m, now) \in Now
<1>1. now \in Nat /\ now <= MaxTime /\ MaxTime \in Nat /\ Day \in Nat \ {0}
  BY UsageAssumption DEF Now
<1>2. now \div Day \in Nat /\ now \div Day <= now
  <2>1. now \div Day \in Nat /\ (now \div Day) * Day <= now
    BY <1>1, Intervals
  <2> DEFINE q == now \div Day
  <2>2. q \in Nat /\ q * Day <= now
    BY <2>1
  <2> HIDE DEF q
  <2>3. q <= q * Day
    BY <1>1, <2>2
  <2>4. q <= now
    BY <1>1, <2>2, <2>3
  <2> QED BY <2>1, <2>4 DEF q
<1> QED BY <1>1, <1>2 DEF Bucket, Now

(* An operation that is let in is charged, once, and within the limit.       *)
LEMMA AdmitKeeps ==
  ASSUME NEW l, LedgerOK(l), NEW m \in Metrics, NEW key, NEW now \in Now,
         CanAdmit(l, m, key, now)
  PROVE  LedgerOK(Admit(l, m, key, now)) /\ IsAdmitted(Admit(l, m, key, now), m, key)
<1> DEFINE k == Admit(l, m, key, now)
           at == Bucket(m, now)
           row == [metric |-> m, key |-> key, bucket |-> at, created |-> now]
<1>0. at \in Now
  BY BucketOfTheTime
<1>1. CASE IsAdmitted(l, m, key)
  BY <1>1 DEF Admit
<1>2. CASE ~IsAdmitted(l, m, key)
  <2>1. k = [admissions |-> l.admissions \cup {row},
             consumed |-> [l.consumed EXCEPT ![m][at] = @ + 1]]
    BY <1>2 DEF Admit
  <2>0. /\ k.admissions = l.admissions \cup {row}
        /\ k.consumed = [l.consumed EXCEPT ![m][at] = @ + 1]
    BY <2>1
  <2>8. row.metric = m /\ row.bucket = at /\ row.key = key
    OBVIOUS
  <2> HIDE DEF k, row
  <2>2. l.consumed \in [Metrics -> [Now -> Nat]] /\ l.consumed[m][at] + 1 <= UsageLimit[m]
    BY <1>2 DEF CanAdmit, HasRoom, LedgerOK
  <2>3. IsFiniteSet(k.admissions)
    <3>1. IsFiniteSet(l.admissions)
      BY DEF LedgerOK
    <3> QED BY <2>0, <3>1, FS_AddElement
  <2>4. k.consumed \in [Metrics -> [Now -> Nat]]
    BY <1>0, <2>0, <2>2
  <2>5. ASSUME NEW n \in Metrics, NEW b \in Now
        PROVE  Cardinality(In(k, n, b)) <= k.consumed[n][b] /\ k.consumed[n][b] <= UsageLimit[n]
    <3>1. IsFiniteSet(In(l, n, b)) /\ Cardinality(In(l, n, b)) \in Nat
      BY FS_Subset, FS_CardinalityType DEF In, LedgerOK
    <3>2. /\ Cardinality(In(l, n, b)) <= l.consumed[n][b]
          /\ l.consumed[n][b] <= UsageLimit[n] /\ l.consumed[n][b] \in Nat
      BY DEF LedgerOK
    <3>3. CASE n = m /\ b = at
      <4>1. In(k, n, b) = In(l, n, b) \cup {row}
        BY <2>0, <2>8, <3>3 DEF In
      <4>2. /\ Cardinality(In(k, n, b)) <= Cardinality(In(l, n, b)) + 1
            /\ Cardinality(In(k, n, b)) \in Nat
        <5> DEFINE old == In(l, n, b)
        <5>1. IsFiniteSet(old) /\ Cardinality(old) \in Nat
          BY <3>1
        <5> HIDE DEF old
        <5>2. Cardinality(old \cup {row}) = IF row \in old THEN Cardinality(old) ELSE Cardinality(old) + 1
          BY <5>1, FS_AddElement
        <5>3. /\ Cardinality(old \cup {row}) <= Cardinality(old) + 1
              /\ Cardinality(old \cup {row}) \in Nat
          BY <5>1, <5>2
        <5> QED BY <4>1, <5>3 DEF old
      <4>3. k.consumed[n][b] = l.consumed[n][b] + 1
        BY <1>0, <2>0, <2>2, <3>3
      <4> QED BY <2>2, <3>1, <3>2, <3>3, <4>2, <4>3
    <3>4. CASE ~(n = m /\ b = at)
      <4>1. In(k, n, b) = In(l, n, b)
        BY <2>0, <2>8, <3>4 DEF In
      <4>2. k.consumed[n][b] = l.consumed[n][b]
        BY <1>0, <2>0, <2>2, <3>4
      <4> QED BY <3>2, <4>1, <4>2
    <3> QED BY <3>3, <3>4
  <2>6. LedgerOK(k)
    <3>1. k = [admissions |-> k.admissions, consumed |-> k.consumed]
      BY <2>1, <2>0
    <3> QED BY <2>3, <2>4, <2>5, <3>1 DEF LedgerOK
  <2>7. IsAdmitted(k, m, key)
    BY <2>0, <2>8 DEF IsAdmitted
  <2> QED BY <2>6, <2>7 DEF k
<1> QED BY <1>1, <1>2

(* What is deleted later gives nothing back.                                 *)
LEMMA PurgeKeeps ==
  ASSUME NEW l, LedgerOK(l)
  PROVE  LedgerOK(PurgeAdmissions(l))
<1> DEFINE k == PurgeAdmissions(l)
           kept == {a \in l.admissions : a.created >= Cutoff}
<1>1. k = [admissions |-> kept, consumed |-> l.consumed]
  <2>1. l = [admissions |-> l.admissions, consumed |-> l.consumed]
    BY DEF LedgerOK
  <2>2. k = [l EXCEPT !.admissions = kept]
    BY DEF PurgeAdmissions
  <2> HIDE DEF k, kept
  <2> QED BY <2>1, <2>2
<1>2. IsFiniteSet(kept)
  BY FS_Subset DEF LedgerOK
<1>3. ASSUME NEW m \in Metrics, NEW b \in Now
      PROVE  Cardinality(In(k, m, b)) <= k.consumed[m][b] /\ k.consumed[m][b] <= UsageLimit[m]
  <2>1. IsFiniteSet(In(l, m, b)) /\ In(k, m, b) \in SUBSET In(l, m, b)
    BY <1>1, FS_Subset DEF In, LedgerOK
  <2>2. /\ Cardinality(In(k, m, b)) \in Nat /\ Cardinality(In(l, m, b)) \in Nat
        /\ Cardinality(In(k, m, b)) <= Cardinality(In(l, m, b))
    BY <2>1, FS_Subset, FS_CardinalityType
  <2>3. /\ k.consumed = l.consumed /\ Cardinality(In(l, m, b)) <= l.consumed[m][b]
        /\ l.consumed[m][b] <= UsageLimit[m] /\ l.consumed[m][b] \in Nat
    BY <1>1 DEF LedgerOK
  <2> HIDE DEF k
  <2> QED BY <2>2, <2>3
<1> QED BY <1>1, <1>2, <1>3 DEF LedgerOK

LEMMA EmptyLedgerOK == LedgerOK(EmptyLedger)
<1>1. EmptyLedger.admissions = {} /\ \A m \in Metrics, b \in Now : EmptyLedger.consumed[m][b] = 0
  BY DEF EmptyLedger
<1>2. ASSUME NEW m, NEW b PROVE In(EmptyLedger, m, b) = {}
  BY <1>1 DEF In
<1> QED BY <1>1, <1>2, FS_EmptySet, UsageAssumption DEF LedgerOK, EmptyLedger, Metrics

-------------------------------------------------------------------------------
(* The runs.                                                                 *)
(* After a start there is one run of the key, new only together with its     *)
(* dispatch row and its charge.                                              *)
LEMMA StartKeeps ==
  ASSUME TypeOK, RunsInv, NEW l, LedgerOK(l), NEW key \in RunKeys, NEW w \in Workflows,
         NEW now \in Now, MayStart(l, key, now), StartRun(l, key, w, now)
  PROVE  /\ LedgerOK(ledger')
         /\ runs' \subseteq [key : RunKeys, workflow : Workflows]
         /\ dispatches' \subseteq RunKeys
         /\ runs \subseteq runs' /\ dispatches \subseteq dispatches'
         /\ \A r, q \in runs' : r.key = q.key => r = q
         /\ \A r \in runs' \ runs : r = [key |-> key, workflow |-> w] /\ r.key \in dispatches'
         /\ ~HasRun(key) => [key |-> key, workflow |-> w] \in runs' /\ key \in dispatches'
         /\ \A new \in dispatches' \ dispatches :
              new = key /\ IsAdmitted(ledger', "WORKFLOW_START_DAY", OperationKey(new))
<1>0. /\ runs \subseteq [key : RunKeys, workflow : Workflows] /\ dispatches \subseteq RunKeys
      /\ \A r, q \in runs : r.key = q.key => r = q
  BY DEF TypeOK, AdmissionTypeOK, RunsInv
<1>1. CASE HasRun(key)
  <2>1. runs' = runs /\ dispatches' = dispatches /\ ledger' = l
    BY <1>1 DEF StartRun, Inserted
  <2> QED BY <1>0, <1>1, <2>1
<1>2. CASE ~HasRun(key)
  <2> DEFINE run == [key |-> key, workflow |-> w]
  <2>1. /\ runs' = runs \cup {run} /\ dispatches' = dispatches \cup {key}
        /\ ledger' = Admit(l, "WORKFLOW_START_DAY", OperationKey(key), now)
    BY <1>2 DEF StartRun, Inserted, Started
  <2>2. CanAdmit(l, "WORKFLOW_START_DAY", OperationKey(key), now)
    BY <1>2 DEF MayStart
  <2>3. LedgerOK(ledger') /\ IsAdmitted(ledger', "WORKFLOW_START_DAY", OperationKey(key))
    BY <2>1, <2>2, AdmitKeeps, StartMetricAssumption
  <2>4. \A r \in runs : r.key # key
    BY <1>2 DEF HasRun, RunsWithKey
  <2>5. run \in [key : RunKeys, workflow : Workflows] /\ run.key = key
    OBVIOUS
  <2> HIDE DEF run
  <2>6. \A r, q \in runs' : r.key = q.key => r = q
    BY <1>0, <2>1, <2>4, <2>5
  <2>7. \A new \in dispatches' \ dispatches : new = key
    BY <2>1
  <2>8. \A r \in runs' \ runs : r = run /\ r.key \in dispatches'
    BY <2>1, <2>5
  <2>9. runs' \subseteq [key : RunKeys, workflow : Workflows] /\ dispatches' \subseteq RunKeys
    BY <1>0, <2>1, <2>5
  <2> QED BY <2>1, <2>3, <2>6, <2>7, <2>8, <2>9 DEF run
<1> QED BY <1>1, <1>2

(* Nothing that has been dealt with comes back while nothing is deleted.     *)
SchedulersMoveOn ==
  \A p \in Schedulers : scheduler'[p].due # {} =>
    \/ scheduler[p].due # {} /\ scheduler'[p].now = scheduler[p].now
    \/ scheduler'[p].now = clock

LEMMA DealtWithLasts ==
  ASSUME TypeOK, clock' \in Now, clock' >= clock, occurrences \subseteq occurrences', SchedulersMoveOn,
         offTime \subseteq offTime', NEW s, NEW at \in Nat, DealtWith(s, at)
  PROVE  DealtWith(s, at)'
<1>1. CASE Recorded(s, at)
  BY <1>1 DEF DealtWith, Recorded
<1>2. CASE TooOld(at)
  <2>1. clock \in Nat /\ clock' \in Nat /\ Grace \in Nat
    BY UsageAssumption, CalculatorAssumption DEF TypeOK, Now
  <2>2. clock' - at > Grace
    BY <1>2, <2>1 DEF TooOld
  <2>3. ASSUME NEW p \in Schedulers, scheduler'[p].due # {}
        PROVE  scheduler'[p].now - at > Grace
    BY <1>2, <2>1, <2>3 DEF TooOld, SchedulersMoveOn
  <2> QED BY <2>2, <2>3 DEF DealtWith, TooOld
<1>3. CASE <<s, at>> \in offTime
  BY <1>3 DEF DealtWith
<1> QED BY <1>1, <1>2, <1>3 DEF DealtWith

(* What happened stays true as long as rows are added only.                  *)
LEMMA HistoryLasts ==
  ASSUME TypeOK, RunsInv, clock' \in Now, clock' >= clock,
         occurrences \subseteq occurrences', offTime \subseteq offTime', SchedulersMoveOn,
         runs \subseteq runs', dispatches \subseteq dispatches',
         runs' \subseteq [key : RunKeys, workflow : Workflows],
         \A r, q \in runs' : r.key = q.key => r = q,
         \A r \in runs' \ runs :
           /\ r.key \notin ScheduleKeys => r.key \in dispatches'
           /\ r.key \in ScheduleKeys =>
                /\ r.workflow = ScheduleOwner[r.key[2]]
                /\ r.key \in dispatches' \/ Recorded(r.key[2], r.key[3])'
  PROVE  RunsInv'
<1>1. ASSUME NEW r \in runs'
      PROVE  /\ r.key \notin ScheduleKeys => r.key \in dispatches'
             /\ r.key \in ScheduleKeys =>
                  /\ r.workflow = ScheduleOwner[r.key[2]]
                  /\ r.key \in dispatches' \/ DealtWith(r.key[2], r.key[3])'
  <2>1. CASE r \in runs
    <3>1. /\ r.key \notin ScheduleKeys => r.key \in dispatches'
          /\ r.key \in ScheduleKeys =>
               /\ r.workflow = ScheduleOwner[r.key[2]]
               /\ r.key \in dispatches' \/ DealtWith(r.key[2], r.key[3])
      BY <2>1 DEF RunsInv
    <3>2. r.key \in ScheduleKeys => r.key[3] \in Nat
      BY DEF ScheduleKeys
    <3>3. r.key \in ScheduleKeys /\ DealtWith(r.key[2], r.key[3]) => DealtWith(r.key[2], r.key[3])'
      BY <3>2, DealtWithLasts
    <3> QED BY <3>1, <3>3
  <2>2. CASE r \notin runs
    <3>1. r.key \in ScheduleKeys /\ Recorded(r.key[2], r.key[3])' => DealtWith(r.key[2], r.key[3])'
      BY DEF DealtWith
    <3> QED BY <2>2, <3>1
  <2> QED BY <2>1, <2>2
<1> QED BY <1>1 DEF RunsInv

LEMMA TriggeredLasts ==
  ASSUME TriggeredHasItsRun, runs \subseteq runs', dispatches \subseteq dispatches',
         offTime \subseteq offTime',
         \A o \in occurrences' \ occurrences : o.status = "TRIGGERED" =>
           /\ [key |-> o.run, workflow |-> ScheduleOwner[o.schedule]] \in runs'
           /\ o.run \in dispatches' \/ <<o.schedule, o.at>> \in offTime',
         \A ev \in events' \ events : ev.status = "TRIGGERED" =>
           /\ [key |-> ev.run, workflow |-> ev.workflow] \in runs'
           /\ ev.run \in dispatches'
  PROVE  TriggeredHasItsRun'
<1>1. ASSUME NEW o \in occurrences', o.status = "TRIGGERED"
      PROVE  /\ [key |-> o.run, workflow |-> ScheduleOwner[o.schedule]] \in runs'
             /\ o.run \in dispatches' \/ <<o.schedule, o.at>> \in offTime'
  BY <1>1 DEF TriggeredHasItsRun
<1>2. ASSUME NEW ev \in events', ev.status = "TRIGGERED"
      PROVE  /\ [key |-> ev.run, workflow |-> ev.workflow] \in runs'
             /\ ev.run \in dispatches'
  BY <1>2 DEF TriggeredHasItsRun
<1> QED BY <1>1, <1>2 DEF TriggeredHasItsRun

(* What a step leaves alone keeps its part of the invariant.                 *)
LEMMA SchedulesLeftAlone ==
  ASSUME IInv, UNCHANGED <<clock, scheduleVars>>
  PROVE  /\ ScheduleTypeOK' /\ (clock \in Now)' /\ QuotaInv' /\ TimesInv' /\ SchedulersMoveOn
         /\ clock' >= clock /\ occurrences' = occurrences /\ offTime' = offTime
<1>1. clock' = clock /\ clock \in Now /\ clock \in Nat
  BY UsageAssumption DEF IInv, TypeOK, Now
<1>2. ScheduleTypeOK' /\ occurrences' = occurrences /\ offTime' = offTime /\ SchedulersMoveOn
  BY DEF IInv, TypeOK, ScheduleTypeOK, SchedulersMoveOn, scheduleVars
<1>3. QuotaInv'
  BY DEF IInv, QuotaInv, ActiveWithinQuota, Active, Live, Counted, scheduleVars
<1>4. TimesInv'
  BY DEF IInv, TimesInv, scheduleVars
<1> QED BY <1>1, <1>2, <1>3, <1>4

LEMMA WebhooksLeftAlone ==
  ASSUME IInv, UNCHANGED webhookVars
  PROVE  WebhookTypeOK' /\ events' = events
BY DEF IInv, TypeOK, WebhookTypeOK, webhookVars

LEMMA RunsLeftAlone ==
  ASSUME IInv, UNCHANGED <<runs, dispatches>>
  PROVE  /\ runs' \subseteq [key : RunKeys, workflow : Workflows] /\ dispatches' \subseteq RunKeys
         /\ \A r, q \in runs' : r.key = q.key => r = q
BY DEF IInv, TypeOK, AdmissionTypeOK, RunsInv

-------------------------------------------------------------------------------
(* Users who start runs themselves, and workflows.                           *)
LEMMA UserKeysAreApart ==
  ASSUME NEW key \in UserKeys
  PROVE  key[1] = "user" /\ key \notin ScheduleKeys /\ key \in RunKeys
BY DEF UserKeys, ScheduleKeys, RunKeys

LEMMA CommitRunKeeps ==
  ASSUME IInv, UNCHANGED <<clock, scheduleVars, webhookVars>>,
         NEW u \in Requesters, NEW limited \in BOOLEAN, CommitRun(u, limited)
  PROVE  IInv'
<1> DEFINE r == request[u]
<1>1. r.key \in UserKeys /\ r.workflow \in Workflows
  BY DEF CommitRun, IInv, TypeOK, AdmissionTypeOK, Request, NoRequest
<1>2. r.key \in RunKeys /\ r.key \notin ScheduleKeys
  BY <1>1, UserKeysAreApart
<1>3. /\ LedgerInv' /\ runs \subseteq runs' /\ dispatches \subseteq dispatches'
      /\ runs' \subseteq [key : RunKeys, workflow : Workflows] /\ dispatches' \subseteq RunKeys
      /\ \A q, s \in runs' : q.key = s.key => q = s
      /\ \A q \in runs' \ runs : q.key = r.key /\ q.key \in dispatches'
  <2>1. CASE UNCHANGED <<runs, dispatches, ledger>>
    BY <2>1, RunsLeftAlone DEF IInv, LedgerInv
  <2>2. CASE MayStart(ledger, r.key, clock) /\ StartRun(ledger, r.key, r.workflow, clock)
    <3>1. LedgerOK(ledger) /\ clock \in Now /\ TypeOK /\ RunsInv
      BY DEF IInv, LedgerInv, TypeOK
    <3>2. /\ LedgerOK(ledger') /\ runs \subseteq runs' /\ dispatches \subseteq dispatches'
          /\ runs' \subseteq [key : RunKeys, workflow : Workflows] /\ dispatches' \subseteq RunKeys
          /\ \A q, s \in runs' : q.key = s.key => q = s
          /\ \A q \in runs' \ runs : q = [key |-> r.key, workflow |-> r.workflow] /\ q.key \in dispatches'
      <4> HIDE DEF r
      <4> QED BY <1>1, <1>2, <2>2, <3>1, StartKeeps
    <3>3. LedgerInv'
      BY <3>2 DEF LedgerInv, LedgerOK, In
    <3>4. \A q \in runs' \ runs : q.key = r.key /\ q.key \in dispatches'
      BY <3>2
    <3> QED BY <3>2, <3>3, <3>4
  <2>3. CASE HasRun(r.key) /\ StartRun(ledger, r.key, r.workflow, clock)
    BY <2>2, <2>3 DEF MayStart
  <2> QED BY <2>1, <2>2, <2>3 DEF CommitRun
<1>4. AdmissionTypeOK'
  BY <1>3 DEF CommitRun, IInv, TypeOK, AdmissionTypeOK
<1>5. RunsInv'
  <2>1. \A q \in runs' \ runs : q.key \notin ScheduleKeys /\ q.key \in dispatches'
    BY <1>2, <1>3
  <2>2. TypeOK /\ RunsInv
    BY DEF IInv
  <2> QED BY <1>3, <2>1, <2>2, SchedulesLeftAlone, HistoryLasts
<1>6. TriggeredHasItsRun'
  BY <1>3, SchedulesLeftAlone, WebhooksLeftAlone, TriggeredLasts DEF IInv
<1> QED BY <1>3, <1>4, <1>5, <1>6, SchedulesLeftAlone, WebhooksLeftAlone DEF IInv, TypeOK

LEMMA AdmissionStepKeeps ==
  ASSUME IInv, RequestStep \/ WorkflowStep
  PROVE  IInv'
<1>0. UNCHANGED <<clock, scheduleVars, webhookVars>>
  BY DEF RequestStep, WorkflowStep
<1>1. ASSUME UNCHANGED <<runs, dispatches, ledger>>, AdmissionTypeOK'
      PROVE  IInv'
  <2>1. RunsInv'
    BY <1>0, <1>1, SchedulesLeftAlone, RunsLeftAlone, HistoryLasts DEF IInv
  <2>2. TriggeredHasItsRun'
    BY <1>0, <1>1, SchedulesLeftAlone, WebhooksLeftAlone, TriggeredLasts DEF IInv
  <2> QED BY <1>0, <1>1, <2>1, <2>2, SchedulesLeftAlone, WebhooksLeftAlone DEF IInv, TypeOK, LedgerInv
<1>2. ASSUME NEW u \in Requesters, NEW w \in Workflows, NEW k \in ClientKeys,
             RequestRun(u, w, <<"user", k>>)
      PROVE  IInv'
  <2>1. <<"user", k>> \in UserKeys
    BY DEF UserKeys
  <2>2. AdmissionTypeOK'
    BY <1>2, <2>1 DEF RequestRun, IInv, TypeOK, AdmissionTypeOK, Request
  <2> QED BY <1>1, <1>2, <2>2 DEF RequestRun
<1>3. ASSUME NEW u \in Requesters, RecheckKey(u)
      PROVE  IInv'
  <2>1. request[u] \in Request
    BY <1>3 DEF RecheckKey, IInv, TypeOK, AdmissionTypeOK, NoRequest
  <2>2. AdmissionTypeOK'
    BY <1>3, <2>1 DEF RecheckKey, IInv, TypeOK, AdmissionTypeOK, Request
  <2> QED BY <1>1, <1>3, <2>2 DEF RecheckKey
<1>4. ASSUME NEW w \in Workflows, NEW state \in WorkflowStates, SetWorkflow(w, state)
      PROVE  IInv'
  <2>1. AdmissionTypeOK'
    BY <1>4 DEF SetWorkflow, IInv, TypeOK, AdmissionTypeOK
  <2> QED BY <1>1, <1>4, <2>1 DEF SetWorkflow
<1> QED BY <1>0, <1>2, <1>3, <1>4, CommitRunKeeps DEF RequestStep, WorkflowStep

-------------------------------------------------------------------------------
(* Users who edit schedules.                                                 *)
LEMMA NewRow ==
  ASSUME NEW def \in Definitions, NEW now \in Now
  PROVE  Row(def, initialNextRunAt(def, now)) \in OwnRow
<1>1. /\ def.misfire \in {"SKIP", "FIRE_ONCE"}
      /\ \/ def.type = "CRON" /\ def.every = Never /\ def.runAt = Never
         \/ def.type = "INTERVAL" /\ def.every \in Nat \ {0} /\ def.runAt = Never
         \/ def.type = "ONE_TIME" /\ def.every = Never /\ def.runAt \in Nat
  BY SchedulesAssumption DEF ValidDefinition
<1>2. now \in Nat /\ CronInstants \subseteq Nat
  BY UsageAssumption, CalculatorAssumption DEF Now
<1> DEFINE next == initialNextRunAt(def, now)
<1>3. /\ next \in Nat
      /\ def.type = "CRON" => next \in CronInstants
      /\ def.type = "ONE_TIME" => next = def.runAt
  <2>1. CASE def.type = "CRON"
    BY <1>2, <2>1, CronNeighbours DEF initialNextRunAt, calculateNextRunAt
  <2>2. CASE def.type = "INTERVAL"
    BY <1>1, <1>2, <2>2 DEF initialNextRunAt, calculateNextRunAt
  <2>3. CASE def.type = "ONE_TIME"
    BY <1>1, <2>3 DEF initialNextRunAt
  <2> QED BY <1>1, <2>1, <2>2, <2>3
<1> HIDE DEF next
<1>4. Row(def, next) \in OwnRow
  BY <1>1, <1>3 DEF Row, OwnRow, LiveRow, AnyRow, Sound, Instants, IsMismatched
<1> QED BY <1>4 DEF next

LEMMA ReadRow ==
  ASSUME NEW row \in LiveRow
  PROVE  Row(row, Never) \in OwnRow
BY DEF Row, OwnRow, LiveRow, AnyRow, Sound, Instants, IsMismatched

(* What the active schedules can become.                                     *)
LEMMA FewerActive ==
  ASSUME IsFiniteSet(Active), Active' \subseteq Active
  PROVE  /\ IsFiniteSet(Active') /\ Cardinality(Active') <= Cardinality(Active)
         /\ Cardinality(Active) \in Nat /\ Cardinality(Active') \in Nat
BY FS_Subset, FS_CardinalityType

LEMMA OneMoreActive ==
  ASSUME IsFiniteSet(Active), NEW s, Active' \subseteq Active \cup {s}
  PROVE  /\ IsFiniteSet(Active') /\ Cardinality(Active') <= Cardinality(Active) + 1
         /\ Cardinality(Active) \in Nat /\ Cardinality(Active') \in Nat
<1>1. IsFiniteSet(Active \cup {s}) /\ Cardinality(Active \cup {s}) <= Cardinality(Active) + 1
      /\ Cardinality(Active) \in Nat /\ Cardinality(Active \cup {s}) \in Nat
  <2> DEFINE old == Active
  <2>1. IsFiniteSet(old) /\ Cardinality(old) \in Nat
    BY FS_CardinalityType
  <2> HIDE DEF old
  <2>2. /\ IsFiniteSet(old \cup {s})
        /\ Cardinality(old \cup {s}) = IF s \in old THEN Cardinality(old) ELSE Cardinality(old) + 1
    BY <2>1, FS_AddElement
  <2>3. /\ Cardinality(old \cup {s}) <= Cardinality(old) + 1 /\ Cardinality(old \cup {s}) \in Nat
    BY <2>1, <2>2
  <2> QED BY <2>1, <2>2, <2>3 DEF old
<1>2. /\ IsFiniteSet(Active') /\ Cardinality(Active') \in Nat
      /\ Cardinality(Active') <= Cardinality(Active \cup {s})
  BY <1>1, FS_Subset, FS_CardinalityType
<1> QED
  <2> DEFINE a == Cardinality(Active)
             b == Cardinality(Active')
             c == Cardinality(Active \cup {s})
  <2>1. c <= a + 1 /\ b <= c /\ a \in Nat /\ b \in Nat /\ c \in Nat
    BY <1>1, <1>2
  <2> HIDE DEF a, b, c
  <2>2. b <= a + 1
    BY <2>1
  <2> QED BY <1>1, <1>2, <2>2 DEF a, b

(* Calls that have only read, and the one that counts.                       *)
LEMMA CallsKeep ==
  ASSUME IInv, NEW e \in Editors,
         \/ \E s \in Schedules : EnableSchedule(e, s) \/ EditInput(e, s)
         \/ \E s \in Schedules, def \in Definitions : CreateSchedule(e, s, def) \/ EditSchedule(e, s, def)
         \/ CountActive(e),
         UNCHANGED <<clock, ledger, admissionVars, webhookVars>>
  PROVE  ScheduleTypeOK' /\ QuotaInv'
<1>0. /\ ScheduleTypeOK /\ clock \in Now /\ QuotaInv
      /\ UNCHANGED <<schedule, occurrences, scheduler, offTime>>
  BY DEF IInv, TypeOK, EnableSchedule, CreateSchedule, EditSchedule, EditInput, CountActive
<1>1. Active' = Active
  BY <1>0 DEF Active, Live
<1>2. ASSUME NEW call \in Creation \cup Enabling \cup Edit \cup {Idle}, EditorBecomes(e, call)
      PROVE  ScheduleTypeOK'
  BY <1>0, <1>2 DEF ScheduleTypeOK, EditorBecomes
<1>3. ASSUME NEW call, EditorBecomes(e, call), call.pc # "counted",
             call.pc # "idle" /\ call.op \in {"enable", "edit", "input"} => schedule[call.schedule] # NoSchedule
      PROVE  QuotaInv'
  <2>1. \A f \in Editors : editor'[f] = IF f = e THEN call ELSE editor[f]
    BY <1>0, <1>3 DEF EditorBecomes, ScheduleTypeOK
  <2> QED BY <1>0, <1>1, <1>3, <2>1 DEF QuotaInv, ActiveWithinQuota, Counted
<1>4. ASSUME NEW s \in Schedules, EnableSchedule(e, s)
      PROVE  ScheduleTypeOK' /\ QuotaInv'
  <2> DEFINE call == [pc |-> "read", op |-> "enable", schedule |-> s]
  <2>1. EditorBecomes(e, call) /\ call \in Enabling
    BY <1>4 DEF EnableSchedule, Enabling
  <2>2. schedule[call.schedule] # NoSchedule
    BY <1>4 DEF EnableSchedule, Live, NoSchedule
  <2> QED BY <1>2, <1>3, <2>1, <2>2
<1>5. ASSUME NEW s \in Schedules, NEW op \in {"create", "edit", "input"}, NEW row \in OwnRow,
             EditorBecomes(e, [pc |-> "read", op |-> op, schedule |-> s, row |-> row]),
             op # "create" => schedule[s] # NoSchedule
      PROVE  ScheduleTypeOK' /\ QuotaInv'
  <2> DEFINE call == [pc |-> "read", op |-> op, schedule |-> s, row |-> row]
  <2>1. call \in Creation \cup Edit
    BY DEF Creation, Edit
  <2> QED BY <1>2, <1>3, <1>5, <2>1
<1>6. ASSUME CountActive(e)
      PROVE  ScheduleTypeOK' /\ QuotaInv'
  <2>1. editor[e] \in Creation \cup Enabling /\ editor[e].pc = "read"
    BY <1>0, <1>6 DEF CountActive, ScheduleTypeOK, Creation, Enabling, Edit, Idle
  <2>2. CASE Return(e)
    BY <1>2, <1>3, <2>2 DEF Return, Idle
  <2>3. CASE HasQuota(Cardinality(Active)) /\ EditorBecomes(e, [editor[e] EXCEPT !.pc = "counted"])
    <3> DEFINE call == [editor[e] EXCEPT !.pc = "counted"]
    <3>1. /\ call \in Creation \cup Enabling /\ call.op = editor[e].op
          /\ call.schedule = editor[e].schedule
      BY <2>1 DEF Creation, Enabling
    <3>2. \A f \in Editors : editor'[f] = IF f = e THEN call ELSE editor[f]
      BY <1>0, <2>3 DEF EditorBecomes, ScheduleTypeOK
    <3>3. \A f \in Editors : f # e => ~Counted(f)'
      BY <1>6, <3>2 DEF CountActive, WorkspaceFree, Counted
    <3>4. Cardinality(Active') < ActiveLimit
      BY <1>1, <2>3 DEF HasQuota
    <3>5. ScheduleTypeOK'
      BY <1>2, <2>3, <3>1
    <3>6. \A f \in Editors : editor'[f].pc # "idle" /\ editor'[f].op \in {"enable", "edit", "input"} =>
            schedule'[editor'[f].schedule] # NoSchedule
      BY <1>0, <2>1, <3>1, <3>2 DEF QuotaInv
    <3>7. IsFiniteSet(Active') /\ ActiveWithinQuota'
      BY <1>0, <1>1 DEF QuotaInv, ActiveWithinQuota
    <3> QED BY <3>3, <3>4, <3>5, <3>6, <3>7 DEF QuotaInv, Counted
  <2> QED BY <1>6, <2>2, <2>3 DEF CountActive
<1>7. ASSUME NEW s \in Schedules, NEW def \in Definitions,
             CreateSchedule(e, s, def) \/ EditSchedule(e, s, def)
      PROVE  ScheduleTypeOK' /\ QuotaInv'
  <2> DEFINE row == Row(def, initialNextRunAt(def, clock))
  <2>1. row \in OwnRow
    BY <1>0, NewRow
  <2>2. CASE CreateSchedule(e, s, def)
    <3>1. EditorBecomes(e, [pc |-> "read", op |-> "create", schedule |-> s, row |-> row])
      BY <2>2 DEF CreateSchedule
    <3> QED BY <1>5, <2>1, <3>1
  <2>3. CASE EditSchedule(e, s, def)
    <3>1. schedule[s] # NoSchedule
      BY <2>3 DEF EditSchedule, Live, NoSchedule
    <3>2. EditorBecomes(e, [pc |-> "read", op |-> "edit", schedule |-> s, row |-> row])
      BY <2>3 DEF EditSchedule
    <3> QED BY <1>5, <2>1, <3>1, <3>2
  <2> QED BY <1>7, <2>2, <2>3
<1>8. ASSUME NEW s \in Schedules, EditInput(e, s)
      PROVE  ScheduleTypeOK' /\ QuotaInv'
  <2>1. schedule[s] \in LiveRow /\ schedule[s] # NoSchedule
    BY <1>0, <1>8 DEF EditInput, Live, ScheduleTypeOK, NoSchedule, Deleted
  <2>2. Row(schedule[s], Never) \in OwnRow
    BY <2>1, ReadRow
  <2>3. EditorBecomes(e, [pc |-> "read", op |-> "input", schedule |-> s, row |-> Row(schedule[s], Never)])
    BY <1>8 DEF EditInput
  <2> QED BY <1>5, <2>1, <2>2, <2>3
<1> QED BY <1>4, <1>6, <1>7, <1>8

(* The write at the end of a call.                                           *)
LEMMA WrittenRow ==
  ASSUME NEW call \in Creation \cup Enabling \cup Edit, NEW row \in LiveRow
  PROVE  /\ Written(call, row) \in LiveRow
         /\ call \in Edit => Written(call, row).enabled = row.enabled
<1>1. CASE call \in Creation
  BY <1>1 DEF Written, Creation, Edit, OwnRow
<1>2. CASE call \in Enabling
  BY <1>2 DEF Written, Enabling, Edit, LiveRow, AnyRow, Sound
<1>3. CASE call \in Edit
  <2>1. call.op \in {"edit", "input"} /\ call.row \in LiveRow
    BY <1>3 DEF Edit, OwnRow
  <2>2. CASE call.op = "edit"
    BY <2>1, <2>2 DEF Written, LiveRow, AnyRow, Sound
  <2>3. CASE call.op = "input"
    BY <2>1, <2>3 DEF Written, LiveRow, AnyRow, Sound
  <2> QED BY <2>1, <2>2, <2>3
<1> QED BY <1>1, <1>2, <1>3

LEMMA WriteScheduleKeeps ==
  ASSUME IInv, NEW e \in Editors, WriteSchedule(e)
  PROVE  ScheduleTypeOK' /\ QuotaInv'
<1> DEFINE call == editor[e]
           s == call.schedule
<1>0. ScheduleTypeOK /\ QuotaInv
  BY DEF IInv, TypeOK
<1>1. /\ call \in Creation \cup Enabling \cup Edit /\ s \in Schedules
      /\ call \in Edit <=> call.op \in {"edit", "input"}
      /\ call \notin Edit => call.op \in {"create", "enable"} /\ call.pc = "counted"
  BY <1>0 DEF WriteSchedule, ScheduleTypeOK, Creation, Enabling, Edit, Idle
<1>2. \A f \in Editors : editor'[f] = IF f = e THEN Idle ELSE editor[f]
  BY <1>0 DEF WriteSchedule, Return, EditorBecomes, ScheduleTypeOK, Idle
<1>3. /\ schedule' = IF schedule[s] = Deleted THEN schedule
                     ELSE [schedule EXCEPT ![s] = Written(call, schedule[s])]
      /\ occurrences' = occurrences /\ scheduler' = scheduler /\ offTime' = offTime
      /\ schedule[s] \in LiveRow \cup {NoSchedule, Deleted}
      /\ call.op # "create" => schedule[s] # NoSchedule
  BY <1>0, <1>1 DEF WriteSchedule, ScheduleTypeOK, QuotaInv
<1> HIDE DEF call, s
<1>4. /\ Active' \subseteq Active \cup {s}
      /\ call \in Edit => Active' \subseteq Active
      /\ schedule' \in [Schedules -> LiveRow \cup {NoSchedule, Deleted}]
      /\ \A u \in Schedules : schedule[u] # NoSchedule => schedule'[u] # NoSchedule
  <2>1. CASE schedule[s] = Deleted
    BY <1>0, <1>3, <2>1 DEF Active, Live, ScheduleTypeOK
  <2>2. CASE schedule[s] # Deleted
    <3> DEFINE row == Written(call, schedule[s])
    <3>1. row \in LiveRow /\ (call \in Edit => row.enabled = schedule[s].enabled)
      <4>1. CASE schedule[s] \in LiveRow
        BY <1>1, <4>1, WrittenRow
      <4>2. CASE schedule[s] = NoSchedule
        <5>1. call.op = "create" /\ call \in Creation
          BY <1>1, <1>3, <4>2 DEF Creation, Enabling, Edit
        <5> QED BY <5>1 DEF Written, Creation, Edit, OwnRow
      <4> QED BY <1>3, <2>2, <4>1, <4>2
    <3> HIDE DEF row
    <3>2. schedule' = [schedule EXCEPT ![s] = row]
      BY <1>3, <2>2 DEF row
    <3>3. row.status = "live" /\ row # NoSchedule
      BY <3>1 DEF LiveRow, AnyRow, NoSchedule
    <3>4. \A u \in Schedules : schedule'[u] = IF u = s THEN row ELSE schedule[u]
      BY <1>0, <3>2 DEF ScheduleTypeOK
    <3>5. call \in Edit => schedule[s].status = "live"
      BY <1>1, <1>3, <2>2 DEF LiveRow, AnyRow
    <3>6. Active' \subseteq Active \cup {s}
      BY <3>4 DEF Active, Live
    <3>7. call \in Edit => Active' \subseteq Active
      BY <3>1, <3>4, <3>5 DEF Active, Live
    <3> QED BY <1>0, <1>1, <3>1, <3>2, <3>3, <3>4, <3>6, <3>7 DEF ScheduleTypeOK
  <2> QED BY <2>1, <2>2
<1>5. ScheduleTypeOK'
  <2>1. editor' \in [Editors -> Creation \cup Enabling \cup Edit \cup {Idle}]
    BY <1>0 DEF WriteSchedule, Return, EditorBecomes, ScheduleTypeOK, Idle
  <2> QED BY <1>0, <1>3, <1>4, <2>1 DEF ScheduleTypeOK
<1>6. /\ IsFiniteSet(Active') /\ Cardinality(Active') \in Nat
      /\ Cardinality(Active') <= ActiveLimit
      /\ \A f \in Editors : Counted(f)' => Cardinality(Active') < ActiveLimit
  <2>1. IsFiniteSet(Active) /\ Cardinality(Active) <= ActiveLimit /\ ActiveLimit \in Nat
    BY <1>0, SchedulesAssumption DEF QuotaInv, ActiveWithinQuota
  <2>2. CASE call \in Edit
    <3>1. \A f \in Editors : Counted(f)' => Counted(f)
      BY <1>2 DEF Counted, Idle
    <3>2. \A f \in Editors : Counted(f)' => Cardinality(Active) < ActiveLimit
      BY <1>0, <3>1 DEF QuotaInv
    <3>3. /\ IsFiniteSet(Active') /\ Cardinality(Active') <= Cardinality(Active)
          /\ Cardinality(Active) \in Nat /\ Cardinality(Active') \in Nat
      BY <1>4, <2>1, <2>2, FewerActive
    <3> QED BY <2>1, <3>2, <3>3
  <2>3. CASE call \notin Edit
    <3>1. Counted(e)
      BY <1>1, <2>3 DEF Counted, call
    <3>2. Cardinality(Active) < ActiveLimit /\ \A f \in Editors : f # e => ~Counted(f)
      BY <1>0, <3>1 DEF QuotaInv
    <3>3. \A f \in Editors : ~Counted(f)'
      BY <1>2, <3>2 DEF Counted, Idle
    <3>4. /\ IsFiniteSet(Active') /\ Cardinality(Active') <= Cardinality(Active) + 1
          /\ Cardinality(Active) \in Nat /\ Cardinality(Active') \in Nat
      BY <1>4, <2>1, OneMoreActive
    <3> QED BY <2>1, <3>2, <3>3, <3>4
  <2> QED BY <2>2, <2>3
<1>7. \A f, g \in Editors : Counted(f)' /\ Counted(g)' => f = g
  BY <1>0, <1>2 DEF QuotaInv, Counted, Idle
<1>8. \A f \in Editors : editor'[f].pc # "idle" /\ editor'[f].op \in {"enable", "edit", "input"} =>
        schedule'[editor'[f].schedule] # NoSchedule
  <2>1. \A f \in Editors : editor[f].pc # "idle" => editor[f].schedule \in Schedules
    BY <1>0 DEF ScheduleTypeOK, Creation, Enabling, Edit, Idle
  <2> QED BY <1>0, <1>2, <1>4, <2>1 DEF QuotaInv, Idle
<1> QED BY <1>5, <1>6, <1>7, <1>8 DEF QuotaInv, ActiveWithinQuota

(* A row that is replaced by one that is active only if it was.              *)
LEMMA RowReplaced ==
  ASSUME IInv, NEW s \in Schedules, NEW row \in LiveRow \cup {Deleted},
         schedule' = [schedule EXCEPT ![s] = row], editor' = editor,
         row.status = "live" /\ row.enabled => s \in Active
  PROVE  QuotaInv' /\ schedule' \in [Schedules -> LiveRow \cup {NoSchedule, Deleted}]
<1>0. ScheduleTypeOK /\ QuotaInv
  BY DEF IInv, TypeOK
<1>1. \A u \in Schedules : schedule'[u] = IF u = s THEN row ELSE schedule[u]
  BY <1>0 DEF ScheduleTypeOK
<1>2. row # NoSchedule
  BY DEF LiveRow, AnyRow, NoSchedule, Deleted
<1>3. Active' \subseteq Active
  BY <1>1 DEF Active, Live
<1>4. /\ IsFiniteSet(Active') /\ Cardinality(Active') <= Cardinality(Active)
      /\ Cardinality(Active) \in Nat /\ Cardinality(Active') \in Nat
  BY <1>0, <1>3, FewerActive DEF QuotaInv
<1>5. \A e \in Editors : (Counted(e)' <=> Counted(e)) /\ editor'[e] = editor[e]
  BY DEF Counted
<1>6. \A e \in Editors : editor[e].pc # "idle" => editor[e].schedule \in Schedules
  BY <1>0 DEF ScheduleTypeOK, Creation, Enabling, Edit, Idle
<1>7. \A e \in Editors : editor'[e].pc # "idle" /\ editor'[e].op \in {"enable", "edit", "input"} =>
        schedule'[editor'[e].schedule] # NoSchedule
  BY <1>0, <1>1, <1>2, <1>5, <1>6 DEF QuotaInv
<1>8. /\ Cardinality(Active') <= ActiveLimit
      /\ \A e \in Editors : Counted(e)' => Cardinality(Active') < ActiveLimit
      /\ \A e, f \in Editors : Counted(e)' /\ Counted(f)' => e = f
  <2>1. ActiveLimit \in Nat
    BY SchedulesAssumption
  <2>2. /\ Cardinality(Active) <= ActiveLimit
        /\ \A e \in Editors : Counted(e) => Cardinality(Active) < ActiveLimit
        /\ \A e, f \in Editors : Counted(e) /\ Counted(f) => e = f
    BY <1>0 DEF QuotaInv, ActiveWithinQuota
  <2> QED BY <1>4, <1>5, <2>1, <2>2
<1> QED BY <1>0, <1>4, <1>7, <1>8 DEF QuotaInv, ActiveWithinQuota, ScheduleTypeOK

LEMMA RowStepKeeps ==
  ASSUME IInv, RowStep
  PROVE  ScheduleTypeOK' /\ QuotaInv'
<1>0. ScheduleTypeOK
  BY DEF IInv, TypeOK
<1>1. PICK s \in Schedules : DisableSchedule(s) \/ DeleteSchedule(s)
  BY DEF RowStep
<1>2. /\ schedule[s] \in LiveRow /\ UNCHANGED <<occurrences, scheduler, editor, offTime>>
      /\ \/ schedule' = [schedule EXCEPT ![s] = [schedule[s] EXCEPT !.enabled = FALSE]]
         \/ schedule' = [schedule EXCEPT ![s] = Deleted]
  BY <1>0, <1>1 DEF DisableSchedule, DeleteSchedule, Live, ScheduleTypeOK, NoSchedule, Deleted
<1>3. QuotaInv' /\ schedule' \in [Schedules -> LiveRow \cup {NoSchedule, Deleted}]
  <2>1. CASE schedule' = [schedule EXCEPT ![s] = Deleted]
    <3>1. Deleted.status # "live" /\ Deleted \in LiveRow \cup {Deleted}
      BY DEF Deleted
    <3> QED BY <1>2, <2>1, <3>1, RowReplaced
  <2>2. CASE schedule' = [schedule EXCEPT ![s] = [schedule[s] EXCEPT !.enabled = FALSE]]
    <3> DEFINE row == [schedule[s] EXCEPT !.enabled = FALSE]
    <3>1. row \in LiveRow /\ row.enabled = FALSE
      BY <1>2 DEF LiveRow, AnyRow, Sound
    <3> QED BY <1>2, <2>2, <3>1, RowReplaced
  <2> QED BY <1>2, <2>1, <2>2
<1> QED BY <1>0, <1>2, <1>3 DEF ScheduleTypeOK

LEMMA ScheduleEditStepKeeps ==
  ASSUME IInv, ScheduleEditStep
  PROVE  IInv'
<1>0. UNCHANGED <<clock, ledger, admissionVars, webhookVars>>
  BY DEF ScheduleEditStep
<1>1. UNCHANGED <<occurrences, scheduler, offTime>>
  BY DEF ScheduleEditStep, UserStep, RowStep, CreateSchedule, EditSchedule, EditInput, EnableSchedule,
         CountActive, WriteSchedule, DisableSchedule, DeleteSchedule
<1>2. ScheduleTypeOK' /\ QuotaInv'
  BY <1>0, CallsKeep, WriteScheduleKeeps, RowStepKeeps DEF ScheduleEditStep, UserStep
<1>3. AdmissionTypeOK' /\ LedgerInv' /\ WebhookTypeOK' /\ (clock \in Now)'
  BY <1>0, WebhooksLeftAlone DEF IInv, TypeOK, AdmissionTypeOK, admissionVars, LedgerInv
<1>4. TimesInv' /\ RunsInv' /\ TriggeredHasItsRun'
  BY <1>0, <1>1 DEF IInv, TimesInv, RunsInv, DealtWith, Recorded, TooOld, TriggeredHasItsRun,
                    admissionVars, webhookVars
<1> QED BY <1>2, <1>3, <1>4 DEF IInv, TypeOK

-------------------------------------------------------------------------------
(* Polls that begin and end, and time.                                       *)
LEMMA QuotaLeftAlone ==
  ASSUME QuotaInv, UNCHANGED <<schedule, editor>>
  PROVE  QuotaInv'
BY DEF QuotaInv, ActiveWithinQuota, Active, Live, Counted

LEMMA PollStepKeeps ==
  ASSUME IInv, NEW p \in Schedulers, PollStep(p) \/ AbandonStep(p)
  PROVE  IInv'
<1>0. /\ UNCHANGED <<clock, ledger, admissionVars, webhookVars, schedule, occurrences, editor, offTime>>
      /\ ScheduleTypeOK /\ clock \in Now /\ clock \in Nat
  BY UsageAssumption DEF PollStep, AbandonStep, Poll, AbandonPoll, IInv, TypeOK, Now
<1>1. PICK poll \in [due : SUBSET Schedules, now : Now] :
        /\ scheduler' = [scheduler EXCEPT ![p] = poll]
        /\ poll.due # {} => poll.now = clock
  <2>1. CASE PollStep(p)
    <3>1. PICK batch \in SUBSET Schedules :
            scheduler' = [scheduler EXCEPT ![p] = [due |-> batch, now |-> clock]]
      BY <2>1 DEF PollStep, Poll
    <3> DEFINE poll == [due |-> batch, now |-> clock]
    <3>2. poll \in [due : SUBSET Schedules, now : Now] /\ poll.now = clock
      BY <1>0
    <3> HIDE DEF poll
    <3>3. scheduler' = [scheduler EXCEPT ![p] = poll]
      BY <3>1 DEF poll
    <3> QED BY <3>2, <3>3
  <2>2. CASE AbandonStep(p)
    <3>1. NoPoll \in [due : SUBSET Schedules, now : Now] /\ NoPoll.due = {}
      BY UsageAssumption DEF NoPoll, Now
    <3> QED BY <2>2, <3>1 DEF AbandonStep, AbandonPoll
  <2> QED BY <2>1, <2>2
<1>2. \A q \in Schedulers : scheduler'[q] = IF q = p THEN poll ELSE scheduler[q]
  BY <1>0, <1>1 DEF ScheduleTypeOK
<1>3. SchedulersMoveOn
  BY <1>1, <1>2 DEF SchedulersMoveOn
<1>4. ScheduleTypeOK'
  BY <1>0, <1>1 DEF ScheduleTypeOK
<1>5. TimesInv'
  BY <1>0, <1>1, <1>2 DEF IInv, TimesInv
<1>6. AdmissionTypeOK' /\ LedgerInv' /\ WebhookTypeOK' /\ (clock \in Now)' /\ clock' >= clock
  BY <1>0, WebhooksLeftAlone DEF IInv, TypeOK, AdmissionTypeOK, admissionVars, LedgerInv
<1>7. RunsInv'
  BY <1>0, <1>3, <1>6, RunsLeftAlone, HistoryLasts DEF IInv, admissionVars
<1>8. TriggeredHasItsRun' /\ QuotaInv'
  BY <1>0, QuotaLeftAlone DEF IInv, TriggeredHasItsRun, admissionVars, webhookVars
<1> QED BY <1>4, <1>5, <1>6, <1>7, <1>8 DEF IInv, TypeOK

LEMMA TickStepKeeps ==
  ASSUME IInv, TickStep
  PROVE  IInv'
<1>0. /\ UNCHANGED <<ledger, admissionVars, scheduleVars, webhookVars>>
      /\ clock \in Now /\ clock' \in Now /\ clock \in Nat /\ clock' = clock + 1
  BY UsageAssumption DEF TickStep, Tick, IInv, TypeOK, Now
<1>1. AdmissionTypeOK' /\ LedgerInv' /\ WebhookTypeOK' /\ ScheduleTypeOK' /\ QuotaInv'
      /\ TriggeredHasItsRun'
  BY <1>0, WebhooksLeftAlone, QuotaLeftAlone
     DEF IInv, TypeOK, AdmissionTypeOK, admissionVars, LedgerInv, ScheduleTypeOK, scheduleVars,
         TriggeredHasItsRun, webhookVars
<1>2. TimesInv'
  <2>1. \A p \in Schedulers : scheduler[p].now \in Nat
    BY UsageAssumption DEF IInv, TypeOK, ScheduleTypeOK, Now
  <2> QED BY <1>0, <2>1 DEF IInv, TimesInv, scheduleVars
<1>3. RunsInv'
  <2>1. SchedulersMoveOn /\ occurrences' = occurrences /\ offTime' = offTime /\ clock' >= clock
    BY <1>0 DEF SchedulersMoveOn, scheduleVars
  <2> QED BY <1>0, <2>1, RunsLeftAlone, HistoryLasts DEF IInv, admissionVars
<1> QED BY <1>0, <1>1, <1>2, <1>3 DEF IInv, TypeOK

-------------------------------------------------------------------------------
(* Webhooks: their management and the first half of a delivery.              *)
LEMMA DedupeKeyForm ==
  ASSUME NEW event \in Events \cup Payloads, NEW timestamp \in Now
  PROVE  DedupeKey(event, timestamp) \in DedupeKeys
<1>1. timestamp \in Nat /\ ReplayWindow \in Nat \ {0}
  BY UsageAssumption, WebhookAssumption DEF Now
<1> DEFINE window == (timestamp \div ReplayWindow) * ReplayWindow
<1>2. window \in Nat
  BY <1>1, Intervals
<1> HIDE DEF window
<1>3. DedupeKey(event, timestamp) = IF event \in Events THEN <<"event", event, 0>>
                                    ELSE <<"payload", event, window>>
  BY DEF DedupeKey, window
<1> QED BY <1>2, <1>3 DEF DedupeKeys

LEMMA WebhookStepKeeps ==
  ASSUME IInv, ManageStep \/ ReceiveStep
  PROVE  IInv'
<1>0. UNCHANGED <<clock, ledger, admissionVars, scheduleVars, events>>
  BY DEF ManageStep, ReceiveStep, ManageTriggers, Receive, createWorkflowWebhook, updateWorkflowWebhook,
         setWorkflowWebhookEnabled, deleteWorkflowWebhook, rotateWorkflowWebhookSecret, TriggerBecomes,
         VerifyDelivery
<1>1. WebhookTypeOK /\ clock \in Now /\ MaxSecret \in Nat
  BY WebhookAssumption DEF IInv, TypeOK
<1>2. WebhookTypeOK'
  <2>1. ASSUME NEW t \in Triggers, NEW row \in TriggerRow \cup {DeletedTrigger}, TriggerBecomes(t, row)
        PROVE  WebhookTypeOK'
    BY <1>1, <2>1 DEF TriggerBecomes, WebhookTypeOK
  <2>2. ASSUME NEW t \in Triggers, IsLive(t)
        PROVE  trigger[t] \in TriggerRow
    BY <1>1, <2>2 DEF IsLive, WebhookTypeOK, NoTrigger, DeletedTrigger
  <2>3. ASSUME NEW t \in Triggers, NEW w \in Workflows, createWorkflowWebhook(t, w)
        PROVE  WebhookTypeOK'
    <3>1. LiveTrigger(w) \in TriggerRow
      BY DEF LiveTrigger, TriggerRow
    <3> QED BY <2>1, <2>3, <3>1 DEF createWorkflowWebhook
  <2>4. ASSUME NEW t \in Triggers, NEW w \in Workflows, updateWorkflowWebhook(t, w)
        PROVE  WebhookTypeOK'
    <3>1. [trigger[t] EXCEPT !.workflow = w] \in TriggerRow
      BY <2>2, <2>4 DEF updateWorkflowWebhook, TriggerRow
    <3> QED BY <2>1, <2>4, <3>1 DEF updateWorkflowWebhook
  <2>5. ASSUME NEW t \in Triggers, setWorkflowWebhookEnabled(t)
        PROVE  WebhookTypeOK'
    <3>1. [trigger[t] EXCEPT !.enabled = ~trigger[t].enabled] \in TriggerRow
      BY <2>2, <2>5 DEF setWorkflowWebhookEnabled, TriggerRow
    <3> QED BY <2>1, <2>5, <3>1 DEF setWorkflowWebhookEnabled
  <2>6. ASSUME NEW t \in Triggers, deleteWorkflowWebhook(t)
        PROVE  WebhookTypeOK'
    BY <2>1, <2>6 DEF deleteWorkflowWebhook
  <2>7. ASSUME NEW t \in Triggers, rotateWorkflowWebhookSecret(t)
        PROVE  WebhookTypeOK'
    <3>1. [trigger[t] EXCEPT !.secret = trigger[t].secret + 1] \in TriggerRow
      BY <2>2, <2>7 DEF rotateWorkflowWebhookSecret, TriggerRow
    <3> QED BY <2>1, <2>7, <3>1 DEF rotateWorkflowWebhookSecret
  <2>8. ASSUME NEW d \in Deliveries, NEW t \in Triggers, NEW event \in Events \cup Payloads,
               NEW timestamp \in Now, NEW secret, VerifyDelivery(d, t, event, timestamp, secret)
        PROVE  WebhookTypeOK'
    <3> DEFINE key == DedupeKey(event, timestamp)
    <3>1. key \in DedupeKeys
      BY DedupeKeyForm
    <3>2. delivery' = [delivery EXCEPT ![d] =
            [pc |-> "verified", trigger |-> t, workflow |-> trigger[t].workflow, key |-> key, now |-> clock]]
      BY <2>8 DEF VerifyDelivery
    <3> HIDE DEF key
    <3>3. trigger[t].workflow \in Workflows
      BY <2>2, <2>8 DEF VerifyDelivery, TriggerRow
    <3>4. [pc |-> "verified", trigger |-> t, workflow |-> trigger[t].workflow, key |-> key, now |-> clock]
            \in Delivery
      BY <1>1, <3>1, <3>3 DEF Delivery
    <3> QED BY <1>1, <2>8, <3>2, <3>4 DEF VerifyDelivery, WebhookTypeOK
  <2> QED BY <2>3, <2>4, <2>5, <2>6, <2>7, <2>8 DEF ManageStep, ReceiveStep, ManageTriggers, Receive
<1>3. AdmissionTypeOK' /\ LedgerInv' /\ TriggeredHasItsRun' /\ RunsInv'
  BY <1>0 DEF IInv, TypeOK, AdmissionTypeOK, admissionVars, LedgerInv, TriggeredHasItsRun, RunsInv,
              DealtWith, Recorded, TooOld, scheduleVars
<1> QED BY <1>0, <1>2, <1>3, SchedulesLeftAlone DEF IInv, TypeOK

-------------------------------------------------------------------------------
(* A schedule's turn in a poll.                                              *)
LEMMA TurnMovesOn ==
  ASSUME IInv, NEW p \in Schedulers, NEW s \in Schedules, Turn(p, s), clock' = clock
  PROVE  /\ SchedulersMoveOn /\ editor' = editor /\ clock' >= clock
         /\ scheduler' \in [Schedulers -> [due : SUBSET Schedules, now : Now]]
         /\ \A q \in Schedulers : scheduler'[q].due # {} => scheduler'[q].now <= clock
         /\ scheduler[p].now \in Now /\ scheduler[p].now <= clock /\ scheduler[p].due # {}
<1>0. /\ scheduler \in [Schedulers -> [due : SUBSET Schedules, now : Now]]
      /\ \A q \in Schedulers : scheduler[q].due # {} => scheduler[q].now <= clock
      /\ clock \in Nat /\ 0 \in Now
  BY UsageAssumption DEF IInv, TypeOK, ScheduleTypeOK, TimesInv, Now
<1> DEFINE poll == IF scheduler[p].due = {s} THEN NoPoll
                   ELSE [due |-> scheduler[p].due \ {s}, now |-> scheduler[p].now]
<1>1. /\ scheduler' = [scheduler EXCEPT ![p] = poll]
      /\ s \in scheduler[p].due /\ editor' = editor
  BY DEF Turn
<1>2. /\ poll \in [due : SUBSET Schedules, now : Now]
      /\ poll.due # {} => poll.now = scheduler[p].now
  BY <1>0 DEF NoPoll
<1> HIDE DEF poll
<1>3. \A q \in Schedulers : scheduler'[q] = IF q = p THEN poll ELSE scheduler[q]
  BY <1>0, <1>1
<1>4. scheduler[p].due # {} /\ scheduler[p].now <= clock /\ scheduler[p].now \in Now
  BY <1>0, <1>1
<1>5. SchedulersMoveOn
  BY <1>2, <1>3, <1>4 DEF SchedulersMoveOn
<1>6. \A q \in Schedulers : scheduler'[q].due # {} => scheduler'[q].now <= clock
  BY <1>0, <1>2, <1>3, <1>4
<1>7. scheduler' \in [Schedulers -> [due : SUBSET Schedules, now : Now]]
  BY <1>0, <1>1, <1>2
<1> QED BY <1>0, <1>1, <1>4, <1>5, <1>6, <1>7

(* What is decided for a schedule that is due, in terms of the state.        *)
LEMMA TurnDecision ==
  ASSUME IInv, NEW p \in Schedulers, NEW s \in Schedules, Turn(p, s), StillDue(p, s), clock' = clock
  PROVE  LET d == DecisionOf(p, s)
             now == scheduler[p].now
         IN  /\ schedule[s] \in LiveRow /\ s \in Active
             /\ d.at \in Nat
             /\ ~IsMismatched(schedule[s]) =>
                  /\ IsOnTime(d, now)
                  /\ schedule[s].type = "CRON" /\ d.action = "TRIGGER" => d.at \in CronInstants
             /\ d.terminal \in BOOLEAN
             /\ d.next # Never => d.next > now
             /\ [schedule[s] EXCEPT !.next = d.next] \in OwnRow
<1>1. schedule[s] \in LiveRow /\ s \in Active /\ IsDue(schedule[s], scheduler[p].now)
  BY DEF StillDue, Due, Active, Live, IInv, TypeOK, ScheduleTypeOK, NoSchedule, Deleted
<1>2. scheduler[p].now \in Now
  BY TurnMovesOn
<1> QED BY <1>1, <1>2, DueDecision DEF DecisionOf

(* Its record, and the row it leaves.                                        *)
LEMMA RecordKeeps ==
  ASSUME IInv, NEW p \in Schedulers, NEW s \in Schedules, Turn(p, s), StillDue(p, s), clock' = clock,
         NEW status \in Statuses, NEW key \in RunKeys \cup {"none"}, NEW terminal \in BOOLEAN,
         Record(p, s, DecisionOf(p, s), status, key), Advance(s, DecisionOf(p, s), terminal)
  PROVE  /\ ScheduleTypeOK' /\ QuotaInv' /\ TimesInv'
         /\ occurrences \subseteq occurrences' /\ offTime \subseteq offTime'
         /\ \E o \in occurrences' : o.schedule = s /\ o.at = DecisionOf(p, s).at
         /\ \A o \in occurrences' \ occurrences :
              o.schedule = s /\ o.at = DecisionOf(p, s).at /\ o.status = status /\ o.run = key
<1> DEFINE d == DecisionOf(p, s)
           new == [schedule |-> s, at |-> d.at, status |-> status, run |-> key, created |-> clock]
           row == [schedule[s] EXCEPT !.enabled = schedule[s].enabled /\ ~terminal,
                                      !.next = d.next, !.processed = TRUE]
           onTime == IsOnTime(d, scheduler[p].now)
<1>1. /\ schedule[s] \in LiveRow /\ s \in Active /\ d.at \in Nat
      /\ [schedule[s] EXCEPT !.next = d.next] \in OwnRow
  BY TurnDecision
<1>2. /\ occurrences' = occurrences \cup {new} /\ schedule' = [schedule EXCEPT ![s] = row]
      /\ offTime' = IF onTime THEN offTime ELSE offTime \cup {<<s, d.at>>}
  <2>1. schedule \in [Schedules -> LiveRow \cup {NoSchedule, Deleted}]
    BY DEF IInv, TypeOK, ScheduleTypeOK
  <2>2. schedule' = [schedule EXCEPT ![s].enabled = schedule[s].enabled /\ ~terminal, ![s].next = d.next,
                                     ![s].processed = TRUE]
    BY DEF Advance
  <2> HIDE DEF d
  <2>3. schedule' = [schedule EXCEPT ![s] = row]
    BY <2>1, <2>2
  <2> QED BY <2>3 DEF Record, d
<1>3. onTime => d.at <= clock
  <2>1. scheduler[p].now <= clock /\ scheduler[p].now \in Nat /\ clock \in Nat
    BY TurnMovesOn, UsageAssumption DEF IInv, TypeOK, Now
  <2> HIDE DEF d
  <2> QED BY <1>1, <2>1 DEF IsOnTime
<1> HIDE DEF d, onTime
<1>4. row \in OwnRow
  BY <1>1 DEF OwnRow, LiveRow, AnyRow, Sound, IsMismatched
<1>5. /\ new \in Occurrence /\ new.schedule = s /\ new.at = d.at /\ new.status = status
      /\ new.run = key /\ new.created = clock
  BY <1>1 DEF Occurrence, IInv, TypeOK
<1> HIDE DEF new, row
<1>6. QuotaInv' /\ schedule' \in [Schedules -> LiveRow \cup {NoSchedule, Deleted}]
  <2>1. row \in LiveRow
    BY <1>4 DEF OwnRow
  <2> QED BY <1>1, <1>2, <2>1, TurnMovesOn, RowReplaced
<1>7. offTime \subseteq offTime' /\ (onTime \/ <<s, d.at>> \in offTime') /\ offTime' \subseteq Schedules \X Nat
  BY <1>1, <1>2 DEF IInv, TypeOK, ScheduleTypeOK
<1>8. ScheduleTypeOK'
  <2>1. occurrences' \subseteq Occurrence /\ editor' \in [Editors -> Creation \cup Enabling \cup Edit \cup {Idle}]
    BY <1>2, <1>5, TurnMovesOn DEF IInv, TypeOK, ScheduleTypeOK
  <2> QED BY <1>6, <1>7, <2>1, TurnMovesOn DEF ScheduleTypeOK
<1>9. TimesInv'
  <2>1. \A o \in occurrences' : o.at <= o.created \/ <<o.schedule, o.at>> \in offTime'
    <3>1. \A o \in occurrences : o.at <= o.created \/ <<o.schedule, o.at>> \in offTime
      BY DEF IInv, TimesInv
    <3>2. new.at <= new.created \/ <<new.schedule, new.at>> \in offTime'
      BY <1>5, <1>3, <1>7
    <3> QED BY <1>2, <1>7, <3>1, <3>2
  <2> QED BY <2>1, TurnMovesOn DEF TimesInv
<1>10. \E o \in occurrences' : o.schedule = s /\ o.at = d.at
  BY <1>2, <1>5
<1>11. /\ occurrences \subseteq occurrences'
      /\ \A o \in occurrences' \ occurrences :
           o.schedule = s /\ o.at = d.at /\ o.status = status /\ o.run = key
  BY <1>2, <1>5
<1>12. \E o \in occurrences' : o.schedule = s /\ o.at = DecisionOf(p, s).at
  BY <1>10 DEF d
<1>13. \A o \in occurrences' \ occurrences :
         o.schedule = s /\ o.at = DecisionOf(p, s).at /\ o.status = status /\ o.run = key
  BY <1>11 DEF d
<1> QED BY <1>6, <1>8, <1>9, <1>11, <1>12, <1>13, <1>7

LEMMA OffTimeIsKept ==
  ASSUME NEW p \in Schedulers, NEW s \in Schedules, NEW status, NEW key,
         Record(p, s, DecisionOf(p, s), status, key)
  PROVE  IsOnTime(DecisionOf(p, s), scheduler[p].now) \/ <<s, DecisionOf(p, s).at>> \in offTime'
BY DEF Record

(* The row that is left agrees with itself.                                  *)
LEMMA AdvancedRow ==
  ASSUME IInv, NEW p \in Schedulers, NEW s \in Schedules, Turn(p, s), StillDue(p, s), clock' = clock,
         NEW terminal \in BOOLEAN, Advance(s, DecisionOf(p, s), terminal)
  PROVE  /\ schedule'[s] \in OwnRow
         /\ \A u \in Schedules : u # s => schedule'[u] = schedule[u]
<1> DEFINE d == DecisionOf(p, s)
<1>1. [schedule[s] EXCEPT !.next = d.next] \in OwnRow /\ schedule[s] \in LiveRow
  BY TurnDecision
<1>2. schedule \in [Schedules -> LiveRow \cup {NoSchedule, Deleted}]
  BY DEF IInv, TypeOK, ScheduleTypeOK
<1>3. schedule' = [schedule EXCEPT ![s].enabled = schedule[s].enabled /\ ~terminal, ![s].next = d.next,
                                   ![s].processed = TRUE]
  BY DEF Advance
<1> HIDE DEF d
<1>4. schedule'[s] = [schedule[s] EXCEPT !.enabled = schedule[s].enabled /\ ~terminal,
                                         !.next = d.next, !.processed = TRUE]
  BY <1>1, <1>2, <1>3
<1>5. schedule'[s] \in OwnRow
  BY <1>1, <1>4 DEF OwnRow, LiveRow, AnyRow, Sound, IsMismatched
<1>6. \A u \in Schedules : u # s => schedule'[u] = schedule[u]
  BY <1>2, <1>3
<1> QED BY <1>5, <1>6

LEMMA ScheduleKeyForm ==
  ASSUME NEW s \in Schedules, NEW at \in Nat
  PROVE  /\ ScheduleKey(s, at) \in ScheduleKeys /\ ScheduleKey(s, at) \in RunKeys
         /\ ScheduleKey(s, at)[1] = "schedule"
         /\ ScheduleKey(s, at)[2] = s /\ ScheduleKey(s, at)[3] = at
BY DEF ScheduleKey, ScheduleKeys, RunKeys

(* The instant that is about to trigger has no run yet, or one of its own.   *)
(* That one will be executed, unless the instant was once dealt with off its *)
(* time: a run that a failed turn left behind otherwise belongs to an        *)
(* instant that is still recorded or has become too old.                     *)
LEMMA TriggerFindsItsRun ==
  ASSUME IInv, NEW p \in Schedulers, NEW s \in Schedules, Turn(p, s), StillDue(p, s), clock' = clock,
         DecisionOf(p, s).action = "TRIGGER", Unrecorded(s, DecisionOf(p, s).at),
         HasRun(ScheduleKey(s, DecisionOf(p, s).at)), offTime \subseteq offTime',
         IsOnTime(DecisionOf(p, s), scheduler[p].now) \/ <<s, DecisionOf(p, s).at>> \in offTime'
  PROVE  LET at == DecisionOf(p, s).at
             key == ScheduleKey(s, at)
         IN  /\ [key |-> key, workflow |-> ScheduleOwner[s]] \in runs
             /\ key \in dispatches \/ <<s, at>> \in offTime'
<1> DEFINE at == DecisionOf(p, s).at
           key == ScheduleKey(s, at)
           now == scheduler[p].now
<1>1. at \in Nat /\ now \in Nat /\ scheduler[p].due # {} /\ Grace \in Nat
      /\ (now - at <= Grace \/ <<s, at>> \in offTime')
  <2>1. at \in Nat
    BY TurnDecision
  <2>2. now \in Now /\ scheduler[p].due # {}
    BY TurnMovesOn
  <2>3. now - at <= Grace \/ <<s, at>> \in offTime'
    BY DEF IsOnTime
  <2> QED BY <2>1, <2>2, <2>3, UsageAssumption, CalculatorAssumption DEF Now
<1>2. OccurrenceAt(s, at) = {}
  BY DEF Unrecorded
<1>3. PICK r \in runs : r.key = key
  BY DEF HasRun, RunsWithKey
<1> HIDE DEF at
<1>4. key \in ScheduleKeys /\ key[2] = s /\ key[3] = at
  BY <1>1, ScheduleKeyForm
<1> HIDE DEF key
<1>5. r.workflow = ScheduleOwner[s] /\ (key \in dispatches \/ DealtWith(s, at))
  BY <1>3, <1>4 DEF IInv, RunsInv
<1>6. ~Recorded(s, at)
  BY <1>2 DEF Recorded, OccurrenceAt
<1>7. TooOld(at) => <<s, at>> \in offTime'
  BY <1>1 DEF TooOld
<1>8. r = [key |-> key, workflow |-> ScheduleOwner[s]]
  BY <1>3, <1>5 DEF IInv, TypeOK, AdmissionTypeOK
<1>9. [key |-> key, workflow |-> ScheduleOwner[s]] \in runs /\ (key \in dispatches \/ <<s, at>> \in offTime')
  BY <1>3, <1>5, <1>6, <1>7, <1>8 DEF DealtWith
<1> QED BY <1>9 DEF key, at

LEMMA ProcessStepKeeps ==
  ASSUME IInv, NEW p \in Schedulers, NEW s \in Schedules, ProcessStep(p, s)
  PROVE  IInv'
<1> DEFINE d == DecisionOf(p, s)
           key == ScheduleKey(s, d.at)
           owner == ScheduleOwner[s]
           run == [key |-> key, workflow |-> owner]
<1>0. /\ UNCHANGED <<clock, workflow, request, webhookVars>> /\ clock' = clock
      /\ Turn(p, s) /\ SchedulersMoveOn /\ clock' >= clock /\ clock' \in Now /\ clock \in Now
      /\ TypeOK /\ RunsInv /\ LedgerOK(ledger) /\ TriggeredHasItsRun
      /\ WebhookTypeOK' /\ events' = events
  <2>1. UNCHANGED <<clock, workflow, request, webhookVars>> /\ Turn(p, s)
    BY DEF ProcessStep, Process, NotDueAnymore, AlreadyRecorded, SkipInstant, TriggerInstant, FailInstant
  <2> QED BY <2>1, TurnMovesOn, WebhooksLeftAlone DEF IInv, TypeOK, LedgerInv
<1>1. ASSUME ScheduleTypeOK', QuotaInv', TimesInv', LedgerInv', RunsInv', TriggeredHasItsRun',
             runs' \subseteq [key : RunKeys, workflow : Workflows], dispatches' \subseteq RunKeys
      PROVE  IInv'
  BY <1>0, <1>1 DEF IInv, TypeOK, AdmissionTypeOK
<1>2. ASSUME UNCHANGED <<schedule, occurrences, offTime, runs, dispatches, ledger>>
      PROVE  IInv'
  <2>1. ScheduleTypeOK' /\ QuotaInv' /\ TimesInv'
    BY <1>0, <1>2, TurnMovesOn, QuotaLeftAlone DEF IInv, TypeOK, ScheduleTypeOK, TimesInv
  <2>2. RunsInv'
    BY <1>0, <1>2, RunsLeftAlone, HistoryLasts
  <2>3. TriggeredHasItsRun' /\ LedgerInv'
    BY <1>0, <1>2 DEF IInv, TriggeredHasItsRun, LedgerInv
  <2> QED BY <1>1, <1>2, <2>1, <2>2, <2>3, RunsLeftAlone
<1>3. ASSUME StillDue(p, s)
      PROVE  /\ d.at \in Nat /\ d.terminal \in BOOLEAN
             /\ owner \in Workflows /\ key \in RunKeys /\ key \in ScheduleKeys
             /\ key[2] = s /\ key[3] = d.at
  <2>1. d.at \in Nat /\ d.terminal \in BOOLEAN
    BY <1>0, <1>3, TurnDecision
  <2> HIDE DEF d
  <2> QED BY <2>1, ScheduleKeyForm, SchedulesAssumption
<1>4. ASSUME SkipInstant(p, s)
      PROVE  IInv'
  <2>1. /\ StillDue(p, s) /\ Record(p, s, d, "SKIPPED", "none")
        /\ Advance(s, d, workflow[owner] = "deleted" \/ d.terminal)
        /\ UNCHANGED <<runs, dispatches, ledger>>
    BY <1>4 DEF SkipInstant
  <2> DEFINE terminal == workflow[owner] = "deleted" \/ d.terminal
  <2>2. terminal \in BOOLEAN /\ "SKIPPED" \in Statuses /\ "none" \in RunKeys \cup {"none"}
        /\ Advance(s, d, terminal)
    BY <2>1 DEF Statuses
  <2> HIDE DEF terminal
  <2>3. /\ ScheduleTypeOK' /\ QuotaInv' /\ TimesInv' /\ occurrences \subseteq occurrences'
        /\ offTime \subseteq offTime'
        /\ \A o \in occurrences' \ occurrences : o.status = "SKIPPED"
    BY <1>0, <2>1, <2>2, RecordKeeps
  <2>4. RunsInv'
    BY <1>0, <2>1, <2>3, RunsLeftAlone, HistoryLasts
  <2>5. TriggeredHasItsRun'
    BY <1>0, <2>1, <2>3, TriggeredLasts
  <2>6. LedgerInv'
    BY <2>1 DEF IInv, LedgerInv
  <2> QED BY <1>1, <2>1, <2>3, <2>4, <2>5, <2>6, RunsLeftAlone
<1>5. ASSUME TriggerInstant(p, s)
      PROVE  IInv'
  <2>1. /\ StillDue(p, s) /\ Unrecorded(s, d.at) /\ d.action = "TRIGGER"
        /\ Record(p, s, d, "TRIGGERED", key) /\ Advance(s, d, d.terminal)
        /\ MayStart(ledger, key, clock) /\ StartRun(ledger, key, owner, clock)
    BY <1>5 DEF TriggerInstant
  <2>2. "TRIGGERED" \in Statuses
    BY DEF Statuses
  <2>3. /\ ScheduleTypeOK' /\ QuotaInv' /\ TimesInv' /\ occurrences \subseteq occurrences'
        /\ offTime \subseteq offTime'
        /\ \A o \in occurrences' \ occurrences : o.schedule = s /\ o.at = d.at /\ o.run = key
    BY <1>0, <1>3, <2>1, <2>2, RecordKeeps
  <2>4. HasRun(key) => run \in runs /\ (key \in dispatches \/ <<s, d.at>> \in offTime')
    BY <1>0, <2>1, <2>3, OffTimeIsKept, TriggerFindsItsRun
  <2>5. key \in RunKeys /\ owner \in Workflows /\ key \in ScheduleKeys /\ key[2] = s
    BY <1>3, <2>1
  <2> HIDE DEF key, owner
  <2>6. /\ LedgerOK(ledger') /\ runs \subseteq runs' /\ dispatches \subseteq dispatches'
        /\ runs' \subseteq [key : RunKeys, workflow : Workflows] /\ dispatches' \subseteq RunKeys
        /\ \A r, q \in runs' : r.key = q.key => r = q
        /\ \A r \in runs' \ runs : r = [key |-> key, workflow |-> owner] /\ r.key \in dispatches'
        /\ ~HasRun(key) => [key |-> key, workflow |-> owner] \in runs' /\ key \in dispatches'
    BY <1>0, <2>1, <2>5, StartKeeps
  <2>7. LedgerInv'
    BY <2>6 DEF LedgerInv, LedgerOK, In
  <2>8. \A r \in runs' \ runs : r.key = key /\ r.workflow = owner /\ r.key \in dispatches'
    BY <2>6
  <2>9. \A r \in runs' \ runs : r.key[2] = s /\ r.key \in ScheduleKeys /\ r.workflow = ScheduleOwner[r.key[2]]
    BY <2>5, <2>8 DEF owner
  <2>10. RunsInv'
    BY <1>0, <2>3, <2>6, <2>8, <2>9, HistoryLasts
  <2>11. run \in runs' /\ (key \in dispatches' \/ <<s, d.at>> \in offTime')
    BY <2>4, <2>6
  <2>12. TriggeredHasItsRun'
    BY <1>0, <2>3, <2>6, <2>11, TriggeredLasts DEF owner
  <2> QED BY <1>1, <2>3, <2>6, <2>7, <2>10, <2>12
<1>6. ASSUME NEW inserted \in BOOLEAN, FailInstant(p, s, inserted)
      PROVE  IInv'
  <2>1. /\ StillDue(p, s) /\ Record(p, s, d, "FAILED", "none") /\ Advance(s, d, d.terminal)
        /\ runs' = IF inserted THEN Inserted(key, owner) ELSE runs
        /\ inserted => ~HasRun(key)
        /\ UNCHANGED <<dispatches, ledger>>
    BY <1>6 DEF FailInstant
  <2>2. "FAILED" \in Statuses
    BY DEF Statuses
  <2>3. /\ ScheduleTypeOK' /\ QuotaInv' /\ TimesInv' /\ occurrences \subseteq occurrences'
        /\ offTime \subseteq offTime'
        /\ \A o \in occurrences' \ occurrences : o.status = "FAILED"
        /\ \E o \in occurrences' : o.schedule = s /\ o.at = d.at
    BY <1>0, <1>3, <2>1, <2>2, RecordKeeps
  <2>4. key \in RunKeys /\ owner \in Workflows /\ key \in ScheduleKeys /\ key[2] = s /\ key[3] = d.at
    BY <1>3, <2>1
  <2>5. /\ runs \subseteq [key : RunKeys, workflow : Workflows] /\ dispatches \subseteq RunKeys
        /\ \A r, q \in runs : r.key = q.key => r = q
    BY <1>0 DEF TypeOK, AdmissionTypeOK, RunsInv
  <2>6. CASE ~inserted
    <3>1. RunsInv'
      BY <1>0, <2>1, <2>3, <2>6, RunsLeftAlone, HistoryLasts
    <3>2. TriggeredHasItsRun' /\ LedgerInv'
      BY <1>0, <2>1, <2>3, <2>6, TriggeredLasts DEF IInv, LedgerInv
    <3> QED BY <1>1, <2>1, <2>3, <2>5, <2>6, <3>1, <3>2
  <2>7. CASE inserted
    <3> HIDE DEF key, owner
    <3>1. runs' = runs \cup {[key |-> key, workflow |-> owner]} /\ ~HasRun(key)
      BY <2>1, <2>7 DEF Inserted
    <3>2. \A r \in runs : r.key # key
      BY <3>1 DEF HasRun, RunsWithKey
    <3>3. /\ runs' \subseteq [key : RunKeys, workflow : Workflows]
          /\ \A r \in runs' \ runs : r.key = key /\ r.workflow = owner
      BY <2>4, <2>5, <3>1
    <3>4. \A r, q \in runs' : r.key = q.key => r = q
      BY <2>5, <3>1, <3>2
    <3>5. ASSUME NEW r \in runs' \ runs
          PROVE  /\ r.key \in ScheduleKeys /\ r.workflow = ScheduleOwner[r.key[2]]
                 /\ Recorded(r.key[2], r.key[3])'
      <4>1. r.key = key /\ r.workflow = owner /\ r.key[2] = s /\ r.key[3] = d.at
        BY <2>4, <3>3
      <4>2. \E o \in occurrences' : o.schedule = r.key[2] /\ o.at = r.key[3]
        BY <2>3, <4>1
      <4> QED BY <2>4, <4>1, <4>2 DEF Recorded, owner
    <3>6. RunsInv'
      BY <1>0, <2>1, <2>3, <3>1, <3>3, <3>4, <3>5, HistoryLasts
    <3>7. TriggeredHasItsRun' /\ LedgerInv'
      BY <1>0, <2>1, <2>3, <3>1, TriggeredLasts DEF IInv, LedgerInv
    <3> QED BY <1>1, <2>1, <2>3, <2>5, <3>3, <3>6, <3>7
  <2> QED BY <2>6, <2>7
<1>7. CASE NotDueAnymore(p, s) \/ AlreadyRecorded(p, s)
  BY <1>2, <1>7 DEF NotDueAnymore, AlreadyRecorded
<1> QED BY <1>4, <1>5, <1>6, <1>7 DEF ProcessStep, Process

-------------------------------------------------------------------------------
(* The second half of a delivery.                                            *)
LEMMA DeliveryForm ==
  ASSUME IInv, NEW d \in Deliveries, delivery[d].pc = "verified"
  PROVE  /\ delivery[d] \in Delivery
         /\ RunKey(d) \in RunKeys /\ RunKey(d) \notin ScheduleKeys
<1>1. delivery[d] \in Delivery
  BY DEF IInv, TypeOK, WebhookTypeOK, NoDelivery
<1>2. RunKey(d) \in WebhookKeys
  BY <1>1 DEF RunKey, WebhookKeys, Delivery
<1> QED BY <1>1, <1>2 DEF WebhookKeys, ScheduleKeys, RunKeys

LEMMA EventKeeps ==
  ASSUME IInv, NEW d \in Deliveries, delivery[d].pc = "verified",
         NEW status \in Statuses, NEW run \in RunKeys \cup {"none"},
         RecordEvent(d, status, run), Answered(d)
  PROVE  /\ WebhookTypeOK' /\ events \subseteq events'
         /\ \A ev \in events' \ events :
              ev.status = status /\ ev.run = run /\ ev.workflow = delivery[d].workflow
<1> DEFINE new == [trigger |-> delivery[d].trigger, key |-> delivery[d].key, status |-> status,
                   run |-> run, workflow |-> delivery[d].workflow,
                   expires |-> delivery[d].now + EventRetention]
<1>1. events' = events \cup {new}
  BY DEF RecordEvent
<1>2. delivery[d] \in Delivery
  BY DeliveryForm
<1>3. delivery[d].now + EventRetention \in Nat
  BY <1>2, UsageAssumption, WebhookAssumption DEF Delivery, Now
<1>4. /\ new \in Event
      /\ new.status = status /\ new.run = run /\ new.workflow = delivery[d].workflow
  BY <1>2, <1>3 DEF Event, Delivery
<1> HIDE DEF new
<1>5. WebhookTypeOK'
  BY <1>1, <1>4 DEF Answered, IInv, TypeOK, WebhookTypeOK
<1> QED BY <1>1, <1>4, <1>5

LEMMA AcceptStepKeeps ==
  ASSUME IInv, NEW d \in Deliveries, AcceptStep(d)
  PROVE  IInv'
<1> DEFINE key == RunKey(d)
           target == delivery[d].workflow
<1>0. /\ UNCHANGED <<clock, workflow, request, scheduleVars>> /\ UNCHANGED <<clock, scheduleVars>>
      /\ delivery[d].pc = "verified" /\ Answered(d)
      /\ clock \in Now /\ clock' \in Now
      /\ TypeOK /\ RunsInv /\ LedgerOK(ledger) /\ TriggeredHasItsRun
  BY DEF AcceptStep, Accept, AcceptDuplicate, AcceptSkipped, AcceptTriggered, RefuseDelivery, IInv,
         TypeOK, LedgerInv
<1>1. /\ ScheduleTypeOK' /\ QuotaInv' /\ TimesInv' /\ SchedulersMoveOn /\ clock' >= clock
      /\ occurrences' = occurrences /\ offTime' = offTime
  BY <1>0, SchedulesLeftAlone
<1>2. /\ delivery[d] \in Delivery /\ key \in RunKeys /\ key \notin ScheduleKeys
      /\ target \in Workflows
  BY <1>0, DeliveryForm DEF Delivery
<1>3. ASSUME WebhookTypeOK', LedgerInv', RunsInv', TriggeredHasItsRun',
             runs' \subseteq [key : RunKeys, workflow : Workflows], dispatches' \subseteq RunKeys
      PROVE  IInv'
  BY <1>0, <1>1, <1>3 DEF IInv, TypeOK, AdmissionTypeOK
<1>4. ASSUME UNCHANGED <<runs, dispatches>>
      PROVE  RunsInv'
  BY <1>0, <1>1, <1>4, RunsLeftAlone, HistoryLasts
<1>5. CASE AcceptDuplicate(d) \/ RefuseDelivery(d)
  <2>1. UNCHANGED <<events, runs, dispatches, ledger, trigger>>
    BY <1>5 DEF AcceptDuplicate, RefuseDelivery, Answered
  <2>2. WebhookTypeOK'
    BY <1>0, <2>1 DEF Answered, IInv, TypeOK, WebhookTypeOK
  <2>3. TriggeredHasItsRun' /\ LedgerInv'
    BY <1>0, <1>1, <2>1 DEF TriggeredHasItsRun, IInv, LedgerInv
  <2> QED BY <1>3, <1>4, <2>1, <2>2, <2>3, RunsLeftAlone
<1>6. ASSUME CanAccept(d)
      PROVE  LedgerOK(Accepted(d))
  BY <1>0, <1>6, AdmitKeeps, WebhookAssumption DEF CanAccept, Accepted
<1>7. CASE AcceptSkipped(d)
  <2>1. /\ ledger' = Accepted(d) /\ CanAccept(d) /\ RecordEvent(d, "SKIPPED", "none")
        /\ UNCHANGED <<runs, dispatches>>
    BY <1>7 DEF AcceptSkipped
  <2>2. LedgerInv'
    BY <1>6, <2>1 DEF LedgerInv, LedgerOK, In
  <2>3. "SKIPPED" \in Statuses /\ "none" \in RunKeys \cup {"none"}
    BY DEF Statuses
  <2>4. WebhookTypeOK' /\ \A ev \in events' \ events : ev.status = "SKIPPED"
    BY <1>0, <2>1, <2>3, EventKeeps
  <2>5. TriggeredHasItsRun'
    BY <1>0, <1>1, <2>1, <2>4, TriggeredLasts
  <2> QED BY <1>3, <1>4, <2>1, <2>2, <2>4, <2>5, RunsLeftAlone
<1>8. CASE AcceptTriggered(d)
  <2>1. /\ CanAccept(d) /\ SameWorkflow(d) /\ RecordEvent(d, "TRIGGERED", key)
        /\ MayStart(Accepted(d), key, clock) /\ StartRun(Accepted(d), key, target, clock)
    BY <1>8 DEF AcceptTriggered
  <2>2. "TRIGGERED" \in Statuses
    BY DEF Statuses
  <2>3. /\ WebhookTypeOK'
        /\ \A ev \in events' \ events : ev.run = key /\ ev.workflow = target
    BY <1>0, <1>2, <2>1, <2>2, EventKeeps
  <2>4. HasRun(key) => [key |-> key, workflow |-> target] \in runs /\ key \in dispatches
    <3> SUFFICES ASSUME HasRun(key)
                 PROVE  [key |-> key, workflow |-> target] \in runs /\ key \in dispatches
      OBVIOUS
    <3>1. PICK r \in runs : r.key = key /\ r.workflow = target
      BY <2>1 DEF HasRun, SameWorkflow, RunsWithKey
    <3> HIDE DEF key, target
    <3>2. r = [key |-> key, workflow |-> target]
      BY <1>0, <3>1 DEF TypeOK, AdmissionTypeOK
    <3>3. key \in dispatches
      BY <1>0, <1>2, <3>1 DEF RunsInv
    <3> QED BY <3>1, <3>2, <3>3
  <2>5. LedgerOK(Accepted(d))
    BY <1>6, <2>1
  <2> HIDE DEF key, target
  <2>6. /\ LedgerOK(ledger') /\ runs \subseteq runs' /\ dispatches \subseteq dispatches'
        /\ runs' \subseteq [key : RunKeys, workflow : Workflows] /\ dispatches' \subseteq RunKeys
        /\ \A r, q \in runs' : r.key = q.key => r = q
        /\ \A r \in runs' \ runs : r = [key |-> key, workflow |-> target] /\ r.key \in dispatches'
        /\ ~HasRun(key) => [key |-> key, workflow |-> target] \in runs' /\ key \in dispatches'
    BY <1>0, <1>2, <2>1, <2>5, StartKeeps
  <2>7. LedgerInv'
    BY <2>6 DEF LedgerInv, LedgerOK, In
  <2>8. \A r \in runs' \ runs : r.key = key /\ r.key \in dispatches'
    BY <2>6
  <2>9. \A r \in runs' \ runs : r.key \notin ScheduleKeys /\ r.key \in dispatches'
    BY <1>2, <2>8
  <2>10. RunsInv'
    BY <1>0, <1>1, <2>6, <2>9, HistoryLasts
  <2>11. TriggeredHasItsRun'
    BY <1>0, <1>1, <2>3, <2>4, <2>6, TriggeredLasts
  <2> QED BY <1>3, <2>3, <2>6, <2>7, <2>10, <2>11
<1> QED BY <1>5, <1>7, <1>8 DEF AcceptStep, Accept

-------------------------------------------------------------------------------
(* What maintenance deletes is too old to be triggered again.                *)
LEMMA MaintenanceKeeps ==
  ASSUME IInv, Maintenance
  PROVE  IInv'
<1>0. /\ UNCHANGED <<clock, admissionVars, schedule, scheduler, editor, offTime, trigger, delivery>>
      /\ occurrences' = KeptOccurrences /\ events' = KeptEvents /\ ledger' = PurgeAdmissions(ledger)
      /\ occurrences' \subseteq occurrences /\ events' \subseteq events
      /\ \A p \in Schedulers : scheduler[p].due = {}
      /\ clock \in Nat /\ Retention \in Nat /\ Grace \in Nat /\ Grace <= Retention
  BY UsageAssumption, CalculatorAssumption, SchedulesAssumption
     DEF Maintenance, NothingInFlight, NoPoll, KeptOccurrences, KeptEvents, IInv, TypeOK, Now
<1>1. LedgerInv'
  <2>1. LedgerOK(ledger')
    BY <1>0, PurgeKeeps DEF IInv, LedgerInv
  <2> QED BY <2>1 DEF LedgerInv, LedgerOK, In
<1>2. AdmissionTypeOK' /\ ScheduleTypeOK' /\ WebhookTypeOK' /\ (clock \in Now)'
  BY <1>0 DEF IInv, TypeOK, AdmissionTypeOK, admissionVars, ScheduleTypeOK, WebhookTypeOK
<1>3. QuotaInv' /\ TimesInv' /\ TriggeredHasItsRun'
  BY <1>0, QuotaLeftAlone DEF IInv, TimesInv, TriggeredHasItsRun, admissionVars
<1>4. ASSUME NEW s, NEW at \in Nat, DealtWith(s, at)
      PROVE  DealtWith(s, at)'
  <2>1. ASSUME NEW o \in occurrences, o.schedule = s, o.at = at, ~(o.created >= Cutoff)
        PROVE  DealtWith(s, at)'
    <3>1. /\ o.created \in Nat /\ o.created < clock - Retention
          /\ o.at <= o.created \/ <<s, at>> \in offTime
      BY <1>0, <2>1, UsageAssumption
         DEF IInv, TypeOK, ScheduleTypeOK, Occurrence, TimesInv, Cutoff, Now
    <3>2. CASE o.at <= o.created
      <4>1. clock - at > Grace
        BY <1>0, <2>1, <3>1, <3>2
      <4> QED BY <1>0, <4>1 DEF TooOld, DealtWith
    <3>3. CASE <<s, at>> \in offTime
      BY <1>0, <3>3 DEF DealtWith
    <3> QED BY <3>1, <3>2, <3>3
  <2>2. CASE Recorded(s, at)
    <3>1. PICK o \in occurrences : o.schedule = s /\ o.at = at
      BY <2>2 DEF Recorded
    <3>2. CASE o.created >= Cutoff
      BY <1>0, <3>1, <3>2 DEF KeptOccurrences, Recorded, DealtWith
    <3> QED BY <2>1, <3>1, <3>2
  <2>3. CASE TooOld(at)
    BY <1>0, <2>3 DEF TooOld, DealtWith
  <2>4. CASE <<s, at>> \in offTime
    BY <1>0, <2>4 DEF DealtWith
  <2> QED BY <1>4, <2>2, <2>3, <2>4 DEF DealtWith
<1>5. RunsInv'
  <2>1. runs' = runs /\ dispatches' = dispatches
    BY <1>0 DEF admissionVars
  <2>2. \A r \in runs : r.key \in ScheduleKeys => r.key[3] \in Nat
    BY DEF ScheduleKeys
  <2> QED BY <1>4, <2>1, <2>2 DEF IInv, RunsInv
<1> QED BY <1>1, <1>2, <1>3, <1>5 DEF IInv, TypeOK

-------------------------------------------------------------------------------
LEMMA Initially == Init => IInv
<1> SUFFICES ASSUME Init PROVE IInv
  OBVIOUS
<1>0. 0 \in Now /\ 0 \in Nat
  BY UsageAssumption DEF Now
<1>1. AdmissionTypeOK /\ clock \in Now
  BY <1>0 DEF Init, AdmissionInit, AdmissionTypeOK, WorkflowStates
<1>2. ScheduleTypeOK
  BY <1>0 DEF Init, ScheduleInit, ScheduleTypeOK, NoPoll, Idle
<1>3. WebhookTypeOK
  BY DEF Init, WebhookInit, WebhookTypeOK
<1>4. LedgerInv
  BY EmptyLedgerOK DEF Init, AdmissionInit, LedgerInv
<1>5. QuotaInv
  <2>1. Active = {}
    BY DEF Init, ScheduleInit, Active, Live, NoSchedule
  <2>2. IsFiniteSet(Active) /\ Cardinality(Active) = 0
    BY <2>1, FS_EmptySet
  <2> QED BY <2>2, SchedulesAssumption
          DEF Init, ScheduleInit, QuotaInv, ActiveWithinQuota, Counted
<1>6. TimesInv /\ RunsInv /\ TriggeredHasItsRun
  BY DEF Init, AdmissionInit, ScheduleInit, WebhookInit, TimesInv, RunsInv, TriggeredHasItsRun, NoPoll
<1> QED BY <1>1, <1>2, <1>3, <1>4, <1>5, <1>6 DEF IInv, TypeOK

LEMMA NextKeeps == IInv /\ [Next]_vars => IInv'
<1> SUFFICES ASSUME IInv, [Next]_vars PROVE IInv'
  OBVIOUS
<1>1. CASE UNCHANGED vars
  <2>1. UNCHANGED <<clock, ledger, admissionVars, scheduleVars, webhookVars>>
    BY <1>1 DEF vars
  <2>2. ScheduleTypeOK' /\ (clock \in Now)' /\ QuotaInv' /\ TimesInv' /\ WebhookTypeOK'
    BY <2>1, SchedulesLeftAlone, WebhooksLeftAlone
  <2>3. AdmissionTypeOK' /\ LedgerInv' /\ TriggeredHasItsRun' /\ RunsInv'
    BY <2>1 DEF IInv, TypeOK, AdmissionTypeOK, admissionVars, LedgerInv, TriggeredHasItsRun, RunsInv,
                DealtWith, Recorded, TooOld, scheduleVars, webhookVars
  <2> QED BY <2>2, <2>3 DEF IInv, TypeOK
<1>2. CASE Next
  BY <1>2, AdmissionStepKeeps, ScheduleEditStepKeeps, PollStepKeeps, ProcessStepKeeps, WebhookStepKeeps,
     AcceptStepKeeps, MaintenanceKeeps, TickStepKeeps DEF Next
<1> QED BY <1>1, <1>2

-------------------------------------------------------------------------------
(* The invariant of everything that starts runs in a workspace.              *)
THEOREM InvCorrect == Spec => []IInv
BY Initially, NextKeeps, PTL DEF Spec

(* Whatever says it triggered has its run, of the right workflow, and the    *)
(* run will be executed; also when the history was purged in between, unless *)
(* it is for an instant that was once dealt with off its time.               *)
THEOREM TriggeredCorrect == Spec => []TriggeredHasItsRun
<1>1. IInv => TriggeredHasItsRun
  BY DEF IInv
<1> QED BY <1>1, InvCorrect, PTL

(* Users who create and enable schedules at once stay within the plan.       *)
THEOREM QuotaCorrect == Spec => []ActiveWithinQuota
<1>1. IInv => ActiveWithinQuota
  BY DEF IInv, QuotaInv
<1> QED BY <1>1, InvCorrect, PTL

(* Every admission is counted in the bucket of its period, and no bucket     *)
(* passes its limit, whatever is rolled back, repeated or deleted later.     *)
THEOREM UsageCorrect == Spec => []UsageIsCharged
<1>1. IInv => UsageIsCharged
  BY DEF IInv, LedgerInv, LedgerOK, UsageIsCharged, AdmissionsIn, In
<1> QED BY <1>1, InvCorrect, PTL

(* However often and late an event is delivered, it starts one run.          *)
THEOREM EventCorrect == Spec => []EventStartsOneRun
<1>1. ASSUME IInv, NEW t \in Triggers, NEW event \in Events
      PROVE  Cardinality(WebhookRuns(t, event)) <= 1
  <2> DEFINE found == WebhookRuns(t, event)
  <2>1. ASSUME NEW r \in found PROVE r \in runs /\ r.key = <<"webhook", t, <<"event", event, 0>>>>
    <3>1. r \in runs /\ r.key[1] = "webhook" /\ r.key[2] = t /\ r.key[3][2] = event
      BY DEF WebhookRuns
    <3>2. r.key \in RunKeys
      BY <1>1, <3>1 DEF IInv, TypeOK, AdmissionTypeOK
    <3>3. r.key \in WebhookKeys
      BY <3>1, <3>2 DEF RunKeys, UserKeys, ScheduleKeys
    <3>4. PICK key \in DedupeKeys : r.key = <<"webhook", t, key>>
      BY <3>1, <3>3 DEF WebhookKeys
    <3>5. key[2] = event
      BY <3>1, <3>4
    <3>6. key = <<"event", event, 0>>
      BY <3>5 DEF DedupeKeys
    <3> QED BY <3>1, <3>4, <3>6
  <2>2. \A r, q \in found : r = q
    BY <1>1, <2>1 DEF IInv, RunsInv
  <2> HIDE DEF found
  <2>3. CASE found = {}
    BY <2>3, FS_EmptySet DEF found
  <2>4. CASE found # {}
    <3>1. PICK r : found = {r}
      BY <2>2, <2>4
    <3>2. Cardinality(found) = 1
      BY <3>1, FS_Singleton
    <3> QED BY <3>2 DEF found
  <2> QED BY <2>3, <2>4
<1>2. IInv => EventStartsOneRun
  BY <1>1 DEF EventStartsOneRun
<1> QED BY <1>2, InvCorrect, PTL

-------------------------------------------------------------------------------
(* What a processed instant leaves in the row agrees with itself.            *)
LEMMA ProcessedRow ==
  ASSUME IInv, NEW p \in Schedulers, NEW s \in Schedules, ProcessStep(p, s)
  PROVE  \/ schedule' = schedule
         \/ schedule'[s] \in OwnRow /\ \A u \in Schedules : u # s => schedule'[u] = schedule[u]
<1> DEFINE d == DecisionOf(p, s)
           state == workflow[ScheduleOwner[s]]
<1>1. CASE NotDueAnymore(p, s) \/ AlreadyRecorded(p, s)
  BY <1>1 DEF NotDueAnymore, AlreadyRecorded
<1>2. CASE ~(NotDueAnymore(p, s) \/ AlreadyRecorded(p, s))
  <2>1. /\ Turn(p, s) /\ StillDue(p, s) /\ clock' = clock
        /\ Advance(s, d, state = "deleted" \/ d.terminal) \/ Advance(s, d, d.terminal)
    BY <1>2 DEF ProcessStep, Process, SkipInstant, TriggerInstant, FailInstant
  <2>2. d.terminal \in BOOLEAN
    BY <2>1, TurnDecision
  <2>3. PICK terminal \in BOOLEAN : Advance(s, d, terminal)
    <3> HIDE DEF d
    <3> QED BY <2>1, <2>2
  <2> QED BY <2>1, <2>3, AdvancedRow
<1> QED BY <1>1, <1>2

(* Only a call that changes no timing makes a row disagree with itself, by   *)
(* writing over a timing it has not seen.                                    *)
LEMMA MismatchWritten ==
  ASSUME IInv, NEW e \in Editors, WriteSchedule(e), NEW s \in Schedules,
         IsMismatched(schedule'[s]), ~IsMismatched(schedule[s])
  PROVE  WritesOverTiming(e, s)
<1> DEFINE call == editor[e]
           row == schedule[s]
<1>0. ScheduleTypeOK /\ QuotaInv
  BY DEF IInv, TypeOK
<1>1. call \in Creation \cup Enabling \cup Edit /\ call.schedule \in Schedules /\ call.pc # "idle"
  BY <1>0 DEF WriteSchedule, ScheduleTypeOK, Creation, Enabling, Edit, Idle
<1>2. call.schedule = s /\ schedule'[s] = Written(call, row)
  <2>1. schedule'[s] # schedule[s]
    OBVIOUS
  <2> QED BY <1>0, <1>1, <2>1 DEF WriteSchedule, ScheduleTypeOK
<1>3. row \in LiveRow \cup {NoSchedule, Deleted} /\ (call.op # "create" => row # NoSchedule)
  BY <1>0, <1>1, <1>2 DEF ScheduleTypeOK, QuotaInv, Creation, Enabling, Edit
<1>4. row # Deleted
  BY <1>0, <1>1, <1>2 DEF WriteSchedule, IsMismatched, ScheduleTypeOK
<1> DEFINE written == Written(call, row)
<1>5. IsMismatched(written) /\ ~IsMismatched(row)
  BY <1>2
<1> HIDE DEF row, call, written
<1>6. CASE call \in Creation
  <2>1. written = call.row /\ call.row \in OwnRow
    BY <1>6 DEF Creation, Written, written
  <2> QED BY <1>5, <2>1 DEF OwnRow
<1>7. CASE call \in Enabling
  <2>1. row \in LiveRow /\ written = [row EXCEPT !.enabled = TRUE]
    BY <1>3, <1>4, <1>7 DEF Enabling, Written, written
  <2> QED BY <1>5, <2>1 DEF LiveRow, AnyRow, IsMismatched
<1>8. CASE call \in Edit
  <2>1. row \in LiveRow /\ call.row \in OwnRow /\ call.op \in {"edit", "input"}
    BY <1>3, <1>4, <1>8 DEF Edit
  <2>2. CASE call.op = "edit"
    <3>1. written = [call.row EXCEPT !.enabled = row.enabled, !.processed = row.processed]
      BY <2>2 DEF Written, written
    <3> QED BY <1>5, <2>1, <3>1 DEF OwnRow, LiveRow, AnyRow, IsMismatched
  <2>3. CASE call.op = "input"
    <3>1. written = [call.row EXCEPT !.enabled = row.enabled, !.processed = row.processed,
                                     !.next = row.next]
      BY <2>3 DEF Written, written
    <3>2. Timing(call.row) # Timing(row)
      BY <1>5, <2>1, <3>1 DEF OwnRow, LiveRow, AnyRow, IsMismatched, Timing
    <3> QED BY <1>2, <2>3, <3>2 DEF WritesOverTiming, call, row
  <2> QED BY <2>1, <2>2, <2>3
<1> QED BY <1>1, <1>6, <1>7, <1>8

LEMMA MismatchArises ==
  ASSUME IInv, [Next]_vars, NEW s \in Schedules,
         IsMismatched(schedule'[s]), ~IsMismatched(schedule[s])
  PROVE  \E e \in Editors : WritesOverTiming(e, s)
<1>0. schedule'[s] # schedule[s] /\ schedule' # schedule
  OBVIOUS
<1>1. Next
  BY <1>0 DEF vars, scheduleVars
<1>2. schedule \in [Schedules -> LiveRow \cup {NoSchedule, Deleted}]
  BY DEF IInv, TypeOK, ScheduleTypeOK
<1>3. ASSUME NEW p \in Schedulers, NEW u \in Schedules, ProcessStep(p, u)
      PROVE  FALSE
  <2>1. schedule'[s] \in OwnRow
    BY <1>0, <1>3, ProcessedRow
  <2> QED BY <2>1 DEF OwnRow
<1>4. ASSUME RowStep
      PROVE  FALSE
  <2>1. PICK u \in Schedules : DisableSchedule(u) \/ DeleteSchedule(u)
    BY <1>4 DEF RowStep
  <2>2. s = u /\ schedule[u] \in LiveRow
    BY <1>0, <1>2, <2>1 DEF DisableSchedule, DeleteSchedule, Live, NoSchedule, Deleted
  <2>3. CASE DisableSchedule(u)
    <3>1. schedule'[s] = [schedule[s] EXCEPT !.enabled = FALSE]
      BY <1>2, <2>2, <2>3 DEF DisableSchedule
    <3> QED BY <2>2, <3>1 DEF LiveRow, AnyRow, IsMismatched
  <2>4. CASE DeleteSchedule(u)
    <3>1. schedule'[s] = Deleted
      BY <1>2, <2>2, <2>4 DEF DeleteSchedule
    <3> QED BY <3>1 DEF Deleted, IsMismatched
  <2> QED BY <2>1, <2>3, <2>4
<1>5. ScheduleEditStep
  <2>1. RequestStep \/ WorkflowStep \/ ManageStep \/ ReceiveStep \/ TickStep => schedule' = schedule
    BY DEF RequestStep, WorkflowStep, ManageStep, ReceiveStep, TickStep, scheduleVars
  <2>2. Maintenance => schedule' = schedule
    BY DEF Maintenance
  <2>3. \A d \in Deliveries : AcceptStep(d) => schedule' = schedule
    BY DEF AcceptStep, scheduleVars
  <2>4. \A p \in Schedulers : PollStep(p) \/ AbandonStep(p) => schedule' = schedule
    BY DEF PollStep, AbandonStep, Poll, AbandonPoll
  <2> QED BY <1>0, <1>1, <1>3, <2>1, <2>2, <2>3, <2>4 DEF Next
<1>6. PICK e \in Editors : WriteSchedule(e)
  BY <1>0, <1>4, <1>5 DEF ScheduleEditStep, UserStep, CreateSchedule, EditSchedule, EditInput,
     EnableSchedule, CountActive
<1> QED BY <1>6, MismatchWritten

(* A schedule starts a run only for an instant of its own definition that    *)
(* has come, and not longer ago than the grace period, at the time of the    *)
(* poll; unless an input-only call has left it the nextRunAt of another       *)
(* definition, which nothing else ever does.                                 *)
THEOREM OnTimeCorrect == Spec => TriggeredOnTime
<1>1. ASSUME IInv, NEW p \in Schedulers, NEW s \in Schedules, NEW o \in occurrences' \ occurrences,
             ProcessStep(p, s), o.status = "TRIGGERED", ~IsMismatched(schedule[s])
      PROVE  /\ o.at <= scheduler[p].now /\ scheduler[p].now - o.at <= Grace
             /\ schedule[s].type = "CRON" => o.at \in CronInstants
  <2> DEFINE d == DecisionOf(p, s)
             new(status, key) == [schedule |-> s, at |-> d.at, status |-> status, run |-> key, created |-> clock]
  <2>1. CASE TriggerInstant(p, s)
    <3>1. /\ Turn(p, s) /\ StillDue(p, s) /\ d.action = "TRIGGER" /\ clock' = clock
          /\ Record(p, s, d, "TRIGGERED", ScheduleKey(s, d.at))
      BY <1>1, <2>1 DEF TriggerInstant, ProcessStep
    <3>2. o.at = d.at
      BY <3>1 DEF Record
    <3>3. IsOnTime(d, scheduler[p].now) /\ (schedule[s].type = "CRON" => d.at \in CronInstants)
      BY <1>1, <3>1, TurnDecision
    <3> QED BY <3>1, <3>2, <3>3 DEF IsOnTime
  <2>2. CASE SkipInstant(p, s)
    <3>1. o = new("SKIPPED", "none")
      BY <2>2 DEF SkipInstant, Record
    <3> QED BY <1>1, <3>1
  <2>3. ASSUME NEW inserted \in BOOLEAN, FailInstant(p, s, inserted)
        PROVE  FALSE
    <3>1. o = new("FAILED", "none")
      BY <2>3 DEF FailInstant, Record
    <3> QED BY <1>1, <3>1
  <2>4. CASE NotDueAnymore(p, s) \/ AlreadyRecorded(p, s)
    BY <2>4 DEF NotDueAnymore, AlreadyRecorded
  <2> QED BY <1>1, <2>1, <2>2, <2>3, <2>4 DEF ProcessStep, Process
<1> DEFINE OnTime ==
      /\ \A p \in Schedulers, s \in Schedules, o \in occurrences' \ occurrences :
           ProcessStep(p, s) /\ o.status = "TRIGGERED" /\ o.schedule = s =>
             \/ /\ o.at <= scheduler[p].now /\ scheduler[p].now - o.at <= Grace
                /\ schedule[s].type = "CRON" => o.at \in CronInstants
             \/ IsMismatched(schedule[s])
      /\ \A s \in Schedules :
           IsMismatched(schedule'[s]) /\ ~IsMismatched(schedule[s]) =>
             \E e \in Editors : WritesOverTiming(e, s)
<1>2. IInv /\ [Next]_vars => OnTime
  BY <1>1, MismatchArises
<1> HIDE DEF OnTime
<1>3. Spec => [][OnTime]_vars
  BY <1>2, InvCorrect, PTL DEF Spec
<1> QED BY <1>3 DEF TriggeredOnTime, OnTime

(* A schedule that has been dealt with is not due any more at that time.     *)
THEOREM NoBackfillCorrect == Spec => NoBackfill
<1>1. ASSUME IInv, NEW p \in Schedulers, NEW s \in Schedules, occurrences' # occurrences,
             ProcessStep(p, s)
      PROVE  ~(IsDue(schedule'[s], scheduler[p].now))
  <2> DEFINE d == DecisionOf(p, s)
  <2>1. /\ Turn(p, s) /\ StillDue(p, s) /\ clock' = clock
        /\ \E terminal : Advance(s, d, terminal)
    BY <1>1 DEF ProcessStep, Process, NotDueAnymore, AlreadyRecorded, SkipInstant, TriggerInstant, FailInstant
  <2>2. /\ schedule[s] \in LiveRow
        /\ d.next # Never => d.next > scheduler[p].now
        /\ [schedule[s] EXCEPT !.next = d.next] \in LiveRow
    BY <1>1, <2>1, TurnDecision DEF OwnRow
  <2>3. schedule'[s].next = d.next
    <3>1. schedule \in [Schedules -> LiveRow \cup {NoSchedule, Deleted}]
      BY <1>1 DEF IInv, TypeOK, ScheduleTypeOK
    <3> HIDE DEF d
    <3>2. PICK terminal : Advance(s, d, terminal)
      BY <2>1 DEF d
    <3> QED BY <2>2, <3>1, <3>2 DEF Advance, LiveRow, AnyRow
  <2>4. d.next \in Nat \cup {Never}
    <3> HIDE DEF d
    <3> QED BY <2>2 DEF LiveRow, AnyRow, Instants
  <2>5. scheduler[p].now \in Nat
    BY <1>1, <2>1, TurnMovesOn, UsageAssumption DEF Now
  <2> HIDE DEF d
  <2>6. schedule'[s].next # Never => ~(schedule'[s].next <= scheduler[p].now)
    <3> DEFINE next == d.next
               now == scheduler[p].now
    <3>1. next \in Nat \cup {Never} /\ now \in Nat /\ (next # Never => next > now)
      BY <2>2, <2>4, <2>5
    <3> HIDE DEF next, now
    <3>2. ASSUME next # Never PROVE ~(next <= now)
      <4>1. next \in Nat /\ next > now
        BY <3>1, <3>2
      <4> QED BY <3>1, <4>1
    <3> QED BY <2>3, <3>2 DEF next, now
  <2> QED BY <2>6 DEF IsDue
<1> DEFINE Dealt == \A p \in Schedulers, s \in Schedules :
                      occurrences' # occurrences /\ ProcessStep(p, s)
                        => ~(IsDue(schedule'[s], scheduler[p].now))
<1>2. IInv => Dealt
  BY <1>1
<1> HIDE DEF Dealt
<1>3. Spec => [][Dealt]_vars
  BY <1>2, InvCorrect, PTL
<1> QED BY <1>3 DEF NoBackfill, Dealt

(* A run that will be executed was charged when it started, and somebody is  *)
(* answerable for it from its first moment.                                  *)
THEOREM StartsCorrect == Spec => StartsAreAccountedFor
<1> DEFINE Accounted == \A key \in dispatches' \ dispatches :
                          /\ IsAdmitted(ledger', "WORKFLOW_START_DAY", OperationKey(key))
                          /\ HasPrincipal(key)'
<1>1. ASSUME IInv, Next PROVE Accounted
  <2>0. TypeOK /\ RunsInv /\ LedgerOK(ledger) /\ clock \in Now
    BY <1>1 DEF IInv, TypeOK, LedgerInv
  <2>1. CASE UNCHANGED dispatches
    BY <2>1
  <2>2. ASSUME NEW u \in Requesters, NEW limited \in BOOLEAN, CommitRun(u, limited)
        PROVE  Accounted
    <3> DEFINE r == request[u]
    <3>1. r.key \in UserKeys /\ r.workflow \in Workflows
      BY <2>0, <2>2 DEF CommitRun, TypeOK, AdmissionTypeOK, Request, NoRequest
    <3>2. \/ UNCHANGED dispatches
          \/ MayStart(ledger, r.key, clock) /\ StartRun(ledger, r.key, r.workflow, clock)
      BY <2>2 DEF CommitRun, StartRun
    <3>3. r.key[1] = "user" /\ r.key \in RunKeys
      BY <3>1, UserKeysAreApart
    <3> HIDE DEF r
    <3>4. CASE MayStart(ledger, r.key, clock) /\ StartRun(ledger, r.key, r.workflow, clock)
      <4>1. \A new \in dispatches' \ dispatches :
              new = r.key /\ IsAdmitted(ledger', "WORKFLOW_START_DAY", OperationKey(new))
        BY <2>0, <3>1, <3>3, <3>4, StartKeeps
      <4>2. \A new \in dispatches' \ dispatches : new[1] = "user"
        BY <3>3, <4>1
      <4> QED BY <4>1, <4>2 DEF HasPrincipal
    <3> QED BY <2>1, <3>2, <3>4
  <2>3. ASSUME NEW p \in Schedulers, NEW s \in Schedules, ProcessStep(p, s), TriggerInstant(p, s)
        PROVE  Accounted
    <3> DEFINE d == DecisionOf(p, s)
               key == ScheduleKey(s, d.at)
    <3>1. /\ Turn(p, s) /\ StillDue(p, s) /\ clock' = clock /\ Record(p, s, d, "TRIGGERED", key)
          /\ MayStart(ledger, key, clock) /\ StartRun(ledger, key, ScheduleOwner[s], clock)
      BY <2>3 DEF ProcessStep, TriggerInstant
    <3>2. d.at \in Nat
      BY <1>1, <3>1, TurnDecision
    <3>3. key \in RunKeys /\ ScheduleOwner[s] \in Workflows
      <4> HIDE DEF d
      <4> QED BY <3>2, ScheduleKeyForm, SchedulesAssumption
    <3>4. \E o \in occurrences' : o.status = "TRIGGERED" /\ o.run = key
      <4> DEFINE new == [schedule |-> s, at |-> d.at, status |-> "TRIGGERED", run |-> key, created |-> clock]
      <4>1. new \in occurrences'
        BY <3>1 DEF Record
      <4>2. new.status = "TRIGGERED" /\ new.run = key
        OBVIOUS
      <4> HIDE DEF new, key
      <4> QED BY <4>1, <4>2
    <3> HIDE DEF key
    <3>5. \A new \in dispatches' \ dispatches :
            new = key /\ IsAdmitted(ledger', "WORKFLOW_START_DAY", OperationKey(new))
      BY <2>0, <3>1, <3>3, StartKeeps
    <3>6. \A new \in dispatches' \ dispatches : \E o \in occurrences' : o.status = "TRIGGERED" /\ o.run = new
      BY <3>4, <3>5
    <3> QED BY <3>5, <3>6 DEF HasPrincipal
  <2>4. ASSUME NEW d \in Deliveries, AcceptStep(d), AcceptTriggered(d)
        PROVE  Accounted
    <3> DEFINE key == RunKey(d)
               target == delivery[d].workflow
    <3>1. /\ delivery[d].pc = "verified" /\ CanAccept(d) /\ RecordEvent(d, "TRIGGERED", key)
          /\ EventExists(d) /\ Answered(d)
          /\ MayStart(Accepted(d), key, clock) /\ StartRun(Accepted(d), key, target, clock)
      BY <2>4 DEF AcceptTriggered
    <3>2. key \in RunKeys /\ target \in Workflows
      BY <1>1, <3>1, DeliveryForm DEF Delivery
    <3>3. LedgerOK(Accepted(d))
      BY <2>0, <3>1, AdmitKeeps, WebhookAssumption DEF CanAccept, Accepted
    <3>4. \E ev \in events' : ev.status = "TRIGGERED" /\ ev.run = key /\ trigger'[ev.trigger] # NoTrigger
      <4> DEFINE new == [trigger |-> delivery[d].trigger, key |-> delivery[d].key, status |-> "TRIGGERED",
                         run |-> key, workflow |-> target, expires |-> delivery[d].now + EventRetention]
      <4>1. new \in events' /\ trigger' = trigger
        BY <3>1 DEF RecordEvent, Answered
      <4>2. trigger[delivery[d].trigger] # NoTrigger
        BY <3>1 DEF EventExists
      <4>3. new.trigger = delivery[d].trigger /\ new.status = "TRIGGERED" /\ new.run = key
        OBVIOUS
      <4> HIDE DEF new, key
      <4> QED BY <4>1, <4>2, <4>3
    <3> HIDE DEF key, target
    <3>5. \A new \in dispatches' \ dispatches :
            new = key /\ IsAdmitted(ledger', "WORKFLOW_START_DAY", OperationKey(new))
      BY <2>0, <3>1, <3>2, <3>3, StartKeeps
    <3>6. \A new \in dispatches' \ dispatches :
            \E ev \in events' : ev.status = "TRIGGERED" /\ ev.run = new /\ trigger'[ev.trigger] # NoTrigger
      BY <3>4, <3>5
    <3> QED BY <3>5, <3>6 DEF HasPrincipal
  <2>5. \/ UNCHANGED dispatches
        \/ \E u \in Requesters, limited \in BOOLEAN : CommitRun(u, limited)
        \/ \E p \in Schedulers, s \in Schedules : ProcessStep(p, s) /\ TriggerInstant(p, s)
        \/ \E d \in Deliveries : AcceptStep(d) /\ AcceptTriggered(d)
    <3>1. CASE RequestStep
      BY <3>1 DEF RequestStep, RequestRun, RecheckKey
    <3>2. ASSUME NEW p \in Schedulers, NEW s \in Schedules, ProcessStep(p, s)
          PROVE  UNCHANGED dispatches \/ TriggerInstant(p, s)
      BY <3>2 DEF ProcessStep, Process, NotDueAnymore, AlreadyRecorded, SkipInstant, FailInstant
    <3>3. ASSUME NEW d \in Deliveries, AcceptStep(d)
          PROVE  UNCHANGED dispatches \/ AcceptTriggered(d)
      BY <3>3 DEF AcceptStep, Accept, AcceptDuplicate, AcceptSkipped, RefuseDelivery
    <3>4. CASE \/ WorkflowStep \/ ScheduleEditStep \/ ManageStep \/ ReceiveStep \/ Maintenance \/ TickStep
               \/ \E p \in Schedulers : PollStep(p) \/ AbandonStep(p)
      BY <3>4 DEF WorkflowStep, SetWorkflow, ScheduleEditStep, ManageStep, ReceiveStep, Maintenance, TickStep,
                  PollStep, AbandonStep, admissionVars
    <3> QED BY <1>1, <3>1, <3>2, <3>3, <3>4 DEF Next
  <2> QED BY <2>1, <2>2, <2>3, <2>4, <2>5
<1>2. ASSUME IInv, UNCHANGED vars PROVE Accounted
  BY <1>2 DEF vars, admissionVars
<1> HIDE DEF Accounted
<1>3. IInv /\ [Next]_vars => Accounted
  BY <1>1, <1>2
<1>4. Spec => [][Accounted]_vars
  BY <1>3, InvCorrect, PTL DEF Spec
<1> QED BY <1>4 DEF StartsAreAccountedFor, Accounted
===============================================================================
