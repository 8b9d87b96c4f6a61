-------------------------- MODULE ScheduleCalculator --------------------------
(***************************************************************************)
(* When a schedule fires: the pure functions of lib/schedules/calculator.ts *)
(* over a schedule s with the fields                                        *)
(*   type, every (intervalSeconds), runAt, misfire, next (nextRunAt).       *)
(* Times are ticks; Never is the null time.                                 *)
(***************************************************************************)
EXTENDS Integers, FiniteSetsExt

CONSTANTS
  CronInstants,  \* the instants the cron expressions in use denote
  Grace,         \* SCHEDULE_MISFIRE_GRACE_SECONDS
  Never          \* null

ASSUME CalculatorAssumption ==
  CronInstants \subseteq Nat /\ Grace \in Nat /\ Never \notin Nat

(* cron-parser's next() and prev(): the nearest instant strictly after and   *)
(* strictly before a time.                                                   *)
CronNext(from) == Min({t \in CronInstants : t > from})
CronPrev(from) == Max({t \in CronInstants : t < from})

calculateNextRunAt(s, from) ==
  CASE s.type = "CRON" -> CronNext(from)
    [] s.type = "INTERVAL" -> from + s.every
    [] s.type = "ONE_TIME" -> IF s.runAt > from THEN s.runAt ELSE Never

(* The last instant not after now, when nextRunAt has passed.               *)
calculateLatestRunAt(s, now) ==
  IF s.type = "INTERVAL"
  THEN s.next + ((now - s.next) \div s.every) * s.every
  ELSE CronPrev(now + 1)

(* Mutated form of calculateFollowingRunAt: no + 1 after the floor.          *)
FollowingWithoutPlusOne(s, scheduledFor, now) ==
  IF s.type = "CRON" THEN CronNext(now)
  ELSE scheduledFor + ((now - scheduledFor) \div s.every) * s.every

calculateFollowingRunAt(s, scheduledFor, now) ==
  IF s.type = "CRON" THEN CronNext(now)
  ELSE scheduledFor + ((now - scheduledFor) \div s.every + 1) * s.every

IsDue(s, now) == s.next # Never /\ s.next <= now

(* Mutated form of WithinGrace: any age will do.                             *)
AnyAge(instant, now) == instant <= now

WithinGrace(instant, now) == now - instant <= Grace

(* The decision for a schedule that is due.  A one-time schedule names runAt *)
(* and ends; a recurring one fires at nextRunAt, or at the latest instant    *)
(* when nextRunAt is too old and the policy says so, or skips nextRunAt.     *)
Decision(action, at, next, terminal) ==
  [action |-> action, at |-> at, next |-> next, terminal |-> terminal]

calculateDueSchedule(s, now) ==
  LET latest == calculateLatestRunAt(s, now)
  IN  CASE s.type = "ONE_TIME" ->
             Decision(IF WithinGrace(s.next, now) THEN "TRIGGER" ELSE "SKIP",
                      s.runAt, Never, TRUE)
        [] s.type # "ONE_TIME" /\ WithinGrace(s.next, now) ->
             Decision("TRIGGER", s.next, calculateFollowingRunAt(s, s.next, now), FALSE)
        [] s.type # "ONE_TIME" /\ ~WithinGrace(s.next, now)
           /\ s.misfire = "FIRE_ONCE" /\ WithinGrace(latest, now) ->
             Decision("TRIGGER", latest, calculateFollowingRunAt(s, latest, now), FALSE)
        [] OTHER ->
             Decision("SKIP", s.next, calculateFollowingRunAt(s, s.next, now), FALSE)

(* initialNextRunAt: a one-time schedule is armed at runAt even if that has  *)
(* passed; a recurring one at its first instant after now.                   *)
initialNextRunAt(s, now) ==
  IF s.type = "ONE_TIME" THEN s.runAt ELSE calculateNextRunAt(s, now)
===============================================================================
