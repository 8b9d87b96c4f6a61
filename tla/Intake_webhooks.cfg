SPECIFICATION Spec
CONSTANTS
  s1 = s1
  s2 = s2
  w1 = w1
  w2 = w2
  Never = Never
  UsageLimit <- Limits
  Day = 2
  Retention = 1
  MaxTime = 2
  Workflows = {w1, w2}
  Requesters = {u1}
  ClientKeys = {k1, k2}
  k1 = k1
  k2 = k2
  Folded <- FoldedKeys
  CronInstants <- Cron
  Grace = 0
  Schedules = {}
  Definitions <- Defs
  ScheduleOwner <- ScheduleOwners
  Schedulers = {}
  Editors = {}
  e1 = e1
  e2 = e2
  BatchSize = 2
  ActiveLimit = 1
  Triggers = {t1}
  Deliveries = {d1}
  Events = {x}
  Payloads = {y}
  ReplayWindow = 1
  EventRetention = 1
  MaxSecret = 2
CHECK_DEADLOCK FALSE
CONSTRAINT WebhookBound
INVARIANTS
  TriggeredHasItsRun
  UsageIsCharged
  EventStartsOneRun
PROPERTIES
  StartsAreAccountedFor
