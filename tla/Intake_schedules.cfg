SPECIFICATION FairSpec
CONSTANTS
  s1 = s1
  s2 = s2
  w1 = w1
  w2 = w2
  Never = Never
  UsageLimit <- Limits
  Day = 2
  Retention = 1
  MaxTime = 2
  Workflows = {w1}
  Requesters = {}
  ClientKeys = {k1, k2}
  k1 = k1
  k2 = k2
  Folded <- FoldedKeys
  CronInstants <- Cron
  Grace = 0
  Schedules = {s1, s2}
  Definitions <- Defs
  ScheduleOwner <- ScheduleOwners
  Schedulers = {p1}
  Editors = {e1, e2}
  e1 = e1
  e2 = e2
  BatchSize = 2
  ActiveLimit = 1
  Triggers = {}
  Deliveries = {}
  Events = {x}
  Payloads = {y}
  ReplayWindow = 1
  EventRetention = 1
  MaxSecret = 2
CHECK_DEADLOCK FALSE
CONSTRAINT ScheduleBound
INVARIANTS
  ActiveWithinQuota
PROPERTIES
  TriggeredOnTime
  NoBackfill
  DueIsRecorded
