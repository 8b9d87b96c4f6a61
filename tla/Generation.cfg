SPECIFICATION FairSpec
CONSTANTS
  r1 = r1
  r2 = r2
  k1 = k1
  b1 = b1
  b2 = b2
  x1 = x1
  x2 = x2
  c1 = c1
  s1 = s1
  o1 = o1
  g1 = g1
  g2 = g2
  t1 = t1
  NoKey = NoKey
  UsageLimit <- Limits
  Day = 2
  Retention = 2
  MaxTime = 3
  Requests = {r1, r2}
  Keys = {k1}
  Bodies = {b1, b2}
  Streams = {b2}
  StaleAfter = 0
  AiRetention = 1
  Invalid = Invalid
  ResponseKeyring <- Ring
  ResponseKey = "v1"
  Executions = {x1, x2}
  RunKeys = {c1}
  StepKeys = {s1}
  Owners = {o1}
  Goals = {g1, g2}
  Patches <- SomePatches
  MaxSteps = 2
  Tools = {t1}
  ConcurrentAgents = 1
CHECK_DEADLOCK FALSE
CONSTRAINT GenerationBound
INVARIANTS
  OneCallPerKey
  AnswersAgree
  AnswersAreBacked
  TranscriptMatchesRun
PROPERTIES
  SettledStaysSettled
  InProgressSettles
