SPECIFICATION Spec
CONSTANTS
  a1 = a1
  a2 = a2
  t1 = t1
  t2 = t2
  t3 = t3
  c1 = c1
  u1 = u1
  u2 = u2
  k1 = k1
  Invalid = Invalid
  UsageLimit <- Limits
  Day = 3
  Retention = 1
  MaxTime = 2
  CredentialIds = {c1}
  Managers = {u1, u2}
  Keyring <- OneKey
  CurrentKey = "v1"
  CredentialLimit = 1
  MaxSecret = 2
  Actions = {a1, a2}
  Attempts = {t1, t2, t3}
  ActionOf <- ActionOfAttempt
  Uses <- CredentialOfAction
  ConcurrentActions = 1
  Lease = 1
CHECK_DEADLOCK FALSE
CONSTRAINT ActionBound
INVARIANTS
  PostedOnce
  OutcomeIsHonest
PROPERTIES
  RowsMoveAsAllowed
  RevocationIsFinal
