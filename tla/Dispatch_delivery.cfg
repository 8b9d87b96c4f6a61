SPECIFICATION DispatchFairSpec
CONSTANTS
  pass1 = pass1
  pass2 = pass2
  slot1 = slot1
  slot2 = slot2
  p = p
  q = q
  Dispatchers = {pass1}
  Workers = {slot1, slot2}
  Process <- ProcessOf
  MaxAttempts = 3
  MaxGeneration = 3
  MaxReservations = 3
  MaxClaims = 2
  Faults = {"passFails", "slowQueue"}
  MaxFaults = 2
PROPERTIES
  QueuedRunStarts
CHECK_DEADLOCK FALSE
