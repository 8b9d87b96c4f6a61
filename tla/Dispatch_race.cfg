SPECIFICATION DispatchSpec
CONSTANTS
  pass1 = pass1
  pass2 = pass2
  slot1 = slot1
  slot2 = slot2
  p = p
  q = q
  Dispatchers = {pass1, pass2}
  Workers = {slot1, slot2}
  Process <- ProcessOf
  MaxAttempts = 2
  MaxGeneration = 2
  MaxReservations = 2
  MaxClaims = 2
  Faults = {"passFails", "passFailsAfterEnqueue", "workerDies", "workerFails", "slowQueue", "slowPass", "slowHeartbeat"}
  MaxFaults = 1
SYMMETRY SwapProcesses
PROPERTIES
  ClaimsAreFenced
  GenerationMovesOnByItsJob
CHECK_DEADLOCK FALSE
