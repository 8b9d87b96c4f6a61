SPECIFICATION Spec
CONSTANTS
  Workers = {w1}
  Steps = {"first", "gate"}
  Entry = "first"
  NoStep = "none"
  Edges <- TerminalGateEdges
  ApprovalSteps = {"gate"}
  MaxRetries = 0
  MaxSteps = 2
  MaxClaims = 3
  Faults = FALSE
PROPERTIES
  NoRerunOfSucceededSteps
CHECK_DEADLOCK FALSE
