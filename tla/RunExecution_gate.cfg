SPECIFICATION Spec
CONSTANTS
  Workers = {w1, w2}
  Steps = {"gate", "last"}
  Entry = "gate"
  NoStep = "none"
  Edges <- GateEdges
  ApprovalSteps = {"gate"}
  MaxRetries = 0
  MaxSteps = 2
  MaxClaims = 3
  Faults = TRUE
SYMMETRY WorkerSymmetry
INVARIANTS
  WaitingHasOneRequest
PROPERTIES
  TerminalIsFinal
  ImplementsLifecycle
CHECK_DEADLOCK FALSE
