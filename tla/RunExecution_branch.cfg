SPECIFICATION Spec
CONSTANTS
  Workers = {w1, w2}
  Steps = {"cond", "left", "right"}
  Entry = "cond"
  NoStep = "none"
  Edges <- BranchEdges
  ApprovalSteps = {}
  MaxRetries = 1
  MaxSteps = 3
  MaxClaims = 2
  Faults = TRUE
SYMMETRY WorkerSymmetry
INVARIANTS
  TypeOK
  HistoryFollowsEdges
  CompletedReachedEnd
  AttemptsBounded
PROPERTIES
  SuccessIsFenced
  HistoryIsAppendOnly
CHECK_DEADLOCK FALSE
