SPECIFICATION Spec
CONSTANTS
  N = 3
  NoTurn = NoTurn
  MainThread = TRUE
INVARIANTS TypeOK SetUpIsUndone AgentInItsWorld TurnsInPlace PriorInPlace FailureVisible
