SPECIFICATION WsSpec
CONSTANTS
  Scenarios = {s1, s2}
  Pinned = {}
  NoScenario = NoScenario
  NoCommit = NoCommit
  MaxEdits = 1
INVARIANTS InitIsAwaited
