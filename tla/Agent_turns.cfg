SPECIFICATION FairSpec
CONSTANTS
  Agents = {"claude", "codex", "copilot", "cursor", "goose", "opencode", "gemini"}
  CallIds = {c1, c2}
  Sessions = {k1}
  NoId = NoId
  None = None
  BeltName = BeltName
  Turns = 2
  MaxLines = 2
  MaxErr = 2
  PipeCap = 1
  LineMax = 2
  StreamMaxes = {1, 3}
  SinkMax = 3
  MainThread = TRUE
INVARIANTS SinkShowsAPrefix SessionKept ResultsBelong FailuresAreTyped ChildrenAreOver
PROPERTIES TurnEnds
