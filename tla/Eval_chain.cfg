SPECIFICATION MCSpec
CONSTANTS
  s1 = s1
  s2 = s2
  None = None
  Scenarios = {s1, s2}
  Streams = {s1}
  StreamLines = 2
  Idle = 2
  Viewers = {"none", "watch", "follow", "live"}
  Demands <- MCDemands
  Fates = {"setup", "raised", "clean", "blocked", "failed"}
  Kinds = {"good", "poor", "unjudged", "voteless"}
  Reruns = 1
INVARIANTS GreenIsEarned OverallIsEarned SplitAddsUp ShownFaithfully
PROPERTIES ViewEnds
CHECK_DEADLOCK FALSE
