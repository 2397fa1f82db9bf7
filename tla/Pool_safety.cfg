SPECIFICATION FairPoolSpec
CONSTANTS
  Scenarios = {s1, s2}
  Pinned = {s2}
  NoScenario = NoScenario
  NoCommit = NoCommit
  MaxEdits = 1
  Workers = 2
  MaxInterrupts = 2
INVARIANTS NeverReinit FreshSnapshot ExitClean TeardownAfterScenarios ZeroMeansAllRan

PROPERTIES RunEnds
