SPECIFICATION Spec
CONSTANTS
  Dirs = 1
  Turns = 2
  Workers = 1
  MaxTries = 1
  Budget = 0
  Consensus = "majority"
  Cumulative = FALSE
  MaxJudges = 2
  MaxLoad = 2
  MaxOdd = 1
INVARIANTS UncoveredTurnFails
