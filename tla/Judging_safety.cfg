SPECIFICATION FairSpec
CONSTANTS
  Dirs = 2
  Turns = 2
  Workers = 2
  MaxTries = 2
  Budget = 2
  Consensus = "majority"
  Cumulative = FALSE
  MaxJudges = 2
  MaxLoad = 2
  MaxOdd = 2
INVARIANTS CacheBounded VotesAreOwn PassIsEarned CostsCovered
PROPERTIES PhaseEnds
