INIT ChecksInit
NEXT ChecksNext
CONSTANTS
  None = None
INVARIANTS LaunchKeepsTheRules DisplayShowsWhatCounts GradesMeanWhatTheySay NumbersAreFair SelectionIsWhatWasAsked
CHECK_DEADLOCK FALSE
