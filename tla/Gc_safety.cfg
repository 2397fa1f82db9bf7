SPECIFICATION GcSpec
CONSTANTS
  Runs = {r1, r2}
  Pids = {p1, p2}
  Groups = {g1, g2}
  NoRun = NoRun
  NoPid = NoPid
  HasPsutil = TRUE
  MayCrash = TRUE
  MayTear = FALSE
  Stubborn = {g1}
  Unmakeable = {g2}
  StrictRuns = {r2}
  KeepRuns = {r1}
  ForeignPids = {p1}
  KeepLast = 1
  AgeLimit = FALSE
INVARIANTS LiveRunRecorded
PROPERTIES WholeReadKeepsRuns LiveRunSpared NoGroupPassedOver RegistryKept
