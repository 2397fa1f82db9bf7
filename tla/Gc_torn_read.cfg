SPECIFICATION GcSpec
CONSTANTS
  Runs = {r1, r2}
  Pids = {p1, p2}
  Groups = {g1}
  NoRun = NoRun
  NoPid = NoPid
  HasPsutil = TRUE
  MayCrash = FALSE
  MayTear = FALSE
  Stubborn = {}
  Unmakeable = {}
  StrictRuns = {}
  KeepRuns = {}
  ForeignPids = {}
  KeepLast = 0
  AgeLimit = TRUE
PROPERTIES RegisteredRunKept
