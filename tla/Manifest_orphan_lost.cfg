SPECIFICATION Spec
CONSTANTS
  Runs = {r1}
  Pids = {p1, p2}
  Groups = {g1}
  NoRun = NoRun
  NoPid = NoPid
  HasPsutil = TRUE
  MayCrash = TRUE
  MayTear = FALSE
  Stubborn = {}
  Unmakeable = {}
  StrictRuns = {}
  KeepRuns = {}
  ForeignPids = {}
INVARIANTS OrphansRecorded
