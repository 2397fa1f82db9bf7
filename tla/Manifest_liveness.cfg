SPECIFICATION FairSpec
CONSTANTS
  Runs = {r1, r2, r3}
  Pids = {p1, p2}
  Groups = {g1}
  NoRun = NoRun
  NoPid = NoPid
  HasPsutil = TRUE
  MayCrash = TRUE
  MayTear = FALSE
  Stubborn = {}
  Unmakeable = {}
  StrictRuns = {}
  KeepRuns = {}
  ForeignPids = {p1}
PROPERTIES EveryRunEnds OrphansReaped
