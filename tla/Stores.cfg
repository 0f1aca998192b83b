CONSTANTS
  Identities = {a, b, c}
  None = None
  Torn = Torn
  Keep = 3
  MaxGen = 7
  ClearFails = FALSE
  PruneFails = FALSE
  Ids = {a, b}
  Absent = Absent
  Instances = {i1, i2}
  Tasks = {t1, t2}
  Ops = {"promote", "capture", "self", "restore", "reset", "clone"}
  MaxCalls = 4
  MaxLogins = 2
  MaxCrashes = 1
  MayFail = TRUE
  Created = {i1, i2}
  Names = {n}
  Gone = Gone
  FirstPort = 1
  LastPort = 2
  MaxStarts = 1
SPECIFICATION MCSpec
SYMMETRY Symmetry
INVARIANTS SnapshotSurvives StatusIsHonest SomebodyGoesOn GoneForGood PortsDifferUnlessRaced
PROPERTIES KeepsPromise FirstLoginOnce CookiesFollowFiles
CHECK_DEADLOCK FALSE
