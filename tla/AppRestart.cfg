CONSTANTS
  Pids = {p1, p2}
  NoPid = NoPid
  Tasks = {t1}
  Ops = {"start", "stop", "restart", "delete"}
  Initially = {"running", "creating"}
  MaxCalls = 2
  MacOS = TRUE
  MayRelaunch = TRUE
  MayGlitch = FALSE
  MayHang = TRUE
  SlowWatcher = FALSE
  MaxCrashes = 1
SPECIFICATION FairSpec
PROPERTIES DeadStartResolves CallsEnd DriftIsRepaired ZombieIsNoticed
CHECK_DEADLOCK FALSE
