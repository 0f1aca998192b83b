CONSTANTS
  Pids = {p1, p2}
  NoPid = NoPid
  Tasks = {t1, t2}
  Ops = {"start"}
  Initially = {"stopped"}
  MaxCalls = 2
  MacOS = TRUE
  MayRelaunch = FALSE
  MayGlitch = FALSE
  MayHang = FALSE
  SlowWatcher = FALSE
  MaxCrashes = 0
SPECIFICATION Spec
INVARIANT OneLaunchAtATime
CHECK_DEADLOCK FALSE
