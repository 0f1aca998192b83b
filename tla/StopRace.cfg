CONSTANTS
  Pids = {p1}
  NoPid = NoPid
  Tasks = {t1, t2, t3}
  Ops = {"stop", "stopAll", "delete"}
  Initially = {"running"}
  MaxCalls = 2
  MacOS = TRUE
  MayRelaunch = FALSE
  MayGlitch = TRUE
  MayHang = FALSE
  SlowWatcher = TRUE
  MaxCrashes = 1
SPECIFICATION Spec
SYMMETRY Symmetry
INVARIANT NoDoublePromote
PROPERTIES StoppedMeansGone DeletedMeansGone
CHECK_DEADLOCK FALSE
