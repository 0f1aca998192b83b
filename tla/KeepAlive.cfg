CONSTANTS
  Pids = {p1, p2}
  NoPid = NoPid
  Tasks = {t1, m1, m2}
  Monitors = {m1, m2}
  Ops = {"stopAll", "delete"}
  Initially = {"running", "creating"}
  MaxCalls = 1
  MacOS = FALSE
  MayRelaunch = FALSE
  MayGlitch = FALSE
  MayHang = FALSE
  SlowWatcher = FALSE
  MaxCrashes = 1
  Entries = {e1, e2}
  NoEntry = NoEntry
  Limit = 2
  MaxUpdates = 1
SPECIFICATION HSpec
SYMMETRY Symmetry
INVARIANT NoStorm
PROPERTY UserStopIsNoCrash
CHECK_DEADLOCK FALSE
