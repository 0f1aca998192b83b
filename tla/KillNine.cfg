CONSTANTS
  Pids = {p1, p2}
  NoPid = NoPid
  Tasks = {t1, m1}
  Monitors = {m1}
  Ops = {"stop"}
  Initially = {"running"}
  MaxCalls = 0
  MacOS = FALSE
  MayRelaunch = FALSE
  MayGlitch = FALSE
  MayHang = FALSE
  SlowWatcher = FALSE
  MaxCrashes = 0
  Entries = {e1, e2}
  NoEntry = NoEntry
  Limit = 3
  MaxUpdates = 0
SPECIFICATION HFairSpec
PROPERTY CrashIsRepaired
CHECK_DEADLOCK FALSE
