CONSTANTS
  Pids = {p1, p2}
  NoPid = NoPid
  Tasks = {t1, r1}
  Readers = {r1}
  Ops = {"start", "stop", "stopAll", "restart", "delete"}
  Initially = {"stopped", "running", "creating"}
  MaxCalls = 3
  MacOS = TRUE
  MayRelaunch = FALSE
  MayGlitch = TRUE
  MayHang = TRUE
  SlowWatcher = FALSE
  MaxCrashes = 0
SPECIFICATION SerialSpec
SYMMETRY Symmetry
INVARIANTS TypeOK NamedUnlessAstray
CHECK_DEADLOCK FALSE
