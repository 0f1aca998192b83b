CONSTANTS
  Callers = {c1, c2}
  Targets = {a, b}
  None = None
  MaxSpawns = 2
  MaxEvents = 2
  BusyQuit = FALSE
  Tasks = {t1, t2}
  Old = Old
  Pinned = Pinned
  Parts = {bin, lib}
  Binary = bin
  MaxCrashes = 1
  MaxCalls = 3
  Instances = {i1, i2}
  Envs = {e1, e2}
  Name = Name
  MaxSnapshots = 2
SPECIFICATION MCSpec
INVARIANTS OneTunnel VouchedIsWhole ClientsAreServedAsTold
PROPERTIES TunnelFollowsSettings AskersEnd
CHECK_DEADLOCK FALSE
