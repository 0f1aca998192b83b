CONSTANTS
  Recs = {r1, r2}
  Conns = {k1, k2}
  Calls = {c1, c2}
  Targets = {t1}
  Files = {f1}
  None = None
  MaxCalls = 2
  MaxInbox = 1
SPECIFICATION Spec
SYMMETRY Symmetry
INVARIANT RebuildEndsWaits
CHECK_DEADLOCK FALSE
