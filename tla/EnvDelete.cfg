CONSTANTS
  Instances = {i1, i2, i3}
  Creators = {c1, c2}
  Names = {n}
  None = None
  Gone = Gone
  FirstPort = 1
  LastPort = 2
  MaxStarts = 1
SPECIFICATION Spec
SYMMETRY Symmetry
INVARIANT NoSilentOrphan
CHECK_DEADLOCK FALSE
