CONSTANTS
  Process = {p1, p2}
  Trigger = {t1}
  Settings <- MCSettings
  Free = Free
  MaxRequests = 2
  MaxCrashes = 1
  MaxTime = 1
SPECIFICATION Spec
INVARIANTS OneInside EnabledHasJob EditKeepsTask
SYMMETRY Symmetry
CHECK_DEADLOCK FALSE
