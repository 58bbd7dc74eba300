CONSTANTS
  Turn = {t1, t2, t3}
  Limits = {0, 2}
  Reader = {r1, r2, r3}
  ProcessOf <- MCProcessOf
  Editor = {e1, e2}
  Absent = Absent
  Cacheable = TRUE
SPECIFICATION CacheSpec
INVARIANTS GrantedAtMost CacheIsCurrent BuiltOnce
SYMMETRY Symmetry
CHECK_DEADLOCK FALSE
