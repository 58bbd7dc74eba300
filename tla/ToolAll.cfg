CONSTANTS
  Run = {r1}
  Program <- MCProgram
  Limit = {0, 1}
  CpuLimit = 2
  Default = 3
  MaxAge = 4
  Tool = {t1}
  Editor = {e1, e2}
SPECIFICATION Spec
INVARIANTS NothingLeftRunning RecordTellsRun PublishedWasChecked
PROPERTIES RunsEnd
CHECK_DEADLOCK FALSE
