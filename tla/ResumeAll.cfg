CONSTANTS
  s = s  a = a  b = b  c = c  f = f  g = g  yes = yes  no = no
  NoNode = NoNode  NoBranch = NoBranch
  Node = {s, a, b, c, f, g}
  Branch = {yes, no}
  Graphs <- AllForms
  PoolSize = 2
  MaxDepth = 4
  Saved <- Edited
  MaxRuns = 3
  Publisher = {p1, p2}
  MayFail = {a}
SPECIFICATION ServiceSpec
INVARIANTS SnapshotIsExact ResumeRepeatsNothing ResumeCompletes StaysPublished
