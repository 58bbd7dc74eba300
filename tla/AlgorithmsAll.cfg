CONSTANTS
  st = st  n1 = n1  n2 = n2  n3 = n3  lp = lp  bd = bd
  NoNode = NoNode  NoBranch = NoBranch
  Node = {st, n1, n2, n3, lp, bd}
  Branch = {}
  Given <- MCGraphs
  Text <- MCText
  Limit = {0, 2, 3, 4}
  FileTitle = "file"
  MaxCalls = 4
SPECIFICATION AlgorithmsSpec
INVARIANTS AcceptsExactlyAcyclic TitleIsNearest SectionsAreWhole CutsAtBestBreak
