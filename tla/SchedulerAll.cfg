CONSTANTS
  s = s  a = a  b = b  c = c  m = m  bad = bad
  yes = yes  no = no
  NoNode = NoNode  NoBranch = NoBranch
  Node = {s, a, b, c, m, bad}
  Branch = {yes, no}
  Graphs <- AllGraphs
  PoolSize = 3
  MaxDepth = 3
  MayFail = {bad}
SPECIFICATION FairSpec
INVARIANTS AtMostOnce QuietWhenIdle NoLostSuccessor JoinWaitsForSiblings
PROPERTIES ImplementsDataflow RunReturns
