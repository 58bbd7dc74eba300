CONSTANTS
  s = s  a = a  b = b  c = c  m = m  bad = bad
  yes = yes  no = no
  NoNode = NoNode  NoBranch = NoBranch
  Node = {s, a, b, c, m, bad}
  Branch = {yes, no}
  Graphs <- SkippedBranch
  PoolSize = 2
  MaxDepth = 4
  MayFail = {}
SPECIFICATION Spec
INVARIANT SkippedUpstreamDoesNotBlock
