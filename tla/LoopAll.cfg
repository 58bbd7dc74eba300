CONSTANTS
  s = s  l = l  k = k  ls = ls  ks = ks  p = p  q = q  m = m  e = e
  yes = yes  no = no
  NoNode = NoNode  NoBranch = NoBranch
  Node = {s, l, k, ls, ks, p, q, m, e}
  Branch = {yes, no}
  Graphs <- Sound
  PoolSize = 3
  MaxDepth = 5
  MaxIterations = 2
  MayFail = {p}
SPECIFICATION FairSpec
INVARIANTS IterationsDoNotOverlap ErrorReachesRun LoopsStopAtBreak
PROPERTY RunReturns
