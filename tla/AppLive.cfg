SPECIFICATION FairSpec
CONSTANTS
  Procs = {p1, p2, p3}
  N = 0
  Components = {}
PROPERTY EveryCallReturns
