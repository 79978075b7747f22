SPECIFICATION FairSpec
CONSTANTS
  Workers = {w1}
  Posts = {p1, p2, p3}
  PoolSize = 1
  MaxOverflow = 1
  MaxFailures = 1
  None = None
INVARIANT IInv
INVARIANT PoolIsBalanced
PROPERTY EveryRequestEnds
CHECK_DEADLOCK FALSE
