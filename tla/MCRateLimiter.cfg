CONSTANTS
  p1 = p1
  p2 = p2
  n1 = n1
  n2 = n2
  Priority <- MCPriority
  Normal <- MCNormal
  MaxRate = 2
  Period = 3
SPECIFICATION FairSpec
INVARIANT WaiterAccounting
INVARIANT NoLostWakeup
INVARIANT TimersAccurate
PROPERTY NormalNeverOvertakes
PROPERTY ImplementsBucket
PROPERTY WaitersServed
PROPERTY PriorityServed
