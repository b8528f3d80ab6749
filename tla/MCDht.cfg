CONSTANTS
  q1 = q1
  q2 = q2
  q3 = q3
  Queries = {q1, q2, q3}
  Connects = {q1}
  MaxKeys = 2
  m1 = m1
  m2 = m2
  Messages = {m1, m2}
  Lengths <- MCLengths
  Ttl = 1
  MaxClock = 3
  Width = 3
  Capacity = 2
  WorkerCount = 3
  Gateway = 0
  Seeds = {1}
  K = 2
  Target = 6
  Knows <- MCKnows
  Unsigned = {3}
  Holders = {7}
  Values <- MCValues
  MaxScore = 1
  MaxCalls = 2
SPECIFICATION MCSpec
INVARIANT NothingForgotten
INVARIANT PartsReassemble
INVARIANT LookupAsksAll
INVARIANT StoresOnClosest
PROPERTY LookupEnds
SYMMETRY MCSymmetry
CHECK_DEADLOCK FALSE
