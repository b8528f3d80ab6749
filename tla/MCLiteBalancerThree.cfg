CONSTANTS
  a = a
  b = b
  h = h
  r1 = r1
  r2 = r2
  None = None
  Clients <- MCThree
  Healthy <- MCOneHealthy
  Requests <- MCOne
  MaxCool = 4
  MaxErrors = 3
SPECIFICATION Spec
INVARIANT FailoverFindsHealthy
CHECK_DEADLOCK FALSE
