CONSTANTS
  a = a
  b = b
  h = h
  r1 = r1
  r2 = r2
  None = None
  Clients <- MCClients
  Healthy <- MCHealthy
  Requests <- MCRequests
  MaxCool = 2
  MaxErrors = 2
SPECIFICATION Spec
INVARIANT ClosedStaysClosed
PROPERTY NeverTwiceInARow
PROPERTY RequestsEnd
PROPERTY LostAreReconnected
CHECK_DEADLOCK FALSE
