CONSTANTS
  a = a
  b = b
  h = h
  r1 = r1
  r2 = r2
  None = None
  Clients <- MCClients
  Healthy <- MCHealthy
  Requests <- MCRequests
  MaxCool = 4
  MaxErrors = 3
SPECIFICATION Spec
PROPERTY NothingEscapes
CHECK_DEADLOCK FALSE
