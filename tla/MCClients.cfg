CONSTANTS
  r1 = r1
  r2 = r2
  u1 = u1
  u2 = u2
  t1 = t1
  t2 = t2
  NClients = 3
  Borrowed = {2}
  Tasks = {u1, u2}
  Policy <- MCPolicy
  TotalTimeout = 2
  Requests = {r1, r2}
  Operation <- MCOperation
  Kind <- MCKind
  Limited = {1}
  Errors <- MCErrors
  MaxErrors = 1
  MaxCool = 2
  MaxLt = 4
  Page = 2
  Readers = {t1, t2}
  LiteMethods = {"get_info", "get_all_shards_info", "get_transactions"}
  Account <- MCAccount
  MaxHeight = 3
  MaxReads = 3
  MaxDrops = 1
  Interval = 2
  MaxDays = 6
  Depth = 4
  Arguments <- MCArguments
  Returned <- MCReturned
  VmAddresses = TRUE
  Domain = 2
  Resolvers <- MCResolvers
CONSTRAINT MCBound
SYMMETRY MCSymmetry
SPECIFICATION MCSpec
INVARIANT NoSessionLost
INVARIANT RetriesWithinPolicy
INVARIANT HistoryComplete
INVARIANT ReadsGoForward
INVARIANT StopLeavesNothing
INVARIANT DepthFound
INVARIANT ClientsAgree
PROPERTY GivesUpLast
CHECK_DEADLOCK FALSE
