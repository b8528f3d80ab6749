CONSTANTS
  Users <- MCUsers
  MaxSessions = 2
  PromptClose = TRUE
SPECIFICATION Spec
INVARIANT SessionUsable
INVARIANT SocketsOwned
INVARIANT WaitersReachable
INVARIANT ReaderServes
INVARIANT ClosedIsQuiet
PROPERTY QueriesEnd
PROPERTY OperationsEnd
CHECK_DEADLOCK FALSE
