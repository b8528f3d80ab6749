CONSTANTS
  Users <- MCUsers
  MaxSessions = 2
  PromptClose = TRUE
SPECIFICATION Spec
INVARIANT UpdaterFollows
CHECK_DEADLOCK FALSE
