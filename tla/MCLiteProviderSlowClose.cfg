CONSTANTS
  Users <- MCUsers
  MaxSessions = 2
  PromptClose = FALSE
SPECIFICATION Spec
INVARIANT SessionUsable
CHECK_DEADLOCK FALSE
