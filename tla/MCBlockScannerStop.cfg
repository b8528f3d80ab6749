CONSTANTS
  Width = 4
  MaxHeight = 3
  MaxBlocks = 6
  MaxSteps = 2
  MaxDepth = 1
  MaxLeft = 1
  StopsAnywhere = TRUE
SPECIFICATION Spec
INVARIANT SavedIsHandled
CHECK_DEADLOCK FALSE
