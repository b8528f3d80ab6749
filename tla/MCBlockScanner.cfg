CONSTANTS
  Width = 4
  MaxHeight = 3
  MaxBlocks = 6
  MaxSteps = 2
  MaxDepth = 1
  MaxLeft = 1
  StopsAnywhere = FALSE
SPECIFICATION Spec
INVARIANT WalksTheChain
INVARIANT SavedIsHandled
PROPERTY InOrder
PROPERTY OncePerRun
PROPERTY KeepsUp
PROPERTY StopEnds
CHECK_DEADLOCK FALSE
