SPECIFICATION Spec
CONSTANTS
  Programs <- MCPrograms
  MaxDepth = 3
  MaxSteps = 40
INVARIANTS ReturnsRight OwnFrame
CHECK_DEADLOCK FALSE
