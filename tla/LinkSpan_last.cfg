\* -c, and a last function longer than a branch reaches.
CONSTANTS
  Programs <- LastLong
  Options = {TRUE}
  RV32 = FALSE
  CBReach = 8
  CJReach = 16
  BReach = 24
  JReach = 60
SPECIFICATION Spec
INVARIANTS BranchesReach
