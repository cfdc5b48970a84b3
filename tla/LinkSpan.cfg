CONSTANTS
  Programs <- MCPrograms
  Options = {TRUE, FALSE}
  RV32 = TRUE
  CBReach = 8
  CJReach = 16
  BReach = 24
  JReach = 60
SPECIFICATION FairSpec
INVARIANTS NoPhaseError BranchesReach FlowKept
PROPERTIES LayoutGrows Terminates
