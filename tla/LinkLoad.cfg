SPECIFICATION Spec
CONSTANTS
  NSYM = 3
  LOG = 2
  MINSIZ = 64
  BIG = 2048
  HALF = 16
  NLIBRARY = 2
  thechar = "j"
  Links <- MCLinks
INVARIANTS NamesAgree BranchesLand MeaningKept FirstWins NothingWanted OnlyWanted DataApart LiteralsHold VerdictRight
PROPERTY Terminates
CHECK_DEADLOCK FALSE
