SPECIFICATION Spec
CONSTANTS
  NSYM = 3
  LOG = 2
  MINSIZ = 64
  BIG = 2048
  HALF = 16
  NLIBRARY = 2
  thechar = "j"
  Links <- SameDigits
INVARIANT LiteralsHold
CHECK_DEADLOCK FALSE
