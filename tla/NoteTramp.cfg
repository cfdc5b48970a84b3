CONSTANTS
  Signals = {1, 2}
  MAXSIGSTACK = 2
  MaxNotes = 5
SPECIFICATION FairSpec
INVARIANTS RightHandler StackFollowsNotes
PROPERTIES AllHandled
