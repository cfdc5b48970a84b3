\* A note between notecont's pop and its use of the slot.
CONSTANTS
  Signals = {1, 2}
  MAXSIGSTACK = 2
  MaxNotes = 2
SPECIFICATION Spec
INVARIANTS RightSignal
