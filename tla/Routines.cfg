SPECIFICATION Spec
CONSTANTS
  W = 8
  HM = 2
  FM = 5
  Words <- MCWords
  LANE = 2
  Lowest = 32
  Highest = 177
  Lengths <- MCLengths
  MoveLengths <- MCMoveLengths
  MoveGaps <- MCMoveGaps
  HasByte <- MCHasByte
  MAX2SIZE = 8
  CUTOFF = 3
  Datoffs = {16, 24}
  End = 16
  HeapLimit = 460
  Sizes = {2, 3, 5, 128, 129}
  MaxHeapCalls = 5
INVARIANTS VlongExact MemExact OwnBytes PiecesApart
PROPERTY VlongReturns
