CONSTANTS
  Programs <- MCPrograms
  CopyMax = 2
SPECIFICATION FairSpec
INVARIANTS CantHappen FlowPreserved FrameKept
PROPERTIES Terminates
