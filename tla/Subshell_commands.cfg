SPECIFICATION FairSpec
CONSTANTS
  Dirs = {d1, d2}
  Home = d1
  Garbled = garbled
  CanKill = FALSE
  CanPaste = FALSE
  CanTimeout = FALSE
  CdFails = FALSE
  MaxKeys = 2
INVARIANTS HandOver DirectoriesAgree
PROPERTY QuietFeedEnds
CHECK_DEADLOCK FALSE
