SPECIFICATION FairSpec
CONSTANTS
  Dirs = {d1, d2}
  Home = d1
  Garbled = garbled
  CanKill = TRUE
  CanPaste = FALSE
  CanTimeout = TRUE
  CdFails = TRUE
  MaxKeys = 1
PROPERTY DeathIsHandled
CHECK_DEADLOCK FALSE
