SPECIFICATION Spec
CONSTANTS
  Editor = {p, q}
  Dead = dead
  File = {f, g}
  NoName = noname
  Closed = closed
  NoLock = nolock
  Modes = {"quick", "safe", "backup"}
  ModesTogether = {"safe"}
  Filtered = {}
  MaxVersion = 3
  MaxCommands = 4
  MaxFailures = 1
  MaxCrashes = 1
INVARIANTS TypeOK LocksAgree NothingSavedIsLost
PROPERTY SavedIsWhole
CHECK_DEADLOCK FALSE
SYMMETRY Editors
