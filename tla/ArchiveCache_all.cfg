\* Five archives, five user commands, one change by another program.
CONSTANTS
  t = t
  tt = tt
  te = te
  e = e
  ee = ee
  Local = Local
  None = None
  Viewer = Viewer
  Tar = {t, tt, te}
  Extfs = {e, ee}
  Outer <- MCOuter
  MaxCommands = 5
  MaxChanges = 1
SPECIFICATION Spec
INVARIANTS TypeOK UnusedIsStamped
PROPERTY KeepsPromise
CHECK_DEADLOCK FALSE
