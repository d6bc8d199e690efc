SPECIFICATION Spec
CONSTANTS
  Char = {a, nl}
  NewLine = nl
  BufSize = 2
  MaxBuff = 4
  Height = 2
  StartStack = 8
  MaxUndos = {8, 16}
  Slack = 5
  FileSizes = {0, 3}
  MaxSteps = 6
INVARIANTS TypeOK BufferConsistent SaveIsWhole
PROPERTY UndoRestores
CHECK_DEADLOCK FALSE
