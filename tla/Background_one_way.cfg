SPECIFICATION Spec
CONSTANTS
  Task = {t1, t2}
  Nil = nil
  Answer = {"skip", "retry"}
  Kinds = {"error"}
  Pipes = {FALSE}
  CanSignal = FALSE
  MaxAsks = 1
INVARIANT UserDecides
CHECK_DEADLOCK FALSE
