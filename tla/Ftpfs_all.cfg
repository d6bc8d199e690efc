CONSTANTS
  Blocks = 2
  Cap = 1
  Starts = {0}
  Passive = {TRUE, FALSE}
  Lists = {"auto"}
  MaxJobs = 2
  MaxFaults = 1
  None = None
SPECIFICATION Spec
INVARIANTS TypeOK InStep
PROPERTIES ToldIsTrue CallsEnd
CHECK_DEADLOCK FALSE
