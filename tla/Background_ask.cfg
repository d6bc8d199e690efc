SPECIFICATION Spec
CONSTANTS
  Task = {t1, t2}
  Nil = nil
  Answer = {"skip", "retry"}
  Kinds = {"error"}
  Pipes = {TRUE}
  CanSignal = TRUE
  MaxAsks = 2
INVARIANTS AnswersGoBack QuestionsAccounted DeathReported
CHECK_DEADLOCK FALSE
