\* Two jobs that ask both kinds of question.  What the user answers does not
\* matter to these properties, so there is one answer.
SPECIFICATION FairSpec
CONSTANTS
  Task = {t1, t2}
  Nil = nil
  Answer = {"retry"}
  Kinds = {"error", "replace"}
  Pipes = {TRUE, FALSE}
  CanSignal = FALSE
  MaxAsks = 2
INVARIANT RunningIsListed
PROPERTIES EndIsNoticed QuestionIsAnswered
CHECK_DEADLOCK FALSE
