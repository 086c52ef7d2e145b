CONSTANTS
  Answers <- MCAnswers
  BufSize = 4
SPECIFICATION WgetSpec
CHECK_DEADLOCK FALSE
INVARIANTS ExitStatus NothingMissing BodyFromStart
