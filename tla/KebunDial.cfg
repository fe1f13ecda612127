SPECIFICATION Spec
CONSTANTS
  FenceLines = 2
  MaxExchanges = 2
  MaxLines = 3
INVARIANTS AnswerIsOwn
PROPERTIES PollIsTrue
CHECK_DEADLOCK FALSE
