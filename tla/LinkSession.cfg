SPECIFICATION FairSpec
CONSTANTS
  Jobs = {j1}
  Nobody = Nobody
  Workflows <- FullAndRestart
  Texts <- AnyText
  MaxRuns = 1
  MaxPolls = 2
  MaxSwaps = 1
INVARIANTS PollIsFresh AnswersInStep
PROPERTY RunsEnd
CHECK_DEADLOCK FALSE
