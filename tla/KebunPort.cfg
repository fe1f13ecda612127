SPECIFICATION MCSpec
CONSTANTS
  Cards = {c1, c2}
  NoCard = NoCard
  AutoRunOnInsert = TRUE
  MaxEvents = 2
INVARIANTS HarvestIsExtended PairsAreOwn
PROPERTIES AutomationEnds
CHECK_DEADLOCK FALSE
