SPECIFICATION MCSpec
CONSTANTS
  Cards = {c1, c2}
  NoCard = NoCard
  AutoRunOnInsert = TRUE
  MaxEvents = 1
PROPERTY SimIsPolled
CHECK_DEADLOCK FALSE
