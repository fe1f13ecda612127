SPECIFICATION MCSpec
CONSTANTS
  Cards = {c1, c2}
  NoCard = NoCard
  AutoRunOnInsert = TRUE
  MaxEvents = 4
INVARIANTS HarvestIsExtended
PROPERTIES ResetComesFirst ResetIsPerformed MenuIsResolved ShutdownEnds
CHECK_DEADLOCK FALSE
