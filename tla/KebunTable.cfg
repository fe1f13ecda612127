SPECIFICATION FairTableSpec
CONSTANTS
  MaxWorkers = 2
  MaxChanges = 3
INVARIANTS RowTellsRegistry
PROPERTIES PortIsServed GoneIsReleased
CHECK_DEADLOCK FALSE
