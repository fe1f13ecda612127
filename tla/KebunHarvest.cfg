SPECIFICATION HarvestSpec
CONSTANTS
  a = a
  b = b
  Cards <- MCCards
  Files <- MCFiles
  BatchSize = 1
  MaxEvents = 5
INVARIANTS PairsAreGiven StoredIsCached DeletedStaysGone
CHECK_DEADLOCK FALSE
