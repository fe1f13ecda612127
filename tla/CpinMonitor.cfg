SPECIFICATION FairCpinSpec
CONSTANTS
  UnknownThreshold = 3
  RemovalThreshold = 2
  Glitches <- AnyClient
  AbsentAnswer = "+CME ERROR: SIM NOT INSERTED"
  MaxGlitches = 3
  MaxSwaps = 2
INVARIANTS SubscribersAgree
PROPERTIES ImplementsDebounce LossIsNoticed ReadyIsNoticed
\* The poller exits and the disconnect ends.
CHECK_DEADLOCK FALSE
