SPECIFICATION MassSpec
CONSTANTS
  User = User
  Manager = Manager
  NoAction = NoAction
  Act = Act
  Actions <- MCActions
  Sims <- MCSims
  MaxLives = 3
  MaxSteps = 2
  MaxClicks = 2
  MaxMass = 2
INVARIANTS OneLoop BusyIsWorking MassAddsUp
PROPERTIES BringUpIsComplete RequestsAreServed
CHECK_DEADLOCK FALSE
