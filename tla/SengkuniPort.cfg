SPECIFICATION MCSpec
CONSTANTS
  k1 = k1
  Sims <- MCSims
  Tasks <- MCTasks
  MaxLives = 2
  MaxSteps = 1
  MaxClicks = 3
  MaxFaults = 1
  ReadyThreshold = 2
  CheckingThreshold = 2
  RemovalThreshold = 2
PROPERTIES ReadyIsConfirmed RemovalIsNoticed RequestIsTaken StoppedComesToRest
CHECK_DEADLOCK FALSE
