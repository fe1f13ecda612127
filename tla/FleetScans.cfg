SPECIFICATION FairSpec
CONSTANTS
  NoPort = NoPort
  Ports = {m1}
  Candidates = {m1}
  Modems = {m1}
  MaxPlugs = 2
  MaxWorkers = 5
  MaxFailures = 1
INVARIANTS ParticipatingIsRegistered NoLeaks
PROPERTIES ModemIsServed UnpluggedIsReleased
CHECK_DEADLOCK FALSE
