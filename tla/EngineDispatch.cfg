SPECIFICATION FairSpec
CONSTANTS
  p1 = p1  p2 = p2  c1 = c1  t1 = t1  t2 = t2
  NoPort = NoPort
  Ports <- MCPorts
  Callers <- MCCallers
  Threads <- MCThreads
  MaxConcurrent = 1
  MaxSteps = 2
  MaxCalls = 2
  ManualPriorities <- MCPriorities
  DedupKinds <- OnlineOnly
INVARIANTS RunningIsExecuting
PROPERTIES ExcludedStaysAtRest ImplementsDispatch QueuedIsServed
