SPECIFICATION Spec
CONSTANTS
  None = None
  IntLimit = 1048575
  Spellings = 3
  Countries = {"US", "RU"}
  Inputs <- MCInputs
  Sessions = {s1, s2}
  MaxThreads = 2
INVARIANTS
  
  SessionsAreRegistered
  ThreadsServeUntilShutdown
PROPERTIES
  SignalEndsServer
