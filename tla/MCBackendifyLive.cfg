SPECIFICATION ResponsiveSpec
CONSTANTS
  r1 = r1
  r2 = r2
  r3 = r3
  r4 = r4
  b1 = b1
  b2 = b2
  None = None
  Requests = {r1, r2, r3, r4}
  Target <- MCManyTargets
  UpperCase <- MCUpperCase
  Backends = {b1, b2}
  country_backend_map <- MCCountryBackends
  BackendAnswers <- MCAnswers
  Sla = 0
  DropSlaTimeouts = FALSE
  CoolOff = 1
  Ttl = 2
  NumIoThreads = 1
  MaxTime = 1
INVARIANTS
  AnswerIsForRequest
PROPERTIES
  EveryRequestEnds
