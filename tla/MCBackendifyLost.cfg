SPECIFICATION ResponsiveSpec
CONSTANTS
  r1 = r1
  r2 = r2
  r3 = r3
  r4 = r4
  b1 = b1
  b2 = b2
  None = None
  Requests = {r1, r2}
  Target <- MCTwoSpellings
  UpperCase <- MCUpperCase
  Backends = {b1, b2}
  country_backend_map <- MCCountryBackends
  BackendAnswers <- MCAnswersThrowing
  Sla = 1
  DropSlaTimeouts = TRUE
  CoolOff = 1
  Ttl = 2
  NumIoThreads = 2
  MaxTime = 2
PROPERTIES
  EveryRequestEnds
CHECK_DEADLOCK FALSE
