SPECIFICATION Spec
CONSTANTS
  MaxRequests = 3
  MaxResponseQueueSize = 1
INVARIANTS
  TypeOK
  OneActivity
  QueueNeverSheds
  AnsweredInOrder
PROPERTIES
  TimerClosesOnlyDuringWrite
  WriteResolves
  StopEndsSession
