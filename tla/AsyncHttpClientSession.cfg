SPECIFICATION ClientSpec
CONSTANTS
  Sessions = {s1, s2}
  Answers = {a1}
  Empty = Empty
INVARIANTS
  ClientTypeOK
  CompletesExactlyOnce
PROPERTIES
  ClosedSocketEndsCall
  ImplementsCall
  ResponsiveCallsEnd
