SPECIFICATION ClientSpec
CONSTANTS
  Sessions = {s1}
  Answers = {a1}
  Empty = Empty
PROPERTIES
  TimeoutEndsCall
