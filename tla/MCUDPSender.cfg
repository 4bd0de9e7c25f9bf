SPECIFICATION Spec
CONSTANTS
  Callers = {c1, c2}
  None = None
  Lengths = {1, 2}
  MaxMessages = 4
  BatchSizes <- MCBatchSizes
  Intervals <- MCIntervals
  SizeModulus = 2048
INVARIANTS
  MessagesAreConserved
  BatchesAreFull
PROPERTIES
  SenderMakesProgress
