SPECIFICATION Spec
CONSTANTS
  Sockets = {s1, s2, s3}
  Workers = {w1, w2}
  None = None
  max_queued_requests_ = 1
  keep_alive_max_count_ = 2
INVARIANTS
  ConnectionsClosedOnce
PROPERTIES
  PoolMakesProgress
