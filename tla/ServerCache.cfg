SPECIFICATION ServerCacheSpec
CONSTANTS
  Keys = {k1, k2, k3}
  Values = {v1, v2}
  None = None
  TtlArgs = {0, 1}
  DefaultTtl = 2
  MaxSize = 2
  MaxTime = 3
  RedisKeys = {k1, k2}
  redis_ttl = 2
  NotJson = {v2}
  NoExpiry = 4
INVARIANTS
  TypeOK
  ContainersAgree
  SizeBounded
PROPERTIES
  LeastRecentlyUsedGoesFirst
  StoreSpec
  RedisStoreSpec
