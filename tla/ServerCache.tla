---------------------------- MODULE ServerCache ----------------------------
(***************************************************************************)
(* The cache of the server: initializeCache (main.cpp) always connects a   *)
(* RedisCache, and takes it if it is connected and wanted; otherwise an    *)
(* InMemoryCache, for the whole run of the program.                        *)
(***************************************************************************)
EXTENDS InMemoryCache

CONSTANTS RedisKeys, redis_ttl, NotJson, NoExpiry

VARIABLES kind,             \* the cache that initializeCache returned
          redis_context_, data, redisNow, redisAsked, redisReply

redisVars == <<redis_context_, data, redisNow, redisAsked, redisReply>>
serverCacheVars == <<vars, redisVars, kind>>

Redis == INSTANCE RedisCache WITH
  Keys <- RedisKeys, now <- redisNow, asked <- redisAsked, reply <- redisReply

initializeCache(use_redis) ==
  IF use_redis /\ Redis!isConnected THEN "redis" ELSE "memory"

ServerCacheInit ==
  /\ Init
  /\ Redis!connect
  /\ \E use_redis \in BOOLEAN : kind = initializeCache(use_redis)

\* The RedisCache that is not taken is destroyed, and Redis is left alone.
ServerCacheNext ==
  /\ \/ kind = "memory" /\ Next /\ UNCHANGED redisVars
     \/ kind = "redis" /\ Redis!Next /\ UNCHANGED vars
  /\ UNCHANGED kind

ServerCacheSpec == ServerCacheInit /\ [][ServerCacheNext]_serverCacheVars

-----------------------------------------------------------------------------
(* Properties; those of InMemoryCache are about this specification too.    *)

\* The cache refines the store Backendify relies on as a lossy one: whatever
\* happens to the connection, what get(k) finds is the last value stored under
\* k, not expired, exists and remove report no entry that k does not have, and a
\* set(k) that reports success has stored its value under k.
RedisStoreSpec == Redis!RedisStoreSpec
=============================================================================
