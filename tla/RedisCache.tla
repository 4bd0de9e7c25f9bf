----------------------------- MODULE RedisCache -----------------------------
(***************************************************************************)
(* RedisCache (cache/RedisCache.hpp and .cpp) and the Redis server behind  *)
(* its one connection.                                                     *)
(*                                                                         *)
(* Every operation holds mutex_ for a whole command and is one action.     *)
(* hiredis marks a context whose connection failed, and every later        *)
(* command on it returns a null reply: connect() runs once, in the         *)
(* constructor.  The command during which the connection fails may or may  *)
(* not have been executed.  Keys have no NUL character, at which the %s of *)
(* redisCommand would cut them off.                                        *)
(***************************************************************************)
EXTENDS Naturals

CONSTANTS Keys, Values, None,
          TtlArgs,          \* values of the argument ttl
          redis_ttl,        \* config_.redis_ttl, for set(key, json)
          NotJson,          \* the values that json::parse rejects
          NoExpiry,         \* the life of an entry stored without a time to live
          MaxTime           \* bound of the clock

VARIABLES redis_context_,   \* "null", "connected", or "failed": err is set
          data,             \* the entries of the Redis server
          now,
          asked,            \* history: the last operation, and the parity of their number
          reply             \* what it returned

redisVars == <<redis_context_, data, now, asked, reply>>

RedisTypeOK ==
  /\ redis_context_ \in {"null", "connected", "failed"}
  /\ data \in [Keys -> [value : Values, expiry : Nat] \cup {None}]
  /\ now \in 0 .. MaxTime
  /\ reply \in Values \cup BOOLEAN \cup {None}

\* connect(): a context that could not be connected is freed.
connect ==
  /\ redis_context_ \in {"null", "connected"}
  /\ data = [k \in Keys |-> None]
  /\ now = 0
  /\ asked = [call |-> <<>>, odd |-> FALSE]
  /\ reply = None

isConnected == redis_context_ # "null"

Present(k) == data[k] # None /\ data[k].expiry > now

Without(lost) == [k \in Keys |-> IF k \in lost THEN None ELSE data[k]]

\* redisCommand and what the operations make of its reply: the reply of an
\* executed command, or onNull when the connection fails during the command
\* or has failed, when there is no context, and for an error reply.
redisCommand(call, effect, onReply, onNull) ==
  /\ asked' = [call |-> call, odd |-> ~asked.odd]
  /\ \/ /\ redis_context_ = "connected"
        /\ \/ data' = effect /\ reply' = onReply
           \/ UNCHANGED data /\ reply' = onNull
        /\ UNCHANGED redis_context_
     \/ /\ redis_context_ = "connected" /\ redis_context_' = "failed"
        /\ data' \in {data, effect} /\ reply' = onNull
     \/ /\ redis_context_ # "connected"
        /\ reply' = onNull
        /\ UNCHANGED <<redis_context_, data>>
  /\ UNCHANGED now

\* SETEX for a positive ttl; SET, which also removes a time to live, otherwise.
Life(ttl) == IF ttl > 0 THEN ttl ELSE NoExpiry
Stored(k, v, ttl) == [data EXCEPT ![k] = [value |-> v, expiry |-> now + Life(ttl)]]

\* Mutant: a null reply is taken for success.
Mutant_set(k, v, ttl) ==
  redisCommand(<<"set", k, v, Life(ttl)>>, Stored(k, v, ttl), TRUE, TRUE)

set(k, v, ttl) ==
  redisCommand(<<"set", k, v, Life(ttl)>>, Stored(k, v, ttl), TRUE, FALSE)

set_json(k, v) == set(k, v, redis_ttl)

get(k) ==
  redisCommand(<<"get", k>>, data, IF Present(k) THEN data[k].value ELSE None, None)

\* A value that does not parse is reported as a miss.
get_json(k) ==
  redisCommand(<<"get", k>>, data,
               IF Present(k) /\ data[k].value \notin NotJson THEN data[k].value ELSE None,
               None)

remove(k) == redisCommand(<<"remove", k>>, Without({k}), Present(k), FALSE)

\* FLUSHALL
clear == redisCommand(<<"clear">>, Without(Keys), TRUE, FALSE)

exists(k) == redisCommand(<<"exists", k>>, data, Present(k), FALSE)

-----------------------------------------------------------------------------
(* The Redis server is external: it drops expired entries, evicts others,  *)
(* serves other servers too and may be restarted, which also breaks the    *)
(* connection.                                                             *)

Evict ==
  /\ \E k \in Keys : data[k] # None /\ data' = Without({k})
  /\ UNCHANGED <<redis_context_, now, asked, reply>>

OtherServer(k, v, ttl) ==
  /\ data' = Stored(k, v, ttl)
  /\ UNCHANGED <<redis_context_, now, asked, reply>>

Restart ==
  /\ redis_context_ = "connected"
  /\ redis_context_' = "failed"
  /\ \E lost \in SUBSET Keys : data' = Without(lost)
  /\ UNCHANGED <<now, asked, reply>>

Tick ==
  /\ now < MaxTime
  /\ now' = now + 1
  /\ UNCHANGED <<redis_context_, data, asked, reply>>

Next ==
  \/ \E k \in Keys, v \in Values, ttl \in TtlArgs : set(k, v, ttl)
  \/ \E k \in Keys, v \in Values \ NotJson :
       set_json(k, v) \/ OtherServer(k, v, redis_ttl)
  \/ \E k \in Keys : get(k) \/ get_json(k) \/ remove(k) \/ exists(k)
  \/ clear
  \/ Evict \/ Restart
  \/ Tick

Spec == connect /\ [][Next]_redisVars

\* The store this cache implements.
RedisStore == INSTANCE CacheInterface WITH
  store <- data, Lossy <- TRUE,
  Ttls <- {Life(t) : t \in TtlArgs \cup {redis_ttl}}
RedisStoreSpec == RedisStore!StoreSpec
=============================================================================
