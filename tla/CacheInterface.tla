--------------------------- MODULE CacheInterface ---------------------------
(***************************************************************************)
(* What Backendify relies on in a cache (interfaces/CacheInterface.hpp and *)
(* the uses in core/Backendify.cpp): a hit is the last value set for the   *)
(* key and has not expired.  A cache may forget entries when it stores a   *)
(* new one.  A Lossy one is kept by another process that other servers     *)
(* use too: it may lose entries, and refuse or fail to report operations.  *)
(*                                                                         *)
(* An operation reads the clock more than once, so time may pass in it.    *)
(* The state shows which operation was the last one, with its arguments    *)
(* and its reply, and every operation changes it: a reply is explained by  *)
(* the operation and the key it was given for, and by no other.            *)
(***************************************************************************)
EXTENDS Naturals, Sequences

CONSTANTS Keys, Values, Ttls,
          None,       \* std::nullopt, and the absence of an entry
          Lossy,      \* the store is shared and its operations may fail
          MaxTime     \* bound of the clock

VARIABLES store, now,
          asked,      \* the last operation, and whether their number is odd
          reply       \* ... and what it returned

cacheVars == <<store, now, asked, reply>>

Entries == [value : Values, expiry : Nat]

\* The operations with their arguments.
Calls ==
  {<<"clear">>} \cup ({"get", "exists", "remove"} \X Keys)
    \cup ({"set"} \X Keys \X Values \X Ttls)

Ask(call) == asked' = [call |-> call, odd |-> ~asked.odd]

StoreInit ==
  /\ store = [k \in Keys |-> None]
  /\ now = 0
  /\ reply = None

NothingAsked == asked = [call |-> <<>>, odd |-> FALSE]

\* Mutant: an entry never expires.
Mutant_Live(k, t) == store[k] # None

Live(k, t) == store[k] # None /\ store[k].expiry > t

\* The entries of all keys but those of the set lost.
Forget(lost) == [k \in Keys |-> IF k \in lost THEN None ELSE store[k]]

\* Entries are forgotten only to make room for a key that was not there.
Put(k, v, ttl) ==
  /\ \E lost \in IF store[k] = None THEN SUBSET (Keys \ {k}) ELSE {{}} :
       store' = [Forget(lost) EXCEPT ![k] = [value |-> v, expiry |-> now + ttl]]
  /\ UNCHANGED now

Set(k, v, ttl) ==
  /\ Ask(<<"set", k, v, ttl>>)
  /\ Put(k, v, ttl)
  /\ reply' \in {TRUE, ~Lossy}

\* An operation that reads the clock up to time t forgets at most what has
\* expired by then.
Purge(t) ==
  /\ now' = t
  /\ \E lost \in SUBSET {k \in Keys : ~Live(k, t)} : store' = Forget(lost)

\* What a get returns and leaves behind.
Look(k, t) ==
  /\ Purge(t)
  /\ \/ Live(k, t) /\ reply' = store[k].value
     \/ (Lossy \/ ~Live(k, t)) /\ reply' = None

Get(k, t) == Ask(<<"get", k>>) /\ Look(k, t)

Exists(k, t) ==
  /\ Ask(<<"exists", k>>)
  /\ Purge(t)
  /\ reply' \in {Live(k, t)} \cup (IF Lossy THEN {FALSE} ELSE {})

\* An entry that has expired may still count as one that was there.
Remove(k) ==
  /\ Ask(<<"remove", k>>)
  /\ store' = Forget({k})
  /\ reply' \in {store[k] # None, Live(k, now)} \cup (IF Lossy THEN {FALSE} ELSE {})
  /\ UNCHANGED now

Clear ==
  /\ Ask(<<"clear">>)
  /\ store' = Forget(Keys)
  /\ reply' \in {TRUE, ~Lossy}
  /\ UNCHANGED now

\* An operation that was not carried out reports a failure.
Refuse(call) ==
  /\ Lossy
  /\ Ask(call)
  /\ reply' = IF call[1] = "get" THEN None ELSE FALSE
  /\ UNCHANGED <<store, now>>

\* Another server stores an entry, or entries are lost.
Elsewhere ==
  /\ Lossy
  /\ \/ \E k \in Keys, v \in Values, ttl \in Ttls : Put(k, v, ttl)
     \/ \E lost \in SUBSET Keys : store' = Forget(lost) /\ UNCHANGED now
  /\ UNCHANGED <<asked, reply>>

Tick ==
  /\ now < MaxTime
  /\ now' = now + 1
  /\ UNCHANGED <<store, asked, reply>>

StoreNext ==
  \/ \E k \in Keys, v \in Values, ttl \in Ttls : Set(k, v, ttl)
  \/ \E k \in Keys, t \in now .. MaxTime : Get(k, t) \/ Exists(k, t)
  \/ \E k \in Keys : Remove(k)
  \/ Clear
  \/ \E call \in Calls : Refuse(call)
  \/ Elsewhere \/ Tick

StoreSpec == StoreInit /\ NothingAsked /\ [][StoreNext]_cacheVars
=============================================================================
