--------------------------- MODULE InMemoryCache ---------------------------
(***************************************************************************)
(* InMemoryCache (cache/InMemoryCache.hpp and .cpp): entries with an       *)
(* expiry in cache_, their keys from most to least recently used in        *)
(* lru_list_, and lru_map_, which finds a key's node in that list.         *)
(*                                                                         *)
(* Every operation holds mutex_ from beginning to end and is one action;   *)
(* time may pass between the two times that get and exists read the clock. *)
(* The node an iterator of lru_map_ points to is the one that holds its    *)
(* key, so lru_map_ is represented by the set of its keys.                 *)
(***************************************************************************)
EXTENDS Naturals, Sequences, FiniteSets, SequencesExt

CONSTANTS Keys, Values, None,
          TtlArgs,          \* values of the argument ttl; 0 asks for the default
          DefaultTtl,       \* default_ttl_seconds_
          MaxSize,          \* max_size_
          MaxTime           \* bound of the clock

CacheEntry == [value : Values, expiry : Nat]

ASSUME InMemoryCacheAssumption ==
  /\ None \notin CacheEntry
  /\ TtlArgs \subseteq Nat /\ DefaultTtl \in Nat \ {0}
  /\ MaxSize \in Nat /\ MaxTime \in Nat

VARIABLES cache_, lru_list_, lru_map_, now,
          asked,    \* history: the last operation, and the parity of their number
          reply,    \* what it returned
          touched   \* history: the key it stored or found, if any

vars == <<cache_, lru_list_, lru_map_, now, asked, reply, touched>>

TypeOK ==
  /\ cache_ \in [Keys -> CacheEntry \cup {None}]
  /\ lru_list_ \in Seq(Keys)
  /\ lru_map_ \subseteq Keys
  /\ now \in 0 .. MaxTime
  /\ reply \in Values \cup BOOLEAN \cup {None}
  /\ touched \in Keys \cup {None}

Init ==
  /\ cache_ = [k \in Keys |-> None]
  /\ lru_list_ = <<>>
  /\ lru_map_ = {}
  /\ now = 0
  /\ asked = [call |-> <<>>, odd |-> FALSE]
  /\ reply = None
  /\ touched = None

-----------------------------------------------------------------------------
Ask(call) == asked' = [call |-> call, odd |-> ~asked.odd]

\* lru_list_ without the nodes of the keys in ks.
Erased(list, ks) ==
  LET kept[n \in 0 .. Len(list)] ==
        IF n = 0 THEN <<>>
        ELSE IF list[n] \in ks THEN kept[n - 1] ELSE Append(kept[n - 1], list[n])
  IN kept[Len(list)]

\* Mutant: the entries are reset, not erased.
Mutant_Dropped(ks) ==
  [k \in Keys |-> IF k \in ks THEN [value |-> None, expiry |-> 0] ELSE cache_[k]]

\* cache_ without the entries of the keys in ks.
Dropped(ks) == [k \in Keys |-> IF k \in ks THEN None ELSE cache_[k]]

effective_ttl(ttl) == IF ttl > 0 THEN ttl ELSE DefaultTtl

\* Mutant: room is made only once the limit is exceeded.
Mutant_Evictions == IF Cardinality(lru_map_) > MaxSize THEN 1 ELSE 0

\* The number of nodes evictIfNeeded pops from the back: it goes on while
\* lru_map_ is full and the list is not empty, so a MaxSize of 0 empties it.
Evictions ==
  LET excess == Cardinality(lru_map_) + 1
  IN IF excess <= MaxSize THEN 0
     ELSE IF excess - MaxSize < Len(lru_list_) THEN excess - MaxSize
                                               ELSE Len(lru_list_)

Expired(t) == {k \in Keys : cache_[k] # None /\ cache_[k].expiry <= t}

\* Mutant: the old node of the key stays in the list.
Mutant_set(k, v, ttl) ==
  LET kept == IF k \in lru_map_ THEN lru_list_
              ELSE SubSeq(lru_list_, 1, Len(lru_list_) - Evictions)
      evicted == ToSet(lru_list_) \ (ToSet(kept) \cup {k})
  IN /\ Len(lru_list_) <= MaxSize
     /\ cache_' = [Dropped(evicted) EXCEPT
                     ![k] = [value |-> v, expiry |-> now + effective_ttl(ttl)]]
     /\ lru_list_' = <<k>> \o kept
     /\ lru_map_' = (lru_map_ \ evicted) \cup {k}
     /\ Ask(<<"set", k, v, effective_ttl(ttl)>>)
     /\ reply' = TRUE /\ touched' = k
     /\ UNCHANGED now

set(k, v, ttl) ==
  LET kept == IF k \in lru_map_
                THEN Erased(lru_list_, {k})
                ELSE SubSeq(lru_list_, 1, Len(lru_list_) - Evictions)
      evicted == ToSet(lru_list_) \ (ToSet(kept) \cup {k})
  IN /\ cache_' = [Dropped(evicted) EXCEPT
                     ![k] = [value |-> v, expiry |-> now + effective_ttl(ttl)]]
     /\ lru_list_' = <<k>> \o kept
     /\ lru_map_' = (lru_map_ \ evicted) \cup {k}
     /\ Ask(<<"set", k, v, effective_ttl(ttl)>>)
     /\ reply' = TRUE /\ touched' = k
     /\ UNCHANGED now

\* Mutant: a hit leaves the list alone.
Mutant_get(k, t) ==
  LET gone == Expired(t)
      valid == k \in lru_map_ \ gone
  IN /\ cache_' = Dropped(gone)
     /\ lru_map_' = lru_map_ \ gone
     /\ lru_list_' = Erased(lru_list_, gone)
     /\ Ask(<<"get", k>>)
     /\ reply' = IF valid THEN cache_[k].value ELSE None
     /\ touched' = IF valid THEN k ELSE None
     /\ now' = t

\* removeExpired reads the clock at now, the test of the entry at t.
get(k, t) ==
  LET expired == Expired(now)
      found == k \in lru_map_ \ expired
      valid == found /\ cache_[k] # None /\ cache_[k].expiry > t
      gone == IF found /\ ~valid THEN expired \cup {k} ELSE expired
  IN /\ cache_' = Dropped(gone)
     /\ lru_map_' = lru_map_ \ gone
     /\ lru_list_' = IF valid THEN <<k>> \o Erased(lru_list_, expired \cup {k})
                              ELSE Erased(lru_list_, gone)
     /\ Ask(<<"get", k>>)
     /\ reply' = IF valid THEN cache_[k].value ELSE None
     /\ touched' = IF valid THEN k ELSE None
     /\ now' = t

\* Mutant: what removeExpired left counts as valid.
Mutant_exists(k, t) ==
  LET expired == Expired(now)
  IN /\ cache_' = Dropped(expired)
     /\ lru_map_' = lru_map_ \ expired
     /\ lru_list_' = Erased(lru_list_, expired)
     /\ Ask(<<"exists", k>>)
     /\ reply' = (k \in lru_map_ \ expired)
     /\ touched' = None
     /\ now' = t

exists(k, t) ==
  LET expired == Expired(now)
  IN /\ cache_' = Dropped(expired)
     /\ lru_map_' = lru_map_ \ expired
     /\ lru_list_' = Erased(lru_list_, expired)
     /\ Ask(<<"exists", k>>)
     /\ reply' = (cache_[k] # None /\ cache_[k].expiry > t)
     /\ touched' = None
     /\ now' = t

remove(k) ==
  /\ cache_' = Dropped({k})
  /\ lru_list_' = Erased(lru_list_, {k})
  /\ lru_map_' = lru_map_ \ {k}
  /\ Ask(<<"remove", k>>)
  /\ reply' = (k \in lru_map_ \/ cache_[k] # None)
  /\ touched' = None
  /\ UNCHANGED now

clear ==
  /\ cache_' = Dropped(Keys)
  /\ lru_list_' = <<>>
  /\ lru_map_' = {}
  /\ Ask(<<"clear">>)
  /\ reply' = TRUE /\ touched' = None
  /\ UNCHANGED now

Tick ==
  /\ now < MaxTime
  /\ now' = now + 1
  /\ UNCHANGED <<cache_, lru_list_, lru_map_, asked, reply, touched>>

Next ==
  \/ \E k \in Keys, v \in Values, ttl \in TtlArgs : set(k, v, ttl)
  \/ \E k \in Keys, t \in now .. MaxTime : get(k, t) \/ exists(k, t)
  \/ \E k \in Keys : remove(k)
  \/ clear
  \/ Tick

Spec == Init /\ [][Next]_vars

-----------------------------------------------------------------------------
(* Properties.                                                             *)

\* The three containers describe the same keys, and no key has two nodes: an
\* iterator of lru_map_ never dangles and evictIfNeeded always makes progress.
ContainersAgree ==
  /\ lru_map_ = {k \in Keys : cache_[k] # None}
  /\ ToSet(lru_list_) = lru_map_
  /\ Len(lru_list_) = Cardinality(lru_map_)

\* The limit holds after every operation; a limit of 0 still admits one entry,
\* because set inserts after evicting.
SizeBounded == Cardinality(lru_map_) <= IF MaxSize = 0 THEN 1 ELSE MaxSize

Before(list, a, b) ==
  \E i, j \in 1 .. Len(list) : i < j /\ list[i] = a /\ list[j] = b

\* The key just stored or found comes first; if a was used after b and b stays
\* without being touched, then a stays ahead of b, unless it expired or was
\* removed.
UseOrderKept ==
  /\ touched' # None => lru_list_'[1] = touched'
  /\ \A a, b \in ToSet(lru_list_) :
       (Before(lru_list_, a, b) /\ b \in ToSet(lru_list_') /\ b # touched') =>
         \/ Before(lru_list_', a, b)
         \/ /\ a \notin ToSet(lru_list_')
            /\ a \in Expired(now') \/ touched' = None

\* The list is in the order of last use, and what set evicts was used less
\* recently than all that it keeps.
LeastRecentlyUsedGoesFirst == [][UseOrderKept]_vars

\* The cache refines the store Backendify relies on, and is not lossy.  The
\* reply belongs to the operation and the key: get(k) misses only if k is absent
\* or expired, a hit is the last value set for k and is never stale, exists and
\* remove report k's entry, and set keeps its value for its time to live.
Store == INSTANCE CacheInterface WITH
  store <- cache_, Lossy <- FALSE, Ttls <- {effective_ttl(t) : t \in TtlArgs}
StoreSpec == Store!StoreSpec
=============================================================================
