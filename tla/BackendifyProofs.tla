-------------------------- MODULE BackendifyProofs --------------------------
(***************************************************************************)
(* The safety of the service for any requests, countries, backends and     *)
(* limits: one answer per request, cool-off and freshness respected, every *)
(* running call cancelled, and no request given the company of another.    *)
(*                                                                         *)
(* The invariant says what the phase of a request entails: from checkCache *)
(* to the test of the breaker its barrier is no later than the cool-off    *)
(* that is in force, since a cool-off only grows; after the test it is     *)
(* over; from callBackendApi on the request has a backend and its session  *)
(* is recorded.  An entry of the cache expires a Ttl after its company was *)
(* received.                                                               *)
(*                                                                         *)
(* The last parts are about CompanyHandling: the reply for every class of  *)
(* answers, and the parameters of a query of any length, by an invariant   *)
(* of the loop over its characters.                                        *)
(***************************************************************************)
EXTENDS Backendify, CompanyHandling, SequenceLemmas

backend(r) == findBackendInfo(country_iso(r))

BackendInv ==
  \A r \in Requests : pc[r] \in {"call", "run", "waiting"} => backend(r) # None

CoolOffInv ==
  /\ \A b \in Backends : tripped_backends_[b] <= now + CoolOff
  /\ \A r \in Requests :
       /\ pc[r] \in {"cache", "sla", "find"} /\ backend(r) # None
            => barrier[r] <= tripped_backends_[backend(r)]
       /\ pc[r] \in {"call", "run"} => barrier[r] <= now

FreshInv ==
  \A k \in Keys : cache[k] # None => cache[k].expiry <= cache[k].value.at + Ttl

RecordedInv ==
  \A r \in Requests :
    pc[r] = "run" \/ call[r] = "running" => r \in active_client_sessions_

Inv ==
  /\ TypeOK /\ AnsweredAtMostOnce
  /\ BackendInv /\ CoolOffInv /\ FreshInv /\ RecordedInv

\* What the cache holds under the key of a request is the company it asks for.
KeyInv ==
  \A r \in Requests :
    cache[cache_key(r)] # None =>
      /\ cache[cache_key(r)].value.id = id(r)
      /\ cache[cache_key(r)].value.backend = backend(r)

-----------------------------------------------------------------------------
(* What the definitions of the model yield.                                *)

\* What processCompanyRequest reads from a request: the identifier, the country
\* in upper case, of the same length, and the key of the cache.
LEMMA TargetType ==
  ASSUME NEW r \in Requests
  PROVE  /\ id(r) \in Seq(STRING) /\ country_iso(r) \in Seq(STRING)
         /\ cache_key(r) \in Keys
         /\ Len(country_iso(r)) = Len(Target[r].country)
  <1>1. Target[r].id \in Seq(STRING) /\ Target[r].country \in Seq(STRING)
    BY BackendifyAssumption
  <1>2. \A i \in 1 .. Len(Target[r].country) :
          toupper(Target[r].country[i]) \in STRING
    BY <1>1, BackendifyAssumption, ElementOfSeq DEF toupper
  <1>3. country_iso(r) \in Seq(STRING) /\ Len(country_iso(r)) = Len(Target[r].country)
    BY <1>1, <1>2, IsASeq, LenProperties DEF country_iso
  <1>4. QED
    BY <1>1, <1>3 DEF id, Keys

\* findBackendInfo yields one of the configured backends or nothing.
LEMMA BackendType ==
  ASSUME NEW r \in Requests, backend(r) # None
  PROVE  backend(r) \in Backends
  BY BackendifyAssumption DEF backend, findBackendInfo

\* A company from a backend, as it is sent and cached.
LEMMA CompanyType ==
  ASSUME NEW r \in Requests, NEW t \in Nat, NEW b \in Backends
  PROVE  [id |-> id(r), backend |-> b, at |-> t] \in Companies
  BY DEF Companies

\* replies is what the completion handler may give, case by case.
AreReplies(replies, e, a, u) ==
  /\ e # "ok" => replies = {Reply(504, e \in {"refused", "timed_out"})}
  /\ e = "ok" /\ a.status = 200 => replies = handle200(a, u)
  /\ e = "ok" /\ a.status = 404 => replies = {Reply(404, FALSE)}
  /\ e = "ok" /\ a.status \in 500 .. 599 => replies = {Reply(502, TRUE)}
  /\ e = "ok" /\ a.status \notin {200, 404} /\ a.status \notin 500 .. 599
       => replies = {Reply(502, FALSE)}

\* The order of the cases of the completion handler does not matter.
LEMMA HandlerCases ==
  ASSUME NEW e, NEW a, NEW u
  PROVE  AreReplies(completionHandler(e, a, u), e, a, u)
  <1>1. e # "ok" => completionHandler(e, a, u)
                      = {Reply(504, e \in {"refused", "timed_out"})}
    BY ZenonT(60) DEF completionHandler
  <1>2. e = "ok" /\ a.status = 200 => completionHandler(e, a, u) = handle200(a, u)
    BY DEF completionHandler
  <1>3. e = "ok" /\ a.status = 404 => completionHandler(e, a, u) = {Reply(404, FALSE)}
    BY DEF completionHandler
  <1>4. e = "ok" /\ a.status \in 500 .. 599
          => completionHandler(e, a, u) = {Reply(502, TRUE)}
    BY DEF completionHandler, Reply
  <1>5. e = "ok" /\ a.status \notin {200, 404} /\ a.status \notin 500 .. 599
          => completionHandler(e, a, u) = {Reply(502, FALSE)}
    BY ZenonT(60) DEF completionHandler
  <1>6. QED
    BY <1>1, <1>2, <1>3, <1>4, <1>5, Zenon DEF AreReplies

\* What the handler of a 200 replies: nothing, a company or 502, and it never
\* trips the breaker.
LEMMA Handle200Fields ==
  ASSUME NEW a, NEW u
  PROVE  \A rp \in handle200(a, u) : ~rp.trips /\ rp.status \in {0, 200, 502}
  BY DEF handle200, Reply

\* An answer in no known format is not parsed.
LEMMA UnknownIsRefused ==
  ASSUME NEW a, NEW u, Unparsable(a)
  PROVE  handle200(a, u) = {Reply(502, FALSE)}
  <1>1. parseBackendResponse(a) = NoInfo
    BY DEF parseBackendResponse, Unparsable
  <1>2. ~NoInfo.parse_success
    BY DEF NoInfo
  <1>3. QED
    BY <1>1, <1>2 DEF handle200

\* A company without dates is active.
LEMMA UndatedIsActive ==
  ASSUME NEW i, i.second = "unset", i.end = "unset"
  PROVE  constructV1Json(i) = {Company(i.name, TRUE, "unset")}
  <1>1. ~Given("unset")
    BY DEF Given
  <1>2. constructV1Json(i) = {Company(i.name, "no" # "yes" /\ "unset" # "no", "unset")}
    BY <1>1 DEF constructV1Json
  <1>3. Company(i.name, "no" # "yes" /\ "unset" # "no", "unset")
          = Company(i.name, TRUE, "unset")
    BY DEF Company
  <1>4. QED
    BY <1>2, <1>3

\* A malformed answer is read half way, and sent.
LEMMA MalformedIsSent ==
  ASSUME NEW a, Malformed(a)
  PROVE  handle200(a, TRUE) = {[status |-> 200, trips |-> FALSE, company |-> HalfRead(a)]}
  <1> DEFINE n == IF a.body = "object" /\ a.name # "not_a_string" THEN value(a.name)
                                                                ELSE "empty"
             v == IF a.content_type = "v1" THEN 1 ELSE 2
             info == [version |-> v, parse_success |-> TRUE, name |-> n,
                      second |-> "unset", end |-> "unset"]
             Sent(c) == IF c.throws \/ ~TRUE THEN Reply(0, FALSE)
                        ELSE [status |-> 200, trips |-> FALSE, company |-> c]
  <1>1. parseBackendResponse(a) = info
    <2>1. /\ a.body \notin {"empty", "not_json"} /\ a.content_type # "other"
          /\ \/ a.body = "not_an_object"
             \/ a.body = "object" /\ (a.name = "not_a_string" \/ a.second = "not_a_string")
      BY DEF Malformed, Unparsable
    <2>2. CASE a.body = "not_an_object"
      BY <2>1, <2>2 DEF parseBackendResponse, NoInfo, value
    <2>3. CASE a.body # "not_an_object" /\ a.name = "not_a_string"
      BY <2>1, <2>3 DEF parseBackendResponse, NoInfo, value
    <2>4. CASE a.body # "not_an_object" /\ a.name # "not_a_string"
      <3>1. a.second = "not_a_string" /\ a.body = "object"
        BY <2>1, <2>4
      <3>2. QED
        BY <2>1, <2>4, <3>1 DEF parseBackendResponse, NoInfo, value
    <2>5. QED
      BY <2>2, <2>3, <2>4
  <1> HIDE DEF n
  <1>2. constructV1Json(info) = {Company(n, TRUE, "unset")}
    <2>1. info.name = n /\ info.second = "unset" /\ info.end = "unset"
      OBVIOUS
    <2> HIDE DEF info
    <2>2. QED
      BY <2>1, UndatedIsActive
  <1>3. constructV2Json(info) = {Company(n, TRUE, "unset")}
    BY DEF constructV2Json, Given, Company
  <1>4. HalfRead(a) = Company(n, TRUE, "unset") /\ ~HalfRead(a).throws
    BY DEF HalfRead, Company, n
  <1>5. info.parse_success
    OBVIOUS
  <1> HIDE DEF info
  <1>6. handle200(a, TRUE) = {Sent(c) : c \in {HalfRead(a)}}
    BY <1>1, <1>2, <1>3, <1>4, <1>5 DEF handle200
  <1>7. Sent(HalfRead(a)) = [status |-> 200, trips |-> FALSE, company |-> HalfRead(a)]
    BY <1>4
  <1> HIDE DEF Sent
  <1>8. \A x : {Sent(c) : c \in {x}} = {Sent(x)}
    OBVIOUS
  <1>9. QED
    BY <1>6, <1>7, <1>8, Zenon

\* The status and the breaker for every answer that is refused.
LEMMA FailureStatus ==
  ASSUME NEW e, NEW a, NEW u, NEW rp \in completionHandler(e, a, u)
  PROVE  /\ e # "ok" => rp.status = 504
         /\ e = "ok" /\ a.status = 404 => rp.status = 404
         /\ e = "ok" /\ a.status \notin {200, 404} => rp.status = 502
         /\ e = "ok" /\ a.status = 200 /\ Unparsable(a) => rp.status = 502
         /\ rp.trips <=> \/ e \in {"refused", "timed_out"}
                         \/ e = "ok" /\ a.status \in 500 .. 599
  <1>0. AreReplies(completionHandler(e, a, u), e, a, u)
    BY HandlerCases
  <1>1. CASE e # "ok"
    <2>1. completionHandler(e, a, u) = {Reply(504, e \in {"refused", "timed_out"})}
      BY <1>0, <1>1, Zenon DEF AreReplies
    <2>2. rp = Reply(504, e \in {"refused", "timed_out"})
      BY <2>1
    <2>3. rp.status = 504 /\ rp.trips = (e \in {"refused", "timed_out"})
      BY <2>2 DEF Reply
    <2>4. QED
      BY <1>1, <2>3
  <1>2. CASE e = "ok" /\ a.status = 200
    <2>1. completionHandler(e, a, u) = handle200(a, u)
      BY <1>0, <1>2, Zenon DEF AreReplies
    <2>2. ~rp.trips
      <3>1. rp \in handle200(a, u)
        BY <2>1, Zenon
      <3>2. QED
        BY <3>1, Handle200Fields
    <2>3. ASSUME Unparsable(a)
          PROVE  rp.status = 502
      <3>1. handle200(a, u) = {Reply(502, FALSE)}
        BY <2>3, UnknownIsRefused, Zenon
      <3>2. rp = Reply(502, FALSE)
        BY <2>1, <3>1
      <3>3. QED
        BY <3>2 DEF Reply
    <2>4. /\ a.status # 404 /\ a.status \notin 500 .. 599 /\ a.status \in {200, 404}
          /\ e \notin {"refused", "timed_out"}
      BY <1>2
    <2>5. QED
      BY <1>2, <2>2, <2>3, <2>4, Zenon
  <1>3. CASE e = "ok" /\ a.status = 404
    <2>1. completionHandler(e, a, u) = {Reply(404, FALSE)}
      BY <1>0, <1>3, Zenon DEF AreReplies
    <2>2. rp = Reply(404, FALSE)
      BY <2>1
    <2>3. rp.status = 404 /\ rp.trips = FALSE
      BY <2>2 DEF Reply
    <2>4. QED
      BY <1>3, <2>3
  <1>4. CASE e = "ok" /\ a.status \in 500 .. 599
    <2>1. completionHandler(e, a, u) = {Reply(502, TRUE)}
      BY <1>0, <1>4, Zenon DEF AreReplies
    <2>2. rp = Reply(502, TRUE)
      BY <2>1
    <2>3. rp.status = 502 /\ rp.trips = TRUE
      BY <2>2 DEF Reply
    <2>4. a.status # 404
      BY <1>4
    <2>5. QED
      BY <1>4, <2>3, <2>4, Zenon
  <1>5. CASE e = "ok" /\ a.status \notin {200, 404} /\ a.status \notin 500 .. 599
    <2>1. completionHandler(e, a, u) = {Reply(502, FALSE)}
      BY <1>0, <1>5, Zenon DEF AreReplies
    <2>2. rp = Reply(502, FALSE)
      BY <2>1
    <2>3. rp.status = 502 /\ rp.trips = FALSE
      BY <2>2 DEF Reply
    <2>4. e \notin {"refused", "timed_out"} /\ a.status # 404
      BY <1>5
    <2>5. QED
      BY <1>5, <2>3, <2>4, Zenon
  <1>6. QED
    BY <1>1, <1>2, <1>3, <1>4, <1>5, Zenon

\* The completion handler gives one of five statuses, whatever the answer.
LEMMA ReplyType ==
  ASSUME NEW o \in Outcomes, NEW u
  PROVE  \A rp \in completionHandler(o.ec, o.answer, u) :
           rp.status \in {0, 200, 404, 502, 504}
  <1> SUFFICES ASSUME NEW rp \in completionHandler(o.ec, o.answer, u)
               PROVE  rp.status \in {0, 200, 404, 502, 504}
    OBVIOUS
  <1>1. CASE o.ec = "ok" /\ o.answer.status = 200
    <2>1. completionHandler(o.ec, o.answer, u) = handle200(o.answer, u)
      <3>1. AreReplies(completionHandler(o.ec, o.answer, u), o.ec, o.answer, u)
        BY HandlerCases
      <3>2. QED
        BY <1>1, <3>1, Zenon DEF AreReplies
    <2>2. QED
      BY <2>1, Handle200Fields
  <1>2. CASE ~(o.ec = "ok" /\ o.answer.status = 200)
    <2>1. rp.status = 504 \/ rp.status = 404 \/ rp.status = 502
      BY <1>2, FailureStatus
    <2>2. QED
      BY <2>1
  <1>3. QED
    BY <1>1, <1>2

\* A thread is free only if there is one.
LEMMA FreeThread == ThreadFree => io_threads > 0 \/ io_threads \notin Int
  <1> DEFINE busy == {r \in Requests : pc[r] \in InThread}
  <1>1. IsFiniteSet(busy)
    BY BackendifyAssumption, FS_Subset
  <1>2. Cardinality(busy) \in Nat
    BY <1>1, FS_CardinalityType
  <1>3. QED
    BY <1>2 DEF ThreadFree

\* The parts of the store's operations that the service uses.
LEMMA GetProperties ==
  ASSUME TypeOK, NEW k \in Keys, Cache!Look(k, now)
  PROVE  /\ now' = now
         /\ cache' \in [Keys -> Cache!Entries \cup {None}]
         /\ \A q \in Keys : cache'[q] \in {cache[q], None}
         /\ cacheReply' \in Companies \cup {None}
         /\ cacheReply' # None =>
              cache[k] # None /\ cache[k].expiry > now /\ cacheReply' = cache[k].value
  BY DEF TypeOK, Cache!Look, Cache!Purge, Cache!Forget, Cache!Live, Cache!Entries

\* What cache_->set leaves: the new entry with its expiry, and of the others
\* nothing but what was there.
LEMMA PutProperties ==
  ASSUME TypeOK, NEW k \in Keys, NEW v \in Companies, Cache!Put(k, v, Ttl)
  PROVE  /\ now' = now
         /\ cache' \in [Keys -> Cache!Entries \cup {None}]
         /\ cache'[k] = [value |-> v, expiry |-> now + Ttl]
         /\ \A q \in Keys : q # k => cache'[q] \in {cache[q], None}
  BY BackendifyAssumption
  DEF TypeOK, Cache!Put, Cache!Forget, Cache!Entries

\* A step of request r that leads to label l, with at most the answer added.
Moves(r, l) ==
  /\ pc' = [pc EXCEPT ![r] = l]
  /\ response' \in [Requests -> Seq([status : Nat, company : Companies \cup {None}])]
  /\ AnsweredAtMostOnce'
  /\ received_time' = received_time

\* An answer to a request that has none ends it with exactly that one.
LEMMA RespondMoves ==
  ASSUME TypeOK, AnsweredAtMostOnce, NEW r \in Requests, pc[r] # "answered",
         NEW s \in Nat, NEW c \in Companies \cup {None}, Respond(r, s, c)
  PROVE  /\ Moves(r, "answered")
         /\ response' = [response EXCEPT ![r] = <<[status |-> s, company |-> c]>>]
  <1> DEFINE x == [status |-> s, company |-> c]
             R == [status : Nat, company : Companies \cup {None}]
  <1>1. x \in R /\ response[r] \in Seq(R) /\ Len(response[r]) = 0
    BY DEF TypeOK, AnsweredAtMostOnce
  <1>2. response[r] = <<>>
    BY <1>1, EmptySeq
  <1>3. Append(response[r], x) = <<x>> /\ <<x>> \in Seq(R) /\ Len(<<x>>) = 1
    BY <1>1, <1>2
  <1>4. response' = [response EXCEPT ![r] = <<x>>]
    BY <1>3 DEF Respond
  <1> HIDE DEF x, R
  <1>5. response' \in [Requests -> Seq(R)]
    BY <1>3, <1>4 DEF TypeOK, R
  <1>6. AnsweredAtMostOnce'
    BY <1>3, <1>4 DEF Respond, TypeOK, AnsweredAtMostOnce
  <1>7. QED
    BY <1>4, <1>5, <1>6 DEF Moves, Respond, x, R

\* A step that only moves a request on leaves its answers alone.
LEMMA GotoMoves ==
  ASSUME TypeOK, AnsweredAtMostOnce, NEW r \in Requests, pc[r] # "answered",
         NEW l, l # "answered", Goto(r, l)
  PROVE  Moves(r, l) /\ response' = response
  BY DEF Goto, Moves, TypeOK, AnsweredAtMostOnce

-----------------------------------------------------------------------------
(* The invariant.                                                          *)

\* The service starts in the invariant.
LEMMA InitInv == Init => Inv
  <1> SUFFICES ASSUME Init PROVE Inv
    OBVIOUS
  <1>1. TypeOK
    <2>1. BreakerTypeOK
      BY DEF Init, BreakerInit, BreakerTypeOK
    <2>2. /\ pc \in [Requests -> InThread \cup Over \cup {"idle", "waiting"}]
          /\ call \in [Requests -> {"idle", "running", "done"}]
      BY DEF Init, Client!CallInit
    <2>3. /\ received_time \in [Requests -> 0 .. MaxTime]
          /\ barrier \in [Requests -> Nat]
          /\ io_threads \in 0 .. NumIoThreads /\ now \in 0 .. MaxTime
      BY BackendifyAssumption DEF Init, Cache!StoreInit
    <2>4. \A S : [r \in Requests |-> <<>>] \in [Requests -> Seq(S)]
      BY EmptySeq
    <2>5. /\ response \in [Requests -> Seq([status : Nat, company : Companies \cup {None}])]
          /\ outcome \in [Requests -> Seq(Outcomes)]
      BY <2>4 DEF Init, Client!CallInit
    <2>6. /\ cache \in [Keys -> Cache!Entries \cup {None}]
          /\ cacheReply \in Companies \cup {None}
          /\ active_client_sessions_ \subseteq Requests /\ cancelled \subseteq Requests
      BY DEF Init, Cache!StoreInit
    <2>7. shutdown \in BOOLEAN
      BY DEF Init
    <2>8. QED
      BY <2>1, <2>2, <2>3, <2>5, <2>6, <2>7 DEF TypeOK
  <1>2. AnsweredAtMostOnce
    BY DEF Init, AnsweredAtMostOnce
  <1>3. BackendInv /\ FreshInv /\ RecordedInv
    BY DEF Init, Cache!StoreInit, Client!CallInit, BackendInv, FreshInv, RecordedInv
  <1>4. CoolOffInv
    BY CoolOffAssumption DEF Init, BreakerInit, Cache!StoreInit, CoolOffInv
  <1>5. QED
    BY <1>1, <1>2, <1>3, <1>4 DEF Inv

\* A request arrives.
LEMMA ReceiveInv ==
  ASSUME Inv, NEW r \in Requests, NEW t \in 0 .. MaxTime, receive(r, t)
  PROVE  Inv'
  <1>1. TypeOK'
    BY BackendType DEF Inv, TypeOK, BreakerTypeOK, receive, cacheStateVars, callStateVars, InThread, backend
  <1>2. AnsweredAtMostOnce' /\ BackendInv' /\ FreshInv' /\ RecordedInv'
    BY DEF Inv, TypeOK, receive, cacheStateVars, callStateVars, AnsweredAtMostOnce,
           BackendInv, FreshInv, RecordedInv
  <1>3. CoolOffInv'
    BY BackendType
    DEF Inv, TypeOK, BreakerTypeOK, receive, cacheStateVars, callStateVars, CoolOffInv, backend
  <1>4. QED
    BY <1>1, <1>2, <1>3 DEF Inv

\* Any step of a request that leaves the breaker, the calls and the clock alone
\* keeps the invariant, if the label it leads to is entitled to it.
LEMMA MovesInv ==
  ASSUME Inv, NEW r \in Requests, pc[r] \in InThread,
         NEW l \in {"answered", "dropped", "sla", "find", "call", "run"}, Moves(r, l),
         now' = now,
         cache' \in [Keys -> Cache!Entries \cup {None}],
         \A q \in Keys : cache'[q] \in {cache[q], None},
         cacheReply' \in Companies \cup {None},
         call' = call, outcome' = outcome,
         active_client_sessions_ \subseteq active_client_sessions_',
         active_client_sessions_' \subseteq Requests,
         UNCHANGED <<tripped_backends_, io_threads, shutdown, cancelled, barrier>>,
         l \in {"sla", "find"} => pc[r] \in {"cache", "sla"},
         l = "call" => backend(r) # None /\ barrier[r] <= now,
         l = "run" => pc[r] = "call" /\ r \in active_client_sessions_'
  PROVE  Inv'
  <1>1. TypeOK'
    <2>1. pc' \in [Requests -> InThread \cup Over \cup {"idle", "waiting"}]
      BY DEF Inv, TypeOK, Moves, InThread, Over
    <2>2. QED
      BY <2>1 DEF Inv, TypeOK, BreakerTypeOK, Moves
  <1>2. BackendInv' /\ RecordedInv'
    BY DEF Inv, TypeOK, Moves, BackendInv, RecordedInv
  <1>3. CoolOffInv'
    BY DEF Inv, TypeOK, Moves, CoolOffInv
  <1>4. FreshInv'
    BY DEF Inv, FreshInv
  <1>5. QED
    BY <1>1, <1>2, <1>3, <1>4 DEF Inv, Moves

\* The cache answers, a parameter is missing, or processing goes on.
LEMMA CacheInv ==
  ASSUME Inv, NEW r \in Requests, checkCacheAndRespond(r)
  PROVE  Inv'
  <1>1. /\ TypeOK /\ AnsweredAtMostOnce /\ cache_key(r) \in Keys
        /\ pc[r] = "cache" /\ pc[r] # "answered"
    BY TargetType DEF Inv, checkCacheAndRespond
  <1>2. /\ now' = now
        /\ cache' \in [Keys -> Cache!Entries \cup {None}]
        /\ \A q \in Keys : cache'[q] \in {cache[q], None}
        /\ cacheReply' \in Companies \cup {None}
    BY <1>1, GetProperties DEF TypeOK, checkCacheAndRespond, cacheStateVars
  <1>3. Moves(r, "answered") \/ Moves(r, "sla")
    <2>1. CASE Respond(r, 400, None) \/ Respond(r, 200, cacheReply')
      <3>1. 400 \in Nat /\ 200 \in Nat /\ None \in Companies \cup {None}
        OBVIOUS
      <3>2. PICK s \in Nat, c \in Companies \cup {None} : Respond(r, s, c)
        BY <1>2, <2>1, <3>1
      <3>3. QED
        BY <1>1, <3>2, RespondMoves
    <2>2. CASE Goto(r, "sla")
      BY <1>1, <2>2, GotoMoves
    <2>3. QED
      BY <2>1, <2>2 DEF checkCacheAndRespond
  <1>4. UNCHANGED <<callStateVars, tripped_backends_, io_threads, shutdown,
                    cancelled, barrier>>
    BY DEF checkCacheAndRespond
  <1>5. QED
    BY <1>1, <1>2, <1>3, <1>4, MovesInv DEF callStateVars, InThread, Inv, TypeOK

\* The SLA is met, or the request is dropped or answered with 504.
LEMMA SlaInv ==
  ASSUME Inv, NEW r \in Requests, checkSla(r)
  PROVE  Inv'
  <1>1. TypeOK /\ AnsweredAtMostOnce /\ pc[r] = "sla" /\ pc[r] # "answered"
    BY DEF Inv, checkSla
  <1>2. Moves(r, "answered") \/ Moves(r, "find") \/ Moves(r, "dropped")
    <2>1. CASE Respond(r, 504, None)
      BY <1>1, <2>1, RespondMoves
    <2>2. CASE Goto(r, "find") \/ Goto(r, "dropped")
      BY <1>1, <2>2, GotoMoves
    <2>3. QED
      BY <2>1, <2>2 DEF checkSla
  <1>3. UNCHANGED <<cacheStateVars, callStateVars, tripped_backends_, io_threads,
                    shutdown, cancelled, barrier, now>>
    BY DEF checkSla
  <1>4. QED
    BY <1>1, <1>2, <1>3, MovesInv
    DEF cacheStateVars, callStateVars, InThread, Inv, TypeOK

\* No backend, a backend that cools off, or one that may be called: then the
\* barrier, which was no later than the end of the cool-off, has passed.
LEMMA CheckBackendInv ==
  ASSUME Inv, NEW r \in Requests, checkBackend(r)
  PROVE  Inv'
  <1>1. TypeOK /\ AnsweredAtMostOnce /\ pc[r] = "find" /\ pc[r] # "answered"
    BY DEF Inv, checkBackend
  <1>2. \/ Moves(r, "answered")
        \/ Moves(r, "call") /\ backend(r) # None /\ ~isTripped(backend(r), now)
    <2>1. CASE Respond(r, 404, None) \/ Respond(r, 504, None)
      <3>1. 404 \in Nat /\ 504 \in Nat /\ None \in Companies \cup {None}
        OBVIOUS
      <3>2. PICK s \in Nat : Respond(r, s, None)
        BY <2>1, <3>1
      <3>3. QED
        BY <1>1, <3>1, <3>2, RespondMoves
    <2>2. CASE Goto(r, "call") /\ backend(r) # None /\ ~isTripped(backend(r), now)
      BY <1>1, <2>2, GotoMoves
    <2>3. QED
      BY <2>1, <2>2 DEF checkBackend, backend
  <1>3. UNCHANGED <<cacheStateVars, callStateVars, tripped_backends_, io_threads,
                    shutdown, cancelled, barrier, now>>
    BY DEF checkBackend
  <1>4. backend(r) # None /\ ~isTripped(backend(r), now) => barrier[r] <= now
    BY <1>1, BackendType DEF Inv, TypeOK, BreakerTypeOK, CoolOffInv, isTripped
  <1>5. QED
    BY <1>1, <1>2, <1>3, <1>4, MovesInv
    DEF cacheStateVars, callStateVars, InThread, Inv, TypeOK

\* The session is recorded before it is run.
LEMMA CallInv ==
  ASSUME Inv, NEW r \in Requests, callBackendApi(r)
  PROVE  Inv'
  <1>1. TypeOK /\ AnsweredAtMostOnce /\ pc[r] = "call" /\ pc[r] # "answered"
    BY DEF Inv, callBackendApi
  <1>2. Moves(r, "run")
    BY <1>1, GotoMoves DEF callBackendApi
  <1>3. /\ UNCHANGED <<cacheStateVars, call, outcome, tripped_backends_, io_threads,
                       shutdown, cancelled, barrier, now>>
        /\ active_client_sessions_' = active_client_sessions_ \cup {r}
    BY DEF callBackendApi
  <1>4. QED
    BY <1>1, <1>2, <1>3, MovesInv
    DEF cacheStateVars, callStateVars, InThread, Inv, TypeOK

\* Handing the session to the io_context (runClientSession) starts its call.
LEMMA RunInv ==
  ASSUME Inv, NEW r \in Requests, runClientSession(r)
  PROVE  Inv'
  <1>1. TypeOK /\ AnsweredAtMostOnce /\ pc[r] = "run" /\ pc[r] # "answered"
    BY DEF Inv, runClientSession
  <1>2. Moves(r, "waiting")
    BY <1>1, GotoMoves DEF runClientSession
  <1>3. /\ call' = [call EXCEPT ![r] = "running"] /\ outcome' = outcome
        /\ UNCHANGED <<cacheStateVars, active_client_sessions_, tripped_backends_,
                       io_threads, shutdown, cancelled, barrier, now>>
    BY DEF runClientSession, Client!Start
  <1>4. TypeOK'
    <2>1. /\ pc' \in [Requests -> InThread \cup Over \cup {"idle", "waiting"}]
          /\ call' \in [Requests -> {"idle", "running", "done"}]
      BY <1>1, <1>2, <1>3 DEF TypeOK, Moves
    <2>2. QED
      BY <1>1, <1>2, <1>3, <2>1 DEF TypeOK, BreakerTypeOK, Moves, cacheStateVars
  <1>5. BackendInv' /\ RecordedInv' /\ FreshInv'
    BY <1>1, <1>2, <1>3
    DEF Inv, TypeOK, Moves, cacheStateVars, BackendInv, RecordedInv, FreshInv
  <1>6. CoolOffInv'
    BY <1>1, <1>2, <1>3 DEF Inv, TypeOK, Moves, CoolOffInv
  <1>7. QED
    BY <1>2, <1>4, <1>5, <1>6 DEF Inv, Moves

\* The completion answers the request or ends its thread; it may trip the
\* breaker, which puts the end of the cool-off no earlier than it was, and may
\* fill the cache with a company that has just been received.
LEMMA CompleteInv ==
  ASSUME Inv, NEW r \in Requests, NEW o \in Outcomes, onComplete(r, o)
  PROVE  Inv'
  <1> DEFINE company == [id |-> id(r), backend |-> backend(r), at |-> now]
  <1>1. /\ TypeOK /\ AnsweredAtMostOnce /\ pc[r] = "waiting" /\ pc[r] # "answered"
        /\ cache_key(r) \in Keys /\ ThreadFree
    BY TargetType DEF Inv, onComplete
  <1>2. backend(r) \in Backends /\ now \in Nat
    BY <1>1, BackendType, BackendifyAssumption DEF Inv, BackendInv, TypeOK
  <1>3. company \in Companies
    BY <1>2, CompanyType
  <1> HIDE DEF company
  <1>4. PICK rp \in completionHandler(o.ec, o.answer, idIsUtf8(r)) :
          /\ IF rp.trips THEN trip(backend(r), now) ELSE UNCHANGED tripped_backends_
          /\ IF rp.status = 200
               THEN Cache!Put(cache_key(r), company, Ttl) /\ UNCHANGED cacheReply
               ELSE UNCHANGED <<cacheStateVars, now>>
          /\ IF rp.status = 0
               THEN Goto(r, "lost") /\ io_threads' = io_threads - 1
               ELSE /\ Respond(r, rp.status,
                               IF rp.status = 200 THEN company ELSE None)
                    /\ UNCHANGED io_threads
    BY DEF onComplete, backend, company
  <1>5. rp.status \in Nat
    BY <1>4, ReplyType
  <1>6. /\ call' = [call EXCEPT ![r] = "done"]
        /\ outcome' = [outcome EXCEPT ![r] = <<o>>]
        /\ active_client_sessions_' = active_client_sessions_
        /\ UNCHANGED <<shutdown, cancelled, barrier>>
    BY DEF onComplete, Client!Finish, SessionToRemove
  <1>7. /\ now' = now
        /\ cache' \in [Keys -> Cache!Entries \cup {None}]
        /\ \A q \in Keys :
             cache'[q] \in {cache[q], None, [value |-> company, expiry |-> now + Ttl]}
        /\ cacheReply' = cacheReply
    <2>1. CASE rp.status = 200
      <3>1. Cache!Put(cache_key(r), company, Ttl) /\ cacheReply' = cacheReply
        BY <1>4, <2>1
      <3>2. /\ now' = now
            /\ cache' \in [Keys -> Cache!Entries \cup {None}]
            /\ cache'[cache_key(r)] = [value |-> company, expiry |-> now + Ttl]
            /\ \A q \in Keys : q # cache_key(r) => cache'[q] \in {cache[q], None}
        BY <1>1, <1>3, <3>1, PutProperties
      <3>3. QED
        BY <3>1, <3>2
    <2>2. CASE rp.status # 200
      BY <1>1, <1>4, <2>2 DEF TypeOK, cacheStateVars
    <2>3. QED
      BY <2>1, <2>2
  <1>8. /\ BreakerTypeOK'
        /\ \A b \in Backends : /\ tripped_backends_[b] <= tripped_backends_'[b]
                               /\ tripped_backends_'[b] <= now + CoolOff
    <2>1. CASE trip(backend(r), now)
      BY <1>1, <1>2, <2>1, CoolOffAssumption DEF trip, Inv, CoolOffInv, TypeOK, BreakerTypeOK
    <2>2. CASE UNCHANGED tripped_backends_
      BY <1>1, <2>2 DEF Inv, CoolOffInv, TypeOK, BreakerTypeOK
    <2>3. QED
      BY <1>4, <2>1, <2>2
  <1>9. \/ Moves(r, "lost") /\ io_threads' = io_threads - 1
        \/ Moves(r, "answered") /\ io_threads' = io_threads
    <2>1. CASE rp.status = 0
      BY <1>1, <1>4, <2>1, GotoMoves
    <2>2. CASE rp.status # 0
      <3>1. PICK c \in Companies \cup {None} : Respond(r, rp.status, c)
        BY <1>3, <1>4, <2>2
      <3>2. QED
        BY <1>1, <1>4, <1>5, <2>2, <3>1, RespondMoves
    <2>3. QED
      BY <2>1, <2>2
  <1>10. TypeOK'
    <2>1. /\ pc' \in [Requests -> InThread \cup Over \cup {"idle", "waiting"}]
          /\ call' \in [Requests -> {"idle", "running", "done"}]
      BY <1>1, <1>6, <1>9 DEF TypeOK, Moves, Over
    <2>2. outcome' \in [Requests -> Seq(Outcomes)]
      <3>1. <<o>> \in Seq(Outcomes)
        OBVIOUS
      <3>2. QED
        BY <1>1, <1>6, <3>1 DEF TypeOK
    <2>3. io_threads' \in 0 .. NumIoThreads
      BY <1>1, <1>9, FreeThread, BackendifyAssumption DEF TypeOK
    <2>4. /\ response' \in [Requests -> Seq([status : Nat, company : Companies \cup {None}])]
          /\ received_time' = received_time
      BY <1>9 DEF Moves
    <2>5. QED
      BY <1>1, <1>6, <1>7, <1>8, <2>1, <2>2, <2>3, <2>4 DEF TypeOK
  <1>11. BackendInv' /\ RecordedInv'
    BY <1>1, <1>6, <1>9 DEF Inv, TypeOK, Moves, BackendInv, RecordedInv
  <1>12. CoolOffInv'
    <2>1. ASSUME NEW q \in Requests
          PROVE  /\ pc'[q] \in {"cache", "sla", "find"} /\ backend(q) # None
                      => barrier'[q] <= tripped_backends_'[backend(q)]
                 /\ pc'[q] \in {"call", "run"} => barrier'[q] <= now'
      <3>1. pc'[q] \in {"cache", "sla", "find", "call", "run"} => pc'[q] = pc[q]
        BY <1>1, <1>9 DEF TypeOK, Moves
      <3>2. barrier'[q] = barrier[q] /\ barrier[q] \in Nat
        BY <1>1, <1>6 DEF TypeOK
      <3>3. backend(q) # None =>
              /\ tripped_backends_[backend(q)] \in Nat /\ tripped_backends_'[backend(q)] \in Nat
              /\ tripped_backends_[backend(q)] <= tripped_backends_'[backend(q)]
        BY <1>1, <1>8, BackendType DEF TypeOK, BreakerTypeOK
      <3>4. QED
        BY <1>7, <3>1, <3>2, <3>3 DEF Inv, CoolOffInv
    <2>2. QED
      BY <1>7, <1>8, <2>1 DEF CoolOffInv
  <1>13. FreshInv'
    BY <1>2, <1>7, BackendifyAssumption DEF Inv, FreshInv, company
  <1>14. QED
    BY <1>9, <1>10, <1>11, <1>12, <1>13 DEF Inv, Moves

\* Time passes: no request, cache entry or mark of a backend changes.
LEMMA TickInv ==
  ASSUME Inv, Tick
  PROVE  Inv'
  <1>1. TypeOK'
    <2>1. now' \in 0 .. MaxTime
      BY BackendifyAssumption DEF Inv, TypeOK, Tick
    <2>2. QED
      BY <2>1
      DEF Inv, TypeOK, BreakerTypeOK, Tick, requestVars, cacheStateVars, callStateVars
  <1>2. AnsweredAtMostOnce' /\ BackendInv' /\ FreshInv' /\ RecordedInv'
    BY DEF Inv, Tick, requestVars, cacheStateVars, callStateVars, AnsweredAtMostOnce,
           BackendInv, FreshInv, RecordedInv
  <1>3. CoolOffInv'
    BY CoolOffAssumption
    DEF Inv, TypeOK, BreakerTypeOK, Tick, requestVars, CoolOffInv
  <1>4. QED
    BY <1>1, <1>2, <1>3 DEF Inv

\* Every step of the service keeps the invariant.
LEMMA NextInv == Inv /\ [Next]_vars => Inv'
  <1> SUFFICES ASSUME Inv, [Next]_vars PROVE Inv'
    OBVIOUS
  <1>1. CASE \E r \in Requests : \E t \in 0 .. MaxTime : receive(r, t)
    BY <1>1, ReceiveInv
  <1>2. CASE \E r \in Requests : Process(r)
    BY <1>2, CacheInv, SlaInv, CheckBackendInv, CallInv, RunInv DEF Process
  <1>3. CASE \E r \in Requests : \E o \in Outcomes : onComplete(r, o)
    BY <1>3, CompleteInv
  <1>4. CASE cancel_active_backend_calls
    <2>1. TypeOK'
      BY <1>4
      DEF Inv, TypeOK, BreakerTypeOK, cancel_active_backend_calls, requestVars,
          cacheStateVars, callStateVars
    <2>2. /\ AnsweredAtMostOnce' /\ BackendInv' /\ CoolOffInv' /\ FreshInv'
          /\ RecordedInv'
      BY <1>4
      DEF Inv, cancel_active_backend_calls, requestVars, cacheStateVars, callStateVars,
          AnsweredAtMostOnce, BackendInv, CoolOffInv, FreshInv, RecordedInv
    <2>3. QED
      BY <2>1, <2>2 DEF Inv
  <1>5. CASE Tick
    BY <1>5, TickInv
  <1>6. CASE UNCHANGED vars
    BY <1>6
    DEF Inv, TypeOK, BreakerTypeOK, vars, requestVars, cacheStateVars, callStateVars,
        AnsweredAtMostOnce, BackendInv, CoolOffInv, FreshInv, RecordedInv
  <1>7. QED
    BY <1>1, <1>2, <1>3, <1>4, <1>5, <1>6 DEF Next, Ended

-----------------------------------------------------------------------------
(* The theorems.                                                           *)

\* Every request, call, cache entry and counter of the service has its type.
THEOREM ServiceTypeCorrect == Spec => []TypeOK
  BY InitInv, NextInv, PTL DEF Spec, Inv

\* send_response_cb is called at most once for a request, and never for one
\* that was dropped or lost, however many requests are processed at once.
THEOREM AtMostOneAnswer == Spec => []AnsweredAtMostOnce
  BY InitInv, NextInv, PTL DEF Spec, Inv

\* A call starts only when the cool-off its request met on arrival is over.
\* Its backend was tested when it was found, and trips in between only move
\* the end of the cool-off onwards.
THEOREM CoolOffIsRespected == Spec => CoolOffRespected
  <1>1. Inv /\ [Next]_vars =>
          [\A r \in Requests :
             call[r] = "idle" /\ call'[r] = "running" => now >= barrier[r]]_vars
    <2> SUFFICES ASSUME Inv, Next, NEW r \in Requests,
                        call[r] = "idle", call'[r] = "running"
                 PROVE  now >= barrier[r]
      OBVIOUS
    <2>1. TypeOK /\ call # call'
      BY DEF Inv
    <2>2. ~(\E q \in Requests, o \in Outcomes : onComplete(q, o))
      BY <2>1 DEF onComplete, Client!Finish, TypeOK
    <2>3. PICK q \in Requests : runClientSession(q)
      BY <2>1, <2>2
      DEF Next, Process, receive, checkCacheAndRespond, checkSla, checkBackend,
          callBackendApi, cancel_active_backend_calls, Tick, Ended, vars, callStateVars
    <2>4. q = r /\ pc[r] = "run"
      BY <2>1, <2>3 DEF runClientSession, Client!Start, TypeOK
    <2>5. QED
      BY <2>4, BackendifyAssumption DEF Inv, CoolOffInv, TypeOK
  <1>2. QED
    BY <1>1, InitInv, NextInv, PTL DEF Spec, CoolOffRespected

\* Where an answer comes from: with status 200 it is an entry of the cache that
\* has not expired or what the backend of the request has just sent.
AnswerFrom(r, s, c) ==
  /\ response' = [response EXCEPT ![r] = <<[status |-> s, company |-> c]>>]
  /\ s = 200 =>
       \/ /\ cache[cache_key(r)] # None
          /\ cache[cache_key(r)].expiry > now
          /\ c = cache[cache_key(r)].value
       \/ /\ backend(r) \in Backends
          /\ c = [id |-> id(r), backend |-> backend(r), at |-> now]

\* Where an answer of the service comes from: an error of its own, a live cache
\* entry of its key, or its backend just now.
LEMMA AnswerSource ==
  ASSUME Inv, Next, NEW r \in Requests, response'[r] # response[r]
  PROVE  \E s \in Nat, c \in Companies \cup {None} : AnswerFrom(r, s, c)
  <1>1. TypeOK /\ AnsweredAtMostOnce /\ response' # response
    BY DEF Inv
  <1>2. None \in Companies \cup {None} /\ 400 \in Nat /\ 404 \in Nat /\ 504 \in Nat
    OBVIOUS
  <1>3. ASSUME NEW q \in Requests, pc[q] # "answered", NEW s \in Nat,
               NEW c \in Companies \cup {None}, Respond(q, s, c)
        PROVE  /\ q = r
               /\ response' = [response EXCEPT ![r] = <<[status |-> s, company |-> c]>>]
    <2>1. response' = [response EXCEPT ![q] = <<[status |-> s, company |-> c]>>]
      BY <1>1, <1>3, RespondMoves
    <2>2. QED
      BY <1>1, <2>1 DEF TypeOK
  <1>4. CASE \E q \in Requests : checkCacheAndRespond(q)
    <2>1. PICK q \in Requests : checkCacheAndRespond(q)
      BY <1>4
    <2>2. pc[q] # "answered" /\ cache_key(q) \in Keys
      BY <2>1, TargetType DEF checkCacheAndRespond
    <2>3. CASE Respond(q, 400, None)
      BY <1>2, <1>3, <2>2, <2>3 DEF AnswerFrom
    <2>4. CASE /\ Cache!Look(cache_key(q), now) /\ cacheReply' # None
               /\ Respond(q, 200, cacheReply')
      <3>1. /\ cacheReply' \in Companies \cup {None}
            /\ cache[cache_key(q)] # None /\ cache[cache_key(q)].expiry > now
            /\ cacheReply' = cache[cache_key(q)].value
        BY <1>1, <2>2, <2>4, GetProperties
      <3>2. PICK c \in Companies \cup {None} : c = cacheReply' /\ Respond(q, 200, c)
        BY <2>4, <3>1
      <3>3. /\ q = r
            /\ response' = [response EXCEPT ![r] = <<[status |-> 200, company |-> c]>>]
        BY <1>3, <2>2, <3>2
      <3>4. QED
        BY <3>1, <3>2, <3>3, ZenonT(60) DEF AnswerFrom
    <2>5. QED
      BY <1>1, <2>1, <2>3, <2>4 DEF checkCacheAndRespond, Goto
  <1>5. CASE \E q \in Requests : checkSla(q) \/ checkBackend(q)
    <2>1. PICK q \in Requests : checkSla(q) \/ checkBackend(q)
      BY <1>5
    <2>2. pc[q] # "answered"
      BY <2>1 DEF checkSla, checkBackend
    <2>3. PICK s \in {404, 504} : Respond(q, s, None)
      BY <1>1, <2>1 DEF checkSla, checkBackend, Goto
    <2>4. response' = [response EXCEPT ![r] = <<[status |-> s, company |-> None]>>]
      BY <1>2, <1>3, <2>2, <2>3
    <2>5. s \in Nat /\ s # 200
      BY <2>3
    <2>6. AnswerFrom(r, s, None)
      BY <2>4, <2>5 DEF AnswerFrom
    <2>7. QED
      BY <1>2, <2>5, <2>6
  <1>6. CASE \E q \in Requests, o \in Outcomes : onComplete(q, o)
    <2>1. PICK q \in Requests, o \in Outcomes : onComplete(q, o)
      BY <1>6
    <2> DEFINE company == [id |-> id(q), backend |-> backend(q), at |-> now]
    <2>2. pc[q] = "waiting" /\ pc[q] # "answered"
      BY <2>1 DEF onComplete
    <2>3. backend(q) \in Backends /\ now \in Nat
      BY <1>1, <2>2, BackendType, BackendifyAssumption DEF Inv, BackendInv, TypeOK
    <2>4. company \in Companies
      BY <2>3, CompanyType
    <2>5. PICK rp \in completionHandler(o.ec, o.answer, idIsUtf8(q)) :
            Respond(q, rp.status, IF rp.status = 200 THEN company ELSE None)
      BY <1>1, <2>1 DEF onComplete, Goto, backend
    <2> HIDE DEF company
    <2>6. rp.status \in Nat
      BY <2>5, ReplyType
    <2>7. PICK c \in Companies \cup {None} :
            (rp.status = 200 => c = company) /\ Respond(q, rp.status, c)
      BY <2>4, <2>5
    <2>8. /\ q = r
          /\ response' = [response EXCEPT ![r] = <<[status |-> rp.status, company |-> c]>>]
      BY <1>3, <2>2, <2>6, <2>7
    <2>9. AnswerFrom(r, rp.status, c)
      BY <2>3, <2>7, <2>8 DEF company, AnswerFrom
    <2>10. QED
      BY <2>6, <2>7, <2>9
  <1>7. QED
    BY <1>1, <1>4, <1>5, <1>6
    DEF Next, Process, receive, callBackendApi, runClientSession, Goto,
        cancel_active_backend_calls, Tick, Ended, vars, requestVars

\* What is sent was received less than a Ttl ago, by whichever request.
THEOREM AnswersStayFresh == Spec => AnswersAreFresh
  <1>1. Inv /\ [Next]_vars =>
          [\A r \in Requests :
             response'[r] # response[r] /\ response'[r][1].status = 200
               => now < response'[r][1].company.at + Ttl]_vars
    <2> SUFFICES ASSUME Inv, Next, NEW r \in Requests, response'[r] # response[r],
                        response'[r][1].status = 200
                 PROVE  now < response'[r][1].company.at + Ttl
      OBVIOUS
    <2>1. TypeOK /\ cache_key(r) \in Keys
      BY TargetType DEF Inv
    <2>2. PICK s \in Nat, c \in Companies \cup {None} : AnswerFrom(r, s, c)
      BY AnswerSource
    <2>3. response'[r][1] = [status |-> s, company |-> c]
      BY <2>1, <2>2 DEF TypeOK, AnswerFrom
    <2>4. s = 200 /\ response'[r][1].company = c
      BY <2>3
    <2>5. CASE c = [id |-> id(r), backend |-> backend(r), at |-> now]
      BY <2>1, <2>4, <2>5, BackendifyAssumption DEF TypeOK
    <2>6. CASE /\ cache[cache_key(r)] # None /\ cache[cache_key(r)].expiry > now
               /\ c = cache[cache_key(r)].value
      <3>1. cache[cache_key(r)].expiry <= c.at + Ttl
        BY <2>1, <2>6 DEF Inv, FreshInv
      <3>2. cache[cache_key(r)] \in Cache!Entries
        BY <2>1, <2>6 DEF TypeOK
      <3>3. cache[cache_key(r)].expiry \in Nat /\ c.at \in Nat
        BY <2>6, <3>2 DEF Cache!Entries, Companies
      <3>4. QED
        BY <2>1, <2>4, <2>6, <3>1, <3>3, BackendifyAssumption, SMTT(30) DEF TypeOK
    <2>7. QED
      BY <2>2, <2>4, <2>5, <2>6 DEF AnswerFrom
  <1>2. QED
    BY <1>1, InitInv, NextInv, PTL DEF Spec, AnswersAreFresh

\* The shutdown finds every running call in active_client_sessions_, since a
\* session is recorded before it is run and is never taken out.
THEOREM CancelReachesAll == Spec => CancelReachesEveryCall
  <1>1. Inv /\ [Next]_vars =>
          [~shutdown /\ shutdown' =>
             {r \in Requests : call[r] = "running"} \subseteq cancelled']_vars
    <2> SUFFICES ASSUME Inv, Next, ~shutdown, shutdown'
                 PROVE  {r \in Requests : call[r] = "running"} \subseteq cancelled'
      OBVIOUS
    <2>1. cancel_active_backend_calls
      BY DEF Next, Process, receive, checkCacheAndRespond, checkSla, checkBackend,
             callBackendApi, runClientSession, onComplete, Tick, Ended, vars
    <2>2. QED
      BY <2>1 DEF cancel_active_backend_calls, Inv, RecordedInv
  <1>2. QED
    BY <1>1, InitInv, NextInv, PTL DEF Spec, CancelReachesEveryCall

-----------------------------------------------------------------------------
(* The cache key.  It is the id and the country joined by a colon, and an  *)
(* id may hold colons, so it tells two requests apart only if no country   *)
(* code has one: then the colon between the two is the last.               *)

ColonFree == \A r \in Requests : \A i \in 1 .. Len(country_iso(r)) :
               country_iso(r)[i] # ":"

\* The key of the cache, id + ":" + country, character by character.
LEMMA KeyParts ==
  ASSUME NEW r \in Requests
  PROVE  /\ Len(id(r)) \in Nat /\ Len(country_iso(r)) \in Nat
         /\ Len(cache_key(r)) = Len(id(r)) + 1 + Len(country_iso(r))
         /\ \A i \in 1 .. Len(id(r)) : cache_key(r)[i] = id(r)[i]
         /\ cache_key(r)[Len(id(r)) + 1] = ":"
         /\ \A i \in 1 .. Len(country_iso(r)) :
              cache_key(r)[Len(id(r)) + 1 + i] = country_iso(r)[i]
  <1> DEFINE a == id(r)
             c == country_iso(r)
             S == STRING \cup {":"}
  <1>1. a \in Seq(STRING) /\ c \in Seq(STRING)
    BY TargetType
  <1> HIDE DEF a, c
  <1>2. \A s \in Seq(STRING) : s \in Seq(S)
    OBVIOUS
  <1>3. ":" \in S
    OBVIOUS
  <1> HIDE DEF S
  <1>4. a \in Seq(S) /\ c \in Seq(S) /\ <<":">> \in Seq(S)
    BY <1>1, <1>2, <1>3
  <1>5. Len(a) \in Nat /\ Len(c) \in Nat /\ Len(<<":">>) = 1
    BY <1>4, LenProperties
  <1>6. /\ a \o <<":">> \in Seq(S) /\ Len(a \o <<":">>) = Len(a) + 1
        /\ \A i \in 1 .. Len(a) : (a \o <<":">>)[i] = a[i]
        /\ (a \o <<":">>)[Len(a) + 1] = ":"
    BY <1>4, <1>5, ConcatProperties
  <1>7. /\ Len(a \o <<":">> \o c) = Len(a) + 1 + Len(c)
        /\ \A i \in 1 .. Len(a) + 1 : (a \o <<":">> \o c)[i] = (a \o <<":">>)[i]
        /\ \A i \in 1 .. Len(c) : (a \o <<":">> \o c)[Len(a) + 1 + i] = c[i]
    BY <1>4, <1>5, <1>6, ConcatProperties
  <1>8. cache_key(r) = a \o <<":">> \o c
    BY DEF cache_key, a, c
  <1>9. QED
    BY <1>5, <1>6, <1>7, <1>8 DEF a, c

\* If no country holds a colon, the key determines the identifier and the
\* country: the last colon of the key is the one that was put in.
LEMMA KeyInjective ==
  ASSUME ColonFree, NEW q \in Requests, NEW r \in Requests,
         cache_key(q) = cache_key(r)
  PROVE  id(q) = id(r) /\ country_iso(q) = country_iso(r)
  <1>1. ASSUME NEW u \in Requests, NEW v \in Requests, cache_key(u) = cache_key(v)
        PROVE  Len(id(u)) <= Len(id(v))
    <2> SUFFICES ASSUME Len(id(u)) > Len(id(v)) PROVE FALSE
      BY KeyParts
    <2> DEFINE p == Len(id(u)) - Len(id(v))
    <2>1. /\ p \in 1 .. Len(country_iso(v))
          /\ Len(id(v)) + 1 + p = Len(id(u)) + 1
      BY <1>1, KeyParts, SMTT(30)
    <2>2. cache_key(v)[Len(id(u)) + 1] = country_iso(v)[p]
      BY <2>1, KeyParts
    <2>3. cache_key(v)[Len(id(u)) + 1] = ":"
      BY <1>1, KeyParts
    <2>4. QED
      BY <2>1, <2>2, <2>3 DEF ColonFree
  <1>2. /\ Len(id(q)) = Len(id(r)) /\ Len(country_iso(q)) = Len(country_iso(r))
        /\ Len(id(q)) \in Nat /\ Len(country_iso(q)) \in Nat
    BY <1>1, KeyParts
  <1>3. \A i \in 1 .. Len(id(q)) : id(q)[i] = id(r)[i]
    BY <1>2, KeyParts
  <1>4. \A i \in 1 .. Len(country_iso(q)) : country_iso(q)[i] = country_iso(r)[i]
    BY <1>2, KeyParts
  <1>5. QED
    BY <1>2, <1>3, <1>4, TargetType, SeqEqual

\* An entry of the cache belongs to every request with its key.
LEMMA KeyInvStep ==
  ASSUME ColonFree, Inv, KeyInv, [Next]_vars
  PROVE  KeyInv'
  <1>1. TypeOK
    BY DEF Inv
  <1>2. CASE \E r \in Requests : checkCacheAndRespond(r)
    <2>1. PICK r \in Requests : checkCacheAndRespond(r)
      BY <1>2
    <2>2. \A q \in Keys : cache'[q] \in {cache[q], None}
      BY <1>1, <2>1, TargetType, GetProperties DEF checkCacheAndRespond, cacheStateVars
    <2>3. QED
      BY <2>2, TargetType DEF KeyInv
  <1>3. CASE \E r \in Requests, o \in Outcomes : onComplete(r, o)
    <2>1. PICK r \in Requests, o \in Outcomes : onComplete(r, o)
      BY <1>3
    <2> DEFINE company == [id |-> id(r), backend |-> backend(r), at |-> now]
    <2>2. company \in Companies /\ cache_key(r) \in Keys
      BY <1>1, <2>1, BackendType, BackendifyAssumption, CompanyType, TargetType
      DEF onComplete, Inv, BackendInv, TypeOK
    <2>3. Cache!Put(cache_key(r), company, Ttl) \/ cache' = cache
      BY <2>1 DEF onComplete, backend, cacheStateVars
    <2> HIDE DEF company
    <2>4. CASE Cache!Put(cache_key(r), company, Ttl)
      <3>1. /\ cache'[cache_key(r)] = [value |-> company, expiry |-> now + Ttl]
            /\ \A q \in Keys : q # cache_key(r) => cache'[q] \in {cache[q], None}
        BY <1>1, <2>2, <2>4, PutProperties
      <3>2. \A q \in Requests : cache_key(q) = cache_key(r) =>
              company.id = id(q) /\ company.backend = backend(q)
        BY KeyInjective DEF company, backend
      <3>3. \A q \in Requests : cache_key(q) \in Keys
        BY TargetType
      <3>4. SUFFICES ASSUME NEW q \in Requests, cache'[cache_key(q)] # None
                     PROVE  /\ cache'[cache_key(q)].value.id = id(q)
                            /\ cache'[cache_key(q)].value.backend = backend(q)
        BY DEF KeyInv
      <3>5. CASE cache_key(q) = cache_key(r)
        BY <3>1, <3>2, <3>5
      <3>6. CASE cache_key(q) # cache_key(r)
        BY <3>1, <3>3, <3>4, <3>6 DEF KeyInv
      <3>7. QED
        BY <3>5, <3>6
    <2>5. CASE cache' = cache
      BY <2>5 DEF KeyInv
    <2>6. QED
      BY <2>3, <2>4, <2>5
  <1>4. CASE cache' = cache
    BY <1>4 DEF KeyInv
  <1>5. QED
    BY <1>2, <1>3, <1>4
    DEF Next, Process, receive, checkSla, checkBackend, callBackendApi,
        runClientSession, cancel_active_backend_calls, Tick, Ended, vars,
        cacheStateVars

\* Every company sent with status 200 is the one its request asked for, from
\* the backend of its country, whichever requests filled the cache before.
THEOREM AnswersAreForTheirRequests ==
  ASSUME ColonFree
  PROVE  Spec => []AnswerIsForRequest
  <1> DEFINE J == Inv /\ KeyInv /\ AnswerIsForRequest
  <1>1. Init => J
    <2> SUFFICES ASSUME Init PROVE KeyInv /\ AnswerIsForRequest
      BY InitInv
    <2>1. KeyInv
      BY TargetType DEF Init, Cache!StoreInit, KeyInv
    <2>2. AnswerIsForRequest
      BY DEF Init, AnswerIsForRequest
    <2>3. QED
      BY <2>1, <2>2
  <1>2. J /\ [Next]_vars => J'
    <2> SUFFICES ASSUME Inv, KeyInv, AnswerIsForRequest, [Next]_vars
                 PROVE  AnswerIsForRequest'
      BY NextInv, KeyInvStep
    <2> SUFFICES ASSUME NEW r \in Requests, NEW i \in 1 .. Len(response'[r]),
                        response'[r][i].status = 200
                 PROVE  /\ response'[r][i].company.id = id(r)
                        /\ response'[r][i].company.backend = backend(r)
      BY DEF AnswerIsForRequest, backend
    <2>1. CASE response'[r] = response[r]
      BY <2>1 DEF AnswerIsForRequest, backend
    <2>2. CASE response'[r] # response[r]
      <3>1. Next
        BY <2>2 DEF vars, requestVars
      <3>2. PICK s \in Nat, c \in Companies \cup {None} : AnswerFrom(r, s, c)
        BY <2>2, <3>1, AnswerSource
      <3>3. response'[r] = <<[status |-> s, company |-> c]>>
        BY <3>2 DEF AnswerFrom, Inv, TypeOK
      <3>4. i = 1
        BY <3>3
      <3>5. s = 200 /\ response'[r][i].company = c
        BY <3>3, <3>4
      <3>6. QED
        BY <3>2, <3>5 DEF AnswerFrom, KeyInv
    <2>3. QED
      BY <2>1, <2>2
  <1>3. QED
    BY <1>1, <1>2, PTL DEF Spec

-----------------------------------------------------------------------------
(* The well-formed answers.                                                *)

\* A date of the future is in the future, a date of the past is not.
LEMMA DateInFuture ==
  /\ isUTCTimeInFuture("future") = {"yes"}
  /\ isUTCTimeInFuture("past") = {"no"}
  BY DEF isUTCTimeInFuture

\* A well-formed answer is parsed to its end.
LEMMA RecognizedIsParsed ==
  ASSUME NEW a, Recognized(a)
  PROVE  parseBackendResponse(a)
           = [version |-> IF a.content_type = "v1" THEN 1 ELSE 2, parse_success |-> TRUE,
              name |-> a.name, second |-> a.second,
              end |-> IF a.end = "absent" THEN "unset" ELSE a.end]
  <1>1. /\ a.body = "object" /\ a.content_type # "other" /\ a.name = "text"
        /\ a.second \notin {"not_a_string", "absent"} /\ a.end # "not_a_string"
    BY DEF Recognized, Dates, Strings
  <1>2. QED
    BY <1>1 DEF parseBackendResponse, NoInfo, value

\* A well-formed answer gives its company.
LEMMA RecognizedIsFaithful ==
  ASSUME NEW a, Recognized(a), NotEpoch(a)
  PROVE  handle200(a, TRUE) = {[status |-> 200, trips |-> FALSE, company |-> Expected(a)]}
  <1> DEFINE until == IF a.end = "absent" THEN "unset" ELSE a.end
             v == IF a.content_type = "v1" THEN 1 ELSE 2
             info == [version |-> v, parse_success |-> TRUE,
                      name |-> a.name, second |-> a.second, end |-> until]
             Sent(c) == IF c.throws \/ ~TRUE THEN Reply(0, FALSE)
                        ELSE [status |-> 200, trips |-> FALSE, company |-> c]
  <1>1. parseBackendResponse(a) = info
    BY RecognizedIsParsed
  <1>2. a.end \in {"absent", "past", "future"} /\ a.content_type \in {"v1", "v2"}
    BY DEF Recognized, NotEpoch, Dates
  <1>3. CASE a.content_type = "v1"
    <2>1. a.second \in {"past", "future"}
      BY <1>3 DEF Recognized, NotEpoch, Dates
    <2>2. constructV1Json(info) = {Expected(a)}
      <3>1. CASE a.end = "absent"
        BY <1>3, <2>1, <3>1, DateInFuture DEF constructV1Json, Expected, Given, Company
      <3>2. CASE a.end = "past"
        BY <1>3, <2>1, <3>2, DateInFuture DEF constructV1Json, Expected, Given, Company
      <3>3. CASE a.end = "future"
        BY <1>3, <2>1, <3>3, DateInFuture DEF constructV1Json, Expected, Given, Company
      <3>4. QED
        BY <1>2, <3>1, <3>2, <3>3
    <2>3. ~Expected(a).throws
      BY DEF Expected, Company
    <2>4. info.version = 1 /\ info.parse_success
      BY <1>3
    <2> HIDE DEF info
    <2>5. handle200(a, TRUE) = {Sent(c) : c \in constructV1Json(info)}
      BY <1>1, <2>4 DEF handle200
    <2>6. Sent(Expected(a)) = [status |-> 200, trips |-> FALSE, company |-> Expected(a)]
      BY <2>3
    <2> HIDE DEF Sent
    <2>7. \A x : {Sent(c) : c \in {x}} = {Sent(x)}
      OBVIOUS
    <2>8. QED
      BY <2>2, <2>5, <2>6, <2>7, Zenon
  <1>4. CASE a.content_type = "v2"
    <2>2. constructV2Json(info) = {Expected(a)}
      <3>1. CASE a.end = "absent"
        BY <1>4, <3>1, DateInFuture DEF constructV2Json, Expected, Given, Company
      <3>2. CASE a.end = "past"
        BY <1>4, <3>2, DateInFuture DEF constructV2Json, Expected, Given, Company
      <3>3. CASE a.end = "future"
        BY <1>4, <3>3, DateInFuture DEF constructV2Json, Expected, Given, Company
      <3>4. QED
        BY <1>2, <3>1, <3>2, <3>3
    <2>3. ~Expected(a).throws
      BY DEF Expected, Company
    <2>4. info.version = 2 /\ info.parse_success
      BY <1>4
    <2> HIDE DEF info
    <2>5. handle200(a, TRUE) = {Sent(c) : c \in constructV2Json(info)}
      BY <1>1, <2>4 DEF handle200
    <2>6. Sent(Expected(a)) = [status |-> 200, trips |-> FALSE, company |-> Expected(a)]
      BY <2>3
    <2> HIDE DEF Sent
    <2>7. \A x : {Sent(c) : c \in {x}} = {Sent(x)}
      OBVIOUS
    <2>8. QED
      BY <2>2, <2>5, <2>6, <2>7, Zenon
  <1>5. QED
    BY <1>2, <1>3, <1>4

\* The answers of the prototype backend are well-formed.
LEMMA BackendIsRecognized ==
  ASSUME NEW i \in Backend!KnownCompanies
  PROVE  /\ Backend!companies(i).status = 200
         /\ Recognized(Backend!companies(i)) /\ NotEpoch(Backend!companies(i))
  <1>1. \A t \in {"v1", "v2"}, e \in {"absent", "past", "future"} :
          LET a == Backend!Company_(t, "past", e)
          IN a.status = 200 /\ Recognized(a) /\ NotEpoch(a)
    BY DEF Backend!Company_, Recognized, NotEpoch, Dates, Strings
  <1>2. \E t \in {"v1", "v2"}, e \in {"absent", "past", "future"} :
          Backend!companies(i) = Backend!Company_(t, "past", e)
    BY DEF Backend!companies, Backend!KnownCompanies
  <1>3. QED
    BY <1>1, <1>2

-----------------------------------------------------------------------------
(* The pieces of a query.                                                  *)

\* There is no c in the positions from i to j.
Clear(q, c, i, j) == \A h \in i .. j : q[h] # c

\* Where the first '&' of a sequence is.
LEMMA FirstAmpersand ==
  ASSUME NEW C, NEW s \in Seq(C)
  PROVE  /\ Clear(s, "&", 1, Len(s)) => SelectInSeq(s, LAMBDA c : c = "&") = 0
         /\ \A m \in 1 .. Len(s) :
              s[m] = "&" /\ Clear(s, "&", 1, m - 1) => SelectInSeq(s, LAMBDA c : c = "&") = m
  <1> DEFINE I == {i \in 1 .. Len(s) : s[i] = "&"}
  <1>1. SelectInSeq(s, LAMBDA c : c = "&") = IF I # {} THEN Min(I) ELSE 0
    BY DEF SelectInSeq
  <1>2. Clear(s, "&", 1, Len(s)) => I = {}
    BY DEF Clear
  <1>3. ASSUME NEW m \in 1 .. Len(s), s[m] = "&", Clear(s, "&", 1, m - 1)
        PROVE  Min(I) = m /\ I # {}
    <2>1. I \in SUBSET Int /\ m \in I /\ \A i \in I : m <= i
      BY <1>3 DEF Clear
    <2> HIDE DEF I
    <2>2. QED
      BY <2>1, MinIs
  <1>4. QED
    BY <1>1, <1>2, <1>3

\* Where the first '=' of a sequence is.
LEMMA FirstEquals ==
  ASSUME NEW C, NEW s \in Seq(C)
  PROVE  /\ Clear(s, "=", 1, Len(s)) => Equals(s) = 0
         /\ \A m \in 1 .. Len(s) :
              s[m] = "=" /\ Clear(s, "=", 1, m - 1) => Equals(s) = m
  <1> DEFINE I == {i \in 1 .. Len(s) : s[i] = "="}
  <1>1. Equals(s) = IF I # {} THEN Min(I) ELSE 0
    BY DEF SelectInSeq, Equals
  <1>2. Clear(s, "=", 1, Len(s)) => I = {}
    BY DEF Clear
  <1>3. ASSUME NEW m \in 1 .. Len(s), s[m] = "=", Clear(s, "=", 1, m - 1)
        PROVE  Min(I) = m /\ I # {}
    <2>1. I \in SUBSET Int /\ m \in I /\ \A i \in I : m <= i
      BY <1>3 DEF Clear
    <2> HIDE DEF I
    <2>2. QED
      BY <2>1, MinIs
  <1>4. QED
    BY <1>1, <1>2, <1>3

\* A piece ends before the next '&', or with the query.
LEMMA PieceIs ==
  ASSUME NEW C, NEW q \in Seq(C), NEW s \in 0 .. Len(q), NEW n \in s .. Len(q),
         Clear(q, "&", s + 1, n), n = Len(q) \/ q[n + 1] = "&"
  PROVE  Piece(q, s) = SubSeq(q, s + 1, n)
  <1> DEFINE rest == SubSeq(q, s + 1, Len(q))
             end == SelectInSeq(rest, LAMBDA c : c = "&")
  <1>0. PICK N \in Nat : N = Len(q)
    OBVIOUS
  <1>1. rest \in Seq(C) /\ Len(rest) = N - s /\ \A i \in 1 .. N - s : rest[i] = q[s + i]
    BY <1>0, PartOf, SMTT(30)
  <1>2. Piece(q, s) = IF end = 0 THEN rest ELSE SubSeq(rest, 1, end - 1)
    BY DEF Piece
  <1>3. CASE n = N
    <2>1. \A i \in 1 .. N - s : s + i \in s + 1 .. N
      BY <1>0
    <2>2. Clear(rest, "&", 1, Len(rest))
      BY <1>0, <1>1, <1>3, <2>1 DEF Clear
    <2> HIDE DEF rest
    <2>3. end = 0
      BY <1>1, <2>2, FirstAmpersand
    <2> HIDE DEF end
    <2>4. QED
      BY <1>0, <1>2, <1>3, <2>3 DEF rest
  <1>4. CASE n # N
    <2> DEFINE m == n + 1 - s
    <2>1. m \in 1 .. N - s /\ s + m = n + 1 /\ \A i \in 1 .. m - 1 : s + i \in s + 1 .. n /\ i \in 1 .. N - s
      BY <1>0, <1>4
    <2>2. rest[m] = "&" /\ Clear(rest, "&", 1, m - 1)
      BY <1>0, <1>1, <1>4, <2>1 DEF Clear
    <2> HIDE DEF rest
    <2>3. end = m
      <3> HIDE DEF m
      <3>1. QED
        BY <1>1, <2>1, <2>2, FirstAmpersand
    <2> HIDE DEF end
    <2>4. Piece(q, s) = SubSeq(rest, 0 + 1, n - s)
      BY <1>0, <1>2, <2>1, <2>3
    <2>5. SubSeq(rest, 0 + 1, n - s) = SubSeq(q, s + 0 + 1, s + (n - s))
      <3>1. N \in s .. Len(q) /\ 0 \in 0 .. N - s /\ n - s \in 0 .. N - s
        BY <1>0
      <3>2. QED
        BY <1>0, <3>1, PartOfPart DEF rest
    <2>6. s + 0 + 1 = s + 1 /\ s + (n - s) = n
      BY <1>0
    <2>7. QED
      BY <2>4, <2>5, <2>6
  <1>5. QED
    BY <1>3, <1>4

\* Every piece ends somewhere.
LEMMA PieceEnds ==
  ASSUME NEW C, NEW q \in Seq(C), NEW s \in 0 .. Len(q)
  PROVE  \E n \in s .. Len(q) :
           Clear(q, "&", s + 1, n) /\ (n = Len(q) \/ q[n + 1] = "&")
  <1>0. PICK N \in Nat : N = Len(q)
    OBVIOUS
  <1> DEFINE T == {n \in s .. N : n = N \/ q[n + 1] = "&"}
  <1>1. T \in SUBSET Nat /\ N \in T
    BY <1>0
  <1>2. PICK n \in T : \A m \in T : n <= m
    <2> HIDE DEF T
    <2>1. T # {}
      BY <1>1
    <2>2. QED
      BY <1>1, <2>1, LeastNumber
  <1>3. ASSUME NEW h \in s + 1 .. n
        PROVE  q[h] # "&"
    <2>1. h - 1 \in s .. N /\ h - 1 < n /\ h - 1 + 1 = h
      BY <1>0, <1>2
    <2>2. h - 1 \notin T
      <3> HIDE DEF T
      <3>1. n \in Nat /\ ~(n <= h - 1)
        BY <1>1, <1>2, <2>1
      <3>2. QED
        BY <1>2, <3>1
    <2>3. QED
      BY <2>1, <2>2
  <1>4. QED
    BY <1>0, <1>2, <1>3 DEF Clear

\* What a piece without '=' is, and one with '=' at position m.
LEMMA PieceWithoutEquals ==
  ASSUME NEW C, NEW q \in Seq(C), NEW s \in 0 .. Len(q), NEW n \in s .. Len(q),
         Clear(q, "=", s + 1, n)
  PROVE  LET p == SubSeq(q, s + 1, n)
         IN Equals(p) = 0 /\ KeyOf(p) = urlDecode(p) /\ ValueOf(p) = <<>>
  <1> DEFINE p == SubSeq(q, s + 1, n)
  <1>1. p \in Seq(C) /\ Len(p) = n - s /\ \A i \in 1 .. n - s : p[i] = q[s + i]
    BY PartOf
  <1>2. Len(q) \in Nat /\ \A i \in 1 .. n - s : s + i \in s + 1 .. n
    OBVIOUS
  <1>3. Clear(p, "=", 1, Len(p))
    BY <1>1, <1>2 DEF Clear
  <1> HIDE DEF p
  <1>4. Equals(p) = 0
    BY <1>1, <1>3, FirstEquals
  <1>5. QED
    BY <1>4 DEF KeyOf, ValueOf, p

\* What a piece with one '=', at position m of the query, is.
LEMMA PieceWithEquals ==
  ASSUME NEW C, NEW q \in Seq(C), NEW s \in 0 .. Len(q), NEW n \in s .. Len(q),
         NEW m \in s + 1 .. n, q[m] = "=", Clear(q, "=", s + 1, m - 1)
  PROVE  LET p == SubSeq(q, s + 1, n)
         IN /\ Equals(p) # 0
            /\ KeyOf(p) = urlDecode(SubSeq(q, s + 1, m - 1))
            /\ ValueOf(p) = urlDecode(SubSeq(q, m + 1, n))
  <1> DEFINE p == SubSeq(q, s + 1, n)
             e == m - s
  <1>0. PICK N \in Nat : N = Len(q)
    OBVIOUS
  <1>1. p \in Seq(C) /\ Len(p) = n - s /\ \A i \in 1 .. n - s : p[i] = q[s + i]
    BY PartOf
  <1>2. /\ e \in 1 .. n - s /\ s + e = m /\ n - s \in Nat
        /\ \A i \in 1 .. e - 1 : s + i \in s + 1 .. m - 1 /\ i \in 1 .. n - s
    BY <1>0
  <1>3. p[e] = "=" /\ Clear(p, "=", 1, e - 1)
    BY <1>1, <1>2 DEF Clear
  <1>4. Equals(p) = e
    <2> HIDE DEF p, e
    <2>1. QED
      BY <1>1, <1>2, <1>3, FirstEquals
  <1>5. SubSeq(p, 0 + 1, e - 1) = SubSeq(q, s + 0 + 1, s + (e - 1))
    <2>1. 0 \in 0 .. n - s /\ e - 1 \in 0 .. n - s
      BY <1>2
    <2>2. QED
      BY <2>1, PartOfPart
  <1>6. SubSeq(p, e + 1, n - s) = SubSeq(q, s + e + 1, s + (n - s))
    <2>1. e \in 0 .. n - s /\ n - s \in e .. n - s
      BY <1>2
    <2>2. QED
      BY <2>1, PartOfPart
  <1>7. s + 0 + 1 = s + 1 /\ 0 + 1 = 1 /\ s + (e - 1) = m - 1 /\ s + e + 1 = m + 1 /\ s + (n - s) = n
    BY <1>0
  <1>8. e # 0
    BY <1>2
  <1> HIDE DEF p, e
  <1>9. KeyOf(p) = urlDecode(SubSeq(q, s + 1, m - 1))
    BY <1>4, <1>5, <1>7, <1>8 DEF KeyOf
  <1>10. ValueOf(p) = urlDecode(SubSeq(q, m + 1, n))
    BY <1>1, <1>4, <1>6, <1>7, <1>8 DEF ValueOf
  <1>11. QED
    BY <1>4, <1>8, <1>9, <1>10 DEF p

-----------------------------------------------------------------------------
(* The loop over the query.                                                *)

Decoded(C) == C \cup {"&", " "}
Params(C) == UNION {[D -> Seq(Decoded(C))] : D \in SUBSET Seq(Decoded(C))}
QueryStates(C) ==
  [params : Params(C), current_param : Seq(C), key : Seq(Decoded(C)),
   parsing_key : BOOLEAN]

\* urlDecode yields as many characters as it is given.
LEMMA DecodeType ==
  ASSUME NEW C, NEW s \in Seq(C)
  PROVE  urlDecode(s) \in Seq(Decoded(C)) /\ Len(urlDecode(s)) = Len(s)
  <1>1. \A i \in 1 .. Len(s) : s[i] \in C
    OBVIOUS
  <1> DEFINE d(i) == CASE s[i] = "%26" -> "&"
                       [] s[i] = "+" -> " "
                       [] OTHER -> s[i]
  <1>2. \A i \in 1 .. Len(s) : d(i) \in Decoded(C)
    BY <1>1 DEF Decoded
  <1>3. urlDecode(s) = [i \in 1 .. Len(s) |-> d(i)] /\ Len(s) \in Nat
    BY LenProperties DEF urlDecode
  <1> HIDE DEF d
  <1>4. QED
    BY <1>2, <1>3

\* Nothing decodes to nothing, and only nothing.
LEMMA DecodeEmpty ==
  ASSUME NEW C, NEW s \in Seq(C)
  PROVE  urlDecode(s) = <<>> <=> s = <<>>
  <1>1. urlDecode(s) \in Seq(Decoded(C)) /\ Len(urlDecode(s)) = Len(s)
    BY DecodeType
  <1>2. QED
    BY <1>1, EmptySeq

\* Q is P with the value v for the key k, unless k is empty.
IsStored(Q, P, k, v) ==
  /\ k = <<>> => Q = P
  /\ k # <<>> => /\ DOMAIN Q = DOMAIN P \cup {k}
                 /\ Q[k] = v
                 /\ \A j \in DOMAIN P : j # k => Q[j] = P[j]

\* A parameter is stored unless its key is empty, and no other is touched.
LEMMA StoreProperties ==
  ASSUME NEW C, NEW P \in Params(C), NEW k \in Seq(Decoded(C)), NEW v \in Seq(Decoded(C))
  PROVE  Store(P, k, v) \in Params(C) /\ IsStored(Store(P, k, v), P, k, v)
  <1> DEFINE V == Seq(Decoded(C))
             Q == [j \in DOMAIN P \cup {k} |-> IF j = k THEN v ELSE P[j]]
  <1>1. PICK D \in SUBSET V : P \in [D -> V]
    BY DEF Params
  <1>2. k # <<>> => Store(P, k, v) = Q
    BY DEF Store
  <1>3. DOMAIN P = D /\ D \cup {k} \in SUBSET V /\ Q \in [D \cup {k} -> V]
    BY <1>1
  <1>4. Q \in Params(C)
    BY <1>3 DEF Params
  <1>5. k = <<>> => Store(P, k, v) = P
    BY DEF Store
  <1>6. k # <<>> => IsStored(Q, P, k, v)
    BY DEF IsStored
  <1>7. k = <<>> => IsStored(P, P, k, v)
    BY DEF IsStored
  <1> HIDE DEF Q
  <1>8. QED
    BY <1>2, <1>4, <1>5, <1>6, <1>7

\* Reading starts with no parameter.
LEMMA NewQueryType ==
  ASSUME NEW C
  PROVE  NewQuery \in QueryStates(C)
  <1>1. NoParams \in [{} -> Seq(Decoded(C))]
    BY DEF NoParams
  <1>2. NoParams \in Params(C)
    BY <1>1 DEF Params
  <1>3. <<>> \in Seq(C) /\ <<>> \in Seq(Decoded(C))
    OBVIOUS
  <1>4. QED
    BY <1>2, <1>3 DEF NewQuery, QueryStates

\* What one character does.
LEMMA NextCharCases ==
  ASSUME NEW C, NEW st \in QueryStates(C), NEW c \in C
  PROVE  /\ nextChar(st, c) \in QueryStates(C)
         /\ c = "=" => nextChar(st, c) =
              [params |-> st.params, current_param |-> <<>>,
               key |-> urlDecode(st.current_param), parsing_key |-> FALSE]
         /\ c = "&" => nextChar(st, c) =
              [params |-> Store(st.params, st.key, urlDecode(st.current_param)),
               current_param |-> <<>>, key |-> <<>>, parsing_key |-> TRUE]
         /\ c \notin {"=", "&"} => nextChar(st, c) =
              [params |-> st.params, current_param |-> Append(st.current_param, c),
               key |-> st.key, parsing_key |-> st.parsing_key]
  <1>1. /\ st.params \in Params(C) /\ st.current_param \in Seq(C)
        /\ st.key \in Seq(Decoded(C)) /\ st.parsing_key \in BOOLEAN
        /\ st = [params |-> st.params, current_param |-> st.current_param, key |-> st.key,
                 parsing_key |-> st.parsing_key]
    BY DEF QueryStates
  <1>2. urlDecode(st.current_param) \in Seq(Decoded(C))
    BY <1>1, DecodeType
  <1>3. Store(st.params, st.key, urlDecode(st.current_param)) \in Params(C)
    BY <1>1, <1>2, StoreProperties
  <1>4. /\ <<>> \in Seq(C) /\ <<>> \in Seq(Decoded(C))
        /\ Append(st.current_param, c) \in Seq(C)
    BY <1>1
  <1>5. CASE c = "="
    <2>1. nextChar(st, c) =
              [params |-> st.params, current_param |-> <<>>,
               key |-> urlDecode(st.current_param), parsing_key |-> FALSE]
      BY <1>1, <1>5 DEF nextChar
    <2>2. nextChar(st, c) \in QueryStates(C)
      BY <1>1, <1>2, <1>4, <2>1 DEF QueryStates
    <2>3. c # "&" /\ c \in {"=", "&"}
      BY <1>5
    <2>4. QED
      BY <2>1, <2>2, <2>3, Zenon
  <1>6. CASE c = "&"
    <2>1. nextChar(st, c) =
              [params |-> Store(st.params, st.key, urlDecode(st.current_param)),
               current_param |-> <<>>, key |-> <<>>, parsing_key |-> TRUE]
      BY <1>6 DEF nextChar, NewQuery
    <2>2. nextChar(st, c) \in QueryStates(C)
      BY <1>3, <1>4, <2>1 DEF QueryStates
    <2>3. c # "=" /\ c \in {"=", "&"}
      BY <1>6
    <2>4. QED
      BY <2>1, <2>2, <2>3, Zenon
  <1>7. CASE c \notin {"=", "&"}
    <2>1. nextChar(st, c) =
              [params |-> st.params, current_param |-> Append(st.current_param, c),
               key |-> st.key, parsing_key |-> st.parsing_key]
      BY <1>1, <1>7 DEF nextChar
    <2>2. QED
      BY <1>1, <1>4, <1>7, <2>1 DEF QueryStates
  <1>8. QED
    BY <1>5, <1>6, <1>7

\* After n characters the piece that starts behind s is being read.
InKey(q, s, n, st) ==
  /\ Clear(q, "=", s + 1, n) /\ st.key = <<>> /\ st.parsing_key
  /\ st.current_param = SubSeq(q, s + 1, n)
InValue(q, s, n, st, m) ==
  /\ q[m] = "=" /\ Clear(q, "=", s + 1, m - 1) /\ ~st.parsing_key
  /\ st.key = urlDecode(SubSeq(q, s + 1, m - 1))
  /\ st.current_param = SubSeq(q, m + 1, n)
Reading(q, s, n, st) ==
  /\ s \in Starts(q) /\ Clear(q, "&", s + 1, n)
  /\ InKey(q, s, n, st) \/ \E m \in s + 1 .. n : InValue(q, s, n, st, m)

\* The parameters of the pieces before s, and no other, have been stored.
HasEquals(q, i) == Equals(Piece(q, i)) # 0
Stored(q, s, P) ==
  /\ \A i \in Starts(q) :
       i < s /\ HasEquals(q, i) /\ KeyOf(Piece(q, i)) # <<>>
         => /\ KeyOf(Piece(q, i)) \in DOMAIN P
            /\ P[KeyOf(Piece(q, i))] = ValueOf(Piece(q, i))
  /\ \A k \in DOMAIN P :
       \E i \in Starts(q) : i < s /\ HasEquals(q, i) /\ KeyOf(Piece(q, i)) = k

\* The piece being read, once it has ended: its key and its value are those of
\* the state.
LEMMA PieceRead ==
  ASSUME NEW C, NEW q \in Seq(C), NEW n \in 0 .. Len(q), NEW s \in 0 .. n,
         NEW st \in QueryStates(C), Reading(q, s, n, st),
         n = Len(q) \/ q[n + 1] = "&"
  PROVE  /\ InKey(q, s, n, st) =>
              /\ ~HasEquals(q, s) /\ ValueOf(Piece(q, s)) = <<>>
              /\ KeyOf(Piece(q, s)) = urlDecode(st.current_param)
         /\ \A m \in s + 1 .. n : InValue(q, s, n, st, m) =>
              /\ HasEquals(q, s) /\ KeyOf(Piece(q, s)) = st.key
              /\ ValueOf(Piece(q, s)) = urlDecode(st.current_param)
  <1>1. Len(q) \in Nat /\ s \in 0 .. Len(q) /\ n \in s .. Len(q)
    OBVIOUS
  <1>2. Piece(q, s) = SubSeq(q, s + 1, n)
    BY <1>1, PieceIs DEF Reading
  <1>3. ASSUME InKey(q, s, n, st)
        PROVE  /\ ~HasEquals(q, s) /\ ValueOf(Piece(q, s)) = <<>>
               /\ KeyOf(Piece(q, s)) = urlDecode(st.current_param)
    BY <1>1, <1>2, <1>3, PieceWithoutEquals DEF InKey, HasEquals
  <1>4. ASSUME NEW m \in s + 1 .. n, InValue(q, s, n, st, m)
        PROVE  /\ HasEquals(q, s) /\ KeyOf(Piece(q, s)) = st.key
               /\ ValueOf(Piece(q, s)) = urlDecode(st.current_param)
    BY <1>1, <1>2, <1>4, PieceWithEquals DEF InValue, HasEquals
  <1>5. QED
    BY <1>3, <1>4

\* A usual query has no second '=' in a piece.
LEMMA NoSecondEquals ==
  ASSUME NEW C, NEW q \in Seq(C), Usual(q), NEW n \in 1 .. Len(q), NEW s \in 0 .. n - 1,
         s \in Starts(q), Clear(q, "&", s + 1, n), q[n] = "=",
         NEW m \in s + 1 .. n - 1
  PROVE  q[m] # "="
  <1>0. PICK N \in Nat : N = Len(q)
    OBVIOUS
  <1>1. PICK e \in s .. N : Clear(q, "&", s + 1, e) /\ (e = N \/ q[e + 1] = "&")
    <2>1. s \in 0 .. Len(q)
      BY <1>0
    <2>2. QED
      BY <1>0, <2>1, PieceEnds
  <1>2. n <= e
    <2> SUFFICES ASSUME ~(n <= e) PROVE FALSE
      OBVIOUS
    <2>1. e + 1 \in s + 1 .. n /\ e # N
      BY <1>0, <1>1
    <2>2. QED
      BY <1>1, <2>1 DEF Clear
  <1> DEFINE p == SubSeq(q, s + 1, e)
  <1>3. Piece(q, s) = p
    <2>1. s \in 0 .. Len(q) /\ e \in s .. Len(q)
      BY <1>0, <1>1
    <2>2. QED
      BY <1>0, <1>1, <2>1, PieceIs
  <1>4. p \in Seq(C) /\ Len(p) = e - s /\ \A i \in 1 .. e - s : p[i] = q[s + i]
    <2>1. s \in 0 .. Len(q) /\ e \in s .. Len(q)
      BY <1>0, <1>1
    <2>2. QED
      BY <2>1, PartOf
  <1>5. p \in Pieces(q)
    BY <1>3 DEF Pieces
  <1> HIDE DEF p
  <1>6. \A i, j \in 1 .. e - s : p[i] = "=" /\ p[j] = "=" => i = j
    BY <1>4, <1>5, LenProperties DEF Usual
  <1>7. /\ m - s \in 1 .. e - s /\ n - s \in 1 .. e - s /\ m - s # n - s
        /\ s + (m - s) = m /\ s + (n - s) = n
    BY <1>0, <1>1, <1>2
  <1>8. p[m - s] = q[m] /\ p[n - s] = q[n]
    BY <1>4, <1>7
  <1>9. QED
    BY <1>6, <1>7, <1>8

\* The starts before n, when the piece before n starts behind s.
LEMMA StartsBefore ==
  ASSUME NEW C, NEW q \in Seq(C), NEW n \in 0 .. Len(q), NEW s \in 0 .. n,
         Clear(q, "&", s + 1, n), NEW i \in Starts(q), i <= n
  PROVE  i \in Nat /\ i <= s
  <1>1. i \in Nat /\ i <= Len(q) /\ (i = 0 \/ q[i] = "&")
    BY LenProperties DEF Starts
  <1>2. ~(i \in s + 1 .. n)
    BY <1>1 DEF Clear
  <1>3. QED
    BY <1>1, <1>2

\* At the end of a piece its parameter is stored.
LEMMA StoredAtEnd ==
  ASSUME NEW C, NEW q \in Seq(C), Usual(q), NEW n \in 1 .. Len(q), NEW s \in 0 .. n - 1,
         NEW st \in QueryStates(C), Reading(q, s, n - 1, st), Stored(q, s, st.params),
         q[n] = "&"
  PROVE  Stored(q, n, Store(st.params, st.key, urlDecode(st.current_param)))
  <1> DEFINE P == st.params
             v == urlDecode(st.current_param)
             Q == Store(P, st.key, v)
             K(i) == KeyOf(Piece(q, i))
             V(i) == ValueOf(Piece(q, i))
  <1>1. /\ P \in Params(C) /\ st.key \in Seq(Decoded(C)) /\ v \in Seq(Decoded(C))
    BY DecodeType DEF QueryStates
  <1>2. /\ st.key = <<>> => Q = P
        /\ st.key # <<>> => /\ DOMAIN Q = DOMAIN P \cup {st.key} /\ Q[st.key] = v
                            /\ \A j \in DOMAIN P : j # st.key => Q[j] = P[j]
    <2>1. IsStored(Q, P, st.key, v)
      <3> HIDE DEF P, v
      <3>1. QED
        BY <1>1, StoreProperties
    <2> HIDE DEF Q, P, v
    <2>2. QED
      BY <2>1 DEF IsStored
  <1>3. /\ Len(q) \in Nat /\ n - 1 \in 0 .. Len(q) /\ s \in 0 .. n - 1 /\ n - 1 + 1 = n
        /\ s \in Starts(q) /\ Clear(q, "&", s + 1, n - 1)
    BY DEF Reading
  <1>4. \A i \in Starts(q) : i < n => i \in Nat /\ (i < s \/ i = s)
    <2> SUFFICES ASSUME NEW i \in Starts(q), i < n
                 PROVE  i \in Nat /\ (i < s \/ i = s)
      OBVIOUS
    <2>1. i \in Int
      BY <1>3, LenProperties DEF Starts
    <2>2. i <= n - 1
      BY <1>3, <2>1
    <2>3. i \in Nat /\ i <= s
      BY <1>3, <2>2, StartsBefore
    <2>4. QED
      BY <1>3, <2>3
  <1>5. \A i \in Starts(q) : i < s => K(i) # K(s) /\ i < n
    <2> SUFFICES ASSUME NEW i \in Starts(q), i < s
                 PROVE  K(i) # K(s) /\ i < n
      OBVIOUS
    <2>1. i \in Int
      BY <1>3, LenProperties DEF Starts
    <2>2. i # s /\ i < n
      BY <1>3, <2>1
    <2>3. QED
      BY <1>3, <2>2 DEF Usual
  <1>6. /\ InKey(q, s, n - 1, st) => ~HasEquals(q, s)
        /\ \A m \in s + 1 .. n - 1 : InValue(q, s, n - 1, st, m) =>
             HasEquals(q, s) /\ K(s) = st.key /\ V(s) = v
    BY <1>3, PieceRead
  <1>7. s < n
    BY <1>3
  <1>8. /\ InKey(q, s, n - 1, st) => st.key = <<>>
        /\ InKey(q, s, n - 1, st) \/ \E m \in s + 1 .. n - 1 : InValue(q, s, n - 1, st, m)
    BY DEF InKey, Reading
  <1>9. /\ \A i \in Starts(q) :
            i < s /\ HasEquals(q, i) /\ K(i) # <<>> => K(i) \in DOMAIN P /\ P[K(i)] = V(i)
        /\ \A k \in DOMAIN P : \E i \in Starts(q) : i < s /\ HasEquals(q, i) /\ K(i) = k
    BY DEF Stored
  <1> HIDE DEF K, V, Q, P, v
  <1>10. /\ \A i \in Starts(q) :
            i < n /\ HasEquals(q, i) /\ K(i) # <<>> => K(i) \in DOMAIN Q /\ Q[K(i)] = V(i)
         /\ \A k \in DOMAIN Q : \E i \in Starts(q) : i < n /\ HasEquals(q, i) /\ K(i) = k
    <2>1. CASE InKey(q, s, n - 1, st)
      <3>1. Q = P /\ ~HasEquals(q, s)
        BY <1>2, <1>6, <1>8, <2>1
      <3>2. QED
        BY <1>4, <1>5, <1>9, <3>1, Zenon
    <2>2. CASE ~InKey(q, s, n - 1, st)
      <3>1. HasEquals(q, s) /\ K(s) = st.key /\ V(s) = v
        BY <1>6, <1>8, <2>2, Zenon
      <3>2. CASE st.key = <<>>
        <4>1. Q = P /\ K(s) = <<>>
          BY <1>2, <3>1, <3>2
        <4>2. QED
          BY <1>4, <1>5, <1>9, <4>1, Zenon
      <3>3. CASE st.key # <<>>
        <4>1. /\ DOMAIN Q = DOMAIN P \cup {K(s)} /\ Q[K(s)] = V(s)
              /\ \A j \in DOMAIN P : j # K(s) => Q[j] = P[j]
          BY <1>2, <3>1, <3>3
        <4>2. ASSUME NEW i \in Starts(q), i < n, HasEquals(q, i), K(i) # <<>>
              PROVE  K(i) \in DOMAIN Q /\ Q[K(i)] = V(i)
          <5>1. CASE i = s
            BY <4>1, <5>1, Zenon
          <5>2. CASE i < s
            BY <1>5, <1>9, <4>1, <4>2, <5>2, Zenon
          <5>3. QED
            BY <1>4, <4>2, <5>1, <5>2
        <4>3. ASSUME NEW k \in DOMAIN Q
              PROVE  \E i \in Starts(q) : i < n /\ HasEquals(q, i) /\ K(i) = k
          <5>1. CASE k = K(s)
            BY <1>3, <1>7, <3>1, <5>1, Zenon
          <5>2. CASE k \in DOMAIN P
            BY <1>5, <1>9, <5>2, Zenon
          <5>3. QED
            BY <4>1, <5>1, <5>2
        <4>4. QED
          BY <4>2, <4>3, Zenon
      <3>4. QED
        BY <3>2, <3>3
    <2>3. QED
      BY <2>1, <2>2
  <1>11. QED
    BY <1>10, Zenon DEF Stored, K, V, Q, P, v

\* The parameters and the place in the query after one character more.
LEMMA ReadStep ==
  ASSUME NEW C, NEW q \in Seq(C), Usual(q), NEW n \in 1 .. Len(q), NEW s \in 0 .. n - 1,
         NEW st \in QueryStates(C), Reading(q, s, n - 1, st), Stored(q, s, st.params)
  PROVE  \E z \in 0 .. n : /\ Reading(q, z, n, nextChar(st, q[n]))
                            /\ Stored(q, z, nextChar(st, q[n]).params)
  <1> DEFINE next == nextChar(st, q[n])
  <1>0. /\ Len(q) \in Nat /\ n \in 0 .. Len(q) /\ q[n] \in C /\ s \in 0 .. Len(q)
        /\ s \in 0 .. n /\ n \in 0 .. n
    OBVIOUS
  <1>1. st.current_param \in Seq(C) /\ n \in Starts(q) <=> q[n] = "&"
    BY <1>0, LenProperties DEF QueryStates, Starts
  <1>2. s \in Starts(q) /\ Clear(q, "&", s + 1, n - 1)
    BY DEF Reading
  <1>3. \A h \in s + 1 .. n : h \in s + 1 .. n - 1 \/ h = n
    BY <1>0
  <1>5. SubSeq(q, n + 1, n) = <<>>
    BY <1>0, SubSeqEmpty
  <1>6. CASE q[n] = "&"
    <2>1. next = [params |-> Store(st.params, st.key, urlDecode(st.current_param)),
                  current_param |-> <<>>, key |-> <<>>, parsing_key |-> TRUE]
      BY <1>0, <1>6, NextCharCases
    <2>2. Stored(q, n, next.params)
      BY <1>6, <2>1, StoredAtEnd
    <2>3. Clear(q, "&", n + 1, n) /\ Clear(q, "=", n + 1, n)
      BY <1>0 DEF Clear
    <2>4. Reading(q, n, n, next)
      <3>1. n \in Starts(q)
        BY <1>0, <1>6, LenProperties DEF Starts
      <3>2. InKey(q, n, n, next)
        BY <1>5, <2>1, <2>3 DEF InKey
      <3>3. QED
        BY <2>3, <3>1, <3>2 DEF Reading
    <2>5. QED
      BY <1>0, <2>2, <2>4
  <1>7. CASE q[n] = "="
    <2>1. next = [params |-> st.params, current_param |-> <<>>,
                  key |-> urlDecode(st.current_param), parsing_key |-> FALSE]
      BY <1>0, <1>7, NextCharCases
    <2>2. Clear(q, "&", s + 1, n)
      BY <1>2, <1>3, <1>7 DEF Clear
    <2>3. \A m \in s + 1 .. n - 1 : q[m] # "="
      BY <1>2, <1>7, <2>2, NoSecondEquals
    <2>4. InKey(q, s, n - 1, st)
      BY <2>3 DEF Reading, InValue
    <2>5. InValue(q, s, n, next, n)
      <3> HIDE DEF next
      <3>1. Clear(q, "=", s + 1, n - 1) /\ ~next.parsing_key
        BY <2>1, <2>3 DEF Clear
      <3>2. next.key = urlDecode(SubSeq(q, s + 1, n - 1)) /\ next.current_param = SubSeq(q, n + 1, n)
        BY <1>5, <2>1, <2>4 DEF InKey
      <3>3. QED
        BY <1>7, <3>1, <3>2 DEF InValue
    <2>6. n \in s + 1 .. n
      BY <1>0
    <2>7. Reading(q, s, n, next)
      BY <1>2, <2>2, <2>5, <2>6 DEF Reading
    <2>8. Stored(q, s, next.params)
      BY <2>1
    <2>9. QED
      BY <1>0, <2>7, <2>8
  <1>8. CASE q[n] \notin {"=", "&"}
    <2>1. next = [params |-> st.params, current_param |-> Append(st.current_param, q[n]),
                  key |-> st.key, parsing_key |-> st.parsing_key]
      BY <1>0, <1>8, NextCharCases
    <2>2. Clear(q, "&", s + 1, n)
      BY <1>2, <1>3, <1>8 DEF Clear
    <2>3. CASE InKey(q, s, n - 1, st)
      <3>1. Clear(q, "=", s + 1, n)
        BY <1>3, <1>8, <2>3 DEF Clear, InKey
      <3> HIDE DEF next
      <3>2. SubSeq(q, s + 1, n) = Append(SubSeq(q, s + 1, n - 1), q[n])
        BY PartAppend
      <3>3. next.current_param = SubSeq(q, s + 1, n) /\ next.key = <<>> /\ next.parsing_key
        BY <2>1, <2>3, <3>2 DEF InKey
      <3>4. Reading(q, s, n, next)
        BY <1>2, <2>2, <3>1, <3>3 DEF InKey, Reading
      <3>5. Stored(q, s, next.params)
        BY <2>1
      <3>6. QED
        BY <1>0, <3>4, <3>5 DEF next
    <2>4. CASE \E m \in s + 1 .. n - 1 : InValue(q, s, n - 1, st, m)
      <3>1. PICK m \in s + 1 .. n - 1 : InValue(q, s, n - 1, st, m)
        BY <2>4
      <3>2. m \in 0 .. n - 1 /\ m \in s + 1 .. n
        BY <1>0
      <3>3. next.current_param = SubSeq(q, m + 1, n)
        BY <1>0, <2>1, <3>1, <3>2, PartAppend DEF InValue
      <3>4. InValue(q, s, n, next, m)
        BY <2>1, <3>1, <3>3 DEF InValue
      <3>5. Reading(q, s, n, next)
        BY <1>2, <2>2, <3>2, <3>4 DEF Reading
      <3>6. Stored(q, s, next.params)
        BY <2>1
      <3>7. QED
        BY <1>0, <3>5, <3>6
    <2>5. QED
      BY <2>3, <2>4 DEF Reading
  <1>9. QED
    BY <1>6, <1>7, <1>8

\* The states of the loop, and what queryParams makes of the last one.
Reads(f, q, C) ==
  /\ f \in [0 .. Len(q) -> QueryStates(C)] /\ f[0] = NewQuery
  /\ \A n \in 1 .. Len(q) : f[n] = nextChar(f[n - 1], q[n])

Remaining(st) ==
  CASE st.current_param = <<>> -> st.params
    [] st.current_param # <<>> /\ st.parsing_key ->
         Store(st.params, urlDecode(st.current_param), <<>>)
    [] st.current_param # <<>> /\ ~st.parsing_key ->
         Store(st.params, st.key, urlDecode(st.current_param))

\* The loop of queryParams takes one character after the other.
LEMMA QueryIsRead ==
  ASSUME NEW C, NEW q \in Seq(C)
  PROVE  \E f : Reads(f, q, C) /\ queryParams(q) = Remaining(f[Len(q)])
  <1>0. PICK N \in Nat : N = Len(q)
    OBVIOUS
  <1> DEFINE A == QueryStates(C)
             Then(a, n) == nextChar(a, q[n])
             step == [p \in A \X (1 .. N) |-> Then(p[1], p[2])]
             Rec(f) == [n \in 0 .. N |-> IF n = 0 THEN NewQuery ELSE Then(f[n - 1], n)]
             f == CHOOSE x : x = Rec(x)
  <1>1. NewQuery \in A /\ \A a \in A, n \in 1 .. N : Then(a, n) \in A
    <2>1. \A n \in 1 .. N : q[n] \in C
      BY <1>0
    <2>2. QED
      BY <2>1, NewQueryType, NextCharCases
  <1>2. queryParams(q) = Remaining(f[N])
    BY <1>0 DEF queryParams, Remaining
  <1> HIDE DEF A, Then
  <1>3. step \in [A \X (1 .. N) -> A]
    BY <1>1
  <1>4. \A a \in A, n \in 1 .. N : step[<<a, n>>] = Then(a, n)
    OBVIOUS
  <1> HIDE DEF step
  <1>5. PICK g \in [0 .. N -> A] : Iterates(g, N, NewQuery, step)
    BY <1>1, <1>3, Recursion
  <1>6. \A n \in 1 .. N : g[n] = Then(g[n - 1], n)
    <2> SUFFICES ASSUME NEW n \in 1 .. N PROVE g[n] = Then(g[n - 1], n)
      OBVIOUS
    <2>1. n - 1 \in 0 .. N
      OBVIOUS
    <2>2. g[n - 1] \in A
      BY <2>1
    <2>3. QED
      BY <1>4, <1>5, <2>2 DEF Iterates
  <1>7. \A n \in 0 .. N : g[n] = IF n = 0 THEN NewQuery ELSE Then(g[n - 1], n)
    BY <1>5, <1>6 DEF Iterates
  <1>8. g = Rec(g)
    BY <1>7
  <1>9. f = Rec(f)
    BY <1>8
  <1> HIDE DEF f
  <1>10. f[0] = NewQuery /\ \A n \in 1 .. N : f[n] = Then(f[n - 1], n)
    <2>1. 0 \in 0 .. N /\ \A n \in 1 .. N : n \in 0 .. N /\ n # 0
      OBVIOUS
    <2>2. QED
      BY <1>9, <2>1
  <1> DEFINE T == {n \in 0 .. N : f[n] \in A}
  <1>11. 0 \in T
    BY <1>1, <1>10
  <1>12. ASSUME NEW n \in 1 .. N, n - 1 \in T
         PROVE  n \in T
    BY <1>1, <1>10, <1>12
  <1> HIDE DEF T
  <1>13. \A n \in 0 .. N : n \in T
    BY <1>11, <1>12, SetInduction
  <1>14. \A n \in 0 .. N : f[n] \in A
    BY <1>13 DEF T
  <1>15. f \in [0 .. N -> A]
    BY <1>9, <1>14
  <1>16. Reads(f, q, C)
    BY <1>0, <1>10, <1>15 DEF Reads, A, Then
  <1>17. QED
    BY <1>0, <1>2, <1>16

\* At the end of a usual query the parameters of all pieces but the last have
\* been stored, and the last one has been read.
LEMMA ReadToEnd ==
  ASSUME NEW C, NEW q \in Seq(C), Usual(q), NEW f, Reads(f, q, C)
  PROVE  \E s \in 0 .. Len(q) : /\ Reading(q, s, Len(q), f[Len(q)])
                                 /\ Stored(q, s, f[Len(q)].params)
  <1>0. PICK N \in Nat : N = Len(q)
    OBVIOUS
  <1> DEFINE Good(n) == \E s \in 0 .. n : Reading(q, s, n, f[n]) /\ Stored(q, s, f[n].params)
             T == {n \in 0 .. N : Good(n)}
  <1>1. Good(0)
    <2>1. /\ NewQuery.key = <<>> /\ NewQuery.parsing_key /\ NewQuery.current_param = <<>>
          /\ DOMAIN NewQuery.params = {}
      BY DEF NewQuery, NoParams
    <2>2. Clear(q, "&", 0 + 1, 0) /\ Clear(q, "=", 0 + 1, 0) /\ SubSeq(q, 0 + 1, 0) = <<>>
      BY SubSeqEmpty DEF Clear
    <2>3. 0 \in Starts(q)
      BY DEF Starts
    <2>4. Reading(q, 0, 0, NewQuery)
      BY <2>1, <2>2, <2>3 DEF Reading, InKey
    <2>5. \A i \in Starts(q) : ~(i < 0)
      BY <1>0, LenProperties DEF Starts
    <2>6. Stored(q, 0, NewQuery.params)
      BY <2>1, <2>5, Zenon DEF Stored
    <2>7. f[0] = NewQuery /\ 0 \in 0 .. 0
      BY DEF Reads
    <2>8. QED
      BY <2>4, <2>6, <2>7
  <1>2. ASSUME NEW n \in 1 .. N, Good(n - 1)
        PROVE  Good(n)
    <2>1. n - 1 \in 0 .. N /\ n \in 1 .. Len(q)
      BY <1>0
    <2>2. f[n - 1] \in QueryStates(C) /\ f[n] = nextChar(f[n - 1], q[n])
      BY <1>0, <2>1 DEF Reads
    <2>3. PICK s \in 0 .. n - 1 : Reading(q, s, n - 1, f[n - 1]) /\ Stored(q, s, f[n - 1].params)
      BY <1>2
    <2>4. QED
      BY <2>1, <2>2, <2>3, ReadStep
  <1> HIDE DEF Good
  <1>3. 0 \in T
    BY <1>1
  <1>4. ASSUME NEW n \in 1 .. N, n - 1 \in T
        PROVE  n \in T
    BY <1>2, <1>4
  <1> HIDE DEF T
  <1>5. \A n \in 0 .. N : n \in T
    BY <1>3, <1>4, SetInduction
  <1>6. Good(N)
    BY <1>5 DEF T
  <1>7. QED
    BY <1>0, <1>6 DEF Good

\* What is done after the loop with the last parameter.
LEMMA LastIsStored ==
  ASSUME NEW C, NEW q \in Seq(C), NEW s \in 0 .. Len(q), NEW st \in QueryStates(C),
         Reading(q, s, Len(q), st)
  PROVE  \/ /\ Remaining(st) = st.params /\ ValueOf(Piece(q, s)) = <<>>
         \/ IsStored(Remaining(st), st.params, KeyOf(Piece(q, s)), ValueOf(Piece(q, s)))
  <1> DEFINE c == st.current_param
             K == KeyOf(Piece(q, s))
             V == ValueOf(Piece(q, s))
  <1>0. Len(q) \in 0 .. Len(q)
    OBVIOUS
  <1>1. /\ c \in Seq(C) /\ st.params \in Params(C) /\ st.key \in Seq(Decoded(C))
        /\ urlDecode(c) \in Seq(Decoded(C)) /\ <<>> \in Seq(Decoded(C))
    BY DecodeType DEF QueryStates
  <1>2. /\ InKey(q, s, Len(q), st) => V = <<>> /\ K = urlDecode(c)
        /\ \A m \in s + 1 .. Len(q) :
             InValue(q, s, Len(q), st, m) => K = st.key /\ V = urlDecode(c)
    BY <1>0, PieceRead
  <1>3. urlDecode(<<>>) = <<>>
    BY DecodeEmpty, EmptySeq
  <1>4. \/ V = <<>> /\ K = urlDecode(c) /\ st.parsing_key
        \/ V = urlDecode(c) /\ K = st.key /\ ~st.parsing_key
    BY <1>2, Zenon DEF Reading, InKey, InValue
  <1> HIDE DEF c, K, V
  <1>5. CASE c = <<>>
    <2>1. Remaining(st) = st.params
      BY <1>5 DEF Remaining, c
    <2>2. V = <<>>
      BY <1>3, <1>4, <1>5
    <2>3. QED
      BY <2>1, <2>2 DEF V
  <1>6. CASE c # <<>> /\ st.parsing_key
    <2>1. Remaining(st) = Store(st.params, urlDecode(c), <<>>)
      BY <1>6 DEF Remaining, c
    <2>2. IsStored(Remaining(st), st.params, K, V)
      BY <1>1, <1>4, <1>6, <2>1, StoreProperties
    <2>3. QED
      BY <2>2 DEF K, V
  <1>7. CASE c # <<>> /\ ~st.parsing_key
    <2>1. Remaining(st) = Store(st.params, st.key, urlDecode(c))
      BY <1>7 DEF Remaining, c
    <2>2. IsStored(Remaining(st), st.params, K, V)
      BY <1>1, <1>4, <1>7, <2>1, StoreProperties
    <2>3. QED
      BY <2>2 DEF K, V
  <1>8. QED
    BY <1>5, <1>6, <1>7

\* Every key of a usual query gets the value behind it, and no other key one.
LEMMA UsualQueryIsParsed ==
  ASSUME NEW C, NEW q \in Seq(C), Usual(q)
  PROVE  LET P == queryParams(q)
         IN /\ \A p \in Pieces(q) : KeyOf(p) # <<>> => param(P, KeyOf(p)) = ValueOf(p)
            /\ \A k \in DOMAIN P : \E p \in Pieces(q) : KeyOf(p) = k
  <1> DEFINE Q == queryParams(q)
             K(i) == KeyOf(Piece(q, i))
             V(i) == ValueOf(Piece(q, i))
  <1>0. PICK N \in Nat : N = Len(q)
    OBVIOUS
  <1>1. PICK f : Reads(f, q, C) /\ Q = Remaining(f[N])
    BY <1>0, QueryIsRead
  <1>2. PICK s \in 0 .. N : Reading(q, s, N, f[N]) /\ Stored(q, s, f[N].params)
    BY <1>0, <1>1, ReadToEnd
  <1> DEFINE P == f[N].params
  <1>3. f[N] \in QueryStates(C)
    BY <1>0, <1>1 DEF Reads
  <1>4. (Q = P /\ V(s) = <<>>) \/ IsStored(Q, P, K(s), V(s))
    BY <1>0, <1>1, <1>2, <1>3, LastIsStored
  <1>5. s \in Starts(q) /\ Clear(q, "&", s + 1, N)
    BY <1>2 DEF Reading
  <1>6. \A i \in Starts(q) : i = s \/ i < s
    <2> SUFFICES ASSUME NEW i \in Starts(q) PROVE i = s \/ i < s
      OBVIOUS
    <2>1. i <= N /\ i \in Int
      BY <1>0, LenProperties DEF Starts
    <2>2. i <= s
      <3>1. N \in 0 .. Len(q)
        BY <1>0
      <3>2. QED
        BY <1>5, <2>1, <3>1, StartsBefore
    <2>3. QED
      BY <2>1, <2>2
  <1>7. \A i, j \in Starts(q) : i # j => K(i) # K(j)
    BY DEF Usual
  <1>8. \A i \in Starts(q) : ~HasEquals(q, i) => V(i) = <<>>
    BY DEF HasEquals, ValueOf
  <1>9. /\ \A i \in Starts(q) :
            i < s /\ HasEquals(q, i) /\ K(i) # <<>> => K(i) \in DOMAIN P /\ P[K(i)] = V(i)
        /\ \A k \in DOMAIN P : \E i \in Starts(q) : i < s /\ HasEquals(q, i) /\ K(i) = k
    BY <1>2 DEF Stored
  <1>10. ~(s < s)
    OBVIOUS
  <1> HIDE DEF K, V, P, Q
  <1>11. K(s) \notin DOMAIN P
    BY <1>5, <1>7, <1>9, <1>10, Zenon
  <1>12. \A i \in Starts(q) : i < s /\ ~HasEquals(q, i) => K(i) \notin DOMAIN P
    BY <1>7, <1>9, Zenon
  <1>13. \A i \in Starts(q) : i < s => i # s
    BY <1>10
  <1>14. ASSUME NEW i \in Starts(q), K(i) # <<>>
         PROVE  param(Q, K(i)) = V(i)
    <2>1. CASE i = s
      <3>1. CASE Q = P /\ V(s) = <<>>
        BY <1>11, <2>1, <3>1 DEF param
      <3>2. CASE IsStored(Q, P, K(s), V(s))
        BY <1>14, <2>1, <3>2 DEF param, IsStored
      <3>3. QED
        BY <1>4, <3>1, <3>2
    <2>2. CASE i < s
      <3>1. param(P, K(i)) = V(i)
        BY <1>8, <1>9, <1>12, <1>14, <2>2, Zenon DEF param
      <3>2. CASE Q = P
        BY <3>1, <3>2
      <3>3. CASE IsStored(Q, P, K(s), V(s))
        <4>1. K(i) # K(s)
          BY <1>5, <1>7, <1>13, <2>2
        <4>2. CASE K(s) = <<>>
          BY <3>1, <3>3, <4>2 DEF IsStored
        <4>3. CASE K(s) # <<>>
          <5>1. /\ DOMAIN Q = DOMAIN P \cup {K(s)}
                /\ \A j \in DOMAIN P : j # K(s) => Q[j] = P[j]
            BY <3>3, <4>3 DEF IsStored
          <5>2. QED
            BY <3>1, <4>1, <5>1, Zenon DEF param
        <4>4. QED
          BY <4>2, <4>3
      <3>4. QED
        BY <1>4, <3>2, <3>3
    <2>3. QED
      BY <1>6, <2>1, <2>2
  <1>15. ASSUME NEW k \in DOMAIN Q
         PROVE  \E i \in Starts(q) : K(i) = k
    <2>1. k \in DOMAIN P \/ k = K(s)
      BY <1>4, <1>15 DEF IsStored
    <2>2. QED
      BY <1>5, <1>9, <2>1, Zenon
  <1>16. \A p \in Pieces(q) : \E i \in Starts(q) : p = Piece(q, i)
    BY DEF Pieces
  <1>17. \A i \in Starts(q) : Piece(q, i) \in Pieces(q)
    BY DEF Pieces
  <1>18. ASSUME NEW p \in Pieces(q), KeyOf(p) # <<>>
         PROVE  param(Q, KeyOf(p)) = ValueOf(p)
    BY <1>14, <1>16, <1>18, Zenon DEF K, V
  <1>19. ASSUME NEW k \in DOMAIN Q
         PROVE  \E p \in Pieces(q) : KeyOf(p) = k
    BY <1>15, <1>17, <1>19, Zenon DEF K
  <1>20. QED
    BY <1>18, <1>19, Zenon DEF Q

-----------------------------------------------------------------------------
(* The handling of an answer and of a query.                               *)

\* A reply is one the completion handler gives for the answer, and the
\* parameters are those of the query.
HandlingInv ==
  /\ query \in Seq(QueryChars) /\ utf8 \in BOOLEAN
  /\ reply # NoReply => /\ reply \in completionHandler(ec, answer, utf8)
                        /\ params = queryParams(query)

\* Initially nothing has been handled.
LEMMA HandlingInitInv == HandlingInit => HandlingInv
  <1> SUFFICES ASSUME HandlingInit PROVE HandlingInv
    OBVIOUS
  <1>1. reply = NoReply
    BY DEF HandlingInit
  <1>2. utf8 \in BOOLEAN
    BY DEF HandlingInit, QueryInit, AnswerInit
  <1>3. query \in Seq(QueryChars)
    <2>1. CASE QueryInit
      <3>1. PICK m \in 0 .. MaxQuery : query \in [1 .. m -> QueryChars]
        BY <2>1 DEF QueryInit, SeqOf
      <3>2. m \in Nat
        OBVIOUS
      <3>3. QED
        BY <3>1, <3>2
    <2>2. CASE AnswerInit
      BY <2>2 DEF AnswerInit
    <2>3. QED
      BY <2>1, <2>2 DEF HandlingInit
  <1>4. QED
    BY <1>1, <1>2, <1>3 DEF HandlingInv

\* Handling keeps the invariant.
LEMMA HandlingNextInv == HandlingInv /\ [HandlingNext]_handlingVars => HandlingInv'
  <1> SUFFICES ASSUME HandlingInv, [HandlingNext]_handlingVars PROVE HandlingInv'
    OBVIOUS
  <1>1. CASE Handle
    BY <1>1 DEF Handle, HandlingInv
  <1>2. CASE UNCHANGED handlingVars
    BY <1>2 DEF handlingVars, HandlingInv
  <1>3. QED
    BY <1>1, <1>2 DEF HandlingNext, Replied

\* What was handled was handled as completionHandler and queryParams say.
LEMMA HandlingInvariant == HandlingSpec => []HandlingInv
  BY HandlingInitInv, HandlingNextInv, PTL DEF HandlingSpec

\* For every class of answers and any id: transport errors, other statuses than
\* 200 and answers without JSON of a known content type are answered with 504,
\* 404 and 502; JSON of the wrong structure is answered with a 200 that holds what
\* was read before the error; and the breaker is tripped exactly for an
\* unreachable or failing backend.
THEOREM FailuresStayFailures == HandlingSpec => []FailuresKeepTheirStatus
  <1>1. HandlingInv => FailuresKeepTheirStatus
    <2> SUFFICES ASSUME HandlingInv, reply # NoReply
                 PROVE  FailuresKeepTheirStatus
      BY DEF FailuresKeepTheirStatus
    <2>1. reply \in completionHandler(ec, answer, utf8) /\ utf8 \in BOOLEAN
      BY DEF HandlingInv
    <2>2. ASSUME ec = "ok", answer.status = 200, Malformed(answer), utf8
          PROVE  reply.status = 200 /\ reply.company = HalfRead(answer)
      <3>1. completionHandler(ec, answer, utf8) = handle200(answer, utf8)
        <4>1. AreReplies(completionHandler(ec, answer, utf8), ec, answer, utf8)
          BY HandlerCases
        <4>2. QED
          BY <2>2, <4>1, Zenon DEF AreReplies
      <3>2. utf8 = TRUE
        BY <2>1, <2>2
      <3>3. handle200(answer, utf8)
              = {[status |-> 200, trips |-> FALSE, company |-> HalfRead(answer)]}
        BY <2>2, <3>2, MalformedIsSent, Zenon
      <3>4. reply = [status |-> 200, trips |-> FALSE, company |-> HalfRead(answer)]
        BY <2>1, <3>1, <3>3
      <3>5. QED
        BY <3>4
    <2>3. /\ ec # "ok" => reply.status = 504
          /\ ec = "ok" /\ answer.status = 404 => reply.status = 404
          /\ ec = "ok" /\ answer.status \notin {200, 404} => reply.status = 502
          /\ ec = "ok" /\ answer.status = 200 /\ Unparsable(answer) => reply.status = 502
          /\ reply.trips <=> \/ ec \in {"refused", "timed_out"}
                             \/ ec = "ok" /\ answer.status \in 500 .. 599
      BY <2>1, FailureStatus, ZenonT(60)
    <2>4. QED
      BY <2>2, <2>3, ZenonT(60) DEF FailuresKeepTheirStatus
  <1>2. QED
    BY <1>1, HandlingInvariant, PTL

\* For every class of answers: a well-formed one gives 200 and the company the
\* README describes, and those of the prototype backend are well-formed.
THEOREM WellFormedStaysFaithful == HandlingSpec => []WellFormedIsFaithful
  <1>1. HandlingInv => WellFormedIsFaithful
    <2> SUFFICES ASSUME HandlingInv, reply # NoReply, ec = "ok", utf8
                 PROVE  /\ (\E i \in Backend!KnownCompanies : answer = Backend!companies(i))
                             => reply.status = 200
                        /\ answer.status = 200 /\ Recognized(answer) /\ NotEpoch(answer)
                             => reply.status = 200 /\ reply.company = Expected(answer)
      BY DEF WellFormedIsFaithful
    <2>1. ASSUME answer.status = 200, Recognized(answer), NotEpoch(answer)
          PROVE  reply.status = 200 /\ reply.company = Expected(answer)
      <3>1. reply \in completionHandler(ec, answer, TRUE)
        BY DEF HandlingInv
      <3>2. completionHandler(ec, answer, TRUE) = handle200(answer, TRUE)
        <4>1. AreReplies(completionHandler(ec, answer, TRUE), ec, answer, TRUE)
          BY HandlerCases
        <4>2. QED
          BY <2>1, <4>1, Zenon DEF AreReplies
      <3>3. handle200(answer, TRUE)
              = {[status |-> 200, trips |-> FALSE, company |-> Expected(answer)]}
        BY <2>1, RecognizedIsFaithful, Zenon
      <3>4. reply = [status |-> 200, trips |-> FALSE, company |-> Expected(answer)]
        BY <3>1, <3>2, <3>3
      <3>5. QED
        BY <3>4
    <2>2. ASSUME NEW i \in Backend!KnownCompanies, answer = Backend!companies(i)
          PROVE  reply.status = 200
      BY <2>1, <2>2, BackendIsRecognized
    <2>3. QED
      BY <2>1, <2>2
  <1>2. QED
    BY <1>1, HandlingInvariant, PTL

\* For queries of any length over any characters: in a usual query every key
\* gets the value behind it, and no other key gets one.
THEOREM QueryIsAlwaysParsed == HandlingSpec => []QueryIsParsed
  <1>1. HandlingInv => QueryIsParsed
    BY UsualQueryIsParsed DEF HandlingInv, QueryIsParsed
  <1>2. QED
    BY <1>1, HandlingInvariant, PTL
=============================================================================
