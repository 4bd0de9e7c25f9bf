----------------------------- MODULE Backendify -----------------------------
(***************************************************************************)
(* The service behind GET /company (core/Backendify.hpp and .cpp): several *)
(* requests at once go through the cache, the SLA check, the country map   *)
(* and the circuit breaker to a backend call, whose completion answers the *)
(* request and fills the cache.                                            *)
(*                                                                         *)
(* A request is processed by one I/O thread from receive to its answer or  *)
(* to the start of the backend call, and the completion of the call runs   *)
(* on whichever I/O thread is free.  The steps of a request are separated  *)
(* where it takes a lock or reads the clock, since requests on other       *)
(* threads interleave there.  An exception that leaves a handler ends the  *)
(* thread that ran it (main.cpp).                                          *)
(***************************************************************************)
EXTENDS CompanyResponse, CircuitBreaker, Sequences, FiniteSets

CONSTANTS
  Requests,             \* the /company requests
  Target,               \* their parameters [id, country], decoded
  UpperCase,            \* what std::toupper changes
  country_backend_map,  \* config_: the backend of each configured country
  BackendAnswers,       \* what the backends may answer
  Sla,                  \* server_sla_in_micros less the average processing time
  DropSlaTimeouts,      \* config_.drop_sla_timeout_requests
  Ttl,                  \* 24 hours
  NumIoThreads,         \* threads in ioc.run(), the main thread included
  MaxTime,              \* bound of the clock
  None

ASSUME BackendifyAssumption ==
  /\ IsFiniteSet(Requests)
  /\ \A r \in Requests :
       Target[r].id \in Seq(STRING) /\ Target[r].country \in Seq(STRING)
  /\ \A c \in DOMAIN UpperCase : UpperCase[c] \in STRING
  /\ \A c \in DOMAIN country_backend_map : country_backend_map[c] \in Backends
  /\ BackendAnswers \subseteq Answers
  /\ Sla \in Nat /\ Ttl \in Nat \ {0} /\ MaxTime \in Nat
  /\ NumIoThreads \in Nat \ {0}
  /\ DropSlaTimeouts \in BOOLEAN

VARIABLES
  pc,                       \* where the processing of each request stands
  received_time,            \* request_received_time, when the read was started
  response,                 \* what send_response_cb was called with
  cache, cacheReply,        \* the cache and what its last get returned
  call, outcome,            \* the backend calls
  active_client_sessions_,
  io_threads,               \* I/O threads still running
  shutdown, cancelled,      \* cancel_active_backend_calls ran, and on which calls
  barrier,                  \* history: end of its backend's cool-off on arrival
  now

requestVars == <<pc, received_time, response>>
cacheStateVars == <<cache, cacheReply>>
callStateVars == <<call, outcome, active_client_sessions_>>
vars == <<requestVars, cacheStateVars, callStateVars, tripped_backends_,
          io_threads, shutdown, cancelled, barrier, now>>

-----------------------------------------------------------------------------
toupper(c) == IF c \in DOMAIN UpperCase THEN UpperCase[c] ELSE c

id(r) == Target[r].id
country_iso(r) ==
  [i \in 1 .. Len(Target[r].country) |-> toupper(Target[r].country[i])]

\* Mutant: the key leaves out the country.
Mutant_cache_key(r) == id(r)

cache_key(r) == id(r) \o <<":">> \o country_iso(r)
Keys == {cache_key(r) : r \in Requests}

findBackendInfo(country) ==
  IF country \in DOMAIN country_backend_map THEN country_backend_map[country]
                                            ELSE None

\* A byte that is no UTF-8 among those of the id.
idIsUtf8(r) == \A i \in 1 .. Len(id(r)) : id(r)[i] # "0xFF"

\* A company as sent and cached: whose it is, who said so and when.
Companies == [id : {id(r) : r \in Requests}, backend : Backends, at : Nat]
Outcomes ==
  {[ec |-> "ok", answer |-> a] : a \in BackendAnswers \cup {EmptyAnswer}}
    \cup {[ec |-> e, answer |-> EmptyAnswer] : e \in {"refused", "timed_out", "error"}}

Cache == INSTANCE CacheInterface WITH
  store <- cache, reply <- cacheReply, asked <- None, Values <- Companies, Ttls <- {Ttl},
  Lossy <- TRUE
Client == INSTANCE BackendCall WITH Sessions <- Requests

InThread == {"cache", "sla", "find", "call", "run"}
Over == {"answered", "dropped", "lost"}

TypeOK ==
  /\ BreakerTypeOK
  /\ pc \in [Requests -> InThread \cup Over \cup {"idle", "waiting"}]
  /\ received_time \in [Requests -> 0 .. MaxTime]
  /\ response \in [Requests -> Seq([status : Nat, company : Companies \cup {None}])]
  /\ cache \in [Keys -> Cache!Entries \cup {None}]
  /\ cacheReply \in Companies \cup {None}
  /\ call \in [Requests -> {"idle", "running", "done"}]
  /\ outcome \in [Requests -> Seq(Outcomes)]
  /\ active_client_sessions_ \subseteq Requests
  /\ io_threads \in 0 .. NumIoThreads
  /\ shutdown \in BOOLEAN /\ cancelled \subseteq Requests
  /\ barrier \in [Requests -> Nat]
  /\ now \in 0 .. MaxTime

Init ==
  /\ BreakerInit
  /\ Cache!StoreInit
  /\ Client!CallInit
  /\ pc = [r \in Requests |-> "idle"]
  /\ received_time = [r \in Requests |-> 0]
  /\ response = [r \in Requests |-> <<>>]
  /\ active_client_sessions_ = {}
  /\ io_threads = NumIoThreads
  /\ shutdown = FALSE /\ cancelled = {}
  /\ barrier = [r \in Requests |-> 0]

-----------------------------------------------------------------------------
(* processCompanyRequest.                                                  *)

ThreadFree == Cardinality({r \in Requests : pc[r] \in InThread}) < io_threads

Goto(r, label) ==
  /\ pc' = [pc EXCEPT ![r] = label]
  /\ UNCHANGED <<received_time, response>>

\* send_response_cb with a response.
Respond(r, status, company) ==
  /\ pc' = [pc EXCEPT ![r] = "answered"]
  /\ response' = [response EXCEPT ![r] =
                    Append(@, [status |-> status, company |-> company])]
  /\ UNCHANGED received_time

\* HttpServerSession::on_read hands over a request.  do_read took the time when
\* it started to wait for the request, at some time t.
receive(r, t) ==
  /\ pc[r] = "idle" /\ ThreadFree /\ t <= now
  /\ pc' = [pc EXCEPT ![r] = "cache"]
  /\ received_time' = [received_time EXCEPT ![r] = t]
  /\ barrier' = [barrier EXCEPT ![r] =
       LET b == findBackendInfo(country_iso(r))
       IN IF b = None THEN 0 ELSE tripped_backends_[b]]
  /\ UNCHANGED <<response, cacheStateVars, callStateVars, tripped_backends_,
                 io_threads, shutdown, cancelled, now>>

\* Mutant: a hit is answered, and processing goes on.
Mutant_checkCacheAndRespond(r) ==
  /\ pc[r] = "cache" /\ Cache!Look(cache_key(r), now)
  /\ pc' = [pc EXCEPT ![r] = "sla"]
  /\ response' = [response EXCEPT ![r] =
       IF cacheReply' = None THEN @
       ELSE Append(@, [status |-> 200, company |-> cacheReply'])]
  /\ UNCHANGED <<received_time, callStateVars, tripped_backends_, io_threads,
                 shutdown, cancelled, barrier>>

\* Missing parameters give 400; checkCacheAndRespond answers a hit.  The
\* handler for std::exception is not reached: nothing in the try block throws.
checkCacheAndRespond(r) ==
  /\ pc[r] = "cache"
  /\ IF id(r) = <<>> \/ country_iso(r) = <<>>
       THEN Respond(r, 400, None) /\ UNCHANGED <<cacheStateVars, now>>
       ELSE /\ Cache!Look(cache_key(r), now)
            /\ IF cacheReply' # None THEN Respond(r, 200, cacheReply')
                                     ELSE Goto(r, "sla")
  /\ UNCHANGED <<callStateVars, tripped_backends_, io_threads, shutdown,
                 cancelled, barrier>>

checkSla(r) ==
  /\ pc[r] = "sla"
  /\ CASE now - received_time[r] <= Sla -> Goto(r, "find")
       [] now - received_time[r] > Sla /\ DropSlaTimeouts -> Goto(r, "dropped")
       [] OTHER -> Respond(r, 504, None)
  /\ UNCHANGED <<cacheStateVars, callStateVars, tripped_backends_, io_threads,
                 shutdown, cancelled, barrier, now>>

\* Mutant: the early return for an unknown country forgets the response.
Mutant_checkBackend(r) ==
  LET b == findBackendInfo(country_iso(r))
  IN /\ pc[r] = "find"
     /\ CASE b = None -> Goto(r, "lost")
          [] b # None /\ isTripped(b, now) -> Respond(r, 504, None)
          [] OTHER -> Goto(r, "call")
     /\ UNCHANGED <<cacheStateVars, callStateVars, tripped_backends_, io_threads,
                    shutdown, cancelled, barrier, now>>

checkBackend(r) ==
  LET b == findBackendInfo(country_iso(r))
  IN /\ pc[r] = "find"
     /\ CASE b = None -> Respond(r, 404, None)
          [] b # None /\ isTripped(b, now) -> Respond(r, 504, None)
          [] OTHER -> Goto(r, "call")
     /\ UNCHANGED <<cacheStateVars, callStateVars, tripped_backends_, io_threads,
                    shutdown, cancelled, barrier, now>>

\* Mutant: the session is not recorded.
Mutant_callBackendApi(r) ==
  /\ pc[r] = "call"
  /\ Goto(r, "run")
  /\ UNCHANGED <<cacheStateVars, callStateVars, tripped_backends_, io_threads,
                 shutdown, cancelled, barrier, now>>

\* callBackendApi: the session is recorded, under the lock of the set, and
\* only then run.  Its first two tests never succeed: the caller has found the
\* backend, and parseUrl accepts no https URL.
callBackendApi(r) ==
  /\ pc[r] = "call"
  /\ Goto(r, "run")
  /\ active_client_sessions_' = active_client_sessions_ \cup {r}
  /\ UNCHANGED <<cacheStateVars, call, outcome, tripped_backends_, io_threads,
                 shutdown, cancelled, barrier, now>>

runClientSession(r) ==
  /\ pc[r] = "run"
  /\ Goto(r, "waiting")
  /\ Client!Start(r)
  /\ UNCHANGED <<cacheStateVars, active_client_sessions_, tripped_backends_,
                 io_threads, shutdown, cancelled, barrier, now>>

-----------------------------------------------------------------------------
(* The completion of the call.                                             *)

\* session_to_remove_on_complete is captured as an empty weak_ptr and never
\* assigned, so lock() finds no session to erase.
SessionToRemove(r) == {}

onComplete(r, o) ==
  LET b == findBackendInfo(country_iso(r))
      company == [id |-> id(r), backend |-> b, at |-> now]
  IN /\ pc[r] = "waiting" /\ ThreadFree
     /\ Client!Finish(r, o)
     /\ active_client_sessions_' = active_client_sessions_ \ SessionToRemove(r)
     /\ \E reply \in completionHandler(o.ec, o.answer, idIsUtf8(r)) :
          /\ IF reply.trips THEN trip(b, now) ELSE UNCHANGED tripped_backends_
          /\ IF reply.status = 200
               THEN Cache!Put(cache_key(r), company, Ttl) /\ UNCHANGED cacheReply
               ELSE UNCHANGED <<cacheStateVars, now>>
          /\ IF reply.status = 0
               THEN Goto(r, "lost") /\ io_threads' = io_threads - 1
               ELSE /\ Respond(r, reply.status,
                               IF reply.status = 200 THEN company ELSE None)
                    /\ UNCHANGED io_threads
     /\ UNCHANGED <<shutdown, cancelled, barrier>>

-----------------------------------------------------------------------------
\* The signal handler cancels what it finds in the set.
cancel_active_backend_calls ==
  /\ ~shutdown
  /\ shutdown' = TRUE
  /\ cancelled' = active_client_sessions_
  /\ UNCHANGED <<requestVars, cacheStateVars, callStateVars, tripped_backends_,
                 io_threads, barrier, now>>

Tick ==
  /\ now < MaxTime
  /\ now' = now + 1
  /\ UNCHANGED <<requestVars, cacheStateVars, callStateVars, tripped_backends_,
                 io_threads, shutdown, cancelled, barrier>>

Process(r) ==
  \/ checkCacheAndRespond(r)
  \/ checkSla(r)
  \/ checkBackend(r)
  \/ callBackendApi(r)
  \/ runClientSession(r)

Ended == (\A r \in Requests : pc[r] \in Over) /\ UNCHANGED vars

Next ==
  \/ \E r \in Requests :
       \/ \E t \in 0 .. MaxTime : receive(r, t)
       \/ Process(r)
       \/ \E o \in Outcomes : onComplete(r, o)
  \/ cancel_active_backend_calls
  \/ Tick
  \/ Ended

\* A running thread goes on.
Fairness == \A r \in Requests : WF_vars(Process(r))
Spec == Init /\ [][Next]_vars /\ Fairness

\* ... with backends that answer or close the connection, whose completions
\* some free thread runs.
ResponsiveSpec ==
  Spec /\ \A r \in Requests : WF_vars(\E o \in Outcomes : onComplete(r, o))

-----------------------------------------------------------------------------
(* Properties.                                                             *)

\* send_response_cb is called with a response at most once for each request,
\* by one of cache hit, early return and completion, and a request that was
\* dropped or lost has none.
AnsweredAtMostOnce ==
  \A r \in Requests : Len(response[r]) = IF pc[r] = "answered" THEN 1 ELSE 0

\* A company that is sent is the one asked for, as told by the backend of the
\* requested country, even when another request put it into the cache.
AnswerIsForRequest ==
  \A r \in Requests : \A i \in 1 .. Len(response[r]) :
    response[r][i].status = 200 =>
      /\ response[r][i].company.id = id(r)
      /\ response[r][i].company.backend = findBackendInfo(country_iso(r))

\* A request that arrives while its backend cools off does not reach it before
\* the end of that cool-off, whatever the calls in flight report meanwhile.
CoolOffRespected ==
  [][\A r \in Requests :
       call[r] = "idle" /\ call'[r] = "running" => now >= barrier[r]]_vars

\* No company is sent that was received a Ttl ago or longer.
AnswersAreFresh ==
  [][\A r \in Requests :
       response'[r] # response[r] /\ response'[r][1].status = 200
         => now < response'[r][1].company.at + Ttl]_vars

\* The shutdown cancels every call that is running when it looks.
CancelReachesEveryCall ==
  [][~shutdown /\ shutdown' =>
       {r \in Requests : call[r] = "running"} \subseteq cancelled']_vars

\* Every request is answered or dropped on purpose, once the backends answer.
EveryRequestEnds ==
  \A r \in Requests : pc[r] # "idle" ~> pc[r] \in {"answered", "dropped"}
=============================================================================
