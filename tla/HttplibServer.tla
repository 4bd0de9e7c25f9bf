--------------------------- MODULE HttplibServer ---------------------------
(***************************************************************************)
(* The server of the prototype backend (BackendServers/httplib.h): listen, *)
(* the pool of worker threads, the keep-alive loop of a connection, and    *)
(* stop(), which another thread may call.                                  *)
(*                                                                         *)
(* What a worker does with one request is in HttplibRequest; here it ends  *)
(* with the connection to be kept or not.  The condition variable of the   *)
(* pool wakes only threads that wait at that time.                         *)
(***************************************************************************)
EXTENDS HttplibSettings, Sequences, FiniteSets, SequencesExt

CONSTANTS Sockets, Workers, None,
          max_queued_requests_      \* 0: no limit

ASSUME HttplibServerAssumption ==
  /\ max_queued_requests_ \in Nat
  /\ Workers # {}           \* CPPHTTPLIB_THREAD_POOL_COUNT is at least 8
  /\ None \notin Sockets

VARIABLES
  listener,         \* what the thread that called listen does
  incoming,         \* the socket it has accepted
  ret,              \* what listen_internal will return
  svr_sock_,        \* "invalid", "open", or "stale": closed, but still stored
  is_running_, is_decommissioned,
  jobs_, shutdown_,
  worker,           \* what each worker does, with which socket, how many requests
  conn,             \* each socket: "none", "backlog", "open" or "closed"
  closes            \* history: how often each socket was closed

vars == <<listener, incoming, ret, svr_sock_, is_running_, is_decommissioned, jobs_,
          shutdown_, worker, conn, closes>>
serverVars == <<svr_sock_, is_running_, is_decommissioned>>

Worker(at, sock, count) == [at |-> at, sock |-> sock, count |-> count]
AtLoop == Worker("loop", None, 0)
Waiting == Worker("waiting", None, 0)
Finished == Worker("finished", None, 0)

\* A worker that has a connection, with the requests it may still serve.
Serving ==
  [at : {"keep_alive", "request"}, sock : Sockets, count : 1 .. keep_alive_max_count_]
    \cup [at : {"close"}, sock : Sockets, count : 0 .. keep_alive_max_count_]

TypeOK ==
  /\ listener \in {"bind", "listen", "accept", "enqueue", "notify", "shutdown",
                   "join", "returned"}
  /\ incoming \in Sockets \cup {None} /\ ret \in BOOLEAN
  /\ svr_sock_ \in {"invalid", "open", "stale"}
  /\ is_running_ \in BOOLEAN /\ is_decommissioned \in BOOLEAN
  /\ jobs_ \in Seq(Sockets) /\ shutdown_ \in BOOLEAN
  /\ worker \in [Workers -> {AtLoop, Waiting, Finished} \cup Serving]
  /\ conn \in [Sockets -> {"none", "backlog", "open", "closed"}]
  /\ closes \in [Sockets -> Nat]

Init ==
  /\ listener = "bind" /\ incoming = None /\ ret = TRUE
  /\ svr_sock_ = "invalid" /\ is_running_ = FALSE /\ is_decommissioned = FALSE
  /\ jobs_ = <<>> /\ shutdown_ = FALSE
  /\ worker = [w \in Workers |-> Finished]
  /\ conn = [s \in Sockets |-> "none"]
  /\ closes = [s \in Sockets |-> 0]

\* shutdown_socket and close_socket.
close_socket(s) ==
  /\ conn' = [conn EXCEPT ![s] = "closed"]
  /\ closes' = [closes EXCEPT ![s] = @ + 1]

-----------------------------------------------------------------------------
(* listen.                                                                 *)

\* The addresses of the host, as getaddrinfo reports them, are tried in order: one
\* for which there is no socket, or whose socket is closed again because bind or
\* listen fails, is passed over.
create_socket(addresses) ==
  IF \E i \in DOMAIN addresses : addresses[i] = "listens" THEN "open" ELSE "invalid"

\* 0.0.0.0 has at most one address.
create_server_socket ==
  {create_socket(a) : a \in SeqOf({"nosocket", "refused", "listens"}, 1)}

bind_internal == IF is_decommissioned THEN {"invalid"} ELSE create_server_socket

bind_to_port ==
  /\ listener = "bind"
  /\ \E s \in bind_internal :
       /\ svr_sock_' = s
       /\ is_decommissioned' = (s = "invalid")
       /\ listener' = IF s = "invalid" THEN "returned" ELSE "listen"
       /\ ret' = (s # "invalid")
  /\ UNCHANGED <<incoming, is_running_, jobs_, shutdown_, worker, conn, closes>>

ThreadPool == [w \in Workers |-> AtLoop]

listen_internal ==
  /\ listener = "listen"
  /\ listener' = "accept" /\ is_running_' = TRUE
  /\ worker' = ThreadPool
  /\ UNCHANGED <<incoming, ret, svr_sock_, is_decommissioned, jobs_, shutdown_, conn, closes>>

\* A passing error of accept - no descriptor left, or a signal - changes nothing.
accept(s) ==
  /\ listener = "accept" /\ svr_sock_ = "open" /\ conn[s] = "backlog"
  /\ incoming' = s /\ conn' = [conn EXCEPT ![s] = "open"]
  /\ listener' = "enqueue"
  /\ UNCHANGED <<ret, serverVars, jobs_, shutdown_, worker, closes>>

\* Any other error closes the server's socket, unless stop() has done that.
accept_fails ==
  /\ listener = "accept"
  /\ IF svr_sock_ = "open"
     THEN svr_sock_' = "stale" /\ ret' = FALSE
     ELSE UNCHANGED <<svr_sock_, ret>>
  /\ listener' = "shutdown"
  /\ UNCHANGED <<incoming, is_running_, is_decommissioned, jobs_, shutdown_, worker,
                 conn, closes>>

QueueIsFull == max_queued_requests_ > 0 /\ Len(jobs_) >= max_queued_requests_

\* Mutant: the job is queued before the limit is looked at.
Mutant_enqueue ==
  /\ listener = "enqueue"
  /\ jobs_' = Append(jobs_, incoming)
  /\ IF QueueIsFull
     THEN close_socket(incoming) /\ listener' = "accept"
     ELSE listener' = "notify" /\ UNCHANGED <<conn, closes>>
  /\ incoming' = None
  /\ UNCHANGED <<ret, serverVars, shutdown_, worker>>

enqueue ==
  /\ listener = "enqueue"
  /\ IF QueueIsFull
     THEN close_socket(incoming) /\ listener' = "accept" /\ UNCHANGED jobs_
     ELSE /\ jobs_' = Append(jobs_, incoming) /\ listener' = "notify"
          /\ UNCHANGED <<conn, closes>>
  /\ incoming' = None
  /\ UNCHANGED <<ret, serverVars, shutdown_, worker>>

\* Mutant: the listener does not wake a worker.
Mutant_notify_one ==
  /\ listener = "notify" /\ listener' = "accept"
  /\ UNCHANGED <<incoming, ret, serverVars, jobs_, shutdown_, worker, conn, closes>>

notify_one ==
  /\ listener = "notify" /\ listener' = "accept"
  /\ IF \E w \in Workers : worker[w] = Waiting
     THEN \E w \in Workers : /\ worker[w] = Waiting
                             /\ worker' = [worker EXCEPT ![w] = AtLoop]
     ELSE UNCHANGED worker
  /\ UNCHANGED <<incoming, ret, serverVars, jobs_, shutdown_, conn, closes>>

\* ThreadPool::shutdown: the flag, notify_all, and the workers are joined.
shutdown ==
  /\ listener = "shutdown" /\ listener' = "join"
  /\ shutdown_' = TRUE
  /\ worker' = [w \in Workers |-> IF worker[w] = Waiting THEN AtLoop ELSE worker[w]]
  /\ UNCHANGED <<incoming, ret, serverVars, jobs_, conn, closes>>

join ==
  /\ listener = "join" /\ \A w \in Workers : worker[w] = Finished
  /\ listener' = "returned"
  /\ is_running_' = FALSE /\ is_decommissioned' = ~ret
  /\ UNCHANGED <<incoming, ret, svr_sock_, jobs_, shutdown_, worker, conn, closes>>

-----------------------------------------------------------------------------
(* A worker.                                                               *)

\* cond_.wait, and the next job: a worker ends only when no job is left.
take_job(w) ==
  /\ worker[w] = AtLoop
  /\ \/ /\ jobs_ # <<>>
        /\ worker' = [worker EXCEPT ![w] =
                        Worker("keep_alive", Head(jobs_), keep_alive_max_count_)]
        /\ jobs_' = Tail(jobs_)
     \/ /\ jobs_ = <<>>
        /\ worker' = [worker EXCEPT ![w] = IF shutdown_ THEN Finished ELSE Waiting]
        /\ UNCHANGED jobs_
  /\ UNCHANGED <<listener, incoming, ret, serverVars, shutdown_, conn, closes>>

\* keep_alive: the client sends a request, or the loop ends with the server's
\* socket, after an error or when the time to wait is over.
keep_alive(w) ==
  /\ worker[w].at = "keep_alive"
  /\ \E step \in {"request", "close"} : worker' = [worker EXCEPT ![w].at = step]
  /\ UNCHANGED <<listener, incoming, ret, serverVars, jobs_, shutdown_, conn, closes>>

\* process_server_socket_core, after process_request has returned.
request_done(w) ==
  LET left == worker[w].count - 1
  IN /\ worker[w].at = "request"
     /\ \E keep \in BOOLEAN :
          worker' = [worker EXCEPT ![w].count = left,
                       ![w].at = IF keep /\ left > 0 THEN "keep_alive" ELSE "close"]
     /\ UNCHANGED <<listener, incoming, ret, serverVars, jobs_, shutdown_, conn, closes>>

process_and_close_socket(w) ==
  /\ worker[w].at = "close"
  /\ close_socket(worker[w].sock)
  /\ worker' = [worker EXCEPT ![w] = AtLoop]
  /\ UNCHANGED <<listener, incoming, ret, serverVars, jobs_, shutdown_>>

WorkerStep(w) ==
  take_job(w) \/ keep_alive(w) \/ request_done(w) \/ process_and_close_socket(w)

-----------------------------------------------------------------------------
(* Clients, and another thread of the program.                             *)

Connect(s) ==
  /\ svr_sock_ = "open" /\ conn[s] = "none"
  /\ conn' = [conn EXCEPT ![s] = "backlog"]
  /\ UNCHANGED <<listener, incoming, ret, serverVars, jobs_, shutdown_, worker, closes>>

\* stop() closes the server's socket; if accept has failed at that time, the
\* descriptor it closes has been closed before.
stop ==
  /\ listener # "returned"
  /\ svr_sock_' = IF is_running_ THEN "invalid" ELSE svr_sock_
  /\ is_decommissioned' = FALSE
  /\ UNCHANGED <<listener, incoming, ret, is_running_, jobs_, shutdown_, worker, conn, closes>>

\* The program ends when listen returns.
main_returns == listener = "returned" /\ UNCHANGED vars

ListenerStep ==
  \/ bind_to_port \/ listen_internal
  \/ \E s \in Sockets : accept(s)
  \/ enqueue \/ notify_one \/ shutdown \/ join

Next ==
  \/ bind_to_port \/ listen_internal
  \/ \E s \in Sockets : accept(s) \/ Connect(s)
  \/ accept_fails \/ enqueue \/ notify_one \/ shutdown \/ join
  \/ \E w \in Workers : WorkerStep(w)
  \/ stop
  \/ main_returns

\* Threads go on: the waits for a client are bounded by the read, write and
\* keep-alive timeouts.  accept fails once the socket is closed.
Fairness ==
  /\ WF_vars(ListenerStep)
  /\ WF_vars(svr_sock_ = "invalid" /\ accept_fails)
  /\ \A w \in Workers : WF_vars(WorkerStep(w))

Spec == Init /\ [][Next]_vars /\ Fairness

-----------------------------------------------------------------------------
(* Properties.                                                             *)

\* No connection is closed twice, by two workers or by a worker and the
\* listener, and none that was accepted is left open or queued when listen
\* returns, whether it was stopped or failed.
ConnectionsClosedOnce ==
  /\ \A s \in Sockets : closes[s] = IF conn[s] = "closed" THEN 1 ELSE 0
  /\ listener = "returned" => jobs_ = <<>> /\ \A s \in Sockets : conn[s] # "open"

\* Every accepted connection gets a worker and is closed in the end, and listen
\* returns after stop(): no wake-up of a worker is lost.
PoolMakesProgress ==
  /\ \A s \in Sockets : conn[s] = "open" ~> conn[s] = "closed"
  /\ (is_running_ /\ svr_sock_ = "invalid") ~> listener = "returned"
=============================================================================
