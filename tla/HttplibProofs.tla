--------------------------- MODULE HttplibProofs ---------------------------
(***************************************************************************)
(* The server of the prototype backend, its pool and its connections.      *)
(*                                                                         *)
(* No connection is closed twice, and none is left open or queued when     *)
(* listen returns, for any number of clients and workers and any limits.   *)
(* The invariant: an open connection is in exactly one place, with the     *)
(* listener, in the queue or with one worker, and is closed by whoever has *)
(* it; and no worker ends while a job may still come or is still queued.   *)
(*                                                                         *)
(* Within one connection, for any requests, any bytes of their contents    *)
(* and any cut of the stream into reads: every answer holds what the       *)
(* ranges of its request select of the content, and as long as the answers *)
(* leave nothing unread the i-th answers the i-th request. The invariant:  *)
(* what is in the stream is what the phase of the reading goes on to read, *)
(* up to where the client has got in sending it; so nothing is left of a   *)
(* request when its answer is written, and the next line that arrives is   *)
(* the next request's.                                                     *)
(***************************************************************************)
EXTENDS HttplibServer, HttplibRequest, SequenceLemmas

Queued(s) == \E i \in 1 .. Len(jobs_) : jobs_[i] = s
HasIt(w, s) == worker[w].sock = s

\* The open connections are those someone has ...
Places ==
  \A s \in Sockets :
    conn[s] = "open" <=> \/ incoming = s
                         \/ Queued(s)
                         \/ \E w \in Workers : HasIt(w, s)

\* ... and nobody has one that another has.
OnePlace ==
  /\ \A s \in Sockets : ~(incoming = s /\ Queued(s))
  /\ \A s \in Sockets, w \in Workers :
       HasIt(w, s) => incoming # s /\ ~Queued(s)
  /\ \A s \in Sockets, v, w \in Workers : HasIt(v, s) /\ HasIt(w, s) => v = w
  /\ \A i, j \in 1 .. Len(jobs_) : jobs_[i] = jobs_[j] => i = j

ClosesInv == \A s \in Sockets : closes[s] = IF conn[s] = "closed" THEN 1 ELSE 0

Phases ==
  /\ incoming # None <=> listener = "enqueue"
  /\ shutdown_ => listener \in {"join", "returned"}
  /\ listener \in {"bind", "listen", "returned"} =>
       jobs_ = <<>> /\ \A w \in Workers : worker[w] = Finished
  /\ listener \in {"accept", "enqueue", "notify", "shutdown"} =>
       \A w \in Workers : worker[w] # Finished
  /\ listener = "join" =>
       \A w \in Workers : worker[w] = Finished => jobs_ = <<>>

Inv == TypeOK /\ Places /\ OnePlace /\ ClosesInv /\ Phases

-----------------------------------------------------------------------------
(* Workers and their connections.                                          *)

\* What a worker has is one of the connections or nothing.
LEMMA WorkerTypes ==
  /\ AtLoop.sock = None /\ Waiting.sock = None /\ Finished.sock = None
  /\ AtLoop # Finished /\ Waiting # Finished /\ AtLoop # Waiting
  /\ \A x \in Serving : x.sock \in Sockets /\ x # Finished /\ x # AtLoop /\ x # Waiting
  BY DEF AtLoop, Waiting, Finished, Worker, Serving

\* Nothing is handed over, so everything is where it was.
LEMMA NothingHandedOver ==
  ASSUME Places, OnePlace, ClosesInv, UNCHANGED <<incoming, jobs_, conn, closes>>,
         \A w \in Workers : worker'[w].sock = worker[w].sock
  PROVE  Places' /\ OnePlace' /\ ClosesInv'
  BY DEF Places, OnePlace, ClosesInv, Queued, HasIt

\* The connection that is closed was open and was with the listener or with
\* one worker: no queue or worker has it any more.
LEMMA CloseSocket ==
  ASSUME TypeOK, ClosesInv, NEW s \in Sockets, conn[s] = "open", close_socket(s)
  PROVE  /\ ClosesInv'
         /\ conn' \in [Sockets -> {"none", "backlog", "open", "closed"}]
         /\ closes' \in [Sockets -> Nat]
         /\ \A q \in Sockets : conn'[q] = "open" <=> conn[q] = "open" /\ q # s
  BY DEF TypeOK, ClosesInv, close_socket

\* The server starts in the invariant.
LEMMA InitInv == Init => Inv
  <1> SUFFICES ASSUME Init PROVE Inv
    OBVIOUS
  <1>1. TypeOK
    <2>1. jobs_ \in Seq(Sockets)
      BY EmptySeq DEF Init
    <2>2. ret \in BOOLEAN /\ is_running_ \in BOOLEAN
      BY DEF Init
    <2>3. is_decommissioned \in BOOLEAN /\ shutdown_ \in BOOLEAN
      BY DEF Init
    <2>4. worker \in [Workers -> {AtLoop, Waiting, Finished} \cup Serving]
      BY DEF Init
    <2>5. QED
      BY <2>1, <2>2, <2>3, <2>4 DEF Init, TypeOK
  <1>2. Places /\ OnePlace
    BY WorkerTypes, HttplibServerAssumption DEF Init, Places, OnePlace, Queued, HasIt
  <1>3. ClosesInv /\ Phases
    BY DEF Init, ClosesInv, Phases
  <1>4. QED
    BY <1>1, <1>2, <1>3 DEF Inv

-----------------------------------------------------------------------------
(* The listener.                                                           *)

\* bind_to_port opens the listening socket or gives up.
LEMMA BindInv ==
  ASSUME Inv, bind_to_port
  PROVE  Inv'
  <1>1. bind_internal \subseteq {"open", "invalid"}
    BY DEF bind_internal, create_server_socket, create_socket
  <1>2. PICK s \in {"open", "invalid"} :
          /\ svr_sock_' = s
          /\ is_decommissioned' = (s = "invalid")
          /\ listener' = IF s = "invalid" THEN "returned" ELSE "listen"
          /\ ret' = (s # "invalid")
    BY <1>1 DEF bind_to_port
  <1>3. /\ listener = "bind" /\ listener' \in {"listen", "returned"}
        /\ UNCHANGED <<incoming, is_running_, jobs_, shutdown_, worker, conn, closes>>
    BY <1>2 DEF bind_to_port
  <1>4. TypeOK'
    <2>1. is_decommissioned' \in BOOLEAN /\ ret' \in BOOLEAN
      BY <1>2
    <2>2. svr_sock_' \in {"invalid", "open", "stale"}
      BY <1>2
    <2>3. QED
      BY <1>3, <2>1, <2>2 DEF Inv, TypeOK
  <1>5. Places' /\ OnePlace' /\ ClosesInv'
    BY <1>3, NothingHandedOver DEF Inv
  <1>6. Phases'
    BY <1>3 DEF Inv, Phases
  <1>7. QED
    BY <1>4, <1>5, <1>6 DEF Inv

\* listen_internal creates the thread pool.
LEMMA ListenInv ==
  ASSUME Inv, listen_internal
  PROVE  Inv'
  <1>1. /\ listener = "listen" /\ listener' = "accept" /\ is_running_' = TRUE
        /\ worker' = [w \in Workers |-> AtLoop]
        /\ UNCHANGED <<incoming, ret, svr_sock_, is_decommissioned, jobs_, shutdown_,
                       conn, closes>>
    BY DEF listen_internal, ThreadPool
  <1>2. TypeOK'
    <2>1. worker' \in [Workers -> {AtLoop, Waiting, Finished} \cup Serving]
      BY <1>1
    <2>2. is_running_' \in BOOLEAN
      BY <1>1
    <2>3. QED
      BY <1>1, <2>1, <2>2 DEF Inv, TypeOK
  <1>3. \A w \in Workers : worker'[w].sock = worker[w].sock
    BY <1>1, WorkerTypes DEF Inv, Phases
  <1>4. Places' /\ OnePlace' /\ ClosesInv'
    BY <1>1, <1>3, NothingHandedOver DEF Inv
  <1>5. Phases'
    BY <1>1, WorkerTypes DEF Inv, Phases
  <1>6. QED
    BY <1>2, <1>4, <1>5 DEF Inv

\* A connection from the backlog is with the listener and nowhere else.
LEMMA AcceptInv ==
  ASSUME Inv, NEW s \in Sockets, accept(s)
  PROVE  Inv'
  <1>1. /\ listener = "accept" /\ conn[s] = "backlog" /\ incoming' = s
        /\ conn' = [conn EXCEPT ![s] = "open"] /\ listener' = "enqueue"
        /\ UNCHANGED <<ret, serverVars, jobs_, shutdown_, worker, closes>>
    BY DEF accept
  <1>2. TypeOK'
    <2>1. conn' \in [Sockets -> {"none", "backlog", "open", "closed"}]
      BY <1>1 DEF Inv, TypeOK
    <2>2. QED
      BY <1>1, <2>1 DEF Inv, TypeOK, serverVars
  <1>3. incoming = None /\ s # None
    BY <1>1, HttplibServerAssumption DEF Inv, Phases
  <1>4. ~Queued(s) /\ \A w \in Workers : ~HasIt(w, s)
    BY <1>1 DEF Inv, Places
  <1>5. Places' /\ OnePlace'
    <2>1. \A q \in Sockets : conn'[q] = "open" <=> conn[q] = "open" \/ q = s
      BY <1>1 DEF Inv, TypeOK
    <2>2. \A q \in Sockets : incoming # q
      BY <1>3, HttplibServerAssumption
    <2>3. Places'
      BY <1>1, <2>1, <2>2 DEF Inv, Places, Queued, HasIt
    <2>4. OnePlace'
      BY <1>1, <1>4, <2>2 DEF Inv, OnePlace, Queued, HasIt
    <2>5. QED
      BY <2>3, <2>4
  <1>6. ClosesInv'
    BY <1>1 DEF Inv, TypeOK, ClosesInv
  <1>7. Phases'
    BY <1>1, <1>3 DEF Inv, Phases
  <1>8. QED
    BY <1>2, <1>5, <1>6, <1>7 DEF Inv

\* A failed accept ends the loop of listen_internal.
LEMMA AcceptFailsInv ==
  ASSUME Inv, accept_fails
  PROVE  Inv'
  <1>1. /\ listener = "accept" /\ listener' = "shutdown"
        /\ UNCHANGED <<incoming, is_running_, is_decommissioned, jobs_, shutdown_,
                       worker, conn, closes>>
    BY DEF accept_fails
  <1>2. TypeOK'
    <2>1. svr_sock_' \in {"invalid", "open", "stale"}
      BY DEF accept_fails, Inv, TypeOK
    <2>2. ret' \in BOOLEAN
      BY DEF accept_fails, Inv, TypeOK
    <2>3. QED
      BY <1>1, <2>1, <2>2 DEF Inv, TypeOK
  <1>3. Places' /\ OnePlace' /\ ClosesInv'
    BY <1>1, NothingHandedOver DEF Inv
  <1>4. Phases'
    BY <1>1 DEF Inv, Phases
  <1>5. QED
    BY <1>2, <1>3, <1>4 DEF Inv

\* The listener hands its connection to the queue, or closes it.
LEMMA EnqueueInv ==
  ASSUME Inv, enqueue
  PROVE  Inv'
  <1>1. /\ listener = "enqueue" /\ incoming' = None
        /\ UNCHANGED <<ret, serverVars, shutdown_, worker>>
    BY DEF enqueue
  <1>2. incoming \in Sockets /\ conn[incoming] = "open" /\ ~Queued(incoming)
    BY <1>1 DEF Inv, TypeOK, Phases, Places, OnePlace
  <1>3. CASE QueueIsFull
    <2>1. close_socket(incoming) /\ listener' = "accept" /\ jobs_' = jobs_
      BY <1>3 DEF enqueue
    <2>2. /\ ClosesInv'
          /\ conn' \in [Sockets -> {"none", "backlog", "open", "closed"}]
          /\ closes' \in [Sockets -> Nat]
          /\ \A q \in Sockets : conn'[q] = "open" <=> conn[q] = "open" /\ q # incoming
      BY <1>2, <2>1, CloseSocket DEF Inv
    <2>3. TypeOK'
      BY <1>1, <2>1, <2>2 DEF Inv, TypeOK, serverVars
    <2>4. Places' /\ OnePlace'
      <3>1. Places'
        BY <1>1, <1>2, <2>1, <2>2, HttplibServerAssumption, SMTT(30)
        DEF Inv, Places, OnePlace, Queued, HasIt
      <3>2. OnePlace'
        BY <1>1, <2>1, HttplibServerAssumption, SMTT(30)
        DEF Inv, TypeOK, OnePlace, Queued, HasIt
      <3>3. QED
        BY <3>1, <3>2
    <2>5. Phases'
      BY <1>1, <2>1 DEF Inv, Phases
    <2>6. QED
      BY <2>2, <2>3, <2>4, <2>5 DEF Inv
  <1>4. CASE ~QueueIsFull
    <2>1. /\ jobs_' = Append(jobs_, incoming) /\ listener' = "notify"
          /\ UNCHANGED <<conn, closes>>
      BY <1>4 DEF enqueue
    <2>2. /\ jobs_' \in Seq(Sockets) /\ Len(jobs_') = Len(jobs_) + 1 /\ Len(jobs_) \in Nat
          /\ \A i \in 1 .. Len(jobs_) : jobs_'[i] = jobs_[i]
          /\ jobs_'[Len(jobs_) + 1] = incoming
      BY <1>2, <2>1 DEF Inv, TypeOK
    <2>3. TypeOK'
      BY <1>1, <2>1, <2>2 DEF Inv, TypeOK, serverVars
    <2>4. \A s \in Sockets : Queued(s)' <=> Queued(s) \/ s = incoming
      BY <2>2 DEF Queued
    <2>5. Places'
      BY <1>1, <1>2, <2>1, <2>4, HttplibServerAssumption DEF Inv, Places, HasIt
    <2>6. OnePlace'
      <3>1. \A i, j \in 1 .. Len(jobs_') : jobs_'[i] = jobs_'[j] => i = j
        BY <1>2, <2>2 DEF Inv, OnePlace, Queued
      <3>2. QED
        BY <1>1, <1>2, <2>4, <3>1, HttplibServerAssumption DEF Inv, OnePlace, HasIt
    <2>7. ClosesInv'
      BY <2>1 DEF Inv, ClosesInv
    <2>8. Phases'
      BY <1>1, <2>1 DEF Inv, Phases
    <2>9. QED
      BY <2>3, <2>5, <2>6, <2>7, <2>8 DEF Inv
  <1>5. QED
    BY <1>3, <1>4

\* notify_one of ThreadPool::enqueue wakes one waiting worker, if there is one.
LEMMA NotifyInv ==
  ASSUME Inv, notify_one
  PROVE  Inv'
  <1>1. /\ listener = "notify" /\ listener' = "accept"
        /\ UNCHANGED <<incoming, ret, serverVars, jobs_, shutdown_, conn, closes>>
    BY DEF notify_one
  <1>2. \/ UNCHANGED worker
        \/ \E w \in Workers : worker[w] = Waiting /\ worker' = [worker EXCEPT ![w] = AtLoop]
    BY DEF notify_one
  <1>3. worker' \in [Workers -> {AtLoop, Waiting, Finished} \cup Serving]
    BY <1>2 DEF Inv, TypeOK
  <1>4. /\ \A w \in Workers : worker'[w].sock = worker[w].sock
        /\ \A w \in Workers : worker'[w] = Finished => worker[w] = Finished
    BY <1>2, WorkerTypes DEF Inv, TypeOK
  <1>5. TypeOK'
    BY <1>1, <1>3 DEF Inv, TypeOK, serverVars
  <1>6. Places' /\ OnePlace' /\ ClosesInv'
    BY <1>1, <1>4, NothingHandedOver DEF Inv
  <1>7. Phases'
    BY <1>1, <1>4 DEF Inv, Phases
  <1>8. QED
    BY <1>5, <1>6, <1>7 DEF Inv

\* Every waiting worker is woken, so it looks at the queue again before it ends.
LEMMA ShutdownInv ==
  ASSUME Inv, shutdown
  PROVE  Inv'
  <1>1. /\ listener = "shutdown" /\ listener' = "join" /\ shutdown_' = TRUE
        /\ worker' = [w \in Workers |-> IF worker[w] = Waiting THEN AtLoop ELSE worker[w]]
        /\ UNCHANGED <<incoming, ret, serverVars, jobs_, conn, closes>>
    BY DEF shutdown
  <1>2. worker' \in [Workers -> {AtLoop, Waiting, Finished} \cup Serving]
    BY <1>1 DEF Inv, TypeOK
  <1>3. shutdown_' \in BOOLEAN
    BY <1>1
  <1>4. /\ \A w \in Workers : worker'[w].sock = worker[w].sock
        /\ \A w \in Workers : worker'[w] = Finished => worker[w] = Finished
    BY <1>1, WorkerTypes DEF Inv, TypeOK
  <1>5. TypeOK'
    BY <1>1, <1>2, <1>3 DEF Inv, TypeOK, serverVars
  <1>6. Places' /\ OnePlace' /\ ClosesInv'
    BY <1>1, <1>4, NothingHandedOver DEF Inv
  <1>7. Phases'
    BY <1>1, <1>4 DEF Inv, Phases
  <1>8. QED
    BY <1>5, <1>6, <1>7 DEF Inv

\* There is a worker, and it ended when no job was left.
LEMMA JoinInv ==
  ASSUME Inv, join
  PROVE  Inv'
  <1>1. /\ listener = "join" /\ listener' = "returned"
        /\ \A w \in Workers : worker[w] = Finished
        /\ UNCHANGED <<incoming, ret, svr_sock_, jobs_, shutdown_, worker, conn, closes>>
    BY DEF join
  <1>2. jobs_ = <<>>
    BY <1>1, HttplibServerAssumption DEF Inv, Phases
  <1>3. is_running_' \in BOOLEAN /\ is_decommissioned' \in BOOLEAN
    BY DEF join
  <1>4. TypeOK'
    BY <1>1, <1>3 DEF Inv, TypeOK
  <1>5. Places' /\ OnePlace' /\ ClosesInv'
    BY <1>1, NothingHandedOver DEF Inv
  <1>6. Phases'
    BY <1>1, <1>2 DEF Inv, Phases
  <1>7. QED
    BY <1>4, <1>5, <1>6 DEF Inv

-----------------------------------------------------------------------------
(* The workers.                                                            *)

\* A worker takes the first job, or finds none and waits or ends.
LEMMA TakeJobInv ==
  ASSUME Inv, NEW w \in Workers, take_job(w)
  PROVE  Inv'
  <1>1. /\ worker[w] = AtLoop
        /\ UNCHANGED <<listener, incoming, ret, serverVars, shutdown_, conn, closes>>
    BY DEF take_job
  <1>2. CASE jobs_ # <<>>
    <2> DEFINE s == Head(jobs_)
               x == Worker("keep_alive", s, keep_alive_max_count_)
    <2>1. worker' = [worker EXCEPT ![w] = x] /\ jobs_' = Tail(jobs_)
      BY <1>2 DEF take_job
    <2>2. /\ Len(jobs_) \in Nat /\ Len(jobs_) > 0 /\ s = jobs_[1] /\ s \in Sockets
          /\ jobs_' \in Seq(Sockets) /\ Len(jobs_') = Len(jobs_) - 1
          /\ \A i \in 1 .. Len(jobs_') : jobs_'[i] = jobs_[i + 1]
      BY <1>2, <2>1 DEF Inv, TypeOK
    <2>3. x \in Serving /\ x.sock = s
      BY <2>2, HttplibSettingsAssumption DEF Worker, Serving
    <2> HIDE DEF s, x
    <2>4. /\ Queued(s) /\ \A v \in Workers : ~HasIt(v, s)
          /\ \A q \in Sockets : HasIt(w, q) => FALSE
      BY <1>1, <2>2, WorkerTypes, HttplibServerAssumption DEF Inv, OnePlace, Queued, HasIt
    <2>5. \A q \in Sockets : Queued(q)' <=> Queued(q) /\ q # s
      <3>1. \A i \in 1 .. Len(jobs_) : jobs_[i] = s => i = 1
        BY <2>2 DEF Inv, OnePlace
      <3>2. \A i \in 2 .. Len(jobs_) : i - 1 \in 1 .. Len(jobs_') /\ jobs_'[i - 1] = jobs_[i]
        BY <2>2
      <3>3. ASSUME NEW q \in Sockets, Queued(q), q # s
            PROVE  Queued(q)'
        <4>1. PICK i \in 1 .. Len(jobs_) : jobs_[i] = q
          BY <3>3 DEF Queued
        <4>2. i \in 2 .. Len(jobs_)
          BY <2>2, <3>3, <4>1
        <4>3. QED
          BY <3>2, <4>1, <4>2 DEF Queued
      <3>4. ASSUME NEW q \in Sockets, Queued(q)'
            PROVE  Queued(q) /\ q # s
        <4>1. PICK i \in 1 .. Len(jobs_') : jobs_'[i] = q
          BY <3>4 DEF Queued
        <4>2. i + 1 \in 1 .. Len(jobs_) /\ i + 1 # 1 /\ jobs_[i + 1] = q
          BY <2>2, <4>1
        <4>3. QED
          BY <3>1, <4>2 DEF Queued
      <3>5. QED
        BY <3>3, <3>4
    <2>6. \A v \in Workers, q \in Sockets :
            HasIt(v, q)' <=> IF v = w THEN q = s ELSE HasIt(v, q)
      BY <2>1, <2>3 DEF Inv, TypeOK, HasIt
    <2>7. TypeOK'
      <3>1. worker' \in [Workers -> {AtLoop, Waiting, Finished} \cup Serving]
        BY <2>1, <2>3 DEF Inv, TypeOK
      <3>2. QED
        BY <1>1, <2>2, <3>1 DEF Inv, TypeOK, serverVars
    <2>8. Places'
      BY <1>1, <2>2, <2>4, <2>5, <2>6 DEF Inv, Places
    <2>9. OnePlace'
      <3>1. \A i, j \in 1 .. Len(jobs_') : jobs_'[i] = jobs_'[j] => i = j
        BY <2>2, SMTT(30) DEF Inv, OnePlace
      <3>2. QED
        BY <1>1, <2>2, <2>4, <2>5, <2>6, <3>1 DEF Inv, OnePlace
    <2>10. ClosesInv'
      BY <1>1 DEF Inv, ClosesInv
    <2>11. Phases'
      BY <1>1, <1>2, <2>1, <2>3, WorkerTypes DEF Inv, TypeOK, Phases
    <2>12. QED
      BY <2>7, <2>8, <2>9, <2>10, <2>11 DEF Inv
  <1>3. CASE jobs_ = <<>>
    <2>1. /\ worker' = [worker EXCEPT ![w] = IF shutdown_ THEN Finished ELSE Waiting]
          /\ jobs_' = jobs_
      BY <1>3 DEF take_job
    <2>2. worker' \in [Workers -> {AtLoop, Waiting, Finished} \cup Serving]
      BY <2>1 DEF Inv, TypeOK
    <2>3. /\ \A v \in Workers : worker'[v].sock = worker[v].sock
          /\ \A v \in Workers : worker'[v] = Finished => shutdown_ \/ worker[v] = Finished
      BY <1>1, <2>1, WorkerTypes DEF Inv, TypeOK
    <2>4. TypeOK'
      BY <1>1, <2>1, <2>2 DEF Inv, TypeOK, serverVars
    <2>5. Places' /\ OnePlace' /\ ClosesInv'
      BY <1>1, <2>1, <2>3, NothingHandedOver DEF Inv
    <2>6. Phases'
      BY <1>1, <1>3, <2>1, <2>3, WorkerTypes DEF Inv, Phases
    <2>7. QED
      BY <2>4, <2>5, <2>6 DEF Inv
  <1>4. QED
    BY <1>2, <1>3

\* A worker goes on with its connection.
LEMMA GoesOnInv ==
  ASSUME Inv, NEW w \in Workers, NEW x \in Serving, worker[w] \in Serving,
         x.sock = worker[w].sock, worker' = [worker EXCEPT ![w] = x],
         UNCHANGED <<listener, incoming, ret, serverVars, jobs_, shutdown_, conn, closes>>
  PROVE  Inv'
  <1>1. worker' \in [Workers -> {AtLoop, Waiting, Finished} \cup Serving]
    BY DEF Inv, TypeOK
  <1>2. /\ \A v \in Workers : worker'[v].sock = worker[v].sock
        /\ \A v \in Workers : worker'[v] = Finished <=> worker[v] = Finished
    BY WorkerTypes DEF Inv, TypeOK
  <1>3. TypeOK'
    BY <1>1 DEF Inv, TypeOK, serverVars
  <1>4. Places' /\ OnePlace' /\ ClosesInv'
    BY <1>2, NothingHandedOver DEF Inv
  <1>5. Phases'
    BY <1>2 DEF Inv, Phases
  <1>6. QED
    BY <1>3, <1>4, <1>5 DEF Inv

\* The phase of a worker tells whether it has a connection.
LEMMA ServingAt ==
  ASSUME TypeOK, NEW w \in Workers, worker[w].at \in {"keep_alive", "request", "close"}
  PROVE  /\ worker[w] \in Serving
         /\ worker[w].at # "close" => worker[w].count \in 1 .. keep_alive_max_count_
  BY DEF TypeOK, AtLoop, Waiting, Finished, Worker, Serving

\* The keep-alive loop of a worker counts its requests down and closes nothing.
LEMMA RequestInv ==
  ASSUME Inv, NEW w \in Workers, keep_alive(w) \/ request_done(w)
  PROVE  Inv'
  <1>1. /\ worker[w].at \in {"keep_alive", "request"}
        /\ UNCHANGED <<listener, incoming, ret, serverVars, jobs_, shutdown_, conn, closes>>
    BY DEF keep_alive, request_done
  <1>2. worker[w] \in Serving /\ worker[w].count \in 1 .. keep_alive_max_count_
    BY <1>1, ServingAt DEF Inv
  <1>3. CASE keep_alive(w)
    <2>1. PICK a \in {"request", "close"} : worker' = [worker EXCEPT ![w].at = a]
      BY <1>3 DEF keep_alive
    <2> DEFINE x == [worker[w] EXCEPT !.at = a]
    <2>2. x \in Serving /\ x.sock = worker[w].sock
      BY <1>2, HttplibSettingsAssumption DEF Serving
    <2>3. worker' = [worker EXCEPT ![w] = x]
      BY <2>1
    <2> HIDE DEF x
    <2>4. QED
      BY <1>1, <1>2, <2>2, <2>3, GoesOnInv
  <1>4. CASE request_done(w)
    <2> DEFINE rest == worker[w].count - 1
    <2>1. PICK keep \in BOOLEAN :
            worker' = [worker EXCEPT ![w].count = rest,
                         ![w].at = IF keep /\ rest > 0 THEN "keep_alive" ELSE "close"]
      BY <1>4 DEF request_done
    <2> DEFINE a == IF keep /\ rest > 0 THEN "keep_alive" ELSE "close"
               x == [worker[w] EXCEPT !.count = rest, !.at = a]
    <2>2. /\ rest \in 0 .. keep_alive_max_count_
          /\ a \in {"keep_alive", "close"}
          /\ a = "keep_alive" => rest > 0
      BY <1>2, HttplibSettingsAssumption
    <2>3. worker' = [worker EXCEPT ![w] = x]
      BY <2>1
    <2> HIDE DEF a, rest
    <2>4. x \in Serving /\ x.sock = worker[w].sock
      <3>1. worker[w] \in [at : {"keep_alive", "request"}, sock : Sockets,
                           count : 1 .. keep_alive_max_count_]
        BY <1>1, <1>2 DEF Serving
      <3>2. CASE a = "keep_alive"
        <4>1. rest \in 1 .. keep_alive_max_count_
          BY <2>2, <3>2, HttplibSettingsAssumption
        <4>2. QED
          BY <3>1, <3>2, <4>1 DEF Serving
      <3>3. CASE a = "close"
        BY <2>2, <3>1, <3>3 DEF Serving
      <3>4. QED
        BY <2>2, <3>2, <3>3
    <2> HIDE DEF x
    <2>5. QED
      BY <1>1, <1>2, <2>3, <2>4, GoesOnInv
  <1>5. QED
    BY <1>3, <1>4

\* A worker closes its connection, which nobody else has.
LEMMA CloseInv ==
  ASSUME Inv, NEW w \in Workers, process_and_close_socket(w)
  PROVE  Inv'
  <1> DEFINE s == worker[w].sock
  <1>1. /\ worker[w].at = "close" /\ close_socket(s)
        /\ worker' = [worker EXCEPT ![w] = AtLoop]
        /\ UNCHANGED <<listener, incoming, ret, serverVars, jobs_, shutdown_>>
    BY DEF process_and_close_socket
  <1>2. worker[w] \in Serving /\ s \in Sockets /\ worker[w] # Finished
    BY <1>1, ServingAt, WorkerTypes DEF Inv
  <1>3. HasIt(w, s)
    BY DEF HasIt
  <1> HIDE DEF s
  <1>4. conn[s] = "open"
    BY <1>2, <1>3 DEF Inv, Places
  <1>5. /\ ClosesInv'
        /\ conn' \in [Sockets -> {"none", "backlog", "open", "closed"}]
        /\ closes' \in [Sockets -> Nat]
        /\ \A q \in Sockets : conn'[q] = "open" <=> conn[q] = "open" /\ q # s
    BY <1>1, <1>2, <1>4, CloseSocket DEF Inv
  <1>6. worker' \in [Workers -> {AtLoop, Waiting, Finished} \cup Serving]
    BY <1>1 DEF Inv, TypeOK
  <1>7. \A v \in Workers, q \in Sockets : HasIt(v, q)' <=> v # w /\ HasIt(v, q)
    BY <1>1, WorkerTypes, HttplibServerAssumption DEF Inv, TypeOK, HasIt
  <1>8. \A q \in Sockets : HasIt(w, q) => q = s
    BY <1>3 DEF HasIt
  <1>9. TypeOK'
    BY <1>1, <1>5, <1>6 DEF Inv, TypeOK, serverVars
  <1>10. Places'
    BY <1>1, <1>2, <1>3, <1>5, <1>7, <1>8 DEF Inv, Places, OnePlace, Queued
  <1>11. OnePlace'
    BY <1>1, <1>7 DEF Inv, OnePlace, Queued
  <1>12. Phases'
    BY <1>1, <1>2, WorkerTypes DEF Inv, TypeOK, Phases
  <1>13. QED
    BY <1>5, <1>9, <1>10, <1>11, <1>12 DEF Inv

-----------------------------------------------------------------------------
(* All steps together.                                                     *)

\* Every step of the server and its pool keeps the invariant.
LEMMA NextInv == Inv /\ [Next]_vars => Inv'
  <1> SUFFICES ASSUME Inv, [Next]_vars PROVE Inv'
    OBVIOUS
  <1>1. CASE bind_to_port \/ listen_internal \/ accept_fails
    BY <1>1, BindInv, ListenInv, AcceptFailsInv
  <1>2. CASE \E s \in Sockets : accept(s)
    BY <1>2, AcceptInv
  <1>3. CASE enqueue \/ notify_one \/ shutdown \/ join
    BY <1>3, EnqueueInv, NotifyInv, ShutdownInv, JoinInv
  <1>4. CASE \E w \in Workers : WorkerStep(w)
    BY <1>4, TakeJobInv, RequestInv, CloseInv DEF WorkerStep
  <1>5. CASE \E s \in Sockets : Connect(s)
    <2>1. PICK s \in Sockets : Connect(s)
      BY <1>5
    <2>2. /\ conn' = [conn EXCEPT ![s] = "backlog"] /\ conn[s] = "none"
          /\ UNCHANGED <<listener, incoming, ret, serverVars, jobs_, shutdown_, worker,
                         closes>>
      BY <2>1 DEF Connect
    <2>3. /\ conn' \in [Sockets -> {"none", "backlog", "open", "closed"}]
          /\ \A q \in Sockets : conn'[q] = "open" <=> conn[q] = "open"
          /\ \A q \in Sockets : conn'[q] = "closed" <=> conn[q] = "closed"
      BY <2>2 DEF Inv, TypeOK
    <2>4. TypeOK'
      BY <2>2, <2>3 DEF Inv, TypeOK, serverVars
    <2>5. Places' /\ OnePlace' /\ ClosesInv'
      BY <2>2, <2>3 DEF Inv, Places, OnePlace, ClosesInv, Queued, HasIt
    <2>6. Phases'
      BY <2>2 DEF Inv, Phases
    <2>7. QED
      BY <2>4, <2>5, <2>6 DEF Inv
  <1>6. CASE stop
    <2>1. svr_sock_' \in {"invalid", "open", "stale"}
      BY <1>6 DEF stop, Inv, TypeOK
    <2>2. is_decommissioned' \in BOOLEAN
      BY <1>6 DEF stop
    <2>3. UNCHANGED <<listener, incoming, ret, is_running_, jobs_, shutdown_, worker, conn,
                      closes>>
      BY <1>6 DEF stop
    <2>4. TypeOK'
      BY <2>1, <2>2, <2>3 DEF Inv, TypeOK
    <2>5. Places' /\ OnePlace' /\ ClosesInv'
      BY <2>3, NothingHandedOver DEF Inv
    <2>6. Phases'
      BY <2>3 DEF Inv, Phases
    <2>7. QED
      BY <2>4, <2>5, <2>6 DEF Inv
  <1>7. CASE UNCHANGED vars
    BY <1>7
    DEF vars, Inv, TypeOK, Places, OnePlace, ClosesInv, Phases, Queued, HasIt
  <1>8. QED
    BY <1>1, <1>2, <1>3, <1>4, <1>5, <1>6, <1>7 DEF Next, main_returns

\* The states of the listener, the pool, its workers and the connections have
\* their types; a worker serves at most keep_alive_max_count_ requests.
THEOREM PoolTypeCorrect == Spec => []TypeOK
  BY InitInv, NextInv, PTL DEF Spec, Inv

\* close_socket is called once for each connection, by the listener that finds
\* the queue full or by the worker that served it, and when listen returns the
\* queue is empty and every accepted connection is closed.
THEOREM ConnectionsAreClosedOnce == Spec => []ConnectionsClosedOnce
  <1>1. Inv => ConnectionsClosedOnce
    <2> SUFFICES ASSUME Inv PROVE ConnectionsClosedOnce
      OBVIOUS
    <2>1. ASSUME listener = "returned"
          PROVE  jobs_ = <<>> /\ \A s \in Sockets : conn[s] # "open"
      <3>1. /\ jobs_ = <<>> /\ incoming = None
            /\ \A w \in Workers : worker[w].sock = None
        BY <2>1, WorkerTypes DEF Inv, Phases
      <3>2. QED
        BY <3>1, HttplibServerAssumption DEF Inv, Places, Queued, HasIt
    <2>2. QED
      BY <2>1 DEF Inv, ClosesInv, ConnectionsClosedOnce
  <1>2. QED
    BY <1>1, InitInv, NextInv, PTL DEF Spec

-----------------------------------------------------------------------------
(* What is on a connection.                                                *)

\* What may be in the stream, and the answers.
Tokens == Lines \cup Bytes
Slice == [offset : Int, length : Int]
Answer == [req : Nat, status : Int, slices : Seq(Slice), content : Nat]

\* The phases that read from the content.
Reading == {"length", "chunk", "size", "crlf", "trailer", "trailers", "until_close"}

\* The type of the connection's state.
ConnectionTypeOK ==
  /\ settings.statusMessage \in Nat /\ settings.defaultCompanyName \in Nat
  /\ requests \in Seq(Request) /\ sent \in 0 .. Len(requests)
  /\ stream \in Seq(Tokens) /\ held \in Nat
  /\ phase \in Reading \cup {"idle", "received", "dispatch", "fail", "closed"}
  /\ phase = "fail" => status \in {400, 413, 415}
  /\ replies \in Seq(Answer)

\* There are no more request lines in the stream than requests were sent, and the
\* request being read is one of them.
ReadsARequest ==
  /\ Cardinality(RequestLines(stream)) <= sent
  /\ phase \notin {"idle", "closed"} => cur \in 1 .. Len(requests)

\* Behind its first n tokens s goes on as t does, as far as it goes.
Behind(s, n, t) ==
  /\ Len(s) <= n + Len(t)
  /\ \A j \in n + 1 .. Len(s) : s[j] = t[j - n]

\* What may come of the content of r after its first i chunks.
ChunksAfter(r, i) == LastChunks(r)[Len(r.chunks) - i]

\* The stream s in each phase of the reading of r: what comes next is what the
\* phase reads, and nothing of r is left where an orderly answer follows.
Awaited(r, at, code, l, c, s) ==
  /\ at \in {"chunk", "size", "crlf"} => c \in 0 .. Len(r.chunks)
  /\ at \in {"length", "chunk"} => l \in Nat
  /\ at = "length" => Behind(s, l, <<>>)
  /\ at = "size" => Behind(s, 0, ChunksAfter(r, c))
  /\ at = "chunk" => Behind(s, l, <<"crlf">> \o ChunksAfter(r, c))
  /\ at = "crlf" => Behind(s, 0, <<"crlf">> \o ChunksAfter(r, c))
  /\ at = "trailer" => Behind(s, 0, <<r.trailer, "crlf">>)
  /\ at = "trailers" => Behind(s, 0, <<"crlf">>)
  /\ at = "received" => s = <<>>
  /\ at = "dispatch" /\ ~Unread(r) => s = <<>>
  /\ at = "fail" /\ code = 413 => s = <<>>

\* Every answer so far left the server and the client in step.
OrderlySoFar ==
  \A i \in DOMAIN replies : replies[i].status \in Orderly /\ ~Unread(requests[replies[i].req])

\* As long as the answers were orderly, the client has had an answer to every
\* request but the last, of which nothing precedes its line, and what is being
\* read is that request.
InStep ==
  OrderlySoFar =>
    /\ phase = "idle" =>
         \/ sent = Len(replies) /\ stream = <<>>
         \/ sent = Len(replies) + 1 /\ stream # <<>> /\ Behind(stream, 0, Wire(requests[sent]))
    /\ phase \notin {"idle", "closed"} =>
         /\ sent = Len(replies) + 1 /\ cur = sent
         /\ req.connection = "close" => connection_closed
         /\ Awaited(req, phase, status, left, chunk, stream)

-----------------------------------------------------------------------------
(* The ranges.                                                             *)

\* A range as it is written: its first and its last position.
APosition == Position \X Position

\* split leaves out what is empty.
LEMMA SplitType ==
  ASSUME NEW items \in Seq(Item)
  PROVE  split(items) \in Seq(APosition)
  <1>0. PICK N \in Nat : N = Len(items)
    OBVIOUS
  <1> DEFINE A == Seq(APosition)
             Then(a, n) == IF items[n] = <<>> THEN a ELSE Append(a, items[n])
             step == [p \in A \X (1 .. N) |-> Then(p[1], p[2])]
             Rec(f) == [n \in 0 .. N |-> IF n = 0 THEN <<>> ELSE Then(f[n - 1], n)]
             parts == CHOOSE f : f = Rec(f)
  <1>1. ASSUME NEW a \in A, NEW n \in 1 .. N
        PROVE  Then(a, n) \in A
    <2>1. items[n] \in Item
      BY <1>0
    <2>2. CASE items[n] = <<>>
      BY <2>2
    <2>3. CASE items[n] # <<>>
      <3>1. items[n] \in APosition
        BY <2>1, <2>3 DEF Item, APosition
      <3>2. QED
        BY <2>3, <3>1
    <2>4. QED
      BY <2>2, <2>3
  <1>2. <<>> \in A
    OBVIOUS
  <1>3. split(items) = parts[N]
    BY <1>0 DEF split
  <1> HIDE DEF A, Then
  <1>4. step \in [A \X (1 .. N) -> A]
    BY <1>1
  <1>5. \A a \in A, n \in 1 .. N : step[<<a, n>>] = Then(a, n)
    OBVIOUS
  <1> HIDE DEF step
  <1>6. PICK g \in [0 .. N -> A] : Iterates(g, N, <<>>, step)
    BY <1>0, <1>2, <1>4, Recursion
  <1>7. ASSUME NEW n \in 1 .. N
        PROVE  g[n] = Then(g[n - 1], n)
    <2>1. g[n - 1] \in A
      BY <1>0, <1>6
    <2>2. QED
      BY <1>5, <1>6, <2>1 DEF Iterates
  <1>8. g = Rec(g)
    BY <1>0, <1>6, <1>7 DEF Iterates
  <1>9. parts = Rec(parts)
    BY <1>8
  <1> HIDE DEF parts
  <1>10. parts[0] = <<>> /\ \A n \in 1 .. N : parts[n] = Then(parts[n - 1], n)
    BY <1>0, <1>9
  <1> DEFINE T == {n \in 0 .. N : parts[n] \in A}
  <1>11. 0 \in T
    BY <1>0, <1>2, <1>10
  <1>12. ASSUME NEW n \in 1 .. N, n - 1 \in T
         PROVE  n \in T
    BY <1>0, <1>1, <1>10, <1>12
  <1> HIDE DEF T
  <1>13. \A n \in 0 .. N : n \in T
    BY <1>0, <1>11, <1>12, SetInduction
  <1>14. parts[N] \in A
    BY <1>0, <1>13 DEF T
  <1>15. QED
    BY <1>3, <1>14 DEF A

\* A resolved range that is within the content.
Within(r, content_len) == 0 <= r[1] /\ r[1] <= r[2] /\ r[2] <= content_len - 1

\* The positions of a resolved range.
LEMMA ResolvedType ==
  ASSUME NEW r \in APosition, NEW content_len \in Nat
  PROVE  resolved(r, content_len) \in Int \X Int
  <1>1. r[1] \in Int /\ r[2] \in Int
    BY DEF APosition, Position
  <1>2. QED
    BY <1>1 DEF resolved

\* What the loop of range_error carries from range to range.
Turns ==
  [error : BOOLEAN, prev_first : Int, prev_last : Int, overlaps : Int]
FirstTurn == [error |-> FALSE, prev_first |-> -1, prev_last |-> -1, overlaps |-> 0]

\* One turn of the loop notes an error unless the range is within the content,
\* and keeps one; at its first turn there is no other error.
LEMMA NextRange ==
  ASSUME NEW acc \in Turns, NEW r \in Int \X Int, NEW content_len \in Nat
  PROVE  /\ next_range(acc, r, content_len) \in Turns
         /\ ~next_range(acc, r, content_len).error => ~acc.error /\ Within(r, content_len)
         /\ acc = FirstTurn /\ next_range(acc, r, content_len).error => ~Within(r, content_len)
  <1> DEFINE n == next_range(acc, r, content_len)
             o == acc.overlaps + (IF r[1] <= acc.prev_last THEN 1 ELSE 0)
             e == \/ acc.error
                  \/ ~(0 <= r[1] /\ r[1] <= r[2] /\ r[2] <= content_len - 1)
                  \/ r[1] <= acc.prev_first
                  \/ o > 2
  <1>1. /\ r[1] \in Int /\ r[2] \in Int
        /\ acc.error \in BOOLEAN /\ acc.prev_first \in Int
        /\ acc.prev_last \in Int /\ acc.overlaps \in Int
    BY DEF Turns
  <1>2. n = [error |-> e, prev_first |-> Max_(acc.prev_first, r[1]),
             prev_last |-> Max_(acc.prev_last, r[2]), overlaps |-> o]
    BY Zenon DEF next_range
  <1>3. /\ Max_(acc.prev_first, r[1]) \in Int /\ Max_(acc.prev_last, r[2]) \in Int
        /\ o \in Int
    BY <1>1 DEF Max_
  <1>4. e \in BOOLEAN
    BY <1>1
  <1>5. ~e => ~acc.error /\ Within(r, content_len)
    BY <1>1 DEF Within
  <1>6. acc = FirstTurn /\ Within(r, content_len) => ~e
    BY <1>1 DEF Within, FirstTurn
  <1> HIDE DEF e, o
  <1>7. n \in Turns /\ n.error = e
    BY <1>2, <1>3, <1>4 DEF Turns
  <1>8. QED
    BY <1>5, <1>6, <1>7

\* What range_error has found after n turns.
LEMMA RangeError ==
  ASSUME NEW ranges \in Seq(APosition), NEW content_len \in Nat
  PROVE  /\ ~range_error(ranges, content_len) =>
              \A k \in DOMAIN ranges : Within(resolved(ranges[k], content_len), content_len)
         /\ Len(ranges) = 1 /\ range_error(ranges, content_len) =>
              ~Within(resolved(ranges[1], content_len), content_len)
  <1>0. PICK N \in Nat : N = Len(ranges) /\ DOMAIN ranges = 1 .. N
    OBVIOUS
  <1> DEFINE A == Turns
             At(n) == resolved(ranges[n], content_len)
             Then(a, n) == next_range(a, At(n), content_len)
             step == [p \in A \X (1 .. N) |-> Then(p[1], p[2])]
             Rec(f) == [n \in 0 .. N |-> IF n = 0 THEN FirstTurn ELSE Then(f[n - 1], n)]
             turn == CHOOSE f : f = Rec(f)
             Ok(n) == Within(At(n), content_len)
  <1>1. ASSUME NEW a \in A, NEW n \in 1 .. N
        PROVE  /\ Then(a, n) \in A
               /\ ~Then(a, n).error => ~a.error /\ Ok(n)
               /\ a = FirstTurn /\ Then(a, n).error => ~Ok(n)
    <2>1. ranges[n] \in APosition
      BY <1>0
    <2>2. At(n) \in Int \X Int
      BY <2>1, ResolvedType
    <2> HIDE DEF At
    <2>3. QED
      BY <2>2, NextRange
  <1>2. FirstTurn \in A
    BY DEF Turns, FirstTurn
  <1>3. range_error(ranges, content_len) = (N > RANGE_MAX_COUNT \/ turn[N].error)
    BY <1>0, Zenon DEF range_error, FirstTurn
  <1> HIDE DEF A, Then, Ok
  <1>4. step \in [A \X (1 .. N) -> A]
    BY <1>1
  <1>5. \A a \in A, n \in 1 .. N : step[<<a, n>>] = Then(a, n)
    OBVIOUS
  <1> HIDE DEF step
  <1>6. PICK g \in [0 .. N -> A] : Iterates(g, N, FirstTurn, step)
    BY <1>0, <1>2, <1>4, Recursion
  <1>7. ASSUME NEW n \in 1 .. N
        PROVE  g[n] = Then(g[n - 1], n)
    <2>1. g[n - 1] \in A
      BY <1>0, <1>6
    <2>2. QED
      BY <1>5, <1>6, <2>1 DEF Iterates
  <1>8. g = Rec(g)
    BY <1>0, <1>6, <1>7 DEF Iterates
  <1>9. turn = Rec(turn)
    BY <1>8
  <1> HIDE DEF turn
  <1>10. turn[0] = FirstTurn /\ \A n \in 1 .. N : turn[n] = Then(turn[n - 1], n)
    BY <1>0, <1>9
  <1> DEFINE Found(n) == ~turn[n].error => \A k \in 1 .. n : Ok(k)
             T == {n \in 0 .. N : turn[n] \in A /\ Found(n)}
  <1>11. 0 \in T
    BY <1>0, <1>2, <1>10
  <1>12. ASSUME NEW n \in 1 .. N, n - 1 \in T
         PROVE  n \in T
    <2>1. turn[n - 1] \in A /\ Found(n - 1) /\ turn[n] = Then(turn[n - 1], n)
      BY <1>10, <1>12
    <2>2. turn[n] \in A /\ (~turn[n].error => ~turn[n - 1].error /\ Ok(n))
      BY <1>1, <2>1
    <2>3. \A k \in 1 .. n : k \in 1 .. n - 1 \/ k = n
      BY <1>0
    <2>4. Found(n)
      BY <2>1, <2>2, <2>3
    <2> HIDE DEF Found
    <2>5. QED
      BY <1>0, <2>2, <2>4
  <1> HIDE DEF T
  <1>13. \A n \in 0 .. N : n \in T
    BY <1>0, <1>11, <1>12, SetInduction
  <1>14. ~turn[N].error => \A k \in 1 .. N : Ok(k)
    BY <1>0, <1>13 DEF T
  <1>15. N = 1 /\ turn[N].error => ~Ok(1)
    <2> SUFFICES ASSUME N = 1, turn[N].error PROVE ~Ok(1)
      OBVIOUS
    <2>1. turn[1] = Then(turn[0], 1) /\ turn[0] = FirstTurn
      BY <1>10
    <2>2. QED
      BY <1>1, <1>2, <2>1
  <1>16. N = 1 => ~(N > RANGE_MAX_COUNT)
    BY HttplibRangesAssumption
  <1>17. QED
    BY <1>0, <1>3, <1>14, <1>15, <1>16 DEF Ok

\* The positions of a range that is within the content are those it stands for.
LEMMA ResolvedPositions ==
  ASSUME NEW r \in APosition, NEW n \in Nat, Within(resolved(r, n), n)
  PROVE  resolved(r, n)[1] .. resolved(r, n)[2] = Positions(r, n)
  <1>1. r[1] \in Int /\ r[2] \in Int /\ r[1] >= -1 /\ r[2] >= -1
    BY DEF APosition, Position
  <1> DEFINE F == IF r[1] = -1 THEN n - r[2] ELSE r[1]
             G == IF r[1] = -1 THEN n - 1 ELSE r[2]
             L == IF G = -1 \/ G >= n THEN n - 1 ELSE G
  <1>2. resolved(r, n)[1] = F /\ resolved(r, n)[2] = L
    BY DEF resolved
  <1>3. 0 <= F /\ F <= L /\ L <= n - 1 /\ F \in Int /\ L \in Int
    BY <1>1, <1>2 DEF Within
  <1>4. F .. L = {p \in 0 .. n - 1 : IF r[1] = -1 THEN p >= n - r[2]
                                     ELSE r[1] <= p /\ (r[2] = -1 \/ p <= r[2])}
    BY <1>1, <1>3
  <1>5. QED
    BY <1>2, <1>4 DEF Positions

\* A range that is not within the content has no position, or is a suffix
\* longer than the content.
LEMMA NotWithin ==
  ASSUME NEW r \in APosition, NEW n \in Nat, ~Within(resolved(r, n), n)
  PROVE  Positions(r, n) = {} \/ (r[1] = -1 /\ r[2] > n)
  <1>1. r[1] \in Int /\ r[2] \in Int /\ r[1] >= -1 /\ r[2] >= -1
    BY DEF APosition, Position
  <1> DEFINE F == IF r[1] = -1 THEN n - r[2] ELSE r[1]
             G == IF r[1] = -1 THEN n - 1 ELSE r[2]
             L == IF G = -1 \/ G >= n THEN n - 1 ELSE G
  <1>2. resolved(r, n)[1] = F /\ resolved(r, n)[2] = L
    BY DEF resolved
  <1>3. ~(0 <= F /\ F <= L /\ L <= n - 1)
    BY <1>2 DEF Within
  <1>4. QED
    BY <1>1, <1>3 DEF Positions

-----------------------------------------------------------------------------
(* The handlers.                                                           *)

\* A set of positions that is not empty has a first and a last one.
LEMMA FirstAndLast ==
  ASSUME NEW n \in Nat, NEW I \in SUBSET (1 .. n), I # {}
  PROVE  Min(I) \in I /\ Max(I) \in I
  <1>1. PICK i \in I : \A j \in I : i <= j
    <2>1. I \in SUBSET Nat
      OBVIOUS
    <2>2. QED
      BY <2>1, LeastNumber
  <1> DEFINE D == {n - i1 : i1 \in I}
  <1>2. D \in SUBSET Nat /\ D # {}
    OBVIOUS
  <1>3. PICK d \in D : \A e \in D : d <= e
    BY <1>2, LeastNumber
  <1>4. PICK m \in I : d = n - m
    OBVIOUS
  <1>5. ASSUME NEW j \in I
        PROVE  m >= j
    <2>1. n - j \in D
      OBVIOUS
    <2>2. n - m <= n - j
      BY <1>3, <1>4, <2>1
    <2>3. m \in Int /\ j \in Int
      OBVIOUS
    <2>4. QED
      BY <2>2, <2>3
  <1>6. QED
    BY <1>1, <1>5 DEF Min, Max

\* A command-line argument with its value.
OneArgument == [key : STRING, value : [number : Int, length : Nat]]

\* The texts that the arguments give have lengths.
LEMMA SettingsType ==
  ASSUME NEW args \in Seq(OneArgument)
  PROVE  /\ Settings(args).statusMessage \in Nat
         /\ Settings(args).defaultCompanyName \in Nat
  <1> DEFINE s == parseArguments(args)
             Text(k) == IF k \in s.given THEN s.map[k].length ELSE TextLength
  <1>1. ASSUME NEW k
        PROVE  Text(k) \in Nat
    <2> DEFINE I == {i \in 1 .. Len(args) : args[i].key = k}
    <2>1. CASE k \in s.given
      <3>1. PICK i \in DOMAIN args : args[i].key = k
        BY <2>1 DEF parseArguments
      <3>2. I # {} /\ I \in SUBSET (1 .. Len(args)) /\ Len(args) \in Nat
        BY <3>1
      <3>3. Max(I) \in I
        BY <3>2, FirstAndLast
      <3>4. s.map[k] = args[Max(I)].value
        BY <2>1, <3>2 DEF parseArguments, SelectLastInSeq
      <3>5. args[Max(I)].value.length \in Nat
        <4>1. args[Max(I)] \in OneArgument
          BY <3>3
        <4>2. QED
          BY <4>1 DEF OneArgument
      <3>6. QED
        BY <2>1, <3>4, <3>5
    <2>2. CASE k \notin s.given
      BY <2>2 DEF TextLength
    <2>3. QED
      BY <2>1, <2>2
  <1>2. /\ Settings(args).statusMessage = Text("status_message")
        /\ Settings(args).defaultCompanyName = Text("company_name")
    BY DEF Settings
  <1>3. QED
    BY <1>1, <1>2

\* What a handler answers, and whether it is the handler of the path.
Responses == [status : {-1, 200, 404}, length : Nat]
Handlers == [matches : BOOLEAN, response : Responses]

\* The response is that of a handler, or 404 if none matches.
LEMMA DispatchType ==
  ASSUME NEW handlers \in Seq(Handlers)
  PROVE  /\ dispatch_request(handlers).response \in Responses
         /\ dispatch_request(handlers).routed \in BOOLEAN
         /\ ~dispatch_request(handlers).routed => dispatch_request(handlers).response.status = 404
  <1> DEFINE I == {i \in 1 .. Len(handlers) : handlers[i].matches}
             found == IF I # {} THEN Min(I) ELSE 0
             d == dispatch_request(handlers)
  <1>1. d = IF found = 0 THEN [routed |-> FALSE, response |-> Response(404, 0)]
            ELSE [routed |-> TRUE, response |-> handlers[found].response]
    BY DEF dispatch_request, SelectInSeq
  <1>2. found \in I \cup {0}
    <2>1. Len(handlers) \in Nat /\ I \in SUBSET (1 .. Len(handlers))
      OBVIOUS
    <2>2. I # {} => Min(I) \in I
      BY <2>1, FirstAndLast
    <2>3. QED
      BY <2>2
  <1>3. Response(404, 0) \in Responses /\ Response(404, 0).status = 404
    BY DEF Response, Responses
  <1>4. found # 0 => handlers[found].response \in Responses
    <2> SUFFICES ASSUME found # 0 PROVE handlers[found].response \in Responses
      OBVIOUS
    <2>1. found \in 1 .. Len(handlers)
      BY <1>2
    <2> HIDE DEF found
    <2>2. handlers[found] \in Handlers
      BY <2>1
    <2>3. QED
      BY <2>2 DEF Handlers
  <1> HIDE DEF found
  <1>5. QED
    BY <1>1, <1>3, <1>4

\* What the handlers of GET answer.
LEMMA HandlersType ==
  ASSUME settings.statusMessage \in Nat, settings.defaultCompanyName \in Nat, NEW path \in Seq(STRING)
  PROVE  get_handlers_(settings, path) \in Seq(Handlers)
  <1>1. companies(path[Len(path)]).status \in {200, 404}
    BY DEF companies, Company_
  <1>2. /\ Response(-1, settings.statusMessage) \in Responses
        /\ Response(-1, settings.defaultCompanyName) \in Responses
        /\ Response(companies(path[Len(path)]).status, TextLength) \in Responses
        /\ Response(404, TextLength) \in Responses
    BY <1>1 DEF Response, Responses, TextLength
  <1>3. \A m \in BOOLEAN, x \in Responses : Get(m, x) \in Handlers
    BY DEF Get, Handlers
  <1> DEFINE h1 == Get(path = <<"status">>, Response(-1, settings.statusMessage))
             h2 == Get(path = <<"company">>, Response(-1, settings.defaultCompanyName))
             h3 == Get(Len(path) = 2 /\ path[1] = "companies",
                       Response(companies(path[Len(path)]).status, TextLength))
             h4 == Get("\n" \notin Range(path), Response(404, TextLength))
  <1>4. h1 \in Handlers /\ h2 \in Handlers /\ h3 \in Handlers /\ h4 \in Handlers
    <2>1. /\ (path = <<"status">>) \in BOOLEAN /\ (path = <<"company">>) \in BOOLEAN
          /\ (Len(path) = 2 /\ path[1] = "companies") \in BOOLEAN
          /\ ("\n" \notin Range(path)) \in BOOLEAN
      BY ZenonT(30)
    <2>2. h1 \in Handlers /\ h2 \in Handlers
      BY <1>2, <1>3, <2>1, ZenonT(30)
    <2>3. h3 \in Handlers
      BY <1>2, <1>3, <2>1, ZenonT(30)
    <2>4. h4 \in Handlers
      BY <1>2, <1>3, <2>1, ZenonT(30)
    <2>5. QED
      BY <2>2, <2>3, <2>4
  <1>5. get_handlers_(settings, path) = <<h1, h2, h3, h4>>
    BY DEF get_handlers_
  <1> HIDE DEF h1, h2, h3, h4
  <1>6. <<h1, h2, h3, h4>> \in Seq(Handlers)
    BY <1>4
  <1>7. QED
    BY <1>5, <1>6

\* What the routing answers, with a handler or without.
LEMMA RoutingType ==
  ASSUME settings.statusMessage \in Nat, settings.defaultCompanyName \in Nat, NEW r \in Request
  PROVE  /\ routing(r).routed \in BOOLEAN
         /\ routing(r).routed => routing(r).response \in Responses
         /\ ~routing(r).routed => routing(r).response.status \in {400, 404}
         /\ routing(r).response.length \in Nat
  <1>1. r.path \in Seq(STRING)
    BY DEF Request, AnyRequest
  <1> DEFINE h == get_handlers_(settings, r.path)
  <1>2. h \in Seq(Handlers) /\ <<>> \in Seq(Handlers)
    BY <1>1, HandlersType
  <1> HIDE DEF h
  <1>3. \A x \in Responses : x.length \in Nat
    BY DEF Responses
  <1>4. /\ Response(400, 0).status = 400 /\ Response(400, 0).length \in Nat
    BY DEF Response
  <1> DEFINE d(x) == dispatch_request(x)
  <1>5. ASSUME NEW x \in Seq(Handlers)
        PROVE  /\ d(x).response \in Responses /\ d(x).routed \in BOOLEAN
               /\ ~d(x).routed => d(x).response.status = 404
    BY DispatchType
  <1> DEFINE o == [routed |-> FALSE, response |-> Response(400, 0)]
  <1>6. \/ routing(r) = d(h)
        \/ routing(r) = d(<<>>)
        \/ routing(r) = o
    BY DEF routing, h
  <1>7. o.routed = FALSE /\ o.response = Response(400, 0)
    OBVIOUS
  <1> HIDE DEF d, o
  <1>8. CASE \E x \in Seq(Handlers) : routing(r) = d(x)
    BY <1>3, <1>5, <1>8
  <1>9. CASE routing(r) = o
    <2>1. routing(r).routed = FALSE /\ routing(r).response = Response(400, 0)
      BY <1>7, <1>9
    <2>2. routing(r).response.status = 400 /\ routing(r).response.length \in Nat
      BY <1>4, <2>1, Zenon
    <2>3. QED
      BY <2>1, <2>2
  <1>10. QED
    BY <1>2, <1>6, <1>8, <1>9

\* The slices of an answer with ranges that are within the content.
LEMMA Slices ==
  ASSUME NEW ranges \in Seq(APosition), NEW n \in Nat, NEW code
  PROVE  /\ apply_ranges(ranges, code, n) \in Seq(Slice)
         /\ ranges = <<>> \/ code # 206 =>
              apply_ranges(ranges, code, n) = <<[offset |-> 0, length |-> n]>>
         /\ ranges # <<>> /\ code = 206 =>
              /\ Len(apply_ranges(ranges, code, n)) = Len(ranges)
              /\ \A k \in DOMAIN ranges :
                   apply_ranges(ranges, code, n)[k]
                     = [offset |-> resolved(ranges[k], n)[1],
                        length |-> resolved(ranges[k], n)[2] - resolved(ranges[k], n)[1] + 1]
  <1> DEFINE S(k) == [offset |-> resolved(ranges[k], n)[1],
                      length |-> resolved(ranges[k], n)[2] - resolved(ranges[k], n)[1] + 1]
             all == [k \in DOMAIN ranges |-> S(k)]
             whole == <<[offset |-> 0, length |-> n]>>
  <1>1. apply_ranges(ranges, code, n) = IF ranges = <<>> \/ code # 206 THEN whole ELSE all
    BY DEF apply_ranges, make_multipart_ranges_data, get_range_offset_and_length
  <1>2. whole \in Seq(Slice)
    BY DEF Slice
  <1>3. ASSUME NEW k \in DOMAIN ranges
        PROVE  S(k) \in Slice
    <2>1. ranges[k] \in APosition
      OBVIOUS
    <2>2. resolved(ranges[k], n)[1] \in Int /\ resolved(ranges[k], n)[2] \in Int
      BY <2>1, ResolvedType
    <2>3. QED
      BY <2>2 DEF Slice
  <1>4. DOMAIN ranges = 1 .. Len(ranges) /\ Len(ranges) \in Nat
    OBVIOUS
  <1> HIDE DEF S, whole
  <1>5. all \in Seq(Slice) /\ Len(all) = Len(ranges)
    BY <1>3, <1>4, IsASeq
  <1>6. \A k \in DOMAIN ranges : all[k] = S(k)
    OBVIOUS
  <1> HIDE DEF all
  <1>7. QED
    BY <1>1, <1>2, <1>5, <1>6 DEF S, whole

-----------------------------------------------------------------------------
(* An answer holds its ranges.                                             *)

\* The answer holds the ranges of the request it answers.
HoldsItsRanges(a) ==
  HoldsRanges(a, requests[a.req], routing(requests[a.req]).response.length)

\* An error has no content.
LEMMA ErrorAnswer ==
  ASSUME cur' \in Nat, NEW code \in Int
  PROVE  /\ ErrorReply(code) \in Answer
         /\ ErrorReply(code).req = cur' /\ ErrorReply(code).status = code
         /\ code \notin {206, 416} => HoldsItsRanges(ErrorReply(code))
         /\ code = 416 /\ ~parse_range_header(requests[cur'].range)
              => HoldsItsRanges(ErrorReply(code))
  <1> DEFINE e == ErrorReply(code)
  <1>1. e = [req |-> cur', status |-> code, slices |-> <<>>, content |-> 0]
    BY DEF ErrorReply, Reply
  <1>2. e.req = cur' /\ e.status = code /\ e.slices = <<>> /\ e.content = 0
    BY <1>1
  <1>3. e \in Answer
    BY <1>1 DEF Answer
  <1> HIDE DEF e
  <1>4. code \notin {206, 416} => HoldsItsRanges(e)
    <2>1. DOMAIN e.slices = {}
      BY <1>2
    <2>2. QED
      BY <1>2, <2>1 DEF HoldsItsRanges, HoldsRanges
  <1>5. code = 416 /\ ~parse_range_header(requests[cur'].range) => HoldsItsRanges(e)
    BY <1>2 DEF HoldsItsRanges, HoldsRanges
  <1>6. QED
    BY <1>2, <1>3, <1>4, <1>5 DEF e

\* The answer of a handler holds what its request asks for, whatever the ranges.
LEMMA HandlerAnswer ==
  ASSUME settings.statusMessage \in Nat, settings.defaultCompanyName \in Nat,
         requests \in Seq(Request), cur \in 1 .. Len(requests), cur' = cur
  PROVE  /\ write_response(req) \in Answer /\ write_response(req).req = cur
         /\ HoldsItsRanges(write_response(req))
  <1> DEFINE r == requests[cur]
             routes == routing(r)
             items == split(r.range.items)
             ranges == IF r.range.present THEN items ELSE <<>>
             length == routes.response.length
             code == IF routes.response.status # -1 THEN routes.response.status
                     ELSE IF ranges = <<>> THEN 200 ELSE 206
             a == write_response(req)
             whole == Reply(code, apply_ranges(ranges, code, length), length)
  <1>1. r \in Request /\ cur' \in Nat
    OBVIOUS
  <1>2. r.range.items \in Seq(Item) /\ r.range.present \in BOOLEAN
    BY <1>1 DEF Request, AnyRequest
  <1>3. items \in Seq(APosition) /\ ranges \in Seq(APosition)
    BY <1>2, SplitType
  <1>4. /\ routes.routed \in BOOLEAN
        /\ routes.routed => routes.response \in Responses
        /\ ~routes.routed => routes.response.status \in {400, 404}
        /\ length \in Nat
    BY <1>1, RoutingType
  <1>5. a = CASE ~routes.routed -> ErrorReply(routes.response.status)
              [] routes.routed /\ ranges # <<>> /\ code \in 200 .. 299
                   /\ range_error(ranges, length) -> ErrorReply(416)
              [] OTHER -> whole
    BY DEF write_response, req
  <1>6. requests[cur'] = r
    OBVIOUS
  <1>7. ranges = items \/ ranges = <<>>
    OBVIOUS
  <1>8. ranges \in Seq(APosition) /\ items \in Seq(APosition)
    BY <1>3
  <1> HIDE DEF a, r, routes, items, length, ranges
  <1>9. CASE ~routes.routed
    <2>1. a = ErrorReply(routes.response.status) /\ routes.response.status \in {400, 404}
      BY <1>4, <1>5, <1>9
    <2>2. QED
      BY <1>1, <2>1, ErrorAnswer DEF a
  <1>10. CASE routes.routed
    <2>1. routes.response.status \in {-1, 200, 404}
      BY <1>4, <1>10 DEF Responses
    <2>2. /\ code \in {200, 206, 404}
          /\ code = 206 <=> routes.response.status = -1 /\ ranges # <<>>
      BY <2>1
    <2> HIDE DEF code
    <2> DEFINE refused == ranges # <<>> /\ code \in 200 .. 299 /\ range_error(ranges, length)
    <2>3. CASE refused
      <3>1. a = ErrorReply(416)
        BY <1>5, <1>10, <2>3
      <3>2. a \in Answer /\ a.req = cur /\ a.status = 416
        BY <1>1, <3>1, ErrorAnswer
      <3>3. items # <<>> /\ range_error(items, length)
        BY <1>7, <2>3
      <3>4. \/ Len(items) > 1
            \/ Positions(items[1], length) = {}
            \/ items[1][1] = -1 /\ items[1][2] > length
        <4>1. CASE Len(items) = 1
          <5>1. ~Within(resolved(items[1], length), length)
            BY <1>4, <1>8, <3>3, <4>1, RangeError
          <5>2. items[1] \in APosition
            BY <1>8, <4>1, SMTT(30)
          <5>3. QED
            BY <1>4, <5>1, <5>2, NotWithin
        <4>2. Len(items) = 1 \/ Len(items) > 1
          <5>1. PICK n \in Nat : n = Len(items)
            BY <1>8, LenProperties
          <5>2. n # 0
            BY <1>8, <3>3, <5>1, EmptySeq
          <5>3. n = 1 \/ n > 1
            BY <5>2
          <5>4. QED
            BY <5>1, <5>3
        <4>3. QED
          BY <4>1, <4>2, Zenon
      <3>5. HoldsItsRanges(a)
        BY <1>6, <3>2, <3>4 DEF HoldsItsRanges, HoldsRanges, items, length, routes, r
      <3>6. QED
        BY <3>2, <3>5 DEF a
    <2>4. CASE ~refused
      <3> DEFINE slices == apply_ranges(ranges, code, length)
      <3>1. a = [req |-> cur, status |-> code, slices |-> slices, content |-> length]
        BY <1>5, <1>10, <2>4 DEF Reply
      <3>2. /\ slices \in Seq(Slice)
            /\ code # 206 => slices = <<[offset |-> 0, length |-> length]>>
        <4>1. slices \in Seq(Slice)
          BY <1>4, <1>8, Slices
        <4>2. code # 206 => slices = <<[offset |-> 0, length |-> length]>>
          BY DEF apply_ranges
        <4>3. QED
          BY <4>1, <4>2
      <3>3. /\ a \in Answer /\ a.req = cur /\ a.status = code /\ a.slices = slices
            /\ a.content = length
        BY <1>1, <1>4, <2>2, <3>1, <3>2 DEF Answer
      <3>4. CASE code # 206
        <4>1. /\ DOMAIN slices = {1} /\ slices[1].offset = 0 /\ slices[1].length = length
          BY <3>2, <3>4
        <4> HIDE DEF slices, refused
        <4>2. \A k \in DOMAIN a.slices :
                a.slices[k].offset .. a.slices[k].offset + a.slices[k].length - 1
                  = 0 .. a.content - 1
          BY <1>4, <3>3, <4>1
        <4>3. a.status # 206 /\ a.status # 416
          BY <2>2, <3>3, <3>4
        <4>4. HoldsItsRanges(a)
          BY <4>2, <4>3 DEF HoldsItsRanges, HoldsRanges
        <4>5. QED
          BY <3>3, <4>4 DEF a
      <3>5. CASE code = 206
        <4>1. ranges = items /\ items # <<>> /\ ~range_error(items, length)
          BY <1>7, <2>2, <2>4, <3>5
        <4>2. \A k \in DOMAIN items : Within(resolved(items[k], length), length)
          BY <1>4, <1>8, <4>1, RangeError
        <4>3. /\ Len(slices) = Len(items)
              /\ \A k \in DOMAIN items :
                   slices[k] = [offset |-> resolved(items[k], length)[1],
                                length |-> resolved(items[k], length)[2]
                                             - resolved(items[k], length)[1] + 1]
          BY <1>4, <1>8, <3>5, <4>1, Slices
        <4> HIDE DEF slices, refused
        <4>4. ASSUME NEW k \in DOMAIN items
              PROVE  /\ slices[k].length > 0
                     /\ slices[k].offset .. slices[k].offset + slices[k].length - 1
                          = Positions(items[k], length)
          <5> DEFINE F == resolved(items[k], length)[1]
                     L == resolved(items[k], length)[2]
          <5>1. items[k] \in APosition
            BY <1>8
          <5>2. F \in Int /\ L \in Int
            BY <1>4, <5>1, ResolvedType, SMTT(30)
          <5>3. F <= L
            BY <4>2 DEF Within
          <5>4. F .. L = Positions(items[k], length)
            BY <1>4, <4>2, <5>1, ResolvedPositions
          <5>5. slices[k].offset = F /\ slices[k].length = L - F + 1
            <6>1. slices[k] = [offset |-> F, length |-> L - F + 1]
              BY <4>3
            <6> HIDE DEF F, L
            <6>2. QED
              BY <6>1
          <5> HIDE DEF F, L
          <5>6. F + (L - F + 1) - 1 = L /\ L - F + 1 > 0
            BY <5>2, <5>3
          <5>7. QED
            BY <5>4, <5>5, <5>6
        <4>5. HoldsItsRanges(a)
          BY <1>6, <3>3, <3>5, <4>3, <4>4 DEF HoldsItsRanges, HoldsRanges, items, r
        <4>6. QED
          BY <3>3, <4>5 DEF a
      <3>6. QED
        BY <3>4, <3>5
    <2>5. QED
      BY <2>3, <2>4
  <1>11. QED
    BY <1>4, <1>9, <1>10

-----------------------------------------------------------------------------
(* The stream.                                                             *)

\* What is left of a sequence when its first k elements are taken.
LEMMA Erased ==
  ASSUME NEW C, NEW s \in Seq(C), NEW k \in Nat
  PROVE  /\ Erase(s, k) \in Seq(C)
         /\ Len(Erase(s, k)) = IF k <= Len(s) THEN Len(s) - k ELSE 0
         /\ \A i \in 1 .. Len(Erase(s, k)) : i + k \in 1 .. Len(s) /\ Erase(s, k)[i] = s[i + k]
  <1>1. CASE k <= Len(s)
    <2>1. k \in 0 .. Len(s) /\ Len(s) \in k .. Len(s)
      BY <1>1
    <2>2. /\ SubSeq(s, k + 1, Len(s)) \in Seq(C)
          /\ Len(SubSeq(s, k + 1, Len(s))) = Len(s) - k
          /\ \A i \in 1 .. Len(s) - k : SubSeq(s, k + 1, Len(s))[i] = s[k + i]
      BY <2>1, PartOf
    <2>3. \A i \in 1 .. Len(s) - k : i + k \in 1 .. Len(s) /\ i + k = k + i
      BY <1>1
    <2>4. QED
      BY <1>1, <2>2, <2>3 DEF Erase
  <1>2. CASE k > Len(s)
    <2>1. SubSeq(s, k + 1, Len(s)) = <<>>
      BY <1>2
    <2>2. QED
      BY <1>2, <2>1 DEF Erase
  <1>3. QED
    BY <1>1, <1>2

\* The request lines of a stream can be counted.
LEMMA LinesFinite ==
  ASSUME NEW s \in Seq(Tokens)
  PROVE  IsFiniteSet(RequestLines(s)) /\ Cardinality(RequestLines(s)) \in Nat
  <1>1. RequestLines(s) \in SUBSET (1 .. Len(s)) /\ Len(s) \in Nat
    BY DEF RequestLines
  <1>2. IsFiniteSet(1 .. Len(s))
    BY <1>1, FS_Interval
  <1>3. IsFiniteSet(RequestLines(s))
    BY <1>1, <1>2, FS_Subset
  <1>4. QED
    BY <1>3, FS_CardinalityType

\* Reading adds no request line.
LEMMA FewerLines ==
  ASSUME NEW s \in Seq(Tokens), NEW k \in Nat
  PROVE  Cardinality(RequestLines(Erase(s, k))) <= Cardinality(RequestLines(s))
  <1> DEFINE S == RequestLines(Erase(s, k))
             T == RequestLines(s)
             f == [i \in S |-> i + k]
  <1>1. S \in SUBSET Int
    <2>1. Erase(s, k) \in Seq(Tokens)
      BY Erased
    <2>2. QED
      BY <2>1 DEF RequestLines
  <1>2. ASSUME NEW i \in S
        PROVE  i + k \in T
    <2>1. Erase(s, k) \in Seq(Tokens)
      BY Erased
    <2>2. i \in 1 .. Len(Erase(s, k)) /\ Erase(s, k)[i] \in {"line", "badline"}
      BY <2>1 DEF RequestLines
    <2>3. i + k \in 1 .. Len(s) /\ Erase(s, k)[i] = s[i + k]
      BY <2>2, Erased
    <2>4. QED
      BY <2>2, <2>3 DEF RequestLines
  <1> HIDE DEF S, T
  <1>3. f \in Injection(S, T)
    BY <1>1, <1>2 DEF Injection, IsInjective
  <1>4. IsFiniteSet(T)
    BY LinesFinite DEF T
  <1> HIDE DEF f
  <1>5. QED
    BY <1>3, <1>4, FS_Injection DEF S, T

\* What is sent adds at most one.
LEMMA OneMoreLine ==
  ASSUME NEW s \in Seq(Tokens), NEW t \in Seq(Tokens), RequestLines(t) \subseteq {1}
  PROVE  Cardinality(RequestLines(s \o t)) <= Cardinality(RequestLines(s)) + 1
  <1> DEFINE S == RequestLines(s)
             x == Len(s) + 1
             T == RequestLines(s \o t)
  <1>1. T \subseteq S \cup {x}
    <2> SUFFICES ASSUME NEW i \in T PROVE i \in S \/ i = x
      OBVIOUS
    <2>1. s \o t \in Seq(Tokens) /\ i \in 1 .. Len(s \o t) /\ (s \o t)[i] \in {"line", "badline"}
      BY DEF RequestLines
    <2>2. Len(s \o t) = Len(s) + Len(t) /\ Len(s) \in Nat /\ Len(t) \in Nat
      OBVIOUS
    <2>3. CASE i <= Len(s)
      <3>1. i \in 1 .. Len(s) /\ (s \o t)[i] = s[i]
        BY <2>1, <2>2, <2>3
      <3>2. QED
        BY <2>1, <3>1 DEF RequestLines
    <2>4. CASE i > Len(s)
      <3>1. i - Len(s) \in 1 .. Len(t) /\ (s \o t)[i] = t[i - Len(s)]
        BY <2>1, <2>2, <2>4
      <3>2. i - Len(s) \in RequestLines(t)
        BY <2>1, <3>1 DEF RequestLines
      <3>3. i - Len(s) = 1
        BY <3>2
      <3>4. QED
        BY <2>1, <2>2, <3>3
    <2>5. QED
      BY <2>1, <2>2, <2>3, <2>4
  <1>2. IsFiniteSet(S) /\ Cardinality(S) \in Nat
    BY LinesFinite
  <1> HIDE DEF S, x, T
  <1>3. IsFiniteSet(S \cup {x}) /\ Cardinality(S \cup {x}) <= Cardinality(S) + 1
    <2>1. /\ IsFiniteSet(S \cup {x})
          /\ Cardinality(S \cup {x}) = IF x \in S THEN Cardinality(S) ELSE Cardinality(S) + 1
      BY <1>2, FS_AddElement
    <2>2. QED
      BY <1>2, <2>1
  <1>4. Cardinality(T) <= Cardinality(S \cup {x}) /\ Cardinality(T) \in Nat
    BY <1>1, <1>3, FS_Subset, FS_CardinalityType
  <1>5. Cardinality(S \cup {x}) \in Nat
    BY <1>3, FS_CardinalityType
  <1>6. QED
    BY <1>2, <1>3, <1>4, <1>5 DEF S, T

\* Tokens of a body: no line of a request is among them.
BodyTokens == Tokens \ {"line", "badline"}

\* The chunks follow one another, up to what ends the content.
ChunksInOrder(r) ==
  /\ LastChunks(r)[0] = <<r.lastchunk, r.trailer, "crlf">>
  /\ \A n \in 0 .. Len(r.chunks) : LastChunks(r)[n] \in Seq(BodyTokens)
  /\ \A n \in 1 .. Len(r.chunks) :
       LastChunks(r)[n] = <<"size">> \o r.chunks[Len(r.chunks) - n + 1] \o <<"crlf">>
                            \o LastChunks(r)[n - 1]

\* No byte of a content is the line of a request.
LEMMA BytesAreBodyTokens ==
  ASSUME NEW q \in Seq(Bytes)
  PROVE  q \in Seq(BodyTokens)
  <1>1. Bytes \subseteq BodyTokens
    BY HttplibRequestAssumption DEF BodyTokens, Tokens, Lines
  <1>2. QED
    BY <1>1, SeqMonotonic

\* LastChunks puts the chunks in this order, for any number of them.
LEMMA ChunksFollow ==
  ASSUME NEW r \in Request
  PROVE  ChunksInOrder(r)
  <1>1. /\ r.chunks \in Seq(Seq(Bytes) \ {<<>>}) /\ r.lastchunk \in {"last", "badsize"}
        /\ r.trailer \in {"trailer", "longtrailer"}
    BY DEF Request, AnyRequest
  <1>2. PICK N \in Nat : N = Len(r.chunks)
    BY <1>1
  <1> DEFINE A == Seq(BodyTokens)
             base == <<r.lastchunk, r.trailer, "crlf">>
             C(n) == r.chunks[N - n + 1]
             Then(a, n) == <<"size">> \o C(n) \o <<"crlf">> \o a
             step == [p \in A \X (1 .. N) |-> Then(p[1], p[2])]
             Rec(f) == [n \in 0 .. N |-> IF n = 0 THEN base ELSE Then(f[n - 1], n)]
             last == CHOOSE f : f = Rec(f)
  <1>3. LastChunks(r) = last
    BY <1>2 DEF LastChunks
  <1>4. {"last", "badsize", "trailer", "longtrailer", "crlf", "size"} \subseteq BodyTokens
    BY DEF BodyTokens, Tokens, Lines
  <1>5. base \in A
    BY <1>1, <1>4
  <1>6. ASSUME NEW a \in A, NEW n \in 1 .. N
        PROVE  Then(a, n) \in A
    <2>1. N - n + 1 \in 1 .. N
      BY <1>2
    <2>2. C(n) \in Seq(Bytes)
      BY <1>1, <1>2, <2>1
    <2> HIDE DEF C
    <2>3. C(n) \in Seq(BodyTokens)
      BY <2>2, BytesAreBodyTokens
    <2>4. <<"size">> \in Seq(BodyTokens) /\ <<"crlf">> \in Seq(BodyTokens)
      BY <1>4
    <2>5. QED
      BY <2>3, <2>4
  <1> HIDE DEF A, Then, base
  <1>7. step \in [A \X (1 .. N) -> A]
    BY <1>6
  <1>8. \A a \in A, n \in 1 .. N : step[<<a, n>>] = Then(a, n)
    OBVIOUS
  <1> HIDE DEF step
  <1>9. PICK g \in [0 .. N -> A] : Iterates(g, N, base, step)
    BY <1>2, <1>5, <1>7, Recursion
  <1>10. ASSUME NEW n \in 1 .. N
         PROVE  g[n] = Then(g[n - 1], n)
    <2>1. g[n - 1] \in A
      BY <1>2, <1>9
    <2>2. QED
      BY <1>8, <1>9, <2>1 DEF Iterates
  <1>11. g = Rec(g)
    BY <1>2, <1>9, <1>10 DEF Iterates
  <1>12. last = Rec(last)
    BY <1>11
  <1> HIDE DEF last
  <1>13. last[0] = base /\ \A n \in 1 .. N : last[n] = Then(last[n - 1], n)
    <2>1. \A n \in 0 .. N : last[n] = IF n = 0 THEN base ELSE Then(last[n - 1], n)
      BY <1>12, Zenon
    <2>2. 0 \in 0 .. N /\ \A n \in 1 .. N : n \in 0 .. N /\ n # 0
      BY <1>2
    <2>3. QED
      BY <2>1, <2>2, Zenon
  <1> DEFINE T == {n \in 0 .. N : last[n] \in A}
  <1>14. 0 \in T
    BY <1>2, <1>5, <1>13
  <1>15. ASSUME NEW n \in 1 .. N, n - 1 \in T
         PROVE  n \in T
    BY <1>2, <1>6, <1>13, <1>15
  <1> HIDE DEF T
  <1>16. \A n \in 0 .. N : n \in T
    BY <1>2, <1>14, <1>15, SetInduction
  <1>17. \A n \in 0 .. N : last[n] \in A
    BY <1>16 DEF T
  <1>18. QED
    BY <1>2, <1>3, <1>13, <1>17 DEF ChunksInOrder, A, base, Then

\* The body of a request on the connection.
BodyOf(r) == IF r.framing = "chunked" THEN LastChunks(r)[Len(r.chunks)] ELSE r.content

\* A request on the connection: its line, its headers, the blank line, its body.
LEMMA WireParts ==
  ASSUME NEW r \in Request
  PROVE  /\ Wire(r) \in Seq(Tokens) /\ BodyOf(r) \in Seq(BodyTokens)
         /\ Len(Wire(r)) = 3 + Len(BodyOf(r))
         /\ Wire(r)[1] = IF r.line THEN "line" ELSE "badline"
         /\ Wire(r)[2] = IF r.headers THEN "header" ELSE "badheader"
         /\ Wire(r)[3] = "blank"
         /\ \A i \in 4 .. Len(Wire(r)) : Wire(r)[i] = BodyOf(r)[i - 3]
         /\ RequestLines(Wire(r)) = {1}
  <1>1. /\ r.content \in Seq(Bytes) /\ r.chunks \in Seq(Seq(Bytes) \ {<<>>})
        /\ r.line \in BOOLEAN /\ r.headers \in BOOLEAN
    BY DEF Request, AnyRequest
  <1>2. BodyOf(r) \in Seq(BodyTokens)
    <2>1. Len(r.chunks) \in 0 .. Len(r.chunks)
      BY <1>1
    <2>2. LastChunks(r)[Len(r.chunks)] \in Seq(BodyTokens)
      BY <2>1, ChunksFollow DEF ChunksInOrder
    <2>3. r.content \in Seq(BodyTokens)
      BY <1>1, BytesAreBodyTokens
    <2>4. QED
      BY <2>2, <2>3 DEF BodyOf
  <1> DEFINE l == IF r.line THEN "line" ELSE "badline"
             h == IF r.headers THEN "header" ELSE "badheader"
             b == BodyOf(r)
             W == <<l, h, "blank">> \o b
  <1>3. Wire(r) = W
    BY DEF Wire, BodyOf
  <1>4. l \in {"line", "badline"} /\ h \in {"header", "badheader"}
    OBVIOUS
  <1>5. BodyTokens \subseteq Tokens /\ {"line", "badline", "header", "badheader", "blank"} \subseteq Tokens
    BY DEF BodyTokens, Tokens, Lines
  <1>6. b \in Seq(Tokens)
    BY <1>2, <1>5, SeqMonotonic
  <1> HIDE DEF l, h, b
  <1>7. <<l, h, "blank">> \in Seq(Tokens) /\ Len(<<l, h, "blank">>) = 3
    BY <1>4, <1>5
  <1>8. /\ W \in Seq(Tokens) /\ Len(W) = 3 + Len(b) /\ Len(b) \in Nat
        /\ W[1] = l /\ W[2] = h /\ W[3] = "blank"
        /\ \A i \in 4 .. Len(W) : W[i] = b[i - 3]
    BY <1>6, <1>7
  <1> HIDE DEF W
  <1>9. ASSUME NEW i \in 4 .. Len(W)
        PROVE  W[i] \notin {"line", "badline"}
    <2>1. W[i] = b[i - 3] /\ i - 3 \in 1 .. Len(b)
      BY <1>8
    <2>2. b[i - 3] \in BodyTokens
      BY <1>2, <2>1 DEF b
    <2>3. QED
      BY <2>1, <2>2 DEF BodyTokens
  <1>10. ASSUME NEW i \in 1 .. Len(W)
         PROVE  W[i] \in {"line", "badline"} <=> i = 1
    <2>1. i = 1 \/ i = 2 \/ i = 3 \/ i \in 4 .. Len(W)
      BY <1>8
    <2>2. QED
      BY <1>4, <1>8, <1>9, <2>1
  <1>11. RequestLines(W) = {1}
    <2>1. DOMAIN W = 1 .. Len(W) /\ 1 \in 1 .. Len(W)
      BY <1>8
    <2>2. QED
      BY <1>10, <2>1 DEF RequestLines
  <1>12. QED
    BY <1>2, <1>3, <1>8, <1>11 DEF l, h, b

\* A line is at least one token; it is one if the first token ends a line.
LEMMA GetLine ==
  ASSUME NEW s \in Seq(Tokens), s # <<>>
  PROVE  /\ getline(s) \in 1 .. Len(s)
         /\ s[1] \in Lines => getline(s) = 1
  <1> DEFINE I == LineEnds(s)
  <1>1. Len(s) \in Nat /\ Len(s) # 0 /\ DOMAIN s = 1 .. Len(s)
    BY EmptySeq
  <1>2. I \in SUBSET (1 .. Len(s))
    BY <1>1 DEF LineEnds
  <1>3. s[1] \in Lines => 1 \in I
    BY <1>1 DEF LineEnds
  <1>4. getline(s) = IF I = {} THEN Len(s) ELSE CHOOSE i \in I : \A j \in I : i <= j
    BY DEF getline
  <1> HIDE DEF I
  <1>5. CASE I = {}
    BY <1>1, <1>3, <1>4, <1>5
  <1>6. CASE I # {}
    <2>1. I \in SUBSET Nat
      BY <1>1, <1>2
    <2>2. \E i \in I : \A j \in I : i <= j
      BY <1>6, <2>1, LeastNumber
    <2>3. getline(s) \in I /\ \A j \in I : getline(s) <= j
      BY <1>4, <1>6, <2>2
    <2>4. getline(s) \in 1 .. Len(s)
      BY <1>2, <2>3
    <2>5. 1 \in I => getline(s) = 1
      BY <1>1, <2>3, <2>4
    <2>6. QED
      BY <1>3, <2>4, <2>5
  <1>7. QED
    BY <1>5, <1>6

\* read_headers takes some tokens; where a blank line follows the first header
\* line, it takes these two unless it fails.
LEMMA ReadHeaders ==
  ASSUME NEW s \in Seq(Tokens)
  PROVE  /\ read_headers(s).ok \in BOOLEAN /\ read_headers(s).taken \in Nat
         /\ /\ read_headers(s).ok
            /\ Len(s) > 0 => s[1] # "blank"
            /\ Len(s) > 1 => s[2] = "blank"
            => Len(s) > 1 /\ read_headers(s).taken = 2
  <1> DEFINE I == {i \in 1 .. Len(s) : s[i] # "header"}
             other == IF I # {} THEN Min(I) ELSE 0
             rest == Erase(s, other - 1)
             h == read_headers(s)
  <1>1. h = IF other = 0 THEN [ok |-> FALSE, taken |-> Len(s)]
            ELSE [ok |-> s[other] = "blank", taken |-> other - 1 + getline(rest)]
    BY DEF read_headers, SelectInSeq
  <1>2. Len(s) \in Nat /\ I \in SUBSET (1 .. Len(s)) /\ I \in SUBSET Nat
    OBVIOUS
  <1>3. CASE I = {}
    <2>1. h = [ok |-> FALSE, taken |-> Len(s)]
      BY <1>1, <1>3
    <2>2. QED
      BY <1>2, <2>1
  <1>4. CASE I # {}
    <2>1. PICK i \in I : \A j \in I : i <= j
      BY <1>2, <1>4, LeastNumber
    <2>2. other = i
      <3> HIDE DEF I
      <3>1. Min(I) = i
        BY <1>2, <2>1, MinIs
      <3>2. QED
        BY <1>4, <3>1
    <2>3. i \in 1 .. Len(s)
      BY <1>2, <2>1
    <2> DEFINE e == Erase(s, i - 1)
    <2>4. /\ e \in Seq(Tokens) /\ Len(e) = Len(s) - (i - 1) /\ Len(e) > 0
          /\ e[1] = s[i]
      <3>1. i - 1 \in Nat /\ i - 1 <= Len(s)
        BY <1>2, <2>3
      <3>2. /\ e \in Seq(Tokens) /\ Len(e) = Len(s) - (i - 1)
            /\ \A m \in 1 .. Len(e) : e[m] = s[m + (i - 1)]
        BY <3>1, Erased
      <3> HIDE DEF e
      <3>3. Len(e) > 0 /\ 1 \in 1 .. Len(e) /\ 1 + (i - 1) = i
        BY <1>2, <2>3, <3>2
      <3>4. QED
        BY <3>2, <3>3
    <2> HIDE DEF e
    <2>5. h.ok = (s[i] = "blank") /\ h.taken = i - 1 + getline(e)
      <3>1. i # 0 /\ rest = e
        BY <2>2, <2>3 DEF e
      <3> HIDE DEF rest, other
      <3>2. h = [ok |-> s[i] = "blank", taken |-> i - 1 + getline(e)]
        BY <1>1, <2>2, <3>1
      <3> HIDE DEF h
      <3>3. QED
        BY <3>2
    <2>6. e # <<>>
      BY <2>4
    <2>7. /\ getline(e) \in 1 .. Len(e)
          /\ s[i] \in Lines => getline(e) = 1
      BY <2>4, <2>6, GetLine
    <2>8. h.ok \in BOOLEAN /\ h.taken \in Nat
      BY <2>3, <2>4, <2>5, <2>7
    <2>9. ASSUME h.ok, Len(s) > 0 => s[1] # "blank", Len(s) > 1 => s[2] = "blank"
          PROVE  Len(s) > 1 /\ h.taken = 2
      <3>1. s[i] = "blank" /\ i # 1
        <4>1. s[i] = "blank"
          BY <2>5, <2>9, Zenon
        <4>2. Len(s) > 0
          BY <1>2, <2>3
        <4>3. QED
          BY <2>9, <4>1, <4>2
      <3>2. i > 1 /\ Len(s) > 1
        BY <1>2, <2>3, <3>1
      <3>3. 2 \in I
        BY <1>2, <2>9, <3>2
      <3>4. i = 2
        BY <2>1, <2>3, <3>2, <3>3
      <3>5. getline(e) = 1
        BY <2>7, <3>1 DEF Lines
      <3>6. QED
        BY <2>5, <3>2, <3>4, <3>5
    <2>10. QED
      BY <2>8, <2>9
  <1>5. QED
    BY <1>3, <1>4

\* The request whose line comes first is one of those that were sent.
LEMMA ArrivingRequest ==
  ASSUME stream \in Seq(Tokens), sent \in Nat, Cardinality(RequestLines(stream)) <= sent
  PROVE  /\ Arriving \in 1 .. sent + 1
         /\ RequestLines(stream) # {} => Arriving \in 1 .. sent
         /\ RequestLines(stream) = {1} => Arriving = sent
  <1> DEFINE S == RequestLines(stream)
  <1>1. IsFiniteSet(S) /\ Cardinality(S) \in Nat
    BY LinesFinite
  <1>2. S # {} => Cardinality(S) # 0
    BY <1>1, FS_EmptySet
  <1>3. S = {1} => Cardinality(S) = 1
    BY FS_Singleton
  <1>4. Arriving = sent + 1 - Cardinality(S)
    BY DEF Arriving
  <1> HIDE DEF S
  <1>5. QED
    BY <1>1, <1>2, <1>3, <1>4 DEF S

-----------------------------------------------------------------------------
(* Every answer holds its ranges.                                          *)

\* The phases of a connection.
ConnectionPhases == Reading \cup {"idle", "received", "dispatch", "fail", "closed"}

\* The invariant behind RangesWithinContent.
RangesInv == ConnectionTypeOK /\ ReadsARequest /\ RangesWithinContent

\* An answer keeps what it holds.
LEMMA AnswersKept ==
  ASSUME RangesWithinContent, replies \in Seq(Answer), UNCHANGED <<settings, requests>>,
         \/ replies' = replies
         \/ \E a \in Answer : HoldsItsRanges(a) /\ replies' = Append(replies, a)
  PROVE  RangesWithinContent' /\ replies' \in Seq(Answer)
  <1>1. ASSUME NEW i, NEW a, replies'[i] = a, HoldsItsRanges(a)
        PROVE  HoldsItsRanges(replies[i])'
    <2>1. replies'[i] = a /\ requests' = requests /\ settings' = settings
      BY <1>1
    <2>2. (routing(requests[replies[i].req]))' = routing(requests[a.req])
      BY <2>1 DEF routing
    <2>3. QED
      BY <1>1, <2>1, <2>2 DEF HoldsItsRanges
  <1>2. CASE replies' = replies
    <2>1. ASSUME NEW i \in DOMAIN replies
          PROVE  HoldsItsRanges(replies[i])'
      <3>1. HoldsItsRanges(replies[i]) /\ replies'[i] = replies[i]
        BY <1>2, <2>1 DEF RangesWithinContent, HoldsItsRanges
      <3>2. PICK a : a = replies[i]
        OBVIOUS
      <3>3. replies'[i] = a /\ HoldsItsRanges(a)
        BY <3>1, <3>2
      <3>4. QED
        BY <1>1, <3>3
    <2>2. QED
      BY <1>2, <2>1 DEF RangesWithinContent, HoldsItsRanges
  <1>3. ASSUME NEW a \in Answer, HoldsItsRanges(a), replies' = Append(replies, a)
        PROVE  RangesWithinContent' /\ replies' \in Seq(Answer)
    <2>1. /\ replies' \in Seq(Answer) /\ DOMAIN replies' = 1 .. Len(replies) + 1
          /\ Len(replies) \in Nat /\ DOMAIN replies = 1 .. Len(replies)
          /\ \A i \in 1 .. Len(replies) : replies'[i] = replies[i]
          /\ replies'[Len(replies) + 1] = a
      BY <1>3, AppendProperties
    <2>2. ASSUME NEW i \in 1 .. Len(replies) + 1
          PROVE  HoldsItsRanges(replies[i])'
      <3>1. CASE i = Len(replies) + 1
        <4>1. replies'[i] = a
          BY <2>1, <3>1
        <4>2. QED
          BY <1>1, <1>3, <4>1
      <3>2. CASE i # Len(replies) + 1
        <4>1. i \in 1 .. Len(replies)
          BY <2>1, <3>2
        <4>2. HoldsItsRanges(replies[i]) /\ replies'[i] = replies[i]
          BY <2>1, <4>1 DEF RangesWithinContent, HoldsItsRanges
        <4>3. PICK b : b = replies[i]
          OBVIOUS
        <4>4. replies'[i] = b /\ HoldsItsRanges(b)
          BY <4>2, <4>3
        <4>5. QED
          BY <1>1, <4>4
      <3>3. QED
        BY <3>1, <3>2
    <2>3. RangesWithinContent'
      BY <2>1, <2>2 DEF RangesWithinContent, HoldsItsRanges
    <2>4. QED
      BY <2>1, <2>3
  <1>4. QED
    BY <1>2, <1>3

\* A step of the server keeps the answers or adds one that holds its ranges.
AnswersMayGrow ==
  \/ replies' = replies
  \/ \E a \in Answer : HoldsItsRanges(a) /\ replies' = Append(replies, a)

\* What a step of the server must do to keep the invariant.
LEMMA ServerStep ==
  ASSUME RangesInv, UNCHANGED clientVars,
         stream' \in Seq(Tokens), held' \in Nat,
         Cardinality(RequestLines(stream')) <= Cardinality(RequestLines(stream)),
         phase' \in ConnectionPhases, phase' = "fail" => status' \in {400, 413, 415},
         phase' \notin {"idle", "closed"} => cur' \in 1 .. Len(requests),
         AnswersMayGrow
  PROVE  RangesInv'
  <1>1. RangesWithinContent' /\ replies' \in Seq(Answer)
    BY AnswersKept DEF RangesInv, ConnectionTypeOK, clientVars, AnswersMayGrow
  <1>2. ConnectionTypeOK'
    BY <1>1 DEF RangesInv, ConnectionTypeOK, clientVars, ConnectionPhases
  <1>3. Cardinality(RequestLines(stream)) \in Nat /\ Cardinality(RequestLines(stream')) \in Nat
    BY LinesFinite DEF RangesInv, ConnectionTypeOK
  <1>4. ReadsARequest'
    BY <1>3 DEF RangesInv, ReadsARequest, ConnectionTypeOK, clientVars
  <1>5. QED
    BY <1>1, <1>2, <1>4 DEF RangesInv

\* Taking tokens from the stream.
LEMMA Taking ==
  ASSUME stream \in Seq(Tokens), held \in Nat, NEW n \in 1 .. Len(stream), Take(n)
  PROVE  /\ stream' = Erase(stream, n) /\ stream' \in Seq(Tokens) /\ held' \in Nat
         /\ Cardinality(RequestLines(stream')) <= Cardinality(RequestLines(stream))
  <1>1. stream' = Erase(stream, n) /\ n \in Nat /\ Len(stream) \in Nat
    BY DEF Take
  <1>2. held' \in Nat
    BY DEF Take
  <1>3. Erase(stream, n) \in Seq(Tokens)
    BY <1>1, Erased
  <1>4. QED
    BY <1>1, <1>2, <1>3, FewerLines

\* The end of process_request.
LEMMA AnswerWritten ==
  ASSUME NEW reply, NEW rest \in Seq(Tokens), NEW ahead \in Nat, NEW clientCloses,
         finish(reply, rest, ahead, clientCloses)
  PROVE  /\ stream' = Erase(rest, ahead) /\ stream' \in Seq(Tokens) /\ held' \in Nat
         /\ Cardinality(RequestLines(stream')) <= Cardinality(RequestLines(rest))
         /\ phase' \in {"idle", "closed"}
         /\ replies' = replies \/ replies' = Append(replies, reply)
         /\ phase' = "idle" => replies' = Append(replies, reply) /\ ~connection_closed'
  <1>1. PICK written \in BOOLEAN :
          /\ replies' = IF written THEN Append(replies, reply) ELSE replies
          /\ stream' = Erase(rest, ahead) /\ held' = 0
          /\ phase' = IF written /\ ~connection_closed' /\ count > 1 THEN "idle" ELSE "closed"
    BY DEF finish
  <1>2. Erase(rest, ahead) \in Seq(Tokens)
    BY Erased
  <1>3. QED
    BY <1>1, <1>2, FewerLines

\* The answer that ends a step is one of the answers that hold their ranges.
LEMMA AnswerStep ==
  ASSUME RangesInv, UNCHANGED clientVars,
         NEW reply \in Answer, HoldsItsRanges(reply),
         NEW rest \in Seq(Tokens), NEW ahead \in Nat, NEW clientCloses,
         Cardinality(RequestLines(rest)) <= Cardinality(RequestLines(stream)),
         finish(reply, rest, ahead, clientCloses)
  PROVE  RangesInv'
  <1>1. /\ stream' \in Seq(Tokens) /\ held' \in Nat
        /\ Cardinality(RequestLines(stream')) <= Cardinality(RequestLines(rest))
        /\ phase' \in {"idle", "closed"}
        /\ replies' = replies \/ replies' = Append(replies, reply)
    BY AnswerWritten
  <1>2. /\ Cardinality(RequestLines(stream)) \in Nat /\ Cardinality(RequestLines(rest)) \in Nat
        /\ Cardinality(RequestLines(stream')) \in Nat
    BY <1>1, LinesFinite DEF RangesInv, ConnectionTypeOK
  <1>3. Cardinality(RequestLines(stream')) <= Cardinality(RequestLines(stream))
    BY <1>1, <1>2
  <1>4. AnswersMayGrow
    BY <1>1 DEF AnswersMayGrow
  <1>5. phase' \in ConnectionPhases /\ phase' # "fail"
    BY <1>1 DEF ConnectionPhases
  <1>6. QED
    BY <1>1, <1>3, <1>4, <1>5, ServerStep

\* A line that is none is answered with an error.
LEMMA BadRequestStep ==
  ASSUME RangesInv, stream # <<>>, bad_request(getline(stream)), UNCHANGED clientVars
  PROVE  RangesInv'
  <1> DEFINE n == getline(stream)
  <1>1. stream \in Seq(Tokens) /\ sent \in Nat /\ Cardinality(RequestLines(stream)) <= sent
    BY DEF RangesInv, ConnectionTypeOK, ReadsARequest
  <1>2. n \in Nat
    BY <1>1, GetLine
  <1>3. cur' \in Nat
    <2>1. Arriving \in Nat
      BY <1>1, ArrivingRequest
    <2>2. QED
      BY <2>1 DEF bad_request
  <1>4. PICK ahead \in 0 .. Len(stream) - n :
          finish(ErrorReply(400), Erase(stream, n), ahead, LineEnds(stream) = {})
    BY DEF bad_request
  <1> HIDE DEF n
  <1>5. /\ Erase(stream, n) \in Seq(Tokens) /\ ahead \in Nat
        /\ Cardinality(RequestLines(Erase(stream, n))) <= Cardinality(RequestLines(stream))
    <2>1. ahead \in Nat
      BY <1>1, <1>2, <1>4
    <2>2. QED
      BY <1>1, <1>2, <2>1, Erased, FewerLines
  <1>6. ErrorReply(400) \in Answer /\ HoldsItsRanges(ErrorReply(400))
    BY <1>3, ErrorAnswer
  <1>7. QED
    BY <1>4, <1>5, <1>6, AnswerStep

\* Where the reading of a request ends before its content is read.
Rest ==
  LET r == requests[Arriving]
      h == read_headers(Erase(stream, 1))
      once == Erase(stream, 1 + h.taken)
  IN IF early_error(r, h.ok) = 414 THEN Erase(once, read_headers(once).taken) ELSE once

\* What is left after the headers, and the errors before the content.
LEMMA AfterHeaders ==
  ASSUME RangesInv, stream # <<>>, stream[1] = "line"
  PROVE  /\ Arriving \in 1 .. Len(requests) /\ requests[Arriving] \in Request
         /\ Rest \in Seq(Tokens)
         /\ Cardinality(RequestLines(Rest)) <= Cardinality(RequestLines(stream))
         /\ early_error(requests[Arriving], read_headers(Erase(stream, 1)).ok) \in {0, 400, 414, 416}
         /\ early_error(requests[Arriving], read_headers(Erase(stream, 1)).ok) = 416
              => ~parse_range_header(requests[Arriving].range)
  <1>1. /\ stream \in Seq(Tokens) /\ sent \in 0 .. Len(requests) /\ sent \in Nat
        /\ Cardinality(RequestLines(stream)) <= sent
        /\ requests \in Seq(Request)
    BY DEF RangesInv, ConnectionTypeOK, ReadsARequest
  <1>2. Arriving \in 1 .. Len(requests)
    <2>1. 1 \in DOMAIN stream
      BY <1>1
    <2>2. RequestLines(stream) # {}
      BY <2>1 DEF RequestLines
    <2>3. Arriving \in 1 .. sent
      BY <1>1, <2>2, ArrivingRequest
    <2>4. QED
      BY <1>1, <2>3
  <1> DEFINE r == requests[Arriving]
             h == read_headers(Erase(stream, 1))
             once == Erase(stream, 1 + h.taken)
             e == early_error(r, h.ok)
             twice == Erase(once, read_headers(once).taken)
  <1>3. r \in Request
    BY <1>1, <1>2
  <1>4. h.taken \in Nat /\ h.ok \in BOOLEAN
    <2>1. Erase(stream, 1) \in Seq(Tokens)
      BY <1>1, Erased
    <2>2. QED
      BY <2>1, ReadHeaders
  <1>5. Rest = IF e = 414 THEN twice ELSE once
    BY DEF Rest
  <1>6. e \in {0, 400, 414, 416} /\ (e = 416 => ~parse_range_header(r.range))
    BY DEF early_error
  <1> HIDE DEF r, h, e
  <1>7. /\ once \in Seq(Tokens)
        /\ Cardinality(RequestLines(once)) <= Cardinality(RequestLines(stream))
    <2>1. 1 + h.taken \in Nat
      BY <1>4
    <2>2. QED
      BY <1>1, <2>1, Erased, FewerLines
  <1> HIDE DEF once
  <1>8. read_headers(once).taken \in Nat
    BY <1>7, ReadHeaders
  <1>9. /\ twice \in Seq(Tokens)
        /\ Cardinality(RequestLines(twice)) <= Cardinality(RequestLines(once))
    BY <1>7, <1>8, Erased, FewerLines
  <1> HIDE DEF twice
  <1>10. Cardinality(RequestLines(twice)) <= Cardinality(RequestLines(stream))
    <2>1. /\ Cardinality(RequestLines(twice)) \in Nat /\ Cardinality(RequestLines(once)) \in Nat
          /\ Cardinality(RequestLines(stream)) \in Nat
      BY <1>1, <1>7, <1>9, LinesFinite
    <2>2. QED
      BY <1>7, <1>9, <2>1
  <1>11. QED
    BY <1>2, <1>3, <1>5, <1>6, <1>7, <1>9, <1>10 DEF r, h, e

\* Where the reading of the content begins, and the errors before it.
LEMMA ContentPhase ==
  ASSUME NEW r \in Request
  PROVE  /\ content_phase(r) \in {"dispatch", "fail", "size", "until_close", "received", "length"}
         /\ content_phase(r) = "fail" => content_status(r) \in {400, 415}
  <1>1. r.framing \in {"none", "length", "chunked", "invalid"}
    BY DEF Request, AnyRequest
  <1>2. read_content(r) \in {"size", "until_close", "fail", "received", "length"}
    BY <1>1 DEF read_content
  <1>3. QED
    BY <1>2 DEF content_phase, content_status

\* A request line and its headers: an error, or the reading of the content begins.
LEMMA GoodRequestCases ==
  ASSUME good_request
  PROVE  LET e == early_error(requests[Arriving], read_headers(Erase(stream, 1)).ok)
         IN /\ cur' = Arriving
            /\ \E ahead \in 0 .. Len(Rest) :
                 \/ e # 0 /\ finish(ErrorReply(e), Rest, ahead, FALSE)
                 \/ /\ e = 0 /\ stream' = Rest /\ held' = ahead
                    /\ phase' = content_phase(requests[Arriving])
                    /\ status' = content_status(requests[Arriving])
                    /\ replies' = replies
                    /\ left' = Len(requests[Arriving].content) /\ chunk' = 0
                    /\ requests[Arriving].connection = "close" => connection_closed'
  <1> DEFINE k == Arriving
             r == requests[k]
             h == read_headers(Erase(stream, 1))
             once == Erase(stream, 1 + h.taken)
             error == early_error(r, h.ok)
             rest == IF error = 414 THEN Erase(once, read_headers(once).taken) ELSE once
  <1>1. Rest = rest
    BY DEF Rest
  <1>2. /\ cur' = k
        /\ connection_closed' =
             (error \notin {400, 414}
                /\ (r.connection = "close" \/ (r.http10 /\ r.connection # "Keep-Alive")))
        /\ left' = Len(r.content) /\ chunk' = 0
    BY DEF good_request
  <1>3. \E ahead \in 0 .. Len(rest) :
          IF error # 0
          THEN finish(ErrorReply(error), rest, ahead, FALSE) /\ UNCHANGED continues
          ELSE /\ stream' = rest /\ held' = ahead
               /\ phase' = content_phase(r) /\ status' = content_status(r)
               /\ continues' = continues + (IF r.expect THEN 1 ELSE 0)
               /\ UNCHANGED <<cut, count, replies>>
    BY Zenon DEF good_request
  <1> HIDE DEF rest, error
  <1>4. error = 0 /\ r.connection = "close" => connection_closed'
    <2>1. error = 0 => error \notin {400, 414}
      OBVIOUS
    <2>2. QED
      BY <1>2, <2>1, Zenon
  <1>5. QED
    BY <1>1, <1>2, <1>3, <1>4 DEF error

\* process_request goes on with the content of a request, or refuses it.
LEMMA GoodRequestStep ==
  ASSUME RangesInv, stream # <<>>, stream[1] = "line", good_request, UNCHANGED clientVars
  PROVE  RangesInv'
  <1> DEFINE k == Arriving
             e == early_error(requests[k], read_headers(Erase(stream, 1)).ok)
  <1>1. /\ k \in 1 .. Len(requests) /\ requests[k] \in Request /\ Rest \in Seq(Tokens)
        /\ Cardinality(RequestLines(Rest)) <= Cardinality(RequestLines(stream))
        /\ e \in {0, 400, 414, 416}
        /\ e = 416 => ~parse_range_header(requests[k].range)
    BY AfterHeaders
  <1>2. cur' = k
    BY GoodRequestCases
  <1>3. PICK ahead \in 0 .. Len(Rest) :
          \/ e # 0 /\ finish(ErrorReply(e), Rest, ahead, FALSE)
          \/ /\ e = 0 /\ stream' = Rest /\ held' = ahead
             /\ phase' = content_phase(requests[k])
             /\ status' = content_status(requests[k])
             /\ replies' = replies
    BY GoodRequestCases
  <1>4. ahead \in Nat /\ cur' \in Nat
    BY <1>1, <1>2
  <1> HIDE DEF k, e
  <1>5. CASE e # 0 /\ finish(ErrorReply(e), Rest, ahead, FALSE)
    <2>1. ErrorReply(e) \in Answer /\ HoldsItsRanges(ErrorReply(e))
      BY <1>1, <1>2, <1>4, <1>5, ErrorAnswer
    <2>2. QED
      BY <1>1, <1>4, <1>5, <2>1, AnswerStep
  <1>6. CASE /\ stream' = Rest /\ held' = ahead
             /\ phase' = content_phase(requests[k])
             /\ status' = content_status(requests[k])
             /\ replies' = replies
    <2>1. /\ phase' \in ConnectionPhases /\ (phase' = "fail" => status' \in {400, 413, 415})
      BY <1>1, <1>6, ContentPhase DEF ConnectionPhases, Reading
    <2>2. AnswersMayGrow
      BY <1>6 DEF AnswersMayGrow
    <2>3. QED
      BY <1>1, <1>2, <1>4, <1>6, <2>1, <2>2, ServerStep
  <1>7. QED
    BY <1>3, <1>5, <1>6

\* respond writes the answer of a handler or of an error.
LEMMA RespondStep ==
  ASSUME RangesInv, respond
  PROVE  RangesInv'
  <1>1. /\ cur' = cur /\ UNCHANGED clientVars /\ phase \in {"dispatch", "fail"}
        /\ finish(IF phase = "fail" THEN ErrorReply(status) ELSE write_response(req),
                  stream, held, FALSE)
    BY DEF respond
  <1>2. /\ stream \in Seq(Tokens) /\ held \in Nat /\ cur \in 1 .. Len(requests)
        /\ requests \in Seq(Request)
        /\ settings.statusMessage \in Nat /\ settings.defaultCompanyName \in Nat
        /\ phase = "fail" => status \in {400, 413, 415}
    BY <1>1 DEF RangesInv, ConnectionTypeOK, ReadsARequest
  <1>3. Cardinality(RequestLines(stream)) \in Nat
    BY <1>2, LinesFinite
  <1>4. Cardinality(RequestLines(stream)) <= Cardinality(RequestLines(stream))
    BY <1>3
  <1> DEFINE a == IF phase = "fail" THEN ErrorReply(status) ELSE write_response(req)
  <1>5. a \in Answer /\ HoldsItsRanges(a)
    <2>1. CASE phase = "fail"
      <3>1. cur' \in Nat /\ status \in {400, 413, 415}
        BY <1>1, <1>2, <2>1
      <3>2. ErrorReply(status) \in Answer /\ HoldsItsRanges(ErrorReply(status))
        BY <3>1, ErrorAnswer
      <3>3. QED
        BY <2>1, <3>2
    <2>2. CASE phase # "fail"
      BY <1>1, <1>2, <2>2, HandlerAnswer
    <2>3. QED
      BY <2>1, <2>2
  <1> HIDE DEF a
  <1>6. finish(a, stream, held, FALSE)
    BY <1>1 DEF a
  <1>7. QED
    BY <1>1, <1>2, <1>4, <1>5, <1>6, AnswerStep

\* A piece of the content goes to the receiver or the parser, which may refuse it.
LEMMA Received ==
  ASSUME NEW n, NEW then, Receive(n, then)
  PROVE  phase' = then \/ (phase' = "fail" /\ status' = 400)
  BY DEF Receive

\* A step that reads from the content.
LEMMA ContentStep ==
  ASSUME RangesInv, UNCHANGED clientVars, UNCHANGED cur, UNCHANGED replies,
         phase \notin {"idle", "closed"},
         stream' \in Seq(Tokens), held' \in Nat,
         Cardinality(RequestLines(stream')) <= Cardinality(RequestLines(stream)),
         phase' \in ConnectionPhases, phase' = "fail" => status' \in {400, 413, 415}
  PROVE  RangesInv'
  <1>1. cur' \in 1 .. Len(requests)
    BY DEF RangesInv, ReadsARequest
  <1>2. AnswersMayGrow
    BY DEF AnswersMayGrow
  <1>3. QED
    BY <1>1, <1>2, ServerStep

\* read_content_with_length keeps the answers and reads no request line.
LEMMA WithLengthStep ==
  ASSUME RangesInv, read_content_with_length
  PROVE  RangesInv'
  <1>1. /\ phase \in {"length", "chunk"}
        /\ UNCHANGED clientVars /\ UNCHANGED cur /\ UNCHANGED replies
    BY DEF read_content_with_length
  <1>2. PICK n \in 1 .. Len(stream) :
          /\ Receive(n, IF n < left THEN phase
                        ELSE IF phase = "chunk" THEN "crlf" ELSE "received")
          /\ n <= left /\ Take(n)
    BY DEF read_content_with_length
  <1> DEFINE then == IF n < left THEN phase
                     ELSE IF phase = "chunk" THEN "crlf" ELSE "received"
  <1>3. then \in {"length", "chunk", "crlf", "received"}
    BY <1>1, <1>2
  <1> HIDE DEF then
  <1>4. phase' \in ConnectionPhases /\ (phase' = "fail" => status' \in {400, 413, 415})
    <2>1. phase' = then \/ (phase' = "fail" /\ status' = 400)
      BY <1>2, Received DEF then
    <2>2. QED
      BY <1>3, <2>1 DEF ConnectionPhases, Reading
  <1>5. QED
    BY <1>1, <1>2, <1>4, Taking, ContentStep DEF RangesInv, ConnectionTypeOK

\* So does read_content_without_length ...
LEMMA WithoutLengthStep ==
  ASSUME RangesInv, read_content_without_length
  PROVE  RangesInv'
  <1>1. /\ phase = "until_close"
        /\ UNCHANGED clientVars /\ UNCHANGED cur /\ UNCHANGED replies
    BY DEF read_content_without_length
  <1>2. PICK n \in 1 .. Len(stream) : Receive(n, phase) /\ Take(n)
    BY DEF read_content_without_length
  <1>3. phase' \in ConnectionPhases /\ (phase' = "fail" => status' \in {400, 413, 415})
    BY <1>1, <1>2, Received DEF ConnectionPhases, Reading
  <1>4. QED
    BY <1>1, <1>2, <1>3, Taking, ContentStep DEF RangesInv, ConnectionTypeOK

\* ... and so does read_content_chunked.
LEMMA ChunkedStep ==
  ASSUME RangesInv, read_content_chunked
  PROVE  RangesInv'
  <1>1. /\ phase \in {"size", "crlf", "trailer", "trailers"} /\ stream # <<>>
        /\ UNCHANGED clientVars /\ UNCHANGED cur /\ UNCHANGED replies
        /\ Take(getline(stream))
    BY DEF read_content_chunked
  <1>2. phase' \in ConnectionPhases /\ (phase' = "fail" => status' \in {400, 413, 415})
    BY <1>1 DEF read_content_chunked, ConnectionPhases, Reading
  <1>3. stream \in Seq(Tokens) /\ held \in Nat
    BY DEF RangesInv, ConnectionTypeOK
  <1>4. getline(stream) \in 1 .. Len(stream)
    BY <1>1, <1>3, GetLine
  <1>5. QED
    BY <1>1, <1>2, <1>3, <1>4, Taking, ContentStep

\* Steps that leave the stream alone.
LEMMA OtherSteps ==
  ASSUME RangesInv,
         \/ \E closed \in BOOLEAN : read_ends(closed)
         \/ content_received \/ keep_alive_ends \/ UNCHANGED connectionVars
  PROVE  RangesInv'
  <1>1. stream \in Seq(Tokens) /\ held \in Nat
    BY DEF RangesInv, ConnectionTypeOK
  <1>2. Cardinality(RequestLines(stream)) \in Nat
    BY <1>1, LinesFinite
  <1>3. ASSUME stream' = stream, held' = held
        PROVE  /\ stream' \in Seq(Tokens) /\ held' \in Nat
               /\ Cardinality(RequestLines(stream')) <= Cardinality(RequestLines(stream))
    BY <1>1, <1>2, <1>3
  <1>4. ASSUME NEW closed \in BOOLEAN, read_ends(closed)
        PROVE  RangesInv'
    <2>1. /\ phase \in Reading /\ phase' \in {"received", "fail"}
          /\ phase' = "fail" => status' = 400
          /\ stream' = stream /\ held' = held
          /\ UNCHANGED clientVars /\ UNCHANGED cur /\ UNCHANGED replies
      BY <1>4 DEF read_ends, Reading
    <2>2. phase \notin {"idle", "closed"} /\ phase' \in ConnectionPhases
      BY <2>1 DEF Reading, ConnectionPhases
    <2>3. QED
      BY <1>3, <2>1, <2>2, ContentStep
  <1>5. CASE content_received
    <2>1. /\ phase = "received" /\ phase' \in {"dispatch", "fail"}
          /\ phase' = "fail" => status' \in {400, 413}
          /\ stream' = stream /\ held' = held
          /\ UNCHANGED clientVars /\ UNCHANGED cur /\ UNCHANGED replies
      BY <1>5 DEF content_received
    <2>2. phase' \in ConnectionPhases /\ (phase' = "fail" => status' \in {400, 413, 415})
      BY <2>1 DEF ConnectionPhases
    <2>3. QED
      BY <1>3, <2>1, <2>2, ContentStep
  <1>6. CASE keep_alive_ends
    <2>1. /\ phase' = "closed" /\ stream' = stream /\ held' = held
          /\ UNCHANGED clientVars /\ UNCHANGED replies
      BY <1>6 DEF keep_alive_ends
    <2>2. phase' \in ConnectionPhases /\ AnswersMayGrow
      BY <2>1 DEF ConnectionPhases, AnswersMayGrow
    <2>3. QED
      BY <1>3, <2>1, <2>2, ServerStep
  <1>7. CASE UNCHANGED connectionVars
    <2>1. /\ phase' = phase /\ status' = status /\ cur' = cur
          /\ stream' = stream /\ held' = held
          /\ UNCHANGED clientVars /\ UNCHANGED replies
      BY <1>7 DEF connectionVars, clientVars
    <2>2. /\ phase \in ConnectionPhases
          /\ phase = "fail" => status \in {400, 413, 415}
          /\ phase \notin {"idle", "closed"} => cur \in 1 .. Len(requests)
      BY DEF RangesInv, ConnectionTypeOK, ReadsARequest, ConnectionPhases
    <2>3. AnswersMayGrow
      BY <2>1 DEF AnswersMayGrow
    <2>4. QED
      BY <1>3, <2>1, <2>2, <2>3, ServerStep
  <1>8. QED
    BY <1>4, <1>5, <1>6, <1>7

\* The client sends a part of its next request, or all of it.
LEMMA SendStep ==
  ASSUME RangesInv, Send
  PROVE  RangesInv'
  <1>1. /\ phase = "idle" /\ sent < Len(requests) /\ sent' = sent + 1
        /\ UNCHANGED <<settings, requests, held, phase, cur, status, replies>>
    BY DEF Send
  <1>2. /\ requests \in Seq(Request) /\ sent \in 0 .. Len(requests) /\ stream \in Seq(Tokens)
        /\ Cardinality(RequestLines(stream)) <= sent
    BY DEF RangesInv, ConnectionTypeOK, ReadsARequest
  <1>3. requests[sent + 1] \in Request /\ sent + 1 \in 0 .. Len(requests)
    BY <1>1, <1>2
  <1>4. PICK W : W = Wire(requests[sent + 1])
    OBVIOUS
  <1>5. PICK n \in 1 .. Len(W) : stream' = stream \o SubSeq(W, 1, n)
    BY <1>4 DEF Send
  <1>6. W \in Seq(Tokens) /\ RequestLines(W) = {1}
    BY <1>3, <1>4, WireParts
  <1> DEFINE t == SubSeq(W, 1, n)
  <1>7. /\ t \in Seq(Tokens) /\ Len(t) = n /\ \A i \in 1 .. n : t[i] = W[i]
    <2>1. 0 \in 0 .. Len(W) /\ n \in 0 .. Len(W) /\ n - 0 = n /\ 0 + 1 = 1
      BY <1>6
    <2>2. /\ SubSeq(W, 0 + 1, n) \in Seq(Tokens) /\ Len(SubSeq(W, 0 + 1, n)) = n - 0
          /\ \A i \in 1 .. n - 0 : SubSeq(W, 0 + 1, n)[i] = W[0 + i]
      BY <1>6, <2>1, PartOf
    <2>3. QED
      BY <2>1, <2>2
  <1> HIDE DEF t
  <1>8. RequestLines(t) \subseteq {1}
    <2> SUFFICES ASSUME NEW i \in RequestLines(t) PROVE i \in RequestLines(W)
      BY <1>6
    <2>1. i \in 1 .. n /\ t[i] \in {"line", "badline"}
      BY <1>7 DEF RequestLines
    <2>2. i \in 1 .. Len(W) /\ W[i] \in {"line", "badline"}
      BY <1>6, <1>7, <2>1
    <2>3. QED
      BY <1>6, <2>2 DEF RequestLines
  <1>9. /\ stream' = stream \o t /\ stream' \in Seq(Tokens)
        /\ Cardinality(RequestLines(stream')) <= Cardinality(RequestLines(stream)) + 1
    <2>1. stream' = stream \o t
      BY <1>5 DEF t
    <2>2. stream \o t \in Seq(Tokens)
      BY <1>2, <1>7
    <2>3. Cardinality(RequestLines(stream \o t)) <= Cardinality(RequestLines(stream)) + 1
      BY <1>2, <1>7, <1>8, OneMoreLine
    <2>4. QED
      BY <2>1, <2>2, <2>3
  <1>10. RangesWithinContent' /\ replies' \in Seq(Answer)
    BY <1>1, AnswersKept DEF RangesInv, ConnectionTypeOK
  <1>11. ConnectionTypeOK'
    BY <1>1, <1>3, <1>9, <1>10 DEF RangesInv, ConnectionTypeOK
  <1>12. Cardinality(RequestLines(stream)) \in Nat /\ Cardinality(RequestLines(stream')) \in Nat
    BY <1>2, <1>9, LinesFinite
  <1>13. ReadsARequest'
    BY <1>1, <1>2, <1>9, <1>12 DEF ReadsARequest
  <1>14. QED
    BY <1>10, <1>11, <1>13 DEF RangesInv

\* The connection starts in the invariant, whatever the arguments set.
LEMMA RangesInit ==
  ASSUME ConnectionInit
  PROVE  RangesInv
  <1>1. PICK args \in Arguments : settings = Settings(args)
    BY DEF ConnectionInit
  <1>2. args \in Seq(OneArgument) /\ requests \in Seq(Request)
    BY HttplibRequestAssumption DEF ConnectionInit, OneArgument
  <1>3. settings.statusMessage \in Nat /\ settings.defaultCompanyName \in Nat
    BY <1>1, <1>2, SettingsType
  <1>4. /\ sent = 0 /\ stream = <<>> /\ held = 0 /\ phase = "idle" /\ replies = <<>>
    BY DEF ConnectionInit
  <1>5. RequestLines(stream) = {}
    BY <1>4 DEF RequestLines
  <1>6. Cardinality(RequestLines(stream)) = 0
    BY <1>5, FS_EmptySet
  <1>7. ConnectionTypeOK
    BY <1>2, <1>3, <1>4 DEF ConnectionTypeOK
  <1>8. ReadsARequest
    BY <1>4, <1>6 DEF ReadsARequest
  <1>9. RangesWithinContent
    BY <1>4 DEF RangesWithinContent
  <1>10. QED
    BY <1>7, <1>8, <1>9 DEF RangesInv

\* A request is read from its first line.
LEMMA ProcessRequestCases ==
  ASSUME process_request
  PROVE  /\ phase = "idle" /\ stream # <<>> /\ UNCHANGED clientVars
         /\ \/ stream[1] = "line" /\ good_request
            \/ ~parse_request_line(stream, getline(stream)) /\ bad_request(getline(stream))
  <1> DEFINE p == parse_request_line(stream, getline(stream))
  <1>1. phase = "idle" /\ stream # <<>> /\ UNCHANGED clientVars
    BY DEF process_request
  <1>2. IF p THEN good_request ELSE bad_request(getline(stream))
    BY Zenon DEF process_request
  <1>3. p => stream[1] = "line"
    BY DEF parse_request_line
  <1>4. QED
    BY <1>1, <1>2, <1>3

\* Every step keeps it.
LEMMA RangesNext ==
  ASSUME RangesInv, [ConnectionNext]_connectionVars
  PROVE  RangesInv'
  <1>1. CASE Send
    BY <1>1, SendStep
  <1>2. CASE process_request
    BY <1>2, ProcessRequestCases, GoodRequestStep, BadRequestStep
  <1>3. CASE read_content_with_length
    BY <1>3, WithLengthStep
  <1>4. CASE read_content_chunked
    BY <1>4, ChunkedStep
  <1>5. CASE read_content_without_length
    BY <1>5, WithoutLengthStep
  <1>6. CASE respond
    BY <1>6, RespondStep
  <1>7. CASE \/ \E closed \in BOOLEAN : read_ends(closed)
             \/ content_received \/ keep_alive_ends \/ Closed
             \/ UNCHANGED connectionVars
    BY <1>7, OtherSteps DEF Closed
  <1>8. QED
    BY <1>1, <1>2, <1>3, <1>4, <1>5, <1>6, <1>7 DEF ConnectionNext

\* No answer of a connection reaches past its content: a 206 holds exactly the
\* bytes its ranges stand for, and a single range is refused only for a reason.
THEOREM RangesStayWithinContent == ConnectionSpec => []RangesWithinContent
  <1>1. ConnectionInit => RangesInv
    BY RangesInit
  <1>2. RangesInv /\ [ConnectionNext]_connectionVars => RangesInv'
    BY RangesNext
  <1>3. RangesInv => RangesWithinContent
    BY DEF RangesInv
  <1>4. QED
    BY <1>1, <1>2, <1>3, PTL DEF ConnectionSpec

-----------------------------------------------------------------------------
(* Answers answer requests.                                                *)

\* The invariant behind AnswersMatchRequests.
AnswersInv == RangesInv /\ InStep /\ AnswersMatchRequests

\* Reading from a stream brings what is behind nearer.
LEMMA BehindErase ==
  ASSUME NEW s \in Seq(Tokens), NEW n \in Nat, NEW t \in Seq(Tokens),
         NEW k \in Nat, k <= n, k <= Len(s), Behind(s, n, t)
  PROVE  Behind(Erase(s, k), n - k, t)
  <1> DEFINE e == Erase(s, k)
  <1>1. /\ e \in Seq(Tokens) /\ Len(e) = Len(s) - k /\ Len(s) \in Nat /\ Len(t) \in Nat
        /\ \A i \in 1 .. Len(e) : e[i] = s[i + k]
    BY Erased
  <1>2. Len(s) <= n + Len(t) /\ \A j \in n + 1 .. Len(s) : s[j] = t[j - n]
    BY DEF Behind
  <1> HIDE DEF e
  <1>3. ASSUME NEW j \in (n - k) + 1 .. Len(e)
        PROVE  e[j] = t[j - (n - k)]
    <2>1. j \in 1 .. Len(e) /\ j + k \in n + 1 .. Len(s) /\ j + k - n = j - (n - k)
      BY <1>1
    <2>2. QED
      BY <1>1, <1>2, <2>1
  <1>4. Len(e) <= (n - k) + Len(t)
    BY <1>1, <1>2
  <1>5. QED
    BY <1>3, <1>4 DEF Behind, e

\* What goes on as a and then t goes on as t behind a.
LEMMA BehindConcat ==
  ASSUME NEW s \in Seq(Tokens), NEW n \in Nat, NEW a \in Seq(Tokens), NEW t \in Seq(Tokens),
         Behind(s, n, a \o t)
  PROVE  Behind(s, n + Len(a), t)
  <1>1. /\ Len(a \o t) = Len(a) + Len(t) /\ Len(a) \in Nat /\ Len(t) \in Nat /\ Len(s) \in Nat
    OBVIOUS
  <1>2. Len(s) <= n + Len(a \o t) /\ \A j \in n + 1 .. Len(s) : s[j] = (a \o t)[j - n]
    BY DEF Behind
  <1>3. ASSUME NEW j \in (n + Len(a)) + 1 .. Len(s)
        PROVE  s[j] = t[j - (n + Len(a))]
    <2>1. j \in n + 1 .. Len(s) /\ j - n \in Len(a) + 1 .. Len(a) + Len(t)
      BY <1>1, <1>2
    <2>2. (a \o t)[j - n] = t[(j - n) - Len(a)]
      BY <1>1, <2>1
    <2>3. (j - n) - Len(a) = j - (n + Len(a))
      BY <1>1
    <2>4. QED
      BY <1>2, <2>1, <2>2, <2>3
  <1>4. Len(s) <= (n + Len(a)) + Len(t)
    BY <1>1, <1>2
  <1>5. QED
    BY <1>3, <1>4 DEF Behind

\* A stream that goes on as x and then t has x first, and t when x is taken.
LEMMA BehindHead ==
  ASSUME NEW s \in Seq(Tokens), s # <<>>, NEW x \in Tokens, NEW t \in Seq(Tokens),
         Behind(s, 0, <<x>> \o t)
  PROVE  s[1] = x /\ Behind(s, 1, t) /\ Behind(Erase(s, 1), 0, t)
  <1>1. Len(s) \in Nat /\ Len(s) # 0
    BY EmptySeq
  <1>2. <<x>> \in Seq(Tokens) /\ Len(<<x>>) = 1 /\ (<<x>> \o t)[1] = x
    OBVIOUS
  <1>3. s[1] = x
    <2>1. 1 \in 0 + 1 .. Len(s) /\ 1 - 0 = 1
      BY <1>1
    <2>2. s[1] = (<<x>> \o t)[1 - 0]
      BY <2>1 DEF Behind
    <2>3. QED
      BY <1>2, <2>1, <2>2
  <1>4. Behind(s, 1, t)
    <2>1. Behind(s, 0 + Len(<<x>>), t)
      BY <1>2, BehindConcat
    <2>2. QED
      BY <1>2, <2>1
  <1>5. Behind(Erase(s, 1), 1 - 1, t)
    BY <1>1, <1>4, BehindErase
  <1>6. QED
    BY <1>3, <1>4, <1>5

\* Nothing goes on as nothing.
LEMMA BehindNothing ==
  ASSUME NEW s \in Seq(Tokens)
  PROVE  /\ Behind(s, 0, <<>>) => s = <<>>
         /\ \A n \in Nat : Len(s) <= n => Behind(s, n, <<>>)
  <1>1. Len(s) \in Nat
    OBVIOUS
  <1>2. Behind(s, 0, <<>>) => Len(s) = 0
    BY <1>1 DEF Behind
  <1>3. \A n \in Nat : Len(s) <= n => Behind(s, n, <<>>)
    BY <1>1 DEF Behind
  <1>4. QED
    BY <1>2, <1>3, EmptySeq

\* The last answer, which closes the connection if the client asked for it, is
\* not behind us while the connection is open.
LEMMA OpenMatches ==
  ASSUME AnswersMatchRequests, phase # "closed"
  PROVE  \A i \in DOMAIN replies :
           (\A j \in 1 .. i - 1 : /\ replies[j].status \in Orderly
                                  /\ ~Unread(requests[replies[j].req]))
             => /\ replies[i].req = i
                /\ ~(replies[i].status \in Orderly /\ requests[i].connection = "close")
  BY DEF AnswersMatchRequests

\* A step that answers nothing.
LEMMA NoAnswer ==
  ASSUME AnswersInv, phase # "closed", UNCHANGED <<requests, replies>>
  PROVE  AnswersMatchRequests' /\ (OrderlySoFar' <=> OrderlySoFar)
  <1>1. AnswersMatchRequests'
    BY OpenMatches DEF AnswersInv, AnswersMatchRequests
  <1>2. OrderlySoFar' <=> OrderlySoFar
    BY DEF OrderlySoFar
  <1>3. QED
    BY <1>1, <1>2

\* A step that begins or goes on reading the last request.
LEMMA ReadingStep ==
  ASSUME AnswersInv, RangesInv', phase # "closed", UNCHANGED clientVars, UNCHANGED replies,
         phase' \notin {"idle", "closed"},
         OrderlySoFar =>
           /\ sent = Len(replies) + 1 /\ cur' = sent
           /\ requests[sent].connection = "close" => connection_closed'
           /\ Awaited(requests[sent], phase', status', left', chunk', stream')
  PROVE  AnswersInv'
  <1>1. requests' = requests /\ sent' = sent /\ replies' = replies
    BY DEF clientVars
  <1>2. AnswersMatchRequests' /\ (OrderlySoFar' <=> OrderlySoFar)
    BY <1>1, NoAnswer
  <1>3. ASSUME OrderlySoFar
        PROVE  /\ sent' = Len(replies)' + 1 /\ cur' = sent'
               /\ req' = requests[sent]
               /\ requests[sent].connection = "close" => connection_closed'
               /\ Awaited(requests[sent], phase', status', left', chunk', stream')
    BY <1>1, <1>3 DEF req
  <1>4. InStep'
    BY <1>2, <1>3 DEF InStep
  <1>5. QED
    BY <1>2, <1>4 DEF AnswersInv

\* A step that ends with an answer to the last request.
LEMMA AnsweringStep ==
  ASSUME AnswersInv, RangesInv', phase # "closed", UNCHANGED clientVars,
         NEW reply \in Answer,
         replies' = replies \/ replies' = Append(replies, reply),
         phase' \in {"idle", "closed"},
         phase' = "idle" => replies' = Append(replies, reply) /\ ~connection_closed',
         OrderlySoFar => sent = Len(replies) + 1 /\ reply.req = sent,
         OrderlySoFar /\ reply.status \in Orderly =>
           /\ requests[sent].connection = "close" => connection_closed'
           /\ ~Unread(requests[sent]) => stream' = <<>>
  PROVE  AnswersInv'
  <1>1. requests' = requests /\ sent' = sent /\ replies \in Seq(Answer)
    BY DEF clientVars, AnswersInv, RangesInv, ConnectionTypeOK
  <1>2. CASE replies' = replies
    <2>1. phase' # "idle"
      <3>1. Len(Append(replies, reply)) = Len(replies) + 1 /\ Len(replies) \in Nat
        BY <1>1
      <3>2. Append(replies, reply) # replies
        BY <3>1
      <3>3. QED
        BY <1>2, <3>2
    <2>2. AnswersMatchRequests'
      BY <1>1, <1>2, NoAnswer
    <2>3. InStep'
      BY <2>1 DEF InStep
    <2>4. QED
      BY <2>2, <2>3 DEF AnswersInv
  <1>3. CASE replies' = Append(replies, reply)
    <2> DEFINE n == Len(replies)
    <2>1. /\ n \in Nat /\ DOMAIN replies = 1 .. n
          /\ DOMAIN replies' = 1 .. n + 1 /\ Len(replies') = n + 1
          /\ \A i \in 1 .. n : replies'[i] = replies[i]
          /\ replies'[n + 1] = reply
      BY <1>1, <1>3, AppendProperties
    <2> HIDE DEF n
    <2> DEFINE Fine(i) == replies[i].status \in Orderly /\ ~Unread(requests[replies[i].req])
               Fine2(i) == replies'[i].status \in Orderly /\ ~Unread(requests[replies'[i].req])
    <2>2. \A i \in 1 .. n : Fine2(i) <=> Fine(i)
      BY <2>1
    <2>3. OrderlySoFar <=> \A i \in 1 .. n : Fine(i)
      BY <2>1 DEF OrderlySoFar
    <2>4. OrderlySoFar' => OrderlySoFar /\ Fine2(n + 1)
      <3>1. OrderlySoFar' <=> \A i \in 1 .. n + 1 : Fine2(i)
        BY <1>1, <2>1 DEF OrderlySoFar
      <3> HIDE DEF Fine, Fine2
      <3>2. \A i \in 1 .. n : i \in 1 .. n + 1
        BY <2>1
      <3>3. n + 1 \in 1 .. n + 1
        BY <2>1
      <3>4. QED
        BY <2>2, <2>3, <3>1, <3>2, <3>3
    <2>5. InStep'
      <3> SUFFICES ASSUME OrderlySoFar', phase' = "idle"
                   PROVE  sent' = Len(replies)' /\ stream' = <<>>
        BY DEF InStep
      <3>1. OrderlySoFar /\ reply.status \in Orderly /\ ~Unread(requests[reply.req])
        BY <2>1, <2>4
      <3>2. sent = n + 1 /\ reply.req = sent
        BY <3>1 DEF n
      <3>3. QED
        BY <1>1, <2>1, <3>1, <3>2
    <2>6. ASSUME NEW i \in 1 .. n + 1, \A j \in 1 .. i - 1 : Fine2(j)
          PROVE  /\ replies'[i].req = i
                 /\ replies'[i].status \in Orderly /\ requests[i].connection = "close"
                      => i = n + 1 /\ phase' = "closed"
      <3>1. CASE i \in 1 .. n
        <4>1. \A j \in 1 .. i - 1 : Fine(j)
          <5>1. \A j \in 1 .. i - 1 : j \in 1 .. n
            BY <2>1, <3>1
          <5> HIDE DEF Fine, Fine2
          <5>2. QED
            BY <2>2, <2>6, <5>1
        <4>2. /\ replies[i].req = i
              /\ ~(replies[i].status \in Orderly /\ requests[i].connection = "close")
          BY <2>1, <3>1, <4>1, OpenMatches DEF AnswersInv
        <4>3. QED
          BY <2>1, <3>1, <4>2
      <3>2. CASE i = n + 1
        <4>1. OrderlySoFar
          <5>1. \A j \in 1 .. n : j \in 1 .. i - 1
            BY <2>1, <3>2
          <5> HIDE DEF Fine, Fine2
          <5>2. QED
            BY <2>2, <2>3, <2>6, <5>1
        <4>2. sent = n + 1 /\ reply.req = n + 1
          BY <4>1 DEF n
        <4>3. QED
          BY <2>1, <3>2, <4>1, <4>2
      <3>3. QED
        BY <2>1, <3>1, <3>2
    <2>7. AnswersMatchRequests'
      BY <1>1, <2>1, <2>6 DEF AnswersMatchRequests
    <2>8. QED
      BY <2>5, <2>7 DEF AnswersInv
  <1>4. QED
    BY <1>2, <1>3

\* What is in the stream of an idle connection: the last request, from its line.
LEMMA FirstLine ==
  ASSUME AnswersInv, OrderlySoFar, phase = "idle", stream # <<>>
  PROVE  /\ sent = Len(replies) + 1 /\ sent \in 1 .. Len(requests) /\ requests[sent] \in Request
         /\ Behind(stream, 0, Wire(requests[sent]))
         /\ stream[1] = IF requests[sent].line THEN "line" ELSE "badline"
         /\ getline(stream) = 1 /\ Arriving = sent
  <1>1. sent = Len(replies) + 1 /\ Behind(stream, 0, Wire(requests[sent]))
    BY DEF AnswersInv, InStep
  <1>2. /\ stream \in Seq(Tokens) /\ requests \in Seq(Request) /\ sent \in 0 .. Len(requests)
        /\ replies \in Seq(Answer) /\ Cardinality(RequestLines(stream)) <= sent
    BY DEF AnswersInv, RangesInv, ConnectionTypeOK, ReadsARequest
  <1>3. sent \in 1 .. Len(requests) /\ sent \in Nat
    BY <1>1, <1>2
  <1>4. PICK r : r = requests[sent]
    OBVIOUS
  <1>5. r \in Request
    BY <1>2, <1>3, <1>4
  <1>6. PICK W : W = Wire(r)
    OBVIOUS
  <1>7. /\ W \in Seq(Tokens) /\ W[1] = IF r.line THEN "line" ELSE "badline"
        /\ RequestLines(W) = {1}
    BY <1>5, <1>6, WireParts
  <1>8. /\ Len(stream) \in Nat \ {0} /\ Len(W) \in Nat /\ Len(stream) <= Len(W)
        /\ \A i \in 1 .. Len(stream) : stream[i] = W[i]
    <2>1. Len(stream) \in Nat \ {0}
      BY <1>2, EmptySeq
    <2>2. Behind(stream, 0, W)
      BY <1>1, <1>4, <1>6
    <2>3. Len(stream) <= 0 + Len(W) /\ \A j \in 0 + 1 .. Len(stream) : stream[j] = W[j - 0]
      BY <2>2 DEF Behind
    <2>4. QED
      BY <1>7, <2>1, <2>3
  <1>9. stream[1] = W[1]
    BY <1>8
  <1>10. getline(stream) = 1
    <2>1. stream[1] \in Lines
      BY <1>7, <1>9 DEF Lines
    <2>2. QED
      BY <1>2, <2>1, GetLine
  <1>11. RequestLines(stream) = {1}
    <2>1. DOMAIN stream = 1 .. Len(stream) /\ DOMAIN W = 1 .. Len(W)
      BY <1>2, <1>7
    <2>2. \A i \in 1 .. Len(stream) : i \in 1 .. Len(W)
      BY <1>8
    <2>3. RequestLines(stream) \subseteq {1}
      BY <1>7, <1>8, <2>1, <2>2 DEF RequestLines
    <2>4. 1 \in RequestLines(stream)
      BY <1>7, <1>8, <1>9, <2>1 DEF RequestLines
    <2>5. QED
      BY <2>3, <2>4
  <1>12. Arriving = sent
    BY <1>2, <1>3, <1>11, ArrivingRequest
  <1>13. QED
    BY <1>1, <1>3, <1>4, <1>5, <1>7, <1>9, <1>10, <1>12

\* A request line that cannot be parsed is answered and the connection is closed.
LEMMA BadRequestMatches ==
  ASSUME AnswersInv, phase = "idle", stream # <<>>, UNCHANGED clientVars,
         ~parse_request_line(stream, getline(stream)), bad_request(getline(stream))
  PROVE  AnswersInv'
  <1> DEFINE n == getline(stream)
             reply == ErrorReply(400)
  <1>1. RangesInv'
    BY BadRequestStep DEF AnswersInv
  <1>2. stream \in Seq(Tokens) /\ sent \in Nat /\ Cardinality(RequestLines(stream)) <= sent
    BY DEF AnswersInv, RangesInv, ConnectionTypeOK, ReadsARequest
  <1>3. n \in Nat
    BY <1>2, GetLine
  <1>4. cur' = IF n = 1 /\ stream[1] = "badline" THEN Arriving ELSE 0
    BY DEF bad_request
  <1>5. cur' \in Nat
    <2>1. Arriving \in Nat
      BY <1>2, ArrivingRequest
    <2>2. QED
      BY <1>4, <2>1
  <1>6. PICK ahead \in 0 .. Len(stream) - n :
          finish(reply, Erase(stream, n), ahead, LineEnds(stream) = {})
    BY DEF bad_request
  <1>7. reply \in Answer /\ reply.req = cur' /\ reply.status = 400
    BY <1>5, ErrorAnswer
  <1> HIDE DEF reply
  <1>8. OrderlySoFar => sent = Len(replies) + 1 /\ reply.req = sent
    <2> SUFFICES ASSUME OrderlySoFar PROVE sent = Len(replies) + 1 /\ reply.req = sent
      OBVIOUS
    <2>1. /\ sent = Len(replies) + 1 /\ n = 1 /\ Arriving = sent
          /\ stream[1] \in {"line", "badline"}
      BY FirstLine
    <2>2. stream[1] # "line"
      BY <2>1 DEF parse_request_line
    <2>3. QED
      BY <1>4, <1>7, <2>1, <2>2
  <1>9. reply.status \notin Orderly
    BY <1>7 DEF Orderly
  <1> HIDE DEF n
  <1>10. ahead \in Nat /\ Erase(stream, n) \in Seq(Tokens)
    BY <1>2, <1>3, <1>6, Erased
  <1>11. /\ phase' \in {"idle", "closed"}
         /\ replies' = replies \/ replies' = Append(replies, reply)
         /\ phase' = "idle" => replies' = Append(replies, reply) /\ ~connection_closed'
    BY <1>6, <1>10, AnswerWritten
  <1>12. QED
    BY <1>1, <1>7, <1>8, <1>9, <1>11, AnsweringStep

\* respond answers the request that was read.
LEMMA RespondMatches ==
  ASSUME AnswersInv, respond
  PROVE  AnswersInv'
  <1> DEFINE a == IF phase = "fail" THEN ErrorReply(status) ELSE write_response(req)
  <1>1. /\ cur' = cur /\ connection_closed' = connection_closed /\ UNCHANGED clientVars
        /\ phase \in {"dispatch", "fail"}
        /\ finish(a, stream, held, FALSE)
    BY DEF respond
  <1>2. /\ stream \in Seq(Tokens) /\ held \in Nat /\ cur \in 1 .. Len(requests)
        /\ requests \in Seq(Request)
        /\ settings.statusMessage \in Nat /\ settings.defaultCompanyName \in Nat
        /\ phase = "fail" => status \in {400, 413, 415}
    BY <1>1 DEF AnswersInv, RangesInv, ConnectionTypeOK, ReadsARequest
  <1>3. a \in Answer /\ a.req = cur /\ (phase = "fail" => a.status = status)
    <2>1. CASE phase = "fail"
      <3>1. cur' \in Nat /\ status \in Int
        BY <1>1, <1>2, <2>1
      <3>2. /\ ErrorReply(status) \in Answer /\ ErrorReply(status).req = cur'
            /\ ErrorReply(status).status = status
        BY <3>1, ErrorAnswer
      <3>3. QED
        BY <1>1, <2>1, <3>2
    <2>2. CASE phase # "fail"
      BY <1>1, <1>2, <2>2, HandlerAnswer
    <2>3. QED
      BY <2>1, <2>2
  <1> HIDE DEF a
  <1>4. RangesInv'
    BY RespondStep DEF AnswersInv
  <1>5. /\ phase' \in {"idle", "closed"} /\ stream' = Erase(stream, held)
        /\ replies' = replies \/ replies' = Append(replies, a)
        /\ phase' = "idle" => replies' = Append(replies, a) /\ ~connection_closed'
    BY <1>1, <1>2, AnswerWritten
  <1>6. stream = <<>> => stream' = <<>>
    BY <1>2, <1>5 DEF Erase
  <1>7. ASSUME OrderlySoFar
        PROVE  /\ sent = Len(replies) + 1 /\ cur = sent
               /\ requests[sent].connection = "close" => connection_closed
               /\ Awaited(requests[sent], phase, status, left, chunk, stream)
    BY <1>1, <1>7 DEF AnswersInv, InStep, req
  <1>8. OrderlySoFar => sent = Len(replies) + 1 /\ a.req = sent
    BY <1>3, <1>7
  <1>9. ASSUME OrderlySoFar, a.status \in Orderly
        PROVE  /\ requests[sent].connection = "close" => connection_closed'
               /\ ~Unread(requests[sent]) => stream' = <<>>
    <2>1. requests[sent].connection = "close" => connection_closed'
      BY <1>1, <1>7, <1>9
    <2>2. phase = "fail" => status = 413
      BY <1>2, <1>3, <1>9 DEF Orderly
    <2>3. ~Unread(requests[sent]) => stream = <<>>
      BY <1>1, <1>7, <1>9, <2>2 DEF Awaited
    <2>4. QED
      BY <1>6, <2>1, <2>3
  <1>10. phase # "closed"
    BY <1>1
  <1>11. QED
    BY <1>1, <1>3, <1>4, <1>5, <1>8, <1>9, <1>10, AnsweringStep

\* What is left of the last request when its headers were read without error is
\* as much of its body as was sent.
LEMMA AfterLastHeaders ==
  ASSUME AnswersInv, OrderlySoFar, phase = "idle", stream # <<>>,
         early_error(requests[sent], read_headers(Erase(stream, 1)).ok) = 0
  PROVE  Rest \in Seq(Tokens) /\ Behind(Rest, 0, BodyOf(requests[sent]))
  <1>1. /\ Arriving = sent /\ requests[sent] \in Request
        /\ Behind(stream, 0, Wire(requests[sent]))
    BY FirstLine
  <1>2. stream \in Seq(Tokens)
    BY DEF AnswersInv, RangesInv, ConnectionTypeOK
  <1>3. PICK r : r = requests[sent]
    OBVIOUS
  <1>4. PICK W : W = Wire(r)
    OBVIOUS
  <1>5. PICK b : b = BodyOf(r)
    OBVIOUS
  <1>6. /\ W \in Seq(Tokens) /\ b \in Seq(Tokens) /\ Len(W) = 3 + Len(b)
        /\ W[2] \in {"header", "badheader"} /\ W[3] = "blank"
        /\ \A i \in 4 .. Len(W) : W[i] = b[i - 3]
    <2>1. b \in Seq(BodyTokens) /\ BodyTokens \subseteq Tokens
      BY <1>1, <1>3, <1>5, WireParts DEF BodyTokens
    <2>2. b \in Seq(Tokens)
      BY <2>1, SeqMonotonic
    <2>3. QED
      BY <1>1, <1>3, <1>4, <1>5, <2>2, WireParts
  <1>7. /\ Len(stream) \in Nat /\ Len(stream) <= Len(W) /\ Len(stream) # 0
        /\ \A i \in 1 .. Len(stream) : stream[i] = W[i]
    <2>1. Len(stream) \in Nat /\ Len(stream) # 0
      BY <1>2, EmptySeq
    <2>2. Behind(stream, 0, W)
      BY <1>1, <1>3, <1>4
    <2>3. Len(stream) <= 0 + Len(W) /\ \A j \in 0 + 1 .. Len(stream) : stream[j] = W[j - 0]
      BY <2>2 DEF Behind
    <2>4. QED
      BY <1>6, <2>1, <2>3
  <1> DEFINE s == Erase(stream, 1)
             h == read_headers(s)
  <1>8. /\ s \in Seq(Tokens) /\ Len(s) = Len(stream) - 1
        /\ \A i \in 1 .. Len(s) : s[i] = stream[i + 1]
    <2>1. 1 \in Nat /\ 1 <= Len(stream)
      BY <1>7
    <2>2. QED
      BY <1>2, <2>1, Erased
  <1> HIDE DEF s
  <1>9. /\ Len(s) > 0 => s[1] # "blank"
        /\ Len(s) > 1 => s[2] = "blank"
    <2>1. ASSUME Len(s) > 0 PROVE s[1] # "blank"
      <3>1. s[1] = stream[2] /\ 2 \in 1 .. Len(stream)
        BY <1>7, <1>8, <2>1
      <3>2. QED
        BY <1>6, <1>7, <3>1
    <2>2. ASSUME Len(s) > 1 PROVE s[2] = "blank"
      <3>1. s[2] = stream[3] /\ 3 \in 1 .. Len(stream)
        BY <1>7, <1>8, <2>2
      <3>2. QED
        BY <1>6, <1>7, <3>1
    <2>3. QED
      BY <2>1, <2>2
  <1>10. early_error(r, h.ok) = 0
    BY <1>3 DEF s
  <1>11. h.ok
    BY <1>10 DEF early_error
  <1>12. Len(s) > 1 /\ h.taken = 2
    BY <1>8, <1>9, <1>11, ReadHeaders
  <1>13. Rest = Erase(stream, 1 + h.taken)
    BY <1>1, <1>3, <1>10 DEF Rest, s
  <1>14. Rest = Erase(stream, 3) /\ 3 \in Nat /\ 3 <= Len(stream)
    BY <1>7, <1>8, <1>12, <1>13
  <1>15. /\ Rest \in Seq(Tokens) /\ Len(Rest) = Len(stream) - 3
         /\ \A i \in 1 .. Len(Rest) : Rest[i] = stream[i + 3]
    BY <1>2, <1>14, Erased
  <1>16. Len(Rest) <= 0 + Len(b)
    BY <1>6, <1>7, <1>15
  <1>17. ASSUME NEW j \in 0 + 1 .. Len(Rest)
         PROVE  Rest[j] = b[j - 0]
    <2>1. j \in 1 .. Len(Rest) /\ j + 3 \in 1 .. Len(stream) /\ j + 3 \in 4 .. Len(W)
          /\ (j + 3) - 3 = j - 0
      BY <1>6, <1>7, <1>15
    <2>2. Rest[j] = stream[j + 3] /\ stream[j + 3] = W[j + 3]
      BY <1>7, <1>15, <2>1
    <2>3. W[j + 3] = b[(j + 3) - 3]
      BY <1>6, <2>1
    <2>4. QED
      BY <2>1, <2>2, <2>3
  <1>18. QED
    BY <1>3, <1>5, <1>15, <1>16, <1>17 DEF Behind

\* The phase in which the reading of a body begins awaits just that body.
LEMMA BodyAwaited ==
  ASSUME NEW r \in Request, NEW s \in Seq(Tokens), Behind(s, 0, BodyOf(r))
  PROVE  Awaited(r, content_phase(r), content_status(r), Len(r.content), 0, s)
  <1>1. /\ r.framing \in {"none", "length", "chunked", "invalid"}
        /\ r.content \in Seq(Bytes) /\ r.chunks \in Seq(Seq(Bytes) \ {<<>>})
        /\ r.framing \in {"none", "invalid"} /\ r.content # <<>>
             => r.method \in {"POST", "PUT", "PATCH"}
    BY DEF Request, AnyRequest
  <1>2. BodyOf(r) = IF r.framing = "chunked" THEN ChunksAfter(r, 0) ELSE r.content
    <2>1. Len(r.chunks) - 0 = Len(r.chunks)
      BY <1>1
    <2>2. QED
      BY <2>1 DEF BodyOf, ChunksAfter
  <1>3. content_phase(r) \in {"dispatch", "fail", "size", "until_close", "received", "length"}
    BY ContentPhase
  <1>4. content_phase(r) = "fail" => content_status(r) # 413
    BY ContentPhase
  <1>5. content_phase(r) = "size" => r.framing = "chunked"
    BY <1>1 DEF content_phase, read_content
  <1>6. content_phase(r) = "length" => r.framing = "length"
    BY <1>1 DEF content_phase, read_content
  <1>7. content_phase(r) = "received" => r.framing = "length" /\ r.content = <<>>
    BY <1>1 DEF content_phase, read_content
  <1>8. content_phase(r) = "dispatch" /\ ~Unread(r) => r.framing # "chunked" /\ r.content = <<>>
    BY <1>1 DEF content_phase, read_content, expect_content, Unread
  <1>9. BodyOf(r) = <<>> => s = <<>>
    BY BehindNothing
  <1>10. r.framing = "length" => Behind(s, Len(r.content), <<>>)
    <2> SUFFICES ASSUME r.framing = "length" PROVE Behind(s, Len(r.content), <<>>)
      OBVIOUS
    <2>1. Behind(s, 0, r.content)
      BY <1>2
    <2>2. Len(r.content) \in Nat /\ Len(s) \in Nat /\ Len(s) <= 0 + Len(r.content)
      BY <1>1, <2>1 DEF Behind
    <2>3. QED
      BY <2>2, BehindNothing
  <1>11. 0 \in 0 .. Len(r.chunks) /\ Len(r.content) \in Nat
    BY <1>1
  <1>12. QED
    BY <1>2, <1>3, <1>4, <1>5, <1>6, <1>7, <1>8, <1>9, <1>10, <1>11 DEF Awaited

\* A request whose headers were read is in step with the client.
LEMMA GoodRequestMatches ==
  ASSUME AnswersInv, phase = "idle", stream # <<>>, stream[1] = "line", good_request,
         UNCHANGED clientVars
  PROVE  AnswersInv'
  <1> DEFINE k == Arriving
             e == early_error(requests[k], read_headers(Erase(stream, 1)).ok)
  <1>1. RangesInv'
    BY GoodRequestStep DEF AnswersInv
  <1>2. /\ k \in 1 .. Len(requests) /\ requests[k] \in Request /\ Rest \in Seq(Tokens)
        /\ e \in {0, 400, 414, 416}
    BY AfterHeaders DEF AnswersInv
  <1>3. cur' = k
    BY GoodRequestCases
  <1>4. PICK ahead \in 0 .. Len(Rest) :
          \/ e # 0 /\ finish(ErrorReply(e), Rest, ahead, FALSE)
          \/ /\ e = 0 /\ stream' = Rest /\ held' = ahead
             /\ phase' = content_phase(requests[k])
             /\ status' = content_status(requests[k])
             /\ replies' = replies
             /\ left' = Len(requests[k].content) /\ chunk' = 0
             /\ requests[k].connection = "close" => connection_closed'
    BY GoodRequestCases
  <1>5. ahead \in Nat /\ cur' \in Nat
    BY <1>2, <1>3
  <1>6. OrderlySoFar => sent = Len(replies) + 1 /\ k = sent
    BY FirstLine
  <1>7. OrderlySoFar /\ e = 0 => Behind(Rest, 0, BodyOf(requests[sent]))
    BY <1>6, AfterLastHeaders
  <1> HIDE DEF k, e
  <1>8. CASE e # 0 /\ finish(ErrorReply(e), Rest, ahead, FALSE)
    <2> DEFINE reply == ErrorReply(e)
    <2>1. reply \in Answer /\ reply.req = cur' /\ reply.status = e
      BY <1>2, <1>5, ErrorAnswer
    <2> HIDE DEF reply
    <2>2. reply.status \notin Orderly
      BY <1>2, <1>8, <2>1 DEF Orderly
    <2>3. /\ phase' \in {"idle", "closed"}
          /\ replies' = replies \/ replies' = Append(replies, reply)
          /\ phase' = "idle" => replies' = Append(replies, reply) /\ ~connection_closed'
      <3>1. finish(reply, Rest, ahead, FALSE)
        BY <1>8 DEF reply
      <3>2. Rest \in Seq(Tokens) /\ ahead \in Nat
        BY <1>2, <1>5
      <3>3. QED
        BY <3>1, <3>2, AnswerWritten, Zenon
    <2>4. OrderlySoFar => sent = Len(replies) + 1 /\ reply.req = sent
      BY <1>3, <1>6, <2>1
    <2>5. QED
      BY <1>1, <2>1, <2>2, <2>3, <2>4, AnsweringStep
  <1>9. CASE /\ e = 0 /\ stream' = Rest
             /\ phase' = content_phase(requests[k])
             /\ status' = content_status(requests[k])
             /\ replies' = replies
             /\ left' = Len(requests[k].content) /\ chunk' = 0
             /\ requests[k].connection = "close" => connection_closed'
    <2>1. phase' \notin {"idle", "closed"}
      BY <1>2, <1>9, ContentPhase
    <2>2. ASSUME OrderlySoFar
          PROVE  /\ sent = Len(replies) + 1 /\ cur' = sent
                 /\ requests[sent].connection = "close" => connection_closed'
                 /\ Awaited(requests[sent], phase', status', left', chunk', stream')
      <3>1. sent = Len(replies) + 1 /\ k = sent
        BY <1>6, <2>2
      <3>2. Behind(Rest, 0, BodyOf(requests[k]))
        BY <1>7, <1>9, <2>2, <3>1
      <3>3. Awaited(requests[k], content_phase(requests[k]), content_status(requests[k]),
                    Len(requests[k].content), 0, Rest)
        BY <1>2, <3>2, BodyAwaited
      <3>4. QED
        BY <1>3, <1>9, <3>1, <3>3
    <2>3. QED
      BY <1>1, <1>9, <2>1, <2>2, ReadingStep
  <1>10. QED
    BY <1>4, <1>8, <1>9

\* What the invariant says while a request is being read.
LEMMA WhileReading ==
  ASSUME AnswersInv, OrderlySoFar, phase \notin {"idle", "closed"}
  PROVE  /\ sent = Len(replies) + 1 /\ cur = sent /\ req = requests[sent]
         /\ requests[sent] \in Request
         /\ requests[sent].connection = "close" => connection_closed
         /\ Awaited(requests[sent], phase, status, left, chunk, stream)
  <1>1. cur \in 1 .. Len(requests) /\ requests \in Seq(Request)
    BY DEF AnswersInv, RangesInv, ConnectionTypeOK, ReadsARequest
  <1>2. sent = Len(replies) + 1 /\ cur = sent /\ req = requests[sent]
    BY DEF AnswersInv, InStep, req
  <1>3. requests[sent] \in Request
    BY <1>1, <1>2
  <1>4. QED
    BY <1>2, <1>3 DEF AnswersInv, InStep

\* A step within a request keeps the invariant if it awaits what comes next.
LEMMA WithinRequest ==
  ASSUME AnswersInv, RangesInv', phase \notin {"idle", "closed"},
         UNCHANGED clientVars, UNCHANGED replies, UNCHANGED cur, UNCHANGED connection_closed,
         phase' \notin {"idle", "closed"},
         ASSUME OrderlySoFar, requests[sent] \in Request, req = requests[sent],
                Awaited(requests[sent], phase, status, left, chunk, stream)
         PROVE  Awaited(requests[sent], phase', status', left', chunk', stream')
  PROVE  AnswersInv'
  <1>1. phase # "closed"
    OBVIOUS
  <1>2. OrderlySoFar =>
          /\ sent = Len(replies) + 1 /\ cur' = sent
          /\ requests[sent].connection = "close" => connection_closed'
          /\ Awaited(requests[sent], phase', status', left', chunk', stream')
    BY WhileReading
  <1>3. QED
    BY <1>1, <1>2, ReadingStep

\* Nothing is awaited any more when the content is refused.
LEMMA Refused ==
  ASSUME NEW r, NEW l, NEW c, NEW s
  PROVE  Awaited(r, "fail", 400, l, c, s)
  BY DEF Awaited

\* What is left of a content of known length is what remains to be read.
LEMMA WithLengthMatches ==
  ASSUME AnswersInv, read_content_with_length
  PROVE  AnswersInv'
  <1>1. /\ phase \in {"length", "chunk"} /\ chunk' = chunk
        /\ UNCHANGED clientVars /\ UNCHANGED cur /\ UNCHANGED replies
        /\ UNCHANGED connection_closed
    BY DEF read_content_with_length
  <1>2. PICK n \in 1 .. Len(stream) :
          /\ Receive(n, IF n < left THEN phase
                        ELSE IF phase = "chunk" THEN "crlf" ELSE "received")
          /\ n <= left /\ Take(n) /\ left' = left - n
    BY DEF read_content_with_length
  <1> DEFINE then == IF n < left THEN phase
                     ELSE IF phase = "chunk" THEN "crlf" ELSE "received"
  <1>3. phase' = then \/ (phase' = "fail" /\ status' = 400)
    BY <1>2, Received
  <1>4. RangesInv'
    BY WithLengthStep DEF AnswersInv
  <1>5. phase' \notin {"idle", "closed"} /\ phase \notin {"idle", "closed"}
    BY <1>1, <1>3
  <1>6. /\ stream \in Seq(Tokens) /\ held \in Nat /\ Len(stream) \in Nat
        /\ stream' = Erase(stream, n) /\ stream' \in Seq(Tokens)
    BY <1>2, Taking DEF AnswersInv, RangesInv, ConnectionTypeOK
  <1>7. ASSUME requests[sent] \in Request,
               Awaited(requests[sent], phase, status, left, chunk, stream)
        PROVE  Awaited(requests[sent], phase', status', left', chunk', stream')
    <2> DEFINE r == requests[sent]
               t == IF phase = "length" THEN <<>> ELSE <<"crlf">> \o ChunksAfter(r, chunk)
    <2>1. /\ left \in Nat /\ Behind(stream, left, t)
          /\ phase = "chunk" => chunk \in 0 .. Len(r.chunks)
      BY <1>1, <1>7 DEF Awaited
    <2>2. t \in Seq(Tokens)
      <3>1. CASE phase = "length"
        BY <3>1
      <3>2. CASE phase = "chunk"
        <4>1. r.chunks \in Seq(Seq(Bytes) \ {<<>>})
          BY <1>7 DEF Request, AnyRequest
        <4>2. Len(r.chunks) - chunk \in 0 .. Len(r.chunks)
          BY <2>1, <3>2, <4>1, SMTT(30)
        <4>3. ChunksAfter(r, chunk) \in Seq(BodyTokens)
          BY <1>7, <4>2, ChunksFollow DEF ChunksInOrder, ChunksAfter
        <4>4. BodyTokens \subseteq Tokens /\ "crlf" \in Tokens
          BY DEF BodyTokens, Tokens, Lines
        <4>5. ChunksAfter(r, chunk) \in Seq(Tokens) /\ <<"crlf">> \in Seq(Tokens)
          BY <4>3, <4>4, SeqMonotonic
        <4>6. QED
          BY <3>2, <4>5
      <3>3. QED
        BY <1>1, <3>1, <3>2
    <2>3. Behind(stream', left', t) /\ left' \in Nat
      <3> HIDE DEF t
      <3>1. n \in Nat /\ n <= Len(stream) /\ left' = left - n
        BY <1>2, <1>6
      <3>2. left - n \in Nat
        BY <1>2, <2>1, <3>1
      <3>3. Behind(Erase(stream, n), left - n, t)
        BY <1>2, <1>6, <2>1, <2>2, <3>1, BehindErase
      <3>4. QED
        BY <1>6, <3>1, <3>2, <3>3
    <2>4. CASE phase' = "fail" /\ status' = 400
      BY <2>4, Refused
    <2>5. CASE phase' = then /\ n < left
      BY <1>1, <2>1, <2>3, <2>5 DEF Awaited
    <2>6. CASE phase' = then /\ ~(n < left)
      <3>1. left' = 0
        BY <1>2, <2>1, <2>6
      <3>2. CASE phase = "length"
        <4>1. Behind(stream', 0, <<>>)
          BY <2>3, <3>1, <3>2
        <4>2. stream' = <<>> /\ phase' = "received"
          BY <1>6, <2>6, <3>2, <4>1, BehindNothing
        <4>3. QED
          BY <4>2 DEF Awaited
      <3>3. CASE phase = "chunk"
        <4>1. Behind(stream', 0, <<"crlf">> \o ChunksAfter(r, chunk)) /\ phase' = "crlf"
          BY <2>3, <2>6, <3>1, <3>3
        <4>2. QED
          BY <1>1, <2>1, <3>3, <4>1 DEF Awaited
      <3>4. QED
        BY <1>1, <3>2, <3>3
    <2>7. QED
      BY <1>3, <2>4, <2>5, <2>6
  <1>8. QED
    BY <1>1, <1>4, <1>5, <1>7, WithinRequest

\* The chunks that may come, as tokens.
LEMMA ChunksType ==
  ASSUME NEW r \in Request, NEW c \in 0 .. Len(r.chunks)
  PROVE  /\ Len(r.chunks) \in Nat /\ ChunksAfter(r, c) \in Seq(Tokens)
         /\ c = Len(r.chunks) =>
              ChunksAfter(r, c) = <<r.lastchunk>> \o <<r.trailer, "crlf">>
         /\ c < Len(r.chunks) =>
              /\ r.chunks[c + 1] \in Seq(Tokens) /\ c + 1 \in 0 .. Len(r.chunks)
              /\ ChunksAfter(r, c)
                   = <<"size">> \o (r.chunks[c + 1] \o (<<"crlf">> \o ChunksAfter(r, c + 1)))
  <1>1. /\ r.chunks \in Seq(Seq(Bytes) \ {<<>>}) /\ Len(r.chunks) \in Nat
        /\ r.lastchunk \in {"last", "badsize"} /\ r.trailer \in {"trailer", "longtrailer"}
    BY DEF Request, AnyRequest
  <1>2. PICK N : N = Len(r.chunks)
    OBVIOUS
  <1>3. ChunksInOrder(r)
    BY ChunksFollow
  <1>4. BodyTokens \subseteq Tokens /\ {"size", "crlf", "last", "badsize", "trailer"} \subseteq Tokens
    BY DEF BodyTokens, Tokens, Lines
  <1>5. ASSUME NEW d \in 0 .. N
        PROVE  ChunksAfter(r, d) \in Seq(Tokens)
    <2>1. N - d \in 0 .. N
      BY <1>1, <1>2
    <2>2. LastChunks(r)[N - d] \in Seq(BodyTokens)
      BY <1>2, <1>3, <2>1 DEF ChunksInOrder
    <2>3. QED
      BY <1>2, <1>4, <2>2, SeqMonotonic DEF ChunksAfter
  <1>6. ASSUME c = N
        PROVE  ChunksAfter(r, c) = <<r.lastchunk>> \o <<r.trailer, "crlf">>
    <2>1. N - c = 0
      BY <1>1, <1>2, <1>6
    <2>2. ChunksAfter(r, c) = <<r.lastchunk, r.trailer, "crlf">>
      BY <1>2, <1>3, <2>1 DEF ChunksAfter, ChunksInOrder
    <2>3. <<r.lastchunk, r.trailer, "crlf">> = <<r.lastchunk>> \o <<r.trailer, "crlf">>
      <3>1. PICK x \in {"last", "badsize"}, y \in {"trailer", "longtrailer"} :
              x = r.lastchunk /\ y = r.trailer
        BY <1>1
      <3>2. <<x, y, "crlf">> = <<x>> \o <<y, "crlf">>
        OBVIOUS
      <3>3. QED
        BY <3>1, <3>2
    <2>4. QED
      BY <2>2, <2>3
  <1>7. ASSUME c < N
        PROVE  /\ r.chunks[c + 1] \in Seq(Tokens) /\ c + 1 \in 0 .. N
               /\ ChunksAfter(r, c)
                    = <<"size">> \o (r.chunks[c + 1] \o (<<"crlf">> \o ChunksAfter(r, c + 1)))
    <2>1. /\ N - c \in 1 .. N /\ N - (N - c) + 1 = c + 1 /\ (N - c) - 1 = N - (c + 1)
          /\ c + 1 \in 1 .. N
      BY <1>1, <1>2, <1>7
    <2>2. r.chunks[c + 1] \in Seq(Bytes)
      BY <1>1, <1>2, <2>1
    <2>3. r.chunks[c + 1] \in Seq(Tokens)
      BY <1>4, <2>2, BytesAreBodyTokens, SeqMonotonic
    <2>4. PICK q \in Seq(Tokens) : q = r.chunks[c + 1]
      BY <2>3
    <2>5. PICK u \in Seq(Tokens) : u = ChunksAfter(r, c + 1)
      BY <1>5, <2>1
    <2>6. ChunksAfter(r, c) = <<"size">> \o q \o <<"crlf">> \o u
      <3>1. LastChunks(r)[N - c]
              = <<"size">> \o r.chunks[N - (N - c) + 1] \o <<"crlf">> \o LastChunks(r)[(N - c) - 1]
        BY <1>2, <1>3, <2>1 DEF ChunksInOrder
      <3>2. QED
        BY <1>2, <2>1, <2>4, <2>5, <3>1 DEF ChunksAfter
    <2>7. <<"size">> \o q \o <<"crlf">> \o u = <<"size">> \o (q \o (<<"crlf">> \o u))
      <3>1. <<"size">> \in Seq(Tokens) /\ <<"crlf">> \in Seq(Tokens)
        BY <1>4
      <3>2. QED
        BY <3>1, ConcatFour
    <2>8. c + 1 \in 0 .. N
      BY <1>1, <1>2, <2>1
    <2>9. QED
      BY <2>3, <2>4, <2>5, <2>6, <2>7, <2>8, Zenon
  <1>8. QED
    BY <1>1, <1>2, <1>5, <1>6, <1>7

\* A line of a chunked content is one token, and the phase goes on with it as the
\* request does.
LEMMA ChunkedMatches ==
  ASSUME AnswersInv, read_content_chunked
  PROVE  AnswersInv'
  <1> DEFINE n == getline(stream)
             line == IF n = 1 THEN stream[1] ELSE "other"
             goes(to, c, l) == phase' = to /\ chunk' = c /\ left' = l
                                 /\ status' = IF to = "fail" THEN 400 ELSE -1
  <1>1. /\ phase \in {"size", "crlf", "trailer", "trailers"} /\ stream # <<>>
        /\ UNCHANGED clientVars /\ UNCHANGED cur /\ UNCHANGED replies
        /\ UNCHANGED connection_closed /\ Take(n)
    BY DEF read_content_chunked
  <1>2. (CASE phase = "size" /\ line = "size" -> goes("chunk", chunk + 1, Len(req.chunks[chunk + 1]))
          [] phase = "size" /\ line = "last" -> goes("trailer", chunk, 0)
          [] phase = "crlf" /\ line = "crlf" -> goes("size", chunk, 0)
          [] phase \in {"trailer", "trailers"} /\ line # "longtrailer" ->
               goes(IF line = "crlf" THEN "received" ELSE "trailers", chunk, 0)
          [] OTHER -> goes("fail", chunk, 0))
    BY Zenon DEF read_content_chunked
  <1>3. RangesInv'
    BY ChunkedStep DEF AnswersInv
  <1>4. /\ stream \in Seq(Tokens) /\ held \in Nat /\ Len(stream) \in Nat \ {0}
        /\ n \in 1 .. Len(stream) /\ (stream[1] \in Lines => n = 1)
    <2>1. stream \in Seq(Tokens) /\ held \in Nat
      BY DEF AnswersInv, RangesInv, ConnectionTypeOK
    <2>2. QED
      BY <1>1, <2>1, GetLine, EmptySeq
  <1>5. stream' = Erase(stream, n) /\ stream' \in Seq(Tokens)
    BY <1>1, <1>4, Taking
  <1> HIDE DEF n, line
  <1>6. phase' \notin {"idle", "closed"} /\ phase \notin {"idle", "closed"}
    BY <1>1, <1>2
  <1>7. ASSUME NEW x \in Lines, stream[1] = x
        PROVE  line = x /\ stream' = Erase(stream, 1)
    BY <1>4, <1>5, <1>7 DEF line
  <1>8. /\ {"size", "crlf", "trailer", "longtrailer", "last", "badsize"} \subseteq Lines
        /\ Lines \subseteq Tokens
    BY DEF Lines, Tokens
  <1>9. ASSUME requests[sent] \in Request, req = requests[sent],
               Awaited(requests[sent], phase, status, left, chunk, stream)
        PROVE  Awaited(requests[sent], phase', status', left', chunk', stream')
    <2>1. PICK r \in Request : r = requests[sent]
      BY <1>9
    <2>2. /\ Awaited(r, phase, status, left, chunk, stream) /\ req = r
      BY <1>9, <2>1
    <2> SUFFICES Awaited(r, phase', status', left', chunk', stream')
      BY <2>1
    <2>3. CASE phase = "size"
      <3>1. chunk \in 0 .. Len(r.chunks) /\ Behind(stream, 0, ChunksAfter(r, chunk))
        BY <2>2, <2>3 DEF Awaited
      <3>2. Len(r.chunks) \in Nat
        BY <3>1, ChunksType
      <3>3. CASE chunk < Len(r.chunks)
        <4>1. PICK q \in Seq(Tokens) : q = r.chunks[chunk + 1]
          BY <3>1, <3>3, ChunksType
        <4>2. chunk + 1 \in 0 .. Len(r.chunks)
          BY <3>1, <3>2, <3>3
        <4>3. PICK u \in Seq(Tokens) : u = <<"crlf">> \o ChunksAfter(r, chunk + 1)
          <5>1. ChunksAfter(r, chunk + 1) \in Seq(Tokens)
            BY <4>2, ChunksType
          <5>2. <<"crlf">> \in Seq(Tokens)
            BY <1>8
          <5>3. <<"crlf">> \o ChunksAfter(r, chunk + 1) \in Seq(Tokens)
            BY <5>1, <5>2, ConcatProperties
          <5>4. QED
            BY <5>3, Zenon
        <4>4. Behind(stream, 0, <<"size">> \o (q \o u))
          BY <3>1, <3>3, <4>1, <4>3, ChunksType
        <4>5. q \o u \in Seq(Tokens) /\ "size" \in Lines /\ "size" \in Tokens
          BY <1>8
        <4>6. stream[1] = "size" /\ Behind(Erase(stream, 1), 0, q \o u)
          BY <1>1, <1>4, <4>4, <4>5, BehindHead
        <4>7. line = "size" /\ stream' = Erase(stream, 1)
          BY <1>7, <4>5, <4>6
        <4>8. phase' = "chunk" /\ chunk' = chunk + 1 /\ left' = Len(q)
          BY <1>2, <2>2, <2>3, <4>1, <4>7
        <4>9. Behind(stream', 0 + Len(q), u)
          BY <1>5, <4>6, <4>7, BehindConcat
        <4>10. Len(q) \in Nat /\ 0 + Len(q) = Len(q)
          OBVIOUS
        <4>11. QED
          BY <4>2, <4>3, <4>8, <4>9, <4>10 DEF Awaited
      <3>4. CASE chunk = Len(r.chunks)
        <4>1. r.lastchunk \in {"last", "badsize"} /\ r.trailer \in {"trailer", "longtrailer"}
          BY DEF Request, AnyRequest
        <4>2. PICK x \in Lines : x = r.lastchunk
          BY <1>8, <4>1
        <4>3. PICK u \in Seq(Tokens) : u = <<r.trailer, "crlf">>
          <5>1. r.trailer \in Tokens /\ "crlf" \in Tokens
            BY <1>8, <4>1
          <5>2. <<r.trailer, "crlf">> \in Seq(Tokens)
            BY <5>1
          <5>3. QED
            BY <5>2, Zenon
        <4>4. Behind(stream, 0, <<x>> \o u)
          BY <3>1, <3>4, <4>2, <4>3, ChunksType
        <4>5. x \in Tokens
          BY <1>8, <4>2
        <4>6. stream[1] = x /\ Behind(Erase(stream, 1), 0, u)
          BY <1>1, <1>4, <4>4, <4>5, BehindHead
        <4>7. line = x /\ stream' = Erase(stream, 1)
          BY <1>7, <4>6
        <4>8. CASE x = "last"
          <5>1. phase' = "trailer"
            BY <1>2, <2>3, <4>7, <4>8
          <5>2. QED
            BY <4>3, <4>6, <4>7, <5>1 DEF Awaited
        <4>9. CASE x = "badsize"
          <5>1. phase' = "fail" /\ status' = 400
            BY <1>2, <2>3, <4>7, <4>9
          <5>2. QED
            BY <5>1, Refused
        <4>10. QED
          BY <4>1, <4>2, <4>8, <4>9
      <3>5. QED
        BY <3>1, <3>2, <3>3, <3>4
    <2>4. CASE phase = "crlf"
      <3>1. chunk \in 0 .. Len(r.chunks) /\ Behind(stream, 0, <<"crlf">> \o ChunksAfter(r, chunk))
        BY <2>2, <2>4 DEF Awaited
      <3>2. ChunksAfter(r, chunk) \in Seq(Tokens) /\ "crlf" \in Tokens /\ "crlf" \in Lines
        BY <1>8, <3>1, ChunksType
      <3>3. stream[1] = "crlf" /\ Behind(Erase(stream, 1), 0, ChunksAfter(r, chunk))
        BY <1>1, <1>4, <3>1, <3>2, BehindHead
      <3>4. line = "crlf" /\ stream' = Erase(stream, 1)
        BY <1>7, <3>2, <3>3
      <3>5. phase' = "size" /\ chunk' = chunk
        BY <1>2, <2>4, <3>4
      <3>6. QED
        BY <3>1, <3>3, <3>4, <3>5 DEF Awaited
    <2>5. CASE phase = "trailer"
      <3>1. Behind(stream, 0, <<r.trailer, "crlf">>)
        BY <2>2, <2>5 DEF Awaited
      <3>2. PICK x \in {"trailer", "longtrailer"} : x = r.trailer
        BY DEF Request, AnyRequest
      <3>3. x \in Tokens /\ x \in Lines
        BY <1>8, <3>2
      <3>4. stream[1] = x /\ Behind(Erase(stream, 1), 0, <<"crlf">>)
        <4>1. <<"crlf">> \in Seq(Tokens) /\ <<x, "crlf">> = <<x>> \o <<"crlf">>
          BY <1>8
        <4>2. PICK u \in Seq(Tokens) : u = <<"crlf">>
          BY <4>1, Zenon
        <4>3. Behind(stream, 0, <<x>> \o u)
          BY <3>1, <3>2, <4>1, <4>2, Zenon
        <4>4. QED
          BY <1>1, <1>4, <3>3, <4>2, <4>3, BehindHead
      <3>5. line = x /\ stream' = Erase(stream, 1)
        BY <1>7, <3>3, <3>4
      <3>6. CASE x = "trailer"
        <4>1. phase' = "trailers"
          BY <1>2, <2>5, <3>5, <3>6
        <4>2. QED
          BY <3>4, <3>5, <4>1 DEF Awaited
      <3>7. CASE x = "longtrailer"
        <4>1. phase' = "fail" /\ status' = 400
          BY <1>2, <2>5, <3>5, <3>7
        <4>2. QED
          BY <4>1, Refused
      <3>8. QED
        BY <3>2, <3>6, <3>7
    <2>6. CASE phase = "trailers"
      <3>1. Behind(stream, 0, <<"crlf">>)
        BY <2>2, <2>6 DEF Awaited
      <3>2. <<"crlf">> = <<"crlf">> \o <<>>
        OBVIOUS
      <3>3. <<>> \in Seq(Tokens) /\ "crlf" \in Tokens /\ "crlf" \in Lines
        BY <1>8
      <3>4. Behind(stream, 0, <<"crlf">> \o <<>>)
        BY <3>1, <3>2
      <3>5. stream[1] = "crlf" /\ Behind(Erase(stream, 1), 0, <<>>)
        BY <1>1, <1>4, <3>3, <3>4, BehindHead
      <3>6. line = "crlf" /\ stream' = Erase(stream, 1)
        BY <1>7, <3>3, <3>5
      <3>7. phase' = "received" /\ stream' = <<>>
        BY <1>2, <1>5, <2>6, <3>5, <3>6, BehindNothing
      <3>8. QED
        BY <3>7 DEF Awaited
    <2>7. QED
      BY <1>1, <2>3, <2>4, <2>5, <2>6
  <1>10. QED
    BY <1>1, <1>3, <1>6, <1>9, WithinRequest

\* A content of unknown length ends with the connection.
LEMMA WithoutLengthMatches ==
  ASSUME AnswersInv, read_content_without_length
  PROVE  AnswersInv'
  <1>1. /\ phase = "until_close"
        /\ UNCHANGED clientVars /\ UNCHANGED cur /\ UNCHANGED replies
        /\ UNCHANGED connection_closed
    BY DEF read_content_without_length
  <1>2. PICK n \in 1 .. Len(stream) : Receive(n, phase)
    BY DEF read_content_without_length
  <1>3. phase' = "until_close" \/ (phase' = "fail" /\ status' = 400)
    BY <1>1, <1>2, Received
  <1>4. RangesInv'
    BY WithoutLengthStep DEF AnswersInv
  <1>5. phase' \notin {"idle", "closed"} /\ phase \notin {"idle", "closed"}
    BY <1>1, <1>3
  <1>6. Awaited(requests[sent], phase', status', left', chunk', stream')
    BY <1>3 DEF Awaited
  <1>7. QED
    BY <1>1, <1>4, <1>5, <1>6, WithinRequest

\* Steps that leave the stream alone.
LEMMA OthersMatch ==
  ASSUME AnswersInv,
         \/ \E closed \in BOOLEAN : read_ends(closed)
         \/ content_received \/ keep_alive_ends \/ UNCHANGED connectionVars
  PROVE  AnswersInv'
  <1>1. RangesInv'
    BY OtherSteps DEF AnswersInv
  <1>2. ASSUME NEW closed \in BOOLEAN, read_ends(closed)
        PROVE  AnswersInv'
    <2>1. /\ phase \in Reading /\ stream = <<>> /\ stream' = stream
          /\ phase' = "received" \/ (phase' = "fail" /\ status' = 400)
          /\ UNCHANGED clientVars /\ UNCHANGED cur /\ UNCHANGED replies
          /\ UNCHANGED connection_closed
      BY <1>2 DEF read_ends, Reading
    <2>2. phase \notin {"idle", "closed"} /\ phase' \notin {"idle", "closed"}
      BY <2>1 DEF Reading
    <2>3. Awaited(requests[sent], phase', status', left', chunk', stream')
      BY <2>1 DEF Awaited
    <2>4. QED
      BY <1>1, <2>1, <2>2, <2>3, WithinRequest
  <1>3. CASE content_received
    <2>1. /\ phase = "received" /\ phase' \in {"dispatch", "fail"} /\ stream' = stream
          /\ UNCHANGED clientVars /\ UNCHANGED cur /\ UNCHANGED replies
          /\ UNCHANGED connection_closed
      BY <1>3 DEF content_received
    <2>2. ASSUME Awaited(requests[sent], phase, status, left, chunk, stream)
          PROVE  Awaited(requests[sent], phase', status', left', chunk', stream')
      BY <2>1, <2>2 DEF Awaited
    <2>3. phase \notin {"idle", "closed"} /\ phase' \notin {"idle", "closed"}
      BY <2>1
    <2>4. QED
      BY <1>1, <2>1, <2>2, <2>3, WithinRequest
  <1>4. CASE keep_alive_ends
    <2>1. /\ phase = "idle" /\ phase' = "closed" /\ UNCHANGED <<requests, replies>>
      BY <1>4 DEF keep_alive_ends, clientVars
    <2>2. AnswersMatchRequests'
      BY <2>1, NoAnswer
    <2>3. InStep'
      BY <2>1 DEF InStep
    <2>4. QED
      BY <1>1, <2>2, <2>3 DEF AnswersInv
  <1>5. CASE UNCHANGED connectionVars
    <2>1. InStep'
      BY <1>5 DEF AnswersInv, InStep, OrderlySoFar, connectionVars, req
    <2>2. AnswersMatchRequests'
      BY <1>5 DEF AnswersInv, AnswersMatchRequests, connectionVars
    <2>3. QED
      BY <1>1, <2>1, <2>2 DEF AnswersInv
  <1>6. QED
    BY <1>2, <1>3, <1>4, <1>5

\* The client sends the next request when the last one was answered.
LEMMA SendMatches ==
  ASSUME AnswersInv, Send
  PROVE  AnswersInv'
  <1>1. /\ phase = "idle" /\ phase' = "idle" /\ sent < Len(requests) /\ sent' = sent + 1
        /\ Len(replies) >= sent /\ UNCHANGED <<requests, replies>>
    BY DEF Send
  <1>2. RangesInv'
    BY SendStep DEF AnswersInv
  <1>3. AnswersMatchRequests' /\ (OrderlySoFar' <=> OrderlySoFar)
    BY <1>1, NoAnswer
  <1>4. /\ requests \in Seq(Request) /\ sent \in 0 .. Len(requests) /\ replies \in Seq(Answer)
    BY DEF AnswersInv, RangesInv, ConnectionTypeOK
  <1>5. requests[sent + 1] \in Request /\ sent \in Nat /\ Len(replies) \in Nat
    BY <1>1, <1>4
  <1>6. PICK W \in Seq(Tokens) : W = Wire(requests[sent + 1])
    BY <1>5, WireParts
  <1>7. PICK n \in 1 .. Len(W) : stream' = stream \o SubSeq(W, 1, n)
    BY <1>6 DEF Send
  <1>8. ASSUME OrderlySoFar
        PROVE  /\ sent' = Len(replies)' + 1 /\ stream' # <<>>
               /\ Behind(stream', 0, W)
    <2>1. sent = Len(replies) /\ stream = <<>>
      BY <1>1, <1>5, <1>8 DEF AnswersInv, InStep
    <2> DEFINE t == SubSeq(W, 0 + 1, n)
    <2>2. /\ t \in Seq(Tokens) /\ Len(t) = n - 0 /\ \A i \in 1 .. n - 0 : t[i] = W[0 + i]
      <3>1. 0 \in 0 .. Len(W) /\ n \in 0 .. Len(W)
        BY <1>7
      <3>2. QED
        BY <3>1, PartOf
    <2>3. stream' = t
      <3>1. stream' = <<>> \o SubSeq(W, 1, n) /\ 0 + 1 = 1
        BY <1>7, <2>1
      <3>2. <<>> \o t = t
        BY <2>2
      <3>3. QED
        BY <3>1, <3>2
    <2> HIDE DEF t
    <2>4. Len(t) = n /\ \A j \in 0 + 1 .. n : t[j] = W[j - 0]
      BY <2>2
    <2>5. Behind(t, 0, W)
      BY <2>4 DEF Behind
    <2>6. t # <<>>
      BY <2>2, <2>4
    <2>7. QED
      BY <1>1, <2>1, <2>3, <2>5, <2>6
  <1>9. InStep'
    <2> SUFFICES ASSUME OrderlySoFar'
                 PROVE  /\ sent' = Len(replies)' + 1 /\ stream' # <<>>
                        /\ Behind(stream', 0, Wire(requests'[sent']))
      BY <1>1 DEF InStep
    <2>1. OrderlySoFar
      BY <1>3
    <2>2. Wire(requests'[sent']) = W
      BY <1>1, <1>6
    <2>3. QED
      BY <1>8, <2>1, <2>2
  <1>10. QED
    BY <1>2, <1>3, <1>9 DEF AnswersInv

\* The connection starts in step.
LEMMA AnswersInit ==
  ASSUME ConnectionInit
  PROVE  AnswersInv
  <1>1. RangesInv
    BY RangesInit
  <1>2. sent = 0 /\ stream = <<>> /\ phase = "idle" /\ replies = <<>>
    BY DEF ConnectionInit
  <1>3. InStep
    BY <1>2 DEF InStep
  <1>4. AnswersMatchRequests
    BY <1>2 DEF AnswersMatchRequests
  <1>5. QED
    BY <1>1, <1>3, <1>4 DEF AnswersInv

\* Every step keeps it in step.
LEMMA AnswersNext ==
  ASSUME AnswersInv, [ConnectionNext]_connectionVars
  PROVE  AnswersInv'
  <1>1. CASE Send
    BY <1>1, SendMatches
  <1>2. CASE process_request
    BY <1>2, ProcessRequestCases, GoodRequestMatches, BadRequestMatches
  <1>3. CASE read_content_with_length
    BY <1>3, WithLengthMatches
  <1>4. CASE read_content_chunked
    BY <1>4, ChunkedMatches
  <1>5. CASE read_content_without_length
    BY <1>5, WithoutLengthMatches
  <1>6. CASE respond
    BY <1>6, RespondMatches
  <1>7. CASE \/ \E closed \in BOOLEAN : read_ends(closed)
             \/ content_received \/ keep_alive_ends \/ Closed
             \/ UNCHANGED connectionVars
    BY <1>7, OthersMatch DEF Closed
  <1>8. QED
    BY <1>1, <1>2, <1>3, <1>4, <1>5, <1>6, <1>7 DEF ConnectionNext

\* Answers answer requests, for any requests and any cut of them: as long as the
\* answers were orderly, the i-th answers the i-th request, and it is the last if
\* the client asked for the connection to be closed.
THEOREM AnswersAlwaysMatch == ConnectionSpec => []AnswersMatchRequests
  <1>1. ConnectionInit => AnswersInv
    BY AnswersInit
  <1>2. AnswersInv /\ [ConnectionNext]_connectionVars => AnswersInv'
    BY AnswersNext
  <1>3. AnswersInv => AnswersMatchRequests
    BY DEF AnswersInv
  <1>4. QED
    BY <1>1, <1>2, <1>3, PTL DEF ConnectionSpec

=============================================================================
