------------------------ MODULE FrontendServerProofs ------------------------
(***************************************************************************)
(* The listener knows every live connection, the threads serve until the   *)
(* shutdown, and the configuration is what the file and the arguments ask  *)
(* for: for any number of threads and connections, any file and arguments. *)
(*                                                                         *)
(* The invariant: a connection that a thread works on is in the state that *)
(* fits the handler, and no other thread works on it; one whose session    *)
(* has been added, and is about to be run, is registered or was stopped.   *)
(***************************************************************************)
EXTENDS FrontendServer, SequenceLemmas

Opening == {"on_accept", "on_accept_run"}
Serving == {"session", "finish"}
Others == {"off", "idle", "ended", "on_accept_error", "on_accept_aborted", "heartbeat",
           "heartbeat_aborted", "stop", "stop_lock", "stop_sessions", "cancel_calls",
           "cancel_heartbeat", "ioc_stop"}
Steps == [at : Opening \cup Serving \cup Others, s : Sessions \cup {None}]

ThreadType == thread \in [Threads -> Steps]

\* No handler runs before main has created the threads.
Starting ==
  main \in {"parse", "load"} =>
    sessions_mutex_ = None /\ \A t \in Threads : thread[t] = Off

\* The connection of a thread fits its handler.
Holds ==
  \A t \in Threads :
    /\ thread[t].at \in Opening => thread[t].s \in Sessions /\ session[thread[t].s] = "accepted"
    /\ thread[t].at \in Serving => thread[t].s \in Sessions /\ session[thread[t].s] = "running"
    /\ thread[t].at \notin Opening \cup Serving => thread[t].s = None
    /\ thread[t].at = "on_accept_run" => thread[t].s \in active_sessions_ \cup closed

Exclusive ==
  \A t, u \in Threads : thread[t].s \in Sessions /\ thread[t].s = thread[u].s => t = u

Inv == TypeOK /\ ThreadType /\ Starting /\ Holds /\ Exclusive /\ SessionsAreRegistered

-----------------------------------------------------------------------------
(* A step of one thread, which leads to step a with connection q.          *)

ThreadStep(t, a, q) ==
  /\ Threads' = Threads /\ ThreadType'
  /\ thread'[t].at = a /\ thread'[t].s = q
  /\ \A u \in Threads \ {t} : thread'[u] = thread[u]

\* Goto moves one thread on within its handler.
LEMMA GotoStep ==
  ASSUME ThreadType, NEW t \in Threads, NEW a \in Opening \cup Serving \cup Others, Goto(t, a)
  PROVE  ThreadStep(t, a, thread[t].s)
  BY DEF ThreadType, ThreadStep, Threads, Goto, Steps

\* An assignment to one thread leaves the others where they are.
LEMMA SetStep ==
  ASSUME ThreadType, NEW t \in Threads, NEW x \in Steps, thread' = [thread EXCEPT ![t] = x]
  PROVE  ThreadStep(t, x.at, x.s)
  BY DEF ThreadType, ThreadStep, Threads, Steps

\* The threads that are in no handler have no connection.
LEMMA RestingSteps ==
  /\ Idle \in Steps /\ Idle.at = "idle" /\ Idle.s = None
  /\ Ended \in Steps /\ Ended.at = "ended" /\ Ended.s = None
  /\ Off \in Steps /\ Off.at = "off" /\ Off.s = None
  BY DEF Idle, Ended, Off, Steps, Others

\* The end of a handler returns the thread to ioc.run.
LEMMA DoneStep ==
  ASSUME ThreadType, NEW t \in Threads, Done(t)
  PROVE  ThreadStep(t, "idle", None)
  BY SetStep, RestingSteps DEF Done

\* A thread takes a handler only in ioc.run.
LEMMA TakeStep ==
  ASSUME ThreadType, NEW t \in Threads, NEW a \in Opening \cup Serving \cup Others,
         NEW q \in Sessions \cup {None}, Take(t, a, q)
  PROVE  /\ ThreadStep(t, a, q) /\ thread[t] = Idle
         /\ UNCHANGED <<main, input, listenerVars, work_guard, stopped>>
  <1>1. [at |-> a, s |-> q] \in Steps
    BY DEF Steps
  <1>2. QED
    BY <1>1, SetStep DEF Take

\* What TypeOK says of a thread follows from its step.
LEMMA ThreadTypeOK ==
  ASSUME ThreadType, sessions_mutex_ \in Threads \cup {None}, NEW t, NEW a, NEW q,
         ThreadStep(t, a, q), sessions_mutex_' \in Threads \cup {None}
  PROVE  /\ sessions_mutex_' \in Threads' \cup {None}
         /\ \A u \in Threads' : thread'[u].s \in Sessions \cup {None}
  BY DEF ThreadStep, ThreadType, Steps

\* The process starts in the invariant.
LEMMA InitInv == Init => Inv
  <1> SUFFICES ASSUME Init PROVE Inv
    OBVIOUS
  <1>1. Threads = {0} /\ ThreadType /\ \A t \in Threads : thread[t] = Off
    BY RestingSteps DEF Init, Threads, ThreadType
  <1>2. TypeOK
    <2>1. /\ acceptor \in BOOLEAN /\ work_guard \in BOOLEAN /\ stopped \in BOOLEAN
      BY DEF Init
    <2>2. \A t \in Threads : thread[t].s \in Sessions \cup {None}
      BY <1>1, RestingSteps
    <2>3. QED
      BY <2>1, <2>2 DEF Init, TypeOK, Waiting
  <1>3. Starting
    BY <1>1 DEF Init, Starting
  <1>4. Holds /\ Exclusive
    BY <1>1, RestingSteps DEF Holds, Exclusive, Opening, Serving
  <1>5. SessionsAreRegistered
    BY DEF Init, SessionsAreRegistered, Waiting
  <1>6. QED
    BY <1>1, <1>2, <1>3, <1>4, <1>5 DEF Inv

-----------------------------------------------------------------------------
(* Steps that change no connection.                                        *)

\* A thread that has no connection in hand before and after the step.
LEMMA NoConnection ==
  ASSUME Inv, NEW t \in Threads, thread[t] # Off, NEW a \in Others, ThreadStep(t, a, None),
         UNCHANGED <<main, session, closed, active_sessions_>>
  PROVE  ThreadType' /\ Starting' /\ Holds' /\ Exclusive' /\ SessionsAreRegistered'
  <1>1. ThreadType'
    BY DEF ThreadStep
  <1>2. Starting'
    BY DEF Inv, Starting
  <1>3. Holds'
    BY DEF Inv, Holds, ThreadStep, Opening, Serving, Others
  <1>4. Exclusive'
    BY FrontendServerAssumption DEF Inv, Exclusive, ThreadStep
  <1>5. SessionsAreRegistered'
    BY DEF Inv, SessionsAreRegistered
  <1>6. QED
    BY <1>1, <1>2, <1>3, <1>4, <1>5

\* Steps of main and of the environment that leave connections and threads alone.
LEMMA ThreadsRest ==
  ASSUME Inv, UNCHANGED <<thread, session, closed, active_sessions_, sessions_mutex_>>,
         main' \in {"parse", "load"} => main \in {"parse", "load"}
  PROVE  ThreadType' /\ Starting' /\ Holds' /\ Exclusive' /\ SessionsAreRegistered'
  BY DEF Inv, ThreadType, Threads, Starting, Holds, Exclusive, SessionsAreRegistered

\* The steps of main keep the invariant; Load is the one that starts threads.
LEMMA MainInv ==
  ASSUME Inv, MainStep
  PROVE  Inv'
  <1>1. CASE Parse \/ Bind \/ Listen \/ Arm \/ Returned \/ Join
    <2>1. /\ UNCHANGED <<thread, session, closed, active_sessions_, sessions_mutex_>>
          /\ main' \in {"parse", "load"} => main \in {"parse", "load"}
      BY <1>1 DEF Parse, Bind, Listen, Arm, Returned, Join, listenerVars
    <2>2. acceptor' \in BOOLEAN
      BY <1>1 DEF Parse, Bind, Listen, Arm, Returned, Join, listenerVars, Inv, TypeOK
    <2>3. work_guard' \in BOOLEAN /\ stopped' \in BOOLEAN
      BY <1>1 DEF Parse, Bind, Listen, Arm, Returned, Join, iocVars, Inv, TypeOK
    <2>4. /\ main' \in {"parse", "load", "bind", "listen", "arm", "signals", "run",
                        "join", "exit0", "exit1", "terminated"}
          /\ accept' \in {"none", "pending", "ok", "error", "aborted"}
          /\ heartbeat' \in {"none", "pending", "ready", "aborted"}
          /\ signal' \in {"none", "pending", "ready"}
      BY <1>1
      DEF Parse, Bind, Listen, Arm, Returned, Join, iocVars, do_accept, Inv, TypeOK
    <2>5. TypeOK'
      BY <2>1, <2>2, <2>3, <2>4 DEF Inv, TypeOK, Threads
    <2>6. QED
      BY <2>1, <2>5, ThreadsRest DEF Inv
  <1>2. CASE Load
    <2>1. /\ main = "load" /\ main' \in {"exit1", "bind"} /\ sessions_mutex_ = None
          /\ \A t \in Threads : thread[t] = Off
          /\ UNCHANGED <<session, closed, active_sessions_, sessions_mutex_, acceptor,
                         accept, heartbeat, signal, stopped>>
      BY <1>2 DEF Load, Inv, Starting, listenerVars
    <2>2. \/ thread' = thread
          \/ \E n : thread' = [t \in 0 .. n |-> IF t = 0 THEN Off ELSE Idle]
      BY <1>2 DEF Load
    <2>3. ThreadType' /\ \A t \in Threads' : thread'[t] \in {Off, Idle}
      BY <2>1, <2>2, RestingSteps DEF Inv, ThreadType, Threads
    <2>4. \A t \in Threads' : thread'[t].s = None /\ thread'[t].at \in {"off", "idle"}
      BY <2>3, RestingSteps
    <2>5. work_guard' \in BOOLEAN
      BY <1>2 DEF Load, Inv, TypeOK
    <2>6. TypeOK'
      BY <2>1, <2>4, <2>5 DEF Inv, TypeOK
    <2>7. Starting'
      BY <2>1 DEF Starting
    <2>8. Holds' /\ Exclusive'
      BY <2>4, FrontendServerAssumption DEF Holds, Exclusive, Opening, Serving
    <2>9. SessionsAreRegistered'
      BY <2>1 DEF Inv, SessionsAreRegistered
    <2>10. QED
      BY <2>3, <2>6, <2>7, <2>8, <2>9 DEF Inv
  <1>3. CASE Run
    <2>1. /\ main = "signals" /\ main' = "run" /\ signal' = "pending"
          /\ thread' = [thread EXCEPT ![0] = Idle]
          /\ UNCHANGED <<session, closed, active_sessions_, sessions_mutex_, acceptor,
                         accept, heartbeat, work_guard, stopped>>
      BY <1>3 DEF Run, listenerVars
    <2>2. /\ Threads' = Threads /\ ThreadType'
          /\ \A u \in Threads : thread'[u] \in {thread[u], Idle}
      BY <2>1, RestingSteps DEF Inv, ThreadType, Threads
    <2>3. TypeOK'
      BY <2>1, <2>2 DEF Inv, TypeOK, ThreadType, Steps
    <2>4. Starting'
      BY <2>1 DEF Starting
    <2>5. Holds' /\ Exclusive'
      BY <2>1, <2>2, RestingSteps, FrontendServerAssumption
      DEF Inv, Holds, Exclusive, Opening, Serving
    <2>6. SessionsAreRegistered'
      BY <2>1 DEF Inv, SessionsAreRegistered
    <2>7. QED
      BY <2>2, <2>3, <2>4, <2>5, <2>6 DEF Inv
  <1>4. QED
    BY <1>1, <1>2, <1>3 DEF MainStep

\* Clients, the operator, time and backends keep the invariant.
LEMMA EnvironmentInv ==
  ASSUME Inv, Environment
  PROVE  Inv'
  <1>1. CASE AcceptFails \/ TenSeconds \/ Signal
    <2>1. /\ UNCHANGED <<main, thread, listenerVars, session, work_guard, stopped>>
          /\ accept' \in {"none", "pending", "ok", "error", "aborted"}
          /\ heartbeat' \in {"none", "pending", "ready", "aborted"}
          /\ signal' \in {"none", "pending", "ready"}
      BY <1>1 DEF AcceptFails, TenSeconds, Signal, Inv, TypeOK
    <2>2. TypeOK'
      BY <2>1 DEF Inv, TypeOK, Threads, listenerVars
    <2>3. QED
      BY <2>1, <2>2, ThreadsRest DEF Inv, listenerVars
  <1>2. CASE \E s \in Sessions : Connect(s) \/ Completes(s)
    <2>1. PICK s \in Sessions : Connect(s) \/ Completes(s)
      BY <1>2
    <2>2. /\ \/ session[s] = "none" /\ session' = [session EXCEPT ![s] = "accepted"]
             \/ session[s] \in Waiting /\ session' = [session EXCEPT ![s] = "ready"]
          /\ UNCHANGED <<main, thread, listenerVars, heartbeat, signal, work_guard, stopped>>
          /\ accept' \in {accept, "ok"}
      BY <2>1 DEF Connect, Completes, iocVars
    <2>3. TypeOK'
      BY <2>2 DEF Inv, TypeOK, Threads, listenerVars
    <2>4. ThreadType' /\ Starting' /\ Exclusive'
      BY <2>2 DEF Inv, ThreadType, Threads, Starting, Exclusive, listenerVars
    <2>5. \A t \in Threads : thread[t].at \in Opening \cup Serving => thread[t].s # s
      BY <2>2 DEF Inv, Holds, Waiting
    <2>6. Holds'
      BY <2>2, <2>5 DEF Inv, TypeOK, Holds, Threads, listenerVars
    <2>7. SessionsAreRegistered'
      BY <2>2 DEF Inv, TypeOK, SessionsAreRegistered, Waiting, listenerVars
    <2>8. QED
      BY <2>3, <2>4, <2>6, <2>7 DEF Inv
  <1>3. QED
    BY <1>1, <1>2 DEF Environment

-----------------------------------------------------------------------------
(* Handlers of the listener, the heartbeat and the signal that have no     *)
(* connection in hand, and the end of a thread.                            *)

\* They leave the connections and active_sessions_ alone, but take and give
\* back the mutex.
LEMMA OtherHandlersInv ==
  ASSUME Inv, NEW t \in Threads,
         \/ TakeHeartbeat(t) \/ TakeSignal(t) \/ Leave(t)
         \/ TakeAccept(t) /\ accept # "ok"
         \/ on_accept_failed(t) \/ Heartbeat(t)
         \/ stop(t) \/ stop_lock(t) \/ ioc_stop(t)
         \/ cancel(t) /\ thread[t].at = "cancel_heartbeat"
  PROVE  Inv'
  <1>1. ThreadType /\ TypeOK
    BY DEF Inv
  <1>2. thread[t] # Off /\ thread[t].s = None
    <2>1. thread[t].at \in Others \ {"off"} \/ thread[t] = Idle
      BY DEF TakeHeartbeat, TakeSignal, Leave, TakeAccept, Take, on_accept_failed, Heartbeat,
             stop, stop_lock, ioc_stop, cancel, Others
    <2>2. QED
      BY <2>1, RestingSteps DEF Inv, Holds, Opening, Serving, Others
  <1>3. \E a \in Others : ThreadStep(t, a, None)
    <2>1. CASE \E a \in Others : Take(t, a, None)
      BY <1>1, <2>1, TakeStep
    <2>2. CASE Done(t)
      BY <1>1, <2>2, DoneStep DEF Others
    <2>3. CASE \E a \in Others : Goto(t, a)
      BY <1>1, <1>2, <2>3, GotoStep
    <2>4. CASE thread' = [thread EXCEPT ![t] = Ended]
      BY <1>1, <2>4, SetStep, RestingSteps DEF Others
    <2>5. QED
      BY <2>1, <2>2, <2>3, <2>4
      DEF TakeHeartbeat, TakeSignal, Leave, TakeAccept, on_accept_failed, Heartbeat, stop,
          stop_lock, ioc_stop, cancel, Others
  <1>4. UNCHANGED <<main, session, closed, active_sessions_>>
    BY DEF TakeHeartbeat, TakeSignal, Leave, TakeAccept, Take, on_accept_failed, Heartbeat,
           stop, stop_lock, ioc_stop, cancel, listenerVars
  <1>5. ThreadType' /\ Starting' /\ Holds' /\ Exclusive' /\ SessionsAreRegistered'
    BY <1>2, <1>3, <1>4, NoConnection
  <1>6. TypeOK'
    <2>1. sessions_mutex_' \in Threads \cup {None}
      BY <1>1
      DEF TakeHeartbeat, TakeSignal, Leave, TakeAccept, Take, on_accept_failed, Heartbeat,
          stop, stop_lock, ioc_stop, cancel, listenerVars, TypeOK
    <2>2. /\ sessions_mutex_' \in Threads' \cup {None}
          /\ \A u \in Threads' : thread'[u].s \in Sessions \cup {None}
      BY <1>1, <1>3, <2>1, ThreadTypeOK DEF TypeOK
    <2>3. acceptor' \in BOOLEAN
      BY <1>1
      DEF TakeHeartbeat, TakeSignal, Leave, TakeAccept, Take, on_accept_failed, Heartbeat,
          stop, stop_lock, ioc_stop, cancel, listenerVars, TypeOK
    <2>4. work_guard' \in BOOLEAN
      BY <1>1
      DEF TakeHeartbeat, TakeSignal, Leave, TakeAccept, Take, on_accept_failed, Heartbeat,
          stop, stop_lock, ioc_stop, cancel, iocVars, TypeOK
    <2>5. stopped' \in BOOLEAN
      BY <1>1
      DEF TakeHeartbeat, TakeSignal, Leave, TakeAccept, Take, on_accept_failed, Heartbeat,
          stop, stop_lock, ioc_stop, cancel, iocVars, TypeOK
    <2>6. /\ accept' \in {"none", "pending", "ok", "error", "aborted"}
          /\ heartbeat' \in {"none", "pending", "ready", "aborted"}
          /\ signal' \in {"none", "pending", "ready"}
      BY <1>1
      DEF TakeHeartbeat, TakeSignal, Leave, TakeAccept, Take, on_accept_failed, Heartbeat,
          stop, stop_lock, ioc_stop, cancel, iocVars, do_accept, TypeOK
    <2>7. QED
      BY <1>1, <1>4, <2>2, <2>3, <2>4, <2>5, <2>6 DEF TypeOK
  <1>7. QED
    BY <1>5, <1>6 DEF Inv

-----------------------------------------------------------------------------
(* The life of a connection.                                               *)

\* The accepted connection is with no other thread.
LEMMA TakeAcceptInv ==
  ASSUME Inv, NEW t \in Threads, TakeAccept(t), accept = "ok"
  PROVE  Inv'
  <1>1. PICK s \in Sessions : /\ session[s] = "accepted"
                              /\ \A u \in Threads : thread[u].s # s
                              /\ Take(t, "on_accept", s)
    BY DEF TakeAccept
  <1>2. /\ ThreadStep(t, "on_accept", s) /\ thread[t] = Idle
        /\ UNCHANGED <<main, input, listenerVars, work_guard, stopped>>
    BY <1>1, TakeStep DEF Inv, Opening
  <1>3. accept' = "none" /\ UNCHANGED <<session, heartbeat, signal>>
    BY DEF TakeAccept
  <1>4. /\ sessions_mutex_' \in Threads' \cup {None}
        /\ \A u \in Threads' : thread'[u].s \in Sessions \cup {None}
    BY <1>2, ThreadTypeOK DEF Inv, TypeOK, listenerVars
  <1>5. TypeOK'
    BY <1>2, <1>3, <1>4 DEF Inv, TypeOK, listenerVars
  <1>6. ThreadType' /\ Starting'
    BY <1>2, RestingSteps DEF ThreadStep, Inv, Starting
  <1>7. Holds'
    BY <1>1, <1>2, <1>3 DEF Inv, Holds, ThreadStep, Opening, Serving, listenerVars
  <1>8. Exclusive'
    BY <1>1, <1>2 DEF Inv, Exclusive, ThreadStep
  <1>9. SessionsAreRegistered'
    BY <1>2, <1>3 DEF Inv, SessionsAreRegistered, listenerVars
  <1>10. QED
    BY <1>5, <1>6, <1>7, <1>8, <1>9 DEF Inv

\* A ready connection is with no thread, since the states of those are others.
LEMMA TakeSessionInv ==
  ASSUME Inv, NEW t \in Threads, NEW s \in Sessions, TakeSession(t, s)
  PROVE  Inv'
  <1>1. /\ session[s] = "ready" /\ session' = [session EXCEPT ![s] = "running"]
        /\ Take(t, "session", s) /\ UNCHANGED <<accept, heartbeat, signal>>
    BY DEF TakeSession
  <1>2. /\ ThreadStep(t, "session", s) /\ thread[t] = Idle
        /\ UNCHANGED <<main, input, listenerVars, work_guard, stopped>>
    BY <1>1, TakeStep DEF Inv, Serving
  <1>3. \A u \in Threads : thread[u].s # s
    BY <1>1, FrontendServerAssumption DEF Inv, Holds
  <1>4. /\ sessions_mutex_' \in Threads' \cup {None}
        /\ \A u \in Threads' : thread'[u].s \in Sessions \cup {None}
    BY <1>2, ThreadTypeOK DEF Inv, TypeOK, listenerVars
  <1>5. TypeOK'
    BY <1>1, <1>2, <1>4 DEF Inv, TypeOK, listenerVars
  <1>6. ThreadType' /\ Starting'
    BY <1>2, RestingSteps DEF ThreadStep, Inv, Starting
  <1>7. Holds'
    BY <1>1, <1>2, <1>3
    DEF Inv, TypeOK, Holds, ThreadStep, Opening, Serving, listenerVars
  <1>8. Exclusive'
    BY <1>2, <1>3 DEF Inv, Exclusive, ThreadStep
  <1>9. SessionsAreRegistered'
    BY <1>1, <1>2 DEF Inv, TypeOK, SessionsAreRegistered, Waiting, listenerVars
  <1>10. QED
    BY <1>5, <1>6, <1>7, <1>8, <1>9 DEF Inv

\* The session is added before it is run, and only stop() may take it out.
LEMMA OnAcceptInv ==
  ASSUME Inv, NEW t \in Threads, on_accept(t)
  PROVE  Inv'
  <1> DEFINE s == thread[t].s
  <1>1. /\ thread[t].at = "on_accept" /\ sessions_mutex_ = None
        /\ active_sessions_' = active_sessions_ \cup {s}
        /\ Goto(t, "on_accept_run")
        /\ UNCHANGED <<main, input, session, sessions_mutex_, acceptor, closed, iocVars>>
    BY DEF on_accept
  <1>2. s \in Sessions /\ session[s] = "accepted" /\ thread[t] # Off
    BY <1>1, RestingSteps DEF Inv, Holds, Opening
  <1>3. ThreadStep(t, "on_accept_run", s)
    BY <1>1, GotoStep DEF Inv, Opening
  <1> HIDE DEF s
  <1>4. /\ sessions_mutex_' \in Threads' \cup {None}
        /\ \A u \in Threads' : thread'[u].s \in Sessions \cup {None}
    BY <1>1, <1>3, ThreadTypeOK DEF Inv, TypeOK
  <1>5. TypeOK'
    BY <1>1, <1>2, <1>4 DEF Inv, TypeOK, iocVars
  <1>6. ThreadType' /\ Starting'
    BY <1>1, <1>2, <1>3 DEF ThreadStep, Inv, Starting
  <1>7. Holds'
    BY <1>1, <1>2, <1>3 DEF Inv, Holds, ThreadStep, Opening, Serving
  <1>8. Exclusive'
    BY <1>3 DEF Inv, Exclusive, ThreadStep, s
  <1>9. SessionsAreRegistered'
    BY <1>1, <1>2 DEF Inv, SessionsAreRegistered
  <1>10. QED
    BY <1>5, <1>6, <1>7, <1>8, <1>9 DEF Inv

\* on_accept runs the session it has registered, and accepts again.
LEMMA OnAcceptRunInv ==
  ASSUME Inv, NEW t \in Threads, on_accept_run(t)
  PROVE  Inv'
  <1> DEFINE s == thread[t].s
  <1>1. /\ thread[t].at = "on_accept_run"
        /\ session' = [session EXCEPT ![s] = IF s \in closed THEN "ready" ELSE "socket"]
        /\ accept' \in {"pending", "error"}
        /\ Done(t)
        /\ UNCHANGED <<main, input, listenerVars, heartbeat, signal, work_guard, stopped>>
    BY DEF on_accept_run, do_accept
  <1>2. /\ s \in Sessions /\ session[s] = "accepted" /\ thread[t] # Off
        /\ s \in active_sessions_ \cup closed
    BY <1>1, RestingSteps DEF Inv, Holds, Opening
  <1>3. ThreadStep(t, "idle", None)
    BY <1>1, DoneStep DEF Inv
  <1>4. \A u \in Threads \ {t} : thread[u].s # s
    BY <1>2 DEF Inv, Exclusive
  <1> HIDE DEF s
  <1>5. /\ sessions_mutex_' \in Threads' \cup {None}
        /\ \A u \in Threads' : thread'[u].s \in Sessions \cup {None}
    BY <1>1, <1>3, ThreadTypeOK DEF Inv, TypeOK, listenerVars
  <1>6. session' \in [Sessions -> Waiting \cup {"none", "accepted", "ready", "running",
                                                "finished", "lost"}]
    BY <1>1, <1>2 DEF Inv, TypeOK, Waiting
  <1>7. TypeOK'
    BY <1>1, <1>5, <1>6 DEF Inv, TypeOK, listenerVars
  <1>8. ThreadType' /\ Starting'
    BY <1>1, <1>2, <1>3 DEF ThreadStep, Inv, Starting
  <1>9. Holds'
    BY <1>1, <1>3, <1>4 DEF Inv, TypeOK, Holds, ThreadStep, Opening, Serving, listenerVars
  <1>10. Exclusive'
    BY <1>3, FrontendServerAssumption DEF Inv, Exclusive, ThreadStep
  <1>11. SessionsAreRegistered'
    BY <1>1, <1>2 DEF Inv, TypeOK, SessionsAreRegistered, listenerVars
  <1>12. QED
    BY <1>7, <1>8, <1>9, <1>10, <1>11 DEF Inv

\* A handler of a session leaves it registered; on_session_finish takes it out
\* and nothing refers to it any more.
LEMMA SessionInv ==
  ASSUME Inv, NEW t \in Threads, SessionHandler(t) \/ on_session_finish(t)
  PROVE  Inv'
  <1> DEFINE s == thread[t].s
  <1>1. /\ thread[t].at \in Serving
        /\ UNCHANGED <<main, sessions_mutex_, acceptor, closed, iocVars>>
    BY DEF SessionHandler, on_session_finish, Serving, listenerVars
  <1>2. s \in Sessions /\ session[s] = "running" /\ thread[t] # Off
    BY <1>1, RestingSteps DEF Inv, Holds, Serving
  <1>3. \A u \in Threads \ {t} : thread[u].s # s
    BY <1>2 DEF Inv, Exclusive
  <1>4. CASE SessionHandler(t) /\ Goto(t, "finish") /\ UNCHANGED session
    <2>1. ThreadStep(t, "finish", s) /\ UNCHANGED active_sessions_
      BY <1>4, GotoStep DEF Inv, Serving, SessionHandler, listenerVars
    <2> HIDE DEF s
    <2>2. /\ sessions_mutex_' \in Threads' \cup {None}
          /\ \A u \in Threads' : thread'[u].s \in Sessions \cup {None}
      BY <1>1, <2>1, ThreadTypeOK DEF Inv, TypeOK
    <2>3. TypeOK'
      BY <1>1, <1>4, <2>1, <2>2 DEF Inv, TypeOK, iocVars
    <2>4. ThreadType' /\ Starting'
      BY <1>1, <1>2, <2>1 DEF ThreadStep, Inv, Starting
    <2>5. Holds'
      BY <1>1, <1>2, <1>4, <2>1 DEF Inv, Holds, ThreadStep, Opening, Serving
    <2>6. Exclusive'
      BY <2>1 DEF Inv, Exclusive, ThreadStep, s
    <2>7. SessionsAreRegistered'
      BY <1>1, <1>4, <2>1 DEF Inv, SessionsAreRegistered
    <2>8. QED
      BY <2>3, <2>4, <2>5, <2>6, <2>7 DEF Inv
  <1>5. CASE /\ \E a \in {"idle", "ended"} : ThreadStep(t, a, None)
             /\ \E x \in {"backend", "ready", "socket", "lost", "finished"} :
                  /\ session' = [session EXCEPT ![s] = x]
                  /\ active_sessions_' = IF x = "finished" THEN active_sessions_ \ {s}
                                                           ELSE active_sessions_
    <2>1. PICK a \in {"idle", "ended"} : ThreadStep(t, a, None)
      BY <1>5
    <2>2. PICK x \in {"backend", "ready", "socket", "lost", "finished"} :
            /\ session' = [session EXCEPT ![s] = x]
            /\ active_sessions_' = IF x = "finished" THEN active_sessions_ \ {s}
                                                     ELSE active_sessions_
      BY <1>5
    <2> HIDE DEF s
    <2>3. /\ sessions_mutex_' \in Threads' \cup {None}
          /\ \A u \in Threads' : thread'[u].s \in Sessions \cup {None}
      BY <1>1, <2>1, ThreadTypeOK DEF Inv, TypeOK
    <2>4. session' \in [Sessions -> Waiting \cup {"none", "accepted", "ready", "running",
                                                  "finished", "lost"}]
      BY <1>2, <2>2 DEF Inv, TypeOK, Waiting
    <2>5. TypeOK'
      BY <1>1, <2>2, <2>3, <2>4 DEF Inv, TypeOK, iocVars
    <2>6. ThreadType' /\ Starting'
      BY <1>1, <1>2, <2>1 DEF ThreadStep, Inv, Starting
    <2>7. Holds'
      BY <1>1, <1>3, <2>1, <2>2 DEF Inv, TypeOK, Holds, ThreadStep, Opening, Serving
    <2>8. Exclusive'
      BY <2>1, FrontendServerAssumption DEF Inv, Exclusive, ThreadStep
    <2>9. SessionsAreRegistered'
      BY <1>1, <1>2, <2>2 DEF Inv, TypeOK, SessionsAreRegistered, Waiting
    <2>10. QED
      BY <2>5, <2>6, <2>7, <2>8, <2>9 DEF Inv
  <1>6. CASE on_session_finish(t)
    BY <1>5, <1>6, DoneStep DEF on_session_finish, Inv
  <1>7. CASE SessionHandler(t)
    <2>1. UNCHANGED active_sessions_
      BY <1>7 DEF SessionHandler, listenerVars
    <2>2. CASE /\ session' \in {[session EXCEPT ![s] = w] :
                                  w \in {"backend", IF s \in closed THEN "ready" ELSE "socket"}}
               /\ Done(t)
      <3>1. \E x \in {"backend", "ready", "socket"} : session' = [session EXCEPT ![s] = x]
        BY <2>2
      <3>2. ThreadStep(t, "idle", None)
        BY <2>2, DoneStep DEF Inv
      <3>3. QED
        BY <1>5, <2>1, <3>1, <3>2
    <2>3. CASE /\ session' = [session EXCEPT ![s] = "lost"]
               /\ thread' = [thread EXCEPT ![t] = Ended]
      <3>1. ThreadStep(t, "ended", None)
        BY <2>3, SetStep, RestingSteps DEF Inv
      <3>2. QED
        BY <1>5, <2>1, <2>3, <3>1
    <2>4. QED
      BY <1>4, <1>7, <2>2, <2>3 DEF SessionHandler
  <1>8. QED
    BY <1>6, <1>7

-----------------------------------------------------------------------------
(* The shutdown.                                                           *)

\* A session that stop() closes is ready at once if it waits for its socket.
LEMMA StopSessionInv ==
  ASSUME Inv, NEW t \in Threads, NEW s \in Sessions, stop_session(t, s)
  PROVE  Inv'
  <1>1. /\ s \in active_sessions_ /\ closed' = closed \cup {s}
        /\ session' = [session EXCEPT ![s] = IF @ = "socket" THEN "ready" ELSE @]
        /\ UNCHANGED <<main, input, thread, active_sessions_, sessions_mutex_, acceptor,
                       iocVars>>
    BY DEF stop_session
  <1>2. /\ session' \in [Sessions -> Waiting \cup {"none", "accepted", "ready", "running",
                                                   "finished", "lost"}]
        /\ \A q \in Sessions : \/ session'[q] = session[q]
                               \/ session[q] = "socket" /\ session'[q] = "ready"
    <2>1. session' \in [Sessions -> Waiting \cup {"none", "accepted", "ready", "running",
                                                 "finished", "lost"}]
      BY <1>1 DEF Inv, TypeOK
    <2>2. ASSUME NEW q \in Sessions, session'[q] # session[q]
          PROVE  session[q] = "socket" /\ session'[q] = "ready"
      BY <1>1, <2>2 DEF Inv, TypeOK
    <2>3. QED
      BY <2>1, <2>2
  <1>3. TypeOK'
    BY <1>1, <1>2 DEF Inv, TypeOK, Threads, iocVars
  <1>4. ThreadType' /\ Starting' /\ Exclusive'
    BY <1>1 DEF Inv, ThreadType, Threads, Starting, Exclusive
  <1>5. Holds'
    BY <1>1, <1>2 DEF Inv, Holds, Threads
  <1>6. SessionsAreRegistered'
    BY <1>1, <1>2 DEF Inv, SessionsAreRegistered, Waiting
  <1>7. QED
    BY <1>3, <1>4, <1>5, <1>6 DEF Inv

\* The set is cleared only when all that it holds is closed.
LEMMA StopClearInv ==
  ASSUME Inv, NEW t \in Threads, stop_clear(t)
  PROVE  Inv'
  <1>1. /\ thread[t].at = "stop_sessions" /\ active_sessions_ \subseteq closed
        /\ active_sessions_' = {} /\ sessions_mutex_' = None
        /\ Goto(t, "cancel_calls")
        /\ UNCHANGED <<main, input, session, acceptor, closed, iocVars>>
    BY DEF stop_clear
  <1>2. thread[t].s = None /\ thread[t] # Off
    BY <1>1, RestingSteps DEF Inv, Holds, Opening, Serving
  <1>3. ThreadStep(t, "cancel_calls", None)
    BY <1>1, <1>2, GotoStep DEF Inv, Others
  <1>4. /\ sessions_mutex_' \in Threads' \cup {None}
        /\ \A u \in Threads' : thread'[u].s \in Sessions \cup {None}
    BY <1>1, <1>3, ThreadTypeOK DEF Inv, TypeOK
  <1>5. TypeOK'
    BY <1>1, <1>4 DEF Inv, TypeOK, iocVars
  <1>6. ThreadType' /\ Starting'
    BY <1>1, <1>2, <1>3 DEF ThreadStep, Inv, Starting
  <1>7. Holds'
    BY <1>1, <1>3 DEF Inv, Holds, ThreadStep, Opening, Serving
  <1>8. Exclusive'
    BY <1>3, FrontendServerAssumption DEF Inv, Exclusive, ThreadStep
  <1>9. SessionsAreRegistered'
    BY <1>1 DEF Inv, SessionsAreRegistered
  <1>10. QED
    BY <1>5, <1>6, <1>7, <1>8, <1>9 DEF Inv

\* The calls are cancelled: a session that waited for one has a handler to run.
LEMMA CancelInv ==
  ASSUME Inv, NEW t \in Threads, cancel(t), thread[t].at = "cancel_calls"
  PROVE  Inv'
  <1>1. /\ session' = [s \in Sessions |-> IF session[s] = "backend" THEN "ready"
                                                                    ELSE session[s]]
        /\ Goto(t, "cancel_heartbeat")
        /\ UNCHANGED <<main, input, listenerVars, iocVars>>
    BY DEF cancel, iocVars
  <1>2. thread[t].s = None /\ thread[t] # Off
    BY RestingSteps DEF Inv, Holds, Opening, Serving
  <1>3. ThreadStep(t, "cancel_heartbeat", None)
    BY <1>1, <1>2, GotoStep DEF Inv, Others
  <1>4. /\ sessions_mutex_' \in Threads' \cup {None}
        /\ \A u \in Threads' : thread'[u].s \in Sessions \cup {None}
    BY <1>1, <1>3, ThreadTypeOK DEF Inv, TypeOK, listenerVars
  <1>5. /\ session' \in [Sessions -> Waiting \cup {"none", "accepted", "ready", "running",
                                                   "finished", "lost"}]
        /\ \A q \in Sessions : \/ session'[q] = session[q]
                               \/ session[q] = "backend" /\ session'[q] = "ready"
    <2>1. session' \in [Sessions -> Waiting \cup {"none", "accepted", "ready", "running",
                                                 "finished", "lost"}]
      BY <1>1 DEF Inv, TypeOK
    <2>2. ASSUME NEW q \in Sessions, session'[q] # session[q]
          PROVE  session[q] = "backend" /\ session'[q] = "ready"
      BY <1>1, <2>2 DEF Inv, TypeOK
    <2>3. QED
      BY <2>1, <2>2
  <1>6. TypeOK'
    BY <1>1, <1>4, <1>5 DEF Inv, TypeOK, iocVars, listenerVars
  <1>7. ThreadType' /\ Starting'
    BY <1>1, <1>2, <1>3 DEF ThreadStep, Inv, Starting, listenerVars
  <1>8. Holds'
    BY <1>1, <1>3, <1>5 DEF Inv, Holds, ThreadStep, Opening, Serving, listenerVars
  <1>9. Exclusive'
    BY <1>3, FrontendServerAssumption DEF Inv, Exclusive, ThreadStep
  <1>10. SessionsAreRegistered'
    BY <1>1, <1>5 DEF Inv, SessionsAreRegistered, Waiting, listenerVars
  <1>11. QED
    BY <1>6, <1>7, <1>8, <1>9, <1>10 DEF Inv

-----------------------------------------------------------------------------
(* All steps together.                                                     *)

\* Every step of the process keeps the invariant.
LEMMA NextInv == Inv /\ [Next]_vars => Inv'
  <1> SUFFICES ASSUME Inv, [Next]_vars PROVE Inv'
    OBVIOUS
  <1>1. CASE MainStep \/ Environment
    BY <1>1, MainInv, EnvironmentInv
  <1>2. ASSUME NEW t \in Threads,
               \/ TakeAccept(t) \/ TakeHeartbeat(t) \/ TakeSignal(t)
               \/ \E s \in Sessions : TakeSession(t, s)
               \/ Leave(t)
        PROVE  Inv'
    BY <1>2, OtherHandlersInv, TakeAcceptInv, TakeSessionInv
  <1>3. ASSUME NEW t \in Threads, HandlerStep(t)
        PROVE  Inv'
    <2>1. CASE cancel(t)
      BY <2>1, OtherHandlersInv, CancelInv DEF cancel
    <2>2. CASE ~cancel(t)
      BY <1>3, <2>2, OtherHandlersInv, OnAcceptInv, OnAcceptRunInv, SessionInv,
         StopSessionInv, StopClearInv
      DEF HandlerStep
    <2>3. QED
      BY <2>1, <2>2
  <1>4. CASE UNCHANGED vars
    BY <1>4
    DEF vars, Inv, TypeOK, ThreadType, Threads, Starting, Holds, Exclusive,
        SessionsAreRegistered
  <1>5. QED
    BY <1>1, <1>2, <1>3, <1>4 DEF Next

\* The states of main, the threads, the connections and the operations of the
\* io_context have their types, and only a thread that exists has the lock.
THEOREM ServerTypeCorrect == Spec => []TypeOK
  BY InitInv, NextInv, PTL DEF Spec, Inv

\* However connections, threads and the shutdown interleave, stop() finds every
\* connection that has or waits for a handler in active_sessions_, or has closed
\* it already, and a connection that is over is taken out of the set.
THEOREM LiveSessionsAreRegistered == Spec => []SessionsAreRegistered
  BY InitInv, NextInv, PTL DEF Spec, Inv

-----------------------------------------------------------------------------
(* The configuration: the file, line by line.                              *)

\* The names of the settings, and what a valid line makes of one.
SettingKeys == DOMAIN AppConfig
LineValue(key, text) ==
  CASE key \in IntKeys -> IntSetting(key, stringToInt(text))
    [] key = "use_redis" -> stringToInt(text) = 1
    [] OTHER -> text.string

BadLevel(line) == line.key = "log_level" /\ line.text.string \notin LogLevels

\* The keys with an int for a value, and the three others.
LEMMA KeysOfSettings ==
  /\ SettingKeys = IntKeys \cup {"use_redis", "redis_host", "log_level"}
  /\ "use_redis" \notin IntKeys /\ "redis_host" \notin IntKeys /\ "log_level" \notin IntKeys
  BY DEF SettingKeys, AppConfig, IntKeys, HourKeys

\* The constructor of AppConfig makes settings.
LEMMA DefaultSettings == AppConfig \in Settings
  <1>1. AppConfig = [key \in DOMAIN AppConfig |-> AppConfig[key]]
    BY DEF AppConfig
  <1>2. \A key \in DOMAIN AppConfig : AppConfig[key] \in SettingValues
    BY DEF SettingValues
  <1>3. QED
    BY <1>1, <1>2, Zenon DEF Settings

\* The product of two ints is an int, and exact unless it overflows.
LEMMA IntTypes ==
  ASSUME NEW n \in Int
  PROVE  Int32(n) \in Ints /\ Int32(n) \in Int /\ (n \in Ints => Int32(n) = n)
  <1> DEFINE w == 2 * (IntLimit + 1)
             k == n + IntLimit + 1
  <1>1. IntLimit \in Nat /\ w \in Nat \ {0} /\ k \in Int
    BY InputsAssumption
  <1>2. k % w \in 0 .. w - 1
    BY <1>1
  <1>3. k \in 0 .. w - 1 => k % w = k
    BY <1>1
  <1>4. QED
    BY <1>1, <1>2, <1>3 DEF Int32, Ints

\* What one line does: it sets its own setting if it is valid, and no other; a log
\* level that does not exist makes loading fail.
LEMMA LineEffect ==
  ASSUME NEW c \in Settings, NEW line \in Lines
  PROVE  /\ BadLevel(line) => applyLine(c, line) = None
         /\ ~BadLevel(line) =>
              /\ applyLine(c, line) \in Settings
              /\ \A key \in SettingKeys :
                   applyLine(c, line)[key] =
                     IF ValidLine(line, key) THEN LineValue(key, line.text) ELSE c[key]
  <1> DEFINE V == SettingValues
             n == stringToInt(line.text)
             d == applyLine(c, line)
             b == (n = 1)
  <1>1. c # None /\ c \in [SettingKeys -> V]
    BY InputsAssumption, Zenon DEF Settings, SettingKeys
  <1>2. n \in Int \cup {None} /\ line.text.string \in STRING
    BY DEF Lines, Texts, stringToInt
  <1>3. b \in BOOLEAN /\ b \in V
    BY Zenon DEF SettingValues
  <1> HIDE DEF b
  <1>4. CASE line.key \in IntKeys /\ n # None
    <2> DEFINE x == IntSetting(line.key, n)
    <2>1. x \in V
      <3>1. n \in Int
        BY <1>2, <1>4
      <3> HIDE DEF n
      <3>2. n * SecondsPerHour \in Int
        BY <3>1 DEF SecondsPerHour
      <3>3. x \in Int
        BY <3>1, <3>2, IntTypes DEF IntSetting
      <3>4. QED
        BY <3>3 DEF SettingValues
    <2>2. d = [c EXCEPT ![line.key] = x]
      BY <1>1, <1>4, KeysOfSettings DEF applyLine
    <2>3. LineValue(line.key, line.text) = x
      BY <1>4, KeysOfSettings DEF LineValue
    <2>4. ~BadLevel(line)
      BY <1>4, KeysOfSettings DEF BadLevel
    <2>5. \A key \in SettingKeys : ValidLine(line, key) <=> key = line.key
      BY <1>4 DEF ValidLine
    <2>6. line.key \in SettingKeys
      BY <1>4, KeysOfSettings
    <2> HIDE DEF x, d, V
    <2>7. /\ d \in [SettingKeys -> V]
          /\ \A key \in SettingKeys : d[key] = IF key = line.key THEN x ELSE c[key]
      BY <1>1, <2>1, <2>2, <2>6
    <2>8. QED
      BY <2>3, <2>4, <2>5, <2>7 DEF Settings, SettingKeys, V, d
  <1>5. CASE line.key = "use_redis" /\ n # None
    <2>2. d = [c EXCEPT !["use_redis"] = b]
      BY <1>1, <1>5, KeysOfSettings DEF applyLine, b
    <2>3. LineValue("use_redis", line.text) = b
      BY <1>5, KeysOfSettings DEF LineValue, b
    <2>4. ~BadLevel(line)
      BY <1>5, KeysOfSettings DEF BadLevel
    <2>5. \A key \in SettingKeys : ValidLine(line, key) <=> key = "use_redis"
      BY <1>5 DEF ValidLine
    <2>6. "use_redis" \in SettingKeys
      BY <1>5, KeysOfSettings
    <2> HIDE DEF d, V
    <2>7. /\ d \in [SettingKeys -> V]
          /\ \A key \in SettingKeys : d[key] = IF key = "use_redis" THEN b ELSE c[key]
      BY <1>1, <1>3, <2>2, <2>6
    <2>8. QED
      BY <2>3, <2>4, <2>5, <2>7 DEF Settings, SettingKeys, V, d
  <1>6. CASE line.key = "redis_host" \/ (line.key = "log_level" /\ ~BadLevel(line))
    <2> DEFINE x == line.text.string
    <2>2. d = [c EXCEPT ![line.key] = x]
      <3>1. CASE line.key = "redis_host"
        BY <1>1, <3>1, KeysOfSettings DEF applyLine
      <3>2. CASE line.key = "log_level" /\ ~BadLevel(line)
        BY <1>1, <3>2, KeysOfSettings DEF applyLine, BadLevel
      <3>3. QED
        BY <1>6, <3>1, <3>2
    <2>3. LineValue(line.key, line.text) = x
      BY <1>6, KeysOfSettings DEF LineValue
    <2>4. ~BadLevel(line)
      BY <1>6, KeysOfSettings DEF BadLevel
    <2>5. \A key \in SettingKeys : ValidLine(line, key) <=> key = line.key
      BY <1>6, KeysOfSettings DEF ValidLine
    <2>6. line.key \in SettingKeys
      BY <1>6, KeysOfSettings
    <2>7. x \in V
      BY <1>2 DEF SettingValues
    <2> HIDE DEF d, V, x
    <2>8. /\ d \in [SettingKeys -> V]
          /\ \A key \in SettingKeys : d[key] = IF key = line.key THEN x ELSE c[key]
      BY <1>1, <2>7, <2>2, <2>6
    <2>9. QED
      BY <2>3, <2>4, <2>5, <2>8 DEF Settings, SettingKeys, V, d
  <1>7. CASE BadLevel(line)
    BY <1>1, <1>7, KeysOfSettings DEF applyLine, BadLevel
  <1>8. CASE /\ ~(line.key \in IntKeys \cup {"use_redis"} /\ n # None)
             /\ line.key # "redis_host" /\ line.key # "log_level"
    <2>1. d = c
      BY <1>1, <1>8, KeysOfSettings DEF applyLine
    <2>2. ~BadLevel(line)
      BY <1>8 DEF BadLevel
    <2>3. \A key \in SettingKeys : ~ValidLine(line, key)
      BY <1>8, KeysOfSettings DEF ValidLine
    <2>4. QED
      BY <2>1, <2>2, <2>3
  <1>9. QED
    BY <1>4, <1>5, <1>6, <1>7, <1>8

\* v is what the last valid line for key among the first n has set.
LastOf(lines, n, key, v) ==
  \/ (\A i \in 1 .. n : ~ValidLine(lines[i], key)) /\ v = AppConfig[key]
  \/ \E i \in 1 .. n : /\ ValidLine(lines[i], key)
                       /\ \A j \in i + 1 .. n : ~ValidLine(lines[j], key)
                       /\ v = LineValue(key, lines[i].text)

\* c is what the first n lines make of the defaults.
Reads(lines, n, c) ==
  IF c = None THEN \E i \in 1 .. n : BadLevel(lines[i])
  ELSE /\ c \in Settings
       /\ \A i \in 1 .. n : ~BadLevel(lines[i])
       /\ \A key \in SettingKeys : LastOf(lines, n, key, c[key])

\* One line more.
LEMMA OneLine ==
  ASSUME NEW lines \in Seq(Lines), NEW n \in 1 .. Len(lines), NEW c,
         Reads(lines, n - 1, c)
  PROVE  Reads(lines, n, applyLine(c, lines[n]))
  <1> DEFINE line == lines[n]
             d == applyLine(c, line)
  <1>1. line \in Lines /\ n \in Nat /\ n >= 1
    OBVIOUS
  <1>2. CASE c = None
    <2>1. d = None
      BY <1>2 DEF applyLine
    <2>2. PICK i \in 1 .. n - 1 : BadLevel(lines[i])
      BY <1>2 DEF Reads
    <2>3. i \in 1 .. n
      BY <1>1
    <2>4. QED
      BY <2>1, <2>2, <2>3 DEF Reads
  <1>3. CASE c # None /\ BadLevel(line)
    <2>1. d = None
      BY <1>1, <1>3, LineEffect DEF Reads
    <2>2. n \in 1 .. n
      BY <1>1
    <2>3. QED
      BY <1>3, <2>1, <2>2 DEF Reads
  <1>4. CASE c # None /\ ~BadLevel(line)
    <2>1. /\ c \in Settings /\ \A i \in 1 .. n - 1 : ~BadLevel(lines[i])
          /\ \A key \in SettingKeys : LastOf(lines, n - 1, key, c[key])
      BY <1>4 DEF Reads
    <2>2. /\ d \in Settings
          /\ \A key \in SettingKeys :
               d[key] = IF ValidLine(line, key) THEN LineValue(key, line.text) ELSE c[key]
      BY <1>1, <1>4, <2>1, LineEffect
    <2>3. d # None
      BY <2>2, InputsAssumption
    <2> HIDE DEF d
    <2>4. \A i \in 1 .. n : i = n \/ i \in 1 .. n - 1
      BY <1>1, LastOrBefore
    <2>5. \A i \in 1 .. n : ~BadLevel(lines[i])
      BY <1>4, <2>1, <2>4
    <2>6. ASSUME NEW key \in SettingKeys
          PROVE  LastOf(lines, n, key, d[key])
      <3>1. CASE ValidLine(line, key)
        <4>1. d[key] = LineValue(key, lines[n].text)
          BY <2>2, <3>1
        <4>2. n \in 1 .. n /\ n + 1 .. n = {}
          BY <1>1
        <4>3. QED
          BY <3>1, <4>1, <4>2 DEF LastOf
      <3>2. CASE ~ValidLine(line, key)
        <4>1. d[key] = c[key]
          BY <2>2, <3>2
        <4>2. LastOf(lines, n - 1, key, c[key])
          BY <2>1
        <4>3. CASE \A i \in 1 .. n - 1 : ~ValidLine(lines[i], key)
          <5>1. \A i \in 1 .. n : ~ValidLine(lines[i], key)
            BY <2>4, <3>2, <4>3
          <5>2. c[key] = AppConfig[key]
            BY <4>2, <4>3 DEF LastOf
          <5>3. QED
            BY <4>1, <5>1, <5>2 DEF LastOf
        <4>4. CASE ~\A i \in 1 .. n - 1 : ~ValidLine(lines[i], key)
          <5>1. PICK i \in 1 .. n - 1 :
                  /\ ValidLine(lines[i], key)
                  /\ \A j \in i + 1 .. n - 1 : ~ValidLine(lines[j], key)
                  /\ c[key] = LineValue(key, lines[i].text)
            BY <4>2, <4>4 DEF LastOf
          <5>2. i \in 1 .. n /\ \A j \in i + 1 .. n : j = n \/ j \in i + 1 .. n - 1
            BY <1>1
          <5>3. \A j \in i + 1 .. n : ~ValidLine(lines[j], key)
            BY <3>2, <5>1, <5>2
          <5>4. QED
            BY <4>1, <5>1, <5>2, <5>3 DEF LastOf
        <4>5. QED
          BY <4>3, <4>4
      <3>3. QED
        BY <3>1, <3>2
    <2>7. QED
      BY <2>2, <2>3, <2>5, <2>6 DEF Reads, d
  <1>5. QED
    BY <1>2, <1>3, <1>4

\* The whole file.
LEMMA FileRead ==
  ASSUME NEW lines \in Seq(Lines)
  PROVE  Reads(lines, Len(lines), readLines(lines))
  <1>1. PICK N \in Nat : N = Len(lines)
    OBVIOUS
  <1> DEFINE A == Settings \cup {None}
             step == [p \in A \X (1 .. N) |-> applyLine(p[1], lines[p[2]])]
             Rec(f) == [n \in 0 .. N |->
                          IF n = 0 THEN AppConfig ELSE applyLine(f[n - 1], lines[n])]
  <1>2. readLines(lines) = (CHOOSE f : f = Rec(f))[N]
    BY <1>1 DEF readLines
  <1>3. step \in [A \X (1 .. N) -> A]
    <2>1. ASSUME NEW a \in A, NEW n \in 1 .. N
          PROVE  applyLine(a, lines[n]) \in A
      <3>1. lines[n] \in Lines
        BY <1>1
      <3>2. CASE a = None
        BY <3>2 DEF applyLine
      <3>3. CASE a \in Settings
        BY <3>1, <3>3, LineEffect
      <3>4. QED
        BY <3>2, <3>3
    <2> HIDE DEF A
    <2>2. QED
      BY <2>1
  <1>4. \A a \in A, n \in 1 .. N : step[<<a, n>>] = applyLine(a, lines[n])
    OBVIOUS
  <1>5. AppConfig \in A
    BY DefaultSettings
  <1> HIDE DEF step, A
  <1>6. PICK g \in [0 .. N -> A] : Iterates(g, N, AppConfig, step)
    BY <1>1, <1>3, <1>5, Recursion
  <1>7. g = Rec(g)
    <2>1. g[0] = AppConfig
      BY <1>6 DEF Iterates
    <2>2. ASSUME NEW n \in 1 .. N
          PROVE  g[n] = applyLine(g[n - 1], lines[n])
      <3>1. n - 1 \in 0 .. N
        BY <1>1
      <3>2. g[n - 1] \in A
        BY <1>6, <3>1
      <3>3. QED
        BY <1>4, <1>6, <3>2 DEF Iterates
    <2>3. \A n \in 0 .. N : g[n] = IF n = 0 THEN AppConfig ELSE applyLine(g[n - 1], lines[n])
      BY <1>1, <2>1, <2>2
    <2>4. QED
      BY <1>6, <2>3
  <1> DEFINE f == CHOOSE x : x = Rec(x)
  <1>8. f = Rec(f)
    BY <1>7
  <1> HIDE DEF f
  <1> DEFINE T == {n \in 0 .. N : Reads(lines, n, f[n])}
  <1>9. 0 \in T
    <2>1. f[0] = AppConfig /\ AppConfig # None /\ 1 .. 0 = {}
      BY <1>1, <1>8, DefaultSettings, InputsAssumption
    <2>2. QED
      BY <1>1, <2>1, DefaultSettings DEF Reads, LastOf
  <1>10. ASSUME NEW n \in 1 .. N, n - 1 \in T
         PROVE  n \in T
    <2>1. n \in 0 .. N /\ n # 0
      BY <1>1
    <2>2. f[n] = applyLine(f[n - 1], lines[n])
      BY <1>8, <2>1
    <2>3. Reads(lines, n, f[n])
      BY <1>1, <1>10, <2>2, OneLine
    <2>4. QED
      BY <2>1, <2>3
  <1> HIDE DEF T
  <1>11. N \in T
    <2>1. N \in Nat /\ N \in 0 .. N
      BY <1>1
    <2>2. QED
      BY <1>9, <1>10, <2>1, SetInduction
  <1>12. QED
    BY <1>1, <1>2, <1>11 DEF f, T

\* A valid line makes of its setting what it asks for.
LEMMA LineAsks ==
  ASSUME NEW text \in Texts, NEW key \in SettingKeys,
         key \in IntKeys \cup {"use_redis"} => stringToInt(text) # None
  PROVE  AsksFor(key, text, LineValue(key, text))
  <1> DEFINE n == stringToInt(text)
             b == (n = 1)
             v == LineValue(key, text)
  <1>1. n \in Int \cup {None}
    BY DEF Texts, stringToInt
  <1>2. CASE key \in IntKeys
    <2>1. n \in Int /\ key # "use_redis"
      BY <1>1, <1>2, KeysOfSettings
    <2>2. v = IntSetting(key, n)
      BY <1>2, KeysOfSettings DEF LineValue
    <2> HIDE DEF n, v
    <2>3. n * SecondsPerHour \in Int
      BY <2>1 DEF SecondsPerHour
    <2>4. /\ key \in HourKeys =>
               v \in Ints /\ (n * SecondsPerHour \in Ints => v = n * SecondsPerHour)
          /\ key \in IntKeys \ HourKeys => v = n
      BY <2>2, <2>3, IntTypes DEF IntSetting
    <2>5. key \in IntKeys \cup {"use_redis"}
      BY <1>2
    <2>6. QED
      BY <2>1, <2>4, <2>5, Zenon DEF AsksFor, n, v
  <1>3. CASE key = "use_redis"
    <2>1. v = b
      BY <1>3, KeysOfSettings DEF LineValue
    <2>2. key \notin IntKeys /\ key \notin HourKeys
      BY <1>3, KeysOfSettings DEF IntKeys
    <2>3. QED
      BY <1>3, <2>1, <2>2, Zenon DEF AsksFor
  <1>4. CASE key \notin IntKeys \cup {"use_redis"}
    <2>1. v = text.string /\ key \notin HourKeys
      BY <1>4 DEF LineValue, IntKeys
    <2>2. QED
      BY <1>4, <2>1, Zenon DEF AsksFor
  <1>5. QED
    BY <1>2, <1>3, <1>4

\* The settings are those of the reference, or the start fails with reason.
LEMMA SettingsAreLast ==
  ASSUME NEW lines \in Seq(Lines)
  PROVE  IF readLines(lines) = None THEN \E i \in DOMAIN lines : BadLevel(lines[i])
         ELSE /\ readLines(lines) \in Settings
              /\ \A i \in DOMAIN lines : ~BadLevel(lines[i])
              /\ \A key \in SettingKeys : LastValidLine(lines, key, readLines(lines)[key])
  <1> DEFINE N == Len(lines)
             c == readLines(lines)
  <1>1. /\ Reads(lines, N, c) /\ DOMAIN lines = 1 .. N /\ N \in Nat
        /\ \A i \in 1 .. N : lines[i] \in Lines
    BY FileRead
  <1> HIDE DEF N, c
  <1>2. ASSUME c # None, NEW key \in SettingKeys
        PROVE  LastValidLine(lines, key, c[key])
    <2> DEFINE valid == {i \in DOMAIN lines : ValidLine(lines[i], key)}
    <2>1. LastOf(lines, N, key, c[key])
      BY <1>1, <1>2 DEF Reads
    <2>2. CASE valid = {}
      <3>1. c[key] = AppConfig[key]
        BY <1>1, <2>1, <2>2 DEF LastOf
      <3>2. QED
        BY <2>2, <3>1 DEF LastValidLine
    <2>3. CASE valid # {}
      <3>1. PICK i \in 1 .. N : /\ ValidLine(lines[i], key)
                                /\ \A j \in i + 1 .. N : ~ValidLine(lines[j], key)
                                /\ c[key] = LineValue(key, lines[i].text)
        BY <1>1, <2>1, <2>3 DEF LastOf
      <3>2. i \in valid /\ \A j \in valid : j <= i
        BY <1>1, <3>1
      <3>3. AsksFor(key, lines[i].text, c[key])
        <4>1. lines[i].text \in Texts
          <5>1. lines[i] \in Lines
            BY <1>1, <3>1
          <5>2. QED
            BY <5>1 DEF Lines
        <4>2. key \in IntKeys \cup {"use_redis"} => stringToInt(lines[i].text) # None
          BY <3>1 DEF ValidLine
        <4>3. QED
          BY <3>1, <4>1, <4>2, LineAsks
      <3>4. QED
        BY <3>2, <3>3, Zenon DEF LastValidLine
    <2>4. QED
      BY <2>2, <2>3
  <1>3. QED
    BY <1>1, <1>2 DEF Reads, c
-----------------------------------------------------------------------------
(* The backends of the countries.                                          *)

\* What parseArguments yields: keys, and one argument for each place in the order.
IsArgMap(argMap) ==
  /\ \A a \in argMap : a \in Arguments /\ a.key.spelling \in 1 .. Spellings
  /\ \A a, b \in argMap : a.key.spelling = b.key.spelling => a = b

\* backend is that of the last usable entry of the map for country c.
UsableIn(argMap, c, backend) ==
  LET usable == {a \in argMap : a.key.country = c /\ parseUrl(a.url) # None}
  IN IF usable = {} THEN backend = None
     ELSE \E a \in usable : /\ backend = parseUrl(a.url)
                            /\ \A b \in usable : b.key.spelling <= a.key.spelling

\* parseArguments keeps the last argument for each key.
LEMMA ArgumentsParsed ==
  ASSUME NEW i \in Inputs, parseArguments(i.args) # None
  PROVE  IsArgMap(parseArguments(i.args))
  <1> DEFINE args == i.args
             kept == {n \in DOMAIN args : \A m \in n + 1 .. Len(args) : args[m].key # args[n].key}
  <1>1. /\ args \in Seq(Arguments) /\ DOMAIN args = 1 .. Len(args) /\ Len(args) \in Nat
        /\ \A n \in DOMAIN args : args[n] \in Arguments
    BY InputsAssumption
  <1>2. \A m, n \in DOMAIN args :
          args[m].key # None /\ args[n].key # None
            /\ args[m].key.spelling = args[n].key.spelling => args[m].key = args[n].key
    BY InputsAssumption
  <1> HIDE DEF args
  <1>3. /\ \A n \in DOMAIN args : args[n].key # None
        /\ parseArguments(args) = {args[n] : n \in kept}
    BY DEF parseArguments, args
  <1>4. \A n \in DOMAIN args : args[n].key.spelling \in 1 .. Spellings
    BY <1>1, <1>3 DEF Arguments, ArgumentKeys
  <1>5. ASSUME NEW m \in kept, NEW n \in kept, args[m].key.spelling = args[n].key.spelling
        PROVE  m = n
    <2>1. m \in 1 .. Len(args) /\ n \in 1 .. Len(args) /\ args[m].key = args[n].key
      BY <1>1, <1>2, <1>3, <1>5
    <2>2. ~(m \in n + 1 .. Len(args)) /\ ~(n \in m + 1 .. Len(args))
      BY <2>1
    <2>3. QED
      BY <1>1, <2>1, <2>2
  <1>6. QED
    BY <1>1, <1>3, <1>4, <1>5 DEF IsArgMap, args

\* backends is what the arguments up to place n make of the empty map.
Maps(countries, argMap, n, backends) ==
  /\ backends = [c \in countries |-> backends[c]]
  /\ \A c \in countries :
       UsableIn({a \in argMap : a.key.spelling <= n}, c, backends[c])

\* One place more.
LEMMA OneArgument ==
  ASSUME NEW countries, NEW argMap, IsArgMap(argMap), NEW n \in 1 .. Spellings,
         NEW m, Maps(countries, argMap, n - 1, m)
  PROVE  LET at == {a \in argMap : a.key.country \in countries /\ a.key.spelling = n}
         IN Maps(countries, argMap, n,
                 IF at = {} THEN m ELSE applyArgument(m, CHOOSE a \in at : TRUE))
  <1> DEFINE at == {a \in argMap : a.key.country \in countries /\ a.key.spelling = n}
             k == IF at = {} THEN m ELSE applyArgument(m, CHOOSE a \in at : TRUE)
             upTo(p) == {a \in argMap : a.key.spelling <= p}
             Usable(p, c) == {a \in upTo(p) : a.key.country = c /\ parseUrl(a.url) # None}
  <1>1. /\ n \in Int
        /\ \A a \in argMap : /\ a.key.spelling \in Int
                             /\ a.key.spelling <= n <=>
                                  a.key.spelling = n \/ a.key.spelling <= n - 1
    BY InputsAssumption DEF IsArgMap
  <1>2. \A c \in countries : UsableIn(upTo(n - 1), c, m[c])
    BY DEF Maps
  <1>3. m = [c \in countries |-> m[c]]
    BY DEF Maps
  <1>4. ASSUME NEW c \in countries,
               ~\E a \in argMap : /\ a.key.country = c /\ a.key.spelling = n
                                  /\ parseUrl(a.url) # None
        PROVE  UsableIn(upTo(n), c, m[c])
    <2>1. Usable(n, c) = Usable(n - 1, c)
      BY <1>1, <1>4
    <2>2. QED
      BY <1>2, <2>1 DEF UsableIn
  <1>5. CASE at = {}
    <2>1. k = m
      BY <1>5
    <2>2. \A c \in countries : UsableIn(upTo(n), c, m[c])
      BY <1>4, <1>5
    <2>3. QED
      BY <1>3, <2>1, <2>2 DEF Maps
  <1>6. CASE at # {}
    <2>1. PICK a : a = CHOOSE x \in at : TRUE
      OBVIOUS
    <2>2. a \in at
      BY <1>6, <2>1
    <2>3. /\ a \in argMap /\ a.key.country \in countries /\ a.key.spelling = n
          /\ \A b \in argMap : b.key.spelling = n => b = a
      BY <2>2 DEF IsArgMap
    <2>4. k = applyArgument(m, a)
      BY <1>6, <2>1
    <2>5. CASE parseUrl(a.url) = None
      <3>1. k = m
        BY <2>4, <2>5 DEF applyArgument
      <3>2. \A c \in countries : UsableIn(upTo(n), c, m[c])
        BY <1>4, <2>3, <2>5
      <3>3. QED
        BY <1>3, <3>1, <3>2 DEF Maps
    <2>6. CASE parseUrl(a.url) # None
      <3>1. k = [m EXCEPT ![a.key.country] = parseUrl(a.url)]
        BY <2>4, <2>6 DEF applyArgument
      <3> HIDE DEF k
      <3>2. /\ k = [c \in countries |-> k[c]]
            /\ k[a.key.country] = parseUrl(a.url)
            /\ \A c \in countries : c # a.key.country => k[c] = m[c]
        BY <1>3, <2>3, <3>1
      <3>3. ASSUME NEW c \in countries, c # a.key.country
            PROVE  UsableIn(upTo(n), c, k[c])
        BY <1>4, <2>3, <3>2, <3>3
      <3>4. UsableIn(upTo(n), a.key.country, k[a.key.country])
        <4>1. a \in Usable(n, a.key.country)
          BY <1>1, <2>3, <2>6
        <4>2. \A b \in Usable(n, a.key.country) : b.key.spelling <= a.key.spelling
          BY <2>3
        <4>3. QED
          BY <3>2, <4>1, <4>2 DEF UsableIn
      <3>5. \A c \in countries : UsableIn(upTo(n), c, k[c])
        BY <3>3, <3>4
      <3>6. QED
        BY <3>2, <3>5 DEF Maps, k
    <2>7. QED
      BY <2>5, <2>6
  <1>7. QED
    BY <1>5, <1>6

\* The whole map of arguments.
LEMMA MapFilled ==
  ASSUME NEW countries, NEW argMap, IsArgMap(argMap)
  PROVE  Maps(countries, argMap, Spellings, countryBackendMap(countries, argMap))
  <1> DEFINE N == Spellings
             at(n) == {a \in argMap : a.key.country \in countries /\ a.key.spelling = n}
             Apply(m, n) == IF at(n) = {} THEN m
                            ELSE applyArgument(m, CHOOSE a \in at(n) : TRUE)
             B == {parseUrl(a.url) : a \in argMap} \cup {None}
             A == [countries -> B]
             base == [c \in countries |-> None]
             step == [p \in A \X (1 .. N) |-> Apply(p[1], p[2])]
             Rec(f) == [n \in 0 .. N |-> IF n = 0 THEN base ELSE Apply(f[n - 1], n)]
  <1>1. N \in Nat
    BY InputsAssumption
  <1>2. countryBackendMap(countries, argMap) = (CHOOSE f : f = Rec(f))[N]
    BY Zenon DEF countryBackendMap
  <1>3. ASSUME NEW m \in A, NEW n \in 1 .. N
        PROVE  Apply(m, n) \in A
    <2>1. CASE at(n) = {}
      BY <2>1
    <2>2. CASE at(n) # {}
      <3>1. PICK a : a = CHOOSE x \in at(n) : TRUE
        OBVIOUS
      <3>2. a \in at(n)
        BY <2>2, <3>1
      <3>3. Apply(m, n) = applyArgument(m, a)
        BY <2>2, <3>1
      <3>4. QED
        BY <3>2, <3>3 DEF applyArgument
    <2>3. QED
      BY <2>1, <2>2
  <1>4. base \in A
    OBVIOUS
  <1> HIDE DEF A, N, Apply
  <1>5. step \in [A \X (1 .. N) -> A]
    BY <1>3
  <1>6. \A m \in A, n \in 1 .. N : step[<<m, n>>] = Apply(m, n)
    OBVIOUS
  <1> HIDE DEF step
  <1>7. PICK g \in [0 .. N -> A] : Iterates(g, N, base, step)
    BY <1>1, <1>4, <1>5, Recursion
  <1>8. g = Rec(g)
    <2>1. g[0] = base
      BY <1>7 DEF Iterates
    <2> HIDE DEF base
    <2>2. ASSUME NEW n \in 1 .. N
          PROVE  g[n] = Apply(g[n - 1], n)
      <3>1. n - 1 \in 0 .. N
        BY <1>1
      <3>2. g[n - 1] \in A
        BY <1>7, <3>1
      <3>3. QED
        BY <1>6, <1>7, <3>2 DEF Iterates
    <2>3. \A n \in 0 .. N : g[n] = IF n = 0 THEN base ELSE Apply(g[n - 1], n)
      BY <1>1, <2>1, <2>2
    <2>4. QED
      BY <1>7, <2>3
  <1> DEFINE f == CHOOSE x : x = Rec(x)
  <1>9. f = Rec(f)
    BY <1>8
  <1> HIDE DEF f
  <1> DEFINE T == {n \in 0 .. N : Maps(countries, argMap, n, f[n])}
  <1>10. 0 \in T
    <2>1. f[0] = base /\ 0 \in 0 .. N
      BY <1>1, <1>9
    <2>2. {a \in argMap : a.key.spelling <= 0} = {}
      BY <1>1 DEF IsArgMap, N
    <2>3. Maps(countries, argMap, 0, base)
      BY <2>2 DEF Maps, UsableIn
    <2>4. QED
      BY <2>1, <2>3
  <1>11. ASSUME NEW n \in 1 .. N, n - 1 \in T
         PROVE  n \in T
    <2>1. n \in 0 .. N /\ n # 0
      BY <1>1
    <2>2. f[n] = Apply(f[n - 1], n)
      BY <1>9, <2>1
    <2>3. Maps(countries, argMap, n - 1, f[n - 1])
      BY <1>11
    <2>4. Maps(countries, argMap, n, Apply(f[n - 1], n))
      BY <2>3, OneArgument DEF Apply, N
    <2>5. QED
      BY <2>1, <2>2, <2>4
  <1> HIDE DEF T
  <1>12. N \in T
    <2>1. N \in Nat /\ N \in 0 .. N
      BY <1>1
    <2>2. QED
      BY <1>10, <1>11, <2>1, SetInduction
  <1>13. QED
    BY <1>2, <1>12 DEF f, T, N, Rec, Apply

\* Every country has the backend of the last usable argument for it.
LEMMA BackendsAreUsable ==
  ASSUME NEW countries, NEW argMap, IsArgMap(argMap), NEW c \in countries
  PROVE  UsableIn(argMap, c, countryBackendMap(countries, argMap)[c])
  <1>1. {a \in argMap : a.key.spelling <= Spellings} = argMap
    BY InputsAssumption DEF IsArgMap
  <1>2. QED
    BY <1>1, MapFilled DEF Maps

\* The entries of the map are the arguments that count.
LEMMA ArgumentsCount ==
  ASSUME NEW i \in Inputs, parseArguments(i.args) # None, NEW c, NEW backend,
         UsableIn(parseArguments(i.args), c, backend)
  PROVE  UsableBackend(i.args, c, backend)
  <1> DEFINE args == i.args
             argMap == parseArguments(args)
             counts == {n \in DOMAIN args :
                          \A m \in DOMAIN args : args[m].key = args[n].key => m <= n}
             usable == {n \in counts : args[n].key.country = c /\ parseUrl(args[n].url) # None}
             entries == {a \in argMap : a.key.country = c /\ parseUrl(a.url) # None}
  <1>1. DOMAIN args = 1 .. Len(args) /\ Len(args) \in Nat
    BY InputsAssumption
  <1>2. argMap = {args[n] : n \in {k \in DOMAIN args :
                                     \A m \in k + 1 .. Len(args) : args[m].key # args[k].key}}
    BY DEF parseArguments
  <1> HIDE DEF args, argMap
  <1>3. counts = {k \in DOMAIN args : \A m \in k + 1 .. Len(args) : args[m].key # args[k].key}
    <2>1. ASSUME NEW k \in DOMAIN args, NEW m \in DOMAIN args
          PROVE  (m <= k) <=> ~(m \in k + 1 .. Len(args))
      BY <1>1
    <2>2. ASSUME NEW k \in DOMAIN args, NEW m \in k + 1 .. Len(args)
          PROVE  m \in DOMAIN args
      BY <1>1
    <2>3. QED
      BY <2>1, <2>2
  <1>4. argMap = {args[n] : n \in counts}
    BY <1>2, <1>3
  <1> HIDE DEF counts
  <1>5. entries = {args[n] : n \in usable}
    BY <1>4
  <1>6. entries = {} \/ \E n \in usable : /\ backend = parseUrl(args[n].url)
                                         /\ \A b \in entries : b.key.spelling <= args[n].key.spelling
    BY <1>5 DEF UsableIn, args, argMap
  <1>7. entries = {} => backend = None
    BY DEF UsableIn, args, argMap
  <1>8. \/ usable = {} /\ backend = None
        \/ \E n \in usable : /\ \A m \in usable : args[m].key.spelling <= args[n].key.spelling
                             /\ backend = parseUrl(args[n].url)
    BY <1>5, <1>6, <1>7
  <1>9. QED
    BY <1>8, Zenon DEF UsableBackend, usable, counts, args
-----------------------------------------------------------------------------
(* The limits.                                                             *)

\* An int that is in range is not changed.
LEMMA IntInRange ==
  ASSUME NEW n \in 0 .. IntLimit
  PROVE  Int32(n) = n
  BY InputsAssumption, IntTypes DEF Ints

\* The threads and the queue of a connection are never zero or negative.
LEMMA LimitsArePositive ==
  ASSUME NEW i \in Inputs
  PROVE  /\ updateDeductions(i.hardware).num_io_threads \in Nat \ {0}
         /\ updateDeductions(i.hardware).max_response_queue_size \in Nat \ {0}
  <1> DEFINE h == i.hardware
             t == IF h = 0 THEN 2 ELSE 2 * h
  <1>1. h \in Nat /\ IntLimit \in Nat /\ QueuePerThread = 3332
        /\ 2 * h * QueuePerThread <= IntLimit /\ 2 * QueuePerThread <= IntLimit
    BY InputsAssumption DEF QueuePerThread
  <1> HIDE DEF h
  <1>2. t \in Nat \ {0} /\ t * QueuePerThread \in 1 .. IntLimit
    BY <1>1
  <1>3. Int32(t * QueuePerThread) = t * QueuePerThread
    BY <1>1, <1>2, IntInRange
  <1>4. /\ updateDeductions(h).num_io_threads = t
        /\ updateDeductions(h).max_response_queue_size = Int32(t * QueuePerThread)
    BY DEF updateDeductions
  <1>5. QED
    BY <1>1, <1>2, <1>3, <1>4 DEF h
-----------------------------------------------------------------------------
(* loadConfiguration.                                                      *)

\* The file that is read is one of those at the four paths, or there is none.
LEMMA FileFound ==
  ASSUME NEW i \in Inputs
  PROVE  configFile(i.files) \in Seq(Lines)
  <1> DEFINE found == {f \in DOMAIN i.files : i.files[f] # None}
  <1>1. /\ DOMAIN i.files \subseteq Nat
        /\ \A f \in DOMAIN i.files : i.files[f] \in Seq(Lines) \cup {None}
    BY InputsAssumption
  <1>2. CASE found = {}
    BY <1>2, EmptySeq DEF configFile
  <1>3. CASE found # {}
    <2>1. found \in SUBSET Nat
      BY <1>1
    <2>2. \E f \in found : \A g \in found : f <= g
      BY <1>3, <2>1, LeastNumber
    <2>3. (CHOOSE f \in found : \A g \in found : f <= g) \in found
      BY <2>2
    <2>4. QED
      BY <1>1, <1>3, <2>3 DEF configFile
  <1>4. QED
    BY <1>2, <1>3

\* The configuration is None only if the settings are.
LEMMA ConfigurationType ==
  ASSUME NEW i \in Inputs, parseArguments(i.args) # None,
         readLines(configFile(i.files)) \in Settings
  PROVE  [settings |-> readLines(configFile(i.files)),
          country_backend_map |-> countryBackendMap(Countries, parseArguments(i.args)),
          deduced |-> updateDeductions(i.hardware)] # None
  <1> DEFINE argMap == parseArguments(i.args)
             backends == countryBackendMap(Countries, argMap)
             Infos == [backend_host : STRING, backend_port : Nat]
             d == updateDeductions(i.hardware)
  <1>1. IsArgMap(argMap)
    BY ArgumentsParsed
  <1> HIDE DEF argMap
  <1>2. ASSUME NEW a \in argMap
        PROVE  parseUrl(a.url) \in Infos \cup {None}
    <2>1. a.url \in Urls
      BY <1>1 DEF IsArgMap, Arguments
    <2>2. PICK u \in Urls : u = a.url
      BY <2>1
    <2>3. ASSUME NEW p \in Nat
          PROVE  [backend_host |-> u.host, backend_port |-> p] \in Infos
      BY DEF Urls
    <2>4. CASE parseUrl(u) # None
      <3> DEFINE p == IF u.port = None THEN 80 ELSE u.port
      <3>1. u.port = None \/ u.port \in 1 .. MaxPort
        BY <2>4, Zenon DEF parseUrl
      <3>2. parseUrl(u) = [backend_host |-> u.host, backend_port |-> p]
        BY <2>4, Zenon DEF parseUrl
      <3>3. p \in Nat
        BY <3>1
      <3> HIDE DEF p
      <3>4. QED
        BY <2>2, <2>3, <3>2, <3>3
    <2>5. QED
      BY <2>2, <2>4
  <1>3. backends = [c \in Countries |-> backends[c]]
    BY <1>1, MapFilled DEF Maps
  <1>4. \A c \in Countries : UsableIn(argMap, c, backends[c])
    BY <1>1, BackendsAreUsable
  <1> HIDE DEF backends, Infos
  <1>5. \A c \in Countries : backends[c] \in Infos \cup {None}
    BY <1>2, <1>4 DEF UsableIn
  <1>6. backends \in [Countries -> Infos \cup {None}]
    BY <1>3, <1>5
  <1>7. d \in [num_io_threads : Nat, max_response_queue_size : Int]
    BY LimitsArePositive DEF updateDeductions
  <1> HIDE DEF d
  <1>8. QED
    BY <1>6, <1>7, InputsAssumption DEF Configurations, Infos, backends, argMap, d

\* What main loads is what the file and the arguments ask for.
LEMMA LoadedAsAsked ==
  ASSUME NEW i \in Inputs, parseArguments(i.args) # None
  PROVE  WellConfigured(Countries, i.files, i.args,
           loadConfiguration(Countries, i.files, parseArguments(i.args), i.hardware))
  <1> DEFINE lines == configFile(i.files)
             argMap == parseArguments(i.args)
             c == loadConfiguration(Countries, i.files, argMap, i.hardware)
             s == readLines(lines)
             bad == \E n \in DOMAIN lines : BadLevel(lines[n])
  <1>1. lines \in Seq(Lines) /\ IsArgMap(argMap)
    BY FileFound, ArgumentsParsed
  <1>2. CASE s = None
    <2>1. c = None
      BY <1>2 DEF loadConfiguration
    <2>2. bad
      BY <1>1, <1>2, SettingsAreLast
    <2>3. QED
      BY <2>1, <2>2 DEF WellConfigured, BadLevel
  <1>3. CASE s # None
    <2>1. /\ s \in Settings /\ ~bad
          /\ \A key \in SettingKeys : LastValidLine(lines, key, s[key])
      BY <1>1, <1>3, SettingsAreLast
    <2>2. c = [settings |-> s, country_backend_map |-> countryBackendMap(Countries, argMap),
               deduced |-> updateDeductions(i.hardware)]
      BY <1>3 DEF loadConfiguration
    <2>3. c # None
      BY <2>1, <2>2, ConfigurationType
    <2>4. /\ c.settings = s /\ c.deduced = updateDeductions(i.hardware)
          /\ c.country_backend_map = countryBackendMap(Countries, argMap)
      BY <2>2
    <2>5. \A x \in Countries : UsableBackend(i.args, x, c.country_backend_map[x])
      BY <1>1, <2>4, BackendsAreUsable, ArgumentsCount
    <2>6. c.deduced.num_io_threads > 0 /\ c.deduced.max_response_queue_size > 0
      BY <2>4, LimitsArePositive
    <2>7. \A key \in DOMAIN AppConfig : LastValidLine(lines, key, c.settings[key])
      BY <2>1, <2>4 DEF SettingKeys
    <2> HIDE DEF c
    <2>8. QED
      BY <2>1, <2>3, <2>5, <2>6, <2>7 DEF WellConfigured, BadLevel, c
  <1>4. QED
    BY <1>2, <1>3

\* Until main has loaded it, the input is what the program was started with.
Given == /\ main \in {"parse", "load"} => input \in Inputs
         /\ main = "load" => parseArguments(input.args) # None

\* The program starts with its arguments and files.
LEMMA InitGiven == Init => Given
  BY DEF Init, Given

\* Only Parse and Load touch them.
LEMMA NextGiven == Given /\ [Next]_vars => Given'
  <1> SUFFICES ASSUME Given, [Next]_vars, main' \in {"parse", "load"} PROVE Given'
    BY DEF Given
  <1>1. CASE MainStep
    BY <1>1 DEF MainStep, Parse, Load, Bind, Listen, Arm, Run, Returned, Join, Given
  <1>2. CASE main' = main /\ input' = input
    BY <1>2 DEF Given
  <1>3. Environment => main' = main /\ input' = input
    BY DEF Environment, Connect, Completes, AcceptFails, TenSeconds, Signal
  <1>4. ASSUME NEW t \in Threads,
               \/ TakeAccept(t) \/ TakeHeartbeat(t) \/ TakeSignal(t)
               \/ \E s \in Sessions : TakeSession(t, s)
               \/ Leave(t) \/ HandlerStep(t)
        PROVE  main' = main /\ input' = input
    BY <1>4
    DEF TakeAccept, TakeHeartbeat, TakeSignal, TakeSession, Take, Leave, HandlerStep,
        on_accept, on_accept_run, on_accept_failed, SessionHandler, on_session_finish,
        Heartbeat, stop, stop_lock, stop_session, stop_clear, cancel, ioc_stop
  <1>5. QED
    BY <1>1, <1>2, <1>3, <1>4 DEF Next, vars

\* Whatever the file, the arguments and the machine, the configuration that main
\* loads has for each setting what the last valid line of its key asks for, exactly
\* unless the seconds of a time to live are no int; for each country the backend of
\* the last usable one, in the order of the keys, of the arguments that no later
\* one with the same key replaces; and positive limits.  Loading fails exactly for
\* a level that stringToLogLevel does not know, the documented SETUP among them.
THEOREM ConfigurationStaysLastValid == Spec => []ConfigurationIsLastValid
  <1>1. Given => ConfigurationIsLastValid
    BY LoadedAsAsked DEF Given, ConfigurationIsLastValid, config
  <1>2. QED
    BY <1>1, InitGiven, NextGiven, PTL DEF Spec

-----------------------------------------------------------------------------
(* The threads serve until the shutdown.                                   *)

\* The steps of the signal handler, and those after it has closed the acceptor.
Closing == {"stop_lock", "stop_sessions", "cancel_calls", "cancel_heartbeat", "ioc_stop"}
Stopping == {"stop"} \cup Closing

\* Before main waits for signals there is none; the handler goes through its steps
\* in order; and without the work guard, or with the context stopped, the handler
\* has done its work.
Shutdown ==
  /\ main \in {"parse", "load"} => ~stopped /\ ~acceptor /\ signal = "none"
  /\ main \in {"bind", "listen", "arm", "signals"} =>
       work_guard /\ signal = "none" /\ \A t \in Threads : thread[t].at \notin Stopping
  /\ \A t \in Threads : /\ thread[t].at \in Stopping => signal = "none"
                        /\ thread[t].at \in Closing => ~acceptor
                        /\ thread[t].at = "ioc_stop" => ~work_guard
  /\ main \notin {"parse", "load"} /\ ~work_guard => ~acceptor /\ signal = "none"
  /\ stopped => ~work_guard

\* Only the signal handler and Leave touch what Shutdown is about.
LEMMA OrdinaryStep ==
  ASSUME Inv, NEW t \in Threads,
         \/ TakeAccept(t) \/ TakeHeartbeat(t) \/ \E s \in Sessions : TakeSession(t, s)
         \/ on_accept(t) \/ on_accept_run(t) \/ on_accept_failed(t)
         \/ SessionHandler(t) \/ on_session_finish(t) \/ Heartbeat(t)
  PROVE  /\ UNCHANGED <<main, acceptor, signal, work_guard, stopped>>
         /\ \E a \in (Opening \cup Serving \cup Others) \ Stopping,
               q \in Sessions \cup {None} :
              /\ ThreadStep(t, a, q)
              /\ a = "ended" => /\ SessionHandler(t)
                                /\ thread' = [thread EXCEPT ![t] = Ended]
  <1>1. UNCHANGED <<main, acceptor, signal, work_guard, stopped>>
    BY DEF TakeAccept, TakeHeartbeat, TakeSession, Take, on_accept, on_accept_run,
           on_accept_failed, SessionHandler, on_session_finish, Heartbeat, listenerVars, iocVars
  <1>2. ThreadType /\ thread[t].s \in Sessions \cup {None}
    BY DEF Inv, TypeOK
  <1> DEFINE Fits(a) == a \in (Opening \cup Serving \cup Others) \ Stopping
             Throws == SessionHandler(t) /\ thread' = [thread EXCEPT ![t] = Ended]
             Leads == \E a \in (Opening \cup Serving \cup Others) \ Stopping,
                         q \in Sessions \cup {None} :
                        ThreadStep(t, a, q) /\ (a = "ended" => Throws)
  <1>3. /\ Fits("on_accept") /\ Fits("on_accept_run") /\ Fits("on_accept_error")
        /\ Fits("on_accept_aborted") /\ Fits("session") /\ Fits("finish")
        /\ Fits("heartbeat") /\ Fits("heartbeat_aborted") /\ Fits("idle") /\ Fits("ended")
    BY DEF Opening, Serving, Others, Stopping, Closing
  <1> HIDE DEF Fits
  <1>4. ASSUME NEW a, Fits(a), NEW q \in Sessions \cup {None}, ThreadStep(t, a, q),
               a = "ended" => Throws
        PROVE  Leads
    BY <1>4, Zenon DEF Fits
  <1> HIDE DEF Leads
  <1>5. ASSUME NEW a, a # "ended", Fits(a), NEW q \in Sessions \cup {None}, Take(t, a, q)
        PROVE  Leads
    BY <1>2, <1>4, <1>5, TakeStep DEF Fits
  <1>6. ASSUME NEW a, a # "ended", Fits(a), Goto(t, a)
        PROVE  Leads
    BY <1>2, <1>4, <1>6, GotoStep DEF Fits
  <1>7. ASSUME Done(t)
        PROVE  Leads
    BY <1>2, <1>3, <1>4, <1>7, DoneStep
  <1>8. ASSUME Throws
        PROVE  Leads
    BY <1>2, <1>3, <1>4, <1>8, SetStep, RestingSteps
  <1> SUFFICES Leads
    BY <1>1 DEF Leads
  <1> HIDE DEF Throws
  <1>9. CASE TakeAccept(t) \/ TakeHeartbeat(t) \/ \E s \in Sessions : TakeSession(t, s)
    <2>1. \E a \in {"on_accept", "on_accept_error", "on_accept_aborted", "session",
                   "heartbeat", "heartbeat_aborted"}, q \in Sessions \cup {None} : Take(t, a, q)
      BY <1>9 DEF TakeAccept, TakeHeartbeat, TakeSession
    <2>2. QED
      BY <1>3, <1>5, <2>1
  <1>10. CASE \/ on_accept(t) \/ on_accept_run(t) \/ on_accept_failed(t)
              \/ on_session_finish(t) \/ Heartbeat(t)
    <2>1. Goto(t, "on_accept_run") \/ Done(t)
      BY <1>10
      DEF on_accept, on_accept_run, on_accept_failed, on_session_finish, Heartbeat
    <2>2. QED
      BY <1>3, <1>6, <1>7, <2>1
  <1>11. CASE SessionHandler(t)
    <2>1. Goto(t, "finish") \/ Done(t) \/ Throws
      BY <1>11 DEF SessionHandler, Throws
    <2>2. QED
      BY <1>3, <1>6, <1>7, <1>8, <2>1
  <1>12. QED
    BY <1>9, <1>10, <1>11

\* A thread is not in a handler before main has created the threads.
LEMMA NotStarting ==
  ASSUME Inv, NEW t \in Threads, thread[t] # Off
  PROVE  main \notin {"parse", "load"}
  BY DEF Inv, Starting

\* The steps that main and the environment take.
LEMMA MainShutdown ==
  ASSUME Inv, Shutdown, MainStep \/ Environment
  PROVE  Shutdown'
  <1>1. CASE Parse \/ Bind \/ Listen \/ Arm \/ Returned \/ Join
    <2>1. /\ UNCHANGED <<thread, Threads, signal, work_guard, stopped>>
          /\ acceptor' # acceptor => main = "bind"
      BY <1>1 DEF Parse, Bind, Listen, Arm, Returned, Join, Threads, listenerVars, iocVars
    <2>2. \/ main' = main
          \/ main \in {"parse", "load"} /\ main' \in {"load", "exit1"}
          \/ main = "bind" /\ main' \in {"listen", "terminated"}
          \/ main = "listen" /\ main' = "arm"
          \/ main = "arm" /\ main' = "signals"
          \/ main = "run" /\ main' = "join"
          \/ main = "join" /\ main' = "exit0"
      BY <1>1 DEF Parse, Bind, Listen, Arm, Returned, Join
    <2>3. main \in {"bind", "listen", "arm", "signals"} =>
            work_guard /\ ~stopped /\ \A t \in Threads : thread[t].at \notin Closing
      BY DEF Shutdown, Stopping
    <2>4. QED
      BY <2>1, <2>2, <2>3 DEF Shutdown
  <1>2. CASE Load
    <2>1. main = "load" /\ ~stopped /\ ~acceptor /\ signal = "none"
      BY <1>2 DEF Load, Shutdown
    <2>2. UNCHANGED <<stopped, acceptor, signal>>
      BY <1>2 DEF Load, listenerVars
    <2>3. CASE main' = "exit1" /\ UNCHANGED <<thread, work_guard>>
      BY <2>1, <2>2, <2>3 DEF Shutdown, Threads
    <2>4. CASE /\ main' = "bind" /\ work_guard' = TRUE
               /\ thread' = [t \in 0 .. config.deduced.num_io_threads |->
                               IF t = 0 THEN Off ELSE Idle]
      <3>1. \A t \in Threads' : thread'[t] \in {Off, Idle}
        BY <2>4 DEF Threads
      <3>2. \A t \in Threads' : thread'[t].at \notin Stopping \cup Closing \cup {"ioc_stop"}
        BY <3>1, RestingSteps DEF Stopping, Closing
      <3>3. QED
        BY <2>1, <2>2, <2>4, <3>2 DEF Shutdown
    <2>5. QED
      BY <1>2, <2>3, <2>4 DEF Load
  <1>3. CASE Run
    <2>1. /\ main = "signals" /\ main' = "run" /\ thread' = [thread EXCEPT ![0] = Idle]
          /\ UNCHANGED <<acceptor, work_guard, stopped>>
      BY <1>3 DEF Run, listenerVars
    <2>2. work_guard /\ ~stopped /\ \A t \in Threads : thread[t].at \notin Stopping
      BY <2>1 DEF Shutdown
    <2>3. Threads' = Threads /\ \A t \in Threads : thread'[t] \in {thread[t], Idle}
      BY <2>1 DEF Inv, ThreadType, Threads
    <2>4. \A t \in Threads' : thread'[t].at \notin Stopping \cup Closing \cup {"ioc_stop"}
      BY <2>2, <2>3, RestingSteps DEF Stopping, Closing
    <2>5. QED
      BY <2>1, <2>2, <2>4 DEF Shutdown
  <1>4. CASE Environment
    <2>1. /\ UNCHANGED <<main, thread, Threads, acceptor, work_guard, stopped>>
          /\ signal' # signal => signal = "pending"
      BY <1>4
      DEF Environment, Connect, Completes, AcceptFails, TenSeconds, Signal, Threads,
          listenerVars, iocVars
    <2>2. QED
      BY <2>1 DEF Shutdown
  <1>5. QED
    BY <1>1, <1>2, <1>3, <1>4 DEF MainStep

\* The steps of the threads.
LEMMA ThreadShutdown ==
  ASSUME Inv, Shutdown, NEW t \in Threads,
         \/ TakeAccept(t) \/ TakeHeartbeat(t) \/ TakeSignal(t)
         \/ \E s \in Sessions : TakeSession(t, s)
         \/ Leave(t) \/ HandlerStep(t)
  PROVE  Shutdown'
  <1>1. ASSUME UNCHANGED <<main, acceptor, signal, work_guard, stopped>>,
               NEW a, a \notin Stopping, NEW q, ThreadStep(t, a, q)
        PROVE  Shutdown'
    BY <1>1 DEF Shutdown, ThreadStep, Stopping, Closing
  <1>2. CASE Leave(t)
    <2>1. /\ thread[t] = Idle /\ stopped' /\ (stopped \/ ~OutstandingWork)
          /\ UNCHANGED <<main, acceptor, signal, work_guard>>
          /\ ThreadStep(t, "ended", None)
      BY <1>2, SetStep, RestingSteps DEF Leave, Inv, listenerVars
    <2>2. ~work_guard
      BY <2>1 DEF OutstandingWork, Shutdown
    <2>3. main \notin {"parse", "load"}
      BY <2>1, NotStarting, RestingSteps
    <2>4. QED
      BY <2>1, <2>2, <2>3 DEF Shutdown, ThreadStep, Stopping, Closing
  <1>3. CASE TakeSignal(t)
    <2>1. /\ signal = "ready" /\ signal' = "none" /\ Take(t, "stop", None)
      BY <1>3 DEF TakeSignal
    <2>2. /\ ThreadStep(t, "stop", None) /\ thread[t] = Idle
          /\ UNCHANGED <<main, acceptor, work_guard, stopped>>
      BY <2>1, TakeStep DEF Inv, Others, listenerVars
    <2>3. QED
      BY <2>1, <2>2 DEF Shutdown, ThreadStep, Stopping, Closing
  <1>4. ASSUME NEW a \in Closing, Goto(t, a), thread[t].at \in Stopping,
               thread[t].at \notin Closing => ~acceptor',
               a = "ioc_stop" => ~work_guard', acceptor' => acceptor, work_guard' => work_guard,
               UNCHANGED <<main, signal, stopped>>
        PROVE  Shutdown'
    <2>1. ThreadStep(t, a, thread[t].s)
      BY <1>4, GotoStep DEF Inv, Closing, Others
    <2>2. main \notin {"parse", "load", "bind", "listen", "arm", "signals"} /\ signal = "none"
      BY <1>4, NotStarting, RestingSteps DEF Shutdown, Stopping, Closing
    <2>3. ~acceptor'
      BY <1>4 DEF Shutdown
    <2>4. QED
      BY <1>4, <2>1, <2>2, <2>3 DEF Shutdown, ThreadStep
  <1>5. CASE stop(t) \/ stop_lock(t) \/ stop_clear(t)
    BY <1>4, <1>5 DEF stop, stop_lock, stop_clear, Stopping, Closing, iocVars
  <1>6. CASE cancel(t)
    BY <1>4, <1>6 DEF cancel, Stopping, Closing, listenerVars
  <1>7. CASE \E s \in Sessions : stop_session(t, s)
    BY <1>7 DEF stop_session, Shutdown, Threads, iocVars
  <1>8. CASE ioc_stop(t)
    <2>1. /\ thread[t].at = "ioc_stop" /\ stopped' /\ ThreadStep(t, "idle", None)
          /\ UNCHANGED <<main, acceptor, signal, work_guard>>
      BY <1>8, DoneStep DEF ioc_stop, Inv, listenerVars
    <2>2. main \notin {"parse", "load", "bind", "listen", "arm", "signals"} /\ ~work_guard
      BY <2>1, NotStarting, RestingSteps DEF Shutdown, Stopping, Closing
    <2>3. QED
      BY <2>1, <2>2 DEF Shutdown, ThreadStep, Stopping, Closing
  <1>9. QED
    BY <1>1, <1>2, <1>3, <1>5, <1>6, <1>7, <1>8, OrdinaryStep DEF HandlerStep

\* The threads that are out of ioc.run, and the connections that exceptions cut off.
EndedThreads == {t \in Threads : thread[t] = Ended}
LostSessions == {s \in Sessions : session[s] = "lost"}

\* Until the context is stopped, each such thread has cost a connection.
Counted ==
  /\ IsFiniteSet(Threads)
  /\ stopped \/ Cardinality(EndedThreads) <= Cardinality(LostSessions)

\* Both sets are finite.
LEMMA FiniteCounts ==
  ASSUME IsFiniteSet(Threads)
  PROVE  /\ IsFiniteSet(EndedThreads) /\ Cardinality(EndedThreads) \in Nat
         /\ IsFiniteSet(LostSessions) /\ Cardinality(LostSessions) \in Nat
  <1>1. EndedThreads \subseteq Threads /\ LostSessions \subseteq Sessions
    BY DEF EndedThreads, LostSessions
  <1>2. IsFiniteSet(EndedThreads) /\ IsFiniteSet(LostSessions)
    BY <1>1, FrontendServerAssumption, FS_Subset
  <1>3. QED
    BY <1>2, FS_CardinalityType

\* No thread more has ended, and no connection is found again.
LEMMA NoMoreEnded ==
  ASSUME Counted, IsFiniteSet(Threads'), EndedThreads' \subseteq EndedThreads,
         LostSessions \subseteq LostSessions', stopped => stopped'
  PROVE  Counted'
  <1>1. LostSessions' \subseteq Sessions
    BY DEF LostSessions
  <1>2. IsFiniteSet(LostSessions') /\ Cardinality(LostSessions') \in Nat
    BY <1>1, FrontendServerAssumption, FS_Subset, FS_CardinalityType
  <1>3. /\ IsFiniteSet(EndedThreads) /\ Cardinality(EndedThreads) \in Nat
        /\ Cardinality(LostSessions) \in Nat
    BY FiniteCounts DEF Counted
  <1>4. IsFiniteSet(EndedThreads') /\ Cardinality(EndedThreads') <= Cardinality(EndedThreads)
    BY <1>3, FS_Subset
  <1>5. Cardinality(LostSessions) <= Cardinality(LostSessions')
    BY <1>2, FS_Subset
  <1>6. Cardinality(EndedThreads') \in Nat
    BY <1>4, FS_CardinalityType
  <1>7. CASE stopped'
    BY <1>7 DEF Counted
  <1>8. CASE ~stopped'
    <2>1. Cardinality(EndedThreads) <= Cardinality(LostSessions)
      BY <1>8 DEF Counted
    <2>2. Cardinality(EndedThreads') <= Cardinality(LostSessions')
      BY <1>2, <1>3, <1>4, <1>5, <1>6, <2>1
    <2>3. QED
      BY <2>2 DEF Counted
  <1>9. QED
    BY <1>7, <1>8

\* The step of a thread that is not its last ends no other.
LEMMA OthersGoOn ==
  ASSUME NEW t \in Threads, NEW a, a # "ended", NEW q, ThreadStep(t, a, q)
  PROVE  EndedThreads' \subseteq EndedThreads /\ Threads' = Threads
  BY RestingSteps DEF ThreadStep, EndedThreads

\* A connection that is lost stays so.
LEMMA LostForGood ==
  ASSUME Inv, [Next]_vars
  PROVE  LostSessions \subseteq LostSessions'
  <1>1. session \in [Sessions -> Waiting \cup {"none", "accepted", "ready", "running",
                                               "finished", "lost"}]
    BY DEF Inv, TypeOK
  <1>2. ASSUME NEW s, s \in Sessions => session[s] # "lost",
               NEW x, session' = [session EXCEPT ![s] = x]
        PROVE  LostSessions \subseteq LostSessions'
    BY <1>1, <1>2 DEF LostSessions
  <1>3. ASSUME UNCHANGED session
        PROVE  LostSessions \subseteq LostSessions'
    BY <1>3 DEF LostSessions
  <1>4. CASE MainStep \/ UNCHANGED vars
    BY <1>3, <1>4
    DEF MainStep, Parse, Load, Bind, Listen, Arm, Run, Returned, Join, vars
  <1>5. CASE Environment
    BY <1>2, <1>3, <1>5
    DEF Environment, Connect, Completes, AcceptFails, TenSeconds, Signal, Waiting
  <1>6. ASSUME NEW t \in Threads,
               \/ TakeAccept(t) \/ TakeHeartbeat(t) \/ TakeSignal(t)
               \/ \E s \in Sessions : TakeSession(t, s)
               \/ Leave(t)
        PROVE  LostSessions \subseteq LostSessions'
    BY <1>2, <1>3, <1>6 DEF TakeAccept, TakeHeartbeat, TakeSignal, TakeSession, Leave
  <1>7. ASSUME NEW t \in Threads, HandlerStep(t)
        PROVE  LostSessions \subseteq LostSessions'
    <2>1. CASE \/ on_accept(t) \/ on_accept_failed(t) \/ Heartbeat(t)
               \/ stop(t) \/ stop_lock(t) \/ stop_clear(t) \/ ioc_stop(t)
      BY <1>3, <2>1
      DEF on_accept, on_accept_failed, Heartbeat, stop, stop_lock, stop_clear, ioc_stop
    <2>2. CASE on_accept_run(t) \/ SessionHandler(t) \/ on_session_finish(t)
      <3>1. session[thread[t].s] # "lost"
        BY <2>2 DEF Inv, Holds, Opening, Serving, on_accept_run, SessionHandler,
                    on_session_finish
      <3>2. UNCHANGED session \/ \E x : session' = [session EXCEPT ![thread[t].s] = x]
        BY <2>2 DEF on_accept_run, SessionHandler, on_session_finish
      <3>3. QED
        BY <1>2, <1>3, <3>1, <3>2
    <2>3. CASE \E s \in Sessions : stop_session(t, s)
      BY <1>1, <2>3 DEF stop_session, LostSessions
    <2>4. CASE cancel(t)
      BY <1>1, <1>3, <2>4 DEF cancel, LostSessions
    <2>5. QED
      BY <1>7, <2>1, <2>2, <2>3, <2>4 DEF HandlerStep
  <1>8. QED
    BY <1>4, <1>5, <1>6, <1>7 DEF Next

\* An exception takes one thread and one connection.
LEMMA ExceptionCounts ==
  ASSUME Inv, Counted, NEW t \in Threads, thread[t].at = "session",
         session' = [session EXCEPT ![thread[t].s] = "lost"],
         thread' = [thread EXCEPT ![t] = Ended], UNCHANGED stopped
  PROVE  Counted'
  <1> DEFINE s == thread[t].s
  <1>1. s \in Sessions /\ session[s] = "running"
    BY DEF Inv, Holds, Serving
  <1>2. s \notin LostSessions /\ LostSessions' = LostSessions \cup {s}
    BY <1>1 DEF Inv, TypeOK, LostSessions
  <1>3. Threads' = Threads /\ EndedThreads' = EndedThreads \cup {t}
    BY DEF Inv, ThreadType, Threads, EndedThreads
  <1>4. /\ IsFiniteSet(EndedThreads) /\ Cardinality(EndedThreads) \in Nat
        /\ IsFiniteSet(LostSessions) /\ Cardinality(LostSessions) \in Nat
    BY FiniteCounts DEF Counted
  <1>5. Cardinality(LostSessions') = Cardinality(LostSessions) + 1
    BY <1>2, <1>4, FS_AddElement
  <1>6. Cardinality(EndedThreads') \in {Cardinality(EndedThreads), Cardinality(EndedThreads) + 1}
    BY <1>3, <1>4, FS_AddElement
  <1>7. CASE stopped
    BY <1>3, <1>7 DEF Counted
  <1>8. CASE ~stopped
    <2>1. Cardinality(EndedThreads) <= Cardinality(LostSessions)
      BY <1>8 DEF Counted
    <2>2. Cardinality(EndedThreads') <= Cardinality(LostSessions')
      BY <1>4, <1>5, <1>6, <2>1
    <2>3. QED
      BY <1>3, <2>2 DEF Counted
  <1>9. QED
    BY <1>7, <1>8

\* The steps of the threads keep the count.
LEMMA ThreadCounts ==
  ASSUME Inv, Counted, NEW t \in Threads,
         LostSessions \subseteq LostSessions',
         \/ TakeAccept(t) \/ TakeHeartbeat(t) \/ TakeSignal(t)
         \/ \E s \in Sessions : TakeSession(t, s)
         \/ Leave(t) \/ HandlerStep(t)
  PROVE  Counted'
  <1>1. ASSUME NEW a, a # "ended", NEW q, ThreadStep(t, a, q), stopped => stopped'
        PROVE  Counted'
    BY <1>1, OthersGoOn, NoMoreEnded DEF Counted
  <1>2. CASE Leave(t)
    <2>1. stopped' /\ Threads' = Threads
      BY <1>2 DEF Leave, Inv, ThreadType, Threads
    <2>2. QED
      BY <2>1 DEF Counted
  <1>3. CASE TakeSignal(t)
    BY <1>1, <1>3, TakeStep DEF TakeSignal, Inv, Others
  <1>4. CASE stop(t) \/ stop_lock(t) \/ stop_clear(t) \/ cancel(t)
    <2>1. /\ \E a \in Closing : Goto(t, a)
          /\ UNCHANGED stopped
      BY <1>4 DEF stop, stop_lock, stop_clear, cancel, Closing, iocVars
    <2>2. QED
      BY <1>1, <2>1, GotoStep DEF Inv, Closing, Others
  <1>5. CASE ioc_stop(t)
    BY <1>1, <1>5, DoneStep DEF ioc_stop, Inv
  <1>6. CASE \E s \in Sessions : stop_session(t, s)
    <2>1. UNCHANGED <<thread, stopped>>
      BY <1>6 DEF stop_session, iocVars
    <2>2. QED
      BY <2>1, NoMoreEnded DEF Counted, EndedThreads, Threads
  <1>7. CASE SessionHandler(t) /\ thread' = [thread EXCEPT ![t] = Ended]
    <2>1. /\ thread[t].at = "session" /\ UNCHANGED stopped
          /\ session' = [session EXCEPT ![thread[t].s] = "lost"]
      <3>1. ~Done(t) /\ ~Goto(t, "finish")
        BY <1>7 DEF Done, Goto, Inv, ThreadType, Threads, Steps, Idle, Ended
      <3>2. QED
        BY <1>7, <3>1 DEF SessionHandler, iocVars
    <2>2. QED
      BY <1>7, <2>1, ExceptionCounts
  <1>8. CASE /\ ~(SessionHandler(t) /\ thread' = [thread EXCEPT ![t] = Ended])
             /\ \/ TakeAccept(t) \/ TakeHeartbeat(t) \/ \E s \in Sessions : TakeSession(t, s)
                \/ on_accept(t) \/ on_accept_run(t) \/ on_accept_failed(t)
                \/ SessionHandler(t) \/ on_session_finish(t) \/ Heartbeat(t)
    <2>1. UNCHANGED stopped
      BY <1>8, OrdinaryStep
    <2>2. PICK a, q : /\ ThreadStep(t, a, q)
                      /\ a = "ended" => /\ SessionHandler(t)
                                        /\ thread' = [thread EXCEPT ![t] = Ended]
      BY <1>8, OrdinaryStep
    <2>3. QED
      BY <1>1, <1>8, <2>1, <2>2
  <1>9. QED
    BY <1>2, <1>3, <1>4, <1>5, <1>6, <1>7, <1>8 DEF HandlerStep

\* The steps of main and of the environment keep it: Load makes the threads.
LEMMA MainCounts ==
  ASSUME Inv, Given, Counted, LostSessions \subseteq LostSessions', MainStep \/ Environment
  PROVE  Counted'
  <1>1. CASE UNCHANGED <<thread, stopped>>
    BY <1>1, NoMoreEnded DEF Counted, EndedThreads, Threads
  <1>2. CASE Run
    <2>1. thread' = [thread EXCEPT ![0] = Idle] /\ UNCHANGED stopped
      BY <1>2 DEF Run
    <2>2. Threads' = Threads /\ EndedThreads' \subseteq EndedThreads
      BY <2>1 DEF Inv, ThreadType, Threads, EndedThreads, Idle, Ended
    <2>3. QED
      BY <2>1, <2>2, NoMoreEnded DEF Counted
  <1>3. CASE Load /\ config # None
    <2> DEFINE n == config.deduced.num_io_threads
    <2>1. thread' = [t \in 0 .. n |-> IF t = 0 THEN Off ELSE Idle] /\ UNCHANGED stopped
      BY <1>3 DEF Load
    <2>2. n \in Nat
      <3>1. input \in Inputs
        BY <1>3 DEF Given, Load
      <3>2. config.deduced = updateDeductions(input.hardware)
        BY <1>3 DEF config, loadConfiguration
      <3>3. QED
        BY <3>1, <3>2, LimitsArePositive
    <2> HIDE DEF n
    <2>3. Threads' = 0 .. n /\ EndedThreads' = {}
      BY <2>1 DEF Threads, EndedThreads, Off, Idle, Ended
    <2>4. IsFiniteSet(Threads')
      BY <2>2, <2>3, FS_Interval
    <2>5. QED
      BY <2>1, <2>3, <2>4, NoMoreEnded
  <1>4. Environment \/ (MainStep /\ ~Run /\ ~(Load /\ config # None))
          => UNCHANGED <<thread, stopped>>
    BY DEF Environment, Connect, Completes, AcceptFails, TenSeconds, Signal, MainStep,
           Parse, Load, Bind, Listen, Arm, Returned, Join, iocVars
  <1>5. QED
    BY <1>1, <1>2, <1>3, <1>4

ServeInv == Inv /\ Given /\ Shutdown /\ Counted

\* It holds at the start.
LEMMA InitServe == Init => ServeInv
  <1> SUFFICES ASSUME Init PROVE Shutdown /\ Counted
    BY InitInv, InitGiven DEF ServeInv
  <1>1. Threads = {0} /\ \A t \in Threads : thread[t] = Off
    BY DEF Init, Threads
  <1>2. \A t \in Threads : thread[t].at \notin Stopping \cup Closing \cup {"ioc_stop"}
    BY <1>1, RestingSteps DEF Stopping, Closing
  <1>3. Shutdown
    BY <1>2 DEF Init, Shutdown
  <1>4. EndedThreads = {}
    BY <1>1, RestingSteps DEF EndedThreads
  <1>5. IsFiniteSet(Threads)
    BY <1>1, FS_Singleton
  <1>6. Cardinality(EndedThreads) <= Cardinality(LostSessions)
    BY <1>4, <1>5, FiniteCounts, FS_EmptySet
  <1>7. QED
    BY <1>3, <1>5, <1>6 DEF Counted

\* Every step keeps it.
LEMMA NextServe == ServeInv /\ [Next]_vars => ServeInv'
  <1> SUFFICES ASSUME Inv, Given, Shutdown, Counted, [Next]_vars
               PROVE  Shutdown' /\ Counted'
    BY NextInv, NextGiven DEF ServeInv
  <1>1. LostSessions \subseteq LostSessions'
    BY LostForGood
  <1>2. CASE MainStep \/ Environment
    BY <1>1, <1>2, MainShutdown, MainCounts
  <1>3. ASSUME NEW t \in Threads,
               \/ TakeAccept(t) \/ TakeHeartbeat(t) \/ TakeSignal(t)
               \/ \E s \in Sessions : TakeSession(t, s)
               \/ Leave(t) \/ HandlerStep(t)
        PROVE  Shutdown' /\ Counted'
    BY <1>1, <1>3, ThreadShutdown, ThreadCounts
  <1>4. CASE UNCHANGED vars
    BY <1>4 DEF vars, Shutdown, Counted, EndedThreads, LostSessions, Threads
  <1>5. QED
    BY <1>2, <1>3, <1>4 DEF Next

\* For any number of threads and connections: before the signal handler has closed
\* the acceptor and released the work guard, no more threads have left ioc.run than
\* connections were cut off by an exception of their handler.
THEOREM ThreadsServe == Spec => []ThreadsServeUntilShutdown
  <1>1. ServeInv => ThreadsServeUntilShutdown
    <2> SUFFICES ASSUME Shutdown, Counted PROVE ThreadsServeUntilShutdown
      BY DEF ServeInv
    <2>1. CASE stopped
      BY <2>1 DEF Shutdown, ThreadsServeUntilShutdown
    <2>2. CASE ~stopped
      BY <2>2, Zenon DEF Counted, EndedThreads, LostSessions, ThreadsServeUntilShutdown
    <2>3. QED
      BY <2>1, <2>2
  <1>2. QED
    BY <1>1, InitServe, NextServe, PTL DEF Spec
=============================================================================
