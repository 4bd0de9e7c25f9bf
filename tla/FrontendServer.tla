--------------------------- MODULE FrontendServer ---------------------------
(***************************************************************************)
(* The process: main (main.cpp), the listener BeastHttpServer              *)
(* (core/BeastHttpServer.hpp and .cpp) and the io_context whose handlers   *)
(* run on num_io_threads threads and on the main thread, number 0.         *)
(*                                                                         *)
(* A connection is reduced to what the listener sees of HttpServerSession: *)
(* it waits for its socket ("socket") or for a backend ("backend"), has a  *)
(* handler to run ("ready"), runs it, and finishes.  An exception of a     *)
(* handler ends the thread's ioc.run and loses the connection's chain of   *)
(* handlers.  main gives each of its steps that other threads can observe  *)
(* a step of the model; the caches and the metrics it initializes are in   *)
(* ServerCache and UDPSender.                                              *)
(***************************************************************************)
EXTENDS Configuration

CONSTANTS Countries, Inputs,   \* records of arguments, files and hardware
          Sessions,            \* the connections that clients may open
          MaxThreads           \* bound of num_io_threads

ASSUME FrontendServerAssumption ==
  None \notin Sessions /\ IsFiniteSet(Sessions) /\ MaxThreads \in Nat

\* The files at the four paths are read line by line; a key determines its place
\* in the order of the keys; and the queue limit is an int for the processors
\* that a machine may have.
ASSUME InputsAssumption ==
  /\ IntLimit \in Nat /\ 2 * QueuePerThread <= IntLimit /\ Spellings \in Nat
  /\ None \notin Settings /\ None \notin Configurations(Countries)
  /\ \A i \in Inputs :
       /\ DOMAIN i.files \subseteq Nat
       /\ \A f \in DOMAIN i.files : i.files[f] \in Seq(Lines) \cup {None}
       /\ i.args \in Seq(Arguments)
       /\ \A m, n \in DOMAIN i.args :
            (/\ i.args[m].key # None /\ i.args[n].key # None
             /\ i.args[m].key.spelling = i.args[n].key.spelling)
              => i.args[m].key = i.args[n].key
       /\ i.hardware \in Nat /\ 2 * i.hardware * QueuePerThread <= IntLimit

VARIABLES
  main,             \* what the main thread does
  input,            \* the program's arguments and files until they are read
  thread,           \* what each thread does: a step of a handler, and its session
  session,          \* the state of each connection
  closed,           \* the connections whose socket HttpServerSession::stop closed
  active_sessions_, sessions_mutex_,
  acceptor,         \* is acceptor_ open
  accept, heartbeat, signal,   \* the pending or ready handler of each operation
  work_guard, stopped

vars == <<main, input, thread, session, closed, active_sessions_, sessions_mutex_,
          acceptor, accept, heartbeat, signal, work_guard, stopped>>
listenerVars == <<active_sessions_, sessions_mutex_, acceptor, closed>>
iocVars == <<accept, heartbeat, signal, work_guard, stopped>>

\* A thread that is in no handler: not started, in ioc.run, or out of it.
Off == [at |-> "off", s |-> None]
Idle == [at |-> "idle", s |-> None]
Ended == [at |-> "ended", s |-> None]

Threads == DOMAIN thread
Busy(t) == thread[t] \notin {Off, Idle, Ended}

Waiting == {"socket", "backend"}

TypeOK ==
  /\ main \in {"parse", "load", "bind", "listen", "arm", "signals", "run",
               "join", "exit0", "exit1", "terminated"}
  /\ session \in [Sessions -> Waiting \cup {"none", "accepted", "ready", "running",
                                            "finished", "lost"}]
  /\ closed \subseteq Sessions /\ active_sessions_ \subseteq Sessions
  /\ sessions_mutex_ \in Threads \cup {None}
  /\ \A t \in Threads : thread[t].s \in Sessions \cup {None}
  /\ acceptor \in BOOLEAN /\ work_guard \in BOOLEAN /\ stopped \in BOOLEAN
  /\ accept \in {"none", "pending", "ok", "error", "aborted"}
  /\ heartbeat \in {"none", "pending", "ready", "aborted"}
  /\ signal \in {"none", "pending", "ready"}

Init ==
  /\ main = "parse"
  /\ input \in Inputs
  /\ thread = [t \in {0} |-> Off]
  /\ session = [s \in Sessions |-> "none"]
  /\ closed = {} /\ active_sessions_ = {} /\ sessions_mutex_ = None
  /\ acceptor = FALSE
  /\ accept = "none" /\ heartbeat = "none" /\ signal = "none"
  /\ work_guard = FALSE /\ stopped = FALSE

-----------------------------------------------------------------------------
(* main, up to ioc.run.                                                    *)

config ==
  loadConfiguration(Countries, input.files, parseArguments(input.args), input.hardware)

Parse ==
  /\ main = "parse"
  /\ main' = IF parseArguments(input.args) = None THEN "exit1" ELSE "load"
  /\ UNCHANGED <<input, thread, session, listenerVars, iocVars>>

\* Mutant: the threads start without a work guard.
Mutant_Load ==
  /\ main = "load"
  /\ IF config = None
     THEN main' = "exit1" /\ UNCHANGED thread
     ELSE /\ main' = "bind"
          /\ thread' = [t \in 0 .. config.deduced.num_io_threads |->
                          IF t = 0 THEN Off ELSE Idle]
  /\ input' = None
  /\ UNCHANGED <<session, listenerVars, iocVars>>

\* An exception of loadConfiguration is caught at the end of main.  The threads
\* are created before the server and start to run the io_context.
Load ==
  /\ main = "load"
  /\ IF config = None
     THEN main' = "exit1" /\ UNCHANGED <<thread, work_guard>>
     ELSE /\ main' = "bind" /\ work_guard' = TRUE
          /\ thread' = [t \in 0 .. config.deduced.num_io_threads |->
                          IF t = 0 THEN Off ELSE Idle]
  /\ input' = None
  /\ UNCHANGED <<session, listenerVars, accept, heartbeat, signal, stopped>>

\* The constructor of BeastHttpServer: if a call fails the exception destroys the
\* threads while they are joinable, and the program is terminated.
Bind ==
  /\ main = "bind"
  /\ \/ main' = "listen" /\ acceptor' = TRUE
     \/ main' = "terminated" /\ UNCHANGED acceptor
  /\ UNCHANGED <<input, thread, session, active_sessions_, sessions_mutex_, closed, iocVars>>

\* async_accept on an open acceptor waits for a client; on a closed one it fails.
do_accept == accept' = IF acceptor THEN "pending" ELSE "error"

Listen ==
  /\ main = "listen" /\ main' = "arm"
  /\ do_accept
  /\ UNCHANGED <<input, thread, session, listenerVars, heartbeat, signal, work_guard, stopped>>

Arm ==
  /\ main = "arm" /\ main' = "signals"
  /\ heartbeat' = "pending"
  /\ UNCHANGED <<input, thread, session, listenerVars, accept, signal, work_guard, stopped>>

\* signals.async_wait, and main calls ioc.run.
Run ==
  /\ main = "signals" /\ main' = "run"
  /\ signal' = "pending"
  /\ thread' = [thread EXCEPT ![0] = Idle]
  /\ UNCHANGED <<input, session, listenerVars, accept, heartbeat, work_guard, stopped>>

\* ioc.run has returned or thrown on the main thread.
Returned ==
  /\ main = "run" /\ thread[0] = Ended
  /\ main' = "join"
  /\ UNCHANGED <<input, thread, session, listenerVars, iocVars>>

Join ==
  /\ main = "join" /\ \A t \in Threads : thread[t] = Ended
  /\ main' = "exit0"
  /\ UNCHANGED <<input, thread, session, listenerVars, iocVars>>

MainStep == Parse \/ Load \/ Bind \/ Listen \/ Arm \/ Run \/ Returned \/ Join

-----------------------------------------------------------------------------
(* The environment: clients, the operator, time and backends.              *)

Exited == main \in {"exit0", "exit1", "terminated"}

Connect(s) ==
  /\ accept = "pending" /\ session[s] = "none"
  /\ accept' = "ok"
  /\ session' = [session EXCEPT ![s] = "accepted"]
  /\ UNCHANGED <<main, input, thread, listenerVars, heartbeat, signal, work_guard, stopped>>

\* A failing accept, such as one for which there is no descriptor left.
AcceptFails ==
  /\ accept = "pending" /\ accept' = "error"
  /\ UNCHANGED <<main, input, thread, session, listenerVars, heartbeat, signal,
                 work_guard, stopped>>

TenSeconds ==
  /\ heartbeat = "pending" /\ heartbeat' = "ready"
  /\ UNCHANGED <<main, input, thread, session, listenerVars, accept, signal,
                 work_guard, stopped>>

Signal ==
  /\ signal = "pending" /\ signal' = "ready"
  /\ UNCHANGED <<main, input, thread, session, listenerVars, accept, heartbeat,
                 work_guard, stopped>>

\* A socket or a backend completes an operation.
Completes(s) ==
  /\ session[s] \in Waiting
  /\ session' = [session EXCEPT ![s] = "ready"]
  /\ UNCHANGED <<main, input, thread, listenerVars, iocVars>>

Environment ==
  /\ ~Exited
  /\ \/ \E s \in Sessions : Connect(s) \/ Completes(s)
     \/ AcceptFails \/ TenSeconds \/ Signal

-----------------------------------------------------------------------------
(* The threads of the io_context.                                          *)

Goto(t, step) == thread' = [thread EXCEPT ![t].at = step]
Done(t) == thread' = [thread EXCEPT ![t] = Idle]

\* A thread takes a ready handler.
Take(t, step, s) ==
  /\ thread[t] = Idle /\ ~stopped
  /\ thread' = [thread EXCEPT ![t] = [at |-> step, s |-> s]]
  /\ UNCHANGED <<main, input, listenerVars, work_guard, stopped>>

TakeAccept(t) ==
  /\ accept \in {"ok", "error", "aborted"}
  /\ accept' = "none"
  /\ IF accept = "ok"
     THEN \E s \in Sessions : /\ session[s] = "accepted"
                              /\ \A u \in Threads : thread[u].s # s
                              /\ Take(t, "on_accept", s)
     ELSE Take(t, IF accept = "error" THEN "on_accept_error" ELSE "on_accept_aborted", None)
  /\ UNCHANGED <<session, heartbeat, signal>>

TakeHeartbeat(t) ==
  /\ heartbeat \in {"ready", "aborted"}
  /\ heartbeat' = "none"
  /\ Take(t, IF heartbeat = "ready" THEN "heartbeat" ELSE "heartbeat_aborted", None)
  /\ UNCHANGED <<session, accept, signal>>

TakeSignal(t) ==
  /\ signal = "ready" /\ signal' = "none"
  /\ Take(t, "stop", None)
  /\ UNCHANGED <<session, accept, heartbeat>>

TakeSession(t, s) ==
  /\ session[s] = "ready"
  /\ session' = [session EXCEPT ![s] = "running"]
  /\ Take(t, "session", s)
  /\ UNCHANGED <<accept, heartbeat, signal>>

OutstandingWork ==
  \/ work_guard
  \/ "none" # accept \/ "none" # heartbeat \/ "none" # signal
  \/ \E s \in Sessions : session[s] \in Waiting \cup {"ready"}
  \/ \E t \in Threads : Busy(t)

\* ioc.run returns when the context is stopped; a thread that finds no work left
\* stops it.
Leave(t) ==
  /\ thread[t] = Idle /\ (stopped \/ ~OutstandingWork)
  /\ thread' = [thread EXCEPT ![t] = Ended]
  /\ stopped' = TRUE
  /\ UNCHANGED <<main, input, session, listenerVars, accept, heartbeat, signal, work_guard>>

-----------------------------------------------------------------------------
(* The listener's handlers.                                                *)

\* The session is added, under the lock.
on_accept(t) ==
  /\ thread[t].at = "on_accept" /\ sessions_mutex_ = None
  /\ active_sessions_' = active_sessions_ \cup {thread[t].s}
  /\ Goto(t, "on_accept_run")
  /\ UNCHANGED <<main, input, session, sessions_mutex_, acceptor, closed, iocVars>>

\* session->run() and do_accept(): a session that stop() has closed in between
\* fails its first read.
on_accept_run(t) ==
  LET s == thread[t].s
  IN /\ thread[t].at = "on_accept_run"
     /\ session' = [session EXCEPT ![s] = IF s \in closed THEN "ready" ELSE "socket"]
     /\ do_accept
     /\ Done(t)
     /\ UNCHANGED <<main, input, listenerVars, heartbeat, signal, work_guard, stopped>>

on_accept_failed(t) ==
  /\ \/ thread[t].at = "on_accept_error" /\ do_accept
     \/ thread[t].at = "on_accept_aborted" /\ UNCHANGED accept
  /\ Done(t)
  /\ UNCHANGED <<main, input, session, listenerVars, heartbeat, signal, work_guard, stopped>>

\* A handler of a session goes on to wait, finishes the session, or throws.
SessionHandler(t) ==
  LET s == thread[t].s
  IN /\ thread[t].at = "session"
     /\ \/ /\ session' \in {[session EXCEPT ![s] = w] :
                              w \in {"backend", IF s \in closed THEN "ready" ELSE "socket"}}
           /\ Done(t)
        \/ Goto(t, "finish") /\ UNCHANGED session
        \/ /\ session' = [session EXCEPT ![s] = "lost"]
           /\ thread' = [thread EXCEPT ![t] = Ended]
     /\ UNCHANGED <<main, input, listenerVars, iocVars>>

\* Mutant: a finished session is not removed.
Mutant_on_session_finish(t) ==
  /\ thread[t].at = "finish" /\ sessions_mutex_ = None
  /\ session' = [session EXCEPT ![thread[t].s] = "finished"]
  /\ Done(t)
  /\ UNCHANGED <<main, input, listenerVars, iocVars>>

on_session_finish(t) ==
  LET s == thread[t].s
  IN /\ thread[t].at = "finish" /\ sessions_mutex_ = None
     /\ active_sessions_' = active_sessions_ \ {s}
     /\ session' = [session EXCEPT ![s] = "finished"]
     /\ Done(t)
     /\ UNCHANGED <<main, input, sessions_mutex_, acceptor, closed, iocVars>>

\* The heartbeat arms its timer again unless it was cancelled.
Heartbeat(t) ==
  /\ \/ thread[t].at = "heartbeat" /\ heartbeat' = "pending"
     \/ thread[t].at = "heartbeat_aborted" /\ UNCHANGED heartbeat
  /\ Done(t)
  /\ UNCHANGED <<main, input, session, listenerVars, accept, signal, work_guard, stopped>>

-----------------------------------------------------------------------------
(* The signal handler.                                                     *)

\* BeastHttpServer::stop: the acceptor is closed, which aborts a pending accept.
stop(t) ==
  /\ thread[t].at = "stop"
  /\ acceptor' = FALSE
  /\ accept' = IF accept = "pending" THEN "aborted" ELSE accept
  /\ Goto(t, "stop_lock")
  /\ UNCHANGED <<main, input, session, active_sessions_, sessions_mutex_, closed,
                 heartbeat, signal, work_guard, stopped>>

stop_lock(t) ==
  /\ thread[t].at = "stop_lock" /\ sessions_mutex_ = None
  /\ sessions_mutex_' = t
  /\ Goto(t, "stop_sessions")
  /\ UNCHANGED <<main, input, session, active_sessions_, acceptor, closed, iocVars>>

\* HttpServerSession::stop closes the socket, so that its operation completes.
stop_session(t, s) ==
  /\ thread[t].at = "stop_sessions" /\ s \in active_sessions_ \ closed
  /\ closed' = closed \cup {s}
  /\ session' = [session EXCEPT ![s] = IF @ = "socket" THEN "ready" ELSE @]
  /\ UNCHANGED <<main, input, thread, active_sessions_, sessions_mutex_, acceptor, iocVars>>

stop_clear(t) ==
  /\ thread[t].at = "stop_sessions" /\ active_sessions_ \subseteq closed
  /\ active_sessions_' = {} /\ sessions_mutex_' = None
  /\ Goto(t, "cancel_calls")
  /\ UNCHANGED <<main, input, session, acceptor, closed, iocVars>>

\* Backendify::cancel_active_backend_calls ends the calls, whose completions run
\* later; the heartbeat's wait is cancelled unless it has already expired.
cancel(t) ==
  /\ \/ /\ thread[t].at = "cancel_calls"
        /\ session' = [s \in Sessions |-> IF session[s] = "backend" THEN "ready"
                                                                    ELSE session[s]]
        /\ Goto(t, "cancel_heartbeat")
        /\ UNCHANGED <<heartbeat, work_guard>>
     \/ /\ thread[t].at = "cancel_heartbeat"
        /\ heartbeat' = IF heartbeat = "pending" THEN "aborted" ELSE heartbeat
        /\ work_guard' = FALSE
        /\ Goto(t, "ioc_stop")
        /\ UNCHANGED session
  /\ UNCHANGED <<main, input, listenerVars, accept, signal, stopped>>

\* Mutant: the handler relies on the work guard.
Mutant_ioc_stop(t) ==
  /\ thread[t].at = "ioc_stop"
  /\ Done(t)
  /\ UNCHANGED <<main, input, session, listenerVars, iocVars>>

ioc_stop(t) ==
  /\ thread[t].at = "ioc_stop"
  /\ stopped' = TRUE
  /\ Done(t)
  /\ UNCHANGED <<main, input, session, listenerVars, accept, heartbeat, signal, work_guard>>

HandlerStep(t) ==
  \/ on_accept(t) \/ on_accept_run(t) \/ on_accept_failed(t)
  \/ SessionHandler(t) \/ on_session_finish(t)
  \/ Heartbeat(t)
  \/ stop(t) \/ stop_lock(t) \/ \E s \in Sessions : stop_session(t, s)
  \/ stop_clear(t) \/ cancel(t) \/ ioc_stop(t)

Next ==
  \/ MainStep
  \/ Environment
  \/ ~Exited /\ \E t \in Threads :
       \/ TakeAccept(t) \/ TakeHeartbeat(t) \/ TakeSignal(t)
       \/ \E s \in Sessions : TakeSession(t, s)
       \/ Leave(t) \/ HandlerStep(t)
  \/ Exited /\ UNCHANGED vars

\* main and a thread in a handler go on; a thread leaves a stopped context; and
\* the queue of ready handlers is in order, so that none waits for ever.
Fairness ==
  /\ WF_vars(MainStep)
  /\ \A t \in 0 .. MaxThreads : /\ WF_vars(t \in Threads /\ HandlerStep(t))
                               /\ WF_vars(t \in Threads /\ Leave(t))
  /\ SF_vars(\E t \in Threads : TakeSignal(t))

Spec == Init /\ [][Next]_vars /\ Fairness

-----------------------------------------------------------------------------
(* Properties.                                                             *)

\* Every setting is what the last valid line of its key asks for, or its default:
\* an invalid line leaves it alone, and hours that overflow as seconds damage no
\* setting but their own.  A country has the backend of an argument that can be
\* used; one that cannot never takes the place of one with another key, but does
\* of an earlier one with its own.  Loading fails exactly for a level that
\* stringToLogLevel does not know, SETUP among them, which backendify.config,
\* README.md and CODE_DESIGN.md list as available.
ConfigurationIsLastValid ==
  main = "load" => WellConfigured(Countries, input.files, input.args, config)

\* The set of active sessions is what stop() needs: a connection that has or
\* waits for a handler is in it, or stop() has closed it; and the set holds no
\* connection that is over, except one that an exception has cut off.
SessionsAreRegistered ==
  \A s \in Sessions :
    /\ session[s] \in Waiting \cup {"ready", "running"} => s \in active_sessions_ \cup closed
    /\ s \in active_sessions_ => session[s] \notin {"none", "finished"}

\* The threads serve until the shutdown.  Before the signal handler has closed the
\* acceptor and released the work guard, a thread is out of ioc.run only because of
\* an exception, and each exception takes one thread and the connection whose
\* handler threw it: neither the moments without any operation while main starts,
\* nor a failing accept, nor the end of the last connection lets a thread go.
ThreadsServeUntilShutdown ==
  \/ Cardinality({t \in Threads : thread[t] = Ended})
       <= Cardinality({s \in Sessions : session[s] = "lost"})
  \/ stopped /\ ~acceptor /\ ~work_guard /\ signal = "none"

\* A signal ends the program, whatever the connections, the heartbeat and the
\* accept operation are doing at that time, and although a connection accepted
\* during the shutdown is never stopped and a heartbeat that has expired arms
\* its timer again.
SignalEndsServer == signal = "ready" ~> main = "exit0"
=============================================================================
