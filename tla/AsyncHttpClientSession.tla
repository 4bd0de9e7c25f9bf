----------------------- MODULE AsyncHttpClientSession -----------------------
(***************************************************************************)
(* The calls to the backends: AsyncHttpClientSession of                    *)
(* core/AsyncHttpClientSession.hpp, one object per call.  A call resolves  *)
(* the backend's name, connects, writes the request and reads the answer,  *)
(* each step started by the handler of the one before, and hands the       *)
(* outcome to on_complete_.  A timer runs beside the chain, and cancel()   *)
(* may come from the signal handler's thread at any moment.                *)
(***************************************************************************)
EXTENDS Naturals, Sequences

CONSTANTS Sessions,   \* the calls
          Answers,    \* what a backend may answer
          Empty       \* the default-constructed response (200, no body)

ASSUME EmptyAssumption == Empty \notin Answers

VARIABLES
  op,             \* the asynchronous operation the call is in
  ec,             \* "pending", or its result until the handler runs
  res_,           \* the response read so far
  socket,         \* stream_.socket(): "closed" or "open"
  timer_,
  cancelled,      \* history: cancel() has been called
  on_complete_    \* history: what the callback was called with

clientVars == <<op, ec, res_, socket, timer_, cancelled, on_complete_>>

Ops == {"new", "resolve", "connect", "write", "read", "none"}
\* The error codes the callers tell apart; "error" is any other.
Errors == {"refused", "timed_out", "error"}
Outcomes == [ec : {"ok"} \cup Errors, answer : Answers \cup {Empty}]

ClientTypeOK ==
  /\ op \in [Sessions -> Ops]
  /\ ec \in [Sessions -> {"pending", "ok", "end_of_stream"} \cup Errors]
  /\ res_ \in [Sessions -> Answers \cup {Empty}]
  /\ socket \in [Sessions -> {"closed", "open"}]
  /\ timer_ \in [Sessions -> {"idle", "waiting", "expired", "aborted", "ran"}]
  /\ cancelled \in [Sessions -> BOOLEAN]
  /\ on_complete_ \in [Sessions -> Seq(Outcomes)]

ClientInit ==
  /\ op = [s \in Sessions |-> "new"]
  /\ ec = [s \in Sessions |-> "pending"]
  /\ res_ = [s \in Sessions |-> Empty]
  /\ socket = [s \in Sessions |-> "closed"]
  /\ timer_ = [s \in Sessions |-> "idle"]
  /\ cancelled = [s \in Sessions |-> FALSE]
  /\ on_complete_ = [s \in Sessions |-> <<>>]

-----------------------------------------------------------------------------
(* The chain of handlers.                                                  *)

\* The operation o is initiated by the handler that runs now.
Begin(s, o) ==
  /\ op' = [op EXCEPT ![s] = o]
  /\ ec' = [ec EXCEPT ![s] = "pending"]
  /\ UNCHANGED on_complete_

\* The handler calls on_complete_ and starts nothing more.
Complete(s, error, answer) ==
  /\ op' = [op EXCEPT ![s] = "none"]
  /\ on_complete_' = [on_complete_ EXCEPT ![s] =
                        Append(@, [ec |-> error, answer |-> answer])]
  /\ UNCHANGED ec

CancelTimer(s) ==
  timer_' = [timer_ EXCEPT ![s] = IF @ = "waiting" THEN "aborted" ELSE @]

run(s) ==
  /\ op[s] = "new"
  /\ Begin(s, "resolve")
  /\ timer_' = [timer_ EXCEPT ![s] = "waiting"]
  /\ UNCHANGED <<res_, socket, cancelled>>

\* Mutant: a failed resolution takes the call back to its start.
Mutant_on_resolve(s) ==
  /\ op[s] = "resolve" /\ ec[s] # "pending"
  /\ IF ec[s] = "ok"
       THEN Begin(s, "connect") /\ socket' = [socket EXCEPT ![s] = "open"]
       ELSE Begin(s, "new") /\ UNCHANGED socket
  /\ UNCHANGED <<res_, timer_, cancelled>>

\* async_connect opens the socket, whether or not cancel() has closed it.
on_resolve(s) ==
  /\ op[s] = "resolve" /\ ec[s] # "pending"
  /\ IF ec[s] = "ok"
       THEN Begin(s, "connect") /\ socket' = [socket EXCEPT ![s] = "open"]
       ELSE Complete(s, ec[s], Empty) /\ UNCHANGED socket
  /\ UNCHANGED <<res_, timer_, cancelled>>

\* Mutant: a failed connection is attempted again, without limit.
Mutant_on_connect(s) ==
  /\ op[s] = "connect" /\ ec[s] # "pending"
  /\ Begin(s, IF ec[s] = "ok" THEN "write" ELSE "resolve")
  /\ UNCHANGED <<res_, socket, timer_, cancelled>>

on_connect(s) ==
  /\ op[s] = "connect" /\ ec[s] # "pending"
  /\ IF ec[s] = "ok" THEN Begin(s, "write") ELSE Complete(s, ec[s], Empty)
  /\ UNCHANGED <<res_, socket, timer_, cancelled>>

\* Mutant: a failed write connects again.
Mutant_on_write(s) ==
  /\ op[s] = "write" /\ ec[s] # "pending"
  /\ Begin(s, IF ec[s] = "ok" THEN "read" ELSE "connect")
  /\ socket' = [socket EXCEPT ![s] = "open"]
  /\ UNCHANGED <<res_, timer_, cancelled>>

on_write(s) ==
  /\ op[s] = "write" /\ ec[s] # "pending"
  /\ IF ec[s] = "ok" THEN Begin(s, "read") ELSE Complete(s, ec[s], Empty)
  /\ UNCHANGED <<res_, socket, timer_, cancelled>>

\* Mutant: the end of the stream is passed on as an error.
Mutant_on_read(s) ==
  /\ op[s] = "read" /\ ec[s] # "pending"
  /\ CancelTimer(s)
  /\ Complete(s, ec[s], res_[s])
  /\ UNCHANGED <<res_, socket, cancelled>>

\* The end of the stream is reported as a success with an empty response.
\* The socket is shut down, which leaves it open.
on_read(s) ==
  /\ op[s] = "read" /\ ec[s] # "pending"
  /\ CancelTimer(s)
  /\ Complete(s, IF ec[s] = "end_of_stream" THEN "ok" ELSE ec[s], res_[s])
  /\ UNCHANGED <<res_, socket, cancelled>>

-----------------------------------------------------------------------------
(* The timer and cancel().                                                 *)

\* The code a wait on a steady_timer completes with.
TimerEc(t) == IF t = "expired" THEN "success" ELSE "operation_aborted"

\* Mutant: the handler takes the code of an expiry for what it is.
Mutant_on_timeout(s) ==
  /\ timer_[s] \in {"expired", "aborted"}
  /\ timer_' = [timer_ EXCEPT ![s] = "ran"]
  /\ IF TimerEc(timer_[s]) # "operation_aborted"
       THEN /\ socket' = [socket EXCEPT ![s] = "closed"]
            /\ on_complete_' = [on_complete_ EXCEPT ![s] =
                 Append(@, [ec |-> "timed_out", answer |-> Empty])]
       ELSE UNCHANGED <<socket, on_complete_>>
  /\ UNCHANGED <<op, ec, res_, cancelled>>

\* on_timeout acts on an error code other than operation_aborted.
on_timeout(s) ==
  /\ timer_[s] \in {"expired", "aborted"}
  /\ timer_' = [timer_ EXCEPT ![s] = "ran"]
  /\ IF TimerEc(timer_[s]) \notin {"success", "operation_aborted"}
       THEN /\ socket' = [socket EXCEPT ![s] = "closed"]
            /\ on_complete_' = [on_complete_ EXCEPT ![s] =
                 Append(@, [ec |-> "timed_out", answer |-> Empty])]
       ELSE UNCHANGED <<socket, on_complete_>>
  /\ UNCHANGED <<op, ec, res_, cancelled>>

\* Backendify has put the session into its set before it calls run(), so
\* cancel() may even come first.
cancel(s) ==
  /\ CancelTimer(s)
  /\ socket' = [socket EXCEPT ![s] = "closed"]
  /\ cancelled' = [cancelled EXCEPT ![s] = TRUE]
  /\ UNCHANGED <<op, ec, res_, on_complete_>>

-----------------------------------------------------------------------------
(* The resolver, the network and the backend, which may stay silent.       *)

Result(s, error, answer) ==
  /\ ec' = [ec EXCEPT ![s] = error]
  /\ res_' = [res_ EXCEPT ![s] = answer]
  /\ UNCHANGED <<op, socket, timer_, cancelled, on_complete_>>

resolve_ends(s) ==
  /\ op[s] = "resolve" /\ ec[s] = "pending"
  /\ \E e \in {"ok", "error"} : Result(s, e, Empty)

connect_ends(s) ==
  /\ op[s] = "connect" /\ ec[s] = "pending" /\ socket[s] = "open"
  /\ \E e \in {"ok"} \cup Errors : Result(s, e, Empty)

write_ends(s) ==
  /\ op[s] = "write" /\ ec[s] = "pending" /\ socket[s] = "open"
  /\ \E e \in {"ok", "error"} : Result(s, e, Empty)

read_ends(s) ==
  /\ op[s] = "read" /\ ec[s] = "pending" /\ socket[s] = "open"
  /\ \/ \E a \in Answers : Result(s, "ok", a)
     \/ \E e \in {"end_of_stream", "timed_out", "error"} : Result(s, e, Empty)

\* An operation on a closed socket ends with operation_aborted or
\* bad_descriptor.
op_aborts(s) ==
  /\ op[s] \in {"connect", "write", "read"} /\ ec[s] = "pending"
  /\ socket[s] = "closed"
  /\ Result(s, "error", Empty)

timer_expires(s) ==
  /\ timer_[s] = "waiting"
  /\ timer_' = [timer_ EXCEPT ![s] = "expired"]
  /\ UNCHANGED <<op, ec, res_, socket, cancelled, on_complete_>>

-----------------------------------------------------------------------------
ClientHandler(s) == on_resolve(s) \/ on_connect(s) \/ on_write(s) \/ on_read(s)

ClientEnvironment(s) ==
  \/ resolve_ends(s)
  \/ connect_ends(s)
  \/ write_ends(s)
  \/ read_ends(s)
  \/ op_aborts(s)
  \/ timer_expires(s)

\* A call that has completed and whose timer has run.
Over(s) == op[s] = "none" /\ timer_[s] = "ran"
Ended == (\A s \in Sessions : Over(s)) /\ UNCHANGED clientVars

ClientNext ==
  \/ \E s \in Sessions :
       \/ run(s)
       \/ ClientHandler(s)
       \/ on_timeout(s)
       \/ ~cancelled[s] /\ cancel(s)
       \/ ClientEnvironment(s)
  \/ Ended

\* Ready handlers run and timers expire.  The resolver and the kernel's own
\* connection attempt give up after a while, a request this small fits the
\* send buffer, and an operation on a closed socket is aborted.  A backend
\* that has accepted the request owes nothing.
ClientFairness ==
  \A s \in Sessions :
    /\ WF_clientVars(ClientHandler(s))
    /\ WF_clientVars(on_timeout(s))
    /\ WF_clientVars(timer_expires(s))
    /\ WF_clientVars(resolve_ends(s))
    /\ WF_clientVars(connect_ends(s))
    /\ WF_clientVars(write_ends(s))
    /\ WF_clientVars(op_aborts(s))

ClientSpec == ClientInit /\ [][ClientNext]_clientVars /\ ClientFairness

-----------------------------------------------------------------------------
(* Properties.                                                             *)

\* The callback of a call is called once, by whichever handler ends the chain,
\* and never by two of timer, cancellation and answer; until then the chain
\* has exactly one operation outstanding.
CompletesExactlyOnce ==
  \A s \in Sessions : Len(on_complete_[s]) = IF op[s] = "none" THEN 1 ELSE 0

\* Once the socket is closed under an operation of the chain, the call ends,
\* even if the backend never answers.
ClosedSocketEndsCall ==
  \A s \in Sessions :
    (op[s] \in {"connect", "write", "read"} /\ socket[s] = "closed")
      ~> op[s] = "none"

\* The session implements the call Backendify is built on, whatever the order
\* of answer, timer and cancellation.
Call == INSTANCE BackendCall WITH
  call <- [s \in Sessions |-> CASE op[s] = "new" -> "idle"
                                [] op[s] = "none" -> "done"
                                [] OTHER -> "running"],
  outcome <- on_complete_
ImplementsCall == Call!CallSpec

\* With backends that answer or close the connection, every call that was
\* started completes, wherever a cancellation or an error meets the chain.
ResponsiveCallsEnd ==
  (\A s \in Sessions : WF_clientVars(read_ends(s)))
    => \A s \in Sessions : op[s] # "new" ~> op[s] = "none"

\* "... individual backend API calls (connection, read, write), to prevent
\* indefinite blocking": a call ends once its timer has gone off.
TimeoutEndsCall == \A s \in Sessions : timer_[s] = "expired" ~> op[s] = "none"
=============================================================================
