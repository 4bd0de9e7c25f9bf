------------------------- MODULE HttpServerSession -------------------------
(***************************************************************************)
(* One client connection: HttpServerSession of core/HttpServerSession.hpp  *)
(* and .cpp.  The session reads a request, hands it to the Backendify      *)
(* service, queues the response the service calls it back with, writes it  *)
(* and reads the next request, until the connection is closed.             *)
(*                                                                         *)
(* The handlers of a session run on the strand of its socket.  Two parties *)
(* run beside that strand: the completion of a backend call, which enters  *)
(* send_response on the strand of the backend connection, and stop(),      *)
(* which the signal handler calls.  Completions that are ready reach the   *)
(* strand in any order, because several I/O threads carry them there.      *)
(*                                                                         *)
(* An asynchronous operation is "pending" from its initiation until the    *)
(* kernel decides its result, and the result stays until the handler runs. *)
(***************************************************************************)
EXTENDS Naturals, Sequences

CONSTANTS MaxRequests,          \* bound: requests the client sends
          MaxResponseQueueSize  \* config_.max_response_queue_size

ASSUME MaxRequestsAssumption == MaxRequests \in Nat
ASSUME MaxResponseQueueSizeAssumption == MaxResponseQueueSize \in Nat \ {0}

VARIABLES
  socket,                       \* "open", "shutdown" (send side) or "closed"
  req_,                         \* what keep_alive() reads of the request
  response_queue_,
  write_in_progress_,
  current_write_op_completed_,
  on_finish_callback_,          \* "set", "dispatched" (moved out) or "ran"
  read,                         \* the async_read (or run()'s dispatched do_read)
  write,                        \* the async_write, with what on_write is bound to
  timers,                       \* waits on diagnostic_write_timer_, one per write
  service,                      \* the callback held by Backendify
  do_write,                     \* where a call of do_write stands
  strand,                       \* the strand that runs that call
  stopping,                     \* where stop() stands
  received,                     \* history: requests read so far
  wire                          \* history: the requests answered, in order

vars == <<socket, req_, response_queue_, write_in_progress_,
          current_write_op_completed_, on_finish_callback_, read, write, timers,
          service, do_write, strand, stopping, received, wire>>

-----------------------------------------------------------------------------
(* Requests and responses: only what decides the life of the connection.   *)

Requests == [version : {10, 11}, connection : {"none", "close", "keep-alive"}]

\* http::message::keep_alive() of Boost.Beast.
keep_alive(r) == IF r.version = 11 THEN r.connection # "close"
                                   ELSE r.connection = "keep-alive"

\* A default-constructed request, and one whose fields were moved out of it:
\* the version stays, the header fields are gone.
EmptyReq == [version |-> 11, connection |-> "none"]
Mutant_MovedFrom(r) == [r EXCEPT !.connection = "unspecified"]
MovedFrom(r) == [r EXCEPT !.connection = "none"]

Responses == [id : Nat, keep_alive : BOOLEAN]

Writes == [state : {"none", "pending", "ok", "error"},
           id : Nat, keep_alive : BOOLEAN]
Services == [state : {"idle", "deferred"}, keep_alive : BOOLEAN]
NoWrite == [state |-> "none", id |-> 0, keep_alive |-> FALSE]
Idle == [state |-> "idle", keep_alive |-> FALSE]

TimerStates == {"waiting", "expired", "aborted", "ran"}

TypeOK ==
  /\ socket \in {"open", "shutdown", "closed"}
  /\ req_ \in Requests
  /\ response_queue_ \in Seq(Responses)
  /\ write_in_progress_ \in BOOLEAN
  /\ current_write_op_completed_ \in BOOLEAN
  /\ on_finish_callback_ \in {"set", "dispatched", "ran"}
  /\ read \in {"none", "dispatched", "pending", "ok", "error"}
  /\ write \in Writes
  /\ timers \in Seq(TimerStates)
  /\ service \in Services
  /\ do_write \in {"idle", "check", "start"}
  /\ strand \in {"session", "client"}
  /\ stopping \in {"no", "flagged", "done"}
  /\ received \in Nat
  /\ wire \in Seq(Nat)

\* BeastHttpServer::on_accept has constructed the session and called run().
Init ==
  /\ socket = "open"
  /\ req_ = EmptyReq
  /\ response_queue_ = <<>>
  /\ write_in_progress_ = FALSE
  /\ current_write_op_completed_ = FALSE
  /\ on_finish_callback_ = "set"
  /\ read = "dispatched"
  /\ write = NoWrite
  /\ timers = <<>>
  /\ service = Idle
  /\ do_write = "idle"
  /\ strand = "session"
  /\ stopping = "no"
  /\ received = 0
  /\ wire = <<>>

-----------------------------------------------------------------------------
(* The private member functions, as parts of the handlers that call them.  *)

\* A handler of the session may run: no do_write occupies its strand.
StrandFree == do_write = "idle" \/ strand = "client"

\* diagnostic_write_timer_.cancel(): a wait that has already expired keeps
\* its success code and still runs its handler.
CancelTimer(ts) ==
  [n \in DOMAIN ts |-> IF ts[n] = "waiting" THEN "aborted" ELSE ts[n]]

do_read ==
  /\ read' = "pending"
  /\ req_' = EmptyReq

\* do_close: the callback is moved out, so it is dispatched once; dispatch
\* runs it at once when the caller is already on the session's strand.
do_close(on) ==
  /\ current_write_op_completed_' = TRUE
  /\ timers' = CancelTimer(timers)
  /\ socket' = IF socket = "open" THEN "shutdown" ELSE socket
  /\ on_finish_callback_' =
       IF on_finish_callback_ # "set" THEN on_finish_callback_
       ELSE IF on = "session" THEN "ran" ELSE "dispatched"

\* The queue after send_response: the oldest response makes room.
Enqueued(q, res) ==
  Append(IF Len(q) >= MaxResponseQueueSize THEN Tail(q) ELSE q, res)

\* send_response with a response.
send_response(res, on) ==
  /\ response_queue_' = Enqueued(response_queue_, res)
  /\ IF write_in_progress_
       THEN UNCHANGED <<do_write, strand>>
       ELSE do_write' = "check" /\ strand' = on
  /\ UNCHANGED <<write_in_progress_, current_write_op_completed_, timers,
                 socket, on_finish_callback_>>

\* send_response with nullopt, always called from within handle_request:
\* keep_alive() is asked of req_, which was moved into processCompanyRequest.
drop_request ==
  /\ UNCHANGED <<response_queue_, write_in_progress_, do_write, strand>>
  /\ CASE write_in_progress_ ->
            /\ read' = "none" /\ req_' = MovedFrom(req_)
            /\ UNCHANGED <<current_write_op_completed_, timers, socket,
                           on_finish_callback_>>
       [] ~write_in_progress_ /\ keep_alive(MovedFrom(req_)) ->
            /\ do_read
            /\ UNCHANGED <<current_write_op_completed_, timers, socket,
                           on_finish_callback_>>
       [] OTHER ->
            /\ read' = "none" /\ req_' = MovedFrom(req_)
            /\ do_close("session")

-----------------------------------------------------------------------------
(* Handlers on the session's strand.                                       *)

\* The do_read that run() dispatched.
Run ==
  /\ read = "dispatched"
  /\ do_read
  /\ UNCHANGED <<socket, response_queue_, write_in_progress_,
                 current_write_op_completed_, on_finish_callback_, write,
                 timers, service, do_write, strand, stopping, received, wire>>

\* Mutant: a failed read is simply tried again.
Mutant_on_read_error ==
  /\ StrandFree /\ read = "error"
  /\ do_read
  /\ UNCHANGED <<socket, response_queue_, write_in_progress_,
                 current_write_op_completed_, on_finish_callback_, write,
                 timers, service, do_write, strand, stopping, received, wire>>

\* on_read with an error, end_of_stream included.
on_read_error ==
  /\ StrandFree /\ read = "error"
  /\ read' = "none"
  /\ do_close("session")
  /\ UNCHANGED <<req_, response_queue_, write_in_progress_, write, service,
                 do_write, strand, stopping, received, wire>>

\* on_read and handle_request when the answer comes back within the call: a
\* 404 of handle_request or an error of processCompanyRequest, which copy the
\* request's keep-alive, or a cached or /status answer, which set it to TRUE.
\* Only a /company request is moved from.
handle_request_replies(moved, keep) ==
  /\ StrandFree /\ read = "ok"
  /\ keep \in {TRUE, keep_alive(req_)}
  /\ read' = "none"
  /\ req_' = IF moved THEN MovedFrom(req_) ELSE req_
  /\ send_response([id |-> received, keep_alive |-> keep], "session")
  /\ UNCHANGED <<write, service, stopping, received, wire>>

\* ... when processCompanyRequest drops the request for missing its SLA.
handle_request_drops ==
  /\ StrandFree /\ read = "ok"
  /\ drop_request
  /\ UNCHANGED <<write, service, stopping, received, wire>>

\* ... when processCompanyRequest starts a backend call and returns.
handle_request_defers ==
  /\ StrandFree /\ read = "ok"
  /\ read' = "none"
  /\ req_' = MovedFrom(req_)
  /\ service' = [state |-> "deferred", keep_alive |-> keep_alive(req_)]
  /\ UNCHANGED <<socket, response_queue_, write_in_progress_,
                 current_write_op_completed_, on_finish_callback_, write,
                 timers, do_write, strand, stopping, received, wire>>

\* on_write exchanges the flag for TRUE and cancels the timer.  When the flag
\* was already TRUE the session closes, whatever the result of the write.
on_write_late ==
  /\ StrandFree /\ write.state \in {"ok", "error"}
  /\ current_write_op_completed_
  /\ write' = NoWrite
  /\ do_close("session")
  /\ UNCHANGED <<req_, response_queue_, write_in_progress_, read, service,
                 do_write, strand, stopping, received, wire>>

\* Mutant: a failed write is started again.
Mutant_on_write_error ==
  /\ StrandFree /\ write.state = "error"
  /\ ~current_write_op_completed_
  /\ write' = [write EXCEPT !.state = "pending"]
  /\ UNCHANGED <<socket, req_, response_queue_, write_in_progress_,
                 current_write_op_completed_, on_finish_callback_, read, timers,
                 service, do_write, strand, stopping, received, wire>>

on_write_error ==
  /\ StrandFree /\ write.state = "error"
  /\ ~current_write_op_completed_
  /\ write' = NoWrite
  /\ response_queue_' = <<>>
  /\ write_in_progress_' = FALSE
  /\ do_close("session")
  /\ UNCHANGED <<req_, read, service, do_write, strand, stopping, received, wire>>

\* Mutants: the written response stays in the queue and is written again; it
\* stays in the queue behind the next read; the flag keeps its value.
Mutant_on_write_ok_resends ==
  /\ StrandFree /\ write.state = "ok"
  /\ ~current_write_op_completed_
  /\ write' = NoWrite
  /\ current_write_op_completed_' = TRUE
  /\ timers' = CancelTimer(timers)
  /\ do_write' = "check" /\ strand' = "session"
  /\ Len(wire) < MaxRequests
  /\ UNCHANGED <<socket, req_, response_queue_, write_in_progress_,
                 on_finish_callback_, read, service, stopping, received, wire>>

Mutant_on_write_ok_reads(queue, flag) ==
  /\ StrandFree /\ write.state = "ok"
  /\ ~current_write_op_completed_
  /\ write' = NoWrite
  /\ response_queue_' = queue
  /\ current_write_op_completed_' = flag
  /\ timers' = CancelTimer(timers)
  /\ write_in_progress_' = FALSE
  /\ do_read
  /\ UNCHANGED <<socket, on_finish_callback_, service, do_write, strand,
                 stopping, received, wire>>

Mutant_on_write_ok_no_pop == Mutant_on_write_ok_reads(response_queue_, TRUE)
Mutant_on_write_ok_no_exchange == Mutant_on_write_ok_reads(<<>>, FALSE)

\* After a success: the next response of the queue, else the next request,
\* else the end.
on_write_ok ==
  /\ StrandFree /\ write.state = "ok"
  /\ ~current_write_op_completed_
  /\ write' = NoWrite
  /\ response_queue_' = Tail(response_queue_)
  /\ IF Tail(response_queue_) = <<>> /\ ~write.keep_alive
       THEN do_close("session")
       ELSE /\ current_write_op_completed_' = TRUE
            /\ timers' = CancelTimer(timers)
            /\ UNCHANGED <<socket, on_finish_callback_>>
  /\ IF Tail(response_queue_) # <<>>
       THEN /\ do_write' = "check" /\ strand' = "session"
            /\ UNCHANGED <<write_in_progress_, read, req_>>
       ELSE /\ write_in_progress_' = FALSE
            /\ UNCHANGED <<do_write, strand>>
            /\ IF write.keep_alive THEN do_read ELSE UNCHANGED <<read, req_>>
  /\ UNCHANGED <<service, stopping, received, wire>>

\* The handler of the wait started for the n-th write.
diagnostic_write_timer_handler(n) ==
  /\ StrandFree /\ timers[n] \in {"expired", "aborted"}
  /\ timers' = [timers EXCEPT ![n] = "ran"]
  /\ socket' = IF ~current_write_op_completed_ /\ timers[n] = "expired"
                 THEN "closed" ELSE socket
  /\ UNCHANGED <<req_, response_queue_, write_in_progress_,
                 current_write_op_completed_, on_finish_callback_, read, write,
                 service, do_write, strand, stopping, received, wire>>

\* on_finish_callback_, when do_close ran on another strand.
on_finish ==
  /\ StrandFree /\ on_finish_callback_ = "dispatched"
  /\ on_finish_callback_' = "ran"
  /\ UNCHANGED <<socket, req_, response_queue_, write_in_progress_,
                 current_write_op_completed_, read, write, timers, service,
                 do_write, strand, stopping, received, wire>>

-----------------------------------------------------------------------------
(* do_write, on the strand of its caller.  stop() may run between the test *)
(* of is_open() and the initiation of the write, and so may a handler of   *)
(* the session when the caller is a backend completion.  Both callers have *)
(* put a response into the queue, so the empty queue is not met.           *)

\* Mutant: the call goes on after do_close.
Mutant_do_write_check ==
  /\ do_write = "check"
  /\ do_write' = "start"
  /\ IF socket = "closed"
       THEN do_close(strand)
       ELSE UNCHANGED <<socket, current_write_op_completed_, timers,
                        on_finish_callback_>>
  /\ write_in_progress_' = TRUE
  /\ UNCHANGED <<req_, response_queue_, read, write, service, strand, stopping,
                 received, wire>>

do_write_check ==
  /\ do_write = "check"
  /\ IF socket = "closed"
       THEN /\ do_write' = "idle"
            /\ response_queue_' = <<>>
            /\ write_in_progress_' = FALSE
            /\ do_close(strand)
       ELSE /\ do_write' = "start"
            /\ write_in_progress_' = TRUE
            /\ UNCHANGED <<socket, response_queue_, current_write_op_completed_,
                           timers, on_finish_callback_>>
  /\ UNCHANGED <<req_, read, write, service, strand, stopping, received, wire>>

do_write_start ==
  /\ do_write = "start"
  /\ do_write' = "idle"
  /\ current_write_op_completed_' = FALSE
  /\ timers' = Append(CancelTimer(timers), "waiting")
  /\ write' = [state |-> "pending", id |-> Head(response_queue_).id,
               keep_alive |-> Head(response_queue_).keep_alive]
  /\ UNCHANGED <<socket, req_, response_queue_, write_in_progress_,
                 on_finish_callback_, read, service, strand, stopping, received,
                 wire>>

\* The completion of the backend call calls the session back.
service_replies ==
  /\ service.state = "deferred"
  /\ service' = Idle
  /\ send_response([id |-> received, keep_alive |-> service.keep_alive], "client")
  /\ UNCHANGED <<req_, read, write, stopping, received, wire>>

-----------------------------------------------------------------------------
(* stop(), on the signal handler's thread.  A session that has reported    *)
(* its end is no longer among the active ones.                             *)

stop_flags ==
  /\ stopping = "no" /\ on_finish_callback_ # "ran"
  /\ stopping' = "flagged"
  /\ current_write_op_completed_' = TRUE
  /\ timers' = CancelTimer(timers)
  /\ UNCHANGED <<socket, req_, response_queue_, write_in_progress_,
                 on_finish_callback_, read, write, service, do_write, strand,
                 received, wire>>

stop_closes ==
  /\ stopping = "flagged"
  /\ stopping' = "done"
  /\ socket' = "closed"
  /\ UNCHANGED <<req_, response_queue_, write_in_progress_,
                 current_write_op_completed_, on_finish_callback_, read, write,
                 timers, service, do_write, strand, received, wire>>

-----------------------------------------------------------------------------
(* The network and the clocks.                                             *)

\* A complete request has been read; it may come out of buffer_, so it may
\* arrive after the socket was closed.
read_delivers(r) ==
  /\ read = "pending" /\ received < MaxRequests
  /\ read' = "ok" /\ req_' = r
  /\ received' = received + 1
  /\ UNCHANGED <<socket, response_queue_, write_in_progress_,
                 current_write_op_completed_, on_finish_callback_, write, timers,
                 service, do_write, strand, stopping, wire>>

\* The read fails: the peer is gone, the socket was closed, or the stream's
\* 30 s deadline passed, which closes the socket.
read_fails ==
  /\ read = "pending"
  /\ read' = "error"
  /\ socket' \in {socket, "closed"}
  /\ UNCHANGED <<req_, response_queue_, write_in_progress_,
                 current_write_op_completed_, on_finish_callback_, write, timers,
                 service, do_write, strand, stopping, received, wire>>

write_delivers ==
  /\ write.state = "pending" /\ socket # "closed"
  /\ write' = [write EXCEPT !.state = "ok"]
  /\ wire' = Append(wire, write.id)
  /\ UNCHANGED <<socket, req_, response_queue_, write_in_progress_,
                 current_write_op_completed_, on_finish_callback_, read, timers,
                 service, do_write, strand, stopping, received>>

\* As for a read: the deadline set by do_read holds for the write too.
write_fails ==
  /\ write.state = "pending"
  /\ write' = [write EXCEPT !.state = "error"]
  /\ socket' \in {socket, "closed"}
  /\ UNCHANGED <<req_, response_queue_, write_in_progress_,
                 current_write_op_completed_, on_finish_callback_, read, timers,
                 service, do_write, strand, stopping, received, wire>>

timer_expires(n) ==
  /\ timers[n] = "waiting"
  /\ timers' = [timers EXCEPT ![n] = "expired"]
  /\ UNCHANGED <<socket, req_, response_queue_, write_in_progress_,
                 current_write_op_completed_, on_finish_callback_, read, write,
                 service, do_write, strand, stopping, received, wire>>

-----------------------------------------------------------------------------
\* What the session's own strand runs.
Handler ==
  \/ Run
  \/ on_read_error
  \/ \E moved, keep \in BOOLEAN : handle_request_replies(moved, keep)
  \/ handle_request_drops
  \/ handle_request_defers
  \/ on_write_late
  \/ on_write_error
  \/ on_write_ok
  \/ \E n \in DOMAIN timers : diagnostic_write_timer_handler(n)
  \/ on_finish

Environment ==
  \/ \E r \in Requests : read_delivers(r)
  \/ read_fails
  \/ write_delivers
  \/ write_fails
  \/ \E n \in DOMAIN timers : timer_expires(n)

\* The session has reported its end; its last handlers may have run.
Ended == on_finish_callback_ = "ran" /\ UNCHANGED vars

Next ==
  \/ Handler
  \/ do_write_check
  \/ do_write_start
  \/ service_replies
  \/ stop_flags
  \/ stop_closes
  \/ Environment
  \/ Ended

\* The I/O threads run every ready handler; a call in progress goes on; the
\* stream's deadline ends every read and every write.  Nothing is assumed of
\* the service, of the client, or of a signal ever arriving.
Fairness ==
  /\ WF_vars(Handler)
  /\ WF_vars(do_write_check \/ do_write_start)
  /\ WF_vars(stop_closes)
  /\ WF_vars(read_fails)
  /\ WF_vars(write_fails)

Spec == Init /\ [][Next]_vars /\ Fairness

-----------------------------------------------------------------------------
(* Properties.                                                             *)

Reading   == read # "none"
Serving   == service.state = "deferred"
Preparing == do_write # "idle"
Writing   == write.state # "none"
Finished  == on_finish_callback_ # "set"

\* The session does exactly one thing at a time: it reads, waits for the
\* service, prepares a write, writes, or has finished.  No two handlers that
\* touch response_queue_ can therefore meet, although send_response may run on
\* the strand of a backend connection, and no path forgets to continue.
OneActivity ==
  /\ Reading \/ Serving \/ Preparing \/ Writing \/ Finished
  /\ Reading => ~(Serving \/ Preparing \/ Writing \/ Finished)
  /\ Serving => ~(Preparing \/ Writing \/ Finished)
  /\ Preparing => ~(Writing \/ Finished)
  /\ Writing => ~Finished

\* The response queue never holds more than the response being written, and
\* is empty whenever the service may still add one: the shedding of the oldest
\* response in send_response is never reached, whatever the limit.
QueueNeverSheds ==
  /\ Len(response_queue_) <= 1
  /\ Serving \/ Reading => response_queue_ = <<>> /\ ~write_in_progress_

\* Responses leave in the order of their requests, at most one per request,
\* and never before the request was read.
AnsweredInOrder ==
  /\ \A i \in 1 .. Len(wire) : wire[i] \in 1 .. received
  /\ \A i, j \in 1 .. Len(wire) : i < j => wire[i] < wire[j]

TimerCloses(n) ==
  /\ timers[n] = "expired" /\ timers'[n] = "ran"
  /\ socket # "closed" /\ socket' = "closed"

\* The diagnostic timer never closes the socket of a session that is reading,
\* waiting for the service or finished: only while a write is outstanding.
TimerClosesOnlyDuringWrite ==
  [][\A n \in DOMAIN timers : TimerCloses(n) => Writing]_vars

\* A write comes to an end: the session goes on to read, or finishes.
WriteResolves == Writing ~> (Reading \/ Finished)

\* After stop() the session reports its end, unless it waits for the service.
StopEndsSession == stopping # "no" ~> (on_finish_callback_ = "ran" \/ Serving)
=============================================================================
