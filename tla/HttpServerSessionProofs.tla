---------------------- MODULE HttpServerSessionProofs ----------------------
(***************************************************************************)
(* The session's safety properties for any number of requests and any     *)
(* limit of the response queue.  Everything rests on one inductive         *)
(* invariant: which activity the session is in decides what response_queue_*)
(* holds, whether the diagnostic timer may act, and how far the answers on *)
(* the wire lag behind the requests read.                                  *)
(***************************************************************************)
EXTENDS HttpServerSession, SequenceTheorems, TLAPS

\* The request last read is still to be answered.
Unanswered == read = "ok" \/ Serving \/ Preparing \/ write.state = "pending"

\* The queue holds exactly the response being prepared or written.
QueueInv ==
  /\ Reading \/ Serving => response_queue_ = <<>> /\ ~write_in_progress_
  /\ Preparing \/ Writing => /\ Len(response_queue_) = 1
                             /\ response_queue_[1].id = received
  /\ do_write = "check" => ~write_in_progress_
  /\ Writing => write.id = received
  /\ Len(response_queue_) <= 1

\* Outside a write the flag keeps every timer handler from acting.
FlagInv == ~Writing => current_write_op_completed_ \/ timers = <<>>

WireInv ==
  /\ AnsweredInOrder
  /\ Unanswered => /\ received > 0
                   /\ \A i \in 1 .. Len(wire) : wire[i] < received

Inv == TypeOK /\ OneActivity /\ QueueInv /\ FlagInv /\ WireInv

-----------------------------------------------------------------------------
\* Cancelling the diagnostic timer keeps the sequence of waits well formed.
LEMMA CancelTimerType ==
  ASSUME NEW ts \in Seq(TimerStates)
  PROVE  /\ CancelTimer(ts) \in Seq(TimerStates)
         /\ ts = <<>> => CancelTimer(ts) = <<>>
  BY DEF CancelTimer, TimerStates

\* What the handlers store in req_, write and service has the right type.
LEMMA RequestType ==
  /\ EmptyReq \in Requests
  /\ \A r \in Requests : MovedFrom(r) \in Requests /\ keep_alive(r) \in BOOLEAN
  BY DEF Requests, EmptyReq, MovedFrom, keep_alive

\* A response of the queue: its request and whether the connection stays open.
LEMMA ResponseType ==
  ASSUME NEW n \in Nat, NEW b \in BOOLEAN
  PROVE  [id |-> n, keep_alive |-> b] \in Responses
  BY DEF Responses

\* The write of a response, while it is pending and when it has ended.
LEMMA WriteType ==
  /\ NoWrite \in Writes /\ NoWrite.state = "none"
  /\ \A w \in Writes, s \in {"ok", "error"} :
       /\ [w EXCEPT !.state = s] \in Writes
       /\ [w EXCEPT !.state = s].state = s
       /\ [w EXCEPT !.state = s].id = w.id
  /\ \A w \in Writes : w.id \in Nat /\ w.keep_alive \in BOOLEAN
  /\ \A res \in Responses :
       [state |-> "pending", id |-> res.id, keep_alive |-> res.keep_alive] \in Writes
  BY DEF Writes, NoWrite, Responses

\* The answer the service owes, with the keep-alive of its request.
LEMMA ServiceType ==
  /\ Idle \in Services /\ Idle.state = "idle"
  /\ \A b \in BOOLEAN : [state |-> "deferred", keep_alive |-> b] \in Services
  /\ \A s \in Services : s.keep_alive \in BOOLEAN
  BY DEF Services, Idle

\* The queue after send_response, for a limit of at least one response.
LEMMA EnqueuedType ==
  ASSUME NEW q \in Seq(Responses), NEW res \in Responses
  PROVE  /\ Enqueued(q, res) \in Seq(Responses)
         /\ q = <<>> => /\ Len(Enqueued(q, res)) = 1
                        /\ Enqueued(q, res)[1] = res
  <1>1. CASE Len(q) >= MaxResponseQueueSize
    <2>1. q # <<>>
      BY <1>1, MaxResponseQueueSizeAssumption
    <2>2. Tail(q) \in Seq(Responses)
      BY <2>1, HeadTailProperties
    <2>3. QED
      BY <1>1, <2>1, <2>2, AppendProperties DEF Enqueued
  <1>2. CASE ~(Len(q) >= MaxResponseQueueSize)
    <2>1. Enqueued(q, res) = Append(q, res)
      BY <1>2 DEF Enqueued
    <2>2. q = <<>> => Len(q) = 0
      OBVIOUS
    <2>3. QED
      BY <2>1, <2>2, AppendProperties
  <1>3. QED
    BY <1>1, <1>2

\* The sequences the handlers start from, empty or not.
LEMMA SequenceTypes ==
  /\ <<>> \in Seq(Responses) /\ <<>> \in Seq(TimerStates) /\ <<>> \in Seq(Nat)
  /\ \A q \in Seq(Responses) :
       q # <<>> => Head(q) \in Responses /\ Tail(q) \in Seq(Responses)
  /\ \A ts \in Seq(TimerStates), t \in TimerStates :
       Append(ts, t) \in Seq(TimerStates)
  /\ \A w \in Seq(Nat), n \in Nat : Append(w, n) \in Seq(Nat)
  BY HeadTailProperties, AppendProperties

\* The initial state: nothing is queued, nothing was written.
LEMMA InitInv == Init => Inv
  <1> SUFFICES ASSUME Init PROVE Inv
    OBVIOUS
  <1>1. TypeOK
    BY RequestType, WriteType, ServiceType, SequenceTypes DEF Init, TypeOK
  <1>2. OneActivity /\ QueueInv /\ FlagInv /\ WireInv
    BY WriteType, ServiceType
    DEF Init, OneActivity, QueueInv, FlagInv, WireInv, AnsweredInOrder,
        Unanswered, Reading, Serving, Preparing, Writing, Finished
  <1>3. QED
    BY <1>1, <1>2 DEF Inv

\* Every step of the session, its environment and stop() preserves Inv.
LEMMA NextInv == Inv /\ [Next]_vars => Inv'
  <1> SUFFICES ASSUME Inv, [Next]_vars PROVE Inv'
    OBVIOUS
  <1>0. TypeOK /\ OneActivity /\ QueueInv /\ FlagInv /\ WireInv
    BY DEF Inv
  <1>1. CASE Run
    <2>1. TypeOK'
      BY <1>0, <1>1, RequestType
      DEF Run, do_read, TypeOK
    <2>2. OneActivity'
      BY <1>0, <1>1
      DEF Run, do_read, TypeOK, OneActivity, QueueInv, StrandFree, Reading,
          Serving, Preparing, Writing, Finished
    <2>3. QueueInv'
      BY <1>0, <1>1
      DEF Run, do_read, TypeOK, OneActivity, QueueInv, StrandFree, Reading,
          Serving, Preparing, Writing, Finished
    <2>4. FlagInv'
      BY <1>0, <1>1
      DEF Run, do_read, TypeOK, OneActivity, FlagInv, StrandFree, Reading,
          Serving, Preparing, Writing, Finished
    <2>5. WireInv'
      BY <1>0, <1>1
      DEF Run, do_read, TypeOK, OneActivity, QueueInv, WireInv,
          AnsweredInOrder, Unanswered, StrandFree, Reading, Serving,
          Preparing, Writing, Finished
    <2>6. QED
      BY <2>1, <2>2, <2>3, <2>4, <2>5 DEF Inv
  <1>2. CASE on_read_error
    <2>1. TypeOK'
      BY <1>0, <1>2, CancelTimerType
      DEF on_read_error, do_close, TypeOK
    <2>2. OneActivity'
      BY <1>0, <1>2
      DEF on_read_error, do_close, TypeOK, OneActivity, QueueInv,
          StrandFree, Reading, Serving, Preparing, Writing, Finished
    <2>3. QueueInv'
      BY <1>0, <1>2
      DEF on_read_error, do_close, TypeOK, OneActivity, QueueInv,
          StrandFree, Reading, Serving, Preparing, Writing, Finished
    <2>4. FlagInv'
      BY <1>0, <1>2, CancelTimerType
      DEF on_read_error, do_close, TypeOK, OneActivity, FlagInv, StrandFree,
          Reading, Serving, Preparing, Writing, Finished
    <2>5. WireInv'
      BY <1>0, <1>2
      DEF on_read_error, do_close, TypeOK, OneActivity, QueueInv, WireInv,
          AnsweredInOrder, Unanswered, StrandFree, Reading, Serving,
          Preparing, Writing, Finished
    <2>6. QED
      BY <2>1, <2>2, <2>3, <2>4, <2>5 DEF Inv
  <1>3. ASSUME NEW moved \in BOOLEAN, NEW keep \in BOOLEAN, handle_request_replies(moved, keep)
       PROVE  Inv'
    <2>1. TypeOK'
      BY <1>0, <1>3, RequestType, ResponseType, EnqueuedType
      DEF handle_request_replies, send_response, TypeOK
    <2>2. OneActivity'
      BY <1>0, <1>3
      DEF handle_request_replies, send_response, TypeOK, OneActivity,
          QueueInv, StrandFree, Reading, Serving, Preparing, Writing,
          Finished
    <2>3. QueueInv'
      <3> DEFINE res == [id |-> received, keep_alive |-> keep]
      <3>1. res \in Responses /\ res.id = received
        BY <1>0, ResponseType, ServiceType DEF TypeOK
      <3>2. /\ response_queue_ = <<>> /\ ~write_in_progress_
            /\ response_queue_' = Enqueued(response_queue_, res)
        BY <1>0, <1>3
        DEF handle_request_replies, send_response, QueueInv, Reading, Serving
      <3> HIDE DEF res
      <3>3. /\ Len(Enqueued(response_queue_, res)) = 1
            /\ Enqueued(response_queue_, res)[1] = res
        BY <1>0, <3>1, <3>2, EnqueuedType DEF TypeOK
      <3>4. Len(response_queue_') = 1 /\ response_queue_'[1].id = received
        BY <3>1, <3>2, <3>3
      <3>5. ~write_in_progress_' /\ ~Reading' /\ ~Serving' /\ ~Writing'
        BY <1>0, <1>3, <3>2, ServiceType
        DEF handle_request_replies, send_response, OneActivity, Reading, Serving, Writing
      <3>6. received' = received
        BY <1>3 DEF handle_request_replies
      <3>7. QED
        BY <3>4, <3>5, <3>6 DEF QueueInv
    <2>4. FlagInv'
      BY <1>0, <1>3, EnqueuedType
      DEF handle_request_replies, send_response, TypeOK, OneActivity,
          FlagInv, StrandFree, Reading, Serving, Preparing, Writing,
          Finished
    <2>5. WireInv'
      BY <1>0, <1>3, EnqueuedType
      DEF handle_request_replies, send_response, TypeOK, OneActivity,
          QueueInv, WireInv, AnsweredInOrder, Unanswered, StrandFree,
          Reading, Serving, Preparing, Writing, Finished
    <2>6. QED
      BY <2>1, <2>2, <2>3, <2>4, <2>5 DEF Inv
  <1>4. CASE handle_request_drops
    <2>1. TypeOK'
      BY <1>0, <1>4, RequestType, CancelTimerType
      DEF handle_request_drops, drop_request, do_read, do_close, TypeOK
    <2>2. OneActivity'
      BY <1>0, <1>4
      DEF handle_request_drops, drop_request, do_read, do_close, TypeOK,
          OneActivity, QueueInv, StrandFree, Reading, Serving, Preparing,
          Writing, Finished
    <2>3. QueueInv'
      BY <1>0, <1>4
      DEF handle_request_drops, drop_request, do_read, do_close, TypeOK,
          OneActivity, QueueInv, StrandFree, Reading, Serving, Preparing,
          Writing, Finished
    <2>4. FlagInv'
      BY <1>0, <1>4, CancelTimerType
      DEF handle_request_drops, drop_request, do_read, do_close, TypeOK,
          OneActivity, FlagInv, StrandFree, Reading, Serving, Preparing,
          Writing, Finished
    <2>5. WireInv'
      BY <1>0, <1>4
      DEF handle_request_drops, drop_request, do_read, do_close, TypeOK,
          OneActivity, QueueInv, WireInv, AnsweredInOrder, Unanswered,
          StrandFree, Reading, Serving, Preparing, Writing, Finished
    <2>6. QED
      BY <2>1, <2>2, <2>3, <2>4, <2>5 DEF Inv
  <1>5. CASE handle_request_defers
    <2>1. TypeOK'
      BY <1>0, <1>5, RequestType, ServiceType
      DEF handle_request_defers, TypeOK
    <2>2. OneActivity'
      BY <1>0, <1>5, ServiceType
      DEF handle_request_defers, TypeOK, OneActivity, QueueInv, StrandFree,
          Reading, Serving, Preparing, Writing, Finished
    <2>3. QueueInv'
      BY <1>0, <1>5, ServiceType
      DEF handle_request_defers, TypeOK, OneActivity, QueueInv, StrandFree,
          Reading, Serving, Preparing, Writing, Finished
    <2>4. FlagInv'
      BY <1>0, <1>5, ServiceType
      DEF handle_request_defers, TypeOK, OneActivity, FlagInv, StrandFree,
          Reading, Serving, Preparing, Writing, Finished
    <2>5. WireInv'
      BY <1>0, <1>5, ServiceType
      DEF handle_request_defers, TypeOK, OneActivity, QueueInv, WireInv,
          AnsweredInOrder, Unanswered, StrandFree, Reading, Serving,
          Preparing, Writing, Finished
    <2>6. QED
      BY <2>1, <2>2, <2>3, <2>4, <2>5 DEF Inv
  <1>6. CASE on_write_late
    <2>1. TypeOK'
      BY <1>0, <1>6, WriteType, CancelTimerType
      DEF on_write_late, do_close, TypeOK
    <2>2. OneActivity'
      BY <1>0, <1>6, WriteType
      DEF on_write_late, do_close, TypeOK, OneActivity, QueueInv,
          StrandFree, Reading, Serving, Preparing, Writing, Finished
    <2>3. QueueInv'
      BY <1>0, <1>6, WriteType
      DEF on_write_late, do_close, TypeOK, OneActivity, QueueInv,
          StrandFree, Reading, Serving, Preparing, Writing, Finished
    <2>4. FlagInv'
      BY <1>0, <1>6, WriteType, CancelTimerType
      DEF on_write_late, do_close, TypeOK, OneActivity, FlagInv, StrandFree,
          Reading, Serving, Preparing, Writing, Finished
    <2>5. WireInv'
      BY <1>0, <1>6, WriteType
      DEF on_write_late, do_close, TypeOK, OneActivity, QueueInv, WireInv,
          AnsweredInOrder, Unanswered, StrandFree, Reading, Serving,
          Preparing, Writing, Finished
    <2>6. QED
      BY <2>1, <2>2, <2>3, <2>4, <2>5 DEF Inv
  <1>7. CASE on_write_error
    <2>1. TypeOK'
      BY <1>0, <1>7, WriteType, CancelTimerType, SequenceTypes
      DEF on_write_error, do_close, TypeOK
    <2>2. OneActivity'
      BY <1>0, <1>7, WriteType
      DEF on_write_error, do_close, TypeOK, OneActivity, QueueInv,
          StrandFree, Reading, Serving, Preparing, Writing, Finished
    <2>3. QueueInv'
      BY <1>0, <1>7, WriteType
      DEF on_write_error, do_close, TypeOK, OneActivity, QueueInv,
          StrandFree, Reading, Serving, Preparing, Writing, Finished
    <2>4. FlagInv'
      BY <1>0, <1>7, WriteType, CancelTimerType
      DEF on_write_error, do_close, TypeOK, OneActivity, FlagInv,
          StrandFree, Reading, Serving, Preparing, Writing, Finished
    <2>5. WireInv'
      BY <1>0, <1>7, WriteType
      DEF on_write_error, do_close, TypeOK, OneActivity, QueueInv, WireInv,
          AnsweredInOrder, Unanswered, StrandFree, Reading, Serving,
          Preparing, Writing, Finished
    <2>6. QED
      BY <2>1, <2>2, <2>3, <2>4, <2>5 DEF Inv
  <1>8. CASE on_write_ok
    <2>a. Tail(response_queue_) \in Seq(Responses)
      <3>1. Writing /\ response_queue_ # <<>>
        BY <1>0, <1>8 DEF on_write_ok, QueueInv, Writing
      <3>2. QED
        BY <1>0, <3>1, HeadTailProperties DEF TypeOK
    <2>1. TypeOK'
      BY <1>0, <1>8, <2>a, RequestType, WriteType, CancelTimerType, ZenonT(60)
      DEF on_write_ok, do_close, do_read, TypeOK
    <2>2. OneActivity'
      BY <1>0, <1>8, WriteType
      DEF on_write_ok, do_close, do_read, TypeOK, OneActivity, QueueInv,
          StrandFree, Reading, Serving, Preparing, Writing, Finished
    <2>3. QueueInv'
      BY <1>0, <1>8, WriteType
      DEF on_write_ok, do_close, do_read, TypeOK, OneActivity, QueueInv,
          StrandFree, Reading, Serving, Preparing, Writing, Finished
    <2>4. FlagInv'
      BY <1>0, <1>8, WriteType, CancelTimerType
      DEF on_write_ok, do_close, do_read, TypeOK, OneActivity, FlagInv,
          StrandFree, Reading, Serving, Preparing, Writing, Finished
    <2>5. WireInv'
      BY <1>0, <1>8, WriteType
      DEF on_write_ok, do_close, do_read, TypeOK, OneActivity, QueueInv,
          WireInv, AnsweredInOrder, Unanswered, StrandFree, Reading,
          Serving, Preparing, Writing, Finished
    <2>6. QED
      BY <2>1, <2>2, <2>3, <2>4, <2>5 DEF Inv
  <1>9. ASSUME NEW n \in DOMAIN timers, diagnostic_write_timer_handler(n)
       PROVE  Inv'
    <2>1. TypeOK'
      BY <1>0, <1>9, WriteType
      DEF diagnostic_write_timer_handler, TypeOK, TimerStates
    <2>2. OneActivity'
      BY <1>0, <1>9, WriteType
      DEF diagnostic_write_timer_handler, TypeOK, OneActivity, QueueInv,
          StrandFree, Reading, Serving, Preparing, Writing, Finished
    <2>3. QueueInv'
      BY <1>0, <1>9, WriteType
      DEF diagnostic_write_timer_handler, TypeOK, OneActivity, QueueInv,
          StrandFree, Reading, Serving, Preparing, Writing, Finished
    <2>4. FlagInv'
      BY <1>0, <1>9, WriteType
      DEF diagnostic_write_timer_handler, TypeOK, OneActivity, FlagInv,
          StrandFree, Reading, Serving, Preparing, Writing, Finished
    <2>5. WireInv'
      BY <1>0, <1>9, WriteType
      DEF diagnostic_write_timer_handler, TypeOK, OneActivity, QueueInv,
          WireInv, AnsweredInOrder, Unanswered, StrandFree, Reading,
          Serving, Preparing, Writing, Finished
    <2>6. QED
      BY <2>1, <2>2, <2>3, <2>4, <2>5 DEF Inv
  <1>10. CASE on_finish
    <2>1. TypeOK'
      BY <1>0, <1>10
      DEF on_finish, TypeOK
    <2>2. OneActivity'
      BY <1>0, <1>10
      DEF on_finish, TypeOK, OneActivity, QueueInv, StrandFree, Reading,
          Serving, Preparing, Writing, Finished
    <2>3. QueueInv'
      BY <1>0, <1>10
      DEF on_finish, TypeOK, OneActivity, QueueInv, StrandFree, Reading,
          Serving, Preparing, Writing, Finished
    <2>4. FlagInv'
      BY <1>0, <1>10
      DEF on_finish, TypeOK, OneActivity, FlagInv, StrandFree, Reading,
          Serving, Preparing, Writing, Finished
    <2>5. WireInv'
      BY <1>0, <1>10
      DEF on_finish, TypeOK, OneActivity, QueueInv, WireInv,
          AnsweredInOrder, Unanswered, StrandFree, Reading, Serving,
          Preparing, Writing, Finished
    <2>6. QED
      BY <2>1, <2>2, <2>3, <2>4, <2>5 DEF Inv
  <1>11. CASE do_write_check
    <2>1. TypeOK'
      BY <1>0, <1>11, WriteType, CancelTimerType, SequenceTypes
      DEF do_write_check, do_close, TypeOK
    <2>2. OneActivity'
      BY <1>0, <1>11, WriteType
      DEF do_write_check, do_close, TypeOK, OneActivity, QueueInv,
          StrandFree, Reading, Serving, Preparing, Writing, Finished
    <2>3. QueueInv'
      BY <1>0, <1>11, WriteType
      DEF do_write_check, do_close, TypeOK, OneActivity, QueueInv,
          StrandFree, Reading, Serving, Preparing, Writing, Finished
    <2>4. FlagInv'
      BY <1>0, <1>11, WriteType, CancelTimerType
      DEF do_write_check, do_close, TypeOK, OneActivity, FlagInv,
          StrandFree, Reading, Serving, Preparing, Writing, Finished
    <2>5. WireInv'
      BY <1>0, <1>11, WriteType
      DEF do_write_check, do_close, TypeOK, OneActivity, QueueInv, WireInv,
          AnsweredInOrder, Unanswered, StrandFree, Reading, Serving,
          Preparing, Writing, Finished
    <2>6. QED
      BY <2>1, <2>2, <2>3, <2>4, <2>5 DEF Inv
  <1>12. CASE do_write_start
    <2>a. Head(response_queue_) \in Responses
      <3>0. Preparing
        BY <1>12 DEF do_write_start, Preparing
      <3>1. response_queue_ # <<>>
        BY <1>0, <3>0 DEF QueueInv
      <3>2. QED
        BY <1>0, <3>1, HeadTailProperties DEF TypeOK
    <2>b. timers' \in Seq(TimerStates)
      <3>1. CancelTimer(timers) \in Seq(TimerStates)
        BY <1>0, CancelTimerType DEF TypeOK
      <3>2. "waiting" \in TimerStates
        BY DEF TimerStates
      <3>3. QED
        BY <1>12, <3>1, <3>2, SequenceTypes DEF do_write_start
    <2>1. TypeOK'
      BY <1>0, <1>12, <2>a, <2>b, WriteType DEF do_write_start, TypeOK
    <2>2. OneActivity'
      BY <1>0, <1>12, WriteType
      DEF do_write_start, TypeOK, OneActivity, QueueInv, StrandFree,
          Reading, Serving, Preparing, Writing, Finished
    <2>3. QueueInv'
      BY <1>0, <1>12, WriteType
      DEF do_write_start, TypeOK, OneActivity, QueueInv, StrandFree,
          Reading, Serving, Preparing, Writing, Finished
    <2>4. FlagInv'
      BY <1>0, <1>12, WriteType, CancelTimerType
      DEF do_write_start, TypeOK, OneActivity, FlagInv, StrandFree, Reading,
          Serving, Preparing, Writing, Finished
    <2>5. WireInv'
      BY <1>0, <1>12, WriteType
      DEF do_write_start, TypeOK, OneActivity, QueueInv, WireInv,
          AnsweredInOrder, Unanswered, StrandFree, Reading, Serving,
          Preparing, Writing, Finished
    <2>6. QED
      BY <2>1, <2>2, <2>3, <2>4, <2>5 DEF Inv
  <1>13. CASE service_replies
    <2>1. TypeOK'
      BY <1>0, <1>13, ServiceType, ResponseType, EnqueuedType
      DEF service_replies, send_response, TypeOK
    <2>2. OneActivity'
      BY <1>0, <1>13, ServiceType
      DEF service_replies, send_response, TypeOK, OneActivity, QueueInv,
          StrandFree, Reading, Serving, Preparing, Writing, Finished
    <2>3. QueueInv'
      <3> DEFINE res == [id |-> received, keep_alive |-> service.keep_alive]
      <3>1. res \in Responses /\ res.id = received
        BY <1>0, ResponseType, ServiceType DEF TypeOK
      <3>2. /\ response_queue_ = <<>> /\ ~write_in_progress_
            /\ response_queue_' = Enqueued(response_queue_, res)
        BY <1>0, <1>13
        DEF service_replies, send_response, QueueInv, Reading, Serving
      <3> HIDE DEF res
      <3>3. /\ Len(Enqueued(response_queue_, res)) = 1
            /\ Enqueued(response_queue_, res)[1] = res
        BY <1>0, <3>1, <3>2, EnqueuedType DEF TypeOK
      <3>4. Len(response_queue_') = 1 /\ response_queue_'[1].id = received
        BY <3>1, <3>2, <3>3
      <3>5. ~write_in_progress_' /\ ~Reading' /\ ~Serving' /\ ~Writing'
        BY <1>0, <1>13, <3>2, ServiceType
        DEF service_replies, send_response, OneActivity, Reading, Serving, Writing
      <3>6. received' = received
        BY <1>13 DEF service_replies
      <3>7. QED
        BY <3>4, <3>5, <3>6 DEF QueueInv
    <2>4. FlagInv'
      BY <1>0, <1>13, ServiceType, EnqueuedType
      DEF service_replies, send_response, TypeOK, OneActivity, FlagInv,
          StrandFree, Reading, Serving, Preparing, Writing, Finished
    <2>5. WireInv'
      BY <1>0, <1>13, ServiceType, EnqueuedType
      DEF service_replies, send_response, TypeOK, OneActivity, QueueInv,
          WireInv, AnsweredInOrder, Unanswered, StrandFree, Reading,
          Serving, Preparing, Writing, Finished
    <2>6. QED
      BY <2>1, <2>2, <2>3, <2>4, <2>5 DEF Inv
  <1>14. CASE stop_flags
    <2>1. TypeOK'
      BY <1>0, <1>14, CancelTimerType
      DEF stop_flags, TypeOK
    <2>2. OneActivity'
      BY <1>0, <1>14
      DEF stop_flags, TypeOK, OneActivity, QueueInv, StrandFree, Reading,
          Serving, Preparing, Writing, Finished
    <2>3. QueueInv'
      BY <1>0, <1>14
      DEF stop_flags, TypeOK, OneActivity, QueueInv, StrandFree, Reading,
          Serving, Preparing, Writing, Finished
    <2>4. FlagInv'
      BY <1>0, <1>14, CancelTimerType
      DEF stop_flags, TypeOK, OneActivity, FlagInv, StrandFree, Reading,
          Serving, Preparing, Writing, Finished
    <2>5. WireInv'
      BY <1>0, <1>14
      DEF stop_flags, TypeOK, OneActivity, QueueInv, WireInv,
          AnsweredInOrder, Unanswered, StrandFree, Reading, Serving,
          Preparing, Writing, Finished
    <2>6. QED
      BY <2>1, <2>2, <2>3, <2>4, <2>5 DEF Inv
  <1>15. CASE stop_closes
    <2>1. TypeOK'
      BY <1>0, <1>15
      DEF stop_closes, TypeOK
    <2>2. OneActivity'
      BY <1>0, <1>15
      DEF stop_closes, TypeOK, OneActivity, QueueInv, StrandFree, Reading,
          Serving, Preparing, Writing, Finished
    <2>3. QueueInv'
      BY <1>0, <1>15
      DEF stop_closes, TypeOK, OneActivity, QueueInv, StrandFree, Reading,
          Serving, Preparing, Writing, Finished
    <2>4. FlagInv'
      BY <1>0, <1>15
      DEF stop_closes, TypeOK, OneActivity, FlagInv, StrandFree, Reading,
          Serving, Preparing, Writing, Finished
    <2>5. WireInv'
      BY <1>0, <1>15
      DEF stop_closes, TypeOK, OneActivity, QueueInv, WireInv,
          AnsweredInOrder, Unanswered, StrandFree, Reading, Serving,
          Preparing, Writing, Finished
    <2>6. QED
      BY <2>1, <2>2, <2>3, <2>4, <2>5 DEF Inv
  <1>16. ASSUME NEW r \in Requests, read_delivers(r)
       PROVE  Inv'
    <2>1. TypeOK'
      BY <1>0, <1>16
      DEF read_delivers, TypeOK
    <2>2. OneActivity'
      BY <1>0, <1>16
      DEF read_delivers, TypeOK, OneActivity, QueueInv, StrandFree, Reading,
          Serving, Preparing, Writing, Finished
    <2>3. QueueInv'
      BY <1>0, <1>16
      DEF read_delivers, TypeOK, OneActivity, QueueInv, StrandFree, Reading,
          Serving, Preparing, Writing, Finished
    <2>4. FlagInv'
      BY <1>0, <1>16
      DEF read_delivers, TypeOK, OneActivity, FlagInv, StrandFree, Reading,
          Serving, Preparing, Writing, Finished
    <2>5. WireInv'
      BY <1>0, <1>16
      DEF read_delivers, TypeOK, OneActivity, QueueInv, WireInv,
          AnsweredInOrder, Unanswered, StrandFree, Reading, Serving,
          Preparing, Writing, Finished
    <2>6. QED
      BY <2>1, <2>2, <2>3, <2>4, <2>5 DEF Inv
  <1>17. CASE read_fails
    <2>1. TypeOK'
      BY <1>0, <1>17
      DEF read_fails, TypeOK
    <2>2. OneActivity'
      BY <1>0, <1>17
      DEF read_fails, TypeOK, OneActivity, QueueInv, StrandFree, Reading,
          Serving, Preparing, Writing, Finished
    <2>3. QueueInv'
      BY <1>0, <1>17
      DEF read_fails, TypeOK, OneActivity, QueueInv, StrandFree, Reading,
          Serving, Preparing, Writing, Finished
    <2>4. FlagInv'
      BY <1>0, <1>17
      DEF read_fails, TypeOK, OneActivity, FlagInv, StrandFree, Reading,
          Serving, Preparing, Writing, Finished
    <2>5. WireInv'
      BY <1>0, <1>17
      DEF read_fails, TypeOK, OneActivity, QueueInv, WireInv,
          AnsweredInOrder, Unanswered, StrandFree, Reading, Serving,
          Preparing, Writing, Finished
    <2>6. QED
      BY <2>1, <2>2, <2>3, <2>4, <2>5 DEF Inv
  <1>18. CASE write_delivers
    <2>1. TypeOK'
      BY <1>0, <1>18, WriteType, SequenceTypes, ZenonT(60)
      DEF write_delivers, TypeOK
    <2>2. OneActivity'
      BY <1>0, <1>18, WriteType
      DEF write_delivers, TypeOK, OneActivity, QueueInv, StrandFree,
          Reading, Serving, Preparing, Writing, Finished
    <2>3. QueueInv'
      BY <1>0, <1>18, WriteType
      DEF write_delivers, TypeOK, OneActivity, QueueInv, StrandFree,
          Reading, Serving, Preparing, Writing, Finished
    <2>4. FlagInv'
      BY <1>0, <1>18, WriteType
      DEF write_delivers, TypeOK, OneActivity, FlagInv, StrandFree, Reading,
          Serving, Preparing, Writing, Finished
    <2>5. WireInv'
      BY <1>0, <1>18, WriteType
      DEF write_delivers, TypeOK, OneActivity, QueueInv, WireInv,
          AnsweredInOrder, Unanswered, StrandFree, Reading, Serving,
          Preparing, Writing, Finished
    <2>6. QED
      BY <2>1, <2>2, <2>3, <2>4, <2>5 DEF Inv
  <1>19. CASE write_fails
    <2>1. TypeOK'
      BY <1>0, <1>19, WriteType, ZenonT(60)
      DEF write_fails, TypeOK
    <2>2. OneActivity'
      BY <1>0, <1>19, WriteType
      DEF write_fails, TypeOK, OneActivity, QueueInv, StrandFree, Reading,
          Serving, Preparing, Writing, Finished
    <2>3. QueueInv'
      BY <1>0, <1>19, WriteType
      DEF write_fails, TypeOK, OneActivity, QueueInv, StrandFree, Reading,
          Serving, Preparing, Writing, Finished
    <2>4. FlagInv'
      BY <1>0, <1>19, WriteType
      DEF write_fails, TypeOK, OneActivity, FlagInv, StrandFree, Reading,
          Serving, Preparing, Writing, Finished
    <2>5. WireInv'
      BY <1>0, <1>19, WriteType
      DEF write_fails, TypeOK, OneActivity, QueueInv, WireInv,
          AnsweredInOrder, Unanswered, StrandFree, Reading, Serving,
          Preparing, Writing, Finished
    <2>6. QED
      BY <2>1, <2>2, <2>3, <2>4, <2>5 DEF Inv
  <1>20. ASSUME NEW n \in DOMAIN timers, timer_expires(n)
       PROVE  Inv'
    <2>1. TypeOK'
      BY <1>0, <1>20
      DEF timer_expires, TypeOK, TimerStates
    <2>2. OneActivity'
      BY <1>0, <1>20
      DEF timer_expires, TypeOK, OneActivity, QueueInv, StrandFree, Reading,
          Serving, Preparing, Writing, Finished
    <2>3. QueueInv'
      BY <1>0, <1>20
      DEF timer_expires, TypeOK, OneActivity, QueueInv, StrandFree, Reading,
          Serving, Preparing, Writing, Finished
    <2>4. FlagInv'
      BY <1>0, <1>20
      DEF timer_expires, TypeOK, OneActivity, FlagInv, StrandFree, Reading,
          Serving, Preparing, Writing, Finished
    <2>5. WireInv'
      BY <1>0, <1>20
      DEF timer_expires, TypeOK, OneActivity, QueueInv, WireInv,
          AnsweredInOrder, Unanswered, StrandFree, Reading, Serving,
          Preparing, Writing, Finished
    <2>6. QED
      BY <2>1, <2>2, <2>3, <2>4, <2>5 DEF Inv
  <1>21. CASE UNCHANGED vars
    BY <1>0, <1>21
    DEF vars, Inv, TypeOK, OneActivity, QueueInv, FlagInv, WireInv,
        AnsweredInOrder, Unanswered, Reading, Serving, Preparing, Writing,
        Finished
  <1>22. QED
    BY <1>1, <1>2, <1>3, <1>4, <1>5, <1>6, <1>7, <1>8, <1>9, <1>10, <1>11,
       <1>12, <1>13, <1>14, <1>15, <1>16, <1>17, <1>18, <1>19, <1>20, <1>21
    DEF Next, Handler, Environment, Ended

-----------------------------------------------------------------------------
\* The inductive invariant holds in every state.
LEMMA SpecInv == Spec => []Inv
  BY InitInv, NextInv, PTL DEF Spec

\* The variables of the session always have their types.
THEOREM TypeCorrect == Spec => []TypeOK
  <1>1. Inv => TypeOK
    BY DEF Inv
  <1>2. QED
    BY <1>1, SpecInv, PTL

\* The session never does two things at once, and never none before it has
\* finished: handlers on different strands cannot meet in its state.
THEOREM SessionDoesOneThing == Spec => []OneActivity
  <1>1. Inv => OneActivity
    BY DEF Inv
  <1>2. QED
    BY <1>1, SpecInv, PTL

\* Whatever max_response_queue_size is, send_response never discards a
\* response.
THEOREM QueueIsNeverShed == Spec => []QueueNeverSheds
  <1>1. Inv => QueueNeverSheds
    BY DEF Inv, QueueInv, QueueNeverSheds
  <1>2. QED
    BY <1>1, SpecInv, PTL

\* Every request is answered at most once, in the order of arrival.
THEOREM AnswersAreInOrder == Spec => []AnsweredInOrder
  <1>1. Inv => AnsweredInOrder
    BY DEF Inv, WireInv
  <1>2. QED
    BY <1>1, SpecInv, PTL

\* The diagnostic timer closes the socket only while a write is outstanding,
\* although its handler may run long after the write it was started for.
THEOREM TimerActsOnlyDuringWrites == Spec => TimerClosesOnlyDuringWrite
  <1>1. Inv /\ [Next]_vars =>
          [\A n \in DOMAIN timers : TimerCloses(n) => Writing]_vars
    <2> SUFFICES ASSUME Inv, [Next]_vars, NEW n \in DOMAIN timers, TimerCloses(n)
                 PROVE  Writing
      OBVIOUS
    <2>1. socket # "closed" /\ socket' = "closed"
      BY DEF TimerCloses
    <2>2. timers # <<>> /\ timers[n] # timers'[n]
      BY DEF TimerCloses, Inv, TypeOK
    <2>3. CASE \E m \in DOMAIN timers : diagnostic_write_timer_handler(m)
      BY <2>1, <2>2, <2>3
      DEF diagnostic_write_timer_handler, Inv, FlagInv
    <2>4. CASE ~\E m \in DOMAIN timers : diagnostic_write_timer_handler(m)
      <3>1. ~(socket' = "closed" /\ \E m \in DOMAIN timers : timers'[m] = "ran" /\ timers[m] = "expired")
        BY <2>1, <2>4
        DEF Next, Handler, Environment, Ended, Run, on_read_error,
            handle_request_replies, handle_request_drops, handle_request_defers,
            on_write_late, on_write_error, on_write_ok, on_finish,
            do_write_check, do_write_start, service_replies, stop_flags,
            stop_closes, read_delivers, read_fails, write_delivers, write_fails,
            timer_expires, do_close, drop_request, send_response, vars
      <3>2. QED
        BY <2>1, <3>1 DEF TimerCloses
    <2>5. QED
      BY <2>3, <2>4
  <1>2. QED
    BY <1>1, SpecInv, PTL DEF Spec, TimerClosesOnlyDuringWrite
=============================================================================
