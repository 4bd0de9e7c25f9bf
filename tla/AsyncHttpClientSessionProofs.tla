-------------------- MODULE AsyncHttpClientSessionProofs --------------------
(***************************************************************************)
(* The safety of the backend calls for any set of calls and of answers:    *)
(* every call calls back exactly once, and the session implements          *)
(* BackendCall.  The types rest on one fact more, EcInv: only a read can   *)
(* meet the end of the stream, so the other handlers never pass that code  *)
(* on to the callback.                                                     *)
(***************************************************************************)
EXTENDS AsyncHttpClientSession, SequenceTheorems, TLAPS

EcInv ==
  \A s \in Sessions :
    op[s] \in {"resolve", "connect", "write"} => ec[s] # "end_of_stream"

ClientInv == ClientTypeOK /\ EcInv /\ CompletesExactlyOnce

\* What a step leaves as a socket and a timer.
SocketTimerTypeOK ==
  /\ socket \in [Sessions -> {"closed", "open"}]
  /\ timer_ \in [Sessions -> {"idle", "waiting", "expired", "aborted", "ran"}]

-----------------------------------------------------------------------------
\* A step of the system is a step of one call, or changes nothing.
LEMMA StepOfOneCall ==
  ASSUME [ClientNext]_clientVars
  PROVE  \/ \E s \in Sessions :
              \/ run(s)
              \/ on_resolve(s)
              \/ on_connect(s)
              \/ on_write(s)
              \/ on_read(s)
              \/ on_timeout(s)
              \/ cancel(s)
              \/ resolve_ends(s)
              \/ connect_ends(s)
              \/ write_ends(s)
              \/ read_ends(s)
              \/ op_aborts(s)
              \/ timer_expires(s)
         \/ UNCHANGED clientVars
  BY DEF ClientNext, ClientHandler, ClientEnvironment, Ended

\* The history of a callback grows by one outcome.
LEMMA OutcomeAppended ==
  ASSUME NEW h \in Seq(Outcomes), NEW e \in {"ok"} \cup Errors,
         NEW a \in Answers \cup {Empty}
  PROVE  /\ [ec |-> e, answer |-> a] \in Outcomes
         /\ Append(h, [ec |-> e, answer |-> a]) \in Seq(Outcomes)
         /\ Len(Append(h, [ec |-> e, answer |-> a])) = Len(h) + 1
         /\ Len(h) = 0 => Append(h, [ec |-> e, answer |-> a])
                            = <<[ec |-> e, answer |-> a]>>
  <1> DEFINE o == [ec |-> e, answer |-> a]
  <1>1. o \in Outcomes
    BY DEF Outcomes
  <1>2. Append(h, o) \in Seq(Outcomes) /\ Len(Append(h, o)) = Len(h) + 1
    BY <1>1, AppendProperties
  <1>3. ASSUME Len(h) = 0 PROVE Append(h, o) = <<o>>
    <2>1. h = <<>>
      BY <1>3, EmptySeq
    <2>2. QED
      BY <2>1
  <1>4. QED
    BY <1>1, <1>2, <1>3

\* A handler that starts the next operation of the chain.
LEMMA BeginPreserves ==
  ASSUME ClientInv, NEW s \in Sessions, op[s] # "none",
         NEW o \in Ops \ {"none"}, Begin(s, o), SocketTimerTypeOK',
         UNCHANGED <<res_, cancelled>>
  PROVE  ClientInv'
  <1>1. ClientTypeOK'
    BY DEF ClientInv, ClientTypeOK, Begin, SocketTimerTypeOK
  <1>2. EcInv'
    BY DEF ClientInv, ClientTypeOK, EcInv, Begin
  <1>3. CompletesExactlyOnce'
    BY DEF ClientInv, ClientTypeOK, CompletesExactlyOnce, Begin
  <1>4. QED
    BY <1>1, <1>2, <1>3 DEF ClientInv

\* A handler that ends the chain with a code the callback may see.
LEMMA CompletePreserves ==
  ASSUME ClientInv, NEW s \in Sessions, op[s] # "none",
         NEW e \in {"ok"} \cup Errors, NEW a \in Answers \cup {Empty},
         Complete(s, e, a), SocketTimerTypeOK', UNCHANGED <<res_, cancelled>>
  PROVE  ClientInv'
  <1> DEFINE h == Append(on_complete_[s], [ec |-> e, answer |-> a])
  <1>1. on_complete_[s] \in Seq(Outcomes) /\ Len(on_complete_[s]) = 0
    BY DEF ClientInv, ClientTypeOK, CompletesExactlyOnce
  <1>2. h \in Seq(Outcomes) /\ Len(h) = 1
    BY <1>1, OutcomeAppended
  <1>3. /\ op' = [op EXCEPT ![s] = "none"] /\ ec' = ec
        /\ on_complete_' = [on_complete_ EXCEPT ![s] = h]
    BY DEF Complete
  <1> HIDE DEF h
  <1>4. ClientTypeOK'
    BY <1>2, <1>3 DEF ClientInv, ClientTypeOK, SocketTimerTypeOK, Ops
  <1>5. EcInv'
    BY <1>3 DEF ClientInv, ClientTypeOK, EcInv
  <1>6. CompletesExactlyOnce'
    BY <1>2, <1>3 DEF ClientInv, ClientTypeOK, CompletesExactlyOnce
  <1>7. QED
    BY <1>4, <1>5, <1>6 DEF ClientInv

\* The end of an asynchronous operation, before its handler runs.
LEMMA ResultPreserves ==
  ASSUME ClientInv, NEW s \in Sessions,
         NEW e \in {"ok", "end_of_stream"} \cup Errors,
         NEW a \in Answers \cup {Empty},
         op[s] = "read" \/ e # "end_of_stream", Result(s, e, a)
  PROVE  ClientInv'
  <1>1. ClientTypeOK'
    BY DEF ClientInv, ClientTypeOK, Result, Errors
  <1>2. EcInv'
    BY DEF ClientInv, ClientTypeOK, EcInv, Result
  <1>3. CompletesExactlyOnce'
    BY DEF ClientInv, ClientTypeOK, CompletesExactlyOnce, Result
  <1>4. QED
    BY <1>1, <1>2, <1>3 DEF ClientInv

\* Nothing has been started, nothing has been called back.
LEMMA InitClientInv == ClientInit => ClientInv
  <1> SUFFICES ASSUME ClientInit PROVE ClientInv
    OBVIOUS
  <1>1. ClientTypeOK
    BY EmptySeq DEF ClientInit, ClientTypeOK, Ops
  <1>2. EcInv /\ CompletesExactlyOnce
    BY DEF ClientInit, EcInv, CompletesExactlyOnce
  <1>3. QED
    BY <1>1, <1>2 DEF ClientInv

\* Every handler, the timer, cancel() and the environment preserve ClientInv.
LEMMA NextClientInv == ClientInv /\ [ClientNext]_clientVars => ClientInv'
  <1> SUFFICES ASSUME ClientInv, [ClientNext]_clientVars PROVE ClientInv'
    OBVIOUS
  <1>1. ASSUME NEW s \in Sessions, run(s) PROVE ClientInv'
    <2>1. SocketTimerTypeOK' /\ op[s] # "none" /\ "resolve" \in Ops \ {"none"}
      BY <1>1 DEF run, ClientInv, ClientTypeOK, SocketTimerTypeOK, Ops
    <2>2. QED
      BY <1>1, <2>1, BeginPreserves DEF run
  <1>2. ASSUME NEW s \in Sessions, on_resolve(s) PROVE ClientInv'
    <2>1. SocketTimerTypeOK' /\ op[s] # "none" /\ "connect" \in Ops \ {"none"}
      BY <1>2 DEF on_resolve, ClientInv, ClientTypeOK, SocketTimerTypeOK, Ops
    <2>2. CASE ec[s] = "ok"
      BY <1>2, <2>1, <2>2, BeginPreserves DEF on_resolve
    <2>3. CASE ec[s] # "ok"
      <3>1. ec[s] \in Errors
        BY <1>2, <2>3 DEF on_resolve, ClientInv, ClientTypeOK, EcInv
      <3>2. QED
        BY <1>2, <2>1, <2>3, <3>1, CompletePreserves DEF on_resolve
    <2>4. QED
      BY <2>2, <2>3
  <1>3. ASSUME NEW s \in Sessions, on_connect(s) PROVE ClientInv'
    <2>1. SocketTimerTypeOK' /\ op[s] # "none" /\ "write" \in Ops \ {"none"}
      BY <1>3 DEF on_connect, ClientInv, ClientTypeOK, SocketTimerTypeOK, Ops
    <2>2. CASE ec[s] = "ok"
      BY <1>3, <2>1, <2>2, BeginPreserves DEF on_connect
    <2>3. CASE ec[s] # "ok"
      <3>1. ec[s] \in Errors
        BY <1>3, <2>3 DEF on_connect, ClientInv, ClientTypeOK, EcInv
      <3>2. QED
        BY <1>3, <2>1, <2>3, <3>1, CompletePreserves DEF on_connect
    <2>4. QED
      BY <2>2, <2>3
  <1>4. ASSUME NEW s \in Sessions, on_write(s) PROVE ClientInv'
    <2>1. SocketTimerTypeOK' /\ op[s] # "none" /\ "read" \in Ops \ {"none"}
      BY <1>4 DEF on_write, ClientInv, ClientTypeOK, SocketTimerTypeOK, Ops
    <2>2. CASE ec[s] = "ok"
      BY <1>4, <2>1, <2>2, BeginPreserves DEF on_write
    <2>3. CASE ec[s] # "ok"
      <3>1. ec[s] \in Errors
        BY <1>4, <2>3 DEF on_write, ClientInv, ClientTypeOK, EcInv
      <3>2. QED
        BY <1>4, <2>1, <2>3, <3>1, CompletePreserves DEF on_write
    <2>4. QED
      BY <2>2, <2>3
  <1>5. ASSUME NEW s \in Sessions, on_read(s) PROVE ClientInv'
    <2> DEFINE e == IF ec[s] = "end_of_stream" THEN "ok" ELSE ec[s]
    <2>1. SocketTimerTypeOK' /\ op[s] # "none"
      BY <1>5
      DEF on_read, CancelTimer, ClientInv, ClientTypeOK, SocketTimerTypeOK
    <2>2. e \in {"ok"} \cup Errors /\ res_[s] \in Answers \cup {Empty}
      BY <1>5 DEF on_read, ClientInv, ClientTypeOK
    <2>3. Complete(s, e, res_[s]) /\ UNCHANGED <<res_, cancelled>>
      BY <1>5 DEF on_read
    <2> HIDE DEF e
    <2>4. QED
      BY <2>1, <2>2, <2>3, CompletePreserves
  <1>6. ASSUME NEW s \in Sessions, on_timeout(s) PROVE ClientInv'
    <2>1. ClientTypeOK'
      BY <1>6 DEF on_timeout, TimerEc, ClientInv, ClientTypeOK
    <2>2. EcInv' /\ CompletesExactlyOnce'
      BY <1>6 DEF on_timeout, TimerEc, ClientInv, EcInv, CompletesExactlyOnce
    <2>3. QED
      BY <2>1, <2>2 DEF ClientInv
  <1>7. ASSUME NEW s \in Sessions, cancel(s) PROVE ClientInv'
    <2>1. ClientTypeOK'
      BY <1>7 DEF cancel, CancelTimer, ClientInv, ClientTypeOK
    <2>2. EcInv' /\ CompletesExactlyOnce'
      BY <1>7 DEF cancel, CancelTimer, ClientInv, EcInv, CompletesExactlyOnce
    <2>3. QED
      BY <2>1, <2>2 DEF ClientInv
  <1>8. ASSUME NEW s \in Sessions, resolve_ends(s) PROVE ClientInv'
    BY <1>8, ResultPreserves DEF resolve_ends, Errors
  <1>9. ASSUME NEW s \in Sessions, connect_ends(s) PROVE ClientInv'
    BY <1>9, ResultPreserves DEF connect_ends, Errors
  <1>10. ASSUME NEW s \in Sessions, write_ends(s) PROVE ClientInv'
    BY <1>10, ResultPreserves DEF write_ends, Errors
  <1>11. ASSUME NEW s \in Sessions, read_ends(s) PROVE ClientInv'
    <2>1. PICK e \in {"ok", "end_of_stream"} \cup Errors,
               a \in Answers \cup {Empty} : Result(s, e, a)
      BY <1>11 DEF read_ends, Errors
    <2>2. QED
      BY <1>11, <2>1, ResultPreserves DEF read_ends
  <1>12. ASSUME NEW s \in Sessions, op_aborts(s) PROVE ClientInv'
    BY <1>12, ResultPreserves DEF op_aborts, Errors
  <1>13. ASSUME NEW s \in Sessions, timer_expires(s) PROVE ClientInv'
    <2>1. ClientTypeOK'
      BY <1>13 DEF timer_expires, ClientInv, ClientTypeOK
    <2>2. EcInv' /\ CompletesExactlyOnce'
      BY <1>13 DEF timer_expires, ClientInv, EcInv, CompletesExactlyOnce
    <2>3. QED
      BY <2>1, <2>2 DEF ClientInv
  <1>14. CASE UNCHANGED clientVars
    BY <1>14
    DEF clientVars, ClientInv, ClientTypeOK, EcInv, CompletesExactlyOnce
  <1>15. QED
    BY <1>1, <1>2, <1>3, <1>4, <1>5,
       <1>6, <1>7, <1>8, <1>9, <1>10, <1>11, <1>12, <1>13, <1>14, StepOfOneCall

-----------------------------------------------------------------------------
\* The invariant holds throughout.
THEOREM ClientInvariant == ClientSpec => []ClientInv
  BY InitClientInv, NextClientInv, PTL DEF ClientSpec

\* The members of every AsyncHttpClientSession keep their types; in particular
\* the callback gets only the error codes that processCompanyRequest tells
\* apart, never end_of_stream.
THEOREM ClientTypeCorrect == ClientSpec => []ClientTypeOK
  <1>1. ClientInv => ClientTypeOK
    BY DEF ClientInv
  <1>2. QED
    BY <1>1, ClientInvariant, PTL

\* The callback of each call is called exactly once when its chain ends, in
\* every order of answer, timer and cancellation.
THEOREM CallsBackOnce == ClientSpec => []CompletesExactlyOnce
  <1>1. ClientInv => CompletesExactlyOnce
    BY DEF ClientInv
  <1>2. QED
    BY <1>1, ClientInvariant, PTL

-----------------------------------------------------------------------------
(* The refinement: starting a call, ending it, and everything between.     *)

\* A step within the chain is not seen.
LEMMA InnerStepRefines ==
  ASSUME ClientInv, NEW s \in Sessions, NEW o \in Ops,
         op[s] \notin {"new", "none"}, o \notin {"new", "none"}, op' = [op EXCEPT ![s] = o],
         UNCHANGED on_complete_
  PROVE  UNCHANGED Call!callVars
  BY DEF ClientInv, ClientTypeOK, Call!callVars

\* The handler that calls back ends the abstract call.
LEMMA CompleteRefines ==
  ASSUME ClientInv, NEW s \in Sessions, op[s] \notin {"new", "none"},
         NEW e \in {"ok"} \cup Errors, NEW a \in Answers \cup {Empty},
         Complete(s, e, a)
  PROVE  Call!CallNext
  <1> DEFINE oc == [ec |-> e, answer |-> a]
  <1>1. on_complete_[s] \in Seq(Outcomes) /\ Len(on_complete_[s]) = 0
    BY DEF ClientInv, ClientTypeOK, CompletesExactlyOnce
  <1>2. oc \in Outcomes /\ Append(on_complete_[s], oc) = <<oc>>
    BY <1>1, OutcomeAppended
  <1>3. /\ op' = [op EXCEPT ![s] = "none"]
        /\ on_complete_' = [on_complete_ EXCEPT ![s] = <<oc>>]
    BY <1>2 DEF Complete
  <1> HIDE DEF oc
  <1>4. Call!Finish(s, oc)
    BY <1>3 DEF ClientInv, ClientTypeOK, Call!Finish
  <1>5. QED
    BY <1>2, <1>4 DEF Call!CallNext

\* A step that leaves the chain and the history alone is not seen.
LEMMA OuterStepRefines ==
  ASSUME UNCHANGED <<op, on_complete_>>
  PROVE  UNCHANGED Call!callVars
  BY DEF Call!callVars

\* Every step of the session is a step of BackendCall or stutters.
LEMMA NextRefines ==
  ClientInv /\ [ClientNext]_clientVars => [Call!CallNext]_(Call!callVars)
  <1> SUFFICES ASSUME ClientInv, [ClientNext]_clientVars
               PROVE  [Call!CallNext]_(Call!callVars)
    OBVIOUS
  <1>1. ASSUME NEW s \in Sessions, run(s) PROVE Call!CallNext
    <2>1. Call!Start(s)
      BY <1>1 DEF run, Begin, ClientInv, ClientTypeOK, Call!Start
    <2>2. QED
      BY <2>1 DEF Call!CallNext
  <1>2. ASSUME NEW s \in Sessions, on_resolve(s)
        PROVE  [Call!CallNext]_(Call!callVars)
    <2>1. op[s] \notin {"new", "none"} /\ "connect" \in Ops
      BY <1>2 DEF on_resolve, Ops
    <2>2. CASE ec[s] = "ok"
      BY <1>2, <2>1, <2>2, InnerStepRefines DEF on_resolve, Begin
    <2>3. CASE ec[s] # "ok"
      <3>1. ec[s] \in Errors
        BY <1>2, <2>3 DEF on_resolve, ClientInv, ClientTypeOK, EcInv
      <3>2. QED
        BY <1>2, <2>1, <2>3, <3>1, CompleteRefines DEF on_resolve
    <2>4. QED
      BY <2>2, <2>3
  <1>3. ASSUME NEW s \in Sessions, on_connect(s)
        PROVE  [Call!CallNext]_(Call!callVars)
    <2>1. op[s] \notin {"new", "none"} /\ "write" \in Ops
      BY <1>3 DEF on_connect, Ops
    <2>2. CASE ec[s] = "ok"
      BY <1>3, <2>1, <2>2, InnerStepRefines DEF on_connect, Begin
    <2>3. CASE ec[s] # "ok"
      <3>1. ec[s] \in Errors
        BY <1>3, <2>3 DEF on_connect, ClientInv, ClientTypeOK, EcInv
      <3>2. QED
        BY <1>3, <2>1, <2>3, <3>1, CompleteRefines DEF on_connect
    <2>4. QED
      BY <2>2, <2>3
  <1>4. ASSUME NEW s \in Sessions, on_write(s)
        PROVE  [Call!CallNext]_(Call!callVars)
    <2>1. op[s] \notin {"new", "none"} /\ "read" \in Ops
      BY <1>4 DEF on_write, Ops
    <2>2. CASE ec[s] = "ok"
      BY <1>4, <2>1, <2>2, InnerStepRefines DEF on_write, Begin
    <2>3. CASE ec[s] # "ok"
      <3>1. ec[s] \in Errors
        BY <1>4, <2>3 DEF on_write, ClientInv, ClientTypeOK, EcInv
      <3>2. QED
        BY <1>4, <2>1, <2>3, <3>1, CompleteRefines DEF on_write
    <2>4. QED
      BY <2>2, <2>3
  <1>5. ASSUME NEW s \in Sessions, on_read(s) PROVE Call!CallNext
    <2> DEFINE e == IF ec[s] = "end_of_stream" THEN "ok" ELSE ec[s]
    <2>1. op[s] \notin {"new", "none"} /\ Complete(s, e, res_[s])
      BY <1>5 DEF on_read
    <2>2. e \in {"ok"} \cup Errors /\ res_[s] \in Answers \cup {Empty}
      BY <1>5 DEF on_read, ClientInv, ClientTypeOK
    <2> HIDE DEF e
    <2>3. QED
      BY <2>1, <2>2, CompleteRefines
  <1>6. ASSUME NEW s \in Sessions,
               on_timeout(s) \/ cancel(s) \/ ClientEnvironment(s)
        PROVE  UNCHANGED Call!callVars
    <2>1. UNCHANGED <<op, on_complete_>>
      BY <1>6
      DEF on_timeout, TimerEc, cancel, ClientEnvironment, resolve_ends,
          connect_ends, write_ends, read_ends, op_aborts, timer_expires, Result
    <2>2. QED
      BY <2>1, OuterStepRefines
  <1>7. CASE UNCHANGED clientVars
    BY <1>7, OuterStepRefines DEF clientVars
  <1>8. QED
    BY <1>1, <1>2, <1>3, <1>4, <1>5, <1>6, <1>7, StepOfOneCall
    DEF ClientEnvironment

\* The session implements BackendCall, the call that Backendify is built on:
\* it is started once, and answered at most once with a legal outcome.
THEOREM SessionImplementsCall == ClientSpec => ImplementsCall
  <1>1. ClientInit => Call!CallInit
    BY DEF ClientInit, Call!CallInit
  <1>2. QED
    BY <1>1, NextRefines, ClientInvariant, PTL
    DEF ClientSpec, ImplementsCall, Call!CallSpec
=============================================================================
