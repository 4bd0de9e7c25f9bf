---------------------------- MODULE BackendCall ----------------------------
(***************************************************************************)
(* What Backendify may rely on in a call to a backend: it is started once  *)
(* and calls its callback at most once, with an error code and an answer.  *)
(* AsyncHttpClientSession implements it, Backendify is built on it.        *)
(***************************************************************************)
EXTENDS Naturals, Sequences

CONSTANTS Sessions, Outcomes

VARIABLES call, outcome

callVars == <<call, outcome>>

CallInit ==
  /\ call = [s \in Sessions |-> "idle"]
  /\ outcome = [s \in Sessions |-> <<>>]

Start(s) ==
  /\ call[s] = "idle"
  /\ call' = [call EXCEPT ![s] = "running"]
  /\ UNCHANGED outcome

Finish(s, o) ==
  /\ call[s] = "running"
  /\ call' = [call EXCEPT ![s] = "done"]
  /\ outcome' = [outcome EXCEPT ![s] = <<o>>]

CallNext == \E s \in Sessions : Start(s) \/ \E o \in Outcomes : Finish(s, o)

CallSpec == CallInit /\ [][CallNext]_callVars
=============================================================================
