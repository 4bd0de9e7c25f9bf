--------------------------- MODULE CircuitBreaker ---------------------------
(***************************************************************************)
(* CircuitBreaker (core/CircuitBreaker.hpp and .cpp): for each backend the *)
(* end of its cool-off.  Both operations hold mutex_ and read the clock    *)
(* under it, so each is atomic and happens at one time.                    *)
(***************************************************************************)
EXTENDS Naturals

CONSTANTS Backends,
          CoolOff     \* backend_servers_circuit_breaker_cool_off_duration_in_millis

ASSUME CoolOffAssumption == CoolOff \in Nat

VARIABLE tripped_backends_    \* time 0 for a backend that is not in the map

BreakerTypeOK == tripped_backends_ \in [Backends -> Nat]

BreakerInit == tripped_backends_ = [b \in Backends |-> 0]

\* Mutant: the comparison is the wrong way round.
Mutant_isTripped(b, now) == tripped_backends_[b] < now

isTripped(b, now) == tripped_backends_[b] > now

\* Mutant: the cool-off is subtracted.
Mutant_trip(b, now) ==
  tripped_backends_' = [tripped_backends_ EXCEPT ![b] = now - CoolOff]

trip(b, now) ==
  tripped_backends_' = [tripped_backends_ EXCEPT ![b] = now + CoolOff]
=============================================================================
