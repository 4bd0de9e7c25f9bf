-------------------------- MODULE HttplibSettings --------------------------
(***************************************************************************)
(* The setting of the prototype backend's server (BackendServers/httplib.h)*)
(* that the pool of workers and the connections share.                     *)
(***************************************************************************)
EXTENDS Naturals

CONSTANT keep_alive_max_count_      \* CPPHTTPLIB_KEEPALIVE_MAX_COUNT is 100

ASSUME HttplibSettingsAssumption == keep_alive_max_count_ \in Nat \ {0}
=============================================================================
