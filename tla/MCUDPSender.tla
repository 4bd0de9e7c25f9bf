---------------------------- MODULE MCUDPSender ----------------------------
(***************************************************************************)
(* UDPSender with sizes and intervals as the configuration file may have   *)
(* them: zero, positive, and negative, which as a uint64_t is so large     *)
(* that reserve throws, or that its sum with 256 wraps around.             *)
(***************************************************************************)
EXTENDS UDPSender

MCBatchSizes == {-257, -1, 0, 2}
MCIntervals == {-1, 0, 1000}
=============================================================================
