------------------------------- MODULE MCUdp -------------------------------
(***************************************************************************)
(* Udp for TLC: three tasks, so that one can be resumed, a second canceled *)
(* and a third come while a callback is on its way, and two numbers.       *)
(***************************************************************************)
EXTENDS Udp
=============================================================================
