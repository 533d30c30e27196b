--------------------------- MODULE MCLossRecovery ---------------------------
(***************************************************************************)
(* One frame and a few packets per space.  MIN_RTT and the granularity are *)
(* one tick, so that loss times, probe timeouts and ACKs fall between each *)
(* other; the ACK delay is zero, or longer than the RTT.                   *)
(***************************************************************************)
EXTENDS LossRecovery

CONSTANTS MaxInitial, MaxHandshake, MaxData

MCMaxPackets == [Initial |-> MaxInitial, Handshake |-> MaxHandshake, Data |-> MaxData]
=============================================================================
