---------------------------- MODULE MCCongestion ----------------------------
(***************************************************************************)
(* Packets of one byte (none for an ACK), an initial window of three and   *)
(* data written two or four packets at a time: slow start, two losses      *)
(* above the floor of two, congestion avoidance and a burst into a full    *)
(* window are all within six packets.                                      *)
(***************************************************************************)
EXTENDS Congestion
=============================================================================
