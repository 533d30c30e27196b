-------------------------- MODULE MCAckGeneration --------------------------
(***************************************************************************)
(* Connections for TLC: a client's in the Data space, whose packet numbers *)
(* go up to 5 with a window of 2 bits and 2 ranges, so that numbers fall   *)
(* off both; a server's in the two spaces of the handshake; and a client's *)
(* that still gets Initial packets while it gets those of the Data space.  *)
(***************************************************************************)
EXTENDS AckGeneration

LateInitial == [spaces |-> {"Initial", "Data"}, server |-> FALSE, packets |-> 2, acks |-> 2]

MCSetups ==
    {[spaces |-> {"Data"}, server |-> FALSE, packets |-> 6, acks |-> 3],
     [spaces |-> {"Initial", "Handshake"}, server |-> TRUE, packets |-> 2, acks |-> 2],
     LateInitial}

LateSetups == {LateInitial}
=============================================================================
