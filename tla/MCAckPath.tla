----------------------------- MODULE MCAckPath -----------------------------
(***************************************************************************)
(* Encodings of 3 and 5 bits for the 8, 16, 24 and 32 of the code: numbers *)
(* from 0 and from 4 on, which wrap the short one and come to need the     *)
(* long one.  A duplicate window of 2 bits and ACK frames of 2 ranges, so  *)
(* that numbers fall off both.                                             *)
(***************************************************************************)
EXTENDS AckPath

MCWindows == <<8, 32>>
MCFirstNumbers == {0, 4}
MCPacketNumbers == 0 .. 9
=============================================================================
