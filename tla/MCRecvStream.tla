---------------------------- MODULE MCRecvStream ----------------------------
(***************************************************************************)
(* A stream of 5 bytes, cut into frames in every way, read one byte at a   *)
(* time or a buffer at a time.                                             *)
(***************************************************************************)
EXTENDS RecvStream

AnyFrames == {f \in [offset : 0 .. StreamLen, len : 0 .. StreamLen] :
                 f.offset + f.len <= StreamLen}
=============================================================================
