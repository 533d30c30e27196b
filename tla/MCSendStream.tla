---------------------------- MODULE MCSendStream ----------------------------
(***************************************************************************)
(* A few bytes, and frame headers of a few bytes: the parts of a header    *)
(* keep their order of size, and packets differ in the room that is left.  *)
(***************************************************************************)
EXTENDS SendStream
=============================================================================
