----------------------------- MODULE MCEndpoint -----------------------------
(***************************************************************************)
(* More addresses than slab keys, so that a key that has become free is    *)
(* given to a task of another address.                                     *)
(***************************************************************************)
EXTENDS Endpoint
=============================================================================
