------------------------------ MODULE MCSession ------------------------------
(***************************************************************************)
(* The four programs, with the rounds of client.rs and server.rs.          *)
(***************************************************************************)
EXTENDS Session

MCProgramNames == {"pingpong", "pingpong_stop", "cc", "echo"}
MCRounds == [pingpong |-> 19, pingpong_stop |-> 9]
=============================================================================
