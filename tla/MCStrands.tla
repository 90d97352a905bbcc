----------------------------- MODULE MCStrands -----------------------------
(***************************************************************************)
(* A worker that wants a db file and two listening sockets, and a disker,  *)
(* one of which may die and be restarted, and a coordinator that may die   *)
(* any number of times.  The sockets are alike.                            *)
(***************************************************************************)
EXTENDS Strands, TLC

MCPorts == Permutations(Ports)
=============================================================================
