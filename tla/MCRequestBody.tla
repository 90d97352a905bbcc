--------------------------- MODULE MCRequestBody ---------------------------
(***************************************************************************)
(* Bodies that are longer than the pipe, which is shorter than what a      *)
(* client's buffer holds together with it, and two servers.                *)
(***************************************************************************)
EXTENDS RequestBody
=============================================================================
