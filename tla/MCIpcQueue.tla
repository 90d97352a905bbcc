----------------------------- MODULE MCIpcQueue -----------------------------
(***************************************************************************)
(* Two writers with rings of two items; the indexes have one bit, so they  *)
(* wrap around at every second item.                                       *)
(***************************************************************************)
EXTENDS IpcQueue
=============================================================================
