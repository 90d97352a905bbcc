---------------------------- MODULE MCRockStore ----------------------------
(***************************************************************************)
(* Two entries of two workers whose keys compete for cell 1; cell 2 may    *)
(* hold one of them from a run with another hash.  Two writes are enough   *)
(* for an abandoned write to meet the next owner of its cell.              *)
(***************************************************************************)
EXTENDS RockStore

CONSTANTS k1, k2

MCWorkerOf == [u \in Users |-> u]
MCLeftovers == {Content(k1, 0)}
MCHashOf == [k \in Keys |-> 1]
=============================================================================
