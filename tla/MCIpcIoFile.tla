---------------------------- MODULE MCIpcIoFile ----------------------------
(* Reads and writes of one worker, fewer pages than requests, and queues   *)
(* small enough to overflow.                                               *)
EXTENDS IpcIoFile, TLC

CONSTANTS r1, r2, r3, w1

MCKind == [r \in Requests |-> IF r = w1 THEN "write" ELSE "read"]

PageSymmetry == Permutations(Pages)
=============================================================================
