----------------------------- MODULE MCPagePool -----------------------------
(* Two purposes, one page each; SharedMemPagesRr sizes the pool to the sum *)
(* of the limits.                                                          *)
EXTENDS PagePool, TLC

CONSTANTS cachePage, ioPage

MCLimit == (cachePage :> 1) @@ (ioPage :> 1)
=============================================================================
