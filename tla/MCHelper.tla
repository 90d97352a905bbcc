------------------------------ MODULE MCHelper ------------------------------
(***************************************************************************)
(* Four requests, of which the second one's caller may leave, for one      *)
(* helper with two channels; a second process may run while an old one     *)
(* finishes. One helper crashes, and Squid is reconfigured once.           *)
(***************************************************************************)
EXTENDS Helper
=============================================================================
