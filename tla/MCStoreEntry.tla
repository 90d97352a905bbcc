---------------------------- MODULE MCStoreEntry ----------------------------
(***************************************************************************)
(* Two clients, of which one copies again in its callback, and objects of  *)
(* up to five units on pages of two: the longest one does not fit a        *)
(* cache_dir, and all but the shortest are trimmed.                        *)
(***************************************************************************)
EXTENDS StoreEntry
=============================================================================
