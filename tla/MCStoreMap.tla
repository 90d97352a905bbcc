---------------------------- MODULE MCStoreMap ----------------------------
(***************************************************************************)
(* One slot that two keys hash to: every race in the map is a race for one *)
(* slot.  The properties are state invariants and a property of single     *)
(* steps, so exchanging users is a sound symmetry.                         *)
(***************************************************************************)
EXTENDS StoreMap, TLC

CONSTANT Slot

MCSlotOf == [k \in Keys |-> Slot]

UserSymmetry == Permutations(Users)
=============================================================================
