----------------------------- MODULE MCInventory -----------------------------
(* Instances of Inventory for TLC. *)
EXTENDS Inventory, TLC

CONSTANTS s1, s2

Interchangeable == Permutations(Sales)
==============================================================================
