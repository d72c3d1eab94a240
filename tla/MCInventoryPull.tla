-------------------------- MODULE MCInventoryPull --------------------------
(* Instances of InventoryPull: how many pulls, resets and restarts.        *)
EXTENDS InventoryPull
=============================================================================
