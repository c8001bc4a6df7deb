------------------------- MODULE MCAbilityLifecycle -------------------------
(* Instances of AbilityLifecycle for TLC. *)
EXTENDS AbilityLifecycle
=============================================================================
