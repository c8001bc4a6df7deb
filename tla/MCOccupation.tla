---------------------------- MODULE MCOccupation ----------------------------
(* TLC instances of Occupation: the constants come from the configurations. *)
EXTENDS Occupation, TLC

CONSTANTS o1, o2, o3, a1, d1
Symmetric == Permutations({o1, o2, o3} \cap Occupiers)
=============================================================================
