---------------------------- MODULE MCSpawnPolicy ----------------------------
(* TLC instances of SpawnPolicy: templates of one ability. *)
EXTENDS SpawnPolicy, TLC

CONSTANTS ability
OneAbility == [t \in Templates |-> ability]
=============================================================================
