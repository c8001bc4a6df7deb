------------------------- MODULE MCServiceLifecycle -------------------------
(* Instances of ServiceLifecycle for TLC: one service of each policy. *)
EXTENDS ServiceLifecycle

CONSTANTS sAlways, sOnFailure, sNever

MCPolicy ==
    [s \in Services |-> CASE s = sAlways -> "always"
                          [] s = sOnFailure -> "on-failure"
                          [] s = sNever -> "never"]
MCMaxRestarts == [s \in Services |-> 2]
MCHasProbe == Services
=============================================================================
