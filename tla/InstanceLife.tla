---------------------------- MODULE InstanceLife ----------------------------
(***************************************************************************)
(* What a framework promises about ability instances to those that list      *)
(* them: the table AbilityInstance shows an instance from its creation until *)
(* it is removed, once; its state comes from processes of this run; the map  *)
(* of heartbeats takes nobody for active who was not created in this run,    *)
(* and says Terminated only of what is removed. Nothing is promised of when  *)
(* table and map learn what the other knows, nor after a restart of what     *)
(* there was before.                                                        *)
(***************************************************************************)
CONSTANTS
    Instances,   \* ids of instances
    Templates,   \* ids of CRs, which may be started but are never in the table
    States       \* what a process reports

Ids == Instances \cup Templates

VARIABLES
    drawn,   \* when the id of an instance was drawn: "no", "this" run, a "previous" one
    shown,   \* the state in the table, or "absent"
    seen,    \* the state in the map of heartbeats, or "none"
    with     \* ids with a process of this run whose end the table does not know

lifeVars == <<drawn, shown, seen, with>>

LifeInit ==
    /\ drawn = [i \in Ids |-> "no"]
    /\ shown = [i \in Ids |-> "absent"]
    /\ seen = [i \in Ids |-> "none"]
    /\ with = {}

Create(i) ==
    /\ drawn[i] = "no"
    /\ drawn' = [drawn EXCEPT ![i] = "this"]
    /\ shown' = [shown EXCEPT ![i] = "Inactive"]
    /\ UNCHANGED <<seen, with>>

\* A process begins, for a template or an instance of this run
Begin(i) ==
    /\ i \in Templates \/ drawn[i] = "this"
    /\ with' = with \cup {i}
    /\ UNCHANGED <<drawn, shown, seen>>

\* The table hears of a process: only of one that is there, of a row that is there
Report(i, s) ==
    /\ i \in with /\ shown[i] # "absent"
    /\ s # "Terminated"
    /\ shown' = [shown EXCEPT ![i] = s]
    /\ UNCHANGED <<drawn, seen, with>>

\* The row is deleted: by DELETE, by a Terminated heartbeat, or as its process ended,
\* which may have been the last one
Remove(i) ==
    /\ shown' = [shown EXCEPT ![i] = "absent"]
    /\ with' = with \/ with' = with \ {i}
    /\ UNCHANGED <<drawn, seen>>

\* The map hears of a process
Hear(i, s) ==
    /\ IF s = "Terminated" THEN shown[i] = "absent" /\ (i \in Templates \/ drawn[i] # "no")
       ELSE drawn[i] = "this"
    /\ seen' = [seen EXCEPT ![i] = s]
    /\ UNCHANGED <<drawn, shown, with>>

Forget(i) ==
    /\ seen' = [seen EXCEPT ![i] = "none"]
    /\ UNCHANGED <<drawn, shown, with>>

\* Children of the previous run are nobody's
Restart ==
    /\ drawn' = [i \in Ids |-> IF drawn[i] = "no" THEN "no" ELSE "previous"]
    /\ shown' = [i \in Ids |-> "absent"]
    /\ seen' = [i \in Ids |-> "none"]
    /\ with' = {}

LifeNext ==
    \/ \E i \in Instances : Create(i)
    \/ \E i \in Ids : Begin(i) \/ Remove(i) \/ Forget(i)
    \/ \E i \in Ids, s \in States : Report(i, s) \/ Hear(i, s)
    \/ Restart

LifeSpec == LifeInit /\ [][LifeNext]_lifeVars
=============================================================================
