----------------------- MODULE AbilityLifecycle_proofs -----------------------
(***************************************************************************)
(* The safety properties of AbilityLifecycle, proved for every set of ids   *)
(* and every bound.                                                        *)
(***************************************************************************)
EXTENDS AbilityLifecycle, TLAPS

\* An id some process may carry: a CR template, or drawn by create_ability_instance
Known(i) == i \in Templates \/ born[i] # "no"

\* Rows belong to instances created in this run
RowInv ==
    \A i \in Ids : /\ row[i] # "absent" => born[i] = "this"
                   /\ i \in Templates => born[i] = "no"

\* A child of this run carries an id of this run, an orphan never does
ProcInv ==
    \A p \in Procs : proc[p].pc # "free" =>
        /\ proc[p].own => /\ proc[p].id \in Templates \/ born[proc[p].id] = "this"
                          /\ proc[p].pc # "gone"
        /\ ~proc[p].own => /\ proc[p].id \in Templates \/ born[proc[p].id] = "previous"
                           /\ proc[p].pc \in {"alive", "gone"}

\* A start that has passed its check is for an id of this run
StartInv ==
    /\ \A t \in Tasks : tk[t].pc = "spawn" =>
            tk[t].id \in Templates \/ born[tk[t].id] = "this"
    /\ \A m \in late : m.op = "start_process" =>
            m.id \in Templates \/ born[m.id] = "this"

\* A heartbeat on its way was sent by a process; an accepted one has had its
\* effect on the row
PostInv ==
    /\ \A p \in Procs : post[p].pc # "idle" => proc[p].pc # "free"
    /\ \A p \in Procs : post[p].pc = "apply" =>
            IF post[p].st = "Terminated" THEN row[proc[p].id] = "absent"
                                         ELSE born[proc[p].id] = "this"
    /\ \A m \in late : m.op = "HeartbeatEvent" =>
            \E p \in Procs : proc[p].pc # "free" /\ proc[p].id = m.id

\* Entries of the heartbeat map come from processes
EntryInv == \A i \in Ids : hb[i].st # "none" => Known(i)

IInv ==
    /\ TypeOK
    /\ RowInv /\ ProcInv /\ StartInv /\ PostInv /\ EntryInv
    /\ ReapedRowGone /\ ActiveRowHasProcess
    /\ TerminatedEntryHasNoRow /\ OrphanNeverActive

-----------------------------------------------------------------------------
\* Ids is not empty, so the CHOOSE behind unused slots is an id
LEMMA AnyIdIn == AnyId \in Ids
BY IdsAssumption DEF AnyId, Ids

USE DEF Message, LateMessages, NoProc, HasProcess

\* Type correctness: every handler writes values the tables can hold
LEMMA TypeStep == TypeOK /\ [Next]_vars => TypeOK'
<1> SUFFICES ASSUME TypeOK, [Next]_vars PROVE TypeOK'
  OBVIOUS
<1> USE AnyIdIn, IdsAssumption, BoundsAssumption
<1>1. ASSUME NEW i \in Instances, CreateInstance(i) PROVE TypeOK'
  <2>1. row' \in [Ids -> LifecycleState \cup {"absent"}]
    BY <1>1 DEF TypeOK, CreateInstance, Ids, LifecycleState
  <2> QED
    BY <1>1, <2>1 DEF TypeOK, CreateInstance, Ids
<1>2. ASSUME NEW i \in Instances, DeleteRow(i) PROVE TypeOK'
  <2>1. row' \in [Ids -> LifecycleState \cup {"absent"}]
    BY <1>2 DEF TypeOK, DeleteRow
  <2> QED
    BY <1>2, <2>1 DEF TypeOK, DeleteRow
<1>3. ASSUME NEW i \in Ids, NEW t \in Tasks, StartRequest(i, t) PROVE TypeOK'
  <2>1. tk' \in [Tasks -> TaskRecords]
    BY <1>3 DEF TypeOK, StartRequest, TaskRecords
  <2> QED
    BY <1>3, <2>1 DEF TypeOK, StartRequest
<1>4. ASSUME NEW i \in Ids, NEW c \in Commands, NEW t \in Tasks, AdjustRequest(i, c, t) PROVE TypeOK'
  <2>1. tk' \in [Tasks -> TaskRecords]
    BY <1>4 DEF TypeOK, AdjustRequest, TaskRecords, AdjustTask, Entries
  <2> QED
    BY <1>4, <2>1 DEF TypeOK, AdjustRequest
<1>5. ASSUME NEW i \in Instances, NEW t \in Tasks, DeleteRequest(i, t) PROVE TypeOK'
  <2>1. tk' \in [Tasks -> TaskRecords]
    BY <1>5 DEF TypeOK, DeleteRequest, TaskRecords, AdjustTask, Entries, Ids
  <2> QED
    BY <1>5, <2>1 DEF TypeOK, DeleteRequest
<1>6. ASSUME NEW t \in Tasks, NEW p \in Procs, Spawn(t, p) PROVE TypeOK'
  <2>1. proc' \in [Procs -> Processes]
    BY <1>6 DEF TypeOK, Spawn, Processes, NewProc, TaskRecords, LifecycleState
  <2>2. tk' \in [Tasks -> TaskRecords]
    BY <1>6 DEF TypeOK, Spawn, TaskRecords, SetTask
  <2> QED
    BY <1>6, <2>1, <2>2 DEF TypeOK, Spawn
<1>7. ASSUME NEW t \in Tasks, SpawnFails(t) PROVE TypeOK'
  <2>1. tk' \in [Tasks -> TaskRecords]
    BY <1>7 DEF TypeOK, SpawnFails, TaskRecords, EndTask, NoTask
  <2> QED
    BY <1>7, <2>1 DEF TypeOK, SpawnFails
<1>8. ASSUME NEW t \in Tasks, SpawnTimeout(t) PROVE TypeOK'
  <2>1. tk' \in [Tasks -> TaskRecords]
    BY <1>8 DEF TypeOK, SpawnTimeout, TaskRecords, EndTask, NoTask
  <2>2. late' \subseteq LateMessages
    BY <1>8 DEF TypeOK, SpawnTimeout, LifecycleState, TaskRecords
  <2> QED
    BY <1>8, <2>1, <2>2 DEF TypeOK, SpawnTimeout
<1>9. ASSUME NEW t \in Tasks, HeartbeatSeen(t) PROVE TypeOK'
  <2>1. tk' \in [Tasks -> TaskRecords]
    BY <1>9 DEF TypeOK, HeartbeatSeen, TaskRecords, EndTask, NoTask
  <2> QED
    BY <1>9, <2>1 DEF TypeOK, HeartbeatSeen
<1>10. ASSUME NEW t \in Tasks, ExecuteCommand(t) PROVE TypeOK'
  <2>1. tk' \in [Tasks -> TaskRecords]
    BY <1>10 DEF TypeOK, ExecuteCommand, TaskRecords, EndTask, NoTask, SetTask
  <2>2. proc' \in [Procs -> Processes]
    BY <1>10 DEF TypeOK, ExecuteCommand, TaskRecords, Processes, desired_state, LifecycleState
  <2> QED
    BY <1>10, <2>1, <2>2 DEF TypeOK, ExecuteCommand
<1>11. ASSUME NEW t \in Tasks, StateReached(t) PROVE TypeOK'
  <2>1. tk' \in [Tasks -> TaskRecords]
    BY <1>11 DEF TypeOK, StateReached, TaskRecords, EndTask, NoTask
  <2> QED
    BY <1>11, <2>1 DEF TypeOK, StateReached
<1>12. ASSUME NEW t \in Tasks, WaitTimeout(t) PROVE TypeOK'
  <2>1. tk' \in [Tasks -> TaskRecords]
    BY <1>12 DEF TypeOK, WaitTimeout, TaskRecords, EndTask, NoTask
  <2> QED
    BY <1>12, <2>1 DEF TypeOK, WaitTimeout
<1>13. ASSUME NEW p \in Procs, SendHeartbeat(p) PROVE TypeOK'
  <2>1. post' \in [Procs -> Posts]
    BY <1>13 DEF TypeOK, SendHeartbeat, Posts, Processes
  <2> QED
    BY <1>13, <2>1 DEF TypeOK, SendHeartbeat
<1>14. ASSUME NEW p \in Procs, ResourceHandle(p) PROVE TypeOK'
  <2>1. row' \in [Ids -> LifecycleState \cup {"absent"}]
    BY <1>14 DEF TypeOK, ResourceHandle, RowAfterHeartbeat, Posts, Processes, LifecycleState
  <2>2. post' \in [Procs -> Posts]
    BY <1>14 DEF TypeOK, ResourceHandle, Posts, Idle, LifecycleState
  <2>3. proc' \in [Procs -> Processes]
    <3>1. Answer410(p) \/ UNCHANGED proc
      BY <1>14 DEF ResourceHandle
    <3>2. CASE UNCHANGED proc
      BY <3>2 DEF TypeOK
    <3>3. CASE proc' = [proc EXCEPT ![p].told = TRUE]
      BY <3>3 DEF TypeOK, Processes
    <3> QED
      BY <3>1, <3>2, <3>3 DEF Answer410
  <2> QED
    BY <1>14, <2>1, <2>2, <2>3 DEF TypeOK, ResourceHandle
<1>15. ASSUME NEW p \in Procs, BusTimeout(p) PROVE TypeOK'
  <2>1. late' \subseteq LateMessages
    BY <1>15 DEF TypeOK, BusTimeout, Posts, Processes
  <2>2. post' \in [Procs -> Posts]
    BY <1>15 DEF TypeOK, BusTimeout, Posts, Idle, LifecycleState
  <2>3. proc' \in [Procs -> Processes]
    BY <1>15 DEF TypeOK, BusTimeout, Processes, Answer410
  <2> QED
    BY <1>15, <2>1, <2>2, <2>3 DEF TypeOK, BusTimeout
<1>16. ASSUME NEW p \in Procs, ApplyHeartbeat(p) PROVE TypeOK'
  <2>1. hb' \in [Ids -> Entries]
    BY <1>16 DEF TypeOK, ApplyHeartbeat, Entries, Posts, Processes
  <2>2. post' \in [Procs -> Posts]
    BY <1>16 DEF TypeOK, ApplyHeartbeat, Posts, Idle, LifecycleState
  <2>3. proc' \in [Procs -> Processes]
    BY <1>16 DEF TypeOK, ApplyHeartbeat, Processes
  <2> QED
    BY <1>16, <2>1, <2>2, <2>3 DEF TypeOK, ApplyHeartbeat
<1>17. ASSUME NEW p \in Procs, NEW s \in Reported, AbilityStep(p, s) PROVE TypeOK'
  <2>1. proc' \in [Procs -> Processes]
    BY <1>17 DEF TypeOK, AbilityStep, Processes
  <2> QED
    BY <1>17, <2>1 DEF TypeOK, AbilityStep
<1>18. ASSUME NEW p \in Procs, ProcessExit(p) PROVE TypeOK'
  <2>1. proc' \in [Procs -> Processes]
    BY <1>18 DEF TypeOK, ProcessExit, Processes, LifecycleState
  <2> QED
    BY <1>18, <2>1 DEF TypeOK, ProcessExit
<1>19. ASSUME NEW p \in Procs, ExitErase(p) PROVE TypeOK'
  <2>1. proc' \in [Procs -> Processes]
    BY <1>19 DEF TypeOK, ExitErase, Processes
  <2>2. hb' \in [Ids -> Entries]
    BY <1>19 DEF TypeOK, ExitErase, Entries, NoEntry, Processes
  <2> QED
    BY <1>19, <2>1, <2>2 DEF TypeOK, ExitErase
<1>20. ASSUME NEW p \in Procs, ExitDeleteRow(p) PROVE TypeOK'
  <2>1. proc' \in [Procs -> Processes]
    BY <1>20 DEF TypeOK, ExitDeleteRow, Processes
  <2>2. row' \in [Ids -> LifecycleState \cup {"absent"}]
    BY <1>20 DEF TypeOK, ExitDeleteRow, Processes
  <2> QED
    BY <1>20, <2>1, <2>2 DEF TypeOK, ExitDeleteRow
<1>21. ASSUME NEW p \in Procs, ExitTimeout(p) PROVE TypeOK'
  <2>1. proc' \in [Procs -> Processes]
    BY <1>21 DEF TypeOK, ExitTimeout, Processes
  <2>2. late' \subseteq LateMessages
    BY <1>21 DEF TypeOK, ExitTimeout, Processes, LifecycleState
  <2> QED
    BY <1>21, <2>1, <2>2 DEF TypeOK, ExitTimeout
<1>22. ASSUME NEW m \in late, LateHeartbeat(m) PROVE TypeOK'
  <2>1. row' \in [Ids -> LifecycleState \cup {"absent"}]
    BY <1>22 DEF TypeOK, LateHeartbeat, RowAfterHeartbeat
  <2>2. late' \subseteq LateMessages
    BY <1>22 DEF TypeOK, LateHeartbeat
  <2> QED
    BY <1>22, <2>1, <2>2 DEF TypeOK, LateHeartbeat
<1>23. ASSUME NEW m \in late, LateExited(m) PROVE TypeOK'
  <2>1. row' \in [Ids -> LifecycleState \cup {"absent"}]
    BY <1>23 DEF TypeOK, LateExited
  <2>2. late' \subseteq LateMessages
    BY <1>23 DEF TypeOK, LateExited
  <2> QED
    BY <1>23, <2>1, <2>2 DEF TypeOK, LateExited
<1>24. ASSUME NEW m \in late, NEW p \in Procs, LateSpawn(m, p) PROVE TypeOK'
  <2>1. proc' \in [Procs -> Processes]
    BY <1>24 DEF TypeOK, LateSpawn, Processes, NewProc, LifecycleState
  <2>2. late' \subseteq LateMessages
    BY <1>24 DEF TypeOK, LateSpawn
  <2> QED
    BY <1>24, <2>1, <2>2 DEF TypeOK, LateSpawn
<1>25. ASSUME NEW i \in Ids, AgeEntry(i) PROVE TypeOK'
  <2>1. hb' \in [Ids -> Entries]
    BY <1>25 DEF TypeOK, AgeEntry, Entries
  <2> QED
    BY <1>25, <2>1 DEF TypeOK, AgeEntry
<1>26. ASSUME NEW i \in Ids, EraseStale(i) PROVE TypeOK'
  <2>1. hb' \in [Ids -> Entries]
    BY <1>26 DEF TypeOK, EraseStale, Entries, NoEntry
  <2> QED
    BY <1>26, <2>1 DEF TypeOK, EraseStale
<1>27. ASSUME CollectStale PROVE TypeOK'
  BY <1>27 DEF TypeOK, CollectStale, StaleIds
<1>28. ASSUME NEW o \in BOOLEAN, FrameworkRestart(o) PROVE TypeOK'
  <2>1. row' \in [Ids -> LifecycleState \cup {"absent"}]
    BY <1>28 DEF TypeOK, FrameworkRestart, RowsAtStart
  <2>2. born' \in [Ids -> {"no", "this", "previous"}]
    BY <1>28 DEF TypeOK, FrameworkRestart
  <2>3. hb' \in [Ids -> Entries]
    BY <1>28 DEF TypeOK, FrameworkRestart, Entries, NoEntry
  <2>4. proc' \in [Procs -> Processes]
    BY <1>28 DEF TypeOK, FrameworkRestart, Processes, Alive
  <2>5. post' \in [Procs -> Posts]
    BY <1>28 DEF TypeOK, FrameworkRestart, Posts, Idle, LifecycleState
  <2>6. tk' \in [Tasks -> TaskRecords]
    BY <1>28 DEF TypeOK, FrameworkRestart, TaskRecords, NoTask
  <2>7. late' = {} /\ stale' = {} /\ deleting' = {} /\ restarts' = restarts + 1
    BY <1>28 DEF FrameworkRestart
  <2> QED
    BY <2>1, <2>2, <2>3, <2>4, <2>5, <2>6, <2>7 DEF TypeOK
<1>29. CASE UNCHANGED vars
  BY <1>29 DEF TypeOK, vars
<1> QED
  BY <1>1, <1>2, <1>3, <1>4, <1>5, <1>6, <1>7, <1>8, <1>9, <1>10, <1>11, <1>12, <1>13, <1>14, <1>15, <1>16, <1>17, <1>18, <1>19, <1>20, <1>21, <1>22, <1>23, <1>24, <1>25, <1>26, <1>27, <1>28, <1>29 DEF Next

LEMMA InitIInv == Init => IInv
<1> SUFFICES ASSUME Init PROVE IInv
  OBVIOUS
<1> USE AnyIdIn DEF Init
<1>1. TypeOK
  BY DEF TypeOK, LifecycleState, Entries, NoEntry, Processes, Posts, Idle, TaskRecords, NoTask
<1>2. RowInv /\ ProcInv /\ StartInv /\ EntryInv
  BY DEF RowInv, ProcInv, StartInv, EntryInv, NoTask, NoEntry
<1>3. PostInv
  BY DEF PostInv, Idle
<1>4. ReapedRowGone /\ ActiveRowHasProcess /\ TerminatedEntryHasNoRow /\ OrphanNeverActive
  BY DEF ReapedRowGone, ActiveRowHasProcess, RowIsActive, TerminatedEntryHasNoRow,
         OrphanNeverActive, NoEntry
<1> QED
  BY <1>1, <1>2, <1>3, <1>4 DEF IInv
\* The induction step: each action, and each conjunct it can disturb
LEMMA StepIInv == IInv /\ [Next]_vars => IInv'
<1> SUFFICES ASSUME IInv, [Next]_vars PROVE IInv'
  OBVIOUS
<1>0. TypeOK'
  BY TypeStep DEF IInv
<1> USE IdsAssumption DEF IInv
<1>1. ASSUME NEW i \in Instances, CreateInstance(i) PROVE IInv'
  <2>1. RowInv'
    BY <1>1, <1>0 DEF CreateInstance, TypeOK, Processes, RowInv
  <2>2. ProcInv'
    BY <1>1, <1>0 DEF CreateInstance, TypeOK, Processes, ProcInv, RowInv, StartInv
  <2>3. StartInv'
    BY <1>1, <1>0 DEF CreateInstance, TypeOK, Processes, StartInv, RowInv
  <2>4. PostInv'
    BY <1>1, <1>0 DEF CreateInstance, TypeOK, Processes, PostInv, RowInv, ProcInv
  <2>5. EntryInv'
    BY <1>1, <1>0 DEF CreateInstance, TypeOK, Processes, EntryInv, PostInv, ProcInv, Known
  <2>6. ReapedRowGone'
    BY <1>1, <1>0 DEF CreateInstance, TypeOK, Processes, ReapedRowGone, ProcInv, RowInv,
       ExitPending
  <2>7. ActiveRowHasProcess'
    BY <1>1, <1>0 DEF CreateInstance, TypeOK, Processes, ActiveRowHasProcess, RowInv, ProcInv,
       PostInv, ReapedRowGone, ExitPending, RowIsActive
  <2>8. TerminatedEntryHasNoRow'
    BY <1>1, <1>0 DEF CreateInstance, TypeOK, Processes, TerminatedEntryHasNoRow, RowInv,
       EntryInv, PostInv, Known
  <2>9. OrphanNeverActive'
    BY <1>1, <1>0 DEF CreateInstance, TypeOK, Processes, OrphanNeverActive, PostInv
  <2> QED
    BY <1>0, <2>1, <2>2, <2>3, <2>4, <2>5, <2>6, <2>7, <2>8, <2>9
<1>2. ASSUME NEW i \in Instances, DeleteRow(i) PROVE IInv'
  <2>1. RowInv'
    BY <1>2, <1>0 DEF DeleteRow, TypeOK, Processes, RowInv
  <2>2. PostInv'
    BY <1>2, <1>0 DEF DeleteRow, TypeOK, Processes, PostInv, RowInv, ProcInv
  <2>3. ReapedRowGone'
    BY <1>2, <1>0 DEF DeleteRow, TypeOK, Processes, ReapedRowGone, ProcInv, RowInv, ExitPending
  <2>4. ActiveRowHasProcess'
    BY <1>2, <1>0 DEF DeleteRow, TypeOK, Processes, ActiveRowHasProcess, RowInv, ProcInv,
       PostInv, ReapedRowGone, ExitPending, RowIsActive
  <2>5. TerminatedEntryHasNoRow'
    BY <1>2, <1>0 DEF DeleteRow, TypeOK, Processes, TerminatedEntryHasNoRow, RowInv, EntryInv,
       PostInv, Known
  <2>6. (ProcInv /\ StartInv /\ EntryInv /\ OrphanNeverActive)'
    BY <1>2 DEF DeleteRow, ProcInv, StartInv, EntryInv, OrphanNeverActive, Known
  <2> QED
    BY <1>0, <2>1, <2>2, <2>3, <2>4, <2>5, <2>6
<1>3. ASSUME NEW i \in Ids, NEW t \in Tasks, StartRequest(i, t) PROVE IInv'
  <2>1. StartInv'
    BY <1>3, <1>0 DEF StartRequest, resolve_ability_cr_by_id, TypeOK, Processes, StartInv,
       RowInv
  <2>2. (RowInv /\ ProcInv /\ PostInv /\ EntryInv /\ ReapedRowGone /\ ActiveRowHasProcess /\ TerminatedEntryHasNoRow /\ OrphanNeverActive)'
    BY <1>3 DEF StartRequest, resolve_ability_cr_by_id, RowInv, ProcInv, PostInv, EntryInv,
       ReapedRowGone, ActiveRowHasProcess, TerminatedEntryHasNoRow, OrphanNeverActive, Known,
       ExitPending, RowIsActive
  <2> QED
    BY <1>0, <2>1, <2>2
<1>4. ASSUME NEW i \in Ids, NEW c \in Commands, NEW t \in Tasks, AdjustRequest(i, c, t) PROVE IInv'
  <2>1. StartInv'
    BY <1>4, <1>0 DEF AdjustRequest, AdjustTask, TypeOK, Processes, StartInv, RowInv
  <2>2. (RowInv /\ ProcInv /\ PostInv /\ EntryInv /\ ReapedRowGone /\ ActiveRowHasProcess /\ TerminatedEntryHasNoRow /\ OrphanNeverActive)'
    BY <1>4 DEF AdjustRequest, AdjustTask, RowInv, ProcInv, PostInv, EntryInv, ReapedRowGone,
       ActiveRowHasProcess, TerminatedEntryHasNoRow, OrphanNeverActive, Known, ExitPending,
       RowIsActive
  <2> QED
    BY <1>0, <2>1, <2>2
<1>5. ASSUME NEW i \in Instances, NEW t \in Tasks, DeleteRequest(i, t) PROVE IInv'
  <2>1. StartInv'
    BY <1>5, <1>0 DEF DeleteRequest, AdjustTask, TypeOK, Processes, StartInv, RowInv
  <2>2. (RowInv /\ ProcInv /\ PostInv /\ EntryInv /\ ReapedRowGone /\ ActiveRowHasProcess /\ TerminatedEntryHasNoRow /\ OrphanNeverActive)'
    BY <1>5 DEF DeleteRequest, AdjustTask, RowInv, ProcInv, PostInv, EntryInv, ReapedRowGone,
       ActiveRowHasProcess, TerminatedEntryHasNoRow, OrphanNeverActive, Known, ExitPending,
       RowIsActive
  <2> QED
    BY <1>0, <2>1, <2>2
<1>6. ASSUME NEW t \in Tasks, NEW p \in Procs, Spawn(t, p) PROVE IInv'
  <2>1. ProcInv'
    BY <1>6, <1>0 DEF Spawn, NewProc, SetTask, FreeProc, TypeOK, Processes, ProcInv, RowInv,
       StartInv
  <2>2. StartInv'
    BY <1>6, <1>0 DEF Spawn, NewProc, SetTask, FreeProc, TypeOK, Processes, StartInv, RowInv
  <2>3. PostInv'
    BY <1>6, <1>0 DEF Spawn, NewProc, SetTask, FreeProc, TypeOK, Processes, PostInv, RowInv,
       ProcInv
  <2>4. ReapedRowGone'
    BY <1>6, <1>0 DEF Spawn, NewProc, SetTask, FreeProc, TypeOK, Processes, ReapedRowGone,
       ProcInv, RowInv, ExitPending
  <2>5. ActiveRowHasProcess'
    BY <1>6, <1>0 DEF Spawn, NewProc, SetTask, FreeProc, TypeOK, Processes,
       ActiveRowHasProcess, RowInv, ProcInv, PostInv, ReapedRowGone, ExitPending, RowIsActive
  <2>6. (RowInv /\ EntryInv /\ TerminatedEntryHasNoRow /\ OrphanNeverActive)'
    BY <1>6 DEF Spawn, NewProc, SetTask, FreeProc, RowInv, EntryInv, TerminatedEntryHasNoRow,
       OrphanNeverActive, Known
  <2> QED
    BY <1>0, <2>1, <2>2, <2>3, <2>4, <2>5, <2>6
<1>7. ASSUME NEW t \in Tasks, SpawnFails(t) PROVE IInv'
  <2>1. StartInv'
    BY <1>7, <1>0 DEF SpawnFails, EndTask, NoTask, TypeOK, Processes, StartInv, RowInv
  <2>2. (RowInv /\ ProcInv /\ PostInv /\ EntryInv /\ ReapedRowGone /\ ActiveRowHasProcess /\ TerminatedEntryHasNoRow /\ OrphanNeverActive)'
    BY <1>7 DEF SpawnFails, EndTask, NoTask, RowInv, ProcInv, PostInv, EntryInv,
       ReapedRowGone, ActiveRowHasProcess, TerminatedEntryHasNoRow, OrphanNeverActive, Known,
       ExitPending, RowIsActive
  <2> QED
    BY <1>0, <2>1, <2>2
<1>8. ASSUME NEW t \in Tasks, SpawnTimeout(t) PROVE IInv'
  <2>1. StartInv'
    BY <1>8, <1>0 DEF SpawnTimeout, EndTask, NoTask, TypeOK, Processes, StartInv, RowInv
  <2>2. PostInv'
    BY <1>8, <1>0 DEF SpawnTimeout, EndTask, NoTask, TypeOK, Processes, PostInv, RowInv, ProcInv
  <2>3. ReapedRowGone'
    BY <1>8, <1>0 DEF SpawnTimeout, EndTask, NoTask, TypeOK, Processes, ReapedRowGone,
       ProcInv, RowInv, ExitPending
  <2>4. ActiveRowHasProcess'
    BY <1>8, <1>0 DEF SpawnTimeout, EndTask, NoTask, TypeOK, Processes, ActiveRowHasProcess,
       RowInv, ProcInv, PostInv, ReapedRowGone, ExitPending, RowIsActive
  <2>5. (RowInv /\ ProcInv /\ EntryInv /\ TerminatedEntryHasNoRow /\ OrphanNeverActive)'
    BY <1>8 DEF SpawnTimeout, EndTask, NoTask, RowInv, ProcInv, EntryInv,
       TerminatedEntryHasNoRow, OrphanNeverActive, Known
  <2> QED
    BY <1>0, <2>1, <2>2, <2>3, <2>4, <2>5
<1>9. ASSUME NEW t \in Tasks, HeartbeatSeen(t) PROVE IInv'
  <2>1. StartInv'
    BY <1>9, <1>0 DEF HeartbeatSeen, EndTask, NoTask, TypeOK, Processes, StartInv, RowInv
  <2>2. (RowInv /\ ProcInv /\ PostInv /\ EntryInv /\ ReapedRowGone /\ ActiveRowHasProcess /\ TerminatedEntryHasNoRow /\ OrphanNeverActive)'
    BY <1>9 DEF HeartbeatSeen, EndTask, NoTask, RowInv, ProcInv, PostInv, EntryInv,
       ReapedRowGone, ActiveRowHasProcess, TerminatedEntryHasNoRow, OrphanNeverActive, Known,
       ExitPending, RowIsActive
  <2> QED
    BY <1>0, <2>1, <2>2
<1>10. ASSUME NEW t \in Tasks, ExecuteCommand(t) PROVE IInv'
  <2>1. ProcInv'
    BY <1>10, <1>0 DEF ExecuteCommand, EndTask, NoTask, SetTask, Alive, TypeOK, Processes,
       ProcInv, RowInv, StartInv
  <2>2. StartInv'
    <3>1. \A u \in Tasks : tk'[u].pc = "spawn" => tk[u].pc = "spawn" /\ tk'[u].id = tk[u].id
      BY <1>10 DEF ExecuteCommand, EndTask, NoTask, SetTask, TypeOK, TaskRecords
    <3>2. UNCHANGED <<born, late>>
      BY <1>10 DEF ExecuteCommand
    <3> QED
      BY <3>1, <3>2 DEF StartInv
  <2>3. PostInv'
    <3>1. \A q \in Procs : proc'[q].pc = proc[q].pc /\ proc'[q].id = proc[q].id
      BY <1>10 DEF ExecuteCommand, TypeOK, Processes, TaskRecords
    <3>2. UNCHANGED <<born, late, row, post>>
      BY <1>10 DEF ExecuteCommand
    <3> QED
      BY <3>1, <3>2 DEF PostInv
  <2>4. ReapedRowGone'
    BY <1>10, <1>0 DEF ExecuteCommand, EndTask, NoTask, SetTask, Alive, TypeOK, Processes,
       ReapedRowGone, ProcInv, RowInv, ExitPending
  <2>5. ActiveRowHasProcess'
    BY <1>10, <1>0 DEF ExecuteCommand, EndTask, NoTask, SetTask, Alive, TypeOK, Processes,
       ActiveRowHasProcess, RowInv, ProcInv, PostInv, ReapedRowGone, ExitPending, RowIsActive
  <2>6. (RowInv /\ EntryInv /\ TerminatedEntryHasNoRow /\ OrphanNeverActive)'
    BY <1>10 DEF ExecuteCommand, EndTask, NoTask, SetTask, Alive, RowInv, EntryInv,
       TerminatedEntryHasNoRow, OrphanNeverActive, Known
  <2> QED
    BY <1>0, <2>1, <2>2, <2>3, <2>4, <2>5, <2>6
<1>11. ASSUME NEW t \in Tasks, StateReached(t) PROVE IInv'
  <2>1. StartInv'
    BY <1>11, <1>0 DEF StateReached, EndTask, NoTask, TypeOK, Processes, StartInv, RowInv
  <2>2. (RowInv /\ ProcInv /\ PostInv /\ EntryInv /\ ReapedRowGone /\ ActiveRowHasProcess /\ TerminatedEntryHasNoRow /\ OrphanNeverActive)'
    BY <1>11 DEF StateReached, EndTask, NoTask, RowInv, ProcInv, PostInv, EntryInv,
       ReapedRowGone, ActiveRowHasProcess, TerminatedEntryHasNoRow, OrphanNeverActive, Known,
       ExitPending, RowIsActive
  <2> QED
    BY <1>0, <2>1, <2>2
<1>12. ASSUME NEW t \in Tasks, WaitTimeout(t) PROVE IInv'
  <2>1. StartInv'
    BY <1>12, <1>0 DEF WaitTimeout, EndTask, NoTask, TypeOK, Processes, StartInv, RowInv
  <2>2. (RowInv /\ ProcInv /\ PostInv /\ EntryInv /\ ReapedRowGone /\ ActiveRowHasProcess /\ TerminatedEntryHasNoRow /\ OrphanNeverActive)'
    BY <1>12 DEF WaitTimeout, EndTask, NoTask, RowInv, ProcInv, PostInv, EntryInv,
       ReapedRowGone, ActiveRowHasProcess, TerminatedEntryHasNoRow, OrphanNeverActive, Known,
       ExitPending, RowIsActive
  <2> QED
    BY <1>0, <2>1, <2>2
<1>13. ASSUME NEW p \in Procs, SendHeartbeat(p) PROVE IInv'
  <2>1. PostInv'
    BY <1>13, <1>0 DEF SendHeartbeat, Alive, TypeOK, Processes, PostInv, RowInv, ProcInv
  <2>2. (RowInv /\ ProcInv /\ StartInv /\ EntryInv /\ ReapedRowGone /\ ActiveRowHasProcess /\ TerminatedEntryHasNoRow /\ OrphanNeverActive)'
    BY <1>13 DEF SendHeartbeat, Alive, RowInv, ProcInv, StartInv, EntryInv, ReapedRowGone,
       ActiveRowHasProcess, TerminatedEntryHasNoRow, OrphanNeverActive, Known, ExitPending,
       RowIsActive
  <2> QED
    BY <1>0, <2>1, <2>2
<1>14. ASSUME NEW p \in Procs, ResourceHandle(p) PROVE IInv'
  <2>1. RowInv'
    BY <1>14, <1>0 DEF ResourceHandle, RowAfterHeartbeat, HeartbeatAccepted, Idle, Answer410,
       Alive, TypeOK, Processes, RowInv
  <2>2. ProcInv'
    BY <1>14, <1>0 DEF ResourceHandle, RowAfterHeartbeat, HeartbeatAccepted, Idle, Answer410,
       Alive, TypeOK, Processes, ProcInv, RowInv, StartInv
  <2>3. PostInv'
    <3>1. \A q \in Procs : proc'[q].pc = proc[q].pc /\ proc'[q].id = proc[q].id
                              /\ proc'[q].own = proc[q].own
      BY <1>14 DEF ResourceHandle, Answer410, TypeOK, Processes
    <3>2. \A q \in Procs : post'[q].pc = "bus" => post[q].pc = "bus"
      BY <1>14 DEF ResourceHandle, Idle, TypeOK, Posts
    <3>3. \A q \in Procs : post'[q].pc = "apply" =>
             \/ post[q].pc = "apply" /\ post'[q].st = post[q].st
             \/ /\ q = p /\ post[q].pc = "bus" /\ post'[q].st = post[q].st
                /\ HeartbeatAccepted(proc[q].id, post[q].st)
      BY <1>14 DEF ResourceHandle, Idle, TypeOK, Posts
    <3>4. \A q \in Procs : post'[q].pc # "idle" => post[q].pc # "idle"
      BY <1>14, <3>2, <3>3 DEF ResourceHandle, Idle, TypeOK, Posts
    <3>5. row' = [row EXCEPT ![proc[p].id] = RowAfterHeartbeat(proc[p].id, post[p].st)]
          /\ UNCHANGED <<born, late>>
      BY <1>14 DEF ResourceHandle
    <3>6. \A i \in Ids : row[i] = "absent" => row'[i] = "absent"
      BY <3>5 DEF RowAfterHeartbeat, TypeOK
    <3>7. post[p].st = "Terminated" => row'[proc[p].id] = "absent"
      BY <3>5 DEF RowAfterHeartbeat, TypeOK, Processes
    <3>8. \A q \in Procs : post'[q].pc = "apply" =>
             IF post'[q].st = "Terminated" THEN row'[proc'[q].id] = "absent"
                                           ELSE born'[proc'[q].id] = "this"
      BY <3>1, <3>3, <3>5, <3>6, <3>7
         DEF PostInv, RowInv, HeartbeatAccepted, TypeOK, Processes
    <3> QED
      BY <3>1, <3>4, <3>5, <3>8 DEF PostInv
  <2>4. ReapedRowGone'
    BY <1>14, <1>0 DEF ResourceHandle, RowAfterHeartbeat, HeartbeatAccepted, Idle, Answer410,
       Alive, TypeOK, Processes, ReapedRowGone, ProcInv, RowInv, ExitPending
  <2>5. ActiveRowHasProcess'
    <3>1. \A q \in Procs : proc'[q].pc = proc[q].pc /\ proc'[q].id = proc[q].id
                              /\ proc'[q].own = proc[q].own
      BY <1>14 DEF ResourceHandle, Answer410, TypeOK, Processes
    <3>2. row' = [row EXCEPT ![proc[p].id] = RowAfterHeartbeat(proc[p].id, post[p].st)]
          /\ UNCHANGED late
      BY <1>14 DEF ResourceHandle
    <3> SUFFICES ASSUME NEW i \in Ids, RowIsActive(i)'
                 PROVE  \/ ExitPending(i)
                        \/ \E q \in Procs : /\ proc[q].id = i /\ proc[q].own
                                            /\ proc[q].pc \in {"alive", "exited", "erased"}
      BY <3>1, <3>2 DEF ActiveRowHasProcess, ExitPending
    <3>3. CASE i # proc[p].id
      BY <3>2, <3>3 DEF ActiveRowHasProcess, RowIsActive, TypeOK
    <3>4. CASE i = proc[p].id
      <4>1. row[i] # "absent" /\ proc[p].pc # "free"
        BY <1>14, <3>2, <3>4 DEF RowIsActive, RowAfterHeartbeat, TypeOK, PostInv, ResourceHandle
      <4>2. proc[p].own /\ proc[p].pc # "gone"
        BY <4>1, <3>4 DEF ProcInv, RowInv, TypeOK, Processes
      <4>3. CASE proc[p].pc = "reaped"
        BY <4>1, <4>3, <3>4 DEF ReapedRowGone
      <4> QED
        BY <4>1, <4>2, <4>3, <3>4 DEF TypeOK, Processes
    <3> QED
      BY <3>3, <3>4
  <2>6. TerminatedEntryHasNoRow'
    BY <1>14, <1>0 DEF ResourceHandle, RowAfterHeartbeat, HeartbeatAccepted, Idle, Answer410,
       Alive, TypeOK, Processes, TerminatedEntryHasNoRow, RowInv, EntryInv, PostInv, Known
  <2>7. (StartInv /\ EntryInv /\ OrphanNeverActive)'
    BY <1>14 DEF ResourceHandle, RowAfterHeartbeat, HeartbeatAccepted, Idle, Answer410, Alive,
       StartInv, EntryInv, OrphanNeverActive, Known
  <2> QED
    BY <1>0, <2>1, <2>2, <2>3, <2>4, <2>5, <2>6, <2>7
<1>15. ASSUME NEW p \in Procs, BusTimeout(p) PROVE IInv'
  <2>1. ProcInv'
    BY <1>15, <1>0 DEF BusTimeout, Idle, Answer410, Alive, TypeOK, Processes, ProcInv, RowInv,
       StartInv
  <2>2. StartInv'
    BY <1>15, <1>0 DEF BusTimeout, Idle, Answer410, Alive, TypeOK, Processes, StartInv, RowInv
  <2>3. PostInv'
    BY <1>15, <1>0 DEF BusTimeout, Idle, Answer410, Alive, TypeOK, Processes, PostInv, RowInv,
       ProcInv
  <2>4. ReapedRowGone'
    BY <1>15, <1>0 DEF BusTimeout, Idle, Answer410, Alive, TypeOK, Processes, ReapedRowGone,
       ProcInv, RowInv, ExitPending
  <2>5. ActiveRowHasProcess'
    BY <1>15, <1>0 DEF BusTimeout, Idle, Answer410, Alive, TypeOK, Processes,
       ActiveRowHasProcess, RowInv, ProcInv, PostInv, ReapedRowGone, ExitPending, RowIsActive
  <2>6. (RowInv /\ EntryInv /\ TerminatedEntryHasNoRow /\ OrphanNeverActive)'
    BY <1>15 DEF BusTimeout, Idle, Answer410, Alive, RowInv, EntryInv,
       TerminatedEntryHasNoRow, OrphanNeverActive, Known
  <2> QED
    BY <1>0, <2>1, <2>2, <2>3, <2>4, <2>5, <2>6
<1>16. ASSUME NEW p \in Procs, ApplyHeartbeat(p) PROVE IInv'
  <2>1. ProcInv'
    BY <1>16, <1>0 DEF ApplyHeartbeat, Idle, TypeOK, Processes, ProcInv, RowInv, StartInv
  <2>2. PostInv'
    BY <1>16, <1>0 DEF ApplyHeartbeat, Idle, TypeOK, Processes, PostInv, RowInv, ProcInv
  <2>3. EntryInv'
    BY <1>16, <1>0 DEF ApplyHeartbeat, Idle, TypeOK, Processes, EntryInv, PostInv, ProcInv,
       Known
  <2>4. ReapedRowGone'
    BY <1>16, <1>0 DEF ApplyHeartbeat, Idle, TypeOK, Processes, ReapedRowGone, ProcInv,
       RowInv, ExitPending
  <2>5. ActiveRowHasProcess'
    BY <1>16, <1>0 DEF ApplyHeartbeat, Idle, TypeOK, Processes, ActiveRowHasProcess, RowInv,
       ProcInv, PostInv, ReapedRowGone, ExitPending, RowIsActive
  <2>6. TerminatedEntryHasNoRow'
    BY <1>16, <1>0 DEF ApplyHeartbeat, Idle, TypeOK, Processes, TerminatedEntryHasNoRow,
       RowInv, EntryInv, PostInv, Known
  <2>7. OrphanNeverActive'
    BY <1>16, <1>0 DEF ApplyHeartbeat, Idle, TypeOK, Processes, OrphanNeverActive, PostInv
  <2>8. (RowInv /\ StartInv)'
    BY <1>16 DEF ApplyHeartbeat, Idle, RowInv, StartInv
  <2> QED
    BY <1>0, <2>1, <2>2, <2>3, <2>4, <2>5, <2>6, <2>7, <2>8
<1>17. ASSUME NEW p \in Procs, NEW s \in Reported, AbilityStep(p, s) PROVE IInv'
  <2>1. ProcInv'
    BY <1>17, <1>0 DEF AbilityStep, Alive, TypeOK, Processes, ProcInv, RowInv, StartInv
  <2>2. PostInv'
    BY <1>17, <1>0 DEF AbilityStep, Alive, TypeOK, Processes, PostInv, RowInv, ProcInv
  <2>3. ReapedRowGone'
    BY <1>17, <1>0 DEF AbilityStep, Alive, TypeOK, Processes, ReapedRowGone, ProcInv, RowInv,
       ExitPending
  <2>4. ActiveRowHasProcess'
    BY <1>17, <1>0 DEF AbilityStep, Alive, TypeOK, Processes, ActiveRowHasProcess, RowInv,
       ProcInv, PostInv, ReapedRowGone, ExitPending, RowIsActive
  <2>5. (RowInv /\ StartInv /\ EntryInv /\ TerminatedEntryHasNoRow /\ OrphanNeverActive)'
    BY <1>17 DEF AbilityStep, Alive, RowInv, StartInv, EntryInv, TerminatedEntryHasNoRow,
       OrphanNeverActive, Known
  <2> QED
    BY <1>0, <2>1, <2>2, <2>3, <2>4, <2>5
<1>18. ASSUME NEW p \in Procs, ProcessExit(p) PROVE IInv'
  <2>1. ProcInv'
    BY <1>18, <1>0 DEF ProcessExit, Alive, TypeOK, Processes, ProcInv, RowInv, StartInv
  <2>2. PostInv'
    BY <1>18, <1>0 DEF ProcessExit, Alive, TypeOK, Processes, PostInv, RowInv, ProcInv
  <2>3. ReapedRowGone'
    BY <1>18, <1>0 DEF ProcessExit, Alive, TypeOK, Processes, ReapedRowGone, ProcInv, RowInv,
       ExitPending
  <2>4. ActiveRowHasProcess'
    BY <1>18, <1>0 DEF ProcessExit, Alive, TypeOK, Processes, ActiveRowHasProcess, RowInv,
       ProcInv, PostInv, ReapedRowGone, ExitPending, RowIsActive
  <2>5. (RowInv /\ StartInv /\ EntryInv /\ TerminatedEntryHasNoRow /\ OrphanNeverActive)'
    BY <1>18 DEF ProcessExit, Alive, RowInv, StartInv, EntryInv, TerminatedEntryHasNoRow,
       OrphanNeverActive, Known
  <2> QED
    BY <1>0, <2>1, <2>2, <2>3, <2>4, <2>5
<1>19. ASSUME NEW p \in Procs, ExitErase(p) PROVE IInv'
  <2>1. ProcInv'
    BY <1>19, <1>0 DEF ExitErase, NoEntry, TypeOK, Processes, ProcInv, RowInv, StartInv
  <2>2. PostInv'
    BY <1>19, <1>0 DEF ExitErase, NoEntry, TypeOK, Processes, PostInv, RowInv, ProcInv
  <2>3. EntryInv'
    BY <1>19, <1>0 DEF ExitErase, NoEntry, TypeOK, Processes, EntryInv, PostInv, ProcInv, Known
  <2>4. ReapedRowGone'
    BY <1>19, <1>0 DEF ExitErase, NoEntry, TypeOK, Processes, ReapedRowGone, ProcInv, RowInv,
       ExitPending
  <2>5. ActiveRowHasProcess'
    BY <1>19, <1>0 DEF ExitErase, NoEntry, TypeOK, Processes, ActiveRowHasProcess, RowInv,
       ProcInv, PostInv, ReapedRowGone, ExitPending, RowIsActive
  <2>6. TerminatedEntryHasNoRow'
    BY <1>19, <1>0 DEF ExitErase, NoEntry, TypeOK, Processes, TerminatedEntryHasNoRow, RowInv,
       EntryInv, PostInv, Known
  <2>7. OrphanNeverActive'
    BY <1>19, <1>0 DEF ExitErase, NoEntry, TypeOK, Processes, OrphanNeverActive, PostInv
  <2>8. (RowInv /\ StartInv)'
    BY <1>19 DEF ExitErase, NoEntry, RowInv, StartInv
  <2> QED
    BY <1>0, <2>1, <2>2, <2>3, <2>4, <2>5, <2>6, <2>7, <2>8
<1>20. ASSUME NEW p \in Procs, ExitDeleteRow(p) PROVE IInv'
  <2>1. RowInv'
    BY <1>20, <1>0 DEF ExitDeleteRow, TypeOK, Processes, RowInv
  <2>2. ProcInv'
    BY <1>20, <1>0 DEF ExitDeleteRow, TypeOK, Processes, ProcInv, RowInv, StartInv
  <2>3. PostInv'
    BY <1>20, <1>0 DEF ExitDeleteRow, TypeOK, Processes, PostInv, RowInv, ProcInv
  <2>4. ReapedRowGone'
    BY <1>20, <1>0 DEF ExitDeleteRow, TypeOK, Processes, ReapedRowGone, ProcInv, RowInv,
       ExitPending
  <2>5. ActiveRowHasProcess'
    BY <1>20, <1>0 DEF ExitDeleteRow, TypeOK, Processes, ActiveRowHasProcess, RowInv, ProcInv,
       PostInv, ReapedRowGone, ExitPending, RowIsActive
  <2>6. TerminatedEntryHasNoRow'
    BY <1>20, <1>0 DEF ExitDeleteRow, TypeOK, Processes, TerminatedEntryHasNoRow, RowInv,
       EntryInv, PostInv, Known
  <2>7. (StartInv /\ EntryInv /\ OrphanNeverActive)'
    BY <1>20 DEF ExitDeleteRow, StartInv, EntryInv, OrphanNeverActive, Known
  <2> QED
    BY <1>0, <2>1, <2>2, <2>3, <2>4, <2>5, <2>6, <2>7
<1>21. ASSUME NEW p \in Procs, ExitTimeout(p) PROVE IInv'
  <2>1. ProcInv'
    BY <1>21, <1>0 DEF ExitTimeout, TypeOK, Processes, ProcInv, RowInv, StartInv
  <2>2. StartInv'
    BY <1>21, <1>0 DEF ExitTimeout, TypeOK, Processes, StartInv, RowInv
  <2>3. PostInv'
    BY <1>21, <1>0 DEF ExitTimeout, TypeOK, Processes, PostInv, RowInv, ProcInv
  <2>4. ReapedRowGone'
    BY <1>21, <1>0 DEF ExitTimeout, TypeOK, Processes, ReapedRowGone, ProcInv, RowInv,
       ExitPending
  <2>5. ActiveRowHasProcess'
    BY <1>21, <1>0 DEF ExitTimeout, TypeOK, Processes, ActiveRowHasProcess, RowInv, ProcInv,
       PostInv, ReapedRowGone, ExitPending, RowIsActive
  <2>6. (RowInv /\ EntryInv /\ TerminatedEntryHasNoRow /\ OrphanNeverActive)'
    BY <1>21 DEF ExitTimeout, RowInv, EntryInv, TerminatedEntryHasNoRow, OrphanNeverActive,
       Known
  <2> QED
    BY <1>0, <2>1, <2>2, <2>3, <2>4, <2>5, <2>6
<1>22. ASSUME NEW m \in late, LateHeartbeat(m) PROVE IInv'
  <2>1. RowInv'
    BY <1>22, <1>0 DEF LateHeartbeat, RowAfterHeartbeat, TypeOK, Processes, RowInv
  <2>2. StartInv'
    BY <1>22, <1>0 DEF LateHeartbeat, RowAfterHeartbeat, TypeOK, Processes, StartInv, RowInv
  <2>3. PostInv'
    BY <1>22, <1>0 DEF LateHeartbeat, RowAfterHeartbeat, TypeOK, Processes, PostInv, RowInv,
       ProcInv
  <2>4. ReapedRowGone'
    BY <1>22, <1>0 DEF LateHeartbeat, RowAfterHeartbeat, TypeOK, Processes, ReapedRowGone,
       ProcInv, RowInv, ExitPending
  <2>5. ActiveRowHasProcess'
    BY <1>22, <1>0 DEF LateHeartbeat, RowAfterHeartbeat, TypeOK, Processes,
       ActiveRowHasProcess, RowInv, ProcInv, PostInv, ReapedRowGone, ExitPending, RowIsActive
  <2>6. TerminatedEntryHasNoRow'
    BY <1>22, <1>0 DEF LateHeartbeat, RowAfterHeartbeat, TypeOK, Processes,
       TerminatedEntryHasNoRow, RowInv, EntryInv, PostInv, Known
  <2>7. (ProcInv /\ EntryInv /\ OrphanNeverActive)'
    BY <1>22 DEF LateHeartbeat, RowAfterHeartbeat, ProcInv, EntryInv, OrphanNeverActive, Known
  <2> QED
    BY <1>0, <2>1, <2>2, <2>3, <2>4, <2>5, <2>6, <2>7
<1>23. ASSUME NEW m \in late, LateExited(m) PROVE IInv'
  <2>1. RowInv'
    BY <1>23, <1>0 DEF LateExited, TypeOK, Processes, RowInv
  <2>2. StartInv'
    BY <1>23, <1>0 DEF LateExited, TypeOK, Processes, StartInv, RowInv
  <2>3. PostInv'
    BY <1>23, <1>0 DEF LateExited, TypeOK, Processes, PostInv, RowInv, ProcInv
  <2>4. ReapedRowGone'
    BY <1>23, <1>0 DEF LateExited, TypeOK, Processes, ReapedRowGone, ProcInv, RowInv,
       ExitPending
  <2>5. ActiveRowHasProcess'
    BY <1>23, <1>0 DEF LateExited, TypeOK, Processes, ActiveRowHasProcess, RowInv, ProcInv,
       PostInv, ReapedRowGone, ExitPending, RowIsActive
  <2>6. TerminatedEntryHasNoRow'
    BY <1>23, <1>0 DEF LateExited, TypeOK, Processes, TerminatedEntryHasNoRow, RowInv,
       EntryInv, PostInv, Known
  <2>7. (ProcInv /\ EntryInv /\ OrphanNeverActive)'
    BY <1>23 DEF LateExited, ProcInv, EntryInv, OrphanNeverActive, Known
  <2> QED
    BY <1>0, <2>1, <2>2, <2>3, <2>4, <2>5, <2>6, <2>7
<1>24. ASSUME NEW m \in late, NEW p \in Procs, LateSpawn(m, p) PROVE IInv'
  <2>1. ProcInv'
    BY <1>24, <1>0 DEF LateSpawn, NewProc, FreeProc, TypeOK, Processes, ProcInv, RowInv,
       StartInv
  <2>2. StartInv'
    BY <1>24, <1>0 DEF LateSpawn, NewProc, FreeProc, TypeOK, Processes, StartInv, RowInv
  <2>3. PostInv'
    BY <1>24, <1>0 DEF LateSpawn, NewProc, FreeProc, TypeOK, Processes, PostInv, RowInv, ProcInv
  <2>4. ReapedRowGone'
    BY <1>24, <1>0 DEF LateSpawn, NewProc, FreeProc, TypeOK, Processes, ReapedRowGone,
       ProcInv, RowInv, ExitPending
  <2>5. ActiveRowHasProcess'
    BY <1>24, <1>0 DEF LateSpawn, NewProc, FreeProc, TypeOK, Processes, ActiveRowHasProcess,
       RowInv, ProcInv, PostInv, ReapedRowGone, ExitPending, RowIsActive
  <2>6. (RowInv /\ EntryInv /\ TerminatedEntryHasNoRow /\ OrphanNeverActive)'
    BY <1>24 DEF LateSpawn, NewProc, FreeProc, RowInv, EntryInv, TerminatedEntryHasNoRow,
       OrphanNeverActive, Known
  <2> QED
    BY <1>0, <2>1, <2>2, <2>3, <2>4, <2>5, <2>6
<1>25. ASSUME NEW i \in Ids, AgeEntry(i) PROVE IInv'
  <2>1. EntryInv'
    BY <1>25, <1>0 DEF AgeEntry, TypeOK, Processes, EntryInv, PostInv, ProcInv, Known
  <2>2. TerminatedEntryHasNoRow'
    BY <1>25, <1>0 DEF AgeEntry, TypeOK, Processes, TerminatedEntryHasNoRow, RowInv, EntryInv,
       PostInv, Known
  <2>3. OrphanNeverActive'
    BY <1>25, <1>0 DEF AgeEntry, TypeOK, Processes, OrphanNeverActive, PostInv
  <2>4. (RowInv /\ ProcInv /\ StartInv /\ PostInv /\ ReapedRowGone /\ ActiveRowHasProcess)'
    BY <1>25 DEF AgeEntry, RowInv, ProcInv, StartInv, PostInv, ReapedRowGone,
       ActiveRowHasProcess, ExitPending, RowIsActive
  <2> QED
    BY <1>0, <2>1, <2>2, <2>3, <2>4
<1>26. ASSUME NEW i \in Ids, EraseStale(i) PROVE IInv'
  <2>1. EntryInv'
    BY <1>26, <1>0 DEF EraseStale, NoEntry, TypeOK, Processes, EntryInv, PostInv, ProcInv, Known
  <2>2. TerminatedEntryHasNoRow'
    BY <1>26, <1>0 DEF EraseStale, NoEntry, TypeOK, Processes, TerminatedEntryHasNoRow,
       RowInv, EntryInv, PostInv, Known
  <2>3. OrphanNeverActive'
    BY <1>26, <1>0 DEF EraseStale, NoEntry, TypeOK, Processes, OrphanNeverActive, PostInv
  <2>4. (RowInv /\ ProcInv /\ StartInv /\ PostInv /\ ReapedRowGone /\ ActiveRowHasProcess)'
    BY <1>26 DEF EraseStale, NoEntry, RowInv, ProcInv, StartInv, PostInv, ReapedRowGone,
       ActiveRowHasProcess, ExitPending, RowIsActive
  <2> QED
    BY <1>0, <2>1, <2>2, <2>3, <2>4
<1>27. ASSUME CollectStale PROVE IInv'
  <2>1. (RowInv /\ ProcInv /\ StartInv /\ PostInv /\ EntryInv /\ ReapedRowGone /\ ActiveRowHasProcess /\ TerminatedEntryHasNoRow /\ OrphanNeverActive)'
    BY <1>27 DEF CollectStale, RowInv, ProcInv, StartInv, PostInv, EntryInv, ReapedRowGone,
       ActiveRowHasProcess, TerminatedEntryHasNoRow, OrphanNeverActive, Known, ExitPending,
       RowIsActive
  <2> QED
    BY <1>0, <2>1
<1>28. ASSUME NEW o \in BOOLEAN, FrameworkRestart(o) PROVE IInv'
  <2>1. RowInv'
    BY <1>28, <1>0 DEF FrameworkRestart, RowsAtStart, NoEntry, Idle, NoTask, Alive, TypeOK,
       Processes, RowInv
  <2>2. ProcInv'
    <3>1. \A i \in Ids : born'[i] = IF born[i] = "no" THEN "no" ELSE "previous"
      BY <1>28 DEF FrameworkRestart
    <3> SUFFICES ASSUME NEW p \in Procs, proc'[p].pc # "free"
                 PROVE  /\ ~proc'[p].own
                        /\ proc'[p].id \in Templates \/ born'[proc'[p].id] = "previous"
                        /\ proc'[p].pc \in {"alive", "gone"}
      BY DEF ProcInv
    <3>2. proc[p].pc # "free" /\ proc'[p].id = proc[p].id /\ ~proc'[p].own
          /\ proc'[p].pc \in {"alive", "gone"}
      BY <1>28 DEF FrameworkRestart, Alive, TypeOK, Processes
    <3> QED
      BY <3>1, <3>2 DEF ProcInv, TypeOK, Processes
  <2>3. StartInv'
    BY <1>28, <1>0 DEF FrameworkRestart, RowsAtStart, NoEntry, Idle, NoTask, Alive, TypeOK,
       Processes, StartInv, RowInv
  <2>4. PostInv'
    BY <1>28, <1>0 DEF FrameworkRestart, RowsAtStart, NoEntry, Idle, NoTask, Alive, TypeOK,
       Processes, PostInv, RowInv, ProcInv
  <2>5. EntryInv'
    BY <1>28, <1>0 DEF FrameworkRestart, RowsAtStart, NoEntry, Idle, NoTask, Alive, TypeOK,
       Processes, EntryInv, PostInv, ProcInv, Known
  <2>6. ReapedRowGone'
    BY <1>28, <1>0 DEF FrameworkRestart, RowsAtStart, NoEntry, Idle, NoTask, Alive, TypeOK,
       Processes, ReapedRowGone, ProcInv, RowInv, ExitPending
  <2>7. ActiveRowHasProcess'
    BY <1>28, <1>0 DEF FrameworkRestart, RowsAtStart, NoEntry, Idle, NoTask, Alive, TypeOK,
       Processes, ActiveRowHasProcess, RowInv, ProcInv, PostInv, ReapedRowGone, ExitPending,
       RowIsActive
  <2>8. TerminatedEntryHasNoRow'
    BY <1>28, <1>0 DEF FrameworkRestart, RowsAtStart, NoEntry, Idle, NoTask, Alive, TypeOK,
       Processes, TerminatedEntryHasNoRow, RowInv, EntryInv, PostInv, Known
  <2>9. OrphanNeverActive'
    BY <1>28, <1>0 DEF FrameworkRestart, RowsAtStart, NoEntry, Idle, NoTask, Alive, TypeOK,
       Processes, OrphanNeverActive, PostInv
  <2> QED
    BY <1>0, <2>1, <2>2, <2>3, <2>4, <2>5, <2>6, <2>7, <2>8, <2>9
<1>29. CASE UNCHANGED vars
  BY <1>29, <1>0 DEF vars, RowInv, ProcInv, StartInv, PostInv, EntryInv, ReapedRowGone,
     ActiveRowHasProcess, TerminatedEntryHasNoRow, OrphanNeverActive, ExitPending, Known,
     RowIsActive
<1> QED
  BY <1>1, <1>2, <1>3, <1>4, <1>5, <1>6, <1>7, <1>8, <1>9, <1>10, <1>11, <1>12, <1>13, <1>14,
     <1>15, <1>16, <1>17, <1>18, <1>19, <1>20, <1>21, <1>22, <1>23, <1>24, <1>25, <1>26,
     <1>27, <1>28, <1>29 DEF Next

-----------------------------------------------------------------------------
LEMMA Inductive == Spec => []IInv
BY InitIInv, StepIInv, PTL DEF Spec

\* Every table keeps its type, for all ids, states and bounds.
THEOREM TypeCorrect == Spec => []TypeOK
<1>1. IInv => TypeOK
  BY DEF IInv
<1> QED
  BY <1>1, Inductive, PTL

\* After on_ability_exit the row is gone, or its deletion is still on the bus.
THEOREM ReapedRowIsGone == Spec => []ReapedRowGone
<1>1. IInv => ReapedRowGone
  BY DEF IInv
<1> QED
  BY <1>1, Inductive, PTL

\* What blocks a singleton's next start is a child whose exit is not handled yet.
THEOREM ActiveRowsHaveProcesses == Spec => []ActiveRowHasProcess
<1>1. IInv => ActiveRowHasProcess
  BY DEF IInv
<1> QED
  BY <1>1, Inductive, PTL

\* The map shows Terminated only after on_event_heartbeat has deleted the row.
THEOREM TerminatedEntriesHaveNoRow == Spec => []TerminatedEntryHasNoRow
<1>1. IInv => TerminatedEntryHasNoRow
  BY DEF IInv
<1> QED
  BY <1>1, Inductive, PTL

\* on_heartbeat admits only registered ids in any state but Terminated.
THEOREM OrphansAreNeverActive == Spec => []OrphanNeverActive
<1>1. IInv => OrphanNeverActive
  BY DEF IInv
<1> QED
  BY <1>1, Inductive, PTL

\* No step brings a row back: on_event_heartbeat only updates, ids are fresh.
THEOREM NoGhostRows == Spec => RowNeverResurrected
<1> DEFINE Kept == \A i \in Ids : born[i] # "no" /\ row[i] = "absent" => row'[i] = "absent"
<1>1. ASSUME IInv, [Next]_vars PROVE [Kept]_vars
  <2> USE <1>1 DEF IInv, TypeOK
  <2>1. ASSUME NEW i \in Instances, CreateInstance(i) PROVE Kept
    BY <2>1 DEF CreateInstance
  <2>2. ASSUME NEW i \in Instances, DeleteRow(i) PROVE Kept
    BY <2>2 DEF DeleteRow
  <2>3. ASSUME NEW p \in Procs, ResourceHandle(p) PROVE Kept
    BY <2>3 DEF ResourceHandle, RowAfterHeartbeat
  <2>4. ASSUME NEW p \in Procs, ExitDeleteRow(p) PROVE Kept
    BY <2>4 DEF ExitDeleteRow
  <2>5. ASSUME NEW m \in late, LateHeartbeat(m) \/ LateExited(m) PROVE Kept
    BY <2>5 DEF LateHeartbeat, LateExited, RowAfterHeartbeat
  <2>6. ASSUME NEW o \in BOOLEAN, FrameworkRestart(o) PROVE Kept
    BY <2>6 DEF FrameworkRestart, RowsAtStart
  <2>7. CASE UNCHANGED row
    BY <2>7
  <2>8. ASSUME NEW t \in Tasks,
               \/ \E i \in Ids : StartRequest(i, t)
               \/ \E i \in Ids, c \in Commands : AdjustRequest(i, c, t)
               \/ \E i \in Instances : DeleteRequest(i, t)
               \/ \E p \in Procs : Spawn(t, p)
               \/ SpawnFails(t) \/ SpawnTimeout(t) \/ HeartbeatSeen(t)
               \/ ExecuteCommand(t) \/ StateReached(t) \/ WaitTimeout(t)
        PROVE  UNCHANGED row
    BY <2>8 DEF StartRequest, AdjustRequest, DeleteRequest, Spawn, SpawnFails, SpawnTimeout,
                HeartbeatSeen, ExecuteCommand, StateReached, WaitTimeout
  <2>9. ASSUME NEW p \in Procs,
               \/ SendHeartbeat(p) \/ BusTimeout(p) \/ ApplyHeartbeat(p)
               \/ \E s \in Reported : AbilityStep(p, s)
               \/ ProcessExit(p) \/ ExitErase(p) \/ ExitTimeout(p)
               \/ \E m \in late : LateSpawn(m, p)
        PROVE  UNCHANGED row
    BY <2>9 DEF SendHeartbeat, BusTimeout, ApplyHeartbeat, AbilityStep, ProcessExit,
                ExitErase, ExitTimeout, LateSpawn
  <2>10. ASSUME (\E i \in Ids : AgeEntry(i) \/ EraseStale(i)) \/ CollectStale
         PROVE  UNCHANGED row
    BY <2>10 DEF AgeEntry, EraseStale, CollectStale
  <2>11. CASE UNCHANGED vars
    BY <2>11 DEF vars
  <2> QED
    BY <2>1, <2>2, <2>3, <2>4, <2>5, <2>6, <2>7, <2>8, <2>9, <2>10, <2>11 DEF Next
<1> QED
  BY <1>1, Inductive, PTL DEF Spec, RowNeverResurrected, Kept

-----------------------------------------------------------------------------
(* The table and the map of heartbeats implement InstanceLife *)

Running == {"alive", "exited", "erased"}

\* What neither begins nor ends a process, nor tells the table of an end
LEMMA SameProcesses ==
    ASSUME TypeOK,
           \A p \in Procs : /\ proc'[p].id = proc[p].id /\ proc'[p].own = proc[p].own
                            /\ proc'[p].pc \in Running <=> proc[p].pc \in Running,
           \A i \in Ids : ExitPending(i)' <=> ExitPending(i)
    PROVE  UNCHANGED With
BY DEF With, Running

\* Steps that show in nothing that is promised
LEMMA Unseen ==
    ASSUME UNCHANGED <<row, born, hb, With>>
    PROVE  UNCHANGED Life!lifeVars
BY DEF Life!lifeVars, Seen

\* A process whose heartbeat finds a row is one of this run, or its end is on the bus
LEMMA Reporter ==
    ASSUME IInv, NEW p \in Procs, proc[p].pc # "free", row[proc[p].id] # "absent"
    PROVE  proc[p].id \in With
<1>1. proc[p].id \in Ids /\ born[proc[p].id] = "this" /\ proc[p].id \notin Templates
  BY DEF IInv, TypeOK, Processes, RowInv
<1>2. proc[p].own /\ proc[p].pc # "gone"
  BY <1>1 DEF IInv, TypeOK, Processes, ProcInv
<1>3. CASE proc[p].pc = "reaped"
  BY <1>1, <1>3 DEF IInv, ReapedRowGone, With
<1>4. CASE proc[p].pc # "reaped"
  BY <1>1, <1>2, <1>4 DEF IInv, TypeOK, Processes, With
<1> QED
  BY <1>3, <1>4

\* on_event_heartbeat: the state is reported, or the row removed or absent
LEMMA TableHears ==
    ASSUME IInv, NEW i \in Ids, NEW s \in LifecycleState, row[i] # "absent" => i \in With,
           row' = [row EXCEPT ![i] = RowAfterHeartbeat(i, s)], UNCHANGED <<born, hb, With>>
    PROVE  Life!Report(i, s) \/ Life!Remove(i)
<1>1. UNCHANGED Seen
  BY DEF Seen
<1>2. CASE s = "Terminated" \/ row[i] = "absent"
  BY <1>1, <1>2 DEF RowAfterHeartbeat, Life!Remove
<1>3. CASE ~(s = "Terminated" \/ row[i] = "absent")
  BY <1>1, <1>3 DEF RowAfterHeartbeat, Life!Report
<1> QED
  BY <1>2, <1>3

LEMMA CreateLives ==
    ASSUME IInv, NEW i \in Instances, CreateInstance(i)
    PROVE  Life!Create(i)
<1>1. UNCHANGED With /\ UNCHANGED Seen
  BY DEF CreateInstance, With, Seen, ExitPending
<1> QED
  BY <1>1 DEF CreateInstance, Life!Create

LEMMA BeginLives ==
    ASSUME IInv, NEW i \in Ids, NEW p \in Procs, FreeProc(p), i \in Templates \/ born[i] = "this",
           proc' = [proc EXCEPT ![p] = NewProc(i)],
           \A j \in Ids : ExitPending(j)' <=> ExitPending(j), UNCHANGED <<row, born, hb>>
    PROVE  Life!Begin(i)
<1>1. /\ proc'[p].id = i /\ proc'[p].own /\ proc'[p].pc = "alive"
      /\ \A q \in Procs \ {p} : proc'[q] = proc[q]
  BY DEF NewProc, IInv, TypeOK
<1>2. proc[p].pc = "free"
  BY DEF FreeProc
<1>3. With' = With \cup {i}
  BY <1>1, <1>2 DEF With
<1>4. UNCHANGED Seen
  BY DEF Seen
<1> QED
  BY <1>3, <1>4 DEF Life!Begin

LEMMA SpawnLives ==
    ASSUME IInv, NEW t \in Tasks, NEW p \in Procs, Spawn(t, p)
    PROVE  \E i \in Ids : Life!Begin(i)
<1>1. tk[t].id \in Ids /\ (tk[t].id \in Templates \/ born[tk[t].id] = "this")
  BY DEF Spawn, IInv, TypeOK, TaskRecords, StartInv
<1>2. \A j \in Ids : ExitPending(j)' <=> ExitPending(j)
  BY DEF Spawn, ExitPending
<1> QED
  BY <1>1, <1>2, BeginLives DEF Spawn

LEMMA LateSpawnLives ==
    ASSUME IInv, NEW m \in late, NEW p \in Procs, LateSpawn(m, p)
    PROVE  \E i \in Ids : Life!Begin(i)
<1>1. m.id \in Ids /\ (m.id \in Templates \/ born[m.id] = "this")
  BY DEF LateSpawn, IInv, TypeOK, StartInv
<1>2. \A j \in Ids : ExitPending(j)' <=> ExitPending(j)
  BY DEF LateSpawn, ExitPending
<1> QED
  BY <1>1, <1>2, BeginLives DEF LateSpawn

LEMMA ResourceHandleLives ==
    ASSUME IInv, NEW p \in Procs, ResourceHandle(p)
    PROVE  Life!Report(proc[p].id, post[p].st) \/ Life!Remove(proc[p].id)
<1>1. proc[p].id \in Ids /\ post[p].st \in LifecycleState /\ proc[p].pc # "free"
  BY DEF ResourceHandle, IInv, TypeOK, Processes, Posts, PostInv
<1>2. \A q \in Procs : /\ proc'[q].id = proc[q].id /\ proc'[q].own = proc[q].own
                       /\ proc'[q].pc = proc[q].pc
  BY DEF ResourceHandle, Answer410, IInv, TypeOK, Processes
<1>3. UNCHANGED With
  BY <1>2, SameProcesses DEF ResourceHandle, ExitPending, IInv
<1> QED
  BY <1>1, <1>3, Reporter, TableHears DEF ResourceHandle

LEMMA LateHeartbeatLives ==
    ASSUME IInv, NEW m \in late, LateHeartbeat(m)
    PROVE  Life!Report(m.id, m.st) \/ Life!Remove(m.id)
<1>1. m.id \in Ids /\ m.st \in LifecycleState
  BY DEF IInv, TypeOK
<1>2. PICK p \in Procs : proc[p].pc # "free" /\ proc[p].id = m.id
  BY DEF LateHeartbeat, IInv, PostInv
<1>3. \A i \in Ids : ExitPending(i)' <=> ExitPending(i)
  BY DEF LateHeartbeat, ExitPending
<1>4. UNCHANGED With
  BY <1>3, SameProcesses DEF LateHeartbeat, IInv
<1> QED
  BY <1>1, <1>2, <1>4, Reporter, TableHears DEF LateHeartbeat

LEMMA ApplyHeartbeatLives ==
    ASSUME IInv, NEW p \in Procs, ApplyHeartbeat(p)
    PROVE  Life!Hear(proc[p].id, post[p].st)
<1> DEFINE i == proc[p].id
           s == post[p].st
<1>1. i \in Ids /\ proc[p].pc # "free"
  BY DEF ApplyHeartbeat, IInv, TypeOK, Processes, PostInv
<1>2. Seen' = [Seen EXCEPT ![i] = s]
  BY <1>1 DEF ApplyHeartbeat, Seen, IInv, TypeOK
<1>3. \A q \in Procs : /\ proc'[q].id = proc[q].id /\ proc'[q].own = proc[q].own
                       /\ proc'[q].pc = proc[q].pc
  BY DEF ApplyHeartbeat, IInv, TypeOK, Processes
<1>4. UNCHANGED With
  BY <1>3, SameProcesses DEF ApplyHeartbeat, ExitPending, IInv
<1>5. i \in Templates \/ born[i] # "no"
  BY <1>1 DEF IInv, TypeOK, Processes, ProcInv
<1>6. IF s = "Terminated" THEN row[i] = "absent" ELSE born[i] = "this"
  BY DEF ApplyHeartbeat, IInv, PostInv
<1> QED
  BY <1>2, <1>4, <1>5, <1>6 DEF ApplyHeartbeat, Life!Hear

LEMMA ForgetLives ==
    ASSUME IInv, NEW i \in Ids, hb' = [hb EXCEPT ![i] = NoEntry], UNCHANGED <<row, born, With>>
    PROVE  Life!Forget(i)
<1>1. Seen' = [Seen EXCEPT ![i] = "none"]
  BY DEF Seen, NoEntry, IInv, TypeOK
<1> QED
  BY <1>1 DEF Life!Forget

LEMMA ExitEraseLives ==
    ASSUME IInv, NEW p \in Procs, ExitErase(p)
    PROVE  Life!Forget(proc[p].id)
<1>1. \A q \in Procs : /\ proc'[q].id = proc[q].id /\ proc'[q].own = proc[q].own
                       /\ proc'[q].pc \in Running <=> proc[q].pc \in Running
  BY DEF ExitErase, Running, IInv, TypeOK, Processes
<1>2. UNCHANGED With
  BY <1>1, SameProcesses DEF ExitErase, ExitPending, IInv
<1>3. proc[p].id \in Ids
  BY DEF IInv, TypeOK, Processes
<1> QED
  BY <1>2, <1>3, ForgetLives DEF ExitErase

\* DELETE, an exit and an exit told late remove the row
LEMMA RemoveLives ==
    ASSUME IInv, NEW i \in Ids, row' = [row EXCEPT ![i] = "absent"], UNCHANGED <<born, hb>>,
           \A j \in Ids \ {i} : HasProcess(j)' <=> HasProcess(j),
           HasProcess(i)' => HasProcess(i)
    PROVE  Life!Remove(i)
<1>1. With' = With \/ With' = With \ {i}
  <2>1. With' \subseteq With /\ \A j \in With \ {i} : j \in With'
    <3> HIDE DEF HasProcess
    <3> QED
      BY DEF With
  <2> QED
    BY <2>1
<1>2. UNCHANGED Seen
  BY DEF Seen
<1> QED
  BY <1>1, <1>2 DEF Life!Remove

LEMMA DeleteRowLives ==
    ASSUME IInv, NEW i \in Instances, DeleteRow(i)
    PROVE  Life!Remove(i)
<1>1. \A j \in Ids : HasProcess(j)' <=> HasProcess(j)
  BY DEF DeleteRow, ExitPending
<1>2. i \in Ids
  BY DEF Ids
<1> HIDE DEF HasProcess
<1> QED
  BY <1>1, <1>2, RemoveLives DEF DeleteRow

LEMMA ExitDeleteRowLives ==
    ASSUME IInv, NEW p \in Procs, ExitDeleteRow(p)
    PROVE  Life!Remove(proc[p].id)
<1>1. /\ \A q \in Procs \ {p} : proc'[q] = proc[q]
      /\ proc'[p].pc = "reaped" /\ proc'[p].id = proc[p].id /\ proc'[p].own = proc[p].own
      /\ proc[p].id \in Ids /\ proc[p].pc = "erased"
  BY DEF ExitDeleteRow, IInv, TypeOK, Processes
<1>2. \A j \in Ids : ExitPending(j)' <=> ExitPending(j)
  BY DEF ExitDeleteRow, ExitPending
<1>3. \A j \in Ids \ {proc[p].id} : HasProcess(j)' <=> HasProcess(j)
  BY <1>1, <1>2
<1>4. HasProcess(proc[p].id)' => HasProcess(proc[p].id)
  BY <1>1, <1>2
<1> HIDE DEF HasProcess
<1> QED
  BY <1>1, <1>3, <1>4, RemoveLives DEF ExitDeleteRow

LEMMA LateExitedLives ==
    ASSUME IInv, NEW m \in late, LateExited(m)
    PROVE  Life!Remove(m.id)
<1>1. m.id \in Ids /\ late' = late \ {m} /\ UNCHANGED proc
  BY DEF LateExited, IInv, TypeOK
<1>2. /\ \A j \in Ids \ {m.id} : ExitPending(j)' <=> ExitPending(j)
      /\ ExitPending(m.id)' => ExitPending(m.id)
  BY <1>1 DEF ExitPending
<1>3. \A j \in Ids \ {m.id} : HasProcess(j)' <=> HasProcess(j)
  BY <1>1, <1>2
<1>4. HasProcess(m.id)' => HasProcess(m.id)
  BY <1>1, <1>2
<1> HIDE DEF HasProcess
<1> QED
  BY <1>1, <1>3, <1>4, RemoveLives DEF LateExited

LEMMA RestartLives ==
    ASSUME IInv, NEW o \in BOOLEAN, FrameworkRestart(o)
    PROVE  Life!Restart
<1>1. Seen' = [i \in Ids |-> "none"]
  BY DEF FrameworkRestart, Seen, NoEntry
<1>2. With' = {}
  <2>1. \A p \in Procs : ~(proc'[p].own /\ proc'[p].pc \in Running)
    BY DEF FrameworkRestart, Alive, Running, IInv, TypeOK, Processes
  <2>2. \A i \in Ids : ~ExitPending(i)'
    BY DEF FrameworkRestart, ExitPending
  <2> QED
    BY <2>1, <2>2 DEF With, Running
<1> QED
  BY <1>1, <1>2 DEF FrameworkRestart, RowsAtStart, Life!Restart, Life!Ids, Ids

\* The end of a process is known to the framework, then on the bus, before the table
\* knows of it
LEMMA ExitTimeoutUnseen ==
    ASSUME IInv, NEW p \in Procs, ExitTimeout(p)
    PROVE  UNCHANGED With
<1>1. /\ \A q \in Procs \ {p} : proc'[q] = proc[q]
      /\ proc'[p].pc = "reaped" /\ proc'[p].id = proc[p].id /\ proc'[p].own = proc[p].own
      /\ proc[p].id \in Ids /\ proc[p].pc = "erased" /\ proc[p].own
  BY DEF ExitTimeout, IInv, TypeOK, Processes, ProcInv
<1>2. /\ \A j \in Ids \ {proc[p].id} : ExitPending(j)' <=> ExitPending(j)
      /\ ExitPending(proc[p].id)'
  BY DEF ExitTimeout, ExitPending
<1>3. \A j \in Ids : HasProcess(j)' <=> HasProcess(j)
  BY <1>1, <1>2
<1> HIDE DEF HasProcess
<1>4. With' \subseteq With /\ With \subseteq With'
  BY <1>3 DEF With
<1> QED
  BY <1>4

LEMMA ProcessesUnseen ==
    ASSUME IInv, NEW p \in Procs,
           \/ SendHeartbeat(p) \/ BusTimeout(p) \/ ProcessExit(p)
           \/ \E s \in Reported : AbilityStep(p, s)
    PROVE  UNCHANGED With
<1>1. \A q \in Procs : /\ proc'[q].id = proc[q].id /\ proc'[q].own = proc[q].own
                       /\ proc'[q].own => (proc'[q].pc \in Running <=> proc[q].pc \in Running)
  BY DEF SendHeartbeat, BusTimeout, Answer410, ProcessExit, AbilityStep, Alive, Running, IInv,
         TypeOK, Processes
<1>2. \A i \in Ids : ExitPending(i)' <=> ExitPending(i)
  BY DEF SendHeartbeat, BusTimeout, ProcessExit, AbilityStep, ExitPending
<1> QED
  BY <1>1, <1>2 DEF With, Running

LEMMA TasksUnseen ==
    ASSUME IInv, NEW t \in Tasks,
           \/ \E i \in Ids : StartRequest(i, t)
           \/ \E i \in Ids, c \in Commands : AdjustRequest(i, c, t)
           \/ \E i \in Instances : DeleteRequest(i, t)
           \/ SpawnFails(t) \/ SpawnTimeout(t) \/ HeartbeatSeen(t)
           \/ ExecuteCommand(t) \/ StateReached(t) \/ WaitTimeout(t)
    PROVE  UNCHANGED <<row, born, hb, With>>
<1>1. \A q \in Procs : /\ proc'[q].id = proc[q].id /\ proc'[q].own = proc[q].own
                       /\ proc'[q].pc = proc[q].pc
  <2>1. CASE ExecuteCommand(t)
    BY <2>1 DEF ExecuteCommand, IInv, TypeOK, Processes
  <2>2. CASE UNCHANGED proc
    BY <2>2
  <2> QED
    BY <2>1, <2>2 DEF StartRequest, AdjustRequest, DeleteRequest, SpawnFails, SpawnTimeout,
                      HeartbeatSeen, StateReached, WaitTimeout
<1>2. \A i \in Ids : ExitPending(i)' <=> ExitPending(i)
  BY DEF StartRequest, AdjustRequest, DeleteRequest, SpawnFails, SpawnTimeout,
         HeartbeatSeen, ExecuteCommand, StateReached, WaitTimeout, ExitPending
<1>3. UNCHANGED With
  BY <1>1, <1>2, SameProcesses DEF IInv
<1> QED
  BY <1>3 DEF StartRequest, AdjustRequest, DeleteRequest, SpawnFails, SpawnTimeout,
              HeartbeatSeen, ExecuteCommand, StateReached, WaitTimeout

\* What others see of instances is a life of InstanceLife, whatever the order of
\* heartbeats, exits, DELETE, cleanup and restarts, and whatever was given up
THEOREM LivesAsPromised == Spec => KeepsLife
<1>1. Init => Life!LifeInit
  <2> SUFFICES ASSUME Init PROVE Life!LifeInit
    OBVIOUS
  <2>1. With = {} /\ Seen = [i \in Ids |-> "none"]
    BY DEF Init, With, Seen, NoEntry, ExitPending
  <2> QED
    BY <2>1 DEF Init, Life!LifeInit, Life!Ids, Ids
<1>2. IInv /\ [Next]_vars => [Life!LifeNext]_(Life!lifeVars)
  <2> SUFFICES ASSUME IInv, [Next]_vars
               PROVE  Life!LifeNext \/ UNCHANGED Life!lifeVars
    OBVIOUS
  <2> DEFINE Done == Life!LifeNext \/ UNCHANGED Life!lifeVars
  <2>0. /\ Life!Ids = Ids
        /\ \A p \in Procs : proc[p].id \in Ids /\ post[p].st \in LifecycleState
        /\ \A m \in late : m.id \in Ids /\ m.st \in LifecycleState
    BY DEF Life!Ids, Ids, IInv, TypeOK, Processes, Posts
  <2>1. ASSUME NEW i \in Instances, CreateInstance(i) \/ DeleteRow(i) PROVE Done
    <3>1. Life!Create(i) \/ Life!Remove(i)
      BY <2>1, CreateLives, DeleteRowLives
    <3>2. i \in Ids
      BY DEF Ids
    <3> QED
      BY <2>0, <3>1, <3>2 DEF Life!LifeNext
  <2>2. ASSUME NEW t \in Tasks, NEW p \in Procs, Spawn(t, p) PROVE Done
    BY <2>0, <2>2, SpawnLives DEF Life!LifeNext
  <2>3. ASSUME NEW t \in Tasks,
               \/ \E i \in Ids : StartRequest(i, t)
               \/ \E i \in Ids, c \in Commands : AdjustRequest(i, c, t)
               \/ \E i \in Instances : DeleteRequest(i, t)
               \/ SpawnFails(t) \/ SpawnTimeout(t) \/ HeartbeatSeen(t)
               \/ ExecuteCommand(t) \/ StateReached(t) \/ WaitTimeout(t)
        PROVE  Done
    BY <2>3, TasksUnseen, Unseen
  <2>4. ASSUME NEW p \in Procs, ResourceHandle(p) PROVE Done
    BY <2>0, <2>4, ResourceHandleLives DEF Life!LifeNext
  <2>5. ASSUME NEW p \in Procs, ApplyHeartbeat(p) PROVE Done
    BY <2>0, <2>5, ApplyHeartbeatLives DEF Life!LifeNext
  <2>6. ASSUME NEW p \in Procs,
               \/ SendHeartbeat(p) \/ BusTimeout(p) \/ ProcessExit(p)
               \/ \E s \in Reported : AbilityStep(p, s)
        PROVE  Done
    <3>1. UNCHANGED <<row, born, hb>>
      BY <2>6 DEF SendHeartbeat, BusTimeout, ProcessExit, AbilityStep
    <3> QED
      BY <2>6, <3>1, ProcessesUnseen, Unseen
  <2>7. ASSUME NEW p \in Procs, ExitErase(p) PROVE Done
    BY <2>0, <2>7, ExitEraseLives DEF Life!LifeNext
  <2>8. ASSUME NEW p \in Procs, ExitDeleteRow(p) PROVE Done
    BY <2>0, <2>8, ExitDeleteRowLives DEF Life!LifeNext
  <2>9. ASSUME NEW p \in Procs, ExitTimeout(p) PROVE Done
    <3>1. UNCHANGED <<row, born, hb>>
      BY <2>9 DEF ExitTimeout
    <3> QED
      BY <2>9, <3>1, ExitTimeoutUnseen, Unseen
  <2>10. ASSUME NEW m \in late, LateHeartbeat(m) PROVE Done
    BY <2>0, <2>10, LateHeartbeatLives DEF Life!LifeNext
  <2>11. ASSUME NEW m \in late, LateExited(m) PROVE Done
    BY <2>0, <2>11, LateExitedLives DEF Life!LifeNext
  <2>12. ASSUME NEW m \in late, NEW p \in Procs, LateSpawn(m, p) PROVE Done
    BY <2>0, <2>12, LateSpawnLives DEF Life!LifeNext
  <2>13. ASSUME NEW i \in Ids, AgeEntry(i) PROVE Done
    <3>1. UNCHANGED Seen /\ UNCHANGED With /\ UNCHANGED <<row, born>>
      BY <2>13 DEF AgeEntry, Seen, With, ExitPending, IInv, TypeOK, Entries
    <3> QED
      BY <3>1 DEF Life!lifeVars
  <2>14. ASSUME NEW i \in Ids, EraseStale(i) PROVE Done
    <3>1. UNCHANGED With
      BY <2>14 DEF EraseStale, With, ExitPending
    <3> QED
      BY <2>0, <2>14, <3>1, ForgetLives DEF EraseStale, Life!LifeNext
  <2>15. ASSUME CollectStale \/ UNCHANGED vars PROVE Done
    BY <2>15, Unseen DEF CollectStale, vars, With, ExitPending
  <2>16. ASSUME NEW o \in BOOLEAN, FrameworkRestart(o) PROVE Done
    BY <2>16, RestartLives DEF Life!LifeNext
  <2> HIDE DEF Done
  <2>17. ASSUME NEW p \in Procs,
                \/ SendHeartbeat(p) \/ ResourceHandle(p) \/ BusTimeout(p) \/ ApplyHeartbeat(p)
                \/ \E s \in Reported : AbilityStep(p, s)
                \/ ProcessExit(p) \/ ExitErase(p) \/ ExitDeleteRow(p) \/ ExitTimeout(p)
         PROVE  Done
    BY <2>4, <2>5, <2>6, <2>7, <2>8, <2>9, <2>17
  <2>18. ASSUME NEW t \in Tasks,
                \/ \E i \in Ids : StartRequest(i, t)
                \/ \E i \in Ids, c \in Commands : AdjustRequest(i, c, t)
                \/ \E i \in Instances : DeleteRequest(i, t)
                \/ \E p \in Procs : Spawn(t, p)
                \/ SpawnFails(t) \/ SpawnTimeout(t) \/ HeartbeatSeen(t)
                \/ ExecuteCommand(t) \/ StateReached(t) \/ WaitTimeout(t)
         PROVE  Done
    BY <2>2, <2>3, <2>18
  <2>19. ASSUME NEW m \in late,
                LateHeartbeat(m) \/ LateExited(m) \/ \E p \in Procs : LateSpawn(m, p)
         PROVE  Done
    BY <2>10, <2>11, <2>12, <2>19
  <2>20. ASSUME Next PROVE Done
    BY <2>1, <2>13, <2>14, <2>15, <2>16, <2>17, <2>18, <2>19, <2>20 DEF Next
  <2> QED
    BY <2>15, <2>20 DEF Done
<1> QED
  BY <1>1, <1>2, Inductive, PTL DEF Spec, KeepsLife, Life!LifeSpec
=============================================================================
