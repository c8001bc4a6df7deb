-------------------------- MODULE AbilityLifecycle --------------------------
(***************************************************************************)
(* The life of ability instances in one framework process and across its   *)
(* restarts: LifecycleManager's heartbeat map, the AbilityInstance table    *)
(* of ResourceManager, the child processes of SubprocessManager and the    *)
(* lifecycle tasks, with the three kinds of threads that touch them:        *)
(*   - HTTP server threads: heartbeats, lifecycle requests, DELETE;         *)
(*   - message bus workers: the ResourceMgr and SubprocessMgr handlers,     *)
(*     which still run after the sender's send_sync has timed out;          *)
(*   - the libuv loop thread: exit callbacks, clear_stale_heartbeats,       *)
(*     the tasks of TaskManager.                                            *)
(* The ability process itself (the SDK) is external: it reports states by   *)
(* heartbeat, obeys lifecycle commands, and exits once it is terminated,    *)
(* or has been answered 410 or was sent SIGTERM.                            *)
(***************************************************************************)
EXTENDS Naturals, FiniteSets

CONSTANTS
    Instances,    \* instance ids that create_ability_instance may draw
    Templates,    \* CR ids: resolvable, but never in the AbilityInstance table
    Reported,     \* the lifecycle states an ability process reports
    Commands,     \* the lifecycle commands other than "start" that are sent
    MaxProcs,     \* bound: processes spawned, over all restarts
    MaxTasks,     \* bound: lifecycle tasks at a time
    MaxLate,      \* bound: bus messages that outlive their sender's timeout
    MaxRestarts   \* bound: restarts of the framework

LifecycleState == {"Unknown", "Inactive", "Init", "Standby", "Running",
                   "Suspend", "Terminated", "Error"}

ASSUME IdsAssumption ==
    /\ Instances # {}
    /\ Instances \cap Templates = {}
    /\ Reported \subseteq LifecycleState
    /\ Commands \subseteq {"connect", "disconnect", "terminate"}
ASSUME BoundsAssumption ==
    /\ MaxProcs \in Nat /\ MaxTasks \in Nat
    /\ MaxLate \in Nat /\ MaxRestarts \in Nat

Ids   == Instances \cup Templates
Procs == 1 .. MaxProcs
Tasks == 1 .. MaxTasks

VARIABLES
    row,       \* AbilityInstance table: the state column, or "absent"
    born,      \* when create_ability_instance drew the id: "no", "this" run, a "previous" run
    hb,        \* LifecycleManager::heartbeats: [st, from, fresh]; st = "none" is no key
    proc,      \* the ability processes: [id, st, pc, own, told]
    post,      \* the POST /api/ability-heartbeat a process has in flight: [pc, st]
    late,      \* bus messages whose send_sync has timed out, handlers still to run
    tk,        \* lifecycle tasks: [pc, id, cmd, to]
    stale,     \* stale_ids of the clear_stale_heartbeats in progress
    deleting,  \* ids in DELETE /api/instance between the request and the row's deletion
    restarts

vars == <<row, born, hb, proc, post, late, tk, stale, deleting, restarts>>

NoProc == 0
NoEntry == [st |-> "none", from |-> NoProc, fresh |-> FALSE]
AnyId == CHOOSE i \in Ids : TRUE
NoTask == [pc |-> "free", id |-> AnyId, cmd |-> "start", to |-> NoProc]
Idle == [pc |-> "idle", st |-> "Unknown"]

Message(op, i, s) == [op |-> op, id |-> i, st |-> s]
LateMessages ==
    [op : {"HeartbeatEvent", "ability_instance_exited", "start_process"},
     id : Ids, st : LifecycleState]

Entries == [st : LifecycleState \cup {"none"}, from : Procs \cup {NoProc}, fresh : BOOLEAN]
Processes == [id : Ids, st : LifecycleState,
              pc : {"free", "alive", "exited", "erased", "reaped", "gone"},
              own : BOOLEAN, told : BOOLEAN]
Posts == [pc : {"idle", "bus", "apply"}, st : LifecycleState]
TaskRecords == [pc : {"free", "spawn", "heard", "send", "reached"}, id : Ids,
                cmd : {"start", "terminate"} \cup Commands, to : Procs \cup {NoProc}]

TypeOK ==
    /\ row \in [Ids -> LifecycleState \cup {"absent"}]
    /\ born \in [Ids -> {"no", "this", "previous"}]
    /\ hb \in [Ids -> Entries]
    /\ proc \in [Procs -> Processes]
    /\ post \in [Procs -> Posts]
    /\ late \subseteq LateMessages
    /\ tk \in [Tasks -> TaskRecords]
    /\ stale \subseteq Ids
    /\ deleting \subseteq Instances
    /\ restarts \in Nat

-----------------------------------------------------------------------------
(* State functions of the code *)

\* inline bool is_active(LifecycleState)
is_active(s) == s \in {"Init", "Standby", "Running", "Suspend"}

contains_active(i) == hb[i].st # "none" /\ is_active(hb[i].st)

\* resolve_ability_cr_by_id: the instance's snapshot, else the CR template
resolve_ability_cr_by_id(i) == row[i] # "absent" \/ i \in Templates

\* get_active_instances_by_ability_name and the DELETE handler test the column
RowIsActive(i) == row[i] \notin {"absent", "Inactive", "Terminated"}

desired_state(c) == CASE c = "start"      -> "Standby"
                      [] c = "connect"    -> "Running"
                      [] c = "disconnect" -> "Suspend"
                      [] c = "terminate"  -> "Terminated"

\* ResourceManager::on_event_heartbeat, the row's value and the returned bool.
\* Faults: the INSERT fallback the code once had; the column text of a state
\* without a name; 200 for every sender
RowAfterHeartbeat_Inserts(i, s) == IF s = "Terminated" THEN "absent" ELSE s
RowAfterHeartbeat_NoName(i, s) ==
    IF s = "Terminated" \/ row[i] = "absent" THEN "absent" ELSE ""
HeartbeatAccepted_Always(i, s) == TRUE
RowAfterHeartbeat(i, s) ==
    IF s = "Terminated" \/ row[i] = "absent" THEN "absent" ELSE s
HeartbeatAccepted(i, s) == s = "Terminated" \/ row[i] # "absent"

\* The loop thread is inside clear_stale_heartbeats or an exit callback
LoopFree == stale = {} /\ \A p \in Procs : proc[p].pc # "erased"

Alive(p) == proc[p].pc = "alive"

\* Slots of the bounded tables are taken in order
FreeTask(t) == tk[t].pc = "free" /\ \A u \in Tasks : u < t => tk[u].pc # "free"
FreeProc(p) == proc[p].pc = "free" /\ \A q \in Procs : q < p => proc[q].pc # "free"
-----------------------------------------------------------------------------
Init ==
    /\ row = [i \in Ids |-> "absent"]
    /\ born = [i \in Ids |-> "no"]
    /\ hb = [i \in Ids |-> NoEntry]
    /\ proc = [p \in Procs |-> [id |-> AnyId, st |-> "Unknown", pc |-> "free",
                                own |-> TRUE, told |-> FALSE]]
    /\ tk = [t \in Tasks |-> NoTask]
    /\ post = [p \in Procs |-> Idle]
    /\ late = {}
    /\ stale = {}
    /\ deleting = {}
    /\ restarts = 0

-----------------------------------------------------------------------------
(* Requests *)

\* create_ability_instance: a fresh uuid, an 'Inactive' row
CreateInstance(i) ==
    /\ born[i] = "no"
    /\ row' = [row EXCEPT ![i] = "Inactive"]
    /\ born' = [born EXCEPT ![i] = "this"]
    /\ UNCHANGED <<hb, proc, post, late, tk, stale, deleting, restarts>>

\* on_lifecycle_request "start": make_start_ability_request, then submit
StartRequest(i, t) ==
    /\ FreeTask(t)
    /\ ~contains_active(i)
    /\ resolve_ability_cr_by_id(i)
    /\ tk' = [tk EXCEPT ![t] = [pc |-> "spawn", id |-> i, cmd |-> "start", to |-> NoProc]]
    /\ UNCHANGED <<row, born, hb, proc, post, late, stale, deleting, restarts>>

\* The task make_lifecycle_adjust_request builds; it captures entry.client now
AdjustTask(i, c) == [pc |-> "send", id |-> i, cmd |-> c, to |-> hb[i].from]

\* on_lifecycle_request with another command
AdjustRequest(i, c, t) ==
    /\ FreeTask(t)
    /\ contains_active(i)
    /\ tk' = [tk EXCEPT ![t] = AdjustTask(i, c)]
    /\ UNCHANGED <<row, born, hb, proc, post, late, stale, deleting, restarts>>

\* DELETE /api/instance/:id up to delete_ability_instance: an active row makes
\* it ask for "terminate" first, whose refusal is ignored
DeleteRequest(i, t) ==
    /\ i \notin deleting
    /\ row[i] # "absent"
    /\ FreeTask(t)
    /\ deleting' = deleting \cup {i}
    /\ tk' = IF RowIsActive(i) /\ contains_active(i)
             THEN [tk EXCEPT ![t] = AdjustTask(i, "terminate")] ELSE tk
    /\ UNCHANGED <<row, born, hb, proc, post, late, stale, restarts>>

DeleteRow(i) ==
    /\ i \in deleting
    /\ deleting' = deleting \ {i}
    /\ row' = [row EXCEPT ![i] = "absent"]
    /\ UNCHANGED <<born, hb, proc, post, late, tk, stale, restarts>>

-----------------------------------------------------------------------------
(* Lifecycle tasks, resumed by the loop thread *)

NewProc(i) == [id |-> i, st |-> "Unknown", pc |-> "alive", own |-> TRUE, told |-> FALSE]

SetTask(t, pc) == tk' = [tk EXCEPT ![t].pc = pc]

\* Finished or failed: TaskManager drops the task
EndTask(t) == tk' = [tk EXCEPT ![t] = NoTask]

\* start-process: SubprocessMgr answered in time with a process
Spawn(t, p) ==
    /\ LoopFree
    /\ tk[t].pc = "spawn"
    /\ FreeProc(p)
    /\ proc' = [proc EXCEPT ![p] = NewProc(tk[t].id)]
    /\ SetTask(t, "heard")
    /\ UNCHANGED <<row, born, hb, post, late, stale, deleting, restarts>>

\* ... or with an error (no executable, spawn failed)
SpawnFails(t) ==
    /\ LoopFree
    /\ tk[t].pc = "spawn"
    /\ EndTask(t)
    /\ UNCHANGED <<row, born, hb, proc, post, late, stale, deleting, restarts>>

\* ... or not within send_sync's timeout: the task fails, the message stays
SpawnTimeout(t) ==
    /\ LoopFree
    /\ tk[t].pc = "spawn"
    /\ Cardinality(late) < MaxLate
    /\ late' = late \cup {Message("start_process", tk[t].id, "Unknown")}
    /\ EndTask(t)
    /\ UNCHANGED <<row, born, hb, proc, post, stale, deleting, restarts>>

\* task_wait_for_heartbeat: heartbeats.contains(id)
HeartbeatSeen(t) ==
    /\ LoopFree
    /\ tk[t].pc = "heard"
    /\ hb[tk[t].id].st # "none"
    /\ EndTask(t)
    /\ UNCHANGED <<row, born, hb, proc, post, late, stale, deleting, restarts>>

\* task_send_lifecycle_operation on its worker thread: the process behind the
\* captured client obeys, or the call fails
ExecuteCommand(t) ==
    /\ tk[t].pc = "send"
    /\ \/ /\ tk[t].to # NoProc
          /\ Alive(tk[t].to)
          /\ desired_state(tk[t].cmd) \in Reported
          /\ proc[tk[t].to].st # "Terminated"
          /\ proc' = [proc EXCEPT ![tk[t].to].st = desired_state(tk[t].cmd)]
          /\ SetTask(t, "reached")
       \/ /\ EndTask(t)
          /\ UNCHANGED proc
    /\ UNCHANGED <<row, born, hb, post, late, stale, deleting, restarts>>

\* task_wait_for_lifecycle_state: entry.heartbeat.state == desired
StateReached(t) ==
    /\ LoopFree
    /\ tk[t].pc = "reached"
    /\ hb[tk[t].id].st = desired_state(tk[t].cmd)
    /\ EndTask(t)
    /\ UNCHANGED <<row, born, hb, proc, post, late, stale, deleting, restarts>>

\* Either wait ends after 15 s
WaitTimeout(t) ==
    /\ LoopFree
    /\ tk[t].pc \in {"heard", "reached"}
    /\ EndTask(t)
    /\ UNCHANGED <<row, born, hb, proc, post, late, stale, deleting, restarts>>

-----------------------------------------------------------------------------
(* Heartbeats *)

\* External: the SDK posts its state; one POST at a time
SendHeartbeat(p) ==
    /\ Alive(p)
    /\ post[p].pc = "idle"
    /\ proc[p].st # "Unknown"
    /\ post' = [post EXCEPT ![p] = [pc |-> "bus", st |-> proc[p].st]]
    /\ UNCHANGED <<row, born, hb, proc, late, tk, stale, deleting, restarts>>

\* HTTP 410, which reaches the process if it is still there
Answer410(p) == proc' = IF Alive(p) THEN [proc EXCEPT ![p].told = TRUE] ELSE proc

\* on_heartbeat_event on a bus worker, its answer within the timeout. Not
\* accepted: on_heartbeat leaves the map alone and HTTP answers 410
ResourceHandle(p) ==
    LET i == proc[p].id
        s == post[p].st
    IN  /\ post[p].pc = "bus"
        /\ row' = [row EXCEPT ![i] = RowAfterHeartbeat(i, s)]
        /\ IF HeartbeatAccepted(i, s)
           THEN /\ post' = [post EXCEPT ![p].pc = "apply"]
                /\ UNCHANGED proc
           ELSE /\ post' = [post EXCEPT ![p] = Idle]
                /\ Answer410(p)
        /\ UNCHANGED <<born, hb, late, tk, stale, deleting, restarts>>

\* send_sync timed out: treated as an orphan, while the message stays queued
BusTimeout(p) ==
    /\ post[p].pc = "bus"
    /\ Cardinality(late) < MaxLate
    /\ late' = late \cup {Message("HeartbeatEvent", proc[p].id, post[p].st)}
    /\ post' = [post EXCEPT ![p] = Idle]
    /\ Answer410(p)
    /\ UNCHANGED <<row, born, hb, tk, stale, deleting, restarts>>

\* Fault: only known keys are updated
ApplyHeartbeat_NoInsert(p) ==
    /\ post[p].pc = "apply"
    /\ hb' = IF hb[proc[p].id].st = "none" THEN hb
             ELSE [hb EXCEPT ![proc[p].id] =
                     [st |-> post[p].st, from |-> p, fresh |-> TRUE]]
    /\ post' = [post EXCEPT ![p] = Idle]
    /\ proc' = [proc EXCEPT ![p].told = FALSE]
    /\ UNCHANGED <<row, born, late, tk, stale, deleting, restarts>>

\* heartbeats.exec_on_key: insert or overwrite, the client follows the port
ApplyHeartbeat(p) ==
    /\ post[p].pc = "apply"
    /\ hb' = [hb EXCEPT ![proc[p].id] =
                 [st |-> post[p].st, from |-> p, fresh |-> TRUE]]
    /\ post' = [post EXCEPT ![p] = Idle]
    /\ proc' = [proc EXCEPT ![p].told = FALSE]
    /\ UNCHANGED <<row, born, late, tk, stale, deleting, restarts>>

-----------------------------------------------------------------------------
(* Handlers of messages whose senders have given up *)

LateHeartbeat(m) ==
    /\ m \in late /\ m.op = "HeartbeatEvent"
    /\ late' = late \ {m}
    /\ row' = [row EXCEPT ![m.id] = RowAfterHeartbeat(m.id, m.st)]
    /\ UNCHANGED <<born, hb, proc, post, tk, stale, deleting, restarts>>

LateExited(m) ==
    /\ m \in late /\ m.op = "ability_instance_exited"
    /\ late' = late \ {m}
    /\ row' = [row EXCEPT ![m.id] = "absent"]
    /\ UNCHANGED <<born, hb, proc, post, tk, stale, deleting, restarts>>

LateSpawn(m, p) ==
    /\ m \in late /\ m.op = "start_process"
    /\ FreeProc(p)
    /\ late' = late \ {m}
    /\ proc' = [proc EXCEPT ![p] = NewProc(m.id)]
    /\ UNCHANGED <<row, born, hb, post, tk, stale, deleting, restarts>>

-----------------------------------------------------------------------------
(* Processes and their exit *)

\* External: the ability moves through its lifecycle by itself
AbilityStep(p, s) ==
    /\ Alive(p)
    /\ proc[p].st # "Terminated" /\ s # proc[p].st
    /\ proc' = [proc EXCEPT ![p].st = s]
    /\ UNCHANGED <<row, born, hb, post, late, tk, stale, deleting, restarts>>

\* External: a process ends, by a crash or otherwise; only the framework that
\* spawned it is its parent and gets the exit event
ProcessExit(p) ==
    /\ Alive(p)
    /\ proc' = [proc EXCEPT ![p] = [id |-> proc[p].id, st |-> "Unknown",
                                    pc |-> IF proc[p].own THEN "exited" ELSE "gone",
                                    own |-> proc[p].own, told |-> FALSE]]
    /\ UNCHANGED <<row, born, hb, post, late, tk, stale, deleting, restarts>>

\* External: a process that was told to (410, SIGTERM) or is Terminated ends
SelfDestruct(p) == (proc[p].told \/ proc[p].st = "Terminated") /\ ProcessExit(p)

\* on_ability_exit up to heartbeats.erase
ExitErase(p) ==
    /\ LoopFree
    /\ proc[p].pc = "exited"
    /\ proc' = [proc EXCEPT ![p].pc = "erased"]
    /\ hb' = [hb EXCEPT ![proc[p].id] = NoEntry]
    /\ UNCHANGED <<row, born, post, late, tk, stale, deleting, restarts>>

\* ability_instance_exited answered: delete_ability_instance has run
ExitDeleteRow(p) ==
    /\ proc[p].pc = "erased"
    /\ proc' = [proc EXCEPT ![p].pc = "reaped"]
    /\ row' = [row EXCEPT ![proc[p].id] = "absent"]
    /\ UNCHANGED <<born, hb, post, late, tk, stale, deleting, restarts>>

\* ... or timed out, with only a warning
ExitTimeout(p) ==
    /\ proc[p].pc = "erased"
    /\ Cardinality(late) < MaxLate
    /\ proc' = [proc EXCEPT ![p].pc = "reaped"]
    /\ late' = late \cup {Message("ability_instance_exited", proc[p].id, "Unknown")}
    /\ UNCHANGED <<row, born, hb, post, tk, stale, deleting, restarts>>

-----------------------------------------------------------------------------
(* clear_stale_heartbeats: collect under the shard locks, then erase one by one *)

\* MAX_HEARTBEAT_VALID_TIME passes since the entry's last_update
AgeEntry(i) ==
    /\ hb[i].st # "none" /\ hb[i].fresh
    /\ hb' = [hb EXCEPT ![i].fresh = FALSE]
    /\ UNCHANGED <<row, born, proc, post, late, tk, stale, deleting, restarts>>

\* Fault: an active entry is taken for a live one
StaleIds_InactiveOnly == {i \in Ids : hb[i].st # "none" /\ ~hb[i].fresh /\ ~contains_active(i)}
StaleIds == {i \in Ids : hb[i].st # "none" /\ ~hb[i].fresh}

CollectStale ==
    /\ LoopFree
    /\ StaleIds # {}
    /\ stale' = StaleIds
    /\ UNCHANGED <<row, born, hb, proc, post, late, tk, deleting, restarts>>

EraseStale(i) ==
    /\ i \in stale
    /\ stale' = stale \ {i}
    /\ hb' = [hb EXCEPT ![i] = NoEntry]
    /\ UNCHANGED <<row, born, proc, post, late, tk, deleting, restarts>>

-----------------------------------------------------------------------------
\* What a start finds of the table. Fault: the old table is taken over
RowsAtStart_Kept == row
RowsAtStart == [i \in Ids |-> "absent"]

\* The framework stops and a new one starts: AbilityInstance is dropped and the
\* memory is gone. Children survive as orphans; SubprocessManager::on_exit has
\* sent them SIGTERM if the stop was orderly
FrameworkRestart(orderly) ==
    /\ restarts < MaxRestarts
    /\ restarts' = restarts + 1
    /\ row' = RowsAtStart
    /\ born' = [i \in Ids |-> IF born[i] = "no" THEN "no" ELSE "previous"]
    /\ hb' = [i \in Ids |-> NoEntry]
    /\ proc' = [p \in Procs |->
                  CASE proc[p].pc = "free" -> proc[p]
                    [] Alive(p) -> [proc[p] EXCEPT
                                      !.own = FALSE,
                                      !.told = IF orderly /\ proc[p].own THEN TRUE ELSE @]
                    [] OTHER -> [proc[p] EXCEPT !.own = FALSE, !.pc = "gone"]]
    /\ post' = [p \in Procs |-> Idle]
    /\ late' = {}
    /\ tk' = [t \in Tasks |-> NoTask]
    /\ stale' = {}
    /\ deleting' = {}

Next ==
    \/ \E i \in Instances : CreateInstance(i) \/ DeleteRow(i)
    \/ \E t \in Tasks :
        \/ \E i \in Ids : StartRequest(i, t)
        \/ \E i \in Ids, c \in Commands : AdjustRequest(i, c, t)
        \/ \E i \in Instances : DeleteRequest(i, t)
        \/ \E p \in Procs : Spawn(t, p)
        \/ SpawnFails(t) \/ SpawnTimeout(t) \/ HeartbeatSeen(t)
        \/ ExecuteCommand(t) \/ StateReached(t) \/ WaitTimeout(t)
    \/ \E p \in Procs :
        \/ SendHeartbeat(p) \/ ResourceHandle(p) \/ BusTimeout(p) \/ ApplyHeartbeat(p)
        \/ \E s \in Reported : AbilityStep(p, s)
        \/ ProcessExit(p) \/ ExitErase(p) \/ ExitDeleteRow(p) \/ ExitTimeout(p)
    \/ \E m \in late :
        \/ LateHeartbeat(m) \/ LateExited(m)
        \/ \E p \in Procs : LateSpawn(m, p)
    \/ \E i \in Ids : AgeEntry(i) \/ EraseStale(i)
    \/ CollectStale
    \/ \E orderly \in BOOLEAN : FrameworkRestart(orderly)

Spec == Init /\ [][Next]_vars

-----------------------------------------------------------------------------
(* Fairness. The loop thread runs every ready callback (libuv), so what is    *)
(* only kept waiting by other callbacks gets its turn: SF where the guard is   *)
(* LoopFree. A bus worker handles every queued message (WF); not every         *)
(* send_sync of an ability times out (SF on ResourceHandle). A minute without  *)
(* a heartbeat passes only for an id that no live process reports for. The     *)
(* SDK boots, posts its state, and ends itself when told.                      *)

Silent(i) == ~\E p \in Procs : proc[p].id = i /\ (Alive(p) \/ post[p].pc # "idle")

Boot(p) == proc[p].st = "Unknown" /\ \E s \in Reported : AbilityStep(p, s)

TaskStep(t) ==
    \/ \E p \in Procs : Spawn(t, p)
    \/ SpawnFails(t) \/ SpawnTimeout(t) \/ HeartbeatSeen(t)
    \/ ExecuteCommand(t) \/ StateReached(t) \/ WaitTimeout(t)

SdkFairness ==
    \A p \in Procs : WF_vars(Boot(p)) /\ WF_vars(SendHeartbeat(p)) /\ WF_vars(SelfDestruct(p))

HeartbeatFairness ==
    \A p \in Procs : WF_vars(ResourceHandle(p) \/ BusTimeout(p)) /\ WF_vars(ApplyHeartbeat(p))

LoopFairness ==
    /\ \A t \in Tasks : SF_vars(TaskStep(t))
    /\ \A p \in Procs : SF_vars(ExitErase(p)) /\ WF_vars(ExitDeleteRow(p) \/ ExitTimeout(p))
    /\ \A i \in Ids : WF_vars(Silent(i) /\ AgeEntry(i)) /\ WF_vars(EraseStale(i))
    /\ SF_vars(CollectStale)

\* What makes an unregistered process end: nothing of the framework's own loop
OrphanSpec == Spec /\ SdkFairness /\ HeartbeatFairness

FairSpec ==
    /\ Spec /\ SdkFairness /\ HeartbeatFairness /\ LoopFairness
    /\ \A p \in Procs : SF_vars(ResourceHandle(p))
    /\ WF_vars(\E m \in late : LateHeartbeat(m) \/ LateExited(m))
    /\ \A i \in Instances : WF_vars(DeleteRow(i))

-----------------------------------------------------------------------------
(* Safety *)

\* A row that is gone never comes back: create_ability_instance draws fresh ids
\* and on_event_heartbeat only UPDATEs, so no late, reordered or orphan heartbeat
\* makes a ghost row.
RowNeverResurrected ==
    [][\A i \in Ids : born[i] # "no" /\ row[i] = "absent" => row'[i] = "absent"]_vars

ExitPending(i) == Message("ability_instance_exited", i, "Unknown") \in late

\* Once a child's exit has been handled its row is gone for good, unless the
\* notification to ResourceMgr timed out and is still queued on the bus.
ReapedRowGone ==
    \A p \in Procs : proc[p].pc = "reaped" =>
        row[proc[p].id] = "absent" \/ ExitPending(proc[p].id)

\* A child of this framework whose exit has not been handled, or is on the bus
HasProcess(i) ==
    \/ ExitPending(i)
    \/ \E p \in Procs : /\ proc[p].id = i /\ proc[p].own
                        /\ proc[p].pc \in {"alive", "exited", "erased"}

\* A row counted as active (which blocks a singleton's next start) belongs to a
\* child of this framework whose exit has not been handled, or is on the bus.
ActiveRowHasProcess == \A i \in Ids : RowIsActive(i) => HasProcess(i)

\* When the heartbeat map says Terminated (what a "terminate" task waits for)
\* the instance's row is already deleted.
TerminatedEntryHasNoRow ==
    \A i \in Ids : hb[i].st = "Terminated" => row[i] = "absent"

\* The map never shows an orphan (or a bare CR id) in a state other than
\* Terminated: contains_active can only be true of ids this run registered.
OrphanNeverActive ==
    \A i \in Ids : hb[i].st \notin {"none", "Terminated"} => born[i] = "this"

Seen == [i \in Ids |-> hb[i].st]
With == {i \in Ids : HasProcess(i)}
Life == INSTANCE InstanceLife WITH
    States <- LifecycleState, drawn <- born, shown <- row, seen <- Seen, with <- With

\* Table and map keep the promise of InstanceLife: a row is shown once, from creation
\* to removal, and says what processes of this run reported, although heartbeats,
\* exits, DELETE and the cleanup of stale entries cross in any order, some of them
\* after their sender has given up
KeepsLife == Life!LifeSpec

(* Liveness *)

\* A heartbeat applied after the exit callback leaves an entry for a dead
\* process; clear_stale_heartbeats removes every such entry.
GhostCleared ==
    \A i \in Ids : hb[i].st # "none" /\ Silent(i) ~> hb[i].st = "none" \/ ~Silent(i)

\* A process without a row (an orphan, a second process of an id whose first
\* one exited, one spawned after DELETE or from a bare CR id) ends.
OrphanDies ==
    \A p \in Procs : Alive(p) /\ row[proc[p].id] = "absent" ~> ~Alive(p)

\* A registered ability that stays up is listed again and again: an entry that
\* clear_stale_heartbeats erases just after a fresh heartbeat comes back.
LiveAbilityListed ==
    \A p \in Procs :
        <>[](Alive(p) /\ proc[p].st # "Terminated" /\ row[proc[p].id] # "absent")
            => []<>(hb[proc[p].id].st # "none")
=============================================================================
