----------------------------- MODULE SpawnPolicy -----------------------------
(***************************************************************************)
(* Who starts instances of an ability: auto_start_ability at the end of      *)
(* every ResourceManager::update (autoStart once, keepAlive whenever no      *)
(* instance is active) and POST /api/instance. All of them look for active   *)
(* rows in AbilityInstance, but the row of an instance is Inactive until its *)
(* first heartbeat: what keeps two rounds from starting the same template    *)
(* twice is the start record of the template, its count and its last start.  *)
(* Time passes in ticks of ten seconds, the period of the timer.             *)
(***************************************************************************)
EXTENDS Naturals, FiniteSets

CONSTANTS
    Templates,    \* ids of rows of AbilityCRBasic
    AbilityOf,    \* the ability of a template
    Singleton, AutoStart, KeepAlive,   \* the templates with these flags
    MaxIds,       \* bound: instances that are not over at a time
    MaxRetry,     \* starts of a template by rounds, in the life of the framework: 3
    BootMax,      \* ticks from create_ability_instance to the first heartbeat
    MaxEvents     \* bound: requests, reinstalled CRs and restarts in all

Gap == 2          \* twenty seconds
Ids == 1..MaxIds

ASSUME SpawnAssumption ==
    /\ Templates # {}
    /\ Singleton \subseteq Templates /\ AutoStart \subseteq Templates
    /\ KeepAlive \subseteq Templates
    /\ MaxIds \in Nat \ {0} /\ MaxRetry \in Nat \ {0} /\ BootMax \in Nat
    /\ MaxEvents \in Nat
\* An ability boots in less time than its next start has to wait
ASSUME BootAssumption == BootMax < Gap

VARIABLES
    auto_started,   \* templates marked in AbilityCRBasic
    start_records,  \* [Templates -> retry_count and the ticks since last_start]
    inst,           \* instances: row in AbilityInstance, process, and who asked for it
    round,          \* auto_start_ability on the thread that holds m
    due,            \* the timer's round of this tick has not ended
    events

vars == <<auto_started, start_records, inst, round, due, events>>

\* An instance that is over or was never there, and a process without a row
AnyTemplate == CHOOSE t \in Templates : TRUE
NoInst == [of |-> AnyTemplate, row |-> "absent", proc |-> "none", by |-> "nobody"]
Orphan == [NoInst EXCEPT !.proc = "orphan"]

TypeOK ==
    /\ auto_started \subseteq AutoStart
    /\ start_records \in [Templates -> [retry_count : 0..MaxRetry, age : 0..Gap+1]]
    /\ inst \in [Ids -> [of : Templates, row : {"absent", "Inactive", "active"},
                         proc : {"none", "queued", "task", "booting", "up", "failed", "orphan"},
                         by : {"nobody", "round", "earlier", "http"}]]
    /\ round \in [at : {"idle", "autoStart", "keepAlive"}, todo : SUBSET Templates]
    /\ due \in BOOLEAN
    /\ events \in 0..MaxEvents
    /\ \A i \in Ids :
          /\ inst[i].row = "active" => inst[i].proc \in {"up", "none"}
          /\ inst[i].row = "absent" <=>
                inst[i].proc \in {"queued", "orphan"} \/ inst[i] = NoInst

NoRecord == [retry_count |-> 0, age |-> 0]

Init ==
    /\ auto_started = {}
    /\ start_records = [t \in Templates |-> NoRecord]
    /\ inst = [i \in Ids |-> NoInst]
    /\ round = [at |-> "idle", todo |-> {}] /\ due = TRUE
    /\ events = 0

Event == events < MaxEvents /\ events' = events + 1

-----------------------------------------------------------------------------
(* Rows and instances *)

\* An id is drawn anew; the model uses one that nobody holds
Unused == {i \in Ids : inst[i] = NoInst}
Fresh == CHOOSE i \in Unused : TRUE

OfAbility(t) == {i \in Ids : AbilityOf[inst[i].of] = AbilityOf[t]}

\* get_active_instances_by_ability_name. Fault: an Inactive row counts as active
active_instances_AllRows(t) == {i \in OfAbility(t) : inst[i].row # "absent"}
active_instances(t) == {i \in OfAbility(t) : inst[i].row = "active"}

Singled(t) == t \in Singleton /\ active_instances(t) # {}

create_ability_instance(t, who, row, proc) ==
    /\ Unused # {}
    /\ inst' = [inst EXCEPT ![Fresh] =
                   [of |-> t, row |-> row, proc |-> proc, by |-> who]]

-----------------------------------------------------------------------------
(* auto_start_ability *)

\* At a distance of two ticks a start may or may not be twenty seconds back
TooSoon(t) == start_records[t].retry_count > 0 /\ start_records[t].age <= Gap
LongAgo(t) == start_records[t].retry_count = 0 \/ start_records[t].age >= Gap

\* spawn_instance_from_template. Fault: the gap between two starts is not kept
spawn_NoGap(t) ==
    \/ /\ Singled(t) \/ start_records[t].retry_count >= MaxRetry
       /\ UNCHANGED <<start_records, inst>>
    \/ /\ ~Singled(t) /\ start_records[t].retry_count < MaxRetry
       /\ start_records' = [start_records EXCEPT ![t] =
                               [retry_count |-> @.retry_count + 1, age |-> 0]]
       /\ create_ability_instance(t, "round", "Inactive", "task")
spawn(t) ==
    \/ /\ Singled(t) \/ start_records[t].retry_count >= MaxRetry \/ TooSoon(t)
       /\ UNCHANGED <<start_records, inst>>
    \/ /\ ~Singled(t) /\ start_records[t].retry_count < MaxRetry /\ LongAgo(t)
       /\ start_records' = [start_records EXCEPT ![t] =
                               [retry_count |-> @.retry_count + 1, age |-> 0]]
       /\ create_ability_instance(t, "round", "Inactive", "task")

\* By the timer, or by an upload at any time
BeginRound ==
    /\ round.at = "idle"
    /\ round' = [at |-> "autoStart", todo |-> AutoStart \ auto_started]
    /\ UNCHANGED <<auto_started, start_records, inst, due, events>>

\* The mark is set before the start is tried, and stays if it is refused. Fault:
\* it is not set
AutoStartOne_NoMark(t) ==
    /\ round.at = "autoStart" /\ t \in round.todo
    /\ round' = [round EXCEPT !.todo = @ \ {t}]
    /\ spawn(t)
    /\ UNCHANGED <<auto_started, due, events>>
AutoStartOne(t) ==
    /\ round.at = "autoStart" /\ t \in round.todo
    /\ auto_started' = auto_started \cup {t}
    /\ round' = [round EXCEPT !.todo = @ \ {t}]
    /\ spawn(t)
    /\ UNCHANGED <<due, events>>

AutoStartDone ==
    /\ round.at = "autoStart" /\ round.todo = {}
    /\ round' = [at |-> "keepAlive", todo |-> KeepAlive]
    /\ UNCHANGED <<auto_started, start_records, inst, due, events>>

KeepAliveOne(t) ==
    /\ round.at = "keepAlive" /\ t \in round.todo
    /\ round' = [round EXCEPT !.todo = @ \ {t}]
    /\ IF active_instances(t) # {} THEN UNCHANGED <<start_records, inst>> ELSE spawn(t)
    /\ UNCHANGED <<auto_started, due, events>>

EndRound ==
    /\ round.at = "keepAlive" /\ round.todo = {}
    /\ round' = [round EXCEPT !.at = "idle"] /\ due' = FALSE
    /\ UNCHANGED <<auto_started, start_records, inst, events>>

-----------------------------------------------------------------------------
(* The HTTP handlers and the task they submit *)

\* The constraint is checked here, the row comes later
PostInstance(t) ==
    /\ Event
    /\ IF Singled(t) THEN UNCHANGED inst
       ELSE create_ability_instance(t, "http", "absent", "queued")
    /\ UNCHANGED <<auto_started, start_records, round, due>>

\* Fault: the task goes on when the row could not be written
CreateInstance_NoRow(i) ==
    /\ inst[i].proc = "queued"
    /\ inst' = [inst EXCEPT ![i].proc = "task"]
    /\ UNCHANGED <<auto_started, start_records, round, due, events>>
CreateInstance(i) ==
    /\ inst[i].proc = "queued"
    /\ inst' = [inst EXCEPT ![i].row = "Inactive", ![i].proc = "task"]
    /\ UNCHANGED <<auto_started, start_records, round, due, events>>

\* The row goes at once; a process that lives is told to terminate, one that boots
\* will be told by a 410, and a start that is yet to come will not find its row
DeleteInstance(i) ==
    /\ inst[i].row # "absent"
    /\ Event
    /\ inst' = [inst EXCEPT ![i] = IF @.proc \in {"none", "failed"} THEN NoInst ELSE Orphan]
    /\ UNCHANGED <<auto_started, start_records, round, due>>

-----------------------------------------------------------------------------
(* What the start task and the process do (AbilityLifecycle has the detail) *)

\* The row of a start that fails stays Inactive
StartProcess(i) ==
    /\ inst[i].proc = "task"
    /\ \/ inst' = [inst EXCEPT ![i].proc = "booting"]
       \/ inst' = [inst EXCEPT ![i].proc = "failed", ![i].by = "nobody"]
    /\ UNCHANGED <<auto_started, start_records, round, due, events>>

FirstHeartbeat(i) ==
    /\ inst[i].proc = "booting"
    /\ inst' = [inst EXCEPT ![i].row = "active", ![i].proc = "up"]
    /\ UNCHANGED <<auto_started, start_records, round, due, events>>

\* It stops or crashes; one that has no row ends
Exit(i) ==
    /\ inst[i].proc \in {"booting", "up", "orphan"}
    /\ inst' = [inst EXCEPT ![i] = IF @.row = "absent" THEN NoInst
                                   ELSE [@ EXCEPT !.proc = "none", !.by = "nobody"]]
    /\ UNCHANGED <<auto_started, start_records, round, due, events>>

\* on_ability_exit: the row goes
Reap(i) ==
    /\ inst[i].proc = "none" /\ inst[i].row # "absent"
    /\ inst' = [inst EXCEPT ![i] = NoInst]
    /\ UNCHANGED <<auto_started, start_records, round, due, events>>

-----------------------------------------------------------------------------
(* Time, templates, restarts *)

\* An instance that a round has created has sent its heartbeat within BootMax ticks
Late(i) ==
    /\ inst[i].by = "round" /\ inst[i].proc \in {"task", "booting"}
    /\ start_records[inst[i].of].age >= BootMax

AtMost(n, x) == IF x > n THEN n ELSE x
Tick ==
    /\ ~due /\ round.at = "idle" /\ \A i \in Ids : ~Late(i)
    /\ due' = TRUE
    /\ start_records' = [t \in Templates |-> [start_records[t] EXCEPT
                            !.age = IF start_records[t].retry_count = 0 THEN 0
                                    ELSE AtMost(Gap + 1, @ + 1)]]
    /\ UNCHANGED <<auto_started, inst, round, events>>

\* The file of a CR goes and comes back (CRSync): its row has another id, with no
\* mark and no start record
Reinstall(t) ==
    /\ Event
    /\ round.at = "idle"
    /\ auto_started' = auto_started \ {t}
    /\ start_records' = [start_records EXCEPT ![t] = NoRecord]
    /\ inst' = [i \in Ids |-> IF inst[i].of = t /\ inst[i].by = "round"
                              THEN [inst[i] EXCEPT !.by = "earlier"] ELSE inst[i]]
    /\ UNCHANGED <<round, due>>

\* The framework goes with its children. AbilityInstance is made anew, the marks
\* are reset, the records are gone
Restart ==
    /\ Event
    /\ auto_started' = {}
    /\ start_records' = [t \in Templates |-> NoRecord]
    /\ inst' = [i \in Ids |-> NoInst]
    /\ round' = [at |-> "idle", todo |-> {}] /\ due' = TRUE

-----------------------------------------------------------------------------

RoundStep ==
    \/ BeginRound \/ AutoStartDone \/ EndRound
    \/ \E t \in Templates : AutoStartOne(t) \/ KeepAliveOne(t)
Work(i) == CreateInstance(i) \/ StartProcess(i) \/ Reap(i)
Next ==
    \/ RoundStep \/ Tick \/ Restart
    \/ \E t \in Templates : PostInstance(t) \/ Reinstall(t)
    \/ \E i \in Ids : Work(i) \/ FirstHeartbeat(i) \/ Exit(i) \/ DeleteInstance(i)

Spec == Init /\ [][Next]_vars

\* The timer's rounds end, the clock goes on, tasks are worked off, and a process
\* that has been started sends a heartbeat or ends
Fairness ==
    /\ WF_vars(RoundStep) /\ SF_vars(Tick)
    /\ \A i \in Ids : WF_vars(Work(i)) /\ WF_vars(FirstHeartbeat(i) \/ Exit(i))
FairSpec == Spec /\ Fairness

-----------------------------------------------------------------------------
(* Properties *)

Live(i) == inst[i].row # "absent" /\ inst[i].proc \in {"task", "booting", "up"}

\* "singleton" (AbilityCRBasic), as far as a template is concerned: though a round
\* does not see the instance that is starting, two rounds, or the two lists of one
\* round, never give one template two live instances, if a boot takes less than
\* the gap between two starts
TemplateSingleton ==
    \A i, j \in Ids :
        /\ Live(i) /\ inst[i].by = "round" /\ inst[i].of \in Singleton
        /\ Live(j) /\ inst[j].by = "round" /\ inst[j].of = inst[i].of
        => i = j

\* "autoStart: once, after the framework has started": a template that is not kept
\* alive is started once at most, in any number of rounds
AutoOnce == \A t \in AutoStart \ KeepAlive : start_records[t].retry_count <= 1

HasActive(t) == \E i \in Ids : AbilityOf[inst[i].of] = AbilityOf[t] /\ inst[i].row = "active"

\* "keepAlive: started again when it has exited": an ability without an active
\* instance gets one, or its template has used up its starts. Rows of starts that
\* failed are not in the way
KeptAlive ==
    \A t \in KeepAlive :
        ~HasActive(t) ~> HasActive(t) \/ start_records[t].retry_count = MaxRetry

\* "1 = singleton (the default)": the singleton templates of an ability have one live
\* instance at most, whoever asked for it
AbilitySingleton ==
    \A i, j \in Ids :
        /\ Live(i) /\ inst[i].of \in Singleton
        /\ Live(j) /\ inst[j].of \in Singleton
        /\ AbilityOf[inst[j].of] = AbilityOf[inst[i].of]
        => i = j
=============================================================================
