-------------------------- MODULE ServiceLifecycle --------------------------
(***************************************************************************)
(* ServiceLifecycleManager: start, stop, restart policy and health checks   *)
(* of services. Every method runs under the mutex m, so each is one action; *)
(* Starting and Restarting are never seen outside it. An exit callback       *)
(* carries the service id and not the process: a callback of an earlier      *)
(* process acts on the present entry. run_health_checks treats the services  *)
(* one by one and they share no state, so a check of one service is an       *)
(* action. Process exits, and what a probe answers, are external.            *)
(***************************************************************************)
EXTENDS Naturals

CONSTANTS
    Services,
    Policy,       \* spec.restartPolicy: "always", "on-failure" or "never"
    MaxRestarts,  \* spec.maxRestarts
    HasProbe,     \* the services with an http liveness probe
    Threshold,    \* probe.failureThreshold
    MaxProcs,     \* bound: processes at a time over all services
    MaxStarts     \* bound: start_service calls per service

ASSUME ServiceAssumption ==
    /\ Policy \in [Services -> {"always", "on-failure", "never"}]
    /\ MaxRestarts \in [Services -> Nat]
    /\ HasProbe \subseteq Services
    /\ Threshold \in Nat \ {0}
    /\ MaxProcs \in Nat /\ MaxStarts \in Nat

Procs == 1 .. MaxProcs
NoProc == 0

VARIABLES
    state,         \* entry.state; "none" is no key in services
    restartCount,
    failures,      \* consecutiveHealthFailures
    handle,        \* process_handle_id
    proc,          \* the processes: [svc, pc, code]
    starts,        \* start_service calls so far
    spawns         \* history: start_process_fn calls since the last start_service

vars == <<state, restartCount, failures, handle, proc, starts, spawns>>

ExitCodes == {0, 1}
Processes == [svc : Services, pc : {"alive", "exited"}, code : ExitCodes]
Free == [pc |-> "free"]

TypeOK ==
    /\ state \in [Services -> {"none", "Running", "Failed", "Stopped"}]
    /\ restartCount \in [Services -> Nat]
    /\ failures \in [Services -> 0 .. Threshold - 1]
    /\ handle \in [Services -> Procs \cup {NoProc}]
    /\ proc \in [Procs -> Processes \cup {Free}]
    /\ starts \in [Services -> Nat]
    /\ spawns \in [Services -> Nat]

Init ==
    /\ state = [s \in Services |-> "none"]
    /\ restartCount = [s \in Services |-> 0]
    /\ failures = [s \in Services |-> 0]
    /\ handle = [s \in Services |-> NoProc]
    /\ proc = [p \in Procs |-> Free]
    /\ starts = [s \in Services |-> 0]
    /\ spawns = [s \in Services |-> 0]

-----------------------------------------------------------------------------
FreeProc(ps, p) == ps[p].pc = "free" /\ \A q \in Procs : q < p => ps[q].pc # "free"

NewProc(s) == [svc |-> s, pc |-> "alive", code |-> 0]

\* start_service: the new entry replaces any old one, whose process is not killed
StartService(s) ==
    /\ starts[s] < MaxStarts
    /\ starts' = [starts EXCEPT ![s] = @ + 1]
    /\ restartCount' = [restartCount EXCEPT ![s] = 0]
    /\ failures' = [failures EXCEPT ![s] = 0]
    /\ spawns' = [spawns EXCEPT ![s] = 1]
    /\ \/ \E p \in Procs :
            /\ FreeProc(proc, p)
            /\ proc' = [proc EXCEPT ![p] = NewProc(s)]
            /\ handle' = [handle EXCEPT ![s] = p]
            /\ state' = [state EXCEPT ![s] = "Running"]
       \/ /\ handle' = [handle EXCEPT ![s] = NoProc]
          /\ state' = [state EXCEPT ![s] = "Failed"]
          /\ UNCHANGED proc

\* stop_service only marks; killing the process is left to the caller
StopService(s) ==
    /\ state[s] # "none"
    /\ state' = [state EXCEPT ![s] = "Stopped"]
    /\ UNCHANGED <<restartCount, failures, handle, proc, starts, spawns>>

\* Fault: an off-by-one in the limit
should_restart_OffByOne(s, code) ==
    /\ Policy[s] # "never"
    /\ ~(Policy[s] = "on-failure" /\ code = 0)
    /\ restartCount[s] <= MaxRestarts[s]

should_restart(s, code) ==
    /\ Policy[s] # "never"
    /\ ~(Policy[s] = "on-failure" /\ code = 0)
    /\ restartCount[s] < MaxRestarts[s]

\* do_restart, from processes ps and f consecutive failures. The backoff is
\* computed and logged, not waited for.
\* Fault: a start that fails is not counted and leaves the entry as it was
do_restart_FailureIgnored(s, ps, f) ==
    \/ \E p \in Procs :
        /\ FreeProc(ps, p)
        /\ proc' = [ps EXCEPT ![p] = NewProc(s)]
        /\ handle' = [handle EXCEPT ![s] = p]
        /\ state' = [state EXCEPT ![s] = "Running"]
        /\ failures' = [failures EXCEPT ![s] = 0]
        /\ restartCount' = [restartCount EXCEPT ![s] = @ + 1]
        /\ spawns' = [spawns EXCEPT ![s] = @ + 1]
    \/ /\ proc' = ps
       /\ failures' = [failures EXCEPT ![s] = f]
       /\ UNCHANGED <<state, handle, restartCount, spawns>>
do_restart(s, ps, f) ==
    /\ restartCount' = [restartCount EXCEPT ![s] = @ + 1]
    /\ spawns' = [spawns EXCEPT ![s] = @ + 1]
    /\ \/ \E p \in Procs :
            /\ FreeProc(ps, p)
            /\ proc' = [ps EXCEPT ![p] = NewProc(s)]
            /\ handle' = [handle EXCEPT ![s] = p]
            /\ state' = [state EXCEPT ![s] = "Running"]
            /\ failures' = [failures EXCEPT ![s] = 0]
       \/ /\ proc' = ps
          /\ state' = [state EXCEPT ![s] = "Failed"]
          /\ failures' = [failures EXCEPT ![s] = f]
          /\ UNCHANGED handle

\* External: a process ends with some exit status
ProcessExit(p, code) ==
    /\ proc[p].pc = "alive"
    /\ proc' = [proc EXCEPT ![p] = [svc |-> @.svc, pc |-> "exited", code |-> code]]
    /\ UNCHANGED <<state, restartCount, failures, handle, starts, spawns>>

Fail(s) == state' = [state EXCEPT ![s] = "Failed"]

Done(p) == [proc EXCEPT ![p] = Free]

\* on_service_exit, the callback of process p
OnServiceExit(p) ==
    LET s == proc[p].svc
        restart == state[s] # "Stopped" /\ should_restart(s, proc[p].code)
    IN  /\ proc[p].pc = "exited"
        /\ IF restart THEN do_restart(s, Done(p), failures[s])
           ELSE /\ IF state[s] = "Stopped" THEN UNCHANGED state ELSE Fail(s)
                /\ proc' = Done(p)
                /\ UNCHANGED <<restartCount, failures, handle, spawns>>
        /\ UNCHANGED starts

\* run_health_checks for one service; only a Running one is probed. Fault: the
\* counter is not reset when the threshold is met
Probed(s) == s \in HasProbe /\ state[s] = "Running"

HealthCheckOk(s) ==
    /\ Probed(s)
    /\ failures' = [failures EXCEPT ![s] = 0]
    /\ UNCHANGED <<state, restartCount, handle, proc, starts, spawns>>

HealthCheckFails_NoReset(s) ==
    /\ Probed(s)
    /\ IF failures[s] + 1 >= Threshold
       THEN IF should_restart(s, 1) THEN do_restart(s, proc, failures[s] + 1)
            ELSE /\ Fail(s)
                 /\ failures' = [failures EXCEPT ![s] = @ + 1]
                 /\ UNCHANGED <<restartCount, handle, proc, spawns>>
       ELSE /\ failures' = [failures EXCEPT ![s] = @ + 1]
            /\ UNCHANGED <<state, restartCount, handle, proc, spawns>>
    /\ UNCHANGED starts
HealthCheckFails(s) ==
    /\ Probed(s)
    /\ IF failures[s] + 1 >= Threshold
       THEN IF should_restart(s, 1) THEN do_restart(s, proc, 0)
            ELSE /\ Fail(s)
                 /\ failures' = [failures EXCEPT ![s] = 0]
                 /\ UNCHANGED <<restartCount, handle, proc, spawns>>
       ELSE /\ failures' = [failures EXCEPT ![s] = @ + 1]
            /\ UNCHANGED <<state, restartCount, handle, proc, spawns>>
    /\ UNCHANGED starts

Next ==
    \/ \E s \in Services : StartService(s) \/ StopService(s)
    \/ \E p \in Procs, code \in ExitCodes : ProcessExit(p, code)
    \/ \E p \in Procs : OnServiceExit(p)
    \/ \E s \in Services : HealthCheckOk(s) \/ HealthCheckFails(s)

Spec == Init /\ [][Next]_vars

\* Every process ends some day (they keep crashing) and libuv delivers each exit
CrashSpec ==
    /\ Spec
    /\ \A p \in Procs : WF_vars(\E code \in ExitCodes : ProcessExit(p, code))
                        /\ WF_vars(OnServiceExit(p))

-----------------------------------------------------------------------------
Allowed(s) == 1 + (IF Policy[s] = "never" THEN 0 ELSE MaxRestarts[s])

\* One start_service spawns at most maxRestarts further processes, whatever mix
\* of exits, failed probes and callbacks of earlier processes restarts them.
SpawnsBounded == \A s \in Services : spawns[s] <= Allowed(s)

\* A Running entry's process is alive, or its exit callback is still to come:
\* a callback of an earlier process never leaves a Running entry without one.
RunningHasProcess ==
    \A s \in Services : state[s] = "Running" =>
        /\ handle[s] # NoProc
        /\ proc[handle[s]].pc \in {"alive", "exited"} /\ proc[handle[s]].svc = s

\* Nothing but start_service takes a service out of Stopped: no exit callback,
\* however late, and no health check spawns a process for it.
StoppedStays ==
    [][\A s \in Services : state[s] = "Stopped" /\ starts'[s] = starts[s] =>
            state'[s] = "Stopped" /\ spawns'[s] = spawns[s]]_vars

\* A service whose processes keep ending is not restarted for ever.
RestartsEnd == \A s \in Services : <>[](state[s] # "Running")
=============================================================================
