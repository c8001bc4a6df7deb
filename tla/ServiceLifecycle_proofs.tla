----------------------- MODULE ServiceLifecycle_proofs -----------------------
(***************************************************************************)
(* The restart policy's safety properties, for every set of services, every *)
(* policy assignment and every limit.                                       *)
(***************************************************************************)
EXTENDS ServiceLifecycle, TLAPS

\* Each restart counts once, and only policies that restart ever count
CountInv ==
    \A s \in Services : /\ spawns[s] <= restartCount[s] + 1
                        /\ restartCount[s] <= MaxRestarts[s]
                        /\ Policy[s] = "never" => restartCount[s] = 0

IInv == TypeOK /\ CountInv /\ RunningHasProcess

LEMMA InitIInv == Init => IInv
<1> SUFFICES ASSUME Init PROVE IInv
  OBVIOUS
<1> QED
  BY ServiceAssumption DEF Init, IInv, TypeOK, CountInv, RunningHasProcess, NoProc, Free

\* A restart that is allowed keeps the invariant, from any processes ps in which
\* the processes of the other services' entries are those of proc
LEMMA RestartStep ==
    ASSUME IInv, NEW s \in Services, NEW ps \in [Procs -> Processes \cup {Free}],
           NEW f \in 0 .. Threshold - 1, do_restart(s, ps, f), UNCHANGED starts,
           Policy[s] # "never", restartCount[s] < MaxRestarts[s],
           \A p \in Procs : ps[p] = proc[p] \/ proc[p].svc = s
    PROVE  IInv'
<1> USE ServiceAssumption DEF IInv
<1>1. restartCount' = [restartCount EXCEPT ![s] = @ + 1]
      /\ spawns' = [spawns EXCEPT ![s] = @ + 1]
  BY DEF do_restart
<1>2. CountInv' /\ restartCount' \in [Services -> Nat] /\ spawns' \in [Services -> Nat]
  BY <1>1 DEF CountInv, TypeOK
<1>3. ASSUME NEW p \in Procs, ps[p].pc = "free",
             proc' = [ps EXCEPT ![p] = NewProc(s)],
             handle' = [handle EXCEPT ![s] = p],
             state' = [state EXCEPT ![s] = "Running"],
             failures' = [failures EXCEPT ![s] = 0]
      PROVE  IInv'
  <2>1. NewProc(s) \in Processes
    BY DEF NewProc, Processes, ExitCodes
  <2>2. TypeOK'
    BY <1>2, <1>3, <2>1 DEF TypeOK
  <2>3. ASSUME NEW z \in Services, state'[z] = "Running"
        PROVE  /\ handle'[z] # NoProc
               /\ proc'[handle'[z]].pc \in {"alive", "exited"} /\ proc'[handle'[z]].svc = z
    <3>1. CASE z = s
      BY <1>3, <3>1 DEF TypeOK, NewProc, NoProc, Procs
    <3>2. CASE z # s
      <4>1. state[z] = "Running" /\ handle'[z] = handle[z]
        BY <1>3, <2>3, <3>2 DEF TypeOK
      <4>2. handle[z] \in Procs /\ proc[handle[z]].pc \in {"alive", "exited"}
            /\ proc[handle[z]].svc = z /\ handle[z] # NoProc
        BY <4>1 DEF RunningHasProcess, TypeOK
      <4>3. ps[handle[z]] = proc[handle[z]] /\ handle[z] # p
        BY <1>3, <4>2, <3>2
      <4> QED
        BY <1>3, <4>1, <4>2, <4>3
    <3> QED
      BY <3>1, <3>2
  <2> QED
    BY <1>2, <2>2, <2>3 DEF RunningHasProcess
<1>4. ASSUME proc' = ps, state' = [state EXCEPT ![s] = "Failed"],
             failures' = [failures EXCEPT ![s] = f], UNCHANGED handle
      PROVE  IInv'
  <2>1. TypeOK'
    BY <1>2, <1>4 DEF TypeOK
  <2>2. RunningHasProcess'
    BY <1>4 DEF RunningHasProcess, TypeOK
  <2> QED
    BY <1>2, <2>1, <2>2
<1> QED
  BY <1>3, <1>4 DEF do_restart, FreeProc

LEMMA StepIInv == IInv /\ [Next]_vars => IInv'
<1> SUFFICES ASSUME IInv, [Next]_vars PROVE IInv'
  OBVIOUS
<1> USE ServiceAssumption DEF IInv
<1>1. ASSUME NEW s \in Services, StartService(s) PROVE IInv'
  <2>1. TypeOK'
    BY <1>1 DEF StartService, TypeOK, FreeProc, NewProc, Processes, ExitCodes
  <2>2. CountInv'
    BY <1>1 DEF StartService, CountInv, TypeOK
  <2>3. RunningHasProcess'
    <3>1. ASSUME NEW p \in Procs, proc[p].pc = "free",
                 proc' = [proc EXCEPT ![p] = NewProc(s)],
                 handle' = [handle EXCEPT ![s] = p],
                 state' = [state EXCEPT ![s] = "Running"]
          PROVE  RunningHasProcess'
      <4> SUFFICES ASSUME NEW z \in Services, state'[z] = "Running"
                   PROVE  /\ handle'[z] # NoProc
                          /\ proc'[handle'[z]].pc \in {"alive", "exited"}
                          /\ proc'[handle'[z]].svc = z
        BY DEF RunningHasProcess
      <4>1. CASE z = s
        BY <3>1, <4>1 DEF TypeOK, NewProc, NoProc, Procs
      <4>2. CASE z # s
        BY <3>1, <4>2 DEF TypeOK, RunningHasProcess
      <4> QED
        BY <4>1, <4>2
    <3>2. ASSUME state' = [state EXCEPT ![s] = "Failed"],
                 handle' = [handle EXCEPT ![s] = NoProc], UNCHANGED proc
          PROVE  RunningHasProcess'
      BY <3>2 DEF RunningHasProcess, TypeOK
    <3> QED
      BY <1>1, <3>1, <3>2 DEF StartService, FreeProc
  <2> QED
    BY <2>1, <2>2, <2>3
<1>2. ASSUME NEW s \in Services, StopService(s) PROVE IInv'
  BY <1>2 DEF StopService, TypeOK, CountInv, RunningHasProcess
<1>3. ASSUME NEW p \in Procs, NEW code \in ExitCodes, ProcessExit(p, code) PROVE IInv'
  <2>1. proc' = [proc EXCEPT ![p] = [svc |-> proc[p].svc, pc |-> "exited", code |-> code]]
        /\ proc[p] \in Processes
        /\ UNCHANGED <<state, restartCount, failures, handle, starts, spawns>>
    BY <1>3 DEF ProcessExit, TypeOK, Free
  <2>2. TypeOK'
    BY <2>1 DEF TypeOK, Processes
  <2>3. RunningHasProcess'
    BY <2>1 DEF RunningHasProcess, TypeOK
  <2> QED
    BY <2>1, <2>2, <2>3 DEF CountInv
<1>4. ASSUME NEW p \in Procs, OnServiceExit(p) PROVE IInv'
  <2> DEFINE s == proc[p].svc
  <2>1. proc[p] \in Processes /\ s \in Services /\ UNCHANGED starts
    BY <1>4 DEF OnServiceExit, TypeOK, Free, Processes
  <2>2. Done(p) \in [Procs -> Processes \cup {Free}]
        /\ \A q \in Procs : Done(p)[q] = proc[q] \/ proc[q].svc = s
    BY DEF Done, TypeOK
  <2>3. CASE state[s] # "Stopped" /\ should_restart(s, proc[p].code)
    <3>1. do_restart(s, Done(p), failures[s])
      BY <1>4, <2>3 DEF OnServiceExit
    <3> QED
      BY <2>1, <2>2, <2>3, <3>1, RestartStep DEF should_restart, TypeOK
  <2>4. CASE ~(state[s] # "Stopped" /\ should_restart(s, proc[p].code))
    <3>1. proc' = Done(p) /\ UNCHANGED <<restartCount, failures, handle, spawns, starts>>
          /\ (state' = [state EXCEPT ![s] = "Failed"] \/ (state[s] = "Stopped" /\ UNCHANGED state))
      BY <1>4, <2>4 DEF OnServiceExit, Fail
    <3>2. TypeOK'
      BY <2>1, <2>2, <3>1 DEF TypeOK
    <3>3. RunningHasProcess'
      BY <2>1, <2>2, <3>1 DEF RunningHasProcess, TypeOK
    <3> QED
      BY <3>1, <3>2, <3>3 DEF CountInv
  <2> QED
    BY <2>3, <2>4
<1>5. ASSUME NEW s \in Services, HealthCheckOk(s) PROVE IInv'
  BY <1>5 DEF HealthCheckOk, TypeOK, CountInv, RunningHasProcess
<1>6. ASSUME NEW s \in Services, HealthCheckFails(s) PROVE IInv'
  <2>1. CASE failures[s] + 1 >= Threshold /\ should_restart(s, 1)
    <3>1. do_restart(s, proc, 0) /\ UNCHANGED starts
      BY <1>6, <2>1 DEF HealthCheckFails
    <3> QED
      BY <2>1, <3>1, RestartStep DEF should_restart, TypeOK
  <2>2. CASE failures[s] + 1 >= Threshold /\ ~should_restart(s, 1)
    <3>1. state' = [state EXCEPT ![s] = "Failed"] /\ failures' = [failures EXCEPT ![s] = 0]
          /\ UNCHANGED <<restartCount, handle, proc, spawns, starts>>
      BY <1>6, <2>2 DEF HealthCheckFails, Fail
    <3> QED
      BY <3>1 DEF TypeOK, CountInv, RunningHasProcess
  <2>3. CASE ~(failures[s] + 1 >= Threshold)
    <3>1. failures' = [failures EXCEPT ![s] = failures[s] + 1]
          /\ UNCHANGED <<state, restartCount, handle, proc, spawns, starts>>
      BY <1>6, <2>3 DEF HealthCheckFails
    <3> QED
      BY <2>3, <3>1 DEF TypeOK, CountInv, RunningHasProcess
  <2> QED
    BY <2>1, <2>2, <2>3
<1>7. CASE UNCHANGED vars
  BY <1>7 DEF vars, TypeOK, CountInv, RunningHasProcess
<1> QED
  BY <1>1, <1>2, <1>3, <1>4, <1>5, <1>6, <1>7 DEF Next

LEMMA Inductive == Spec => []IInv
BY InitIInv, StepIInv, PTL DEF Spec

\* Types, with every failure counter below its threshold.
THEOREM TypeCorrect == Spec => []TypeOK
<1>1. IInv => TypeOK
  BY DEF IInv
<1> QED
  BY <1>1, Inductive, PTL

\* One start_service never leads to more than maxRestarts restarts.
THEOREM RestartsAreBounded == Spec => []SpawnsBounded
<1>1. IInv => SpawnsBounded
  <2> SUFFICES ASSUME IInv, NEW s \in Services PROVE spawns[s] <= Allowed(s)
    BY DEF SpawnsBounded
  <2>1. spawns[s] \in Nat /\ restartCount[s] \in Nat /\ MaxRestarts[s] \in Nat
    BY ServiceAssumption DEF IInv, TypeOK
  <2>2. /\ spawns[s] <= restartCount[s] + 1
        /\ restartCount[s] <= MaxRestarts[s]
        /\ Policy[s] = "never" => restartCount[s] = 0
    BY DEF IInv, CountInv
  <2>3. CASE Policy[s] = "never"
    BY <2>1, <2>2, <2>3 DEF Allowed
  <2>4. CASE Policy[s] # "never"
    BY <2>1, <2>2, <2>4 DEF Allowed
  <2> QED
    BY <2>3, <2>4
<1> QED
  BY <1>1, Inductive, PTL

\* A Running entry always has its own process, or that process' exit to come.
THEOREM RunningHasItsProcess == Spec => []RunningHasProcess
<1>1. IInv => RunningHasProcess
  BY DEF IInv
<1> QED
  BY <1>1, Inductive, PTL

\* Only start_service takes a service out of Stopped.
THEOREM StoppedIsFinal == Spec => StoppedStays
<1> DEFINE Kept == \A s \in Services : state[s] = "Stopped" /\ starts'[s] = starts[s] =>
                       state'[s] = "Stopped" /\ spawns'[s] = spawns[s]
<1>1. ASSUME IInv, [Next]_vars PROVE [Kept]_vars
  <2> USE <1>1, ServiceAssumption DEF IInv, TypeOK
  <2>1. ASSUME NEW s \in Services, StartService(s) PROVE Kept
    BY <2>1 DEF StartService
  <2>2. ASSUME NEW s \in Services, StopService(s) PROVE Kept
    BY <2>2 DEF StopService
  <2>3. ASSUME NEW p \in Procs, NEW code \in ExitCodes, ProcessExit(p, code) PROVE Kept
    BY <2>3 DEF ProcessExit
  <2>4. ASSUME NEW p \in Procs, OnServiceExit(p) PROVE Kept
    BY <2>4 DEF OnServiceExit, Fail, do_restart
  <2>5. ASSUME NEW s \in Services, HealthCheckOk(s) PROVE Kept
    BY <2>5 DEF HealthCheckOk
  <2>6. ASSUME NEW s \in Services, HealthCheckFails(s) PROVE Kept
    BY <2>6 DEF HealthCheckFails, Probed, Fail, do_restart
  <2>7. CASE UNCHANGED vars
    BY <2>7 DEF vars
  <2> QED
    BY <2>1, <2>2, <2>3, <2>4, <2>5, <2>6, <2>7 DEF Next
<1> QED
  BY <1>1, Inductive, PTL DEF Spec, StoppedStays, Kept
=============================================================================
