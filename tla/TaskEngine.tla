----------------------------- MODULE TaskEngine -----------------------------
(***************************************************************************)
(* TaskManager and the task classes of common_tasks.cpp. A task is a         *)
(* SequentialTask of leaves: "atomic" (AtomicTask, ValueAtomicTask), "wait"   *)
(* (WaitOnceTask) and "work" (ThreadQueueWorkTask). The loop thread runs      *)
(* TaskManager::update every 30 ms, which sends an async event to each task   *)
(* that is not at its end, and the event resumes the task once. A worker of   *)
(* libuv's pool runs the body of a "work" leaf and writes the leaf's state    *)
(* itself. Time is a counter: start_time_, end_time_ and deadlines are read   *)
(* from it.                                                                  *)
(***************************************************************************)
EXTENDS Naturals, Sequences

CONSTANTS
    Tasks,
    Script,     \* the leaves of each task, a sequence of kinds
    Timeout,    \* max_timeout of every wait
    MaxClock    \* bound: the clock stops here

ASSUME TaskAssumption ==
    /\ Script \in [Tasks -> Seq({"atomic", "wait", "work"})]
    /\ Timeout \in Nat /\ MaxClock \in Nat

VARIABLES
    active,    \* active_handles
    created,   \* when add_task got the task: its waits' begin_time
    st,        \* the SequentialTask's state
    cur,       \* its current, from 1
    sub,       \* the leaves: [st, exc, start, end, work]
    sent,      \* tasks whose async event is pending
    inside,    \* the task whose resume is in work_req->queue(), if any
    clock

vars == <<active, created, st, cur, sub, sent, inside, clock>>

States == {"unstarted", "running", "finished", "error"}
is_end(s) == s \in {"finished", "error"}
Never == MaxClock + 1
Clock == 0 .. MaxClock
Leaves(t) == 1 .. Len(Script[t])
Leaf == [st : States, exc : {"none", "thrown", "timeout"},
         start : Clock \cup {Never}, end : Clock \cup {Never},
         work : {"none", "queued", "throwing", "done"}]

TypeOK ==
    /\ active \subseteq Tasks /\ sent \subseteq Tasks
    /\ created \in [Tasks -> Clock \cup {Never}]
    /\ st \in [Tasks -> States]
    /\ cur \in [Tasks -> Nat \ {0}] /\ \A t \in Tasks : cur[t] <= Len(Script[t]) + 1
    /\ \A t \in Tasks : sub[t] \in [Leaves(t) -> Leaf]
    /\ inside \subseteq Tasks
    /\ clock \in Clock

NewLeaf == [st |-> "unstarted", exc |-> "none", start |-> Never, end |-> Never,
            work |-> "none"]

Init ==
    /\ active = {} /\ sent = {} /\ inside = {} /\ clock = 0
    /\ created = [t \in Tasks |-> Never]
    /\ st = [t \in Tasks |-> "unstarted"]
    /\ cur = [t \in Tasks |-> 1]
    /\ sub = [t \in Tasks |-> [k \in Leaves(t) |-> NewLeaf]]

-----------------------------------------------------------------------------
(* TaskManager *)

\* make_task and add_task/raw, on an HTTP or bus thread
Add(t) ==
    /\ created[t] = Never
    /\ clock + Timeout < MaxClock
    /\ created' = [created EXCEPT ![t] = clock]
    /\ active' = active \cup {t}
    /\ UNCHANGED <<st, cur, sub, sent, inside, clock>>

\* update: an event for each task that can go on; ended tasks lose their handle,
\* and with it an event still pending.
\* Fault: the handle is closed one state too early
Ended_OnRunning == {t \in active : is_end(st[t]) \/ st[t] = "running"}
Ended == {t \in active : is_end(st[t])}
Update ==
    /\ active # {}
    /\ inside = {}
    /\ sent' = (sent \cup active) \ Ended
    /\ active' = active \ Ended
    /\ UNCHANGED <<created, st, cur, sub, inside, clock>>

-----------------------------------------------------------------------------
(* Leaves: what one resume makes of leaf l *)

StartTime(l) == IF l.start = Never THEN clock ELSE l.start
EndAs(l, s, e) ==
    [l EXCEPT !.st = s, !.exc = e, !.start = StartTime(l), !.end = clock]

\* AtomicTask::resume: the body returns or throws
AtomicResumed(l) == {EndAs(l, "finished", "none"), EndAs(l, "error", "thrown")}

\* WaitOnceTask::resume: the deadline first, then the predicate, which may throw.
\* Faults: without the deadline; a wait that goes on is "fine"
WaitResumed_NoDeadline(l, t) ==
    {EndAs(l, "finished", "none"), EndAs(l, "error", "thrown"),
     [l EXCEPT !.st = "running", !.start = StartTime(l)]}
WaitResumed_Fine(l, t) ==
    IF clock > created[t] + Timeout
    THEN {EndAs(l, "error", "timeout")}
    ELSE {EndAs(l, "finished", "none"), EndAs(l, "error", "thrown"),
          [l EXCEPT !.st = "fine", !.start = StartTime(l)]}
WaitResumed(l, t) ==
    IF clock > created[t] + Timeout
    THEN {EndAs(l, "error", "timeout")}
    ELSE {EndAs(l, "finished", "none"), EndAs(l, "error", "thrown"),
          [l EXCEPT !.st = "running", !.start = StartTime(l)]}

-----------------------------------------------------------------------------
(* SequentialTask::resume *)

\* The switch on s, what the current leaf returned. Fault: an error is skipped
\* like a finished leaf
Advance_SkipsErrors(t, s) ==
    /\ cur' = [cur EXCEPT ![t] = IF is_end(s) THEN @ + 1 ELSE @]
    /\ st' = [st EXCEPT ![t] =
                 IF is_end(s) /\ cur[t] = Len(Script[t]) THEN "finished" ELSE "running"]
Advance(t, s) ==
    /\ cur' = [cur EXCEPT ![t] = IF s = "finished" THEN @ + 1 ELSE @]
    /\ st' = [st EXCEPT ![t] =
                 CASE s = "finished" -> IF cur[t] >= Len(Script[t]) THEN "finished" ELSE "running"
                   [] s = "error" -> "error"
                   [] OTHER -> "running"]

\* What ThreadQueueWorkTask::resume returns: error() is looked at before state()
WorkReturns(l) == IF l.exc # "none" THEN "error" ELSE l.st

Resumed(t) ==
    /\ inside = {}
    /\ t \in sent
    /\ sent' = sent \ {t}
    /\ UNCHANGED <<active, created, clock>>

\* No leaf is left (an empty sequence)
ResumeEmpty(t) ==
    /\ Resumed(t)
    /\ cur[t] > Len(Script[t])
    /\ st' = [st EXCEPT ![t] = "finished"]
    /\ UNCHANGED <<cur, sub, inside>>

\* The leaf has ended in its worker since the last time: the switch reads that
ResumeEnded(t) ==
    /\ Resumed(t)
    /\ cur[t] \in Leaves(t)
    /\ is_end(sub[t][cur[t]].st)
    /\ Advance(t, sub[t][cur[t]].st)
    /\ UNCHANGED <<sub, inside>>

ResumeLeaf(t) ==
    LET k == cur[t]
        l == sub[t][k]
    IN  /\ Resumed(t)
        /\ k \in Leaves(t)
        /\ ~is_end(l.st)
        /\ Script[t][k] # "work"
        /\ \E r \in IF Script[t][k] = "atomic" THEN AtomicResumed(l) ELSE WaitResumed(l, t) :
              /\ sub' = [sub EXCEPT ![t][k] = r]
              /\ Advance(t, r.st)
        /\ UNCHANGED inside

\* ThreadQueueWorkTask::resume, first time: running, then work_req->queue().
StartWork(t) ==
    LET k == cur[t]
    IN  /\ Resumed(t)
        /\ k \in Leaves(t) /\ Script[t][k] = "work"
        /\ sub[t][k].st = "unstarted"
        /\ sub' = [sub EXCEPT ![t][k].start = clock, ![t][k].st = "running"]
        /\ inside' = {t}
        /\ UNCHANGED <<st, cur>>

\* work_req->queue() takes the request, or its error_event sets the state with
\* no exception
QueueWork(t) ==
    LET k == cur[t]
    IN  /\ t \in inside
        /\ sub[t][k].work = "none"
        /\ \/ sub' = [sub EXCEPT ![t][k].work = "queued"]
           \/ sub' = [sub EXCEPT ![t][k].st = "error", ![t][k].end = clock,
                                 ![t][k].work = "done"]
        /\ UNCHANGED <<active, created, st, cur, sent, inside, clock>>

\* ThreadQueueWorkTask::resume after the queue: error() is looked at before
\* state(), and the worker may have written neither, one or both.
\* Fault: the state is set to running here, after the queue
ReturnFromQueue_SetsRunning(t) ==
    LET k == cur[t]
    IN  /\ t \in inside
        /\ sub[t][k].work # "none"
        /\ inside' = {}
        /\ sub' = [sub EXCEPT ![t][k].st = "running"]
        /\ Advance(t, "running")
        /\ UNCHANGED <<active, created, sent, clock>>
ReturnFromQueue(t) ==
    LET k == cur[t]
    IN  /\ t \in inside
        /\ sub[t][k].work # "none"
        /\ inside' = {}
        /\ Advance(t, WorkReturns(sub[t][k]))
        /\ UNCHANGED <<active, created, sub, sent, clock>>

\* ... and every later time
ResumeWork(t) ==
    LET k == cur[t]
    IN  /\ Resumed(t)
        /\ k \in Leaves(t) /\ Script[t][k] = "work"
        /\ sub[t][k].st = "running"
        /\ Advance(t, WorkReturns(sub[t][k]))
        /\ UNCHANGED <<sub, inside>>

-----------------------------------------------------------------------------
(* The worker of libuv's pool that has the leaf's request *)

\* The body returned: set_state(finished)
WorkFinishes(t, k) ==
    /\ sub[t][k].work = "queued"
    /\ sub' = [sub EXCEPT ![t][k].work = "done", ![t][k].st = "finished",
                          ![t][k].end = clock]
    /\ UNCHANGED <<active, created, st, cur, sent, inside, clock>>

\* The body threw: set_error writes exception_ first ...
WorkThrows(t, k) ==
    /\ sub[t][k].work = "queued"
    /\ sub' = [sub EXCEPT ![t][k].work = "throwing", ![t][k].exc = "thrown"]
    /\ UNCHANGED <<active, created, st, cur, sent, inside, clock>>

\* ... then state_ and end_time_
WorkErrors(t, k) ==
    /\ sub[t][k].work = "throwing"
    /\ sub' = [sub EXCEPT ![t][k].work = "done", ![t][k].st = "error",
                          ![t][k].end = clock]
    /\ UNCHANGED <<active, created, st, cur, sent, inside, clock>>

Tick ==
    /\ clock < MaxClock
    /\ clock' = clock + 1
    /\ UNCHANGED <<active, created, st, cur, sub, sent, inside>>

Resume(t) ==
    \/ ResumeEmpty(t) \/ ResumeEnded(t) \/ ResumeLeaf(t)
    \/ StartWork(t) \/ QueueWork(t) \/ ReturnFromQueue(t) \/ ResumeWork(t)

Work(t, k) == WorkFinishes(t, k) \/ WorkThrows(t, k) \/ WorkErrors(t, k)

Next ==
    \/ \E t \in Tasks : Add(t)
    \/ Update
    \/ \E t \in Tasks : Resume(t)
    \/ \E t \in Tasks : \E k \in Leaves(t) : Work(t, k)
    \/ Tick

Spec == Init /\ [][Next]_vars

\* The timer fires, libuv delivers a pending event, a worker comes to an end and
\* time passes. Nothing makes a client add a task
FairSpec ==
    /\ Spec
    /\ WF_vars(Update) /\ WF_vars(Tick)
    /\ \A t \in Tasks :
          /\ WF_vars(Resume(t))
          /\ \A k \in Leaves(t) : WF_vars(Work(t, k))

-----------------------------------------------------------------------------
(* Properties *)

\* SequentialTask::resume: a leaf starts only when all before it have finished,
\* although a worker of the pool ends a leaf while the loop looks at it
LeavesInOrder ==
    \A t \in Tasks : \A k \in Leaves(t) :
        sub[t][k].st # "unstarted" =>
            \A j \in 1 .. k - 1 : sub[t][j].st = "finished"

\* A task whose handle the manager closed is at its end, and nobody works for it
\* any more except a worker about to store an error
ClosedTaskIsOver ==
    \A t \in Tasks :
        created[t] # Never /\ t \notin active =>
            /\ is_end(st[t])
            /\ t \notin sent
            /\ \A k \in Leaves(t) : sub[t][k].work # "queued"

\* An end is final: nor the task nor a leaf leaves it, whatever order the loop
\* and the worker take
EndsStay ==
    [][\A t \in Tasks :
           /\ is_end(st[t]) => st'[t] = st[t]
           /\ \A k \in Leaves(t) : is_end(sub[t][k].st) => sub'[t][k].st = sub[t][k].st]_vars

\* A task that was added comes to an end and its handle is closed: a wait by its
\* deadline at the latest
EveryTaskEnds ==
    \A t \in Tasks : created[t] # Never ~> is_end(st[t]) /\ t \notin active
=============================================================================
