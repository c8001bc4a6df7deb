----------------------------- MODULE MessageBus -----------------------------
(***************************************************************************)
(* The message bus: send, send_sync, the pool of workers that runs the        *)
(* handlers, and stop_all_modules. A caller of send_sync holds the bus's      *)
(* mutex shared until it has its answer or gives up. A worker that runs a     *)
(* handler of a BasicModule holds that module's m_msg_handler, and the         *)
(* handlers of LifecycleMgr call send_sync themselves, from the worker. A      *)
(* message is <<c, 0>> for the call c of some thread, and <<c, k>> for the    *)
(* k-th call its handler makes.                                             *)
(***************************************************************************)
EXTENDS Naturals, Sequences

CONSTANTS
    Calls,      \* the calls that threads other than the workers make
    Ops,
    Kind,       \* the operation of each call
    Nested,     \* the operations that the handler of an operation calls, in order
    Home,       \* the module of an operation
    Guarded,    \* the modules derived from BasicModule
    Events,     \* the operations that are sent by send
    Workers     \* of BusThreadPool

ASSUME BusAssumption ==
    /\ Kind \in [Calls -> Ops]
    /\ Nested \in [Ops -> Seq(Ops)]
    /\ Events \subseteq Ops
    /\ \A o \in Events : Nested[o] = <<>>

\* No handler of an operation that a handler calls makes a call
ASSUME DepthAssumption ==
    \A o \in Ops : \A k \in 1 .. Len(Nested[o]) : Nested[Nested[o][k]] = <<>>

\* The operations whose handlers make calls are those of one module, and none of that
\* module is called by a handler
ASSUME CallersAssumption ==
    /\ Workers # {}
    /\ \A o, q \in Ops : Nested[o] # <<>> =>
          /\ Home[o] \in Guarded
          /\ Nested[q] # <<>> => Home[q] = Home[o]
          /\ \A k \in 1 .. Len(Nested[q]) : Home[Nested[q][k]] # Home[o]

Messages == UNION {{<<c, k>> : k \in 0 .. Len(Nested[Kind[c]])} : c \in Calls}

OpOf(i) == IF i[2] = 0 THEN Kind[i[1]] ELSE Nested[Kind[i[1]]][i[2]]

VARIABLES
    msg,       \* the messages: [pc, out]
    queue,     \* BusThreadPool.tasks
    worker,    \* [pc, of, step]: step counts the calls its handler has made
    stop       \* stop_all_modules: asked, inside, over

vars == <<msg, queue, worker, stop>>

Outcomes == {"none", "ok", "failed", "timeout", "refused"}
\* handled by the module, or refused by the bus
Progress == {"none", "queued", "taken", "handled", "refused"}
NoJob == [pc |-> "idle"]
\* lock: waits for m_msg_handler; wait: in a send_sync of its own
Jobs == [pc : {"lock", "run", "wait"}, of : Messages, step : Nat]

TypeOK ==
    /\ msg \in [Messages -> [pc : Progress, out : Outcomes]]
    /\ queue \in Seq(Messages)
    /\ worker \in [Workers -> Jobs \cup {NoJob}]
    /\ stop \in {"no", "asked", "inside", "over"}

Init ==
    /\ msg = [i \in Messages |-> [pc |-> "none", out |-> "none"]]
    /\ queue = <<>>
    /\ worker = [w \in Workers |-> NoJob]
    /\ stop = "no"

-----------------------------------------------------------------------------
\* The call is in send_sync, with BusPrivateMtx held shared
Waits(i) == msg[i].pc # "none" /\ msg[i].out = "none"

Module(w) == Home[OpOf(worker[w].of)]

HoldsModule(w, m) == worker[w].pc \in {"run", "wait"} /\ Module(w) = m

Enqueue(i) ==
    /\ msg' = [msg EXCEPT ![i].pc = "queued"]
    /\ queue' = Append(queue, i)

\* send_sync from a thread of the program
SendSync(c) ==
    /\ Kind[c] \notin Events
    /\ msg[<<c, 0>>].pc = "none"
    /\ stop \in {"no", "asked"}
    /\ Enqueue(<<c, 0>>)
    /\ UNCHANGED <<worker, stop>>

\* send runs the handler at once, in the caller's thread. The handler's error is the
\* caller's answer; an exception of the handler is logged and answered ok
Send(c) ==
    /\ Kind[c] \in Events
    /\ msg[<<c, 0>>].pc = "none"
    /\ stop \in {"no", "asked"}
    /\ \E a \in {"ok", "failed"} :
          msg' = [msg EXCEPT ![<<c, 0>>] = [pc |-> "handled", out |-> a]]
    /\ UNCHANGED <<queue, worker, stop>>

\* send and send_sync find "no such module"; a handler's own call is refused too,
\* and the handler fails
Refused(c) ==
    /\ stop = "over" /\ msg[<<c, 0>>].pc = "none"
    /\ msg' = [msg EXCEPT ![<<c, 0>>] = [pc |-> "refused", out |-> "refused"]]
    /\ UNCHANGED <<queue, worker, stop>>

\* fut.wait_for gives up; the message stays. Fault: a handler's own call has no limit
TimeOut_Callers(i) ==
    /\ Waits(i) /\ i[2] = 0
    /\ msg' = [msg EXCEPT ![i].out = "timeout"]
    /\ UNCHANGED <<queue, worker, stop>>
TimeOut(i) ==
    /\ Waits(i)
    /\ msg' = [msg EXCEPT ![i].out = "timeout"]
    /\ UNCHANGED <<queue, worker, stop>>

-----------------------------------------------------------------------------
(* The workers *)

Take(w) ==
    /\ worker[w].pc = "idle" /\ queue # <<>>
    /\ LET i == Head(queue)
       IN  /\ worker' = [worker EXCEPT ![w] =
                 [pc |-> IF Home[OpOf(i)] \in Guarded THEN "lock" ELSE "run",
                  of |-> i, step |-> 0]]
           /\ msg' = [msg EXCEPT ![i].pc = "taken"]
    /\ queue' = Tail(queue)
    /\ UNCHANGED stop

\* lock_guard(m_msg_handler). Fault: the handler runs without it
Lock_Never(w) ==
    /\ worker[w].pc = "lock"
    /\ worker' = [worker EXCEPT ![w].pc = "run"]
    /\ UNCHANGED <<msg, queue, stop>>
Lock(w) ==
    /\ worker[w].pc = "lock"
    /\ \A v \in Workers : ~HoldsModule(v, Module(w))
    /\ worker' = [worker EXCEPT ![w].pc = "run"]
    /\ UNCHANGED <<msg, queue, stop>>

Current(w) == <<worker[w].of[1], worker[w].step>>   \* its latest call
Length(w) == Len(Nested[OpOf(worker[w].of)])

\* The handler's own send_sync; it blocks while stop_all_modules is inside
Call(w) ==
    /\ worker[w].pc = "run" /\ worker[w].step < Length(w)
    /\ stop \in {"no", "asked"}
    /\ worker' = [worker EXCEPT ![w] = [pc |-> "wait", of |-> @.of, step |-> @.step + 1]]
    /\ Enqueue(<<worker[w].of[1], worker[w].step + 1>>)
    /\ UNCHANGED stop

\* The answer is good: and_then goes on
CallReturns(w) ==
    /\ worker[w].pc = "wait" /\ msg[Current(w)].out = "ok"
    /\ worker' = [worker EXCEPT ![w].pc = "run"]
    /\ UNCHANGED <<msg, queue, stop>>

\* write_response or set_value; a caller that has given up does not hear of it.
\* The worker lets m_msg_handler go at once, and nobody takes it in between.
\* Faults: it does; the worker keeps the job's data
Reply_Overwrites(w, a) ==
    /\ msg' = [msg EXCEPT ![worker[w].of] = [pc |-> "handled", out |-> a]]
    /\ worker' = [worker EXCEPT ![w] = NoJob]
    /\ UNCHANGED <<queue, stop>>
Reply_KeepsJob(w, a) ==
    /\ msg' = [msg EXCEPT ![worker[w].of] =
                  [pc |-> "handled", out |-> IF @.out = "none" THEN a ELSE @.out]]
    /\ worker' = [worker EXCEPT ![w].pc = "idle"]
    /\ UNCHANGED <<queue, stop>>
Reply(w, a) ==
    /\ msg' = [msg EXCEPT ![worker[w].of] =
                  [pc |-> "handled", out |-> IF @.out = "none" THEN a ELSE @.out]]
    /\ worker' = [worker EXCEPT ![w] = NoJob]
    /\ UNCHANGED <<queue, stop>>

HandlerReturns(w) ==
    /\ worker[w].pc = "run" /\ worker[w].step = Length(w)
    /\ Reply(w, "ok")

\* The handler returns an error or throws, by itself, because a call of its own
\* failed, or because the modules are gone
HandlerFails(w) ==
    /\ \/ worker[w].pc = "run"
       \/ worker[w].pc = "wait" /\ msg[Current(w)].out \in {"failed", "timeout"}
    /\ Reply(w, "failed")

-----------------------------------------------------------------------------
(* stop_all_modules, on the loop thread after SIGINT *)

StopAsked ==
    /\ stop = "no" /\ stop' = "asked"
    /\ UNCHANGED <<msg, queue, worker>>

\* lock_guard(BusPrivateMtx)
StopBegins ==
    /\ stop = "asked" /\ \A i \in Messages : ~Waits(i)
    /\ stop' = "inside"
    /\ UNCHANGED <<msg, queue, worker>>

\* Every on_exit has run and ModuleMap is empty
StopEnds ==
    /\ stop = "inside" /\ stop' = "over"
    /\ UNCHANGED <<msg, queue, worker>>

WorkerStep(w) ==
    Lock(w) \/ Call(w) \/ CallReturns(w) \/ HandlerReturns(w) \/ HandlerFails(w)

Next ==
    \/ \E c \in Calls : SendSync(c) \/ Send(c) \/ Refused(c)
    \/ \E i \in Messages : TimeOut(i)
    \/ \E w \in Workers : Take(w) \/ WorkerStep(w)
    \/ StopAsked \/ StopBegins \/ StopEnds

Spec == Init /\ [][Next]_vars

\* The threads run, ten seconds pass, and handlers come to an end
FairSpec ==
    /\ Spec
    /\ \A i \in Messages : WF_vars(TimeOut(i))
    /\ WF_vars(\E w \in Workers : Take(w))
    /\ \A w \in Workers : WF_vars(WorkerStep(w))
    /\ WF_vars(StopBegins) /\ WF_vars(StopEnds)

-----------------------------------------------------------------------------
(* Properties *)

Blocked(w) ==
    \/ worker[w].pc = "lock" /\ \E v \in Workers : HoldsModule(v, Module(w))
    \/ worker[w].pc = "wait" /\ Waits(Current(w))

\* When no worker can go on, it is one module that holds them all: a handler of it
\* waits for a message nobody is left to take, and the others wait for its lock.
\* One timeout, of that handler's call, is enough to free them
StuckInOneModule ==
    (\A w \in Workers : Blocked(w)) =>
        \E w \in Workers :
            /\ worker[w].pc = "wait" /\ msg[Current(w)].pc = "queued"
            /\ \A v \in Workers \ {w} : worker[v].pc = "lock" /\ Module(v) = Module(w)

Known == [i \in Messages |-> IF Waits(i) THEN "open" ELSE msg[i].out]
Handled == {i \in Messages : msg[i].pc = "handled"}

\* The bus keeps the promise of BusCalls: answers come after the effect, and what
\* was given up takes effect once, although workers wait for workers
Promise == INSTANCE BusCalls WITH
    Ids <- Messages, known <- Known, effect <- Handled
KeepsPromise == Promise!CallsSpec

\* The end of the program is not held up by calls that wait, nor by calls that
\* handlers make meanwhile
StopIsOver == stop = "asked" ~> stop = "over"
=============================================================================
