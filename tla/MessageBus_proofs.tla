-------------------------- MODULE MessageBus_proofs --------------------------
(* The message bus: type correctness, and that it implements BusCalls. *)
EXTENDS MessageBus, TLAPS

Busy(w) == worker[w].pc # "idle"

\* A caller of send_sync always knows something once its message is handled
OutInv ==
    \A i \in Messages :
        /\ msg[i].pc = "none" => msg[i].out = "none"
        /\ msg[i].pc = "handled" => msg[i].out # "none"
        /\ msg[i].pc \notin {"handled", "refused"} => msg[i].out \in {"none", "timeout"}
        /\ msg[i].pc = "refused" => msg[i].out = "refused"

\* The pool's queue holds each queued message once
QueueInv ==
    /\ \A j \in 1 .. Len(queue) : msg[queue[j]].pc = "queued"
    /\ \A j, k \in 1 .. Len(queue) : queue[j] = queue[k] => j = k

\* A message has one worker at most
JobInv ==
    /\ \A w \in Workers : Busy(w) =>
          /\ msg[worker[w].of].pc = "taken"
          /\ worker[w].step <= Length(w)
    /\ \A v, w \in Workers : Busy(v) /\ Busy(w) /\ worker[v].of = worker[w].of => v = w

\* A handler's calls are made one after the other, by the worker that runs it
FreshInv ==
    /\ \A c \in Calls : msg[<<c, 0>>].pc \in {"none", "queued"} =>
          \A k \in 1 .. Len(Nested[Kind[c]]) : msg[<<c, k>>].pc = "none"
    /\ \A w \in Workers : Busy(w) /\ worker[w].of[2] = 0 =>
          \A k \in 1 .. Len(Nested[Kind[worker[w].of[1]]]) :
              k > worker[w].step => msg[<<worker[w].of[1], k>>].pc = "none"

IInv == TypeOK /\ OutInv /\ QueueInv /\ JobInv /\ FreshInv

-----------------------------------------------------------------------------
(* Messages and operations *)

\* A message is a call and its place in the call's handler
LEMMA MessageShape ==
    /\ \A i \in Messages : /\ i = <<i[1], i[2]>> /\ i[1] \in Calls
                           /\ i[2] \in 0 .. Len(Nested[Kind[i[1]]])
    /\ \A c \in Calls, k \in Nat : k <= Len(Nested[Kind[c]]) => <<c, k>> \in Messages
<1>1. \A c \in Calls : Nested[Kind[c]] \in Seq(Ops) /\ Len(Nested[Kind[c]]) \in Nat
  BY BusAssumption
<1>2. ASSUME NEW i \in Messages
      PROVE  /\ i = <<i[1], i[2]>> /\ i[1] \in Calls
             /\ i[2] \in 0 .. Len(Nested[Kind[i[1]]])
  <2>1. PICK c \in Calls : i \in {<<c, k>> : k \in 0 .. Len(Nested[Kind[c]])}
    BY DEF Messages
  <2>2. PICK k \in 0 .. Len(Nested[Kind[c]]) : i = <<c, k>>
    BY <2>1
  <2> QED BY <2>2
<1>3. ASSUME NEW c \in Calls, NEW k \in Nat, k <= Len(Nested[Kind[c]])
      PROVE  <<c, k>> \in Messages
  <2>1. k \in 0 .. Len(Nested[Kind[c]])
    BY <1>1, <1>3
  <2> QED BY <2>1 DEF Messages
<1> QED BY <1>2, <1>3

\* The handler of a message that a handler sent makes no call
LEMMA Depth ==
    \A i \in Messages : /\ OpOf(i) \in Ops
                        /\ Len(Nested[OpOf(i)]) \in Nat
                        /\ i[2] # 0 => Len(Nested[OpOf(i)]) = 0
<1> SUFFICES ASSUME NEW i \in Messages
             PROVE  /\ OpOf(i) \in Ops
                    /\ Len(Nested[OpOf(i)]) \in Nat
                    /\ i[2] # 0 => Len(Nested[OpOf(i)]) = 0
  OBVIOUS
<1>1. i[1] \in Calls /\ i[2] \in 0 .. Len(Nested[Kind[i[1]]])
  BY MessageShape
<1>2. Kind[i[1]] \in Ops /\ Nested[Kind[i[1]]] \in Seq(Ops)
  BY <1>1, BusAssumption
<1>3. CASE i[2] = 0
  BY <1>2, <1>3, BusAssumption DEF OpOf
<1>4. CASE i[2] # 0
  <2>1. i[2] \in 1 .. Len(Nested[Kind[i[1]]])
    BY <1>1, <1>2, <1>4
  <2>2. OpOf(i) \in Ops
    BY <2>1, <1>2, <1>4 DEF OpOf
  <2>3. Nested[OpOf(i)] = <<>>
    BY <2>1, <1>2, <1>4, DepthAssumption DEF OpOf
  <2> QED BY <2>2, <2>3
<1> QED BY <1>3, <1>4

LEMMA JobType ==
    ASSUME TypeOK, NEW w \in Workers, Busy(w)
    PROVE  worker[w] \in Jobs /\ worker[w].of \in Messages /\ worker[w].step \in Nat
<1>1. worker[w] \in Jobs \cup {NoJob}
  BY DEF TypeOK
<1>2. worker[w] # NoJob
  BY DEF Busy, NoJob
<1> QED BY <1>1, <1>2 DEF Jobs

\* What a handler's own call is: the next of a message from outside
LEMMA CallIsNew ==
    ASSUME IInv, NEW w \in Workers, Call(w)
    PROVE  LET i == <<worker[w].of[1], worker[w].step + 1>>
           IN  /\ i \in Messages /\ msg[i].pc = "none"
               /\ worker[w].of = <<worker[w].of[1], 0>>
               /\ worker[w].of[1] \in Calls
               /\ worker[w].step + 1 \in 1 .. Len(Nested[Kind[worker[w].of[1]]])
<1> DEFINE c == worker[w].of[1]
           n == worker[w].step
<1>1. worker[w].of \in Messages /\ n \in Nat
  BY JobType DEF IInv, Call, Busy
<1>2. n < Len(Nested[OpOf(worker[w].of)])
  BY DEF Call, Length
<1>3. worker[w].of[2] = 0
  BY <1>1, <1>2, Depth
<1>4. c \in Calls /\ worker[w].of = <<c, 0>>
  BY <1>1, <1>3, MessageShape
<1>5. n < Len(Nested[Kind[c]])
  BY <1>2, <1>3 DEF OpOf
<1>6. Len(Nested[Kind[c]]) \in Nat
  BY <1>4, BusAssumption
<1>7. n + 1 \in 1 .. Len(Nested[Kind[c]])
  BY <1>1, <1>5, <1>6
<1>8. <<c, n + 1>> \in Messages
  BY <1>4, <1>7, <1>1, <1>5, <1>6, MessageShape
<1>9. msg[<<c, n + 1>>].pc = "none"
  <2>1. Busy(w)
    BY DEF Call, Busy
  <2> QED BY <2>1, <1>3, <1>1, <1>7 DEF IInv, FreshInv
<1> QED BY <1>4, <1>7, <1>8, <1>9

-----------------------------------------------------------------------------
(* Types *)

LEMMA TypeInit == Init => TypeOK
BY DEF Init, TypeOK, Outcomes, Progress

\* Appending a message that is not in the pool
LEMMA EnqueueTypes ==
    ASSUME TypeOK, NEW i \in Messages, Enqueue(i)
    PROVE  /\ msg' \in [Messages -> [pc : Progress, out : Outcomes]]
           /\ queue' \in Seq(Messages)
BY DEF TypeOK, Enqueue, Progress

LEMMA ReplyTypes ==
    ASSUME TypeOK, NEW w \in Workers, NEW a \in {"ok", "failed"}, Busy(w), Reply(w, a)
    PROVE  TypeOK'
<1>1. worker[w].of \in Messages
  BY JobType
<1>2. msg' \in [Messages -> [pc : Progress, out : Outcomes]]
  BY <1>1 DEF Reply, TypeOK, Outcomes, Progress
<1>3. worker' \in [Workers -> Jobs \cup {NoJob}]
  BY DEF Reply, TypeOK
<1> QED BY <1>2, <1>3 DEF Reply, TypeOK

LEMMA TypeStep ==
    ASSUME IInv, [Next]_vars
    PROVE  TypeOK'
<1>0. TypeOK
  BY DEF IInv
<1>1. ASSUME NEW c \in Calls, SendSync(c) PROVE TypeOK'
  <2>1. <<c, 0>> \in Messages
    BY MessageShape, BusAssumption
  <2> QED BY <1>0, <1>1, <2>1, EnqueueTypes DEF SendSync, TypeOK
<1>2. ASSUME NEW c \in Calls, Send(c) PROVE TypeOK'
  <2>1. PICK a \in {"ok", "failed"} :
            msg' = [msg EXCEPT ![<<c, 0>>] = [pc |-> "handled", out |-> a]]
    BY <1>2 DEF Send
  <2>2. msg' \in [Messages -> [pc : Progress, out : Outcomes]]
    BY <1>0, <2>1 DEF TypeOK, Outcomes, Progress
  <2> QED BY <1>0, <1>2, <2>2 DEF Send, TypeOK
<1>3. ASSUME NEW i \in Messages, TimeOut(i) PROVE TypeOK'
  BY <1>0, <1>3 DEF TimeOut, TypeOK, Outcomes
<1>4. ASSUME NEW w \in Workers, Take(w) PROVE TypeOK'
  <2>1. Head(queue) \in Messages /\ Tail(queue) \in Seq(Messages)
    BY <1>0, <1>4 DEF Take, TypeOK
  <2>2. worker' \in [Workers -> Jobs \cup {NoJob}]
    BY <1>0, <1>4, <2>1 DEF Take, TypeOK, Jobs
  <2>3. msg' \in [Messages -> [pc : Progress, out : Outcomes]]
    BY <1>0, <1>4, <2>1 DEF Take, TypeOK, Progress
  <2> QED BY <1>0, <1>4, <2>1, <2>2, <2>3 DEF Take, TypeOK
<1>5. ASSUME NEW w \in Workers, Lock(w) PROVE TypeOK'
  <2>1. worker[w] \in Jobs
    BY <1>0, <1>5, JobType DEF Lock, Busy
  <2>2. [worker[w] EXCEPT !.pc = "run"] \in Jobs
    BY <2>1 DEF Jobs
  <2> QED BY <1>0, <1>5, <2>2 DEF Lock, TypeOK
<1>6. ASSUME NEW w \in Workers, Call(w) PROVE TypeOK'
  <2>1. worker[w] \in Jobs
    BY <1>0, <1>6, JobType DEF Call, Busy
  <2>2. [pc |-> "wait", of |-> worker[w].of, step |-> worker[w].step + 1] \in Jobs
    BY <2>1 DEF Jobs
  <2>3. worker' \in [Workers -> Jobs \cup {NoJob}]
    BY <1>0, <1>6, <2>2 DEF Call, TypeOK
  <2>4. <<worker[w].of[1], worker[w].step + 1>> \in Messages
    BY <1>6, CallIsNew
  <2> QED BY <1>0, <1>6, <2>3, <2>4, EnqueueTypes DEF Call, TypeOK
<1>7. ASSUME NEW w \in Workers, CallReturns(w) PROVE TypeOK'
  <2>1. worker[w] \in Jobs
    BY <1>0, <1>7, JobType DEF CallReturns, Busy
  <2>2. [worker[w] EXCEPT !.pc = "run"] \in Jobs
    BY <2>1 DEF Jobs
  <2> QED BY <1>0, <1>7, <2>2 DEF CallReturns, TypeOK
<1>8. ASSUME NEW w \in Workers, HandlerReturns(w) PROVE TypeOK'
  BY <1>0, <1>8, ReplyTypes DEF HandlerReturns, Busy
<1>9. ASSUME NEW w \in Workers, HandlerFails(w) PROVE TypeOK'
  BY <1>0, <1>9, ReplyTypes DEF HandlerFails, Busy
<1>r. ASSUME NEW c \in Calls, Refused(c) PROVE TypeOK'
  BY <1>0, <1>r DEF Refused, TypeOK, Outcomes, Progress
<1>10. CASE StopAsked \/ StopBegins \/ StopEnds
  BY <1>0, <1>10 DEF StopAsked, StopBegins, StopEnds, TypeOK
<1>11. CASE UNCHANGED vars
  BY <1>0, <1>11 DEF vars, TypeOK
<1> QED BY <1>1, <1>2, <1>3, <1>4, <1>5, <1>6, <1>7, <1>8, <1>9, <1>r, <1>10, <1>11
        DEF Next, WorkerStep

-----------------------------------------------------------------------------
(* Outcomes *)

LEMMA OutStep ==
    ASSUME IInv, [Next]_vars
    PROVE  OutInv'
<1>0. TypeOK /\ OutInv
  BY DEF IInv
<1>1. ASSUME NEW c \in Calls, SendSync(c) PROVE OutInv'
  BY <1>0, <1>1 DEF SendSync, Enqueue, TypeOK, OutInv
<1>2. ASSUME NEW c \in Calls, Send(c) PROVE OutInv'
  BY <1>0, <1>2 DEF Send, TypeOK, OutInv
<1>r. ASSUME NEW c \in Calls, Refused(c) PROVE OutInv'
  BY <1>0, <1>r DEF Refused, TypeOK, OutInv
<1>3. ASSUME NEW i \in Messages, TimeOut(i) PROVE OutInv'
  BY <1>0, <1>3 DEF TimeOut, Waits, TypeOK, OutInv
<1>4. ASSUME NEW w \in Workers, Take(w) PROVE OutInv'
  <2>1. Head(queue) \in Messages /\ msg[Head(queue)].pc = "queued"
    BY <1>4 DEF IInv, TypeOK, QueueInv, Take
  <2> QED BY <1>0, <1>4, <2>1 DEF Take, TypeOK, OutInv
<1>5. ASSUME NEW w \in Workers, Call(w) PROVE OutInv'
  <2> DEFINE i == <<worker[w].of[1], worker[w].step + 1>>
  <2>1. i \in Messages /\ msg[i].pc = "none"
    BY <1>5, CallIsNew
  <2>2. msg' = [msg EXCEPT ![i].pc = "queued"]
    BY <1>5 DEF Call, Enqueue
  <2> QED BY <1>0, <2>1, <2>2 DEF TypeOK, OutInv
<1>6. ASSUME NEW w \in Workers, NEW a \in {"ok", "failed"}, Reply(w, a) PROVE OutInv'
  BY <1>0, <1>6 DEF Reply, TypeOK, OutInv
<1>7. ASSUME UNCHANGED msg PROVE OutInv'
  BY <1>0, <1>7 DEF OutInv
<1> QED BY <1>1, <1>2, <1>r, <1>3, <1>4, <1>5, <1>6, <1>7
        DEF Next, WorkerStep, Lock, CallReturns, HandlerReturns, HandlerFails,
            StopAsked, StopBegins, StopEnds, vars

-----------------------------------------------------------------------------
(* The queue and the workers' jobs *)

\* A message that is new to the queue keeps it without repetition
LEMMA EnqueueKeepsQueue ==
    ASSUME TypeOK, QueueInv, NEW i \in Messages, msg[i].pc = "none", Enqueue(i)
    PROVE  QueueInv'
<1>1. queue \in Seq(Messages) /\ Len(queue) \in Nat
  BY DEF TypeOK
<1>2. queue' = Append(queue, i) /\ Len(queue') = Len(queue) + 1
  BY <1>1 DEF Enqueue
<1>3. /\ \A j \in 1 .. Len(queue) : queue'[j] = queue[j] /\ queue[j] \in Messages
      /\ queue'[Len(queue) + 1] = i
  BY <1>1, <1>2
<1>4. \A j \in 1 .. Len(queue) : msg[queue[j]].pc = "queued" /\ queue[j] # i
  BY DEF QueueInv
<1>5. \A m \in Messages : msg'[m].pc = IF m = i THEN "queued" ELSE msg[m].pc
  BY DEF Enqueue, TypeOK
<1>6. \A j \in 1 .. Len(queue') : msg'[queue'[j]].pc = "queued"
  BY <1>1, <1>2, <1>3, <1>4, <1>5
<1>7. \A j, k \in 1 .. Len(queue') : queue'[j] = queue'[k] => j = k
  BY <1>1, <1>2, <1>3, <1>4 DEF QueueInv
<1> QED BY <1>6, <1>7 DEF QueueInv

\* Nothing that is not queued matters to the queue
LEMMA QueueFrame ==
    ASSUME TypeOK, QueueInv, UNCHANGED queue,
           \A m \in Messages : msg[m].pc = "queued" => msg'[m].pc = "queued"
    PROVE  QueueInv'
<1>1. \A j \in 1 .. Len(queue) : queue[j] \in Messages
  BY DEF TypeOK
<1> QED BY <1>1 DEF QueueInv

LEMMA QueueStep ==
    ASSUME IInv, [Next]_vars
    PROVE  QueueInv'
<1>0. TypeOK /\ QueueInv /\ JobInv
  BY DEF IInv
<1>1. ASSUME NEW c \in Calls, SendSync(c) PROVE QueueInv'
  <2>1. <<c, 0>> \in Messages
    BY MessageShape, BusAssumption
  <2> QED BY <1>0, <1>1, <2>1, EnqueueKeepsQueue DEF SendSync
<1>2. ASSUME NEW c \in Calls, Send(c) PROVE QueueInv'
  <2>1. \A m \in Messages : msg[m].pc = "queued" => msg'[m].pc = "queued"
    BY <1>0, <1>2 DEF Send, TypeOK
  <2> QED BY <1>0, <1>2, <2>1, QueueFrame DEF Send
<1>r. ASSUME NEW c \in Calls, Refused(c) PROVE QueueInv'
  <2>1. \A m \in Messages : msg[m].pc = "queued" => msg'[m].pc = "queued"
    BY <1>0, <1>r DEF Refused, TypeOK
  <2> QED BY <1>0, <1>r, <2>1, QueueFrame DEF Refused
<1>3. ASSUME NEW i \in Messages, TimeOut(i) PROVE QueueInv'
  <2>1. \A m \in Messages : msg[m].pc = "queued" => msg'[m].pc = "queued"
    BY <1>0, <1>3 DEF TimeOut, TypeOK
  <2> QED BY <1>0, <1>3, <2>1, QueueFrame DEF TimeOut
<1>4. ASSUME NEW w \in Workers, Take(w) PROVE QueueInv'
  <2>1. queue \in Seq(Messages) /\ queue # <<>> /\ Len(queue) \in Nat
    BY <1>0, <1>4 DEF Take, TypeOK
  <2>2. queue' = Tail(queue) /\ Len(queue') = Len(queue) - 1 /\ Head(queue) = queue[1]
    BY <1>4, <2>1 DEF Take
  <2>3. \A j \in 1 .. Len(queue') :
            queue'[j] = queue[j + 1] /\ j + 1 \in 1 .. Len(queue) /\ queue[j + 1] \in Messages
    BY <2>1, <2>2
  <2>4. 1 \in 1 .. Len(queue)
    BY <2>1
  <2>5. \A j \in 1 .. Len(queue') : queue[j + 1] # Head(queue)
    BY <1>0, <2>1, <2>2, <2>3, <2>4 DEF QueueInv
  <2>6. \A m \in Messages : m # Head(queue) => msg'[m].pc = msg[m].pc
    BY <1>0, <1>4 DEF Take, TypeOK
  <2>7. \A j \in 1 .. Len(queue') : msg'[queue'[j]].pc = "queued"
    BY <1>0, <2>3, <2>5, <2>6 DEF QueueInv
  <2>8. \A j, k \in 1 .. Len(queue') : queue'[j] = queue'[k] => j = k
    BY <1>0, <2>1, <2>2, <2>3 DEF QueueInv
  <2> QED BY <2>7, <2>8 DEF QueueInv
<1>5. ASSUME NEW w \in Workers, Call(w) PROVE QueueInv'
  BY <1>0, <1>5, CallIsNew, EnqueueKeepsQueue DEF Call
<1>6. ASSUME NEW w \in Workers, NEW a \in {"ok", "failed"}, Busy(w), Reply(w, a)
      PROVE  QueueInv'
  <2>1. msg[worker[w].of].pc = "taken"
    BY <1>0, <1>6 DEF JobInv
  <2>2. \A m \in Messages : msg[m].pc = "queued" => msg'[m].pc = "queued"
    BY <1>0, <1>6, <2>1 DEF Reply, TypeOK
  <2> QED BY <1>0, <1>6, <2>2, QueueFrame DEF Reply
<1>7. ASSUME UNCHANGED <<msg, queue>> PROVE QueueInv'
  BY <1>0, <1>7 DEF QueueInv
<1> QED BY <1>1, <1>2, <1>r, <1>3, <1>4, <1>5, <1>6, <1>7
        DEF Next, WorkerStep, Lock, CallReturns, HandlerReturns, HandlerFails,
            StopAsked, StopBegins, StopEnds, vars, Busy

\* A worker that got the lock, or its answer, is still at the same job
LEMMA JobGoesOn ==
    ASSUME TypeOK, NEW w \in Workers, Lock(w) \/ CallReturns(w),
           NEW v \in Workers, Busy(v)'
    PROVE  /\ Busy(v) /\ worker'[v].of = worker[v].of /\ worker'[v].step = worker[v].step
           /\ UNCHANGED msg
<1>1. worker' = [worker EXCEPT ![w].pc = "run"] /\ UNCHANGED msg
  BY DEF Lock, CallReturns
<1>2. CASE v = w
  <2>1. Busy(w)
    BY DEF Lock, CallReturns, Busy
  <2>2. worker[w] \in [pc : {"lock", "run", "wait"}, of : Messages, step : Nat]
    BY <2>1, JobType DEF Jobs
  <2>3. worker'[w] = [worker[w] EXCEPT !.pc = "run"]
    BY <1>1 DEF TypeOK
  <2>4. worker'[w].of = worker[w].of /\ worker'[w].step = worker[w].step
    BY <2>2, <2>3
  <2> QED BY <1>1, <1>2, <2>1, <2>4
<1>3. CASE v # w
  <2>1. worker'[v] = worker[v]
    BY <1>1, <1>3 DEF TypeOK
  <2> QED BY <1>1, <2>1 DEF Busy
<1> QED BY <1>2, <1>3

LEMMA JobFrame ==
    ASSUME TypeOK, JobInv,
           \A w \in Workers : Busy(w)' => /\ Busy(w)
                                        /\ worker'[w].of = worker[w].of
                                        /\ worker'[w].step <= Length(w)
                                        /\ msg'[worker[w].of].pc = "taken"
    PROVE  JobInv'
BY DEF JobInv, Length

LEMMA JobStep ==
    ASSUME IInv, [Next]_vars
    PROVE  JobInv'
<1>0. TypeOK /\ QueueInv /\ JobInv
  BY DEF IInv
<1>a. \A w \in Workers : Busy(w) => worker[w].of \in Messages
  BY <1>0, JobType
<1>1. ASSUME UNCHANGED worker,
             \A m \in Messages : msg[m].pc = "taken" => msg'[m].pc = "taken"
      PROVE  JobInv'
  BY <1>0, <1>a, <1>1 DEF JobInv, Busy, Length
<1>2. ASSUME NEW c \in Calls, SendSync(c) \/ Send(c) \/ Refused(c) PROVE JobInv'
  <2>1. \A m \in Messages : msg[m].pc = "taken" => msg'[m].pc = "taken"
    BY <1>0, <1>2 DEF SendSync, Enqueue, Send, Refused, TypeOK
  <2> QED BY <1>1, <1>2, <2>1 DEF SendSync, Send, Refused
<1>3. ASSUME NEW i \in Messages, TimeOut(i) PROVE JobInv'
  <2>1. \A m \in Messages : msg[m].pc = "taken" => msg'[m].pc = "taken"
    BY <1>0, <1>3 DEF TimeOut, TypeOK
  <2> QED BY <1>1, <1>3, <2>1 DEF TimeOut
<1>4. ASSUME NEW w \in Workers, Take(w) PROVE JobInv'
  <2> DEFINE i == Head(queue)
  <2>1. queue \in Seq(Messages) /\ queue # <<>> /\ 1 \in 1 .. Len(queue) /\ i = queue[1]
    BY <1>0, <1>4 DEF Take, TypeOK
  <2>2. i \in Messages /\ msg[i].pc = "queued"
    BY <1>0, <2>1 DEF QueueInv
  <2>3. msg'[i].pc = "taken" /\ \A m \in Messages : m # i => msg'[m] = msg[m]
    BY <1>0, <1>4, <2>2 DEF Take, TypeOK
  <2>4. worker'[w].of = i /\ worker'[w].step = 0
    BY <1>0, <1>4 DEF Take, TypeOK
  <2>5. \A v \in Workers \ {w} : worker'[v] = worker[v]
    BY <1>0, <1>4 DEF Take, TypeOK
  <2>6. \A v \in Workers : Busy(v) => worker[v].of # i /\ msg[worker[v].of].pc = "taken"
    BY <1>0, <2>2 DEF JobInv
  <2>7. Len(Nested[OpOf(i)]) \in Nat
    BY <2>2, Depth
  <2>8. \A v \in Workers : Busy(v)' =>
            /\ msg'[worker'[v].of].pc = "taken" /\ worker'[v].step <= Length(v)'
    BY <1>0, <1>a, <2>3, <2>4, <2>5, <2>6, <2>7 DEF JobInv, Busy, Length
  <2>9. \A u, v \in Workers :
            Busy(u)' /\ Busy(v)' /\ worker'[u].of = worker'[v].of => u = v
    BY <1>0, <2>4, <2>5, <2>6 DEF JobInv, Busy
  <2> QED BY <2>8, <2>9 DEF JobInv
<1>5. ASSUME NEW w \in Workers, Lock(w) \/ CallReturns(w) PROVE JobInv'
  BY <1>0, <1>5, JobGoesOn, JobFrame DEF JobInv
<1>6. ASSUME NEW w \in Workers, Call(w) PROVE JobInv'
  <2> DEFINE i == <<worker[w].of[1], worker[w].step + 1>>
  <2>1. i \in Messages /\ msg[i].pc = "none"
    BY <1>0, <1>6, CallIsNew DEF IInv
  <2>2. \A m \in Messages : msg[m].pc = "taken" => msg'[m].pc = "taken"
    BY <1>0, <1>6, <2>1 DEF Call, Enqueue, TypeOK
  <2>3. /\ worker'[w].of = worker[w].of /\ worker'[w].step = worker[w].step + 1 /\ Busy(w)
        /\ worker[w].step + 1 <= Length(w)
    <3>1. Busy(w) /\ worker[w].of \in Messages /\ worker[w].step \in Nat
      BY <1>0, <1>6, JobType DEF Call, Busy
    <3>2. Length(w) \in Nat
      BY <3>1, Depth DEF Length
    <3> QED BY <1>0, <1>6, <3>1, <3>2 DEF Call, TypeOK
  <2>4. \A v \in Workers \ {w} : worker'[v] = worker[v]
    BY <1>0, <1>6 DEF Call, TypeOK
  <2> QED BY <1>0, <1>a, <2>2, <2>3, <2>4, JobFrame DEF JobInv, Busy
<1>7. ASSUME NEW w \in Workers, NEW a \in {"ok", "failed"}, Busy(w), Reply(w, a)
      PROVE  JobInv'
  <2>1. /\ ~Busy(w)' /\ \A v \in Workers \ {w} : worker'[v] = worker[v]
    BY <1>0, <1>7 DEF Reply, TypeOK, Busy, NoJob
  <2>2. \A v \in Workers \ {w} : Busy(v) => msg'[worker[v].of] = msg[worker[v].of]
    BY <1>0, <1>a, <1>7 DEF Reply, TypeOK, JobInv
  <2> QED BY <1>0, <2>1, <2>2, JobFrame DEF JobInv, Busy
<1>8. ASSUME UNCHANGED <<msg, worker>> PROVE JobInv'
  BY <1>1, <1>8
<1> QED BY <1>2, <1>3, <1>4, <1>5, <1>6, <1>7, <1>8
        DEF Next, WorkerStep, HandlerReturns, HandlerFails,
            StopAsked, StopBegins, StopEnds, vars, Busy

-----------------------------------------------------------------------------
(* The calls of a handler *)

LEMMA FreshFrame ==
    ASSUME FreshInv,
           \A i \in Messages : i[2] # 0 /\ msg[i].pc = "none" => msg'[i].pc = "none",
           \A i \in Messages : i[2] = 0 /\ msg'[i].pc \in {"none", "queued"}
                                   => msg[i].pc \in {"none", "queued"},
           \A w \in Workers : Busy(w)' => /\ Busy(w) /\ worker[w].of \in Messages
                                        /\ worker'[w].of = worker[w].of
                                        /\ worker'[w].step = worker[w].step
    PROVE  FreshInv'
<1>1. \A c \in Calls : Len(Nested[Kind[c]]) \in Nat
  BY BusAssumption
<1>2. \A c \in Calls : /\ <<c, 0>> \in Messages
                       /\ \A k \in 1 .. Len(Nested[Kind[c]]) : <<c, k>> \in Messages /\ k # 0
  BY <1>1, MessageShape
<1>3. \A i \in Messages : i[1] \in Calls
  BY MessageShape
<1>4. ASSUME NEW c \in Calls, msg'[<<c, 0>>].pc \in {"none", "queued"},
             NEW k \in 1 .. Len(Nested[Kind[c]])
      PROVE  msg'[<<c, k>>].pc = "none"
  <2>1. msg[<<c, 0>>].pc \in {"none", "queued"}
    BY <1>2, <1>4
  <2>2. msg[<<c, k>>].pc = "none"
    BY <1>4, <2>1 DEF FreshInv
  <2> QED BY <1>2, <1>4, <2>2
<1>5. ASSUME NEW w \in Workers, Busy(w)', worker'[w].of[2] = 0,
             NEW k \in 1 .. Len(Nested[Kind[worker'[w].of[1]]]),
             k > worker'[w].step
      PROVE  msg'[<<worker'[w].of[1], k>>].pc = "none"
  <2>1. /\ Busy(w) /\ worker[w].of \in Messages
        /\ worker'[w].of = worker[w].of /\ worker'[w].step = worker[w].step
    BY <1>5
  <2>2. msg[<<worker[w].of[1], k>>].pc = "none"
    BY <1>5, <2>1 DEF FreshInv
  <2>3. worker[w].of[1] \in Calls
    BY <1>3, <2>1
  <2>4. <<worker[w].of[1], k>> \in Messages /\ k # 0
    BY <1>2, <1>5, <2>1, <2>3
  <2> QED BY <2>1, <2>2, <2>4
<1> QED BY <1>4, <1>5 DEF FreshInv

LEMMA FreshStep ==
    ASSUME IInv, [Next]_vars
    PROVE  FreshInv'
<1>0. TypeOK /\ QueueInv /\ JobInv /\ FreshInv
  BY DEF IInv
<1>a. \A w \in Workers : Busy(w) => worker[w].of \in Messages
  BY <1>0, JobType
<1>1. ASSUME NEW c \in Calls, SendSync(c) \/ Send(c) \/ Refused(c) PROVE FreshInv'
  <2>1. UNCHANGED worker /\ \A m \in Messages : m # <<c, 0>> => msg'[m] = msg[m]
    BY <1>0, <1>1 DEF SendSync, Enqueue, Send, Refused, TypeOK
  <2>2. msg[<<c, 0>>].pc = "none"
    BY <1>1 DEF SendSync, Send, Refused
  <2> QED BY <1>0, <1>a, <2>1, <2>2, FreshFrame DEF Busy
<1>2. ASSUME NEW i \in Messages, TimeOut(i) PROVE FreshInv'
  <2>1. UNCHANGED worker /\ \A m \in Messages : msg'[m].pc = msg[m].pc
    BY <1>0, <1>2 DEF TimeOut, TypeOK
  <2> QED BY <1>0, <1>a, <2>1, FreshFrame DEF Busy
<1>3. ASSUME NEW w \in Workers, Take(w) PROVE FreshInv'
  <2> DEFINE i == Head(queue)
  <2>1. queue \in Seq(Messages) /\ queue # <<>> /\ 1 \in 1 .. Len(queue) /\ i = queue[1]
    BY <1>0, <1>3 DEF Take, TypeOK
  <2>2. i \in Messages /\ msg[i].pc = "queued"
    BY <1>0, <2>1 DEF QueueInv
  <2>3. msg'[i].pc = "taken" /\ \A m \in Messages : m # i => msg'[m] = msg[m]
    BY <1>0, <1>3, <2>2 DEF Take, TypeOK
  <2>4. worker'[w].of = i /\ worker'[w].step = 0
    BY <1>0, <1>3 DEF Take, TypeOK
  <2>5. \A v \in Workers \ {w} : worker'[v] = worker[v]
    BY <1>0, <1>3 DEF Take, TypeOK
  <2>6. \A c \in Calls : /\ <<c, 0>> \in Messages /\ Len(Nested[Kind[c]]) \in Nat
                         /\ \A k \in 1 .. Len(Nested[Kind[c]]) : <<c, k>> \in Messages
    BY MessageShape, BusAssumption
  <2>7. \A m \in Messages : msg[m].pc = "none" => msg'[m].pc = "none"
    BY <2>2, <2>3
  <2>8. \A c \in Calls : msg'[<<c, 0>>].pc \in {"none", "queued"} =>
            \A k \in 1 .. Len(Nested[Kind[c]]) : msg'[<<c, k>>].pc = "none"
    BY <1>0, <2>3, <2>6, <2>7 DEF FreshInv
  <2>9. i[2] = 0 => \A k \in 1 .. Len(Nested[Kind[i[1]]]) : msg'[<<i[1], k>>].pc = "none"
    <3>1. i[1] \in Calls /\ i = <<i[1], i[2]>>
      BY <2>2, MessageShape
    <3> QED BY <1>0, <3>1, <2>2, <2>6, <2>7 DEF FreshInv
  <2>10. \A v \in Workers : Busy(v)' /\ worker'[v].of[2] = 0 =>
            \A k \in 1 .. Len(Nested[Kind[worker'[v].of[1]]]) :
                k > worker'[v].step => msg'[<<worker'[v].of[1], k>>].pc = "none"
    <3> SUFFICES ASSUME NEW v \in Workers, Busy(v)', worker'[v].of[2] = 0,
                        NEW k \in 1 .. Len(Nested[Kind[worker'[v].of[1]]]),
                        k > worker'[v].step
                 PROVE  msg'[<<worker'[v].of[1], k>>].pc = "none"
      OBVIOUS
    <3>1. CASE v = w
      BY <3>1, <2>4, <2>9
    <3>2. CASE v # w
      <4>1. Busy(v) /\ worker'[v] = worker[v] /\ worker[v].of[1] \in Calls
        BY <1>a, <3>2, <2>5, MessageShape DEF Busy
      <4> QED BY <1>0, <4>1, <2>6, <2>7 DEF FreshInv
    <3> QED BY <3>1, <3>2
  <2> QED BY <2>8, <2>10 DEF FreshInv
<1>4. ASSUME NEW w \in Workers, Lock(w) \/ CallReturns(w) PROVE FreshInv'
  <2>1. \A v \in Workers : Busy(v)' => Busy(v) /\ worker'[v].of = worker[v].of
                                      /\ worker'[v].step = worker[v].step
    BY <1>0, <1>4, JobGoesOn
  <2>2. UNCHANGED msg
    BY <1>4 DEF Lock, CallReturns
  <2> QED BY <1>0, <1>a, <2>1, <2>2, FreshFrame
<1>5. ASSUME NEW w \in Workers, Call(w) PROVE FreshInv'
  <2> DEFINE d == worker[w].of[1]
             n == worker[w].step
  <2>1. /\ <<d, n + 1>> \in Messages /\ msg[<<d, n + 1>>].pc = "none"
        /\ worker[w].of = <<d, 0>> /\ d \in Calls
        /\ n + 1 \in 1 .. Len(Nested[Kind[d]])
    BY <1>5, CallIsNew
  <2>2. Busy(w) /\ n \in Nat
    BY <1>0, <1>5, JobType DEF Call, Busy
  <2>3. /\ msg'[<<d, n + 1>>].pc = "queued"
        /\ \A m \in Messages : m # <<d, n + 1>> => msg'[m] = msg[m]
    BY <1>0, <1>5, <2>1 DEF Call, Enqueue, TypeOK
  <2>4. worker'[w].of = <<d, 0>> /\ worker'[w].step = n + 1
    BY <1>0, <1>5, <2>1 DEF Call, TypeOK
  <2>5. \A v \in Workers \ {w} : worker'[v] = worker[v]
    BY <1>0, <1>5 DEF Call, TypeOK
  <2>6. \A c \in Calls : /\ <<c, 0>> \in Messages /\ Len(Nested[Kind[c]]) \in Nat
                         /\ \A k \in 1 .. Len(Nested[Kind[c]]) : <<c, k>> \in Messages
    BY MessageShape, BusAssumption
  <2>7. msg[<<d, 0>>].pc = "taken"
    BY <1>0, <2>1, <2>2 DEF JobInv
  <2>8. ASSUME NEW c \in Calls, msg'[<<c, 0>>].pc \in {"none", "queued"},
               NEW k \in 1 .. Len(Nested[Kind[c]])
        PROVE  msg'[<<c, k>>].pc = "none"
    <3>1. msg'[<<c, 0>>] = msg[<<c, 0>>]
      BY <2>2, <2>3, <2>6
    <3>2. c # d
      BY <2>7, <2>8, <3>1
    <3> QED BY <1>0, <2>3, <2>6, <2>8, <3>1, <3>2 DEF FreshInv
  <2>9. ASSUME NEW v \in Workers, Busy(v)', worker'[v].of[2] = 0,
               NEW k \in 1 .. Len(Nested[Kind[worker'[v].of[1]]]),
               k > worker'[v].step
        PROVE  msg'[<<worker'[v].of[1], k>>].pc = "none"
    <3>1. CASE v = w
      <4>1. k \in 1 .. Len(Nested[Kind[d]]) /\ k > n + 1 /\ worker'[v].of[1] = d
        BY <2>4, <2>9, <3>1
      <4>2. k > n /\ <<d, k>> # <<d, n + 1>> /\ <<d, k>> \in Messages
        BY <2>1, <2>2, <2>6, <4>1
      <4>3. msg[<<d, k>>].pc = "none"
        BY <1>0, <2>1, <2>2, <4>1, <4>2 DEF FreshInv
      <4> QED BY <2>3, <4>1, <4>2, <4>3
    <3>2. CASE v # w
      <4>1. Busy(v) /\ worker'[v] = worker[v]
        BY <2>5, <2>9, <3>2 DEF Busy
      <4>2. worker[v].of \in Messages /\ worker[v].of # <<d, 0>>
        BY <1>0, <1>a, <2>1, <2>2, <3>2, <4>1 DEF JobInv
      <4>3. worker[v].of[1] \in Calls /\ worker[v].of = <<worker[v].of[1], 0>>
        BY <2>9, <4>1, <4>2, MessageShape
      <4>4. worker[v].of[1] # d
        BY <4>2, <4>3
      <4>5. msg[<<worker[v].of[1], k>>].pc = "none"
        BY <1>0, <2>9, <4>1 DEF FreshInv
      <4> QED BY <2>3, <2>6, <2>9, <4>1, <4>3, <4>4, <4>5
    <3> QED BY <3>1, <3>2
  <2> QED BY <2>8, <2>9 DEF FreshInv
<1>6. ASSUME NEW w \in Workers, NEW a \in {"ok", "failed"}, Busy(w), Reply(w, a)
      PROVE  FreshInv'
  <2>1. msg[worker[w].of].pc = "taken"
    BY <1>0, <1>6 DEF JobInv
  <2>2. \A m \in Messages : IF m = worker[w].of THEN msg'[m].pc = "handled"
                            ELSE msg'[m] = msg[m]
    BY <1>0, <1>6 DEF Reply, TypeOK
  <2>3. \A v \in Workers : Busy(v)' => Busy(v) /\ worker'[v] = worker[v]
    BY <1>0, <1>6 DEF Reply, TypeOK, Busy, NoJob
  <2> QED BY <1>0, <1>a, <2>1, <2>2, <2>3, FreshFrame
<1>7. ASSUME UNCHANGED <<msg, worker>> PROVE FreshInv'
  BY <1>0, <1>7 DEF FreshInv, Busy
<1> QED BY <1>1, <1>2, <1>3, <1>4, <1>5, <1>6, <1>7
        DEF Next, WorkerStep, HandlerReturns, HandlerFails,
            StopAsked, StopBegins, StopEnds, vars, Busy

-----------------------------------------------------------------------------
(* The theorems *)

LEMMA InitInv == Init => IInv
<1> SUFFICES ASSUME Init PROVE IInv
  OBVIOUS
<1>1. \A i \in Messages : msg[i].pc = "none" /\ msg[i].out = "none"
  BY DEF Init
<1>2. TypeOK
  BY TypeInit
<1>3. OutInv
  BY <1>1 DEF OutInv
<1>4. QueueInv
  BY DEF Init, QueueInv
<1>5. \A w \in Workers : ~Busy(w)
  BY DEF Init, Busy, NoJob
<1>6. JobInv
  BY <1>5 DEF JobInv
<1>7. ASSUME NEW c \in Calls, NEW k \in 1 .. Len(Nested[Kind[c]])
      PROVE  <<c, k>> \in Messages
  <2>1. Len(Nested[Kind[c]]) \in Nat
    BY BusAssumption
  <2> QED BY <1>7, <2>1, MessageShape
<1>8. FreshInv
  BY <1>1, <1>5, <1>7 DEF FreshInv
<1> QED BY <1>2, <1>3, <1>4, <1>6, <1>8 DEF IInv

LEMMA NextInv == IInv /\ [Next]_vars => IInv'
BY TypeStep, OutStep, QueueStep, JobStep, FreshStep DEF IInv

\* The inductive invariant of the bus: each message is in the queue or at one worker,
\* once, and the calls of a handler follow each other
THEOREM Invariant == Spec => []IInv
BY InitInv, NextInv, PTL DEF Spec

\* Whatever the calls, handlers and workers, the bus, its pool and stop_all_modules
\* keep to their types
THEOREM TypeCorrect == Spec => []TypeOK
<1>1. IInv => TypeOK
  BY DEF IInv
<1> QED BY <1>1, Invariant, PTL

-----------------------------------------------------------------------------
(* The bus implements BusCalls *)

\* A step that handles message i, and changes what is known of it to what Known says
LEMMA Effect ==
    ASSUME IInv, NEW w \in Workers, NEW a \in {"ok", "failed"}, Busy(w), Reply(w, a),
           NEW i, i = worker[w].of
    PROVE  Promise!TakeEffect(i)
<1>1. i \in Messages /\ msg[i].pc = "taken"
  BY JobType DEF IInv, JobInv
<1>2. /\ msg'[i] = [pc |-> "handled", out |-> IF msg[i].out = "none" THEN a ELSE msg[i].out]
      /\ \A m \in Messages : m # i => msg'[m] = msg[m]
  BY <1>1 DEF IInv, TypeOK, Reply
<1>3. Handled' = Handled \cup {i} /\ i \notin Handled
  BY <1>1, <1>2 DEF Handled
<1>4. \A m \in Messages : m # i => Waits(m)' = Waits(m) /\ msg'[m].out = msg[m].out
  BY <1>2 DEF Waits
<1>5. CASE msg[i].out = "none"
  <2>1. Known[i] = "open"
    BY <1>1, <1>5 DEF Known, Waits
  <2>2. msg'[i].out = a
    BY <1>2, <1>5
  <2>w. ~Waits(i)'
    BY <2>2 DEF Waits
  <2>3. Known' = [Known EXCEPT ![i] = a]
    BY <1>1, <1>4, <2>2, <2>w DEF Known
  <2> QED BY <1>3, <2>1, <2>3 DEF Promise!TakeEffect, Promise!Learn, Promise!Answers
<1>6. CASE msg[i].out # "none"
  <2>1. UNCHANGED Known
    BY <1>1, <1>2, <1>4, <1>6 DEF Known, Waits
  <2>2. Known[i] = "timeout"
    BY <1>1, <1>6 DEF Known, Waits, IInv, OutInv
  <2> QED BY <1>3, <2>1, <2>2 DEF Promise!TakeEffect
<1> QED BY <1>5, <1>6

\* A message enters the pool: its caller waits
LEMMA Asked ==
    ASSUME IInv, NEW i \in Messages, msg[i].pc = "none", Enqueue(i)
    PROVE  Promise!Ask(i)
<1>1. msg[i].out = "none"
  BY DEF IInv, OutInv
<1>2. /\ msg'[i].pc = "queued" /\ msg'[i].out = "none"
      /\ \A m \in Messages : m # i => msg'[m] = msg[m]
  BY <1>1 DEF Enqueue, IInv, TypeOK
<1>3. Handled' = Handled
  BY <1>2 DEF Handled
<1>4. Known[i] = "none"
  BY <1>1 DEF Known, Waits
<1>5. Known' = [Known EXCEPT ![i] = "open"]
  BY <1>2 DEF Known, Waits
<1> QED BY <1>3, <1>4, <1>5 DEF Promise!Ask, Promise!Learn

\* What nobody learns of and handles nothing is no step of BusCalls
LEMMA NoEffect ==
    ASSUME \A m \in Messages :
               /\ msg'[m].out = msg[m].out
               /\ \/ msg'[m].pc = msg[m].pc
                  \/ msg[m].pc \in {"queued", "taken"} /\ msg'[m].pc = "taken"
    PROVE  UNCHANGED <<Known, Handled>>
<1>1. UNCHANGED Known
  BY DEF Known, Waits
<1>2. UNCHANGED Handled
  BY DEF Handled
<1> QED BY <1>1, <1>2

LEMMA PromiseStep ==
    ASSUME IInv, [Next]_vars
    PROVE  [Promise!CallsNext]_<<Known, Handled>>
<1>0. TypeOK
  BY DEF IInv
<1>1. ASSUME NEW c \in Calls, SendSync(c) PROVE Promise!CallsNext
  <2>1. <<c, 0>> \in Messages
    BY MessageShape, BusAssumption
  <2> QED BY <1>1, <2>1, Asked DEF SendSync, Promise!CallsNext
<1>2. ASSUME NEW c \in Calls, Send(c) PROVE Promise!CallsNext
  <2>1. <<c, 0>> \in Messages
    BY MessageShape, BusAssumption
  <2>2. PICK i \in Messages : i = <<c, 0>>
    BY <2>1
  <2>a. PICK a \in {"ok", "failed"} :
            msg' = [msg EXCEPT ![i] = [pc |-> "handled", out |-> a]]
    BY <1>2, <2>2 DEF Send
  <2>3. /\ msg[i].pc = "none" /\ msg[i].out = "none"
        /\ msg'[i].pc = "handled" /\ msg'[i].out = a
        /\ \A m \in Messages : m # i => msg'[m] = msg[m]
    BY <1>0, <1>2, <2>2, <2>a DEF Send, TypeOK, IInv, OutInv
  <2>4. Known[i] = "none" /\ Known' = [Known EXCEPT ![i] = a]
    BY <2>3 DEF Known, Waits
  <2>5. Handled' = Handled \cup {i}
    BY <2>3 DEF Handled
  <2>6. Promise!AskAndTakeEffect(i)
    BY <2>4, <2>5 DEF Promise!AskAndTakeEffect, Promise!Learn, Promise!Answers
  <2> QED BY <2>6 DEF Promise!CallsNext
<1>r. ASSUME NEW c \in Calls, Refused(c) PROVE Promise!CallsNext
  <2>1. <<c, 0>> \in Messages
    BY MessageShape, BusAssumption
  <2>2. PICK i \in Messages : i = <<c, 0>>
    BY <2>1
  <2>3. /\ msg[i].pc = "none" /\ msg[i].out = "none"
        /\ msg'[i].pc = "refused" /\ msg'[i].out = "refused"
        /\ \A m \in Messages : m # i => msg'[m] = msg[m]
    BY <1>0, <1>r, <2>2 DEF Refused, TypeOK, IInv, OutInv
  <2>4. Known[i] = "none" /\ Known' = [Known EXCEPT ![i] = "refused"]
    BY <2>3 DEF Known, Waits
  <2>5. Handled' = Handled
    BY <2>3 DEF Handled
  <2>6. Promise!Refuse(i)
    BY <2>4, <2>5 DEF Promise!Refuse, Promise!Learn
  <2> QED BY <2>6 DEF Promise!CallsNext
<1>3. ASSUME NEW i \in Messages, TimeOut(i) PROVE Promise!CallsNext
  <2>1. /\ msg'[i].out = "timeout" /\ msg'[i].pc = msg[i].pc /\ Waits(i)
        /\ \A m \in Messages : m # i => msg'[m] = msg[m]
    BY <1>0, <1>3 DEF TimeOut, TypeOK
  <2>2. Known[i] = "open" /\ Known' = [Known EXCEPT ![i] = "timeout"]
    BY <2>1 DEF Known, Waits
  <2>3. Handled' = Handled
    BY <2>1 DEF Handled
  <2>4. Promise!GiveUp(i)
    BY <2>2, <2>3 DEF Promise!GiveUp, Promise!Learn
  <2> QED BY <2>4 DEF Promise!CallsNext
<1>4. ASSUME NEW w \in Workers, Take(w) PROVE UNCHANGED <<Known, Handled>>
  <2>1. Head(queue) \in Messages /\ msg[Head(queue)].pc = "queued"
    BY <1>4 DEF IInv, TypeOK, QueueInv, Take
  <2>2. \A m \in Messages :
            /\ msg'[m].out = msg[m].out
            /\ \/ msg'[m].pc = msg[m].pc
               \/ msg[m].pc \in {"queued", "taken"} /\ msg'[m].pc = "taken"
    <3>1. PICK i \in Messages : i = Head(queue)
      BY <2>1
    <3>2. msg' = [msg EXCEPT ![i].pc = "taken"]
      BY <1>4, <3>1 DEF Take
    <3>3. /\ msg'[i].pc = "taken" /\ msg'[i].out = msg[i].out
          /\ \A m \in Messages : m # i => msg'[m] = msg[m]
      BY <1>0, <3>2 DEF TypeOK
    <3>4. msg[i].pc = "queued"
      BY <2>1, <3>1
    <3>5. ASSUME NEW m \in Messages
          PROVE  /\ msg'[m].out = msg[m].out
                 /\ \/ msg'[m].pc = msg[m].pc
                    \/ msg[m].pc \in {"queued", "taken"} /\ msg'[m].pc = "taken"
      BY <3>3, <3>4
    <3> QED BY <3>5
  <2> QED BY <2>2, NoEffect
<1>5. ASSUME NEW w \in Workers, Call(w) PROVE Promise!CallsNext
  <2>1. PICK i \in Messages : msg[i].pc = "none" /\ Enqueue(i)
    BY <1>5, CallIsNew DEF Call
  <2> QED BY <2>1, Asked DEF Promise!CallsNext
<1>6. ASSUME NEW w \in Workers, NEW a \in {"ok", "failed"}, Busy(w), Reply(w, a)
      PROVE  Promise!CallsNext
  <2>1. PICK i \in Messages : i = worker[w].of
    BY <1>0, <1>6, JobType
  <2> QED BY <1>6, <2>1, Effect DEF Promise!CallsNext
<1>7. ASSUME UNCHANGED msg PROVE UNCHANGED <<Known, Handled>>
  BY <1>7 DEF Known, Handled, Waits
<1> QED BY <1>1, <1>2, <1>r, <1>3, <1>4, <1>5, <1>6, <1>7
        DEF Next, WorkerStep, Lock, CallReturns, HandlerReturns, HandlerFails,
            StopAsked, StopBegins, StopEnds, vars, Busy

\* What send and send_sync promise their callers holds whatever the calls, the
\* handlers and the number of workers: a message takes effect once at most, its
\* answer comes after the effect, and a message given up may still take effect
THEOREM Implements == Spec => KeepsPromise
<1>1. Init => Promise!CallsInit
  BY DEF Init, Promise!CallsInit, Known, Handled, Waits
<1>2. IInv /\ [Next]_vars => [Promise!CallsNext]_Promise!callVars
  BY PromiseStep DEF Promise!callVars
<1> QED BY <1>1, <1>2, Invariant, PTL DEF Spec, KeepsPromise, Promise!CallsSpec
-----------------------------------------------------------------------------
(* Workers that wait for workers *)

Runs(w) == worker[w].pc \in {"run", "wait"}

\* A message that has been taken is at a worker
TakenInv == \A i \in Messages : msg[i].pc = "taken" =>
                \E w \in Workers : Busy(w) /\ worker[w].of = i
\* m_msg_handler
MutexInv == \A v, w \in Workers :
                v # w /\ Runs(v) /\ Runs(w) /\ Module(v) = Module(w) => Module(w) \notin Guarded
WaitInv == \A w \in Workers : worker[w].pc = "wait" => worker[w].step >= 1

StuckInv == TakenInv /\ MutexInv /\ WaitInv

LEMMA RunsIsBusy == ASSUME NEW w \in Workers, Runs(w) PROVE Busy(w)
BY DEF Runs, Busy

LEMMA TakenFrame ==
    ASSUME TakenInv,
           \A i \in Messages : msg'[i].pc = "taken" => msg[i].pc = "taken",
           \A w \in Workers : Busy(w) => Busy(w)' /\ worker'[w].of = worker[w].of
    PROVE  TakenInv'
BY DEF TakenInv

LEMMA MutexFrame ==
    ASSUME MutexInv,
           \A w \in Workers : Runs(w)' => Runs(w) /\ worker'[w].of = worker[w].of
    PROVE  MutexInv'
BY DEF MutexInv, Module

LEMMA StuckInit == Init => StuckInv
<1> SUFFICES ASSUME Init PROVE StuckInv
  OBVIOUS
<1>1. \A w \in Workers : worker[w].pc = "idle"
  BY DEF Init, NoJob
<1>2. \A i \in Messages : msg[i].pc = "none"
  BY DEF Init
<1> QED BY <1>1, <1>2 DEF StuckInv, TakenInv, MutexInv, WaitInv, Runs

\* What no worker has a part in
LEMMA StuckOutside ==
    ASSUME StuckInv, UNCHANGED worker,
           \A i \in Messages : msg'[i].pc = "taken" => msg[i].pc = "taken"
    PROVE  StuckInv'
<1>1. TakenInv'
  BY TakenFrame DEF StuckInv, Busy
<1>2. MutexInv'
  BY MutexFrame DEF StuckInv, Runs
<1>3. WaitInv'
  BY DEF StuckInv, WaitInv
<1> QED BY <1>1, <1>2, <1>3 DEF StuckInv

LEMMA StuckTake ==
    ASSUME IInv, StuckInv, NEW w \in Workers, Take(w)
    PROVE  StuckInv'
<1> DEFINE i == Head(queue)
<1>1. queue \in Seq(Messages) /\ queue # <<>> /\ i \in Messages
  BY DEF Take, IInv, TypeOK
<1>2. /\ worker'[w] = [pc |-> IF Home[OpOf(i)] \in Guarded THEN "lock" ELSE "run",
                       of |-> i, step |-> 0]
      /\ \A v \in Workers \ {w} : worker'[v] = worker[v]
  BY DEF Take, IInv, TypeOK
<1>3. \A m \in Messages \ {i} : msg'[m] = msg[m]
  BY <1>1 DEF Take, IInv, TypeOK
<1>4. worker'[w].of = i /\ Busy(w)'
  BY <1>2 DEF Busy
<1>5. ~Busy(w)
  BY DEF Take, Busy
<1>6. TakenInv'
  <2> SUFFICES ASSUME NEW m \in Messages, msg'[m].pc = "taken"
               PROVE  \E v \in Workers : Busy(v)' /\ worker'[v].of = m
    BY DEF TakenInv
  <2>1. CASE m = i
    BY <1>4, <2>1
  <2>2. CASE m # i
    <3>1. PICK v \in Workers : Busy(v) /\ worker[v].of = m
      BY <1>3, <2>2 DEF StuckInv, TakenInv
    <3>2. v # w /\ worker'[v] = worker[v]
      BY <1>2, <1>5, <3>1
    <3> QED BY <3>1, <3>2 DEF Busy
  <2> QED BY <2>1, <2>2
<1>7. Runs(w)' => Module(w)' \notin Guarded
  <2>1. Module(w)' = Home[OpOf(i)]
    BY <1>4 DEF Module
  <2> QED BY <1>2, <2>1 DEF Runs
<1>8. MutexInv'
  BY <1>2, <1>7 DEF StuckInv, MutexInv, Runs, Module
<1>9. WaitInv'
  BY <1>2 DEF StuckInv, WaitInv
<1> QED BY <1>6, <1>8, <1>9 DEF StuckInv

LEMMA StuckLock ==
    ASSUME IInv, StuckInv, NEW w \in Workers, Lock(w)
    PROVE  StuckInv'
<1>0. TypeOK /\ Busy(w) /\ ~Runs(w)
  BY DEF IInv, Lock, Busy, Runs
<1>1. worker[w] \in [pc : {"lock", "run", "wait"}, of : Messages, step : Nat]
  BY <1>0, JobType DEF Jobs
<1>2. /\ worker'[w] = [worker[w] EXCEPT !.pc = "run"]
      /\ \A v \in Workers \ {w} : worker'[v] = worker[v]
  BY <1>0 DEF Lock, TypeOK
<1>3. worker'[w].of = worker[w].of /\ worker'[w].pc = "run"
  BY <1>1, <1>2
<1>4. TakenInv'
  BY <1>2, <1>3, TakenFrame DEF StuckInv, Lock, Busy
<1>5. \A v \in Workers : Module(v)' = Module(v)
  BY <1>2, <1>3 DEF Module
<1>6. \A v \in Workers \ {w} : Runs(v)' => Runs(v) /\ Module(v) # Module(w)
  BY <1>2 DEF Lock, HoldsModule, Runs
<1>7. MutexInv'
  BY <1>5, <1>6 DEF StuckInv, MutexInv
<1>8. WaitInv'
  BY <1>2, <1>3 DEF StuckInv, WaitInv
<1> QED BY <1>4, <1>7, <1>8 DEF StuckInv

LEMMA StuckCall ==
    ASSUME IInv, StuckInv, NEW w \in Workers, Call(w)
    PROVE  StuckInv'
<1> DEFINE i == <<worker[w].of[1], worker[w].step + 1>>
<1>0. TypeOK /\ Busy(w) /\ worker[w].step \in Nat
  BY JobType DEF IInv, Call, Busy
<1>1. i \in Messages /\ msg[i].pc = "none"
  BY CallIsNew
<1>2. \A m \in Messages : msg'[m].pc = "taken" => msg[m].pc = "taken"
  BY <1>0, <1>1 DEF Call, Enqueue, TypeOK
<1>3. /\ worker'[w].pc = "wait" /\ worker'[w].of = worker[w].of
      /\ worker'[w].step = worker[w].step + 1
      /\ \A v \in Workers \ {w} : worker'[v] = worker[v]
  BY <1>0 DEF Call, TypeOK
<1>4. TakenInv'
  BY <1>2, <1>3, TakenFrame DEF StuckInv, Busy
<1>5. MutexInv'
  BY <1>3, MutexFrame DEF StuckInv, Call, Runs
<1>6. WaitInv'
  BY <1>0, <1>3 DEF StuckInv, WaitInv
<1> QED BY <1>4, <1>5, <1>6 DEF StuckInv

LEMMA StuckReturns ==
    ASSUME IInv, StuckInv, NEW w \in Workers, CallReturns(w)
    PROVE  StuckInv'
<1>0. TypeOK /\ Busy(w) /\ Runs(w)
  BY DEF IInv, CallReturns, Busy, Runs
<1>1. worker[w] \in [pc : {"lock", "run", "wait"}, of : Messages, step : Nat]
  BY <1>0, JobType DEF Jobs
<1>2. /\ worker'[w] = [worker[w] EXCEPT !.pc = "run"]
      /\ \A v \in Workers \ {w} : worker'[v] = worker[v]
  BY <1>0 DEF CallReturns, TypeOK
<1>3. worker'[w].of = worker[w].of /\ worker'[w].pc = "run"
  BY <1>1, <1>2
<1>4. TakenInv'
  BY <1>2, <1>3, TakenFrame DEF StuckInv, CallReturns, Busy
<1>5. MutexInv'
  BY <1>0, <1>2, <1>3, MutexFrame DEF StuckInv, Runs
<1>6. WaitInv'
  BY <1>2, <1>3 DEF StuckInv, WaitInv
<1> QED BY <1>4, <1>5, <1>6 DEF StuckInv

LEMMA StuckReply ==
    ASSUME IInv, StuckInv, NEW w \in Workers, NEW a, Busy(w), Reply(w, a)
    PROVE  StuckInv'
<1>0. TypeOK /\ worker[w].of \in Messages
  BY JobType DEF IInv
<1>1. /\ worker'[w].pc = "idle"
      /\ \A v \in Workers \ {w} : worker'[v] = worker[v]
  BY <1>0 DEF Reply, TypeOK, NoJob
<1>2. \A m \in Messages : msg'[m].pc = "taken" => msg[m].pc = "taken" /\ m # worker[w].of
  BY <1>0 DEF Reply, TypeOK
<1>3. TakenInv'
  <2> SUFFICES ASSUME NEW m \in Messages, msg'[m].pc = "taken"
               PROVE  \E v \in Workers : Busy(v)' /\ worker'[v].of = m
    BY DEF TakenInv
  <2>1. PICK v \in Workers : Busy(v) /\ worker[v].of = m
    BY <1>2 DEF StuckInv, TakenInv
  <2>2. worker'[v] = worker[v]
    BY <1>1, <1>2, <2>1
  <2> QED BY <2>1, <2>2 DEF Busy
<1>4. MutexInv'
  BY <1>1, MutexFrame DEF StuckInv, Runs
<1>5. WaitInv'
  BY <1>1 DEF StuckInv, WaitInv
<1> QED BY <1>3, <1>4, <1>5 DEF StuckInv

LEMMA StuckStep == IInv /\ StuckInv /\ [Next]_vars => StuckInv'
<1> SUFFICES ASSUME IInv, StuckInv, [Next]_vars PROVE StuckInv'
  OBVIOUS
<1>0. TypeOK
  BY DEF IInv
<1>1. ASSUME NEW c \in Calls, SendSync(c) \/ Send(c) \/ Refused(c) PROVE StuckInv'
  <2>1. <<c, 0>> \in Messages
    BY MessageShape, BusAssumption
  <2>2. \A m \in Messages : msg'[m].pc = "taken" => msg[m].pc = "taken"
    <3> SUFFICES ASSUME NEW m \in Messages, msg'[m].pc = "taken" PROVE msg[m].pc = "taken"
      OBVIOUS
    <3>1. PICK i \in Messages : i = <<c, 0>>
      BY <2>1
    <3>2. /\ m # i => msg'[m] = msg[m]
          /\ msg'[i].pc \in {"queued", "handled", "refused"}
      <4>1. CASE SendSync(c)
        BY <1>0, <3>1, <4>1 DEF SendSync, Enqueue, TypeOK
      <4>2. CASE Send(c)
        BY <1>0, <3>1, <4>2 DEF Send, TypeOK
      <4>3. CASE Refused(c)
        BY <1>0, <3>1, <4>3 DEF Refused, TypeOK
      <4> QED BY <1>1, <4>1, <4>2, <4>3
    <3> QED BY <3>2
  <2> QED BY <1>1, <2>2, StuckOutside DEF SendSync, Send, Refused
<1>2. ASSUME NEW i \in Messages, TimeOut(i) PROVE StuckInv'
  <2>1. \A m \in Messages : msg'[m].pc = "taken" => msg[m].pc = "taken"
    BY <1>0, <1>2 DEF TimeOut, TypeOK
  <2> QED BY <1>2, <2>1, StuckOutside DEF TimeOut
<1>3. ASSUME NEW w \in Workers, Take(w) \/ WorkerStep(w) PROVE StuckInv'
  BY <1>3, StuckTake, StuckLock, StuckCall, StuckReturns, StuckReply
     DEF WorkerStep, HandlerReturns, HandlerFails, Busy
<1>4. CASE UNCHANGED <<msg, worker>>
  BY <1>4, StuckOutside
<1> QED BY <1>1, <1>2, <1>3, <1>4 DEF Next, StopAsked, StopBegins, StopEnds, vars

-----------------------------------------------------------------------------
(* A standstill *)

\* A worker that waits for a call of its own is at an operation of the one module
\* whose handlers make calls
LEMMA Waiter ==
    ASSUME IInv, StuckInv, NEW w \in Workers, worker[w].pc = "wait"
    PROVE  /\ Busy(w) /\ Runs(w) /\ worker[w].of \in Messages
           /\ OpOf(worker[w].of) \in Ops /\ Nested[OpOf(worker[w].of)] # <<>>
           /\ worker[w].of = <<worker[w].of[1], 0>> /\ worker[w].of[1] \in Calls
           /\ worker[w].step \in 1 .. Len(Nested[Kind[worker[w].of[1]]])
           /\ Current(w) \in Messages /\ Current(w)[2] # 0
<1>1. Busy(w) /\ Runs(w)
  BY DEF Busy, Runs
<1>2. worker[w].of \in Messages /\ worker[w].step \in Nat /\ worker[w].step >= 1
  BY <1>1, JobType DEF IInv, StuckInv, WaitInv
<1>3. worker[w].step <= Len(Nested[OpOf(worker[w].of)])
  BY <1>1 DEF IInv, JobInv, Length
<1>4. OpOf(worker[w].of) \in Ops /\ Len(Nested[OpOf(worker[w].of)]) \in Nat
  BY <1>2, Depth
<1>5. Len(Nested[OpOf(worker[w].of)]) # 0
  BY <1>2, <1>3, <1>4
<1>6. Nested[OpOf(worker[w].of)] # <<>>
  BY <1>5
<1>7. worker[w].of[2] = 0
  BY <1>2, <1>5, Depth
<1>8. worker[w].of[1] \in Calls /\ worker[w].of = <<worker[w].of[1], 0>>
  BY <1>2, <1>7, MessageShape
<1>9. OpOf(worker[w].of) = Kind[worker[w].of[1]]
  BY <1>7 DEF OpOf
<1>10. worker[w].step \in 1 .. Len(Nested[Kind[worker[w].of[1]]])
  BY <1>2, <1>3, <1>4, <1>9
<1>11. Current(w) \in Messages
  BY <1>2, <1>3, <1>8, <1>9, MessageShape DEF Current
<1>12. Current(w)[2] # 0
  BY <1>2 DEF Current
<1> QED BY <1>1, <1>2, <1>4, <1>6, <1>8, <1>10, <1>11, <1>12

\* Two waiting workers would hold the same module
LEMMA OneWaiter ==
    ASSUME IInv, StuckInv, NEW v \in Workers, NEW w \in Workers,
           worker[v].pc = "wait", worker[w].pc = "wait"
    PROVE  v = w
<1>1. Module(v) = Module(w) /\ Module(w) \in Guarded
  BY Waiter, CallersAssumption DEF Module
<1>2. Runs(v) /\ Runs(w)
  BY DEF Runs
<1> QED BY <1>1, <1>2 DEF StuckInv, MutexInv

\* The operation that a worker waits for is of another module than the worker's
LEMMA CallsElsewhere ==
    ASSUME IInv, StuckInv, NEW w \in Workers, worker[w].pc = "wait"
    PROVE  Home[OpOf(Current(w))] # Module(w)
<1>1. OpOf(worker[w].of) = Kind[worker[w].of[1]]
  BY Waiter DEF OpOf
<1>2. OpOf(Current(w)) = Nested[Kind[worker[w].of[1]]][worker[w].step]
  BY Waiter DEF OpOf, Current
<1>3. Kind[worker[w].of[1]] \in Ops
  BY Waiter, <1>1
<1> QED BY <1>1, <1>2, <1>3, Waiter, CallersAssumption DEF Module

LEMMA StuckSomewhere == IInv /\ StuckInv => StuckInOneModule
<1> SUFFICES ASSUME IInv, StuckInv, \A w \in Workers : Blocked(w)
             PROVE  \E w \in Workers :
                        /\ worker[w].pc = "wait" /\ msg[Current(w)].pc = "queued"
                        /\ \A v \in Workers \ {w} :
                              worker[v].pc = "lock" /\ Module(v) = Module(w)
  BY DEF StuckInOneModule
<1>1. \A v \in Workers : worker[v].pc \in {"lock", "wait"}
  BY DEF Blocked
\* Who keeps a worker from its lock waits
<1>2. ASSUME NEW v \in Workers, worker[v].pc = "lock"
      PROVE  \E u \in Workers : worker[u].pc = "wait" /\ Module(u) = Module(v)
  BY <1>1, <1>2 DEF Blocked, HoldsModule
<1>3. PICK w \in Workers : worker[w].pc = "wait"
  BY <1>1, <1>2, CallersAssumption
<1>4. \A v \in Workers \ {w} : worker[v].pc = "lock" /\ Module(v) = Module(w)
  BY <1>1, <1>2, <1>3, OneWaiter
<1>5. Current(w) \in Messages /\ Waits(Current(w))
  BY <1>3, Waiter DEF Blocked
<1>6. msg[Current(w)].pc # "taken"
  <2> SUFFICES ASSUME msg[Current(w)].pc = "taken" PROVE FALSE
    OBVIOUS
  <2>1. PICK v \in Workers : Busy(v) /\ worker[v].of = Current(w)
    BY <1>5 DEF StuckInv, TakenInv
  <2>2. worker[v].pc # "wait"
    BY <2>1, <1>3, Waiter, <1>5, Depth DEF IInv
  <2>3. v # w /\ Module(v) = Module(w)
    BY <1>3, <1>4, <2>2
  <2> QED BY <2>1, <2>3, <1>3, CallsElsewhere DEF Module
<1>7. msg[Current(w)].pc = "queued"
  <2>1. msg[Current(w)].pc \in {"none", "queued", "taken", "handled", "refused"}
    BY <1>5 DEF IInv, TypeOK, Progress
  <2> QED BY <1>5, <1>6, <2>1 DEF Waits, IInv, OutInv
<1> QED BY <1>3, <1>4, <1>7

\* When no worker can go on, a LifecycleMgr handler waits for a message nobody has
\* taken and all the others wait for its lock, whatever the calls and the workers
THEOREM StandsStillInOneModule == Spec => []StuckInOneModule
<1>1. Init => IInv /\ StuckInv
  BY InitInv, StuckInit
<1>2. IInv /\ StuckInv /\ [Next]_vars => (IInv /\ StuckInv)'
  BY NextInv, StuckStep
<1> QED BY <1>1, <1>2, StuckSomewhere, PTL DEF Spec
=============================================================================
