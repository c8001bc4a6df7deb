-------------------------- MODULE TaskEngine_proofs --------------------------
(***************************************************************************)
(* TaskManager and the tasks: types, the order of the leaves, and that ends   *)
(* are final, for every set of tasks, every script and every timeout.         *)
(***************************************************************************)
EXTENDS TaskEngine, TLAPS

\* sub is a function, which TypeOK says of its values only
SubFunction == sub = [t \in Tasks |-> sub[t]]

\* A leaf before the current one has finished, one behind it has not begun, and
\* only the current one has a worker. exception_ stays empty as long as the body runs
LeafInv(t, k) ==
    LET l == sub[t][k]
    IN  /\ k < cur[t] => l.st = "finished"
        /\ k > cur[t] => l.st = "unstarted"
        /\ l.work \in {"queued", "throwing"} => k = cur[t] /\ l.st = "running"
        /\ l.work # "none" => l.st # "unstarted" /\ Script[t][k] = "work"
        /\ Script[t][k] = "work" /\ l.work \in {"none", "queued"} => l.exc = "none"

\* The task whose resume is between queue() and its return
InsideInv(t) ==
    /\ t \notin sent /\ ~is_end(st[t])
    /\ cur[t] \in Leaves(t) /\ Script[t][cur[t]] = "work"
    /\ sub[t][cur[t]].work = "none" => sub[t][cur[t]].st = "running"
    /\ sub[t][cur[t]].st # "unstarted"

\* An event is pending only for a task that has not ended, a task ends only when
\* nobody works for it, and its handle is closed only then
TaskInv(t) ==
    /\ \A k \in Leaves(t) : LeafInv(t, k)
    /\ t \in inside => InsideInv(t)
    /\ t \in sent => ~is_end(st[t])
    /\ created[t] # Never => t \in active \/ is_end(st[t])
    /\ is_end(st[t]) => \A k \in Leaves(t) : sub[t][k].work # "queued"

IInv == TypeOK /\ SubFunction /\ \A t \in Tasks : TaskInv(t)

-----------------------------------------------------------------------------
(* Scripts, leaves and the functions over them *)

LEMMA ScriptShape ==
    \A t \in Tasks : /\ Len(Script[t]) \in Nat
                     /\ \A k \in Leaves(t) : /\ k \in Nat \ {0} /\ k <= Len(Script[t])
                                             /\ Script[t][k] \in {"atomic", "wait", "work"}
BY TaskAssumption DEF Leaves

LEMMA NeverIsNot == Never \in Nat /\ clock \in Clock => clock # Never
BY TaskAssumption DEF Never, Clock

\* One leaf is written
LEMMA Write ==
    ASSUME TypeOK, SubFunction, NEW t \in Tasks, NEW k \in Leaves(t), NEW r \in Leaf,
           sub' = [sub EXCEPT ![t][k] = r]
    PROVE  /\ sub'[t][k] = r
           /\ \A j \in Leaves(t) \ {k} : sub'[t][j] = sub[t][j]
           /\ \A u \in Tasks \ {t} : sub'[u] = sub[u]
           /\ \A u \in Tasks : sub'[u] \in [Leaves(u) -> Leaf]
           /\ SubFunction'
<1>1. sub[t] \in [Leaves(t) -> Leaf] /\ DOMAIN sub = Tasks
  BY DEF TypeOK, SubFunction
<1>2. sub' = [sub EXCEPT ![t] = [sub[t] EXCEPT ![k] = r]]
  OBVIOUS
<1>3. sub'[t] = [sub[t] EXCEPT ![k] = r] /\ \A u \in Tasks \ {t} : sub'[u] = sub[u]
  BY <1>1, <1>2
<1>4. sub' = [u \in Tasks |-> sub'[u]]
  BY <1>1, <1>2
<1> QED BY <1>1, <1>3, <1>4 DEF TypeOK, SubFunction

\* What the switch of SequentialTask::resume makes of the leaf's state s
LEMMA Switch ==
    ASSUME TypeOK, NEW t \in Tasks, NEW s \in States, Advance(t, s),
           cur[t] \in Leaves(t)
    PROVE  /\ cur'[t] = IF s = "finished" THEN cur[t] + 1 ELSE cur[t]
           /\ \A u \in Tasks \ {t} : cur'[u] = cur[u] /\ st'[u] = st[u]
           /\ st'[t] \in States /\ (is_end(st'[t]) => is_end(s))
           /\ st' \in [Tasks -> States]
           /\ cur' \in [Tasks -> Nat \ {0}]
           /\ \A u \in Tasks : cur'[u] <= Len(Script[u]) + 1
<1>1. cur[t] \in Nat \ {0} /\ cur[t] <= Len(Script[t]) /\ Len(Script[t]) \in Nat
  BY ScriptShape DEF TypeOK
<1>2. cur' = [cur EXCEPT ![t] = IF s = "finished" THEN cur[t] + 1 ELSE cur[t]]
  BY DEF Advance
<1>3. /\ cur'[t] = IF s = "finished" THEN cur[t] + 1 ELSE cur[t]
      /\ \A u \in Tasks \ {t} : cur'[u] = cur[u]
      /\ cur' \in [Tasks -> Nat \ {0}]
      /\ \A u \in Tasks : cur'[u] <= Len(Script[u]) + 1
  BY <1>1, <1>2 DEF TypeOK
<1>4. PICK n \in States : /\ st' = [st EXCEPT ![t] = n]
                          /\ is_end(n) => is_end(s)
  <2>1. CASE s = "finished"
    BY <2>1 DEF Advance, States, is_end
  <2>2. CASE s = "error"
    BY <2>2 DEF Advance, States, is_end
  <2>3. CASE s \notin {"finished", "error"}
    BY <2>3 DEF Advance, States, is_end
  <2> QED BY <2>1, <2>2, <2>3
<1>5. /\ st'[t] = n /\ st' \in [Tasks -> States]
      /\ \A u \in Tasks \ {t} : st'[u] = st[u]
  BY <1>4 DEF TypeOK
<1> QED BY <1>3, <1>4, <1>5

\* A task of which nothing is changed but that its event comes or goes
LEMMA Frame ==
    ASSUME NEW u \in Tasks, TaskInv(u),
           sub'[u] = sub[u], cur'[u] = cur[u], st'[u] = st[u],
           u \in inside' => u \in inside, u \in sent' => u \in sent,
           created'[u] # Never /\ u \notin active' =>
               (created[u] # Never /\ u \notin active) \/ is_end(st[u])
    PROVE  TaskInv(u)'
BY DEF TaskInv, InsideInv, LeafInv, Leaves, Never

\* What holds of every leaf and of the resumed task's current one
LEMMA Current ==
    ASSUME IInv, NEW t \in Tasks, cur[t] \in Leaves(t)
    PROVE  sub[t][cur[t]] \in Leaf /\ LeafInv(t, cur[t])
BY DEF IInv, TypeOK, TaskInv

-----------------------------------------------------------------------------
(* The manager, the workers and the clock *)

LEMMA StartInv == Init => IInv
<1> SUFFICES ASSUME Init PROVE IInv
  OBVIOUS
<1>1. \A t \in Tasks : /\ st[t] = "unstarted" /\ cur[t] = 1 /\ created[t] = Never
                       /\ \A k \in Leaves(t) : sub[t][k] = NewLeaf
  BY DEF Init
<1>2. NewLeaf \in Leaf
  BY DEF NewLeaf, Leaf, States
<1>3. TypeOK
  BY <1>1, <1>2, ScriptShape, TaskAssumption DEF Init, TypeOK, States, Clock
<1>4. \A t \in Tasks : TaskInv(t)
  <2> SUFFICES ASSUME NEW t \in Tasks PROVE TaskInv(t)
    OBVIOUS
  <2>1. \A k \in Leaves(t) : LeafInv(t, k) /\ sub[t][k].work = "none"
    BY <1>1, ScriptShape DEF LeafInv, NewLeaf
  <2>2. t \notin sent /\ t \notin inside /\ created[t] = Never
    BY <1>1 DEF Init
  <2> QED BY <2>1, <2>2 DEF TaskInv
<1>5. SubFunction
  BY DEF Init, SubFunction
<1> QED BY <1>3, <1>4, <1>5 DEF IInv

LEMMA AddStep ==
    ASSUME IInv, NEW t \in Tasks, Add(t)
    PROVE  IInv'
<1>1. TypeOK' /\ SubFunction'
  BY DEF Add, IInv, TypeOK, SubFunction
<1>2. ASSUME NEW u \in Tasks PROVE TaskInv(u)'
  <2>1. created'[u] # Never /\ u \notin active' => created[u] # Never /\ u \notin active
    BY DEF Add, IInv, TypeOK
  <2> QED BY <2>1, Frame DEF Add, IInv
<1> QED BY <1>1, <1>2 DEF IInv

LEMMA UpdateStep ==
    ASSUME IInv, Update
    PROVE  IInv'
<1>1. TypeOK' /\ SubFunction'
  BY DEF Update, Ended, IInv, TypeOK, SubFunction
<1>2. ASSUME NEW u \in Tasks PROVE TaskInv(u)'
  <2>0. TaskInv(u) /\ inside' = {} /\ UNCHANGED <<created, st, cur, sub>>
    BY DEF Update, IInv
  <2>1. u \in sent' => ~is_end(st[u])
    BY <2>0 DEF Update, Ended, TaskInv
  <2>2. created[u] # Never => u \in active' \/ is_end(st[u])
    BY <2>0 DEF Update, Ended, TaskInv
  <2> QED BY <2>0, <2>1, <2>2 DEF TaskInv, LeafInv, Leaves, Never
<1> QED BY <1>1, <1>2 DEF IInv

LEMMA TickStep ==
    ASSUME IInv, Tick
    PROVE  IInv'
<1>1. TypeOK' /\ SubFunction'
  BY TaskAssumption DEF Tick, IInv, TypeOK, SubFunction, Clock
<1>2. ASSUME NEW u \in Tasks PROVE TaskInv(u)'
  BY Frame DEF Tick, IInv
<1> QED BY <1>1, <1>2 DEF IInv

\* A worker writes to its leaf
LEMMA WorkStep ==
    ASSUME IInv, NEW t \in Tasks, NEW k \in Leaves(t), Work(t, k)
    PROVE  /\ IInv'
           /\ \A j \in Leaves(t) : is_end(sub[t][j].st) => sub'[t][j] = sub[t][j]
           /\ \A u \in Tasks \ {t} : sub'[u] = sub[u]
<1> DEFINE l == sub[t][k]
<1>0. /\ TypeOK /\ SubFunction /\ TaskInv(t) /\ l \in Leaf /\ LeafInv(t, k)
      /\ clock \in Clock
      /\ UNCHANGED <<active, created, st, cur, sent, inside, clock>>
  BY DEF IInv, TypeOK, TaskInv, Work, WorkFinishes, WorkThrows, WorkErrors
<1>1. l.work \in {"queued", "throwing"} /\ k = cur[t] /\ l.st = "running"
  BY <1>0 DEF Work, WorkFinishes, WorkThrows, WorkErrors, LeafInv
<1>2. PICK r \in Leaf : /\ sub' = [sub EXCEPT ![t][k] = r]
                        /\ r.st # "unstarted" /\ r.work \in {"throwing", "done"}
                        /\ r.work = "throwing" => r.st = "running"
  <2>1. CASE WorkFinishes(t, k)
    <3> DEFINE r == [l EXCEPT !.work = "done", !.st = "finished", !.end = clock]
    <3>1. r \in Leaf
      BY <1>0 DEF Leaf, States
    <3>2. sub' = [sub EXCEPT ![t][k] = r]
      BY <2>1 DEF WorkFinishes
    <3> QED BY <1>0, <3>1, <3>2 DEF Leaf
  <2>2. CASE WorkThrows(t, k)
    <3> DEFINE r == [l EXCEPT !.work = "throwing", !.exc = "thrown"]
    <3>1. r \in Leaf
      BY <1>0 DEF Leaf, States
    <3>2. sub' = [sub EXCEPT ![t][k] = r]
      BY <2>2 DEF WorkThrows
    <3> QED BY <1>0, <1>1, <3>1, <3>2 DEF Leaf
  <2>3. CASE WorkErrors(t, k)
    <3> DEFINE r == [l EXCEPT !.work = "done", !.st = "error", !.end = clock]
    <3>1. r \in Leaf
      BY <1>0 DEF Leaf, States
    <3>2. sub' = [sub EXCEPT ![t][k] = r]
      BY <2>3 DEF WorkErrors
    <3> QED BY <1>0, <3>1, <3>2 DEF Leaf
  <2> QED BY <2>1, <2>2, <2>3 DEF Work
<1>3. /\ sub'[t][k] = r
      /\ \A j \in Leaves(t) \ {k} : sub'[t][j] = sub[t][j]
      /\ \A u \in Tasks \ {t} : sub'[u] = sub[u]
      /\ \A u \in Tasks : sub'[u] \in [Leaves(u) -> Leaf]
      /\ SubFunction'
  BY <1>0, <1>2, Write
<1>4. TypeOK'
  BY <1>0, <1>3 DEF TypeOK, Leaves
<1>5. Script[t][k] = "work"
  BY <1>0, <1>1 DEF LeafInv
<1>6. \A j \in Leaves(t) : LeafInv(t, j)'
  <2> SUFFICES ASSUME NEW j \in Leaves(t) PROVE LeafInv(t, j)'
    OBVIOUS
  <2>1. CASE j = k
    BY <1>0, <1>1, <1>2, <1>3, <1>5, <2>1, ScriptShape DEF LeafInv
  <2>2. CASE j # k
    BY <1>0, <1>3, <2>2 DEF TaskInv, LeafInv
  <2> QED BY <2>1, <2>2
<1>7. TaskInv(t)'
  <2>1. \A j \in Leaves(t) : sub'[t][j].work = "queued" => sub[t][j].work = "queued"
    BY <1>2, <1>3
  <2>2. t \in inside' => InsideInv(t)'
    BY <1>0, <1>1, <1>2, <1>3 DEF TaskInv, InsideInv, Leaves
  <2> QED BY <1>0, <1>6, <2>1, <2>2 DEF TaskInv, Leaves, Never
<1>8. \A u \in Tasks \ {t} : TaskInv(u)'
  BY <1>0, <1>3, Frame DEF IInv
<1>9. IInv'
  BY <1>3, <1>4, <1>7, <1>8 DEF IInv
<1>10. ~is_end(l.st)
  BY <1>1 DEF is_end
<1> QED BY <1>3, <1>9, <1>10

-----------------------------------------------------------------------------
(* The loop resumes a task *)

\* A resume that makes leaf r of the current leaf, whose return s the switch reads
LEMMA SwitchStep ==
    ASSUME IInv, NEW t \in Tasks, cur[t] \in Leaves(t), ~is_end(st[t]),
           NEW r \in Leaf, sub' = [sub EXCEPT ![t][cur[t]] = r],
           NEW s \in States, Advance(t, s),
           s = "finished" => r.st = "finished",
           is_end(s) => r.work # "queued",
           r.work \in {"queued", "throwing"} => r.st = "running",
           r.work # "none" => r.st # "unstarted" /\ Script[t][cur[t]] = "work",
           Script[t][cur[t]] = "work" /\ r.work \in {"none", "queued"} => r.exc = "none",
           sent' \in SUBSET sent, inside' \in SUBSET inside,
           t \notin sent', t \notin inside',
           UNCHANGED <<active, created, clock>>
    PROVE  IInv'
<1> DEFINE k == cur[t]
<1>0. TypeOK /\ SubFunction /\ TaskInv(t)
  BY DEF IInv
<1>1. /\ sub'[t][k] = r
      /\ \A j \in Leaves(t) \ {k} : sub'[t][j] = sub[t][j]
      /\ \A u \in Tasks \ {t} : sub'[u] = sub[u]
      /\ \A u \in Tasks : sub'[u] \in [Leaves(u) -> Leaf]
      /\ SubFunction'
  BY <1>0, Write
<1>2. /\ cur'[t] = IF s = "finished" THEN k + 1 ELSE k
      /\ \A u \in Tasks \ {t} : cur'[u] = cur[u] /\ st'[u] = st[u]
      /\ st'[t] \in States /\ (is_end(st'[t]) => is_end(s))
      /\ st' \in [Tasks -> States]
      /\ cur' \in [Tasks -> Nat \ {0}]
      /\ \A u \in Tasks : cur'[u] <= Len(Script[u]) + 1
  BY <1>0, Switch
<1>3. TypeOK'
  BY <1>0, <1>1, <1>2 DEF TypeOK, Leaves, Clock
<1>4. ASSUME NEW j \in Leaves(t) PROVE LeafInv(t, j)'
  <2>1. j \in Nat /\ k \in Nat
    BY ScriptShape
  <2>2. CASE j = k
    BY <1>1, <1>2, <2>1, <2>2 DEF LeafInv
  <2>3. CASE j # k
    <3>1. LeafInv(t, j) /\ sub'[t][j] = sub[t][j]
      BY <1>0, <1>1, <2>3 DEF TaskInv
    <3>2. sub[t][j].work \notin {"queued", "throwing"}
      BY <2>3, <3>1 DEF LeafInv
    <3>3. (j < cur'[t] => j < k) /\ (j > cur'[t] => j > k)
      BY <1>2, <2>1, <2>3
    <3> QED BY <3>1, <3>2, <3>3 DEF LeafInv
  <2> QED BY <2>2, <2>3
<1>5. ASSUME is_end(st'[t]), NEW j \in Leaves(t) PROVE sub'[t][j].work # "queued"
  <2>1. CASE j = k
    BY <1>1, <1>2, <1>5, <2>1
  <2>2. CASE j # k
    <3>1. LeafInv(t, j) /\ sub'[t][j] = sub[t][j]
      BY <1>0, <1>1, <2>2 DEF TaskInv
    <3> QED BY <2>2, <3>1 DEF LeafInv
  <2> QED BY <2>1, <2>2
<1>6. TaskInv(t)'
  BY <1>0, <1>4, <1>5 DEF TaskInv, Leaves, Never
<1>7. \A u \in Tasks \ {t} : TaskInv(u)'
  BY <1>1, <1>2, Frame DEF IInv
<1> QED BY <1>1, <1>3, <1>6, <1>7 DEF IInv

\* Nothing written is the leaf written as it was
LEMMA WriteNothing ==
    ASSUME TypeOK, SubFunction, NEW t \in Tasks, NEW k \in Leaves(t), UNCHANGED sub
    PROVE  sub' = [sub EXCEPT ![t][k] = sub[t][k]]
<1>1. sub[t] \in [Leaves(t) -> Leaf] /\ DOMAIN sub = Tasks
  BY DEF TypeOK, SubFunction
<1>2. [sub[t] EXCEPT ![k] = sub[t][k]] = sub[t]
  BY <1>1
<1>3. [sub EXCEPT ![t] = sub[t]] = sub
  BY <1>1 DEF SubFunction
<1> QED BY <1>2, <1>3

\* What Resumed says of the task
LEMMA ResumedTask ==
    ASSUME IInv, NEW t \in Tasks, Resumed(t)
    PROVE  /\ ~is_end(st[t]) /\ inside = {} /\ sent' \in SUBSET sent /\ t \notin sent'
           /\ UNCHANGED <<active, created, clock>>
BY DEF Resumed, IInv, TaskInv

LEMMA ResumeEmptyStep ==
    ASSUME IInv, NEW t \in Tasks, ResumeEmpty(t)
    PROVE  IInv'
<1>0. TypeOK /\ SubFunction /\ TaskInv(t) /\ UNCHANGED <<cur, sub, inside, active, created, clock>>
  BY DEF IInv, ResumeEmpty, Resumed
<1>1. ~is_end(st[t]) /\ inside = {} /\ sent' \in SUBSET sent /\ t \notin sent'
  BY ResumedTask DEF ResumeEmpty
<1>2. st' = [st EXCEPT ![t] = "finished"] /\ cur[t] > Len(Script[t])
  BY DEF ResumeEmpty
<1>3. TypeOK' /\ SubFunction'
  BY <1>0, <1>1, <1>2 DEF TypeOK, States, SubFunction, Leaves, Clock
<1>4. cur[t] \notin Leaves(t)
  BY <1>0, <1>2, ScriptShape DEF TypeOK
<1>5. \A k \in Leaves(t) : sub[t][k].work # "queued"
  BY <1>0, <1>4 DEF TaskInv, LeafInv
<1>6. is_end(st'[t])
  BY <1>0, <1>2 DEF TypeOK, is_end
<1>7. TaskInv(t)'
  BY <1>0, <1>1, <1>5, <1>6 DEF TaskInv, LeafInv, Leaves, Never
<1>8. \A u \in Tasks \ {t} : TaskInv(u)'
  BY <1>0, <1>1, <1>2, Frame DEF IInv, TypeOK
<1> QED BY <1>3, <1>7, <1>8 DEF IInv

LEMMA ResumeEndedStep ==
    ASSUME IInv, NEW t \in Tasks, ResumeEnded(t)
    PROVE  IInv'
<1> DEFINE k == cur[t]
           l == sub[t][k]
<1>0. TypeOK /\ SubFunction /\ k \in Leaves(t) /\ UNCHANGED <<sub, inside>>
  BY DEF IInv, ResumeEnded
<1>1. /\ ~is_end(st[t]) /\ inside = {} /\ sent' \in SUBSET sent /\ t \notin sent'
      /\ UNCHANGED <<active, created, clock>>
  BY ResumedTask DEF ResumeEnded
<1>2. l \in Leaf /\ LeafInv(t, k)
  BY <1>0, Current
<1>3. is_end(l.st) /\ l.st \in States /\ Advance(t, l.st)
  BY <1>2 DEF ResumeEnded, Leaf
<1>4. sub' = [sub EXCEPT ![t][k] = l]
  BY <1>0, WriteNothing
<1>5. l.work \notin {"queued", "throwing"}
  BY <1>2, <1>3 DEF LeafInv, is_end
<1>6. /\ l.work # "none" => l.st # "unstarted" /\ Script[t][k] = "work"
      /\ Script[t][k] = "work" /\ l.work \in {"none", "queued"} => l.exc = "none"
  BY <1>2 DEF LeafInv
<1> QED BY <1>0, <1>1, <1>2, <1>3, <1>4, <1>5, <1>6, SwitchStep

\* What a resume makes of an atomic leaf or a wait
LEMMA LeafResumed ==
    ASSUME TypeOK, NEW t \in Tasks, NEW l \in Leaf,
           NEW r \in AtomicResumed(l) \cup WaitResumed(l, t)
    PROVE  /\ r \in Leaf /\ r.st \in {"finished", "error", "running"} /\ r.work = l.work
<1>0. clock \in Clock
  BY DEF TypeOK
<1>1. StartTime(l) \in Clock \cup {Never}
  BY <1>0 DEF StartTime, Leaf
<1>2. ASSUME NEW s \in {"finished", "error"}, NEW e \in {"none", "thrown", "timeout"}
      PROVE  /\ EndAs(l, s, e) \in Leaf /\ EndAs(l, s, e).st = s
             /\ EndAs(l, s, e).work = l.work
  BY <1>0, <1>1 DEF EndAs, Leaf, States
<1>3. LET w == [l EXCEPT !.st = "running", !.start = StartTime(l)]
      IN  w \in Leaf /\ w.st = "running" /\ w.work = l.work
  BY <1>1 DEF Leaf, States
<1> QED BY <1>2, <1>3 DEF AtomicResumed, WaitResumed

LEMMA ResumeLeafStep ==
    ASSUME IInv, NEW t \in Tasks, ResumeLeaf(t)
    PROVE  IInv' /\ ~is_end(sub[t][cur[t]].st)
<1> DEFINE k == cur[t]
           l == sub[t][k]
<1>0. /\ TypeOK /\ SubFunction /\ k \in Leaves(t) /\ UNCHANGED inside
      /\ ~is_end(l.st) /\ Script[t][k] # "work"
  BY DEF IInv, ResumeLeaf
<1>1. /\ ~is_end(st[t]) /\ inside = {} /\ sent' \in SUBSET sent /\ t \notin sent'
      /\ UNCHANGED <<active, created, clock>>
  BY ResumedTask DEF ResumeLeaf
<1>2. l \in Leaf /\ LeafInv(t, k)
  BY <1>0, Current
<1>3. PICK r \in AtomicResumed(l) \cup WaitResumed(l, t) :
          sub' = [sub EXCEPT ![t][k] = r] /\ Advance(t, r.st)
  BY DEF ResumeLeaf
<1>4. r \in Leaf /\ r.st \in States /\ r.work = l.work
  BY <1>0, <1>2, <1>3, LeafResumed DEF States
<1>5. r.work = "none"
  BY <1>0, <1>2, <1>4 DEF LeafInv
<1> QED BY <1>0, <1>1, <1>3, <1>4, <1>5, SwitchStep

LEMMA StartWorkStep ==
    ASSUME IInv, NEW t \in Tasks, StartWork(t)
    PROVE  IInv' /\ ~is_end(sub[t][cur[t]].st)
<1> DEFINE k == cur[t]
           l == sub[t][k]
           r == [l EXCEPT !.start = clock, !.st = "running"]
<1>0. /\ TypeOK /\ SubFunction /\ TaskInv(t) /\ k \in Leaves(t) /\ UNCHANGED <<st, cur>>
      /\ l.st = "unstarted" /\ Script[t][k] = "work" /\ inside' = {t} /\ clock \in Clock
  BY DEF IInv, StartWork, TypeOK
<1>1. /\ ~is_end(st[t]) /\ inside = {} /\ sent' \in SUBSET sent /\ t \notin sent'
      /\ UNCHANGED <<active, created, clock>>
  BY ResumedTask DEF StartWork
<1>2. l \in Leaf /\ LeafInv(t, k)
  BY <1>0, Current
<1>3. r \in Leaf /\ r.st = "running" /\ r.work = "none" /\ r.exc = "none"
  <2>1. l.work = "none" /\ l.exc = "none"
    BY <1>0, <1>2 DEF LeafInv, Leaf
  <2> QED BY <1>0, <1>2, <2>1 DEF Leaf, States
<1>4. sub' = [sub EXCEPT ![t][k] = r]
  BY DEF StartWork
<1>5. /\ sub'[t][k] = r
      /\ \A j \in Leaves(t) \ {k} : sub'[t][j] = sub[t][j]
      /\ \A u \in Tasks \ {t} : sub'[u] = sub[u]
      /\ \A u \in Tasks : sub'[u] \in [Leaves(u) -> Leaf]
      /\ SubFunction'
  BY <1>0, <1>3, <1>4, Write
<1>6. TypeOK'
  BY <1>0, <1>1, <1>5 DEF TypeOK, Leaves, Clock
<1>7. ASSUME NEW j \in Leaves(t) PROVE LeafInv(t, j)'
  <2>1. CASE j = k
    <3>1. j = cur'[t] /\ j \in Nat /\ sub'[t][j] = r
      BY <1>0, <1>5, <2>1, ScriptShape
    <3>2. /\ ~(j < cur'[t]) /\ ~(j > cur'[t])
          /\ sub'[t][j].st = "running" /\ sub'[t][j].work = "none" /\ sub'[t][j].exc = "none"
      BY <1>3, <3>1
    <3> QED BY <3>2 DEF LeafInv
  <2>2. CASE j # k
    BY <1>0, <1>5, <2>2 DEF TaskInv, LeafInv
  <2> QED BY <2>1, <2>2
<1>8. InsideInv(t)'
  BY <1>0, <1>1, <1>3, <1>5 DEF InsideInv, Leaves
<1>9. TaskInv(t)'
  BY <1>0, <1>1, <1>7, <1>8 DEF TaskInv, Leaves, Never
<1>10. \A u \in Tasks \ {t} : TaskInv(u)'
  BY <1>0, <1>1, <1>5, Frame DEF IInv
<1>11. ~is_end(l.st)
  BY <1>0 DEF is_end
<1> QED BY <1>5, <1>6, <1>9, <1>10, <1>11 DEF IInv

LEMMA QueueWorkStep ==
    ASSUME IInv, NEW t \in Tasks, QueueWork(t)
    PROVE  IInv' /\ ~is_end(sub[t][cur[t]].st) /\ cur[t] \in Leaves(t)
<1> DEFINE k == cur[t]
           l == sub[t][k]
<1>0. /\ TypeOK /\ SubFunction /\ TaskInv(t) /\ InsideInv(t) /\ k \in Leaves(t)
      /\ l.work = "none" /\ l.st = "running" /\ clock \in Clock
      /\ Script[t][k] = "work" /\ ~is_end(st[t])
      /\ UNCHANGED <<active, created, st, cur, sent, inside, clock>>
  BY DEF IInv, QueueWork, TypeOK, TaskInv, InsideInv
<1>2. l \in Leaf /\ LeafInv(t, k)
  BY <1>0, Current
<1>3. PICK r \in Leaf : /\ sub' = [sub EXCEPT ![t][k] = r]
                        /\ r.work \in {"queued", "done"} /\ r.st # "unstarted"
                        /\ r.work = "queued" => r.st = "running" /\ r.exc = l.exc
  <2>1. CASE sub' = [sub EXCEPT ![t][k].work = "queued"]
    <3> DEFINE r == [l EXCEPT !.work = "queued"]
    <3>1. r \in Leaf /\ r.st = "running" /\ r.exc = l.exc /\ r.work = "queued"
      BY <1>0, <1>2 DEF Leaf
    <3>2. sub' = [sub EXCEPT ![t][k] = r]
      BY <2>1
    <3> QED BY <3>1, <3>2
  <2>2. CASE sub' = [sub EXCEPT ![t][k].st = "error", ![t][k].end = clock,
                                ![t][k].work = "done"]
    <3> DEFINE r == [l EXCEPT !.st = "error", !.end = clock, !.work = "done"]
    <3>1. r \in Leaf /\ r.st = "error" /\ r.work = "done"
      BY <1>0, <1>2 DEF Leaf, States
    <3>2. sub' = [sub EXCEPT ![t][k] = r]
      BY <2>2
    <3> QED BY <3>1, <3>2
  <2> QED BY <2>1, <2>2 DEF QueueWork
<1>5. /\ sub'[t][k] = r
      /\ \A j \in Leaves(t) \ {k} : sub'[t][j] = sub[t][j]
      /\ \A u \in Tasks \ {t} : sub'[u] = sub[u]
      /\ \A u \in Tasks : sub'[u] \in [Leaves(u) -> Leaf]
      /\ SubFunction'
  BY <1>0, <1>3, Write
<1>6. TypeOK'
  BY <1>0, <1>5 DEF TypeOK, Leaves, Clock
<1>7. ASSUME NEW j \in Leaves(t) PROVE LeafInv(t, j)'
  <2>1. CASE j = k
    BY <1>0, <1>2, <1>3, <1>5, <2>1, ScriptShape DEF LeafInv
  <2>2. CASE j # k
    BY <1>0, <1>5, <2>2 DEF TaskInv, LeafInv
  <2> QED BY <2>1, <2>2
<1>8. InsideInv(t)'
  BY <1>0, <1>3, <1>5 DEF InsideInv, Leaves
<1>9. TaskInv(t)'
  BY <1>0, <1>7, <1>8 DEF TaskInv, Leaves, Never
<1>10. \A u \in Tasks \ {t} : TaskInv(u)'
  BY <1>0, <1>5, Frame DEF IInv
<1>11. ~is_end(l.st)
  BY <1>0 DEF is_end
<1> QED BY <1>0, <1>5, <1>6, <1>9, <1>10, <1>11 DEF IInv

\* After queue(), and every later time
LEMMA WorkReturnsStep ==
    ASSUME IInv, NEW t \in Tasks, ReturnFromQueue(t) \/ ResumeWork(t)
    PROVE  IInv' /\ ~is_end(st[t])
<1> DEFINE k == cur[t]
           l == sub[t][k]
<1>0. /\ TypeOK /\ SubFunction /\ TaskInv(t) /\ UNCHANGED <<sub, active, created, clock>>
      /\ Advance(t, WorkReturns(l))
  BY DEF IInv, ReturnFromQueue, ResumeWork, Resumed
<1>1. /\ ~is_end(st[t]) /\ k \in Leaves(t) /\ l.st # "unstarted"
      /\ sent' \in SUBSET sent /\ t \notin sent'
      /\ inside' \in SUBSET inside /\ t \notin inside'
      /\ Script[t][k] = "work"
  <2>1. CASE ReturnFromQueue(t)
    BY <1>0, <2>1 DEF ReturnFromQueue, TaskInv, InsideInv
  <2>2. CASE ResumeWork(t)
    BY <2>2, ResumedTask DEF ResumeWork
  <2> QED BY <2>1, <2>2
<1>2. l \in Leaf /\ LeafInv(t, k)
  BY <1>0, <1>1, Current
<1>3. sub' = [sub EXCEPT ![t][k] = l]
  BY <1>0, <1>1, WriteNothing
<1>4. DEFINE s == WorkReturns(l)
<1>5. s \in States
  BY <1>2 DEF WorkReturns, Leaf, States
<1>6. /\ s = "finished" => l.st = "finished"
      /\ is_end(s) => l.work # "queued"
  BY <1>1, <1>2 DEF WorkReturns, LeafInv, is_end
<1>7. /\ l.work \in {"queued", "throwing"} => l.st = "running"
      /\ Script[t][k] = "work" /\ l.work \in {"none", "queued"} => l.exc = "none"
  BY <1>2 DEF LeafInv
<1> HIDE DEF s
<1>8. IInv'
  BY <1>0, <1>1, <1>2, <1>3, <1>5, <1>6, <1>7, SwitchStep DEF s
<1> QED BY <1>1, <1>8

-----------------------------------------------------------------------------
(* The theorems *)

LEMMA ResumeStep ==
    ASSUME IInv, NEW t \in Tasks, Resume(t)
    PROVE  IInv'
BY ResumeEmptyStep, ResumeEndedStep, ResumeLeafStep, StartWorkStep, QueueWorkStep,
   WorkReturnsStep DEF Resume

LEMMA NextInv == IInv /\ [Next]_vars => IInv'
<1> SUFFICES ASSUME IInv, [Next]_vars PROVE IInv'
  OBVIOUS
<1>1. CASE UNCHANGED vars
  <2>1. TypeOK' /\ SubFunction'
    BY <1>1 DEF vars, IInv, TypeOK, SubFunction
  <2>2. \A t \in Tasks : TaskInv(t)'
    BY <1>1, Frame DEF vars, IInv
  <2> QED BY <2>1, <2>2 DEF IInv
<1> QED BY <1>1, AddStep, UpdateStep, ResumeStep, WorkStep, TickStep DEF Next

\* The inductive invariant: where the current leaf stands, who works for it and
\* which events are pending
THEOREM Invariant == Spec => []IInv
BY StartInv, NextInv, PTL DEF Spec

\* Handles, tasks, leaves and the clock keep to their types, for any scripts
THEOREM TypeCorrect == Spec => []TypeOK
<1>1. IInv => TypeOK
  BY DEF IInv
<1> QED BY <1>1, Invariant, PTL

\* SequentialTask starts no leaf before the one in front of it has finished, although
\* workers end leaves at any moment
THEOREM LeavesKeepOrder == Spec => []LeavesInOrder
<1>1. IInv => LeavesInOrder
  <2> SUFFICES ASSUME IInv, NEW t \in Tasks, NEW k \in Leaves(t),
                      sub[t][k].st # "unstarted", NEW j \in 1 .. k - 1
               PROVE  sub[t][j].st = "finished"
    BY DEF LeavesInOrder
  <2>1. k \in Nat /\ cur[t] \in Nat /\ j \in Leaves(t) /\ j < k
    BY ScriptShape DEF IInv, TypeOK, Leaves
  <2>2. ~(k > cur[t])
    BY DEF IInv, TaskInv, LeafInv
  <2>3. j < cur[t]
    BY <2>1, <2>2
  <2> QED BY <2>1, <2>3 DEF IInv, TaskInv, LeafInv
<1> QED BY <1>1, Invariant, PTL

\* TaskManager::update closes the handle of a task only when the task is over, and no
\* event or body of it is left
THEOREM ClosedTasksAreOver == Spec => []ClosedTaskIsOver
<1>1. IInv => ClosedTaskIsOver
  BY DEF IInv, TaskInv, ClosedTaskIsOver
<1> QED BY <1>1, Invariant, PTL

-----------------------------------------------------------------------------
(* Ends *)

Kept(t) == /\ is_end(st[t]) => st'[t] = st[t]
           /\ \A k \in Leaves(t) : is_end(sub[t][k].st) => sub'[t][k].st = sub[t][k].st

\* A resume writes the state of its task, which has not ended, and of one leaf that
\* has not ended either
LEMMA ResumeWrites ==
    ASSUME IInv, NEW t \in Tasks, Resume(t)
    PROVE  /\ ~is_end(st[t])
           /\ \A u \in Tasks \ {t} : st'[u] = st[u] /\ sub'[u] = sub[u]
           /\ \A k \in Leaves(t) : is_end(sub[t][k].st) => sub'[t][k] = sub[t][k]
<1> DEFINE c == cur[t]
<1>0. /\ TypeOK /\ SubFunction /\ sub[t] \in [Leaves(t) -> Leaf]
      /\ st \in [Tasks -> States] /\ DOMAIN sub = Tasks
  BY DEF IInv, TypeOK, SubFunction
<1>1. ~is_end(st[t])
  BY ResumedTask, WorkReturnsStep
     DEF Resume, ResumeEmpty, ResumeEnded, ResumeLeaf, StartWork, QueueWork, IInv, TaskInv,
         InsideInv
<1>2. \A u \in Tasks \ {t} : st'[u] = st[u]
  BY <1>0 DEF Resume, ResumeEmpty, ResumeEnded, ResumeLeaf, StartWork, QueueWork,
              ReturnFromQueue, ResumeWork, Advance
<1>3. CASE UNCHANGED sub
  BY <1>1, <1>2, <1>3
<1>4. ASSUME c \in Leaves(t), ~is_end(sub[t][c].st), NEW r, sub' = [sub EXCEPT ![t][c] = r]
      PROVE  /\ \A u \in Tasks \ {t} : sub'[u] = sub[u]
             /\ \A k \in Leaves(t) : is_end(sub[t][k].st) => sub'[t][k] = sub[t][k]
  BY <1>0, <1>4
<1>5. CASE ResumeLeaf(t)
  <2>1. \E r : sub' = [sub EXCEPT ![t][c] = r]
    BY <1>5 DEF ResumeLeaf
  <2> QED BY <1>1, <1>2, <1>4, <1>5, <2>1 DEF ResumeLeaf
<1>6. CASE StartWork(t)
  <2>1. sub' = [sub EXCEPT ![t][c] = [sub[t][c] EXCEPT !.start = clock, !.st = "running"]]
    BY <1>6 DEF StartWork
  <2> QED BY <1>1, <1>2, <1>4, <1>6, <2>1, StartWorkStep DEF StartWork
<1>7. CASE QueueWork(t)
  <2>1. CASE sub' = [sub EXCEPT ![t][c].work = "queued"]
    <3>1. sub' = [sub EXCEPT ![t][c] = [sub[t][c] EXCEPT !.work = "queued"]]
      BY <2>1
    <3> QED BY <1>1, <1>2, <1>4, <1>7, <3>1, QueueWorkStep
  <2>2. CASE sub' = [sub EXCEPT ![t][c].st = "error", ![t][c].end = clock, ![t][c].work = "done"]
    <3>1. sub' = [sub EXCEPT ![t][c] = [sub[t][c] EXCEPT !.st = "error", !.end = clock,
                                                           !.work = "done"]]
      BY <1>0, <2>2
    <3> QED BY <1>1, <1>2, <1>4, <1>7, <3>1, QueueWorkStep
  <2> QED BY <1>7, <2>1, <2>2 DEF QueueWork
<1> QED BY <1>3, <1>5, <1>6, <1>7 DEF Resume, ResumeEmpty, ResumeEnded, ReturnFromQueue, ResumeWork

\* A task or leaf that has ended stays as it ended, in any order of the loop's looks
\* and the workers' writes
THEOREM EndsAreFinal == Spec => EndsStay
<1>1. ASSUME IInv, [Next]_vars PROVE \A t \in Tasks : Kept(t)
  <2>1. ASSUME NEW t \in Tasks, Resume(t) PROVE \A u \in Tasks : Kept(u)
    BY <1>1, <2>1, ResumeWrites DEF Kept
  <2>2. ASSUME NEW t \in Tasks, NEW k \in Leaves(t), Work(t, k) PROVE \A u \in Tasks : Kept(u)
    <3>1. UNCHANGED st
      BY <2>2 DEF Work, WorkFinishes, WorkThrows, WorkErrors
    <3> QED BY <1>1, <2>2, <3>1, WorkStep DEF Kept
  <2>3. CASE UNCHANGED <<st, sub>>
    BY <2>3 DEF Kept
  <2> QED BY <1>1, <2>1, <2>2, <2>3 DEF Next, Add, Update, Tick, vars
<1>2. IInv /\ [Next]_vars => [\A t \in Tasks :
           /\ is_end(st[t]) => st'[t] = st[t]
           /\ \A k \in Leaves(t) : is_end(sub[t][k].st) => sub'[t][k].st = sub[t][k].st]_vars
  BY <1>1 DEF Kept
<1> QED BY <1>2, Invariant, PTL DEF Spec, EndsStay
=============================================================================
