------------------------- MODULE SpawnPolicy_proofs -------------------------
(***************************************************************************)
(* Proofs about SpawnPolicy, for any templates and bounds: types, autoStart  *)
(* starts a template once, and rounds never give a singleton template two    *)
(* live instances. The last one rests on time: while an instance that a      *)
(* round has created boots, the record of its template is at most BootMax    *)
(* ticks old (BootInv), and a round waits for Gap, which is more.            *)
(***************************************************************************)
EXTENDS SpawnPolicy, TLAPS

Rec == [of : Templates, row : {"absent", "Inactive", "active"},
        proc : {"none", "queued", "task", "booting", "up", "failed", "orphan"},
        by : {"nobody", "round", "earlier", "http"}]

\* What the fields of one instance say of each other
Sound(r) ==
    /\ r.row = "active" => r.proc \in {"up", "none"}
    /\ r.row = "absent" <=> r.proc \in {"queued", "orphan"} \/ r = NoInst
    /\ r.proc = "up" => r.row = "active"
    /\ r.proc = "queued" => r.by = "http"

Boots(r) == r.by = "round" /\ r.proc \in {"task", "booting"}

SoundInv == \A i \in Ids : Sound(inst[i])
BootInv == \A i \in Ids : Boots(inst[i]) =>
    start_records[inst[i].of].retry_count > 0 /\ start_records[inst[i].of].age <= BootMax
RoundInv ==
    /\ round.at = "idle" => round.todo = {}
    /\ round.at = "autoStart" => round.todo \subseteq AutoStart \ auto_started
    /\ round.at = "keepAlive" => round.todo \subseteq KeepAlive
MarkInv == \A t \in AutoStart \ KeepAlive :
    start_records[t].retry_count > 0 => t \in auto_started
IInv == TypeOK /\ SoundInv /\ BootInv /\ RoundInv /\ MarkInv /\ AutoOnce /\ TemplateSingleton

-----------------------------------------------------------------------------
(* Records of instances *)

LEMMA NoInstType == NoInst \in Rec /\ Sound(NoInst) /\ ~Boots(NoInst)
                    /\ Orphan \in Rec /\ Sound(Orphan) /\ ~Boots(Orphan)
                    /\ NoInst.row = "absent" /\ Orphan.row = "absent"
<1>1. AnyTemplate \in Templates  BY SpawnAssumption DEF AnyTemplate
<1>2. Orphan = [of |-> AnyTemplate, row |-> "absent", proc |-> "orphan", by |-> "nobody"]
  BY DEF Orphan, NoInst
<1> QED  BY <1>1, <1>2 DEF NoInst, Rec, Sound, Boots

\* What is left to show of a step that changes one instance: its new record
LEMMA OneInstance ==
    ASSUME IInv, NEW i \in Ids, NEW r \in Rec, Sound(r), ~Boots(r) \/ Boots(inst[i]),
           r.of = inst[i].of \/ ~Boots(r),
           r.row = "absent" \/ r.by # "round" \/ (r.of = inst[i].of /\ inst[i].by = "round"
              /\ (r.proc \in {"task", "booting", "up"} => Live(i))),
           inst' = [inst EXCEPT ![i] = r],
           UNCHANGED <<auto_started, start_records, round, due>>,
           events' \in 0..MaxEvents
    PROVE  IInv'
<1>1. inst \in [Ids -> Rec]  BY DEF IInv, TypeOK, Rec
<1>2. inst' \in [Ids -> Rec] /\ inst'[i] = r /\ \A j \in Ids \ {i} : inst'[j] = inst[j]
  BY <1>1
<1>3. SoundInv'  BY <1>2 DEF IInv, SoundInv
<1>4. TypeOK'
  <2>1. (\A j \in Ids :
            /\ inst[j].row = "active" => inst[j].proc \in {"up", "none"}
            /\ inst[j].row = "absent" <=>
                  inst[j].proc \in {"queued", "orphan"} \/ inst[j] = NoInst)'
    BY <1>3 DEF SoundInv, Sound, NoInst
  <2>2. /\ (auto_started \subseteq AutoStart)'
        /\ (start_records \in [Templates -> [retry_count : 0..MaxRetry, age : 0..Gap+1]])'
        /\ (round \in [at : {"idle", "autoStart", "keepAlive"}, todo : SUBSET Templates])'
        /\ (due \in BOOLEAN)' /\ (events \in 0..MaxEvents)'
    BY DEF IInv, TypeOK
  <2>3. (inst \in [Ids -> [of : Templates, row : {"absent", "Inactive", "active"},
         proc : {"none", "queued", "task", "booting", "up", "failed", "orphan"},
         by : {"nobody", "round", "earlier", "http"}]])'
    BY <1>2 DEF Rec
  <2> QED  BY <2>1, <2>2, <2>3, Zenon DEF TypeOK
<1>5. BootInv'  BY <1>2 DEF IInv, BootInv, Boots
<1>6. RoundInv' /\ MarkInv' /\ AutoOnce'  BY DEF IInv, RoundInv, MarkInv, AutoOnce
<1>7. TemplateSingleton'
  <2> SUFFICES ASSUME NEW a \in Ids, NEW b \in Ids,
                      Live(a)', inst'[a].by = "round", inst'[a].of \in Singleton,
                      Live(b)', inst'[b].by = "round", inst'[b].of = inst'[a].of
               PROVE  a = b
    BY DEF TemplateSingleton
  <2>1. ASSUME NEW c \in Ids, Live(c)', inst'[c].by = "round"
        PROVE  Live(c) /\ inst[c].by = "round" /\ inst[c].of = inst'[c].of
    <3>1. CASE c = i  BY <2>1, <3>1, <1>2 DEF Live
    <3>2. CASE c # i  BY <2>1, <3>2, <1>2 DEF Live
    <3> QED  BY <3>1, <3>2
  <2> QED  BY <2>1 DEF IInv, TemplateSingleton
<1> QED  BY <1>3, <1>4, <1>5, <1>6, <1>7 DEF IInv

-----------------------------------------------------------------------------
(* Starts by a round *)

\* When no instance that a round gave to a singleton template is alive, a new one
\* may be
LEMMA NoneAlive ==
    ASSUME IInv, NEW t \in Templates, LongAgo(t), ~Singled(t), t \in Singleton,
           NEW i \in Ids, Live(i), inst[i].by = "round"
    PROVE  inst[i].of # t
<1> SUFFICES ASSUME inst[i].of = t  PROVE FALSE
  OBVIOUS
<1>1. CASE inst[i].proc = "up"
  BY <1>1 DEF IInv, SoundInv, Sound, Singled, active_instances, OfAbility
<1>2. CASE inst[i].proc \in {"task", "booting"}
  <2>1. /\ start_records[t].retry_count > 0 /\ start_records[t].age <= BootMax
        /\ start_records[t].age \in Nat
    BY <1>2 DEF IInv, BootInv, Boots, TypeOK
  <2> QED  BY <2>1, SpawnAssumption, BootAssumption DEF LongAgo, Gap
<1> QED  BY <1>1, <1>2 DEF Live

LEMMA Spawned ==
    ASSUME IInv, NEW t \in Templates, spawn(t),
           t \in AutoStart \ KeepAlive => start_records[t].retry_count = 0
    PROVE  /\ TypeOK /\ due' \in BOOLEAN /\ auto_started' \subseteq AutoStart
              /\ (round \in [at : {"idle", "autoStart", "keepAlive"}, todo : SUBSET Templates])'
              /\ events' = events
              => TypeOK'
           /\ SoundInv' /\ BootInv' /\ AutoOnce' /\ TemplateSingleton'
           /\ \A u \in Templates \ {t} : start_records'[u] = start_records[u]
<1>1. CASE UNCHANGED <<start_records, inst>>
  BY <1>1 DEF IInv, TypeOK, SoundInv, BootInv, AutoOnce, TemplateSingleton, Live
<1>2. CASE ~UNCHANGED <<start_records, inst>>
  <2>1. /\ ~Singled(t) /\ start_records[t].retry_count < MaxRetry /\ LongAgo(t)
        /\ start_records' = [start_records EXCEPT ![t] =
                               [retry_count |-> start_records[t].retry_count + 1, age |-> 0]]
        /\ create_ability_instance(t, "round", "Inactive", "task")
    BY <1>2 DEF spawn
  <2>2. start_records \in [Templates -> [retry_count : 0..MaxRetry, age : 0..Gap+1]]
        /\ inst \in [Ids -> Rec] /\ MaxRetry \in Nat /\ BootMax \in Nat
    BY SpawnAssumption DEF IInv, TypeOK, Rec
  <2>3. PICK n \in Ids : inst' = [inst EXCEPT ![n] =
                 [of |-> t, row |-> "Inactive", proc |-> "task", by |-> "round"]]
    BY <2>1 DEF create_ability_instance, Fresh, Unused
  <2> DEFINE r == [of |-> t, row |-> "Inactive", proc |-> "task", by |-> "round"]
  <2>4. r \in Rec /\ Sound(r) /\ r.of = t
    BY DEF Rec, Sound, NoInst
  <2>5. inst' \in [Ids -> Rec] /\ inst'[n] = r /\ \A j \in Ids \ {n} : inst'[j] = inst[j]
    BY <2>2, <2>3, <2>4
  <2>6. /\ start_records' \in [Templates -> [retry_count : 0..MaxRetry, age : 0..Gap+1]]
        /\ start_records'[t].retry_count = start_records[t].retry_count + 1
        /\ start_records'[t].age = 0
        /\ \A u \in Templates \ {t} : start_records'[u] = start_records[u]
    BY <2>1, <2>2 DEF Gap
  <2> HIDE DEF r
  <2>7. SoundInv'  BY <2>4, <2>5 DEF IInv, SoundInv
  <2>8. BootInv'
    <3> SUFFICES ASSUME NEW i \in Ids, Boots(inst'[i])
                 PROVE  start_records'[inst'[i].of].retry_count > 0
                        /\ start_records'[inst'[i].of].age <= BootMax
      BY DEF BootInv
    <3>1. start_records'[t].retry_count > 0 /\ start_records'[t].age <= BootMax
      BY <2>2, <2>6
    <3>2. CASE inst'[i].of = t  BY <3>1, <3>2
    <3>3. CASE inst'[i].of # t
      <4>1. inst'[i] = inst[i] /\ inst[i].of \in Templates  BY <3>3, <2>4, <2>5, <2>2 DEF Rec
      <4> QED  BY <4>1, <3>3, <2>6 DEF IInv, BootInv
    <3> QED  BY <3>2, <3>3
  <2>9. AutoOnce'
    BY <2>2, <2>6, SpawnAssumption DEF IInv, AutoOnce
  <2>10. TemplateSingleton'
    <3> SUFFICES ASSUME NEW a \in Ids, NEW b \in Ids,
                        Live(a)', inst'[a].by = "round", inst'[a].of \in Singleton,
                        Live(b)', inst'[b].by = "round", inst'[b].of = inst'[a].of
                 PROVE  a = b
      BY DEF TemplateSingleton
    <3>1. ASSUME NEW c \in Ids, c # n, Live(c)', inst'[c].by = "round", t \in Singleton
          PROVE  inst'[c].of # t
      BY <3>1, <2>1, <2>5, NoneAlive DEF Live
    <3>2. CASE a = n \/ b = n  BY <3>1, <3>2, <2>4, <2>5
    <3>3. CASE a # n /\ b # n
      BY <3>3, <2>5 DEF IInv, TemplateSingleton, Live
    <3> QED  BY <3>2, <3>3
  <2>11. ASSUME due' \in BOOLEAN, auto_started' \subseteq AutoStart, events' = events,
               (round \in [at : {"idle", "autoStart", "keepAlive"}, todo : SUBSET Templates])'
        PROVE  TypeOK'
    <3>1. (\A j \in Ids :
              /\ inst[j].row = "active" => inst[j].proc \in {"up", "none"}
              /\ inst[j].row = "absent" <=>
                    inst[j].proc \in {"queued", "orphan"} \/ inst[j] = NoInst)'
      BY <2>7 DEF SoundInv, Sound, NoInst
    <3>2. (inst \in [Ids -> [of : Templates, row : {"absent", "Inactive", "active"},
             proc : {"none", "queued", "task", "booting", "up", "failed", "orphan"},
             by : {"nobody", "round", "earlier", "http"}]])'
      BY <2>5 DEF Rec
    <3>3. events' \in 0..MaxEvents  BY <2>11 DEF IInv, TypeOK
    <3> QED  BY <2>11, <2>6, <3>1, <3>2, <3>3, Zenon DEF TypeOK
  <2> QED  BY <2>6, <2>7, <2>8, <2>9, <2>10, <2>11
<1> QED  BY <1>1, <1>2

-----------------------------------------------------------------------------

LEMMA InitHolds == Init => IInv
<1> SUFFICES ASSUME Init  PROVE IInv
  OBVIOUS
<1>1. inst \in [Ids -> Rec] /\ \A i \in Ids : inst[i] = NoInst
  BY NoInstType DEF Init
<1>2. SoundInv /\ BootInv /\ TemplateSingleton
  BY <1>1, NoInstType DEF SoundInv, BootInv, TemplateSingleton, Live
<1>3. RoundInv /\ MarkInv /\ AutoOnce
  BY SpawnAssumption DEF Init, NoRecord, RoundInv, MarkInv, AutoOnce
<1>4. TypeOK
  BY <1>1, SpawnAssumption, NoInstType DEF Init, TypeOK, Rec, NoRecord, Gap, NoInst
<1> QED  BY <1>2, <1>3, <1>4 DEF IInv

\* The steps of a round
LEMMA RoundHolds == IInv /\ RoundStep => IInv'
<1> SUFFICES ASSUME IInv, RoundStep  PROVE IInv'
  OBVIOUS
<1>1. ASSUME UNCHANGED <<start_records, inst, auto_started>>, RoundInv', TypeOK'
      PROVE  IInv'
  BY <1>1 DEF IInv, SoundInv, BootInv, MarkInv, AutoOnce, TemplateSingleton, Live
<1>2. CASE BeginRound
  BY <1>1, <1>2, SpawnAssumption DEF BeginRound, IInv, RoundInv, TypeOK
<1>3. CASE AutoStartDone
  BY <1>1, <1>3, SpawnAssumption DEF AutoStartDone, IInv, RoundInv, TypeOK
<1>4. CASE EndRound
  BY <1>1, <1>4, SpawnAssumption DEF EndRound, IInv, RoundInv, TypeOK
<1>5. ASSUME NEW t \in Templates, AutoStartOne(t)  PROVE IInv'
  <2>1. start_records[t].retry_count \in Nat /\ t \in AutoStart /\ t \notin auto_started
        /\ spawn(t) /\ auto_started' = auto_started \cup {t}
    BY <1>5 DEF AutoStartOne, IInv, RoundInv, TypeOK
  <2>2. t \in AutoStart \ KeepAlive => start_records[t].retry_count = 0
    BY <2>1 DEF IInv, MarkInv
  <2>3. RoundInv'  BY <1>5 DEF AutoStartOne, IInv, RoundInv, TypeOK
  <2>4. MarkInv'
    BY <2>1, <2>2, Spawned, SpawnAssumption DEF IInv, MarkInv
  <2>5. TypeOK'
    <3>1. /\ due' \in BOOLEAN /\ auto_started' \subseteq AutoStart
          /\ (round \in [at : {"idle", "autoStart", "keepAlive"}, todo : SUBSET Templates])'
          /\ events' = events
      BY <1>5, <2>1 DEF AutoStartOne, IInv, TypeOK
    <3> QED  BY <2>1, <2>2, <3>1, Spawned DEF IInv
  <2> QED  BY <2>1, <2>2, <2>3, <2>4, <2>5, Spawned DEF IInv
<1>6. ASSUME NEW t \in Templates, KeepAliveOne(t)  PROVE IInv'
  <2>1. /\ t \in KeepAlive /\ auto_started' = auto_started
        /\ spawn(t) \/ UNCHANGED <<start_records, inst>>
    BY <1>6 DEF KeepAliveOne, IInv, RoundInv
  <2>2. RoundInv'  BY <1>6 DEF KeepAliveOne, IInv, RoundInv, TypeOK
  <2>3. /\ due' \in BOOLEAN /\ auto_started' \subseteq AutoStart
        /\ (round \in [at : {"idle", "autoStart", "keepAlive"}, todo : SUBSET Templates])'
        /\ events' = events
    BY <1>6, <2>1 DEF KeepAliveOne, IInv, TypeOK
  <2>4. CASE spawn(t)
    <3>1. MarkInv'
      BY <2>1, <2>4, Spawned, SpawnAssumption DEF IInv, MarkInv
    <3> QED  BY <2>1, <2>2, <2>3, <2>4, <3>1, Spawned DEF IInv
  <2>5. CASE UNCHANGED <<start_records, inst>>
    <3>1. TypeOK'  BY <2>3, <2>5 DEF IInv, TypeOK
    <3> QED  BY <1>1, <2>1, <2>2, <2>5, <3>1
  <2> QED  BY <2>1, <2>4, <2>5
<1> QED  BY <1>2, <1>3, <1>4, <1>5, <1>6 DEF RoundStep

LEMMA Fields ==
    ASSUME NEW x \in Rec, NEW v \in {"booting", "failed", "none"}
    PROVE  /\ [x EXCEPT !.proc = v] =
                  [of |-> x.of, row |-> x.row, proc |-> v, by |-> x.by]
           /\ [x EXCEPT !.proc = v, !.by = "nobody"] =
                  [of |-> x.of, row |-> x.row, proc |-> v, by |-> "nobody"]
<1>1. [x EXCEPT !.proc = v] = [of |-> x.of, row |-> x.row, proc |-> v, by |-> x.by]
  BY DEF Rec
<1> DEFINE y == [x EXCEPT !.proc = v, !.by = "nobody"]
<1>2. y.of = x.of /\ y.row = x.row /\ y.proc = v /\ y.by = "nobody" /\ y \in Rec
  BY DEF Rec
<1> HIDE DEF y
<1>3. y = [of |-> y.of, row |-> y.row, proc |-> y.proc, by |-> y.by]
  BY <1>2 DEF Rec
<1>4. y = [of |-> x.of, row |-> x.row, proc |-> v, by |-> "nobody"]
  BY <1>2, <1>3
<1> QED  BY <1>1, <1>4 DEF y

\* The steps of requests, tasks and processes
LEMMA InstanceHolds ==
    ASSUME IInv, NEW i \in Ids,
           Work(i) \/ FirstHeartbeat(i) \/ Exit(i) \/ DeleteInstance(i)
    PROVE  IInv'
<1>1. inst \in [Ids -> Rec] /\ inst[i] \in Rec /\ Sound(inst[i]) /\ events \in 0..MaxEvents
  BY DEF IInv, TypeOK, SoundInv, Rec
<1> DEFINE R(row, proc, by) == [of |-> inst[i].of, row |-> row, proc |-> proc, by |-> by]
<1>2. CASE CreateInstance(i)
  <2>1. inst' = [inst EXCEPT ![i] = R("Inactive", "task", inst[i].by)] /\ inst[i].by = "http"
    BY <1>1, <1>2 DEF CreateInstance, Rec, Sound
  <2>2. R("Inactive", "task", inst[i].by) \in Rec /\ Sound(R("Inactive", "task", inst[i].by))
    BY <1>1, <2>1 DEF Rec, Sound, NoInst
  <2> QED  BY <1>1, <1>2, <2>1, <2>2, OneInstance DEF CreateInstance, Boots
<1>3. CASE StartProcess(i)
  <2>1. inst[i].row # "absent" /\ inst[i].row # "active"
    BY <1>1, <1>3 DEF StartProcess, Sound, NoInst
  <2>2. CASE inst' = [inst EXCEPT ![i].proc = "booting"]
    <3>1. inst' = [inst EXCEPT ![i] = R(inst[i].row, "booting", inst[i].by)]
      BY <1>1, <2>2, Fields
    <3>2. /\ R(inst[i].row, "booting", inst[i].by) \in Rec
          /\ Sound(R(inst[i].row, "booting", inst[i].by))
      BY <1>1, <2>1 DEF Rec, Sound, NoInst
    <3>3. Live(i)  BY <1>3, <2>1 DEF StartProcess, Live
    <3> QED  BY <1>1, <1>3, <3>1, <3>2, <3>3, OneInstance DEF StartProcess, Boots
  <2>3. CASE inst' = [inst EXCEPT ![i].proc = "failed", ![i].by = "nobody"]
    <3>1. inst' = [inst EXCEPT ![i] = R(inst[i].row, "failed", "nobody")]
      BY <1>1, <2>3, Fields
    <3>2. /\ R(inst[i].row, "failed", "nobody") \in Rec
          /\ Sound(R(inst[i].row, "failed", "nobody"))
      BY <1>1, <2>1 DEF Rec, Sound, NoInst
    <3> QED  BY <1>1, <1>3, <3>1, <3>2, OneInstance DEF StartProcess, Boots
  <2> QED  BY <1>3, <2>2, <2>3 DEF StartProcess
<1>4. CASE FirstHeartbeat(i)
  <2>1. inst' = [inst EXCEPT ![i] = R("active", "up", inst[i].by)]
    BY <1>1, <1>4 DEF FirstHeartbeat, Rec
  <2>2. R("active", "up", inst[i].by) \in Rec /\ Sound(R("active", "up", inst[i].by))
    BY <1>1 DEF Rec, Sound, NoInst
  <2>3. Live(i)  BY <1>1, <1>4 DEF FirstHeartbeat, Live, Sound, NoInst
  <2> QED  BY <1>1, <1>4, <2>1, <2>2, <2>3, OneInstance DEF FirstHeartbeat, Boots
<1>5. CASE Exit(i)
  <2>1. CASE inst[i].row = "absent"
    <3>1. inst' = [inst EXCEPT ![i] = NoInst]  BY <1>5, <2>1 DEF Exit
    <3> QED  BY <1>1, <1>5, <3>1, NoInstType, OneInstance DEF Exit
  <2>2. CASE inst[i].row # "absent"
    <3>1. inst' = [inst EXCEPT ![i] = [inst[i] EXCEPT !.proc = "none", !.by = "nobody"]]
      BY <1>5, <2>2 DEF Exit
    <3>2. [inst[i] EXCEPT !.proc = "none", !.by = "nobody"] = R(inst[i].row, "none", "nobody")
      BY <1>1, Fields
    <3>3. /\ R(inst[i].row, "none", "nobody") \in Rec
          /\ Sound(R(inst[i].row, "none", "nobody"))
      BY <1>1, <2>2 DEF Rec, Sound, NoInst
    <3> QED  BY <1>1, <1>5, <3>1, <3>2, <3>3, OneInstance DEF Exit, Boots
  <2> QED  BY <2>1, <2>2
<1>6. CASE Reap(i)
  BY <1>1, <1>6, NoInstType, OneInstance DEF Reap
<1>7. CASE DeleteInstance(i)
  <2>1. \/ inst' = [inst EXCEPT ![i] = NoInst]
        \/ inst' = [inst EXCEPT ![i] = Orphan]
    BY <1>7 DEF DeleteInstance
  <2>2. events' \in 0..MaxEvents
    BY <1>1, <1>7, SpawnAssumption DEF DeleteInstance, Event
  <2> QED  BY <1>1, <1>7, <2>1, <2>2, NoInstType, OneInstance DEF DeleteInstance
<1> QED  BY <1>2, <1>3, <1>4, <1>5, <1>6, <1>7 DEF Work

LEMMA PostHolds == ASSUME IInv, NEW t \in Templates, PostInstance(t)  PROVE IInv'
<1>1. events' \in 0..MaxEvents /\ events \in 0..MaxEvents
  BY SpawnAssumption DEF PostInstance, Event, IInv, TypeOK
<1>2. CASE inst' = inst
  <2>1. TypeOK'  BY <1>1, <1>2 DEF PostInstance, IInv, TypeOK
  <2> QED
    BY <1>2, <2>1 DEF PostInstance, IInv, SoundInv, BootInv, RoundInv, MarkInv, AutoOnce,
                      TemplateSingleton, Live
<1>3. CASE inst' # inst
  <2> DEFINE r == [of |-> t, row |-> "absent", proc |-> "queued", by |-> "http"]
  <2>1. PICK n \in Ids : inst' = [inst EXCEPT ![n] = r]
    BY <1>3 DEF PostInstance, create_ability_instance, Fresh, Unused
  <2>2. r \in Rec /\ Sound(r) /\ ~Boots(r) /\ r.row = "absent"
    BY DEF Rec, Sound, Boots, NoInst
  <2> HIDE DEF r
  <2> QED  BY <1>1, <2>1, <2>2, OneInstance DEF PostInstance
<1> QED  BY <1>2, <1>3

\* Time and restarts
LEMMA TickHolds == IInv /\ Tick => IInv'
<1> SUFFICES ASSUME IInv, Tick  PROVE IInv'
  OBVIOUS
<1>1. start_records \in [Templates -> [retry_count : 0..MaxRetry, age : 0..Gap+1]]
      /\ inst \in [Ids -> Rec] /\ MaxRetry \in Nat /\ BootMax \in Nat /\ BootMax < Gap
  BY SpawnAssumption, BootAssumption DEF IInv, TypeOK, Rec
<1>2. ASSUME NEW t \in Templates
      PROVE  /\ start_records'[t] \in [retry_count : 0..MaxRetry, age : 0..Gap+1]
             /\ start_records'[t].retry_count = start_records[t].retry_count
             /\ start_records[t].age < BootMax => start_records'[t].age <= BootMax
  <2> DEFINE a == IF start_records[t].retry_count = 0 THEN 0
                  ELSE AtMost(Gap + 1, start_records[t].age + 1)
  <2>1. start_records'[t] = [start_records[t] EXCEPT !.age = a]
    BY DEF Tick
  <2>2. a \in 0..Gap+1 /\ (start_records[t].age < BootMax => a <= BootMax)
    BY <1>1 DEF AtMost, Gap
  <2> HIDE DEF a
  <2>3. start_records'[t] = [retry_count |-> start_records[t].retry_count, age |-> a]
    BY <1>1, <2>1
  <2> QED  BY <1>1, <2>2, <2>3
<1>3. TypeOK'
  <2>1. start_records' \in [Templates -> [retry_count : 0..MaxRetry, age : 0..Gap+1]]
    BY <1>2 DEF Tick
  <2> QED  BY <2>1 DEF Tick, IInv, TypeOK
<1>4. BootInv'
  <2> SUFFICES ASSUME NEW i \in Ids, Boots(inst[i])
               PROVE  start_records'[inst[i].of].retry_count > 0
                      /\ start_records'[inst[i].of].age <= BootMax
    BY DEF BootInv, Tick
  <2>1. inst[i].of \in Templates  BY <1>1 DEF Rec
  <2>2. ~(start_records[inst[i].of].age >= BootMax)
    BY DEF Tick, Late, Boots
  <2>3. start_records[inst[i].of].age \in Nat  BY <1>1, <2>1 DEF Gap
  <2> QED  BY <1>1, <1>2, <2>1, <2>2, <2>3 DEF IInv, BootInv
<1>5. MarkInv' /\ AutoOnce'
  BY <1>2, SpawnAssumption DEF Tick, IInv, MarkInv, AutoOnce
<1>6. SoundInv' /\ RoundInv' /\ TemplateSingleton'
  BY DEF Tick, IInv, SoundInv, RoundInv, TemplateSingleton, Live
<1> QED  BY <1>3, <1>4, <1>5, <1>6 DEF IInv

LEMMA ReinstallHolds == ASSUME IInv, NEW t \in Templates, Reinstall(t)  PROVE IInv'
<1>1. /\ start_records \in [Templates -> [retry_count : 0..MaxRetry, age : 0..Gap+1]]
      /\ inst \in [Ids -> Rec] /\ MaxRetry \in Nat
  BY SpawnAssumption DEF IInv, TypeOK, Rec
<1>2. ASSUME NEW i \in Ids
      PROVE  /\ inst'[i] \in Rec /\ Sound(inst'[i]) /\ inst'[i].of = inst[i].of
             /\ inst'[i].row = inst[i].row /\ inst'[i].proc = inst[i].proc
             /\ inst'[i].by = "round" => inst[i].by = "round" /\ inst[i].of # t
  <2>1. CASE inst[i].of = t /\ inst[i].by = "round"
    <3>1. inst'[i] = [inst[i] EXCEPT !.by = "earlier"]  BY <2>1 DEF Reinstall
    <3>2. inst[i] \in Rec /\ Sound(inst[i])  BY <1>1 DEF IInv, SoundInv
    <3> DEFINE y == [inst[i] EXCEPT !.by = "earlier"]
    <3>3. /\ y \in Rec /\ y.of = inst[i].of /\ y.row = inst[i].row
          /\ y.proc = inst[i].proc /\ y.by = "earlier"
      BY <3>2 DEF Rec
    <3> HIDE DEF y
    <3>4. inst[i].row = "absent" => inst[i].proc = "orphan"
      BY <2>1, <3>2 DEF Sound, NoInst
    <3>5. Sound(y)
      BY <3>2, <3>3, <3>4, <2>1 DEF Sound, NoInst
    <3> QED  BY <3>1, <3>3, <3>5 DEF y
  <2>2. CASE ~(inst[i].of = t /\ inst[i].by = "round")
    BY <1>1, <2>2 DEF Reinstall, IInv, SoundInv
  <2> QED  BY <2>1, <2>2
<1>3. /\ start_records' \in [Templates -> [retry_count : 0..MaxRetry, age : 0..Gap+1]]
      /\ start_records'[t].retry_count = 0
      /\ \A u \in Templates \ {t} : start_records'[u] = start_records[u]
  BY <1>1 DEF Reinstall, NoRecord, Gap
<1>4. SoundInv'  BY <1>2 DEF SoundInv
<1>5. BootInv'
  <2> SUFFICES ASSUME NEW i \in Ids, Boots(inst'[i])
               PROVE  start_records'[inst'[i].of].retry_count > 0
                      /\ start_records'[inst'[i].of].age <= BootMax
    BY DEF BootInv
  <2>1. inst[i].of \in Templates \ {t}  BY <1>1, <1>2 DEF Boots, Rec
  <2> QED  BY <1>2, <1>3, <2>1 DEF IInv, BootInv, Boots
<1>6. MarkInv' /\ AutoOnce' /\ RoundInv'
  BY <1>3, SpawnAssumption DEF Reinstall, IInv, MarkInv, AutoOnce, RoundInv
<1>7. TemplateSingleton'
  BY <1>2 DEF IInv, TemplateSingleton, Live
<1>8. TypeOK'
  <2>1. (\A j \in Ids :
            /\ inst[j].row = "active" => inst[j].proc \in {"up", "none"}
            /\ inst[j].row = "absent" <=>
                  inst[j].proc \in {"queued", "orphan"} \/ inst[j] = NoInst)'
    BY <1>4 DEF SoundInv, Sound, NoInst
  <2>2. inst' \in [Ids -> Rec]
    BY <1>2 DEF Reinstall
  <2>3. (inst \in [Ids -> [of : Templates, row : {"absent", "Inactive", "active"},
           proc : {"none", "queued", "task", "booting", "up", "failed", "orphan"},
           by : {"nobody", "round", "earlier", "http"}]])'
    BY <2>2 DEF Rec
  <2>4. /\ due' \in BOOLEAN /\ auto_started' \subseteq AutoStart
        /\ (round \in [at : {"idle", "autoStart", "keepAlive"}, todo : SUBSET Templates])'
        /\ events' \in 0..MaxEvents
    BY SpawnAssumption DEF Reinstall, Event, IInv, TypeOK
  <2> QED  BY <1>3, <2>1, <2>3, <2>4, Zenon DEF TypeOK
<1> QED  BY <1>4, <1>5, <1>6, <1>7, <1>8 DEF IInv

LEMMA RestartHolds == IInv /\ Restart => IInv'
<1> SUFFICES ASSUME IInv, Restart  PROVE IInv'
  OBVIOUS
<1>1. inst' \in [Ids -> Rec] /\ \A i \in Ids : inst'[i] = NoInst
  BY NoInstType DEF Restart
<1>2. SoundInv' /\ BootInv' /\ TemplateSingleton'
  BY <1>1, NoInstType DEF SoundInv, BootInv, TemplateSingleton, Live
<1>3. RoundInv' /\ MarkInv' /\ AutoOnce'
  BY SpawnAssumption DEF Restart, NoRecord, RoundInv, MarkInv, AutoOnce
<1>4. events' \in 0..MaxEvents
  BY SpawnAssumption DEF Restart, Event, IInv, TypeOK
<1>5. TypeOK'
  BY <1>1, <1>4, SpawnAssumption, NoInstType DEF Restart, TypeOK, Rec, NoRecord, Gap, NoInst
<1> QED  BY <1>2, <1>3, <1>5 DEF IInv

-----------------------------------------------------------------------------

\* The inductive invariant, for every step of rounds, requests, processes and time
THEOREM Invariant == Spec => []IInv
<1>1. Init => IInv
  BY InitHolds
<1>2. IInv /\ [Next]_vars => IInv'
  <2> SUFFICES ASSUME IInv, [Next]_vars  PROVE IInv'
    OBVIOUS
  <2>1. CASE UNCHANGED vars
    BY <2>1 DEF vars, IInv, TypeOK, SoundInv, BootInv, RoundInv, MarkInv, AutoOnce,
                TemplateSingleton, Live
  <2>2. CASE Next
    BY <2>2, RoundHolds, TickHolds, RestartHolds, PostHolds, ReinstallHolds, InstanceHolds
       DEF Next
  <2> QED  BY <2>1, <2>2
<1> QED  BY <1>1, <1>2, PTL DEF Spec

\* Types, and the fields of an instance agree, for any templates and bounds
THEOREM TypeCorrect == Spec => []TypeOK
<1>1. IInv => TypeOK  BY DEF IInv
<1> QED  BY <1>1, Invariant, PTL

\* auto_start_ability starts a template that is not kept alive once at most
THEOREM StartedOnce == Spec => []AutoOnce
<1>1. IInv => AutoOnce  BY DEF IInv
<1> QED  BY <1>1, Invariant, PTL

\* Rounds give a singleton template one live instance at most, if a boot is shorter
\* than the gap between two starts
THEOREM OneInstanceOfATemplate == Spec => []TemplateSingleton
<1>1. IInv => TemplateSingleton  BY DEF IInv
<1> QED  BY <1>1, Invariant, PTL
=============================================================================
