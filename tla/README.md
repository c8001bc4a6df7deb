# AbilityFramework in TLA+

AbilityFramework is a C++ process that installs *abilities* (programs described by a CR, a custom
resource), starts instances of them as child processes, follows them by heartbeats, drives them through
a lifecycle, lets them occupy each other and devices, and finds other frameworks on the network with
which it elects the master of a team. This directory holds TLA+ modules that model its concurrent and
stateful parts, TLC configurations that check them on small instances, and theorems that TLAPS proves
for every value of the constants.

Paths below are relative to the repository (`src/` in PROJECT.json is the repository's root, so
`src/src/lifecyclemgr/...` there is `src/lifecyclemgr/...` here). PROJECT.json lists, for machines, what
this file tells in prose: components, runs, mutants, the source lines of each definition, findings,
hazards and theorems.

Contents: 1 the system, 2 the modules and the code, 3 the runs, 4 fairness, 5 the proofs, 6 findings,
7 what is not modelled, 8 the plan.

## 1. The system

### 1.1 Threads and how the parts talk

One process, with four kinds of threads:

- the **HTTP server's threads** (cpp-httplib's pool): each request runs its handler there, from the
  SDK of an ability, a controller, a web page or another framework;
- the **two workers of the message bus** (`BusThreadPool(2)`, `messagebus.cpp:36`), which run the
  handlers that modules register under a topic;
- the **libuv loop thread** (`main.cpp`), which runs exit callbacks of children, async events and
  timers: `TaskManager::update` every 30 ms, the re-reading of CR files, `clear_stale_heartbeats` and
  `update_mdns_state` every 10 s;
- **libuv's work pool**, which runs the bodies of `ThreadQueueWorkTask`s; the election and the
  discovery have threads of their own besides.

Modules are added to the bus in the order task_mgr, lifecycle_mgr, resource_mgr, subprocess_mgr,
task_status_mgr, controller_mgr (`main.cpp`). They call each other by `send` (fire and forget) and by
`send_sync`, which waits for an answer for at most 10 s by default; when it gives up the message stays
in the pool's queue and its handler still runs. Otherwise they share a SQLite database, of which single statements are
atomic, and in-memory maps with a lock per shard (`concurrent_map`). SIGINT stops the loop and the
modules (`main.cpp:386-400`).

### 1.2 Components

| component | state | operations | correct when |
|---|---|---|---|
| **LifecycleManager** (`src/lifecyclemgr/lifecycle_mgr.cpp`) | `heartbeats`: id -> last heartbeat, client, time | heartbeats, start/connect/disconnect/terminate requests (each makes a task), exit events, removal of stale entries | the map, the AbilityInstance table and the processes agree in the end, whatever order threads take; nothing unregistered is taken for an active ability; a lifecycle task ends |
| **SubprocessManager** (`subprocessmgr.cpp`) | handles of children | start_process, exit callback, SIGTERM for all at the end | each child's exit is told once to its manager |
| **ResourceManager: instances** (`resource_mgr.cpp`, `resource_mgr_http_apis.cpp`) | table AbilityInstance (dropped at each start) | create, DELETE, heartbeat UPDATE, exit notice, `auto_start_ability` with `start_records` | a deleted row stays deleted; an active row has a process; a singleton has one instance; autoStart starts once, keepAlive again |
| **ResourceManager: ownership** | table CROwnership (kept on disk) | occupy, unoccupy for abilities and devices, local or by HTTP from another framework | a child owned uniquely has one occupier; answers are true |
| **TaskManager and tasks** (`task_entry.cpp`, `common_tasks.cpp`) | active handles; per task a state, its leaf, times | add, update, resume; a worker ends a leaf | leaves run in order, ends are final, each task ends |
| **ServiceLifecycleManager** (`service_lifecycle.cpp`) | services: state, restart and failure counters, handle | start, stop, exit callback, health checks | restarts are bounded, Stopped is final, Running has a process, restarts end |
| **Bully election** (`bully.cpp`, `election_mgr.cpp`) | leader, peers, the mutex `m` | victory and ping rounds, their handlers, broadcast | nobody follows a smaller key; whoever has a leader that is gone gets another one |
| **Message bus** (`messagebus.cpp`, `thread_pool.hpp`) | registry, queue, two workers | send, send_sync, stop_all_modules | callers hear of no effect before it is there; workers do not wait for each other for ever; the program ends |
| **DiscoveryManager** (`discovery_mgr.cpp`) | TeamMaster, TeamMember with last_updated, team_tokens, Peers | the master's UDP broadcast, HTTP heartbeats, join, leave, periodic removal | tokens have their master's address; members that left disappear, live ones stay listed |
| **ControllerManager** (`controller_mgr.cpp`) | controllers, last heartbeat | start, heartbeat, restart of silent ones | one process per controller |
| **TaskStatusManager** (`task_status_mgr.cpp`) | a table keyed by task id and second | record, query | the last status is the task's last |
| **Package store and CR tables** (`store_mgr.cpp`, `resource_mgr.cpp`) | packages/, the mirrored CRs in crs/_packages, CR/CRD tables, the list of packages read | upload, upgrade, removal, download, uninstallation, `update` | tables and files agree after each undisturbed round; a removed package leaves no row; a readable CR keeps its row |
| **AbilityAlertManager, ModelManager, mDNS/JWT, JSON schema, database connection, main, utilities** | see section 7 | | |

How they interact, in the flows that are hard:

- *start*: HTTP asks LifecycleManager -> a SequentialTask of `start_process` (by `send_sync` to
  SubprocessManager) and a wait for the first heartbeat, at most 15 s;
- *heartbeat*: SDK -> HTTP -> `send_sync` to ResourceManager, which updates the row and says whether it
  knows the id -> LifecycleManager inserts the entry, or HTTP answers 410, upon which the SDK ends
  its process;
- *exit*: libuv -> SubprocessManager -> `on_ability_exit` erases the entry -> `send_sync` to
  ResourceManager deletes the row;
- *update*: the 10 s timer, an upload, a removal or a download's task -> `m` -> read packages, mirror their
  CRs, read all CR files into the tables, drop rows that no file has -> `auto_start_ability`, which creates
  rows and submits start tasks;
- *team*: a master's broadcast -> the member's TeamMaster and token -> the member's HTTP heartbeats -> the
  master's TeamMember, from which silence removes it;
- *terminate, DELETE*: a task tells the process by its own HTTP port and waits for the heartbeat that
  says Terminated, while DELETE deletes the row without waiting for it.

### 1.3 What is hard

- The map, the table and the process change in three places by three kinds of threads, and every
  pair of steps may be interleaved: a heartbeat accepted before an exit is inserted after it, a stale
  entry is refreshed between its collection and its removal, DELETE races with all of them.
- A `send_sync` that timed out is *not* undone: its handler runs later, in any order.
- A restart drops the table and the memory while children live on and go on posting heartbeats.
- A worker of libuv's pool writes a leaf's exception, state and end time, without a lock, while the
  loop reads them.
- Ownership is checked and written in three statements, from threads that overlap, and across
  frameworks an answer may be lost after the row was written.
- Two elections in a round wait for each other's mutex until their requests time out; late requests of
  a stopped framework bring it back into the list of peers.
- Handlers of LifecycleMgr call `send_sync` from the two workers that are to run what they ask for, while
  they hold their module's `m_msg_handler` and the bus's mutex, for which the end of the program waits.
- Files change under `update` while it reads them: package methods hold `m_dirs`, package tasks no lock,
  and `update` holds neither. What disappears ends it by an exception halfway.
- An instance is Inactive, and invisible to every singleton check, until its first heartbeat.
- UDP packets are lost and reordered while masters come back with other addresses, and a heartbeat to
  an address nobody answers holds up everything else on the loop thread.
- Counters at their limit: restarts, failed health checks, retries.

PROJECT.json lists every such hazard with its line and the properties aimed at it.

## 2. The modules and the code

Each module models one component with the parts of its neighbours it depends on; `MC...` modules
give values to its constants, `..._proofs` modules hold its theorems. Definitions keep the names of
the code. A definition whose name has a suffix (`ReadOwner_Ignored`) stands before the definition it
varies: it is the same operation with a plausible bug, and PROJECT.json says which property it breaks.

### 2.1 AbilityLifecycle

One framework, its children and its restarts. Everything a thread does between two points where
another may step is one action.

| variable | code |
|---|---|
| `row` | `state` column of AbilityInstance, `"absent"` when there is no row |
| `born` | history: has `create_ability_instance` drawn the id, in this run of the framework or before |
| `hb` | `LifecycleManager::heartbeats`; `from` is the process whose port the client has, `fresh` whether the last update is younger than the limit |
| `proc` | children and orphans; `exited` means the exit callback is due, `erased` that it is between the map and the table, `reaped` that it is over, `gone` an exit nobody is told of |
| `post` | a heartbeat between the SDK and the map: on the bus, then about to be inserted |
| `late` | messages whose sender gave up |
| `tk` | lifecycle tasks at their current leaf, with the client they captured |
| `stale`, `deleting` | a `clear_stale_heartbeats` and DELETE requests in the middle |

| action | code |
|---|---|
| `CreateInstance`, `DeleteRequest`, `DeleteRow` | `create_ability_instance`, DELETE `/api/instance/:id`, `delete_ability_instance` |
| `StartRequest`, `AdjustRequest` | `on_lifecycle_request` and the two builders of tasks |
| `Spawn`, `SpawnFails`, `SpawnTimeout`, `HeartbeatSeen`, `WaitTimeout` | the leaves of a start task |
| `ExecuteCommand`, `StateReached`, `WaitTimeout` | the leaves of an adjust task |
| `ResourceHandle`, `BusTimeout`, `ApplyHeartbeat` | `on_heartbeat` with ResourceManager's `on_event_heartbeat` inside |
| `LateHeartbeat`, `LateExited`, `LateSpawn` | the same handlers after their sender's timeout |
| `ExitErase`, `ExitDeleteRow`, `ExitTimeout` | `on_ability_exit` |
| `CollectStale`, `EraseStale` | `clear_stale_heartbeats` |
| `FrameworkRestart` | the end of the process, by a crash or by SIGINT, and `init` of the next one |
| `SendHeartbeat`, `AbilityStep`, `ProcessExit`, `AgeEntry` | external: the SDK, the operating system, time |

External processes are modelled from what the code relies on: they report a state of `Reported`, obey
a command that reaches them or ignore it, end at any moment, and end eventually when told to.

**InstanceLife** is what those who list instances may rely on, in four variables and without threads, messages or
timeouts: a row is shown from the creation of its instance until it is removed, once; its state comes from a process of
this run whose end the table does not know (`with`); the heartbeat map takes nobody for active whose id was not drawn
in this run, and says Terminated only of what has no row. AbilityLifecycle implements it (`KeepsLife`): `shown` is
`row`, `seen` the states in `hb`, `with` the ids with a child between `Spawn` and the end of `on_ability_exit`, counting
a notice that is on the bus after its sender gave up. That a removed row does not come back (RowNeverResurrected) is a
consequence, and a theorem of its own.

### 2.2 ServiceLifecycle

`ServiceLifecycleManager` method by method; each holds the mutex for its whole length, so each is one
action, and Starting and Restarting, which exist only inside, do not appear. The start function and the probes are
external. A callback of an earlier process acts on the present entry, since it has the service's id
only. `spawns` is a history variable. The class is complete, but `main` does not instantiate it
yet.

### 2.3 TaskEngine

`TaskManager::add` and `update`, `SequentialTask::resume` and the three kinds of leaves the program's
chains are made of. `ThreadQueueWorkTask::resume` is split into `StartWork`, `QueueWork` and
`ReturnFromQueue`, because the pool's worker may write the leaf's exception, its state or both between
the queueing and the reads that follow it, in which `error()` comes before `state()`. `WorkThrows` and
`WorkErrors` are the two writes of `set_error`. Times are readings of a counter.

### 2.4 Occupation

The table CROwnership (`rows`) and requests in progress (`req`), whose three statements are three
actions: `ReadOwner`, `ReadSharers`, `WriteRow`. The look for the child comes first and may end a request as `missing`
(in `ReadOwner`); children that come and go are AbilityLifecycle's and CRSync's, so it may do so at any time. `LoseAnswer` is a forwarder that got no answer while the
handler goes on; `Crash` ends the handlers and keeps the table. `occupy_device` is modelled as it is: it
writes its row with the kinds of an ability. `Serial` says whether requests for one child may
overlap: the program does nothing to prevent it, and AbilityExclusive and DecidedAtOnce hold only when they do not. What
they say of OC_serial is therefore nothing about that race, which is OC_race's subject.

**Ownership** is the lock table that askers have in mind: a request is refused or granted in one moment, by what is held
then, and who asks again for what it holds is granted it; a request for a child that is missing changes nothing. Under `Serial`, Occupation implements it for abilities
(`DecidedAtOnce`), over lost answers, retries and crashes. Devices are left out of the mapping (`HeldAbilities`,
`AskedAbilities`), since their rows are never found again (section 6).

### 2.5 BullyElection

One `Bully` per framework, with the working thread's round (`work`) as a span in which the mutex is
held, requests that wait for a receiver's mutex in `inbox`, and timeouts that leave them there.
`Weight` and the ids make the key. The broadcasts at the end of a round are not messages: `broadcast` fills `msg_buf`,
and the program never starts the thread that would send it (section 6). `Announce`, an external action without
fairness, is any other way in which a ping of a framework reaches another one, so the properties hold whether
frameworks ever hear of each other or not. `Reach` may fail at any time: nobody answers, or the request is answered by
something else than 200, which the sender takes for a timeout too. `bully.challange` has a handler equal to that of
`bully.ping` and no sender.

### 2.6 MessageBus and BusCalls

`send_sync` is `SendSync` for threads of the program and `Call` for a handler on a worker; both hold
`BusPrivateMtx` shared until they have an answer or give up (`Waits`), which is what `StopBegins` waits for.
`Send` runs the handler at once, in the caller, and answers with what the handler returns. `Take`, `Lock`, `HandlerReturns` and `HandlerFails` are a
worker's job: the handlers of a `BasicModule` run under its `m_msg_handler`, so two requests for
LifecycleMgr take turns, and while the first waits for a message of its own, the second holds the other
worker. Message `<<c, k>>` is the k-th call that the handler of call c makes. Which operations
call which is a constant, with the values of `on_lifecycle_request` in MCMessageBus; that a
nested call's handler makes no further call is `DepthAssumption`, true of the handlers of ResourceMgr
and TaskMgr that LifecycleMgr asks. After the end every call is `Refused` ("no such module"). `CallersAssumption` says that only one module has handlers that make calls,
LifecycleMgr, and that no handler calls that module. A nested call after the end fails at once ("no such module") and is
covered by `HandlerFails`. Handlers of modules that respond themselves do so once; a handler that never
responds is not modelled, as no `send_sync` of the program goes to one.

**BusCalls** is what callers may rely on: a call takes effect once at most, an answer comes after the
effect, a call that is refused has none, a caller that gave up learns nothing more while the effect may still come. MessageBus implements it
(`KeepsPromise`); the messages in `post` and `late` of AbilityLifecycle behave as it says.

### 2.7 CRSync

`ResourceManager::update` against the methods of StoreManager that change what it reads.

| variable | code |
|---|---|
| `installed`, `content` | directories under `packages/`, and the CR files in each package's own `crs/` |
| `mirror`, `torn` | the copies under `crs/_packages`, and those of them that `copy_file` is overwriting |
| `rows`, `packages` | AbilityCRBasic by key, and ResourceManager's list of the packages it has read |
| `m`, `m_dirs` | holders of `ResourceManager::m` and `StoreManager::m_dirs` |
| `round` | the locals of the `update` that holds `m`: packages not yet visited, CRs not yet read, `ability_keys` |
| `th` | where each HTTP thread, pool thread and the loop is |

A directory iterator is modelled as visiting its entries in any order, with everything else able to step in
between; a directory that has been listed and is gone when it is opened throws (`Abort`, while packages are listed, copied
or their CRs read), and `lock_guard` lets `m` go. A package without a `crs` directory is passed over, and the round goes on. `upload`, `force` and `delete` are POST and DELETE `/api/package`; `download` is the task of
`task_download_package`; `uninstall` is `task_remove_package`, which removes the directory and leaves the mirror. A
round may read a torn file as valid, as invalid, or as what was there before. CRs of `Remote` are for another framework,
which is asked whether they are valid: it may refuse any of them in any round, or not answer, and the CR is passed over. `Crash` keeps disk and tables. `fresh`,
`gone` and `missed` are history variables that `Observe` computes in the same step.

CRs are identified by their key (ability, version, instance name), as `ability_keys` does, and one key has one
file: two packages that ship the same key are not modelled.

### 2.8 SpawnPolicy

`auto_start_ability`, the only caller of `spawn_instance_from_template`, against POST and DELETE `/api/instance`.
`start_records` has the code's `retry_count` and, for `last_start`, the age of the last start in ticks of 10 s; with
the real clock 20 s lie anywhere from two to three ticks back, so `TooSoon` and `LongAgo` are both true at two. `inst` is an
instance with its row, what its process does (queued in a task, in a start task, booting, up, over, an orphan without
row) and who asked for it. A round has `m` and takes templates one by one from the lists it selected at its beginning, in
`autoStart` and then `keepAlive`; it may begin at any time (uploads), and once in each tick at least (`due`). `Reinstall`
is what CRSync's `DropHasCause` allows: a template whose row went and came back has another id, so its mark and its
records start again. The detail of the start task, heartbeats and exits is AbilityLifecycle's.

### 2.9 TeamDirectory

Masters broadcast; members hear, join, leave and send heartbeats; masters list and remove.

| variable | code |
|---|---|
| `host` | `master_token` and the addresses of a master, read when it starts: one of `Hosts[m]` each time |
| `net` | broadcasts on their way, lost by never having reached anybody, in no order |
| `hearing` | a packet that the loop thread is handling, between the entry's port and team and the end of the walk over the tokens; `raced` when the tokens changed meanwhile |
| `TeamMaster`, `team_tokens` | the entries of `multi_map.TeamMaster`, and `masterIP`, `masterPort` of the token of a team |
| `joining` | `join_team` on each HTTP thread between its look at TeamMaster and its `push_back`; two may look before either pushes |
| `round` | the timer of `start_sending`, token by token, `waiting` on an address that does not answer; `lost` are teams whose heartbeat was refused or skipped |
| `TeamMember`, `expired` | `last_updated` of each member as an age in ticks of 10 s, and what the cleanup has seen to be too old and not yet erased |
| `spoilt` | history: teams whose tokens something has kept from following their master |
| `since` | history: ticks for which a member has had its master's address, with nothing in the way |

`TokensAfter` is the address part of `create_master_info` and `update_master_info`: a new entry always brings its address
into the tokens of its team, a known one only when its list of IPs changes (`LeftBehind` are the teams for which it then
does not). HTTP threads run beside the loop thread, without a lock. A join or leave in the middle of a walk over
`team_tokens` is a data race on a vector (`Disturbs`): a walk that writes may then write the address into any of the tokens, and a
walk that sends may miss any of those it had left. A crash of the process is `StopMember`. The member's JWT may be refused by
`/api/team-heartbeat` at any time, which costs it the tick. Members and masters are separate, since a framework's two roles
share no table; a packet of the master's own is dropped.

## 3. The runs

Deadlock is checked where the system never stops (the Occupation and BullyElection runs). In the others
a run out of the bounds, or of everything to do, is a legitimate end.

| run | instance | shows |
|---|---|---|
| AL_processes | one instance id, 2 processes, 1 task, 1 restart | an active row has its process; orphans are never active; table and heartbeat map show the life that InstanceLife promises; every process without a row ends |
| AL_liveness | one instance id and one template id, 1 process, 1 late message, 1 restart | ghost entries disappear, a live ability is listed again and again |
| SL_policies | an on-failure service with a probe and a never service, 3 processes, 2 starts each, limit 2, threshold 2 | restarts bounded, Running has its process, a service whose processes keep ending is given up |
| TE_chains | chains work-wait, atomic-work and an empty one, all at once | order of leaves, finality of ends, no resumption of a closed task, every task ends |
| OC_serial | 3 occupiers, an ability, a device, 2 requests at a time that do not overlap on a child | exclusive ownership; each request for an ability is decided in one moment, over releases, lost answers and crashes |
| OC_race | 2 occupiers, requests may overlap | *violated*: OneOwner. Both requests of the trace ask for unique ownership and both get it |
| BU_leaders | 3 frameworks, 2 stops with restarts, 2 requests waiting for a mutex at a time | nobody follows a smaller key; each framework that runs comes again and again to a leader that runs |
| MB_stops | a start request (2 nested calls), a connect request (1), an event, 2 workers, timeouts, handlers that fail, SIGINT at any moment | all workers wait for workers only behind one module's mutex; nobody hears of an effect before it is there; the program's end is not held up |
| CR_sync | one package with a CR file, a local and a remote CR file of the user's, an HTTP thread, a pool thread and the timer, 3 requests, 1 crash | undisturbed rounds leave rows in step with files; a deleted package has no row after the answer; a row is dropped for a cause; all comes in step at last |
| SP_starts | 2 singleton templates of one ability, both autoStart, one keepAlive, 5 instances, 2 starts each, a boot of at most one tick, 1 event | one instance by rounds of each template; autoStart once; keepAlive until its starts are used up |
| SP_singleton | the same with 2 events | *violated*: two live instances of a singleton ability |
| TD_team | a member with 2 HTTP threads, one master that may come back with another IP, another port or as another team's, 2 teams, expiry of 2 ticks, 3 stops, joins or leaves | tokens have an address of their master or a named cause why not; live members are listed, lost ones go; tokens come to the present address |

Bounds and why they are enough:

- `MaxProcs = 2` for one id gives a second process of the same instance (two start requests before the
  first heartbeat, or a start in state Error), which is where entry, row and process come
  apart. Different ids share no state except the loop thread, and the sets of ids are arbitrary in the
  proofs. `MaxRestarts = 1` makes orphans. AL_processes has `MaxLate = 0` to stay small; the late
  messages are in AL_liveness, and the proofs of the same safety properties have no bound at all.
  `Reported = {Standby, Terminated}` has the state that is active and the one the code treats
  apart; `Commands = {terminate}` the one that ends a process.
- In SL_policies 3 processes at a time let callbacks of two replaced processes arrive while a third
  runs; limit 2 and threshold 2 are the least at which "one before the limit" differs from zero.
- In TE_chains `Timeout = 0` and `MaxClock = 1` let a wait be polled before its deadline and after it,
  and start after it behind a slow leaf.
- In MB_stops the two requests fill both workers while the first waits for two messages in turn: the
  least in which a worker waits for a worker that waits for a lock. The event is there for `send`.
- In CR_sync 3 requests let a package be installed, removed and installed again while another thread's round is in
  progress; a second package adds no case, since packages meet only in the lists of a round (a copy
  with two packages and two requests was checked once, and the proofs have any number). `Start` by HTTP and by pool differ in
  the lock they hold, so there is one of each.
- In SP_starts a tick is the timer's period; `MaxRetry = 2` for the code's 3 makes the limit reachable soon; the records'
  ages saturate above 20 s. The proofs have any `MaxRetry`, ids and templates.
- In TD_team an expiry of 2 ticks stands for the default 30 s, the least at which a heartbeat per tick may be missed
  between two looks; ages saturate just above it. 3 events have the master come back twice, on its port, IP or team
  of before or on others, with a join, a leave or a stop of the member in between. `Configured` has the member in one team from the
  start and lets it join the other, which the master may lead later. Two masters of one team are not in the run: a token then
  has the address of whichever was heard last; the proofs of TokenIsEntry and LiveMemberListed have any number.
- Two requests suffice for a race, three occupiers for a conflict between two owners seen by a third.
- In BU_leaders `MaxWaiting = 2` has two rounds wait for each other, or a late request of a stopped framework beside a
  present one; a request beyond the bound does not reach its receiver, which any request may fail to do. How many rounds overlap
  is not bounded. The weights rise with the ids, as `Aligned` asks in the proofs; for others see section 6.

Each property of a passing run has a mutant in PROJECT.json, a plausible bug in one definition with which TLC
finds that property violated under the same configuration.

## 4. Fairness

- *AbilityLifecycle*. The loop thread runs every ready callback in turn, so a step that only has to
  wait for the loop is strongly fair: it may be disabled while another callback is inside. The bus
  handles each queued message; a `send_sync` that times out each time is excluded for heartbeats
  (SF on `ResourceHandle`), since the handler is one UPDATE and the limit is seconds. The SDK boots,
  posts its state periodically and ends when told. A minute without a heartbeat is only promised to pass
  for an id nobody reports for (`Silent`); it *may* pass for any. `OrphanSpec`, for the property
  that orphans end, has no fairness of the framework's loop at all.
- *ServiceLifecycle*. `CrashSpec`: each process ends sometime and libuv tells. It is the premise of
  the only liveness property, "not restarted for ever", and nothing else is assumed.
- *TaskEngine*. The 30 ms timer, the delivery of async events, workers that come to an end, time.
  Nobody has to add a task.
- *BullyElection*. The working thread runs: its sleeps end, its rounds go on, and a request ends by an answer or a
  timeout, which is all that weak fairness of `Begins` and `GoesOn` says. No request has to arrive or be handled, and nothing is
  ever announced.
- *MessageBus*. Workers run, some worker takes what is queued, a handler comes to an end, and ten seconds
  pass (WF on `TimeOut`). `StopBegins` is weakly fair: glibc's `shared_mutex` prefers readers, so an
  endless stream of calls could keep it waiting; `http_server.stop()` comes first, and the calls of the
  instance are finite in number.
- *CRSync*. The timer fires, a thread that is in a method goes on, and a round's next step comes. Requests and
  crashes end, as they are bounded; nothing is assumed of when.
- *SpawnPolicy*. Rounds end, task queues are worked off, and a started process sends a heartbeat or ends. `Tick` is
  strongly fair, since a round by an upload may begin again and again and disable it, while each of them ends. An
  instance of a round has sent its first heartbeat within `BootMax` ticks or is over (`Late`): the code's own `wait-heartbeat` gives it
  15 s, and this is a premise, named in BootAssumption, of TemplateSingleton.
- *TeamDirectory*. Timers fire, handlers of packets end, connection attempts end, a framework that has stopped is started again (stops are
  bounded), and a broadcast that is repeated for ever arrives some time (SF), which is all UDP gives. Nothing is assumed of
  HTTP threads: a join may stay between its look and its push.
- *Occupation* states safety only.

## 5. The proofs

Every theorem holds for all values of the constants that satisfy the named assumptions of the
component's module: any number of ids, processes, tasks, occupiers, frameworks, and any bounds. Each
proof module has the same layout: an inductive invariant `IInv` as a conjunction of named parts, one
lemma per part and action, then the theorems by PTL.

- **AbilityLifecycle_proofs** (IdsAssumption, BoundsAssumption): TypeCorrect, ReapedRowIsGone,
  ActiveRowsHaveProcesses, TerminatedEntriesHaveNoRow, OrphansAreNeverActive, NoGhostRows and LivesAsPromised. The
  properties are not inductive: that an accepted heartbeat is inserted only for a known id depends on
  what is known of it while it is between bus and map (`PostInv`), of the process behind it
  (`ProcInv`), of tasks about to spawn (`StartInv`), of rows against the ids that were drawn (`RowInv`)
  and of entries (`EntryInv`). NoGhostRows follows from the guard on fresh ids and from the UPDATE
  without INSERT. LivesAsPromised is the refinement of InstanceLife, one lemma per action: that a late or accepted
  heartbeat comes from a process whose end is not known yet is `PostInv` and `ProcInv` again, and an exit whose notice
  timed out stays in `with` until the notice is handled (`ExitPending`).
- **ServiceLifecycle_proofs** (ServiceAssumption): TypeCorrect, RestartsAreBounded,
  RunningHasItsProcess, StoppedIsFinal. `CountInv` ties `spawns` to `restartCount` and that to its
  limit; RunningHasProcess needs that a callback of an earlier process either restarts the service or
  ends it.
- **Occupation_proofs** (OccupationAssumption). With or without `Serial`: TypeCorrect, and DevicesHaveNoOwner, which is
  finding *Occupation* of section 6 for every instance. Under `Serial`: AbilitiesAreExclusive,
  GrantsAreInTheTable (an occupier that was answered OK is in the table), RefusalsHaveAConflict, RequestsAreAtomic. `ReadsHold`
  says that what a request has read still
  holds when it writes, which is exactly what overlapping requests break; `Apart` that requests in
  progress are for different children; `AnswerInv` and `KindInv` what answers and rows look like. RequestsAreAtomic says that
  Occupation implements Ownership: the moment of a request is the statement that settles it, the first or second SELECT
  for a refusal or for what is held already, the INSERT for a grant, and `ReadsHold` carries what was read before to that moment.
- **TaskEngine_proofs** (TaskAssumption): Invariant, TypeCorrect, LeavesKeepOrder, ClosedTasksAreOver, EndsAreFinal. `TaskInv` says
  for each task which leaves are over, that those after the current one are untouched, where the pool's worker may be,
  and that a task with an end has no work in the queue; the three properties follow from it, for any scripts.
- **MessageBus_proofs** (BusAssumption, DepthAssumption, CallersAssumption): Invariant, TypeCorrect, StandsStillInOneModule, and
  Implements, which says that the bus implements BusCalls under the mapping `Known`, `Handled`. The mapping needs that a message is handled
  once: `QueueInv` (the queue holds each queued message once), `JobInv` (a taken message has one worker)
  and `FreshInv` (a handler's next call has not been made yet, since its messages begin after it
  has been taken); `OutInv` says what a caller may know at each stage. StandsStillInOneModule strengthens this by `StuckInv`: a
  taken message is at a worker (`TakenInv`), a guarded module has one holder (`MutexInv`), and a worker that waits has made a
  call (`WaitInv`). Then a standstill has exactly one waiting worker, since two would hold the same module, and its message is not
  at another worker, which would be waiting for a lock that nobody but this one could hold, in a module that is not its.
- **CRSync_proofs** (CRSyncAssumption): Invariant, TypeCorrect, TableFollowsFiles, DeletedGone, DropsHaveCause. RowsFollowFiles
  speaks of the end of a round, so the invariant says what a round in progress has done: which packages of `todo` it has
  visited and what it knows of them, that the keys it has seen have rows, and, while nobody has touched the disk since it began, that what
  it has read is what is there. DeletedStaysGone needs the round that the answer itself waits for: it began after the
  removal, since `m` was taken after `unmirror`.
- **SpawnPolicy_proofs** (SpawnAssumption, BootAssumption): Invariant, TypeCorrect, OneInstanceOfATemplate, StartedOnce. The
  invariant ties the instance that a round has started last to its template's record: while it is invisible its age is at most
  `BootMax`, which is below the gap, and when it is visible the singleton check sees it. StartedOnce follows from the mark,
  which is set before the start and is on while the count is positive.
- **Discovery_proofs**, TeamDirectory (TeamAssumption; `ExpiryAssumption`: an expiry of two periods or more): Invariant, TypeCorrect,
  LiveMembersAreListed. The invariant bounds the age of a member's row by the ticks for which its way has been good
  (`since`) and by whether its heartbeat of this tick is due, in progress or sent. TypeCorrect and TokensAreEntries
  need TeamAssumption only: HTTP threads run beside the loop thread, and masters come back on any port and with any team. What the code
  does not keep is in the property itself: `spoilt` is exactly the teams left behind by a port-only or team change, by an
  entry that changes under a join, or by a change of the vector in the middle of the walk. `PendingInv` adds that a join in
  progress holds an address that is the entry's still, or that its team is spoilt, or about to be by the packet in progress.
- **Discovery_proofs**, BullyElection (BullyAssumption, LargestIdAssumption and `Aligned`: weights do not
  contradict the ids): BullyTypeCorrect, NobodyFollowsASmaller. `OthersOnly` says that nobody is its own peer
  or its own correspondent. Without `Aligned` the property is violated (section 6).
  LargestIdAssumption says that sets of ids have a largest element, as finite sets do; TLC evaluates it.

The theorems ReapedRowIsGone, TerminatedEntriesHaveNoRow, NoGhostRows, StoppedIsFinal, GrantsAreInTheTable,
RefusalsHaveAConflict and DevicesHaveNoOwner state properties that no run repeats; NoGhostRows and
RefusalsHaveAConflict are weaker than the refinements that the runs check in their place.

Only model-checked: all liveness (`GhostCleared`, `LiveAbilityListed`, `OrphanDies`, `RestartsEnd`,
`EveryTaskEnds`, `StopIsOver`, `KeptAlive`, `LostMemberGoes`, `TokenFollows`, `LeadersLive` and `Converges` of
CRSync), which is out of the prover's reach with fairness and ENABLED. Every safety property that a passing run checks
has a theorem.

## 6. Findings

Two have a run that TLC ends with a counterexample; PROJECT.json quotes the lines.

1. **OC_race**. `occupy_ability` is three statements without a transaction (`resource_mgr.cpp:2073-2094`)
   and HTTP requests run in parallel: two requests for unique ownership both find no owner, both write their row, and both
   become unique owners (OneOwner). A request to share that overlaps one for unique ownership leaves a sharer beside an owner in
   the same way.
2. **SP_singleton**. Both singleton checks look for active rows (`resource_mgr_http_apis.cpp:964`,
   `resource_mgr.cpp:2387`), and a row is Inactive until its first heartbeat: a POST that follows a round's start, or
   another POST, within the time of a boot gets a second live instance of a singleton ability.

Noticed while modelling, without a run of their own. Each that is marked with a module was seen as a TLC counterexample of that
module under other constants or with the property named:

- *Occupation*: `occupy_device` writes rows of kind "ability" (`resource_mgr.cpp:2153`), which
  `get_device_owner` never finds (DevicesHaveNoOwner): a device is owned uniquely by everybody who asks, one after the other.
- *BullyElection*: the election does not converge. No code starts `th_broadcast` (`discovery_mgr.cpp:78`), so no framework
  hears of another, and each leads alone; `json payload{msg}` (`election_mgr.cpp:105`) is list initialisation, an array of one element
  that `from_json` rejects, so that a message would be answered by 500 and taken for a timeout. Even with messages that arrive,
  leaders do not stay (`<>[]` in place of `[]<>` is violated): a stopped peer stays in `peers`, and each ping of the living
  leader that times out turns its follower to the stopped one again. `max_id_in_peers` ignores the weight (`bully.cpp:257`) while
  all else compares it (four frameworks, of which two have weights
  against their ids, violate FollowsBigger).
- *AbilityLifecycle*: a Terminated heartbeat of an unregistered id is accepted (`resource_mgr.cpp:2254`)
  although a comment promises that orphans are not listed (`lifecycle_mgr.hpp:58-61`).
- *CRSync*: "让 packages 目录是 source of truth" (`resource_mgr.cpp:1786`) does not hold for what is gone: a CR file that a new
  version of the same package no longer has, or the files of a package that `task_remove_package` removed, stay in
  `crs/_packages` and are read in each round; while the package is there they keep their rows.
- *SpawnPolicy*: "持续保活" (kept alive for good, `resource_mgr.cpp:2349`) ends after three starts in the life of the framework, as
  `retry_count` is never reset (`:2399`); "仅一次" (once only, `:2447`) is per row id, so a reinstalled CR is started again; the
  row of a start that failed stays Inactive for good, as no exit reports it.
- *TeamDirectory*: a master that comes back with the same IPs on another port, or as the master of another team, leaves the tokens
  as they were, since `update_master_info` copies an address into them only for a new list of IPs (`discovery_mgr.cpp:1013-1024`); a
  join that has looked before a broadcast changed the entry pushes the old address after it (`:1049-1056`). Either stays until
  the master comes with another list of IPs or the member is restarted. Two joins of one team at once may both push a
  token (`:1041-1056`). TokenIsEntry and TokenFollows name these causes in `spoilt`; without it they are violated.
- *Services*: `on_service_exit` marks a service that is not to be restarted Failed (`service_lifecycle.cpp:83`)
  where `docs/crd-architecture-evolution.md:532` says Stopped; `1 << (restartCount - 1)` (`:105`) is undefined from the 32nd
  restart on, and only logged.
- *Bus*: two lifecycle requests at once occupy both workers until a nested call times out, and a request whose `add_task`
  timed out is answered as failed although its task is added later; a comment says that `send_sync` uses libuv's
  pool (`messagebus.hpp:229`), and it uses two threads of its own.
- A `start_process` that is handled after `SubprocessManager::on_exit` sent its SIGTERMs (`subprocessmgr.cpp:224`) makes a
  child that nobody ends; the factory "package.install_package" is registered and then overwritten by the one for
  uninstalling (`resource_mgr.cpp:2558`); the key "/ligecy_mgr/..." (`main.cpp:356`) is a typo; a comment at
  `resource_mgr.cpp:2560` says old rows are marked Terminated where the table is dropped (`:325`); POST `/api/crs/autostart`
  writes through one `.tmp` name, so two requests for a file may interleave in it (`resource_mgr_http_apis.cpp:241`);
  `start_sending` iterates `team_tokens` with sleeps of 2 s while HTTP threads push and erase (`discovery_mgr.cpp:646-660`);
  ParallelTask and tasks in state pending have loops that do not end (`common_tasks.cpp:395`,
  `task_entry.cpp:60`), and nothing in the program makes either.

## 7. Not modelled

- *Message bus*: `add_module` and `remove_module` (called before the threads start, and never) and the
  destructor of the pool, which drains the queue after `main`.
- *ControllerManager* (a map of heartbeats and a thread that starts controllers silent for 30 s) and *TaskStatusManager* (one
  REPLACE per event): nothing modelled depends on either, and neither has several steps of its own to interleave.
- *DiscoveryManager*: the table of peers, which is kept and printed and read by nothing, and mDNS texts.
- *Packages*: the FTP transfer, ZIP files and temporary directories before the rename; mirrored skills, which have the same code as
  mirrored CRs and no table; device CRs, whose reconcile is that of abilities again; CRDs, which are only inserted. An answer to the
  remote check of a CR that is no JSON (`resource_mgr.cpp:1702`) throws out of `update`; only refusals and silence are modelled.
- *Ownership left behind*: rows of CROwnership whose instance is gone need Occupation and SpawnPolicy in one module.
- *ParallelTask, DelayTask*, the table of task factories: no user in the program, or no state.
- *AbilityAlertManager*: an append-only table with a handler each way. *ModelManager*: a client of a
  remote repository with one INSERT. *mDNS, JWT*: packet and token formats. *JSON schema, URL, version,
  YAML and argument parsing*: pure conversions, mostly of vendored code. *Database connection*: SQLite's; that
  a statement is atomic and durable is assumed. *Web pages, configuration and log requests*: no state.
- In AbilityLifecycle: the HTTP proxy to an ability and the notice to a parent ability change no
  state. A null client of an unknown protocol, which a task dereferences (`lifecycle_mgr.cpp:95`), ends
  the process: it is a crash, which `FrameworkRestart` has.

Of the repository's 46,000 lines of C++ about 25,000 are vendored or generated (`ada_url`, `mdns.h`, `semver.hpp`,
`webui_embedded.cpp`); most of the rest parses, prints and converts. The share of lines the map covers is small for that reason: it
covers the methods that change shared state, and a table of conversions would add lines and no behaviour.

## 8. Plan

Written so far, in this order: AbilityLifecycle (the most important behaviour), ServiceLifecycle,
TaskEngine, Occupation, BullyElection, MessageBus with BusCalls, CRSync, SpawnPolicy and TeamDirectory, each with its runs, and
the proofs of all of them; then the abstract specifications InstanceLife and Ownership with their refinements.

What a next step would take, in order:

1. **Composition** of Occupation with SpawnPolicy: no owner without an instance, which the code does not keep.
2. **ControllerWatch**: controllers started twice between two looks at their heartbeats.
