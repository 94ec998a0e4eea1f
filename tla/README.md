# Q-VAULT OS: TLA+ models, checks and proofs

This directory holds a verification project for Q-VAULT OS, a desktop shell
written in Python (PyQt5) with a simulated kernel and a security engine in
Rust. The models cover the parts that keep state: tables and queues that several
threads share, files that must survive a crash, and user interfaces whose
handlers meet each other in orders nobody tried. Each definition is translated
from the source it is mapped to in `PROJECT.json`; the source is the reference
where this text is shorter.

Paths below are relative to the Python sources unless they begin with
`engine_rust`; "kernel" stands for `system/kernel`.

Contents: 1 inventory, 2 modules, 3 runs and bounds, 4 fairness, 5 refinement,
6 theorems, 7 differences between the code and what it says, 8 what else the
models show, 9 plan, 10 not modelled.

## 1. Inventory

### Simulated kernel

| Part | State | Operations |
|---|---|---|
| Resource table (`kernel/deadlock_manager.py`) | resources with free count, holders and FIFO queue; per process its units, priority and base priority | `add_resource`, `remove_resource`, `request`, `release`, `release_all`, death handler |
| Detection and recovery (`_deadlock_detector.py`, `_deadlock_resolver.py`) | the cycles found | every tenth tick: detect, then resolve cycle by cycle |
| Core pool (`kernel/multicore_engine.py`) | process on each core, index from process to core | `assign`, `release`, `rebalance`, `set_core_count` |
| Scheduler, process table, dispatcher (`scheduler.py`, `process_manager.py`, `dispatcher.py`) | ready queue, current process, quantum; status and timers | ticks, births, deaths, kills, completion timers |
| Memory (`memory_manager.py`, `_memory_*.py`) | list of blocks, policy, lock of secure regions | `allocate`, `deallocate`, `compact`, vault events |
| Event bus (`core/event_bus.py`) | subscriptions, history with its index of drag events, queue of a worker thread | `subscribe`, `emit`, dispatch, sweep |
| Threads, locks, message objects (`thread_manager.py`, `ipc_manager.py`) | mutex, semaphore, queues, pipes, shared memory by name | every method, and the death handler |
| Dashboard (`ui/shell/kernel_monitor_app.py`, `ui/widgets/task_manager_ui.py`) | what each panel shows, the timeline, marks, log, labels | events on three threads, timers, the stress button |
| Clock and interrupts (`simulation_clock.py`, `interrupt_manager.py`) | loop thread, tick count, heap of interrupts | start, stop, pause, reset, tick, raise, handle |

Hard: the process table acts at once and announces it later, through a queue and
another thread; the deadlock handler gives up its lock between detection and
recovery; callbacks run between the locked parts of a dispatch; a stop that gives
up waiting leaves a second loop. Correct: units are neither lost nor invented and
go round in order; a deadlock ends; the dead stay out; a ready process runs; memory
tiles; every living subscriber hears every event, in order.

### Security engine (`engine_rust/src`)

| Part | State | Operations |
|---|---|---|
| Sessions and keys (`session.rs`, `lib.rs`, `vault.rs`) | session map, active keys, sweeper thread | login, logout, lookups, drop, sweep |
| Vault files (`vault.rs`) | an envelope per user; versions and salts with their MACs | store, load, save, key rotation, migration |
| Users and master key (`auth.rs`, `master_key.rs`, `rbac.rs`) | records in memory and on disk | seeding, `create_user`, `authenticate` |
| Audit log (`audit.rs`) | counter, its file, the log and its backup | append, from two threads |

Hard: two locks no operation holds together; files renamed one by one with a
crash possible between any two. Correct: a session that is over leaves no key;
logout is final; what was acknowledged stays; an old vault does not pass for a new
one.

### Programs of the desktop

| Part | State | Operations |
|---|---|---|
| Isolated applications (`system/runtime`) | controller, engine process, drain threads, timers | start, stop, restart, crash |
| Message bridge (`ipc.py`, `app_runner.py`) | bounded queues, packet numbers, calls in flight | call, answer, drain, time-outs |
| Launch and guards (`app_factory.py`, `system/sandbox`) | status of an application, manifest cache, permissions, rate windows | launch, guarded call, consent |
| Front end (`auth_manager.py`, `security_*.py`, screens) | who is logged in, what is locked, the login thread, changed passwords | login, lock, unlock, password change, restart |
| Mediator (`kernel/security/`) | program handle, token, vault lock | launch, poll, stop, hardware events |
| Terminal (`ui/apps/terminal`) | engine state, elevation; the line being typed; history, variables, aliases | commands, sudo, lock; every key |
| Files (`_commands.py`, `trash_manager.py`, `file_manager_app.py`) | the tree under the home; clipboard, listings, trash metadata | shell commands, pipes, trash, file manager |
| Virtual file system (`core/filesystem.py`, `system/vfs.py`, explorer) | tree, current directory, stored copy | all operations, save, load, lockdown |
| Windows (`window_manager.py`, `ui/widgets`) | order, focus, minimized, animations; geometry, slots | open, focus, minimize, close, drag, resize, snap |
| Icons and wallpaper (`ui/widgets/desktop.py`) | icons, layout file, watcher, picture cache | drag, rename, trash, sort, reload, resize |
| Notepad (`notepad_app.py`) | text, name, mark of unsaved text | open, save, save as, new, close |
| Plans and undo (`orchestration_engine.py`, `automation_engine.py`) | active plan, its thread, list of finished steps, undo stack | execute, abort, roll back, undo |

Hard: timers, queued signals and worker threads that act on what an operation of a
moment ago left; files rewritten in place; calls that time out while they are carried
out. Section 10 lists what is left.

## 2. Modules

| Module | Models | One action is |
|---|---|---|
| `DeadlockManager` | the resource table and asynchronous deaths | one public method (re-entrant lock throughout) |
| `FifoResources` | abstract: what the table promises | one change of a resource |
| `DeadlockDetector` | the depth first search, as a recursive operator | a pure function |
| `DeadlockRecovery` | composes both: `auto_resolve` against all operations | detection, each resolution |
| `Multicore` | the core pool | one method under its lock |
| `Scheduler` | extends `Multicore` with scheduler, process table, dispatcher and bus queue | a tick with its synchronous calls; a delivery |
| `MemoryManager`, `MemoryLedger` | the block list; abstract: what each process has | one method |
| `EventBus` | dispatches of two threads, weak references, the worker | one locked part, or one callback |
| `KernelObjects` | threads, mutex, semaphore, message objects | one call |
| `KernelClock` | the clock's loops and the interrupts | one access to shared fields |
| `KernelMonitor` | the dashboard's widgets | one event, posted signal, timer or read of a panel |
| `VaultSessions` | sessions, keys, sweeper, expiry | one critical section |
| `VaultStore` | envelopes and versions with crashes and errors | one rename |
| `EngineFiles` | users, salts, master key, migration, rotation; audit log | one file operation |
| `EngineConstants` | names shared by the engine's modules | |
| `IsolatedApp` | controller, drain threads, timers, engines | one access outside the lifecycle lock |
| `AppBridge` | both ends of the message bridge | one packet, call or time-out |
| `AppSandbox` | launch, guarded calls, permissions and consent | one check or answer; in the limiters one read or write |
| `AuthFrontEnd`, `Terminal` | logins, locks, the login thread; a terminal tab on top | one handler, or one read of the login thread |
| `Mediator` | adapter, bridge and dashboard on three threads | one step between two locks or signals |
| `TerminalLine` | the text of a tab, cursor, prompt position | one key or posted output |
| `ShellSession` | history, variables and aliases of all tabs | one command |
| `HostTree`, `HostFiles` | a directory tree; what changes it and what looks at it | one command or one button |
| `VirtualFS` | the virtual file system, its shim and explorer | one call |
| `Windows` | the manager's order and the animations | one handler with everything it calls |
| `WindowGeometry` | one window's place, slot and state, on two threads | one access to the shared fields |
| `DesktopIcons` | icons, layout, watcher, wallpaper | one gesture, timer or change of the directory |
| `Editors` | notepads over shared files | one button |
| `Automation` | plans with a thread each, aborts, the undo stack | one step between two waits |

`MC*` modules compose modules and give constants their values; `*_proofs` modules
and `FiniteNumbers` (least and greatest of a finite set of numbers) hold theorems. Definitions keep the code's names where TLA+ allows it. Operators
marked "Mutant" are faulty variants of the definition that follows; no specification
uses them. They show that each property fails when the code is changed.

### Several parts in one run

Modules that share no state are checked in one run: the initial state picks one
`part`, and only that part moves. The check is the same as in a run of its own, since
the states of the others stay fixed; properties name the part they speak of.
Composition with shared state is real where the code has it: `DeadlockRecovery`
over `DeadlockManager`, `Scheduler` over `Multicore`, `Terminal` over `AuthFrontEnd`,
`HostFiles` with the trash and the file manager over one tree, the shell's queries on
that tree, and the explorer over `VirtualFS`.

### How state and actions correspond to the code

**DeadlockManager.** `resources`, `available`, `held_by`, `waited_by`, `held`,
`priority`, `base_priority` are the fields of these names; the order of the list
`held_by` is never read. `proc` is what the table cannot see: whether a process lives,
has been stopped while its event waits in the bus (`Kill`), or the event has been
handled (`OnProcDeath`). `Reentrant` says whether processes may ask for what they hold
or await: `GoneHoldNothing` and `ImplementsFifo` hold only if they do not, since a process
that is first in the queue for what it holds is handed the unit its own clean-up releases.
`UnitsAccountedFor` says what holds in general: `release_all` gives back one unit per
resource and forgets the others. That callers of `request` and `release` are alive is an
assumption about them: the code does not ask, and nothing in the repository calls either.

**DeadlockRecovery.** `todo` is the local list of cycles of `auto_resolve`;
`ResolveCycle` kills the victim of its head in whatever state the table is by then.

**Multicore, Scheduler.** Utilization only decides which of several cores is taken,
so that choice is free. `events` is the queue of the bus and `Deliver` its worker;
`Tick` is `_on_tick` with all its synchronous calls. `panicked` remembers ticks that
ended in an exception, which leave a preemption half done. `TickSubscribed` is a
parameter because `start()` does not subscribe `_on_tick`: `sched_live` has the scheduler
as shipped, which never ticks; `kernel` and the proofs have also the scheduler its comments
describe, which does, so that what a subscription would start is known to be sound.

**MemoryManager.** The list of blocks as in the code. Refused calls change nothing
and are no actions.

**EventBus.** `stack[t]` holds the dispatches a thread is in; each has the
subscribers it copied and the dead ones it has met. Between two callbacks anything
may be called, by the callback or by the other thread. The list of subscribers only grows
at its end, so it is a set of numbered subscriptions, called by number.

**KernelClock.** `thread` is the loop the field holds; a loop that a join gave up
on goes on. **KernelObjects** takes every order of calls, since no other part calls
these objects yet.

**KernelMonitor.** What a panel shows is the number of changes (`now`) it had seen when it
was read (`shown`). An event of high priority is handled in the action that emits it, any
other waits in `bus` for the worker, and what touches labels waits in `signals` for the
interface's thread; `reading` is what a thread has read and not yet stored.

**VaultSessions.** Tokens are numbered by creation, which is the order in which they
expire. An engine call keeps Python's interpreter lock, so calls do not interleave
with calls; the sweeper and time do, between any two steps of a login or logout. **VaultStore.** A secret is the number of the
call that stored it; a MAC is modelled by the content it was computed over;
`Interrupt` ends a store by a crash or an error, which leave the same files.
**EngineFiles** has every other file of the engine: a call is a list of writes still
to do (`todo`), each of which may fail or be the last. The audit log's number is taken
under its lock; the size check, the renaming and the line are three steps without it.

**IsolatedApp.** Engines, threads and timers carry the number of the start that made
them; `current` is the start whose process and bridge the fields hold. **AppBridge.**
Packets are named by who sent them and in which order; `seen` is the table of numbers,
which forgets by age and by size. **AppSandbox.** What a list of programs, addresses or
paths answers is a free outcome of a check. The limiters have no lock: `limiter[t]` is where
a thread is in one, with the time and the count it has read; each look at the window, each
`popleft` and the `append` is a step. `crossed` has the guards two threads were in at a
time, `robbed` those whose window lost a recent call that way.

**AuthFrontEnd.** `worker` is what the login thread has read; `saving` stands for the
file of changed passwords while it is rewritten. **Terminal.** One tab, for tabs share
nothing but the user. **Mediator.** `place[t]` says where each of three threads is.

**TerminalLine.** The text is a sequence of marks (output, prompt, typed, new line);
Qt's cursors move with insertions as Qt moves them. **ShellSession.** A history line is
a list of the lines the file would have of it.

**HostTree.** A tree is a function from its paths to `DirMark` or a file's
content, which is the set of texts written to it. **HostFiles.** Each desk acts on what
it last saw: the clipboard, the listing and the trash's window are state. **VirtualFS.**
`stored` is the file of the last save, `sealed` and `key` whether a start can read it.

**Windows.** `wm` is the manager's table with the widgets' state; events of windows
are delivered inside the call that emits them, so a handler is one step with all it
nests. **WindowGeometry.** `snapped` is the queue of slot events on the bus's worker, which
calls `on_physics_snap` without a lock. `doing[t]` is the next step of the handler that the
interface's thread or the worker is in, with the slot it is to write and the rectangle it is
to set: the test of a state, each write of `state`, `slot`, the remembered geometry and the
flag `_is_applying_geometry` are steps of their own, between which the other thread goes on.
`crossed` says that two changes of slot and state overlapped since the last whole one,
`strayed` that the geometry was last restored past the gatekeeper.
**DesktopIcons.** `disk` changes at once, the icons at the reload that is `due`.

**Automation.** `runner[p]` is where the thread of plan p is, between two sleeps or
locks; `main` what the interface's thread does. Both read and write `completed`,
`active` and `stop` as the code does, without a lock except where it takes one.

## 3. Runs

| Run | Parts | Properties |
|---|---|---|
| `tables` | resource table; cycle search; memory; dashboard | `TableSound` `NoIdleUnit` `NoOvertaking` `ViewsAgree` `UnitsAccountedFor`; `PartsSound` `ImplementsLedger` |
| `dlr_recovery` | table with recovery | `GoneHoldNothing` `ImplementsFifo` `DeadlocksEnd` |
| `kernel` | scheduler; bus; objects; clock | `SchedulerSound` `CoresIndexed`; `BusSound`; `ObjectsSound`; `ClockSound` |
| `vault` | sessions; vault files; other files; audit log | `LogoutIsFinal` `KeysAccountedFor` `ExpiredKeysDie`; `AckedStoresSurvive` `NeverOwnRollback`; `EngineSound` |
| `desktop` | isolated application; front end with a tab; plans | `RunningIsWatched` `StoppedHasNoEngine` `CrashNoticed` `FirstBootGuarded` `NeverStranded`; `FrontSound` `LockHolds` `AnswerComes`; `PlansSound` |
| `files` | tree; texts; virtual file system; windows; geometry | `FilesSound` `StepsKeep`; `WindowsSound`; `GeometrySound` |
| `apps` | bridge; gateway; icons and picture; mediator; line; history and variables; notepads | `BridgeSound`; `SandboxSound` `OneEachAtMost`; `MediatorSound`; `EditorsSound`; `AppsSound` |
| `sched_live`, `vault_rollback`, `vault_keys`, `mediator_hang`, `geometry_gate` | one module each | expected violations, section 7 |

What the composite properties contain:

- `TableSound`: no resource is handed out beyond its units, no priority falls below
  its base. `UnitsAccountedFor`: free and counted units change together, in every step but
  the clean-up of a process that held several, which loses all but one.
- `PartsSound`: the cycle search reports cycles only, and one of every knot
  (`FindsEveryKnot`); the blocks tile memory, free neighbours are merged, quotas hold, a lock
  leaves no secure block (`BlocksSound`); once the announced switches have arrived the
  timeline has who runs, an announced change is shown unless its announcement or an older
  reading is on its way, the log keeps each thread's order, the deadlock label goes back to
  OK, and no victim stays marked (`MonitorSound`).
- `SchedulerSound`: until a tick panics, a process is the current one or in the ready
  queue once, and the dead whose event was handled are neither. `CoresIndexed` adds that
  whoever is on a core is indexed there, hence on one core only.
- `BusSound`: who lives and subscribed hears every event that is not under way, and queued
  ones in the order of their emission, whatever callbacks do; the history stays bounded.
- `ObjectsSound`: nobody waits for a free mutex or semaphore; messages arrive once and
  in order; a death takes exactly what its process owned.
- `ClockSound`: one loop ticks unless a join gave up; a pause holds; ticks are announced in
  order; each interrupt is handled once, and they do not pile up.
- `EngineSound`: sessions stay bounded; accounts and secrets survive failed writes
  and restarts; audit numbers are not used twice in a run; few repeat after a restart;
  the log and its backup are the end of what was written, unless `overtaken` (section 8).
- `FrontSound`: the parts agree on who is logged in and what is locked; the tab's
  state, role and echo agree; a locked tab shows no prompt without a credential.
- `PlansSound`: an abort leaves at most the one step its thread was in; every plan
  is counted; no plan runs out of reach; an undo takes back its own plan; a lock
  empties the stack, but for one plan that was ending.
- `FilesSound`: the trash knows where its entries came from (`MetaTellsOrigin`); `ls`,
  `find`, `du`, `tree`, `stat` and `grep -r` agree on every tree reached, and the text
  commands keep their promises on every text (`CommandsAnswer`); of the virtual file system,
  the tree hangs together, a restart keeps what was saved, a lockdown lasts, and the ways of
  looking at a directory agree (`VfsSound`).
- `StepsKeep`: a file leaves the disk only by a deletion or under a file that gets its name
  (`NothingLost`); the explorer puts the directory of the virtual file system back, also when
  it fails (`CwdRestored`).
- `WindowsSound`: the manager, the widgets and the taskbar agree (`WindowsAgree`); no
  application runs on behind a closed window (`ClosedAppsStop`).
- `GeometrySound`: between two events of the interface the window is within reach of the
  mouse, unless its geometry was restored past the gatekeeper (`StaysReachable`); when no
  thread is writing them its slot and its state agree, and if two changes overlapped, from
  the next undisturbed one on (`SlotTellsState`).
- `BridgeSound`: a call is carried out once at most, and its callback runs once at most
  (`AtMostOnce`); answers come from calls that were carried out (`AnswersAreReal`), never
  to a method of the engine (`MethodsAskInVain`); no response waits unowned
  (`WaitsAreOwned`); the engine blocks in its own queue only when flooded
  (`BlocksOnlyWhenFlooded`).
- `SandboxSound`: no second, wherever it begins, sees more guarded calls than the limit and
  its grace, for a guard in which two threads never were at a time (`RateHolds`); a temporary
  permission was granted by the user to a request for just that one (`ConsentIsUsers`), never to one that the interface thread waits for
  (`InterfaceAsksInVain`); files need a grant, and calls that begin under a lock touch none
  (`FilesNeedGrants`, `LockedStopsNew`); what could not be launched is not listed
  (`StatusTellsLaunches`). `OneEachAtMost`: threads that are in the limiter at a time get one
  call each past it at most, unless a window was `robbed`.
- `MediatorSound`: there is one mediator at most (`OneMediator`); no token and no open vault
  without one, but by a change that was checked before (`ClosedWithout`); what runs is polled,
  and only a thread that hangs on an exit leaves it unnoticed (`ExitsAreSeen`).
- `EditorsSound`: a notepad without a mark shows what its file holds (`CleanIsSaved`), and
  its title tells the name and the mark (`TitleTells`).
- `AppsSound`: icons are the directory's, one to a cell, and stay where they were put; a
  command begins where its prompt ended and is what was typed; `history` shows what was
  typed; a variable means the same to a file name and to `echo`.

### Bounds, and why they are enough

- `tables`: a hand-off needs a releaser, an heir and someone overtaken, hence three
  processes; a holder of two needs the resource of two. With four nodes there are two
  cycles that share a node and a cycle behind a finished one; every graph and every
  order of the roots is an initial state. Eight units with blocks of one and two make
  holes between owned blocks, remainders of one unit and exact fits. The dashboard hears
  of three things of one kind (`topic`), with two cores, three processes and a log of two
  rows: a second event overtakes the first one's timer or reading, and a row is dropped.
- `dlr_recovery`: three processes make cycles of two and three, and a cycle that
  changed between detection and recovery.
- `kernel`: two processes are the least with a preemption; PRIO with aging and SJF, which
  do not read the quantum, so that one tick will do; budgets of none and one tick; registered processes have priority
  two and announced ones one, the least that differ.
  `MaxEvents` bounds the bus queue and blocks only kills; `MaxReady` the queue that
  panics fill. Three emissions, two subscriptions and two nested dispatches let a
  subscriber die or leave in the middle of a dispatch. Two threads and two processes
  compete for each object; two starts of the clock, two ticks, one foreign interrupt.
- `vault`: three logins of two users, with two sessions at most, evict, expire and log out
  together; a version used
  twice needs two stores of one user, one interrupted, and room for another's. Four
  calls of the engine's other files, starts included. Four audit lines with a counter
  saved every second one stand for ten and a hundred.
- `desktop`: the second start meets threads and timers of the first; two users and
  two passwords; two plans of two steps: the second meets the thread of the first.
- `files`: three places and two names, with three entries, give every relation of two
  paths; three shell commands or six window operations. Texts have at most four lines of
  two letters and capitals. Three windows of two applications: an order, a repetition
  and a gap; the applications are interchangeable (symmetry). One window of 3 by 3 in 7 by 5 cells can be pushed out on every side, with the pointer left
  of it, in it and right of it; seven handlers and one queued event let the worker's snap fall
  into any step of a press, drag, release, resize, toggle or shortcut, and an undisturbed one
  follow. The virtual file system is typed paths to `/home`, `/tmp` and `/proc`, not to the root.
- `apps`: queues of one, numbers kept for one unit of time, in a table of two, and a rate of one show full,
  forgotten and repeated packets; a limit of one without grace and five calls of two threads within two seconds show the windows'
  borders and both threads past the limit; one
  application icon and two entries, two sizes of the desktop, three gestures; two
  launches and two hardware events; four keys on a line; four commands in two tabs; two
  notepads over one file.

`CHECK_DEADLOCK FALSE` stands where the system may really stop: all processes gone,
all calls of the bound made, the window closed, or a thread that waits for itself.

## 4. Fairness

- `Scheduler`: weak fairness of `Deliver`, since the bus worker loops on its queue, and of
  `Tick`, which asks something only of a scheduler that is subscribed. As shipped it is not,
  and `ReadyRuns` fails for that reason alone: no passing property rests on `Tick`'s
  fairness. None on kills or callers; nobody changes the algorithm (`SettledSpec`).
- `DeadlockRecovery`: weak fairness of detection, of each resolution and of the
  delivery of each death. Processes may wait for ever.
- `VaultSessions`: the steps of a login that has begun, the two steps of the sweeper,
  the end of a session's hour.
- `IsolatedApp`: drain threads, boot timers, queued signals and single-shot timers.
  None on users or engines, which may hang anywhere.
- `AuthFrontEnd`: weak fairness of the login thread and of a save; strong fairness of
  the answer's arrival, since Qt serves the interface's queue in order and later clicks
  cannot overtake it for ever.
- `Mediator` (`mediator_hang`): weak fairness of every step of each thread; none on
  the program, the token or the user.
- All other modules have safety properties only.

## 5. Refinement

`ImplementsFifo`: the resource table, with `held_by` and `waited_by` as the abstract
holders and line, implements `FifoResources`; counters, priorities and the way the
code cleans up after a death are invisible to callers. A grant is a `Take`, a blocked
request a `Join`, `release` a `GiveUp`, `release_all` a `Leave`, a kill a stutter. TLC
checks it with recovery in `dlr_recovery`; TLAPS proves it for the table.

`ImplementsLedger`: the memory manager implements `MemoryLedger` under the mapping
that sums the blocks of each process, plain and secure apart; splits, merges,
compaction and policy changes are stutters. Checked by TLC only.

## 6. Theorems

All are proved for every value of the constants that satisfies the named assumptions;
none rests on the bounds of section 3.

| Module | Theorem | States |
|---|---|---|
| `DeadlockManager_proofs` | `Typing`, `WaitersMeanNothingFree` | `TypeOK`; `NoIdleUnit`, reentrant requests included |
| | `TableIsSound`, `QueueOrder` | `TableSound`, `NoOvertaking`, reentrant requests included |
| | `Conservation`, `ViewsAlwaysAgree` | `UnitsAccountedFor`, `ViewsAgree`, reentrant requests included |
| | `DeathIsClean`, `TableImplementsFifo` | `GoneHoldNothing`, `ImplementsFifo`, if not `Reentrant` |
| `Scheduler_proofs` | `MceTyping`, `OccupantsAreIndexed`, `NobodyOnTwoCores` | the core pool alone: types; `OccupantIndexed`; one core each |
| | `SchedulerIsSound`, `CoresStayIndexed` | `SchedulerSound`; `CoresIndexed` |
| `Services_proofs` | `BusAlwaysSound` | `BusSound` |
| | `ObjectsAlwaysSound`, `ClockAlwaysSound` | `ObjectsSound`; `ClockSound` |
| | `VfsTreeSound`, `DirectoryPutBack` | `VfsSound` but for `WaysAgree`; `CwdRestored` |
| `Vault_proofs` | `SessionTyping`, `SessionsStayBounded` | `TypeOK`; `SessionsSound`, the sessions' part of `EngineSound` |
| | `LogoutHolds`, `NoOtherKeyStays` | `LogoutIsFinal`; `KeysAccountedFor` |
| | `OwnCrashIsNoRollback`, `Durability` | `NeverOwnRollback`; `AckedStoresSurvive` |
| | `AuditAlwaysSound` | `AuditSound`, the audit log's part of `EngineSound` |
| `Desktop_proofs` | `FrontAlwaysSound`, `OnlyTheUserUnlocks` | `FrontSound`; `LockHolds` |
| | `PlansAlwaysSound` | `PlansSound` |
| | `IsolatedTyping`, `NoEngineWhenStopped`, `EngineIsWatched` | `TypeOK`; `StoppedHasNoEngine`; `RunningIsWatched` |
| `Apps_proofs` | `WindowsAlwaysSound`, `GeometryAlwaysSound` | `WindowsSound`; `GeometrySound` |
| | `BridgeAlwaysSound` | `BridgeSound` |
| `Programs_proofs` | `MediatorAlwaysSound`, `EditorsAlwaysSound` | `MediatorSound`; `EditorsSound` |
| | `SandboxAlwaysSound` | `SandboxSound` |

Arguments:

- **Resource table.** `TypeOK` is inductive; `NoIdleUnit` with it, because a hand-off
  raises the free count only when the queue is empty. `DeathIsClean` needs `Ledger`:
  queues have no repetitions, who waits does not hold, a counter is 1 or 0 as its
  process is a holder or not, a removed resource has neither holders nor waiters, the
  gone are nowhere. `ReleaseOne` and `CleanOne` say what a release does to one resource
  and are shared by `release` and `release_all`.
- **Refinement.** Under these invariants each action is one step of `FifoResources`:
  `Ledger` turns the free count into the number of holders, and `NoIdleUnit` shows that
  who is granted a unit passes nobody by.
- **Allotment.** With reentrant requests units may be lost, so `TableSound` needs another
  invariant: counters and holders agree but for the gone, who count nothing and await
  nothing; queues have no repetitions; the free units with those counted are never more
  than there are. `ViewsAlwaysAgree` is a part of it. `Conservation` follows each unit, a
  pair of its process and a number up to that process's count: a grant and a hand-off add
  one pair, a release takes the last one away, a clean-up all of its process
  (`ReleaseKeepsUnits`, `DeathForgets`).
- **Core pool.** `OccupantIndexed` is inductive with the types for a caller that assigns
  only processes that are on no core (`MceSpec`); the scheduler is shown to be one.
- **Scheduler.** `SchedInv` has three parts. `Births`: nobody is in the scheduler before
  its birth is announced, which happens once and before any other event about it; so a
  process taken out at its death is not put back by a late announcement. `Whole`, until a
  tick panics: one place for each process, the handled dead in none, the pool's agreement,
  and no core for those still to be scheduled, which is what the pool asks. After a panic
  the types and `Births` remain: the half-done preemption leaves a process current and
  queued, and it may then get a second core.
- **Bus.** That everybody hears is not inductive. `BusInv` follows an event on its way:
  in the queue in the order of the numbers, in a dispatch that has the subscriber still to
  call, or heard (`Hears`); and whoever has not unsubscribed keeps a place in the list,
  whatever the two clean-ups take out (`Wants`). The order holds because only the worker
  dispatches queued events, one at a time, and all it has dispatched is older than what
  waits (`FrameOK`, `HeardOK`). The three sizes of the history need only be ordered
  (`BusAssumption`).
- **Locks and messages.** The mutex and the semaphore are inductive with their types
  (`LocksInv`). That messages are read in order is not: messages are numbered as they are
  sent, and `Keeps` says that an object holds the last numbers without a gap and that its
  readers got older ones, rising. What a full queue loses is accounted for by `Lost`: as many
  newer messages as it holds were read or are still there. A death leaves the table after
  its event; until then its owner is in the queue of the bus (`DeadOwnNothing`).
- **Clock and interrupts.** `LoopInv` counts: besides the latest loop no more live than joins
  gave up, and of the ticks counted in a pause each loop has at most one. `IrqInv` has every
  number drawn in one of the heap, somebody's hands, or done, and compares the heap with the
  loops about to handle one.
- **Virtual file system.** Most of it is about paths: what is below a path is reached from
  it (`Below`), its front is the longest that leads there (`FrontOf`). `SetNodeHangs` is
  the heart: whatever stood in the way of a copy or move becomes a directory with nothing
  below it. `VfsInv` adds the file: `Sealed` that what a lock hid is unreadable there too,
  unless the last save failed, since a restart may bring it back; `Agrees` that the tree
  was saved to it or loaded from it. `VfsAssumption` says of the built-in tree that its
  entries are in directories of it. `WaysAgree` stays model-checked: `du` resolves its
  path with a fold.
- **Sessions.** `LogoutIsFinal` and `KeysAccountedFor` need `LoginInProgress`: the
  session for which a login derives a key is in the map, has not expired and was not
  logged out. That a user's sessions stay bounded is a matter of counting: those that an
  eviction leaves are not older than the oldest of them, and it stayed because fewer than
  the maximum were at least as new.
- **Vault files.** `StoreInv` says how far each file is at each step (`Underway`), that
  a vault nobody restored is never behind its version (`Rising`), and that for a user
  none of whose stores was interrupted an envelope with the known version is complete
  (`Numbered`). Without `Numbered` the return of a backup could not be told from the file
  it replaces.
- **Audit log.** A line is appended without the lock under which its number was taken.
  `Held` says of a number in a thread's hands that it is unlike every other and above the
  thread's own lines of this run; `Counts` that the file is at a multiple of
  `PersistEvery` and less than one save behind, unless a save failed; `Aside` that a log about
  to be renamed by a thread that is not late is too big; `Ends`, unless `overtaken`, that the
  backup followed by the log is the end of the lines, and shorter than `Big` only when
  nothing was lost.
- **Isolated applications.** Every stop ends the engine of the latest start and only a
  start replaces it; each start adds a thread, which leaves the watching places only
  after a stop, its own or one it has seen.
- **Front end and terminal.** The agreement of the parts is not inductive: whether a
  failed attempt returns to the lock is read off the session. `AttemptOK` says what an
  attempt under way has to do with the user, the token and the lock. The tab adds `TabOK`
  and that it is only open on the desktop (`OnDesktop`).
- **Plans.** `PlansSound` is far from inductive. `PlanInv` says of each plan how far its
  thread is and what that has left in the history and the counts (`ProgressOK`, `CountsOK`),
  that plans start in order and the active one is the latest (`InOrder`), what the shared
  list holds for the latest (`ListedOK`), and what the interface's thread owes (`MainOK`).
  `Almost` is the heart: once the steps are read for an abort, all that the plan launched
  is taken back or about to be, but for one step, and its thread does not pass the next
  look at the event. It survives because a start, which clears the event, makes another
  plan the latest. Without an overlap at most one thread lives (`AloneOK`), whence at most
  one entry of an earlier session (`StackOK`).
- **Windows.** A handler is a chain of changes to one record, so the lemmas say of each
  operator what it returns when no ghost is listed (`Focuses`, `Closes`, `Registers`) and
  that `Sane` survives it. `Sane` is the agreement of any desk, with two parts that make it
  inductive: an animation under way says where the window it moves is (`Rests`), and no
  unknown window is moving (`Still`). The taskbar's list lags behind only while its refresh
  is pending (`Lists`). After "Terminate Interface" only `Safe` remains: nothing is known or
  deleted before its launch, and an application of a closed window is never started. What
  `Less` and `OnTop` make of a sequence is proved from their definition by ranks, for the
  library's `Remove` and `SelectSeq` are recursive or take an operator.
- **Geometry.** `RequestedWithin` is the heart: whatever is asked for and wherever the
  window is, the rectangle the gatekeeper returns keeps the strip inside, up to the
  jitter it ignores. The proof needs no bound on where the pointer goes. `Hands` says what each thread
  holds on to in the middle of a handler, `Reach` that the geometry is within, being dragged,
  strayed, or about to be put right by the interface itself, and `Story` that without an
  overlap one thread at most is changing and what it has still to write is what the other
  field says. The assumption `GeometryAssumption` asks that the workspace holds the strip.
- **Bridge.** A number is forgotten after ten seconds, so that a call runs once at most is
  not inductive. `Spent` says of an end's pipe and queue together that each packet with a
  number is stale, or remembered until it is; `Remembers` has it of every call that has run
  or waits in the engine's queue. It survives a repetition, which bears the packet's own
  time, and the passing of time, because numbers outlive packets: `BridgeAssumption` asks no
  more than that a number is kept at all. A packet that is taken was then not spent
  (`FirstTime`). That the engine blocks only when flooded is a matter of counting: its queue
  repeats no number, none of those calls has run, and the one in hand is another.
- **Mediator.** One program at most is a matter of where the UI thread is: only the program
  started last may be alive; before a start it is not, since whoever asked found it dead and
  nobody else starts one; between the start and its record it is the next one; and at the
  report of an exit nothing is alive but what a stop could not end (`MediatorPrograms`). The
  steps of the other threads keep all of that. A thread that hangs holds the lock that every
  change of the handle needs, so what it hangs on stays true.
- **Notepads.** `EditorsSound` is inductive once the writers, the pending openings and the
  titles are typed, since every step that ends the mark copies the text or the file.
- **Gateway.** That no second is overfull is not inductive: the window holds refused calls
  beside admitted ones, and is cut at its first recent call. `RatesOK` adds that, of the
  calls since any time that is a second old at most, the window counts as many as were
  admitted (`CutKeeps`: a cut loses none of them), with what the one thread in the limiter has
  read of it. A call is admitted only when the window, and so that second, has room. For consent, `Answerable` says of each event on its way that
  it grants only what the user said, and answers the interface thread only when that has
  given up: while it waits no dialog is answered. That `temp` and `cached` only grow keeps
  what was checked before a lock or a change of the manifest true. `SandboxAssumption` asks
  for numbers.

Only model-checked: the liveness properties (fairness and ENABLED are beyond the proof
system); the cycle search and the queries on a tree (recursive); block lists, the trash's
metadata and what the file commands answer, which are folds over sequences and would need
induction over data; the dashboard, whose log selects from sequences. `AppsSound`
and the files' part of `EngineSound` are conjunctions of named parts and candidates for
proof.

## 7. Where the code differs from what it says

Five runs expect a violation:

- **`sched_live`, `ReadyRuns`.** "The scheduler subscribes to SystemEvent.CLOCK_TICK and
  calls schedule() on every tick" (`kernel/scheduler.py` line 37, and line 108). `start`
  subscribes births and deaths only, and nothing else calls `_on_tick`: a process that
  enters the ready queue never gets the CPU.
- **`vault_rollback`, `NoRollback`.** A store stopped after the envelope's rename and
  before the versions are written leaves an envelope ahead of the known version. The
  next store uses its number again, and the older of the two then passes the
  anti-rollback test (`engine_rust/src/vault.rs` lines 433 and 504).
- **`vault_keys`, `KeysDieWithSessions`.** Eviction, `cleanup` and `get_session` remove
  sessions and tell nobody their tokens, so their keys stay until the engine is
  dropped, against "vault_key is zeroized on session close" (`vault.rs` line 18).
- **`mediator_hang`, `ChecksEnd`.** `is_running` reports an exit it finds while it holds
  the plain lock that the report takes: that check never ends
  (`kernel/security/qvault_adapter.py` lines 66, 71 and 200).
- **`geometry_gate`, `GateIsSingle`.** "CENTRAL AUTHORITY: Validates and applies ALL geometry
  changes" (`window_manager.py`, `request_geometry`). `setGeometry` goes past it whenever the
  window's one flag `_is_applying_geometry` is up, whichever thread raised it. A snap on the
  bus's worker remembers the geometry in the middle of a resize; while it applies its own, a
  shortcut restores the remembered one, and the title bar stays above the workspace.

Seen while modelling, and in the models as the code has it, without a run of its own:

- `security_api.py` line 89 says overrides let "Change Password" work definitively; a
  login with a changed password reaches line 96, which uses `time` without importing
  it, and fails. The front end's model has changed passwords as the file states them,
  and this failure as an answer.
- `_command_parser.py` line 231: "Re-extract args without redirect parts"; the `>` stays
  among the arguments.
- `audit.rs` line 78 says it "never silently drops"; write errors of lines are ignored.
- `terminal_app.py`, `cut()`: "Terminals NEVER allow cut"; Qt's own Ctrl+X cuts.

## 8. What else the models show

Behaviour that the properties exclude by name, or that an action shows, because the
code promises nothing else.

**Kernel.** Were the scheduler's tick subscribed: a process killed while its PROC_STOPPED is
queued could be picked once more and made RUNNING, by the tick itself and by the dispatcher,
which asks nothing. A process whose burst ends leaves the CPU without giving back its core. A
migration onto a busy core leaves a stale index entry, on which a later release raises
half-way through a preemption. Under PRIO a process below the aging cap can starve. A
completion timer fires once and acts only on a RUNNING process. A priority inherited
through one resource is dropped by the release of any other. A cycle may be gone when
it is resolved; its victim dies all the same. A stop of the clock whose join gives up,
followed by a start, leaves two loops. The clock is started when the monitor is shown,
paused when it is hidden, and never resumed. The bus's index of drag events is not
adjusted when the history is cut. Terminated threads keep mutexes and places in queues; a
holder that asks again waits for itself.

**Dashboard.** The memory line never moves and no node of the graph turns red, for a method
and a field they read do not exist; processes never reach the log for the same reason. A
switch always names core 0, and the timeline keeps a core's last process when it goes idle.
The three-second reset of a resolved deadlock overwrites a newer alarm. With two cycles only
the last is marked, and who was not its victim stays marked. A reading stored late shows an
older state until the next refresh. Closing unsubscribes the header only; the other widgets
listen until they are deleted.

**Engine.** A crash between the two renames of versions, salts or users makes what they
protect unreadable for good; a crash while the master key is first written leaves a short
key, and the engine never starts again. `create_user` whose save fails leaves the account
in memory. A key rotation (no caller) saves the new salt last and leaves existing
sessions the old key. A legacy migration cut before its last deletion ends in
"Invalid JSON". Audit numbers repeat after a restart. Two threads that both find the log too
big put it aside one after the other, and the second, if it is late, puts aside the log that
the first has just begun, over the full one (`overtaken`, `audit.rs` lines 172 to 181); opening
the log and writing to it stay one step of the model.

**Isolated applications and bridge.** The handshake flag survives a restart, so a second
engine that hangs in its boot is not guarded; two due restarts overwrite a process handle.
A call an engine's method makes from the main thread always times out, since only that
thread would deliver the answer; more calls in one drain than the command queue holds block
the engine for ever. A packet dropped for a full queue ends the drain until the next tick;
callbacks of lost answers stay. A second that straddles two windows can see twice the rate.
Every engine signs its handshake with the controller's one secret and name, so the shutdown for
a wrong signature (`app_controller_isolated.py` line 260) is not reached by what the code starts.

**Launch and guards.** A consent asked from the interface's thread freezes it for a
minute; the dialog appears afterwards and its answer reaches nobody. No manifest exists,
so every check fails unless the permission was granted for the moment; the governor knows
no application, so calls past the checks end in KeyError. The limiters are without a lock: two
threads that count before either adds are both admitted at the limit, one call more for each
thread (`OneEachAtMost`). Two that see the same old call remove two, and the second may be a
recent one; then even that bound falls (TLC finds it with seven calls, a limit of one and a
grace of one; the run's five calls do not reach it). A call's time is the clock its thread
has read.

**Front end and terminal.** An attempt made while the login thread has not quite ended is
dropped without an answer. `AuditWorks` is false as shipped (the engine has no `log_audit`),
which stops a state handler half-way. Typing after Home or Left moves the next prompt into
the text; Ctrl+Backspace, like the keys that delete by word or line, can delete into the prompt
or the history; what is typed while a
program runs sends the earlier command again; cut-off old lines do not move the prompt's
position. Every new tab replaces the shared history by the file; a save cut short empties
it; a name that begins with an earlier variable's name is never replaced in file names.

**Mediator.** An unplugged token counts as plugged in, since the interrupt's data has no
"state". A failed terminate leaves a living program that counts as not running.
Recording a launch and starting the poll are one step (`Records`): to stop that timer in between
another thread would have to report an exit, and it hangs before it does. The
events of the lock reach the dashboard's widgets on the bus's thread.

**Files.** The trash's metadata is written after the move, so a crash between them leaves
an entry of unknown origin. A paste into a directory that was removed meanwhile makes it
again. `mv` of the virtual file system onto itself or below itself loses the entry. Moving the
root to a new name makes a tree that contains itself and then raises (`filesystem.py` lines 792
to 806): no function from paths is that tree, and it is the one command left out; the run types
no root elsewhere, the proof allows it. `ls` and `cat` in `/proc` build that directory anew
(`ReadsProc`), so a lock or a new file there lasts until the next look, and `WaysAgree` compares
`ls` with the explorer once it is as built. `cd` there checks nothing, and the explorer's listing
does not ask whether a directory may be entered. `du` prints running totals; `grep -w` ignores `-v`.

**Windows and icons.** "Terminate Interface" in the taskbar closes a widget behind the
manager's back and leaves a ghost, on which focusing, the taskbar and the logout stop;
`WindowsAgree` is claimed until then. A snap event that arrives late can end the next drag, and
falls between any two accesses of a handler: a window is left DRAGGING in a slot, or tiled without one, until the next
undisturbed snap, press or toggle (`crossed`). Two reads of one test, and the four coordinates
that `request_geometry` reads, are one step of the model.
A minimized last window stays lit. Reloads that are pending together are one of the model (`due`);
each loads the directory as it then is. After a reload icons named by the taskbar are deleted
objects until the desktop is refreshed; after the directory was removed its watcher is
silent; the chosen wallpaper is forgotten at a restart; a rename onto an existing name
replaces the file; the layout file is emptied before it is written.

**Notepad.** New, answered Yes, clears the text even if its save failed; Open and Close do
not ask; Save as names the file before it writes; a save empties the file first.

**Plans.** A plan started while one is active aborts it with the lock held that the end of
the abort takes, and waits for itself (`Replace`). A plan started right after an abort
clears the event that would have stopped the aborted one, whose thread then goes on beside
it, adds to its list of steps, and makes nobody the active plan when it ends: `PlansSound`
speaks of plans without such an overlap (`overlap`). An abort and the plan's thread may
both count it as rolled back; an abort whose plan ends while the counts are written raises
and takes nothing back; an undo takes back what the list holds by then. Nothing that runs
imports the orchestration engine; its orders have no subscriber.

## 9. Plan

Done: resource table and recovery; scheduler; memory; bus, objects and clock; engine;
isolated applications, bridge, launch and guards; front end, terminal and mediator; files,
virtual file system, windows, geometry, icons, notepads; plans; the kernel's dashboard.

Next, as far as it goes further:

1. Proofs: the accounts of `EngineSound`; the parts of `AppsSound`.
2. Abstract specifications of a history shared by tabs and of a directory with its trash.
3. FCFS and changes of algorithm in one scheduler run.

## 10. Not modelled, and why

- Engine files that `lib.rs` does not declare: not compiled.
- Paging, the adaptive scheduler, the runtime bridge and the boot pipeline: never called,
  or a straight line; the adaptive scheduler's one effect is an action of `Scheduler`.
- The application runtime manager and its governors: nothing registers an application, so
  every entry point returns early.
- The assistant, intent matching, plug-ins and market place: policies over strings and
  calls to other programs; several modules import what does not exist.
- Desktop services (telemetry, notifications, settings, clipboard, themes): counters and
  files used from one thread.
- Remaining panels, dialogs and viewers: layout over one Qt thread. The C# mediator and the
  web page are programs of their own; only what the adapter sees of the first is modelled.
- Real time: rates, clock drift and token lifetimes appear as events (`Expire`,
  `TimerExpires`) or as small numbers of seconds.
- Cryptography: a MAC verifies exactly the content it was made from.
- Inside modelled parts, `PROJECT.json` names under each component what is left out.
