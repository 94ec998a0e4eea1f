------------------------------ MODULE Scheduler ------------------------------
(***************************************************************************)
(* CPU scheduling: the scheduler, the process table, the dispatcher and    *)
(* the core pool (src/system/kernel/scheduler.py, process_manager.py,      *)
(* dispatcher.py, and multicore_engine.py as module Multicore).            *)
(*                                                                         *)
(* A clock tick is handled on the clock thread under the scheduler's lock  *)
(* and includes the synchronous calls it makes: core release and           *)
(* assignment, PM.kill, and PROC_SCHEDULED with the dispatcher's context   *)
(* switch.  Births and deaths come from the other side: PM acts at once    *)
(* and puts PROC_SPAWNED, PROC_STOPPED or PROC_COMPLETED in the bus queue, *)
(* which one worker thread delivers in order.                              *)
(*                                                                         *)
(* A process that comes by PROC_SPAWNED is scheduled through a Process     *)
(* object of the scheduler's own, with default attributes and a random     *)
(* burst; one registered with create_process and add_process is shared     *)
(* with the process table.                                                 *)
(***************************************************************************)
EXTENDS Multicore, SequencesExt

CONSTANTS
  Algorithms,      \* the algorithms set_algorithm is called with; RR at boot
  Quantum,         \* ticks of a quantum
  Bursts,          \* burst times; 0 is a process without one, which never ends
  Budgets,         \* CPU budgets; 0 is none
  Prios,           \* priorities given to create_process
  DefaultPrio,     \* that of a Process nobody gave one
  MaxPrio,         \* the cap of aging (10)
  AgingThreshold,  \* ticks of waiting for a boost (20)
  MaxEvents,       \* bound on the bus queue
  MaxReady,        \* bound on the ready queue, which panics fill with duplicates
  CoreCounts,      \* the counts set_core_count is called with
  SyncSpawn,       \* do foreground commands, run to their end, occur?
  TickSubscribed   \* is _on_tick subscribed to CLOCK_TICK?  As shipped it is not: start()
                   \* leaves it out, and only a caller of its own could add it

ASSUME PidsAreNumbers == Pid \subseteq Nat
ASSUME SchedulerAssumption ==
  /\ Quantum \in Nat \ {0} /\ AgingThreshold \in Nat \ {0}
  /\ Bursts \subseteq Nat /\ Budgets \subseteq Nat
  /\ MaxPrio \in Nat /\ Prios \subseteq 1..MaxPrio /\ DefaultPrio \in 1..MaxPrio
  /\ Algorithms \subseteq {"FCFS", "SJF", "RR", "PRIO"}
  /\ CoreCounts \subseteq 0..MaxCores
  /\ SyncSpawn \in BOOLEAN /\ TickSubscribed \in BOOLEAN

VARIABLES
  ready,          \* ready_queue
  current,        \* current_process, or NoPid
  algorithm,
  quantum_ticks,
  job,            \* the scheduler's Process object of a pid
  status,         \* PM's Process.status; "unborn" before, "reaped" after
  timer,          \* the pending _complete timer
  reaper,         \* the pending _reap timer
  events,         \* the queue of the event bus
  dispatched,     \* the dispatcher's _current_process
  handled,        \* history: pids whose death event has been handled
  panicked        \* history: has a core release raised, leaving a step half done?

schedVars == <<ready, current, algorithm, quantum_ticks, job>>
pmVars    == <<status, timer, reaper>>
history  == <<handled, panicked>>
vars == <<cores, proc_core, schedVars, pmVars, events, dispatched, history>>

Event(kind, p) == [kind |-> kind, pid |-> p]

NewJob(burst, prio, budget, shared) ==
  [burst |-> burst, remaining |-> burst, priority |-> prio, waited |-> 0,
   budget |-> budget, executed |-> 0, shared |-> shared]

TypeOK ==
  /\ MceTypeOK
  /\ ready \in Seq(Pid) /\ current \in Pid \cup {NoPid}
  /\ algorithm \in Algorithms /\ quantum_ticks \in Nat
  /\ \A p \in Pid : /\ job[p].remaining \in 0..job[p].burst
                    /\ job[p].priority \in 1..MaxPrio
                    /\ job[p].waited \in 0..(AgingThreshold - 1)
  /\ status \in [Pid -> {"unborn", "running", "ready", "terminated", "completed",
                         "stopped", "reaped"}]
  /\ events \in Seq([kind : {"spawned", "stopped", "completed"}, pid : Pid])
  /\ dispatched \in Pid \cup {NoPid} /\ handled \subseteq Pid /\ panicked \in BOOLEAN

Init ==
  /\ MceInit
  /\ ready = <<>> /\ current = NoPid /\ algorithm \in Algorithms /\ quantum_ticks = 0
  /\ job = [p \in Pid |-> NewJob(0, DefaultPrio, 0, FALSE)]
  /\ status = [p \in Pid |-> "unborn"]
  /\ timer = [p \in Pid |-> FALSE] /\ reaper = [p \in Pid |-> FALSE]
  /\ events = <<>> /\ dispatched = NoPid /\ handled = {} /\ panicked = FALSE

-----------------------------------------------------------------------------
(* The process table *)

Alive(st, p) == st[p] \in {"running", "ready", "terminated"}

\* The status of a process after PM.kill, and its event.
KilledStatus(st, p) == IF Alive(st, p) THEN [st EXCEPT ![p] = "stopped"] ELSE st
KillEvents(st, p)   == IF Alive(st, p) THEN <<Event("stopped", p)>> ELSE <<>>

\* spawn with an executable: in the background the process runs, with or without
\* a timer; in the foreground it has already run when it is registered.  _gc
\* trims some of the completed ones.
Spawn(p) ==
  /\ status[p] = "unborn"
  /\ \E background \in {TRUE} \cup {~SyncSpawn}, timed \in BOOLEAN,
        old \in SUBSET {q \in Pid : status[q] = "completed"} :
       /\ background \/ timed
       /\ status' = [q \in Pid |-> IF q = p
                                   THEN IF background THEN "running" ELSE "completed"
                                   ELSE IF q \in old THEN "reaped" ELSE status[q]]
       /\ timer' = [timer EXCEPT ![p] = timed]
  /\ events' = Append(events, Event("spawned", p))
  /\ UNCHANGED <<cores, proc_core, schedVars, reaper, dispatched, history>>

\* create_process, then add_process.
Register(p) ==
  /\ status[p] = "unborn"
  /\ status' = [status EXCEPT ![p] = "ready"]
  /\ \E burst \in Bursts, prio \in Prios, budget \in Budgets :
       job' = [job EXCEPT ![p] = NewJob(burst, prio, budget, TRUE)]
  /\ ready' = Append(ready, p)
  /\ UNCHANGED <<cores, proc_core, current, algorithm, quantum_ticks, timer, reaper,
                 events, dispatched, history>>

\* _complete, when its timer fires: only a process that is RUNNING just then.
Complete(p) ==
  /\ timer[p]
  /\ timer' = [timer EXCEPT ![p] = FALSE]
  /\ IF status[p] = "running"
     THEN /\ status' = [status EXCEPT ![p] = "completed"]
          /\ reaper' = [reaper EXCEPT ![p] = TRUE]
          /\ events' = Append(events, Event("completed", p))
     ELSE UNCHANGED <<status, reaper, events>>
  /\ UNCHANGED <<cores, proc_core, schedVars, dispatched, history>>

Kill(p) ==
  /\ Len(events) < MaxEvents
  /\ Alive(status, p)
  /\ status' = KilledStatus(status, p)
  /\ timer' = [timer EXCEPT ![p] = FALSE]
  /\ reaper' = [reaper EXCEPT ![p] = TRUE]
  /\ events' = events \o KillEvents(status, p)
  /\ UNCHANGED <<cores, proc_core, schedVars, dispatched, history>>

Reap(p) ==
  /\ reaper[p]
  /\ reaper' = [reaper EXCEPT ![p] = FALSE]
  /\ status' = [status EXCEPT ![p] = "reaped"]
  /\ UNCHANGED <<cores, proc_core, schedVars, timer, events, dispatched, history>>

-----------------------------------------------------------------------------
(* The scheduler: events from the bus *)

\* _preempt without re-queueing; if the core's release raises, the handler ends
\* there and the process stays current.
PreemptRemoved ==
  /\ Release(current)
  /\ IF ReleaseRaises(current) THEN UNCHANGED <<current, quantum_ticks>>
     ELSE current' = NoPid /\ quantum_ticks' = 0
  /\ panicked' = (panicked \/ ReleaseRaises(current))
  /\ status' = IF job[current].shared /\ status[current] # "reaped"
               THEN [status EXCEPT ![current] = "ready"] ELSE status
  /\ UNCHANGED ready

\* The queue without p, however often panics have put it there: the j-th of those
\* that stay.
Without(queue, p) ==
  LET kept == {i \in 1..Len(queue) : queue[i] # p}
      Rank(i) == Cardinality({k \in kept : k <= i})
  IN  [j \in 1..Cardinality(kept) |-> queue[CHOOSE i \in kept : Rank(i) = j]]

\* Mutant: only the queue is searched.
RemoveFromQueueOnly(p) ==
  /\ ready' = Without(ready, p)
  /\ UNCHANGED <<current, quantum_ticks, cores, proc_core, status, panicked>>

RemoveProcess(p) ==
  IF current = p THEN PreemptRemoved
  ELSE /\ ready' = Without(ready, p)
       /\ UNCHANGED <<current, quantum_ticks, cores, proc_core, status, panicked>>

OnProcessSpawned(p) ==
  /\ \E burst \in Bursts \ {0} :
       job' = [job EXCEPT ![p] = NewJob(burst, DefaultPrio, 0, FALSE)]
  /\ ready' = Append(ready, p)
  /\ UNCHANGED <<cores, proc_core, current, quantum_ticks, status, history>>

OnProcDeath(p) ==
  /\ RemoveProcess(p)
  /\ handled' = handled \cup {p}
  /\ UNCHANGED job

\* The bus worker delivers the oldest event.
Deliver ==
  /\ events # <<>>
  /\ events' = Tail(events)
  /\ IF Head(events).kind = "spawned" THEN OnProcessSpawned(Head(events).pid)
     ELSE OnProcDeath(Head(events).pid)
  /\ UNCHANGED <<algorithm, timer, reaper, dispatched>>

SetAlgorithm(a) ==
  /\ a # algorithm
  /\ algorithm' = a
  /\ quantum_ticks' = 0
  /\ UNCHANGED <<cores, proc_core, ready, current, job, pmVars, events, dispatched, history>>
-----------------------------------------------------------------------------
(* The scheduler: a clock tick *)

\* arrival_tick is 0 for all: events do not carry it, add_process defaults to it.
Shorter(p, q) == job[p].burst # 0 /\ (job[q].burst = 0 \/ job[p].burst < job[q].burst)

\* Those in the queue that the algorithm puts nobody before.
Best(queue, jobs) ==
  LET members == ToSet(queue)
  IN  CASE algorithm = "FCFS" -> {p \in members : \A q \in members : p <= q}
        [] algorithm = "SJF"  -> {p \in members : \A q \in members : ~Shorter(q, p)}
        [] algorithm = "RR"   -> members
        [] algorithm = "PRIO" -> {p \in members :
                                    \A q \in members : jobs[q].priority <= jobs[p].priority}

\* min and max of Python return the first of equals.
SelectNext(queue, jobs) ==
  LET best == Best(queue, jobs)
  IN  queue[CHOOSE i \in 1..Len(queue) :
              queue[i] \in best /\ \A j \in 1..(i - 1) : queue[j] \notin best]

\* _tick_waiting_processes and _apply_aging.  waiting_time is kept modulo the
\* threshold: it counts all the waiting of a process and is never reset.
Aged ==
  [p \in Pid |->
    LET waits  == Cardinality({i \in 1..Len(ready) : ready[i] = p})
        waited == (job[p].waited + waits) % AgingThreshold
        boost  == IF waits > 0 /\ waited = 0 THEN waits ELSE 0
        prio   == IF job[p].priority + boost > MaxPrio THEN MaxPrio
                  ELSE job[p].priority + boost
    IN  [job[p] EXCEPT !.waited = waited, !.priority = prio]]

\* Step 1 for the current process p: one tick of its burst and of its budget.
Advanced(p) ==
  [Aged EXCEPT
     ![p].remaining = IF @ > 0 THEN @ - 1 ELSE 0,
     ![p].executed  = IF job[p].budget = 0 \/ @ > job[p].budget THEN @ ELSE @ + 1]

\* Steps 2a to 2d.
Finished(p) == job[p].burst > 0 /\ job[p].remaining <= 1
Expired == algorithm = "RR" /\ quantum_ticks + 1 >= Quantum
Outranked(p) ==
  /\ algorithm = "PRIO"
  /\ LET aged == Aged IN \E q \in ToSet(ready) : aged[q].priority > aged[p].priority
Yields(p) == ~Finished(p) /\ (Expired \/ Outranked(p))
OverBudget(p) == job[p].budget > 0 /\ Advanced(p)[p].executed > job[p].budget

\* The status a scheduling decision gives the Process object, when PM shares it.
Marked(st, p, s) == IF job[p].shared /\ st[p] # "reaped" THEN [st EXCEPT ![p] = s] ELSE st

\* PROC_SCHEDULED: the dispatcher takes the process from PM's table, makes the one
\* it dispatched last READY if RUNNING, and the new one RUNNING.
Switched(st, p) ==
  IF st[p] = "reaped" \/ dispatched = p THEN st
  ELSE [q \in Pid |-> IF q = p THEN "running"
                      ELSE IF q = dispatched /\ st[q] = "running" THEN "ready" ELSE st[q]]

\* Mutant: the process that takes the CPU stays queued.
StaysQueued(queue, p) == queue
Dequeued(queue, p) == RemoveFirst(queue, p)

\* Step 3 from a CPU that is free: the queue, jobs, pool, index and statuses are
\* those that steps 1 and 2 left.
TakeNext(queue, jobs, pool, index, st) ==
  LET p == SelectNext(queue, jobs)
  IN  /\ ready' = Dequeued(queue, p)
      /\ current' = p
      /\ \E c \in AssignChoices(pool) :
           /\ cores' = AssignedCores(pool, p, c)
           /\ proc_core' = AssignedIndex(pool, index, p, c)
      /\ status' = Switched(Marked(st, p, "running"), p)
      /\ dispatched' = IF st[p] = "reaped" THEN dispatched ELSE p

FreeCpu(queue, jobs, pool, index, st) ==
  IF queue = <<>>
  THEN /\ ready' = queue /\ current' = NoPid
       /\ cores' = pool /\ proc_core' = index
       /\ status' = st /\ UNCHANGED dispatched
  ELSE TakeNext(queue, jobs, pool, index, st)

TickIdle ==
  /\ current = NoPid
  /\ ready # <<>>
  /\ job' = Aged
  /\ quantum_ticks' = 0
  /\ FreeCpu(ready, Aged, cores, proc_core, status)
  /\ UNCHANGED <<timer, reaper, events, panicked>>

\* The process keeps the CPU.
TickContinue ==
  /\ current # NoPid
  /\ ~Finished(current) /\ ~Yields(current) /\ ~OverBudget(current)
  /\ job' = Advanced(current)
  /\ quantum_ticks' = IF quantum_ticks < Quantum THEN quantum_ticks + 1 ELSE quantum_ticks
  /\ UNCHANGED <<ready, current, cores, proc_core, pmVars, events, dispatched, panicked>>

\* _preempt's release raises: the tick ends there as a kernel panic, with the
\* process re-queued and still current.
TickPanic ==
  /\ current # NoPid
  /\ Len(ready) < MaxReady
  /\ Yields(current) /\ ReleaseRaises(current)
  /\ job' = Advanced(current)
  /\ quantum_ticks' = IF quantum_ticks < Quantum THEN quantum_ticks + 1 ELSE quantum_ticks
  /\ ready' = Append(ready, current)
  /\ status' = Marked(status, current, "ready")
  /\ Release(current)
  /\ panicked' = TRUE
  /\ UNCHANGED <<current, timer, reaper, events, dispatched>>

\* The process finishes, yields to another, or is killed by the watchdog.
LeaveCpu ==
  /\ current # NoPid
  /\ Finished(current) \/ Yields(current) \/ OverBudget(current)
  /\ ~(Yields(current) /\ ReleaseRaises(current))
  /\ LET p      == current
         jobs   == Advanced(p)
         queue  == IF Yields(p) THEN Append(ready, p) ELSE ready
         pool   == IF Yields(p) THEN ReleasedCores(p) ELSE cores
         index  == IF Yields(p) THEN ReleasedIndex(p) ELSE proc_core
         marked == IF Finished(p) THEN Marked(status, p, "terminated")
                   ELSE IF Yields(p) THEN Marked(status, p, "ready") ELSE status
         killed == OverBudget(p) /\ Alive(marked, p)
     IN  /\ killed => Len(events) < MaxEvents
         /\ job' = jobs
         /\ quantum_ticks' = 0
         /\ events' = IF killed THEN events \o KillEvents(marked, p) ELSE events
         /\ UNCHANGED panicked
         /\ timer' = [timer EXCEPT ![p] = @ /\ ~killed]
         /\ reaper' = [reaper EXCEPT ![p] = @ \/ killed]
         /\ FreeCpu(queue, jobs, pool, index,
                    IF killed THEN KilledStatus(marked, p) ELSE marked)

\* _on_tick.  A tick with nothing to schedule changes nothing and is left out.
Tick ==
  /\ TickSubscribed
  /\ TickIdle \/ TickContinue \/ TickPanic \/ LeaveCpu
  /\ UNCHANGED <<algorithm, handled>>

\* The engine's own tick handler and callers.
CorePool ==
  /\ Rebalance \/ \E n \in CoreCounts : SetCoreCount(n)
  /\ UNCHANGED <<schedVars, pmVars, events, dispatched, history>>

Next ==
  \/ \E p \in Pid : Spawn(p) \/ Register(p) \/ Complete(p) \/ Kill(p) \/ Reap(p)
  \/ \E a \in Algorithms : SetAlgorithm(a)
  \/ Deliver \/ Tick \/ CorePool

\* The bus worker runs.  The clock ticks, which schedules only where Tick is enabled:
\* WF_vars(Tick) asks nothing of a scheduler that is not subscribed.
Fairness == WF_vars(Tick) /\ WF_vars(Deliver)

Spec == Init /\ [][Next]_vars /\ Fairness

\* The same when nobody changes the algorithm: a change starts the quantum afresh, so that
\* one who keeps changing it keeps everybody waiting.
SettledSpec == Init /\ [][Next /\ UNCHANGED algorithm]_vars /\ Fairness

-----------------------------------------------------------------------------
(* Properties *)

\* A process is in one place at a time: current, once in the queue, or neither.
\* Only a kernel panic, which abandons a preemption half-way, breaks this.
OnePlace == ~panicked => current \notin ToSet(ready) /\ IsInjective(ready)

\* Once the death of a process has been handled it is out of the scheduler for
\* good, whatever the watchdog re-queued and whenever its birth was announced.
HandledStayOut ==
  ~panicked => \A p \in handled : p # current /\ p \notin ToSet(ready)

\* Whoever is on a core is indexed there, so that a release finds it and nobody is on
\* two cores, through migrations, resizes and the cores that finished processes keep.
\* A panic leaves a process both current and queued; it may then get a second core.
CoresIndexed == ~panicked => OccupantIndexed

\* A process is in one place, out of the scheduler once its death has been handled, and
\* everything has its type.
SchedulerSound == TypeOK /\ OnePlace /\ HandledStayOut

\* "The scheduler subscribes to CLOCK_TICK and calls schedule() on every tick": a ready
\* process gets the CPU, or leaves.
ReadyRuns == \A p \in Pid : p \in ToSet(ready) ~> p \notin ToSet(ready)
=============================================================================
