---------------------------- MODULE KernelMonitor ----------------------------
(* The dashboard of the simulated kernel (ui/shell/kernel_monitor_app.py, with *)
(* the process table of ui/widgets/task_manager_ui.py).  Its widgets hear of   *)
(* the kernel on three threads: an event of high priority is handled by the    *)
(* kernel's thread that emits it, any other by the bus's worker, and what      *)
(* touches labels is posted to the interface thread, whose timers also pull    *)
(* what the widgets show.  What a panel shows is modelled by how often it had  *)
(* changed when it was read.  Of the memory map that is the blocks: the line   *)
(* below them never moves, for the reader calls a method the memory manager    *)
(* does not have.  The log's entries for processes are left out: their handler *)
(* reads a field that payloads do not have.  Closed is the end of the model.   *)
EXTENDS Naturals, FiniteSets, SequencesExt

CONSTANTS
  Pid,        \* processes of the kernel
  Scheduled,  \* bound: those of them that get the CPU
  Tasks,      \* the made-up processes of the stress button, in order
  Cores,      \* _core_count
  MaxRows,    \* MAX_ENTRIES of the interrupt log (40 in the code)
  MaxTicks,   \* MAX_TICKS of the timeline (60)
  MaxEvents   \* bound on what the kernel does

Core == 0..Cores - 1
Panel == {"memory", "ready", "cores", "graph", "procs"}
Idle == 0
Nothing == [panel |-> "none", version |-> 0]

VARIABLES
  now,                     \* panel -> the changes of what it shows
  current_process,         \* of the dispatcher
  todo,                    \* cycles that auto_resolve has still to resolve
  bus,                     \* events that wait for the worker
  signals,                 \* what is posted to the interface thread
  reading,                 \* thread -> the panel it refreshes, and what it read
  shown,                   \* panel -> what it shows
  current, strip,          \* of the timeline: core -> process, core -> cells
  deadlocked_pids,         \* of the graph
  rows,                    \* of the log
  tick_lbl, dl_lbl,        \* labels of the header
  resets,                  \* single shots that set the label back
  stress,                  \* tasks that are still to be made
  open,                    \* until on_stop; then until the window is deleted
  ticks, raised, last, victims, behind,   \* ghosts
  topic, events            \* bounds: the kind of things that happen, and how many

kernel == <<now, current_process, todo, bus>>
timeline == <<current, strip>>
header == <<tick_lbl, dl_lbl, resets>>
ghosts == <<ticks, raised, last, victims, behind>>
monitorVars == <<kernel, signals, reading, shown, timeline, deadlocked_pids, rows, header,
                 stress, open, ghosts, topic, events>>

MonitorInit ==
  /\ now = [s \in Panel |-> 0] /\ current_process = Idle /\ todo = << >> /\ bus = << >>
  /\ signals = << >> /\ reading = [t \in {"worker", "ui"} |-> Nothing]
  /\ shown = [s \in Panel |-> 0]
  /\ current = [c \in Core |-> Idle]
  /\ strip = [c \in Core |-> [i \in 1..MaxTicks |-> Idle]]
  /\ deadlocked_pids = {} /\ rows = << >>
  /\ tick_lbl = 0 /\ dl_lbl = "ok" /\ resets = 0
  /\ stress = << >> /\ open = "open"
  /\ ticks = 0 /\ raised = [t \in {"clock", "ui"} |-> 0] /\ last = Nothing /\ victims = {}
  /\ behind = {} /\ topic \in {"cpu", "log", "panels", "alerts"} /\ events = 0

Happen(n, topics) ==
  /\ open # "deleted" /\ topic \in topics /\ UNCHANGED topic
  /\ events + n <= MaxEvents /\ events' = events + n

Happens(topics) == Happen(1, topics)

\* Ghost: what now shows something older, or has changed without an event.
Shows(s, version) ==
  /\ shown' = [shown EXCEPT ![s] = version]
  /\ behind' = IF version = now'[s] THEN behind \ {s} ELSE behind \cup {s}

Changed(s) == now' = [now EXCEPT ![s] = @ + 1]

\* Both lists are read again by the thread of the event, under the lock of what they show.
ReadyQueueShown == Shows("ready", now'["ready"])
MemoryMapShown == Shows("memory", now'["memory"])

-----------------------------------------------------------------------------
(* The kernel, on the thread of the clock *)

\* After the engine's CORE_ASSIGNED the dispatcher switches, unless it has the process already
\* or never heard of it: of a made-up one it is said that it was spawned.
Dispatched(p, known) ==
  /\ bus' = bus \o (IF known THEN << >> ELSE <<[kind |-> "procs"]>>) \o <<[kind |-> "cores"]>>
                \o IF known /\ current_process # p THEN <<[kind |-> "switched", pid |-> p]>> ELSE << >>
  /\ current_process' = IF known THEN p ELSE current_process

\* Mutant: the timeline leaves a switch to the event of the switch.
LeftToSwitch(p, c, known) ==
  /\ Dispatched(p, known)
  /\ current' = IF known THEN current ELSE [current EXCEPT ![c] = p]

\* PROC_SCHEDULED, for the dispatcher and then for the timeline.
Announced(p, c, known) == Dispatched(p, known) /\ current' = [current EXCEPT ![c] = p]

Schedules ==
  \E p \in Scheduled \ victims, c \in Core :
    /\ Happens({"cpu"})
    /\ Announced(p, c, TRUE)
    /\ now' = [now EXCEPT !["ready"] = @ + 1, !["cores"] = @ + 1]
    /\ ReadyQueueShown
    /\ last' = [pid |-> p, core |-> c]
    /\ UNCHANGED <<todo, signals, reading, strip, deadlocked_pids, rows, header, stress, open,
                   ticks, raised, victims>>

\* A CLOCK_TICK that the bus lets through: a cell for each core, and the header's numbers.
Ticks ==
  /\ Happens({"log"})
  /\ strip' = [c \in Core |-> Append(Tail(strip[c]), current[c])]
  /\ ticks' = ticks + 1
  /\ signals' = IF open = "open" THEN Append(signals, [kind |-> "tick", tick |-> ticks + 1])
                ELSE signals
  /\ UNCHANGED <<kernel, reading, shown, current, deadlocked_pids, rows, header, stress, open,
                 raised, last, victims, behind>>

\* INTERRUPT_RAISED or INTERRUPT_HANDLED.
Interrupts ==
  /\ Happens({"log"})
  /\ raised' = [raised EXCEPT !["clock"] = @ + 1]
  /\ signals' = Append(signals, [kind |-> "row", from |-> "clock", nr |-> raised'["clock"]])
  /\ UNCHANGED <<kernel, reading, shown, timeline, deadlocked_pids, rows, header, stress, open,
                 ticks, last, victims, behind>>

\* auto_resolve detects, with the graph as it is in each event, ...
Cycles == {c \in SUBSET (Pid \ victims) : Cardinality(c) > 1}

Detects ==
  /\ Happens({"alerts"}) /\ todo = << >>
  /\ \E cs \in {<<c>> : c \in Cycles} \cup {cs \in Cycles \X Cycles : cs[1] # cs[2]} :
       /\ todo' = cs
       /\ bus' = bus \o [i \in DOMAIN cs |-> [kind |-> "detected", cycle |-> cs[i],
                                              rag |-> now["graph"]]]
  /\ UNCHANGED <<now, current_process, signals, reading, shown, timeline, deadlocked_pids, rows,
                 header, stress, open, ghosts>>

\* ... then resolves, cycle by cycle.
Resolves ==
  /\ open # "deleted" /\ todo # << >> /\ todo' = Tail(todo)
  /\ \E v \in Head(todo) :
       /\ victims' = victims \cup {v}
       /\ bus' = Append(bus, [kind |-> "resolved", victim |-> v])
  /\ Changed("graph") /\ behind' = behind \cup {"graph"}
  /\ UNCHANGED <<current_process, signals, reading, shown, timeline, deadlocked_pids, rows, header,
                 stress, open, ticks, raised, last, topic, events>>

\* MEMORY_ALLOCATED and MEMORY_FREED are handled under the manager's lock.
MemoryChanges ==
  /\ Happens({"panels"}) /\ Changed("memory") /\ MemoryMapShown
  /\ UNCHANGED <<current_process, todo, bus, signals, reading, timeline, deadlocked_pids, rows,
                 header, stress, open, ticks, raised, last, victims>>

\* A process migrated, spawned or ended.
ChangesAloud(s) ==
  /\ Happens({"panels"}) /\ Changed(s) /\ bus' = Append(bus, [kind |-> s])
  /\ UNCHANGED <<current_process, todo, signals, reading, shown, timeline, deadlocked_pids, rows,
                 header, stress, open, ghosts>>

\* PROC_PREEMPTED, before the process joins the queue again.
Preempts ==
  /\ Happens({"panels"}) /\ bus' = Append(bus, [kind |-> "ready"])
  /\ UNCHANGED <<now, current_process, todo, signals, reading, shown, timeline, deadlocked_pids,
                 rows, header, stress, open, ghosts>>

\* The secure regions locked, a resource granted, a process that joins the queue.
ChangesSilently(s) ==
  /\ Happens({"panels"}) /\ Changed(s) /\ behind' = behind \cup {s}
  /\ UNCHANGED <<current_process, todo, bus, signals, reading, shown, timeline, deadlocked_pids,
                 rows, header, stress, open, ticks, raised, last, victims>>

-----------------------------------------------------------------------------
(* The bus's worker *)

WorkerFree(kind) ==
  /\ open # "deleted" /\ reading["worker"] = Nothing
  /\ bus # << >> /\ Head(bus).kind = kind /\ bus' = Tail(bus)

\* PROC_CONTEXT_SWITCHED, whose core is 0 whatever core the process has.
OnSwitched ==
  /\ WorkerFree("switched")
  /\ current' = [current EXCEPT ![0] = Head(bus).pid]
  /\ UNCHANGED <<now, current_process, todo, signals, reading, shown, strip, deadlocked_pids, rows,
                 header, stress, open, ghosts, topic, events>>

\* The ready queue and the cores are read, and stored a moment later.
StartsRefresh(s) ==
  /\ WorkerFree(s)
  /\ reading' = [reading EXCEPT !["worker"] = [panel |-> s, version |-> now[s]]]
  /\ UNCHANGED <<now, current_process, todo, signals, shown, timeline, deadlocked_pids, rows,
                 header, stress, open, ghosts, topic, events>>

\* The process table posts a refresh to its own thread.
OnProcess ==
  /\ WorkerFree("procs")
  /\ signals' = Append(signals, [kind |-> "procs"])
  /\ UNCHANGED <<now, current_process, todo, reading, shown, timeline, deadlocked_pids, rows,
                 header, stress, open, ghosts, topic, events>>

\* Mutant: the marks stay until the next deadlock.
StillMarked(v) == deadlocked_pids

Marked(v) == deadlocked_pids \ {v}

\* DEADLOCK_DETECTED and DEADLOCK_RESOLVED: the graph, then the header while it listens.
Posted(signal) == signals' = IF open = "open" THEN Append(signals, signal) ELSE signals

OnDetected ==
  /\ WorkerFree("detected")
  /\ UNCHANGED now /\ Shows("graph", Head(bus).rag)
  /\ deadlocked_pids' = Head(bus).cycle
  /\ Posted([kind |-> "detected"])
  /\ UNCHANGED <<current_process, todo, reading, timeline, rows, header, stress, open, ticks,
                 raised, last, victims, topic, events>>

OnResolved ==
  /\ WorkerFree("resolved")
  /\ deadlocked_pids' = Marked(Head(bus).victim)
  /\ Posted([kind |-> "resolved"])
  /\ UNCHANGED <<now, current_process, todo, reading, shown, timeline, rows, header, stress, open,
                 ghosts, topic, events>>

-----------------------------------------------------------------------------
(* The interface thread, which does one thing at a time *)

Ready == open # "deleted" /\ reading["ui"] = Nothing /\ stress = << >>

\* Mutant: the newest goes.
InsertedOverTop(log, row) == IF Len(log) + 1 > MaxRows THEN Append(Front(log), row) ELSE Append(log, row)

\* _add_row_safe: the oldest goes when there are too many.
Inserted(log, row) == IF Len(log) + 1 > MaxRows THEN Tail(Append(log, row)) ELSE Append(log, row)

Takes(kind) == Ready /\ signals # << >> /\ Head(signals).kind = kind /\ signals' = Tail(signals)

TakesRow ==
  /\ Takes("row") /\ rows' = Inserted(rows, Head(signals))
  /\ UNCHANGED <<kernel, reading, shown, timeline, deadlocked_pids, header, stress, open, ghosts,
                 topic, events>>

\* Mutant: no single shot is started.
LeftStanding == resets

Armed == resets + 1

\* _on_tick_header_safe, _on_deadlock_header_safe and _on_resolved_header_safe.
TakesHeader ==
  /\ \/ Takes("tick") /\ tick_lbl' = Head(signals).tick /\ UNCHANGED <<dl_lbl, resets>>
     \/ Takes("detected") /\ dl_lbl' = "deadlock" /\ UNCHANGED <<tick_lbl, resets>>
     \/ Takes("resolved") /\ dl_lbl' = "resolved" /\ resets' = Armed /\ UNCHANGED tick_lbl
  /\ UNCHANGED <<kernel, reading, shown, timeline, deadlocked_pids, rows, stress, open, ghosts,
                 topic, events>>

\* _reset_dl_label, whatever the label says by now.
ResetFires ==
  /\ Ready /\ resets > 0 /\ resets' = resets - 1 /\ dl_lbl' = "ok"
  /\ UNCHANGED <<kernel, signals, reading, shown, timeline, deadlocked_pids, rows, tick_lbl,
                 stress, open, ghosts, topic, events>>

\* _periodic_refresh reads one panel after another; the process table also when posted to.
Pulls(s) == reading' = [reading EXCEPT !["ui"] = [panel |-> s, version |-> now[s]]]

Refreshes ==
  /\ \/ Ready /\ open = "open" /\ (\E s \in Panel : Pulls(s)) /\ UNCHANGED signals
     \/ Takes("procs") /\ Pulls("procs")
  /\ UNCHANGED <<kernel, shown, timeline, deadlocked_pids, rows, header, stress, open, ghosts, topic, events>>

\* What either thread has read is stored.
Stores(t) ==
  /\ open # "deleted" /\ reading[t] # Nothing
  /\ reading' = [reading EXCEPT ![t] = Nothing]
  /\ UNCHANGED now /\ Shows(reading[t].panel, reading[t].version)
  /\ UNCHANGED <<current_process, todo, bus, signals, timeline, deadlocked_pids, rows, header,
                 stress, open, ticks, raised, last, victims, topic, events>>

\* _run_internal_stress, which counts as two: the memory of an earlier run is freed; ...
Press ==
  /\ Happen(2, {"cpu", "log"}) /\ Ready /\ stress' = Tasks
  /\ \/ Changed("memory") /\ MemoryMapShown
     \/ UNCHANGED <<now, shown, behind>>
  /\ UNCHANGED <<current_process, todo, bus, signals, reading, timeline, deadlocked_pids, rows,
                 header, open, ticks, raised, last, victims>>

\* ... for each task, memory unless it is full, a core, the CPU and, for the first, an
\* interrupt, whose row does not pass through the queue of signals.
StressStep ==
  /\ open # "deleted" /\ stress # << >> /\ stress' = Tail(stress)
  /\ LET c == (Len(Tasks) - Len(stress)) % Cores
         first == stress = Tasks
     IN  /\ Announced(Head(stress), c, FALSE)
         /\ last' = IF last # Nothing /\ last.core = c THEN Nothing ELSE last
         /\ raised' = IF first THEN [raised EXCEPT !["ui"] = @ + 1] ELSE raised
         /\ rows' = IF first THEN Inserted(rows, [kind |-> "row", from |-> "ui", nr |-> raised'["ui"]])
                    ELSE rows
  /\ \E read \in {{"memory", "ready"}, {"ready"}} :
       /\ now' = [now EXCEPT !["memory"] = IF "memory" \in read THEN @ + 1 ELSE @]
       /\ shown' = [s \in Panel |-> IF s \in read THEN now'[s] ELSE shown[s]]
       /\ behind' = behind \ read
  /\ UNCHANGED <<todo, signals, reading, strip, deadlocked_pids, header, open, ticks, victims,
                 topic, events>>

\* on_stop unsubscribes the header; the other widgets listen until they are deleted.
Closes ==
  /\ Ready /\ topic # "cpu"
  /\ open' = IF open = "open" THEN "stopped" ELSE "deleted"
  /\ UNCHANGED <<kernel, signals, reading, shown, timeline, deadlocked_pids, rows, header, stress,
                 ghosts, topic, events>>

MonitorNext ==
  \/ Schedules \/ Ticks \/ Interrupts \/ Detects \/ Resolves \/ MemoryChanges
  \/ (\E s \in {"cores", "procs"} : ChangesAloud(s)) \/ Preempts
  \/ \E s \in Panel : ChangesSilently(s)
  \/ OnSwitched \/ (\E s \in {"ready", "cores"} : StartsRefresh(s)) \/ OnProcess
  \/ OnDetected \/ OnResolved
  \/ TakesRow \/ TakesHeader \/ ResetFires \/ Refreshes \/ Press \/ StressStep \/ Closes
  \/ \E t \in {"worker", "ui"} : Stores(t)

-----------------------------------------------------------------------------
(* Properties *)

Waiting(queue, kinds) == \E i \in DOMAIN queue : queue[i].kind \in kinds

MonitorTypeOK ==
  /\ \A s \in Panel : shown[s] \in 0..now[s]
  /\ current \in [Core -> Pid \cup Range(Tasks) \cup {Idle}]
  /\ strip \in [Core -> [1..MaxTicks -> Pid \cup Range(Tasks) \cup {Idle}]]
  /\ deadlocked_pids \subseteq Pid /\ dl_lbl \in {"ok", "deadlock", "resolved"}
  /\ resets \in Nat /\ open \in {"open", "stopped", "deleted"}

\* Once the switches that were announced have arrived, the timeline has the process that the
\* scheduler ran last on its core, however late they came and whatever they overwrote.
TimelineFollows ==
  last # Nothing /\ ~Waiting(bus, {"switched"}) => current[last.core] = last.pid

\* A change that was announced is shown, unless the announcement is on its way or a reader
\* who had looked before it stored what it saw.
PanelsFollow ==
  \A s \in Panel :
    \/ shown[s] = now[s] \/ s \in behind
    \/ Waiting(bus, {s}) \/ Waiting(signals, {s}) \/ \E t \in DOMAIN reading : reading[t].panel = s

\* The log has the last interrupts of each thread in their order, none left out, and all
\* of them as long as there is room.
LogInOrder ==
  /\ Len(rows) <= MaxRows
  /\ \A t \in DOMAIN raised :
       LET seen == SelectSeq(rows \o signals, LAMBDA r : r.kind = "row" /\ r.from = t)
       IN  /\ \A i \in DOMAIN seen : seen[i].nr = raised[t] - Len(seen) + i
           /\ Len(rows) < MaxRows => Len(seen) = raised[t]

\* The header counts every tick it is told of.  It goes back to OK when every deadlock is resolved and said
\* to be: a resolution is never the last word of the label.
HeaderSettles ==
  open = "open" =>
    /\ tick_lbl + Len(SelectSeq(signals, LAMBDA x : x.kind = "tick")) = ticks
    /\ dl_lbl = "resolved" => resets > 0
    /\ todo = << >> /\ ~Waiting(bus, {"resolved"}) /\ ~Waiting(signals, {"resolved"}) /\ resets = 0
         => dl_lbl = "ok"

\* No process that was stopped to end a deadlock stays marked in the graph.
GraphForgets ==
  todo = << >> /\ ~Waiting(bus, {"detected", "resolved"}) => deadlocked_pids \cap victims = {}

MonitorSound ==
  MonitorTypeOK /\ TimelineFollows /\ PanelsFollow /\ LogInOrder /\ HeaderSettles /\ GraphForgets
=============================================================================
