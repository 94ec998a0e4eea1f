------------------------------ MODULE MCTables ------------------------------
(* Four parts of the simulated kernel in one run: the resource table, with a  *)
(* single-unit resource, where every conflict blocks, and a two-unit one,      *)
(* where a holder can hold twice; the cycle search, on graphs of its own; the  *)
(* block list of the memory manager; and the dashboard, with a kernel of its   *)
(* own.  They share no state, so the initial state picks the one that moves.   *)
EXTENDS DeadlockManager, TLC

LOCAL INSTANCE SequencesExt

CONSTANTS
  r1, r2,
  N,                                  \* nodes of the graphs that are searched
  q1, q2, Owner, NoPid, Ram, Sizes, Policies,   \* of the memory manager
  Proc, Scheduled, Tasks, Cores, MaxRows, MaxTicks, MaxEvents    \* of the dashboard

MCTotal == r1 :> 1 @@ r2 :> 2

Symmetry == Permutations(Pid) \cup Permutations(Owner)

VARIABLES
  part, graph, roots, cycles, blocks, policy, secure_locked,
  now, current_process, todo, bus, signals, reading, shown, current, strip, deadlocked_pids, rows,
  tick_lbl, dl_lbl, resets, stress, open, ticks, raised, last, victims, behind, topic, events

Detector == INSTANCE DeadlockDetector
Memory == INSTANCE MemoryManager WITH Pid <- Owner, Total <- Ram
Monitor == INSTANCE KernelMonitor WITH Pid <- Proc

ASSUME Memory!MemAssumption

searchVars == <<graph, roots, cycles>>
memoryVars == <<blocks, policy, secure_locked>>
monitorTuple ==
  <<now, current_process, todo, bus, signals, reading, shown, current, strip, deadlocked_pids, rows,
    tick_lbl, dl_lbl, resets, stress, open, ticks, raised, last, victims, behind, topic, events>>

MCTasks == <<8, 9>>

\* The cycle search, on every graph of a few processes and for every order of its roots.
\* Successor sets are iterated in ascending order: renaming the processes turns any other
\* fixed order into this one.
Nodes == 1..N
WaitGraphs == {g \in [Nodes -> SUBSET Nodes] : \A n \in Nodes : n \notin g[n]}
Ascending == [i \in Nodes |-> i]
Unsearched == <<"unsearched">>

SearchInit ==
  /\ graph \in WaitGraphs
  /\ roots \in SetToSeqs(Nodes)
  /\ cycles = Unsearched

Search ==
  /\ cycles = Unsearched
  /\ cycles' = Detector!Detect(graph, roots, Ascending)
  /\ UNCHANGED <<graph, roots>>

\* A part that does not move starts in one of its states only.
MCInit ==
  /\ part \in {"table", "search", "memory", "monitor"} /\ Init
  /\ IF part = "search" THEN SearchInit
     ELSE graph = [n \in 1..N |-> {}] /\ roots = << >> /\ cycles = << >>
  /\ Memory!Init /\ (part # "memory" => policy = "FIRST_FIT")
  /\ Monitor!MonitorInit /\ (part # "monitor" => topic = "cpu")

MCNext ==
  /\ part' = part
  /\ \/ part = "table" /\ Next /\ UNCHANGED <<searchVars, memoryVars, monitorTuple>>
     \/ part = "search" /\ Search /\ UNCHANGED <<vars, memoryVars, monitorTuple>>
     \/ part = "memory" /\ Memory!Next /\ UNCHANGED <<vars, searchVars, monitorTuple>>
     \/ part = "monitor" /\ Monitor!MonitorNext /\ UNCHANGED <<vars, searchVars, memoryVars>>

MCSpec == MCInit /\ [][MCNext]_<<part, vars, searchVars, memoryVars, monitorTuple>>

\* Every list the search reports is a simple cycle of the wait-for graph (the resolver
\* is never asked to kill a process of something that is no deadlock), and every knot
\* of deadlocked processes is found: whoever is on a cycle can reach, and be reached
\* from, some reported cycle.  Skipping visited nodes may hide a cycle, never the last
\* one of a knot.
FindsEveryKnot ==
  cycles # Unsearched =>
    /\ \A i \in 1..Len(cycles) : Detector!IsCycle(graph, cycles[i])
    /\ \A n \in Detector!OnCycle(graph) : \E i \in 1..Len(cycles) :
         \A m \in ToSet(cycles[i]) :
           Detector!Reaches(graph, n, m) /\ Detector!Reaches(graph, m, n)

\* MemoryManager.BlocksSound: the blocks tile memory, merged, within the quotas, and no
\* secure block outlives a lock.  KernelMonitor.MonitorSound: however late its events come, the
\* dashboard ends with what the kernel announced last, its log leaves no interrupt out, and
\* its alarm goes back to OK.
PartsSound ==
  IF part = "search" THEN FindsEveryKnot
  ELSE IF part = "monitor" THEN Monitor!MonitorSound ELSE Memory!BlocksSound

\* MemoryManager.ImplementsLedger: nobody gains or loses memory but by an operation
\* of its own, or a lock.
ImplementsLedger == Memory!ImplementsLedger
=============================================================================
