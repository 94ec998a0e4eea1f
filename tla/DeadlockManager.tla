--------------------------- MODULE DeadlockManager ---------------------------
(***************************************************************************)
(* The resource table of the simulated kernel                              *)
(* (src/system/kernel/deadlock_manager.py, _resource_types.py).            *)
(*                                                                         *)
(* Processes ask for units of multi-unit resources, wait in a FIFO queue   *)
(* when none is free, and are handed a unit by whoever releases one.  The  *)
(* death of a process reaches the table as an asynchronous PROC_STOPPED    *)
(* event, whose handler is release_all.  Every public method runs under    *)
(* one re-entrant lock, so each is one action; cycle detection and         *)
(* recovery, which take the lock several times, are in DeadlockRecovery.   *)
(*                                                                         *)
(* request and release do not ask whether their caller lives.  Nothing in  *)
(* the repository calls them; that a process makes its calls while it is   *)
(* alive is an assumption about the callers (the first guard of both).     *)
(*                                                                         *)
(* held_by is a list in the code whose order is never read: it is a set    *)
(* here.  waited_by is a queue and stays a sequence.                       *)
(***************************************************************************)
EXTENDS Integers, Sequences, FiniteSets

CONSTANTS
  Pid,          \* process identifiers (never reused: PM draws them from a counter)
  Rid,          \* resource identifiers
  Total,        \* units of each resource, the `total` given to add_resource
  Prio,         \* the priorities processes ask with
  DefaultPrio,  \* what the code reads for a process without an entry (5)
  Reentrant     \* may a process ask for a resource it already holds or awaits?

ASSUME PidAssumption       == IsFiniteSet(Pid)
ASSUME TotalAssumption     == Total \in [Rid -> Nat]
ASSUME PrioAssumption      == Prio \subseteq Nat \ {0} /\ DefaultPrio \in Prio
ASSUME ReentrantAssumption == Reentrant \in BOOLEAN

NoBase == 0     \* no entry in _base_priority

VARIABLES
  resources,      \* keys of self.resources
  available,      \* Resource.available
  held_by,        \* Resource.held_by
  waited_by,      \* Resource.waited_by
  held,           \* self._held: units of a resource a process holds, 0 for no entry
  priority,       \* self._priority, DefaultPrio for no entry
  base_priority,  \* self._base_priority, NoBase for no entry
  proc            \* the process in PM: alive, stopped with its event still
                  \* queued on the bus, or gone (event handled)

vars == <<resources, available, held_by, waited_by, held, priority,
          base_priority, proc>>

TypeOK ==
  /\ resources \subseteq Rid
  /\ available \in [Rid -> Nat]
  /\ held_by \in [Rid -> SUBSET Pid]
  /\ waited_by \in [Rid -> Seq(Pid)]
  /\ held \in [Pid -> [Rid -> Nat]]
  /\ priority \in [Pid -> Prio]
  /\ base_priority \in [Pid -> Prio \cup {NoBase}]
  /\ proc \in [Pid -> {"alive", "stopping", "gone"}]

Init ==
  /\ resources = {}
  /\ available = [r \in Rid |-> 0]
  /\ held_by = [r \in Rid |-> {}]
  /\ waited_by = [r \in Rid |-> <<>>]
  /\ held = [p \in Pid |-> [r \in Rid |-> 0]]
  /\ priority = [p \in Pid |-> DefaultPrio]
  /\ base_priority = [p \in Pid |-> NoBase]
  /\ proc = [p \in Pid |-> "alive"]

-----------------------------------------------------------------------------
(* Helpers *)

Waits(p, r) == \E i \in 1..Len(waited_by[r]) : waited_by[r][i] = p

\* Mutant: a dead process stays in the queues.
LeftInQueue(q, p) == q

\* list.remove(p) on a queue that holds p at most once.
Without(q, p) ==
  IF \E i \in 1..Len(q) : q[i] = p
  THEN LET k == CHOOSE i \in 1..Len(q) : q[i] = p
       IN  [j \in 1..(Len(q) - 1) |-> IF j < k THEN q[j] ELSE q[j + 1]]
  ELSE q

\* Mutants of the hand-off: it is forgotten; it goes to the youngest waiter; the
\* unit is handed over and counted as free; the releaser stays a holder.
HeirForgotten(r) == {}
HeirYoungest(r) ==
  IF waited_by[r] = <<>> THEN {} ELSE {waited_by[r][Len(waited_by[r])]}
AvailableCountedTwice(r) == available[r] + 1

\* Who a released unit of r goes to: the head of the queue, if there is one.
Heir(r) == IF waited_by[r] = <<>> THEN {} ELSE {Head(waited_by[r])}

\* A release gives up one unit; a missing counter reads as 1, so it is the last.
LastUnit(p, r) == held[p][r] <= 1

\* The fields of resource r after p releases one unit of it: the unit goes back,
\* and from there straight to the heir.
HoldersKept(p, r) == held_by[r] \cup Heir(r)
HoldersAfter(p, r) ==
  (IF LastUnit(p, r) THEN held_by[r] \ {p} ELSE held_by[r]) \cup Heir(r)
AvailableAfter(r) == IF Heir(r) = {} THEN available[r] + 1 ELSE available[r]
QueueAfter(r)     == IF Heir(r) = {} THEN waited_by[r] ELSE Tail(waited_by[r])
UnitsAfter(p, r, q) ==
  (IF q # p THEN held[q][r] ELSE IF LastUnit(p, r) THEN 0 ELSE held[p][r] - 1)
    + (IF q \in Heir(r) THEN 1 ELSE 0)

-----------------------------------------------------------------------------
(* Operations *)

AddResource(r) ==
  /\ r \notin resources
  /\ resources' = resources \cup {r}
  /\ available' = [available EXCEPT ![r] = Total[r]]
  /\ held_by' = [held_by EXCEPT ![r] = {}]
  /\ waited_by' = [waited_by EXCEPT ![r] = <<>>]
  /\ UNCHANGED <<held, priority, base_priority, proc>>

RemoveResource(r) ==
  /\ r \in resources
  /\ held_by[r] = {} /\ waited_by[r] = <<>>
  /\ resources' = resources \ {r}
  /\ UNCHANGED <<available, held_by, waited_by, held, priority, base_priority, proc>>

\* The first request of a process fixes its base priority.
EffectivePrio(p, prio) == IF base_priority[p] = NoBase THEN prio ELSE priority[p]

\* Mutant: a unit is granted without looking at the free count.
GrantUnchecked(p, r, prio) ==
  /\ available' = [available EXCEPT ![r] = @ - 1]
  /\ held_by' = [held_by EXCEPT ![r] = @ \cup {p}]
  /\ held' = [held EXCEPT ![p][r] = @ + 1]
  /\ priority' = [priority EXCEPT ![p] = EffectivePrio(p, prio)]
  /\ UNCHANGED waited_by

Grant(p, r, prio) ==
  /\ available[r] > 0
  /\ available' = [available EXCEPT ![r] = @ - 1]
  /\ held_by' = [held_by EXCEPT ![r] = @ \cup {p}]
  /\ held' = [held EXCEPT ![p][r] = @ + 1]
  /\ priority' = [priority EXCEPT ![p] = EffectivePrio(p, prio)]
  /\ UNCHANGED waited_by

Lent(own, current) == IF own > current THEN own ELSE current

\* Nothing free: join the queue once, and lend the priority to every holder.
Enqueue(p, r, prio) ==
  /\ available[r] = 0
  /\ waited_by' = [waited_by EXCEPT ![r] = IF Waits(p, r) THEN @ ELSE Append(@, p)]
  /\ LET own   == EffectivePrio(p, prio)
         known == [priority EXCEPT ![p] = own]
     IN  priority' = [q \in Pid |-> IF q \in held_by[r]
                                    THEN Lent(own, known[q]) ELSE known[q]]
  /\ UNCHANGED <<available, held_by, held>>

\* The first guard is the assumption on callers, no test of the code's; so in Release.
Request(p, r, prio) ==
  /\ proc[p] = "alive"
  /\ r \in resources
  /\ Reentrant \/ (p \notin held_by[r] /\ ~Waits(p, r))
  /\ base_priority' = [base_priority EXCEPT ![p] = IF @ = NoBase THEN prio ELSE @]
  /\ Grant(p, r, prio) \/ Enqueue(p, r, prio)
  /\ UNCHANGED <<resources, proc>>

Release(p, r) ==
  /\ proc[p] = "alive"
  /\ r \in resources /\ p \in held_by[r]
  /\ held' = [q \in Pid |-> [held[q] EXCEPT ![r] = UnitsAfter(p, r, q)]]
  /\ held_by' = [held_by EXCEPT ![r] = HoldersAfter(p, r)]
  /\ available' = [available EXCEPT ![r] = AvailableAfter(r)]
  /\ waited_by' = [waited_by EXCEPT ![r] = QueueAfter(r)]
  /\ priority' = [priority EXCEPT ![p] = IF base_priority[p] = NoBase
                                         THEN @ ELSE base_priority[p]]
  /\ UNCHANGED <<resources, base_priority, proc>>

\* release_all releases one unit of every resource in the process's table, takes
\* the process out of every queue and drops its table.  UNCHANGED: resources, proc.
ReleaseAll(p) ==
  LET freed == {r \in resources : held[p][r] > 0 /\ p \in held_by[r]}
  IN
  /\ held_by' = [r \in Rid |-> IF r \in freed THEN HoldersAfter(p, r) ELSE held_by[r]]
  /\ available' = [r \in Rid |-> IF r \in freed THEN AvailableAfter(r) ELSE available[r]]
  /\ waited_by' = [r \in Rid |-> Without(IF r \in freed THEN QueueAfter(r)
                                         ELSE waited_by[r], p)]
  /\ held' = [q \in Pid |-> [r \in Rid |->
               IF q = p THEN 0
               ELSE IF r \in freed THEN UnitsAfter(p, r, q) ELSE held[q][r]]]
  /\ priority' = [priority EXCEPT ![p] = DefaultPrio]
  /\ base_priority' = [base_priority EXCEPT ![p] = NoBase]

\* PM.kill, from any thread: the process stops at once, its PROC_STOPPED event
\* waits in the bus queue.
Kill(p) ==
  /\ proc[p] = "alive"
  /\ proc' = [proc EXCEPT ![p] = "stopping"]
  /\ UNCHANGED <<resources, available, held_by, waited_by, held, priority, base_priority>>

OnProcDeath(p) ==
  /\ proc[p] = "stopping"
  /\ ReleaseAll(p)
  /\ proc' = [proc EXCEPT ![p] = "gone"]
  /\ UNCHANGED resources

Next ==
  \/ \E r \in Rid : AddResource(r) \/ RemoveResource(r)
  \/ \E p \in Pid, r \in Rid : Release(p, r) \/ \E prio \in Prio : Request(p, r, prio)
  \/ \E p \in Pid : Kill(p) \/ OnProcDeath(p)

Spec == Init /\ [][Next]_vars

-----------------------------------------------------------------------------
(* Properties *)

\* A process waits for a resource only while no unit of it is free: a unit that
\* comes back goes to the queue inside release, never to the free count.
NoIdleUnit == \A r \in resources : waited_by[r] # <<>> => available[r] = 0

\* What is free and who holds add up to the total.  Holds when no process asks for a
\* resource it already holds or awaits; UnitsAccountedFor says what holds otherwise.
UnitsConserved ==
  \A r \in resources : available[r] + Cardinality(held_by[r]) = Total[r]

\* The units of r that the tables of processes count, and all that are accounted for.
Counted(r) == UNION {{p} \X (1..held[p][r]) : p \in Pid}
Units(r) == available[r] + Cardinality(Counted(r))

\* release_all gives back one unit of what p holds and forgets the others; that one too,
\* if p is first in the queue and is handed it while its table is being dropped.
Forgotten(p, r) ==
  IF held[p][r] = 0 THEN 0 ELSE IF Heir(r) = {p} THEN held[p][r] ELSE held[p][r] - 1

Account ==
  \A r \in resources \cap resources' :
    LET lost == {p \in Pid : proc[p] = "stopping" /\ proc'[p] = "gone" /\ Forgotten(p, r) > 0}
    IN  IF lost = {} THEN Units(r)' = Units(r)
        ELSE \A p \in lost : Units(r)' = Units(r) - Forgotten(p, r)

\* Units are neither made up nor lost by any operation but one: only the clean-up after a
\* death loses units, and exactly those its process had beyond the one it gives back.
UnitsAccountedFor == [][Account]_vars

\* Whatever the processes ask for, resources are never granted beyond the total:
\* the free count and the distinct holders never exceed it.
NeverOverCommitted ==
  \A r \in resources : available[r] + Cardinality(held_by[r]) <= Total[r]

\* Once its PROC_STOPPED or PROC_COMPLETED event has been handled, a process holds
\* nothing, awaits nothing, and no later hand-off can give it a unit.
GoneHoldNothing ==
  \A p \in Pid, r \in resources :
    proc[p] = "gone" => p \notin held_by[r] /\ ~Waits(p, r)

\* The two views of a holding agree, also for who holds several units or waits for more:
\* until its death is handled a process is listed as a holder exactly while its table
\* counts a unit, and from then on its table counts none.
ViewsAgree ==
  \A p \in Pid, r \in resources :
    IF proc[p] = "gone" THEN held[p][r] = 0 ELSE p \in held_by[r] <=> held[p][r] > 0

\* An inherited priority is a loan: a process never runs below its own.
NeverBelowBase ==
  \A p \in Pid : base_priority[p] # NoBase => priority[p] >= base_priority[p]

\* The table stays within its types, totals and loans, whatever the processes ask for
\* and give back, and in whatever order deaths are noticed.
TableSound == TypeOK /\ NeverOverCommitted /\ NeverBelowBase

\* No one overtakes the queue: while processes wait for a resource, the only one
\* that can become a holder of it is the head of the queue.
NoOvertaking ==
  [][\A r \in resources : waited_by[r] # <<>> =>
        held_by'[r] \ held_by[r] \subseteq {Head(waited_by[r])}]_vars

\* The table implements FifoResources: whatever its counters, hand-offs and clean-ups
\* do, callers see units that go round in the order of the queues.  Holds when no
\* process asks again for what it holds or awaits.
Fifo == INSTANCE FifoResources WITH table <- resources, holders <- held_by, line <- waited_by
ImplementsFifo == Fifo!Spec
=============================================================================
