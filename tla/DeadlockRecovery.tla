--------------------------- MODULE DeadlockRecovery ---------------------------
(***************************************************************************)
(* Detection and recovery over the resource table: auto_resolve of         *)
(* deadlock_manager.py with _deadlock_detector.py and                      *)
(* _deadlock_resolver.py.                                                  *)
(*                                                                         *)
(* The clock thread runs auto_resolve on every tenth tick.  It takes the   *)
(* lock once to detect and once for each cycle to resolve, so other        *)
(* threads' requests, releases and kills fall between these steps and the  *)
(* resolver works on what the graph was.  `todo` is that thread's list of  *)
(* cycles still to resolve.                                                *)
(***************************************************************************)
EXTENDS DeadlockManager, DeadlockDetector, SequencesExt

VARIABLE todo

rvars == <<resources, available, held_by, waited_by, held, priority,
           base_priority, proc, todo>>

\* Pids are numbers: the resolver breaks ties by the larger one.
ASSUME PidsAreNumbers == Pid \subseteq Nat

\* The wait-for graph: a waiter points at every other holder of the resource.
WaitsFor ==
  [p \in Pid |-> {q \in Pid \ {p} : \E r \in resources : Waits(p, r) /\ q \in held_by[r]}]

Deadlocked == OnCycle(WaitsFor)

RInit == Init /\ todo = <<>>

\* The operations of DeadlockManager, from any thread.
Operation == Next /\ UNCHANGED todo

\* The keys of wait_for: the waiters, resource by resource.
RootsInOrder(rids) == FlattenSeq([i \in DOMAIN rids |-> waited_by[rids[i]]])

\* _on_clock_tick on a multiple of the interval: the first half of auto_resolve.
\* A tick that finds no cycle changes nothing and is left out.  The resources come
\* in the order they were added; a set of small integers is iterated ascending.
DetectCycles ==
  /\ todo = <<>>
  /\ \E graph \in {WaitsFor}, roots \in {RootsInOrder(rids) : rids \in SetToSeqs(resources)} :
       /\ OnCycle(graph) # {}
       /\ todo' = Detect(graph, roots, SetToSortSeq(Pid, <))
  /\ UNCHANGED vars

\* min(cycle, key = (priority, -pid))
Victim(cycle) ==
  CHOOSE v \in ToSet(cycle) : \A p \in ToSet(cycle) \ {v} :
    priority[v] < priority[p] \/ (priority[v] = priority[p] /\ v > p)

\* The second half, once per cycle: release_all and PM.kill under the lock.  A
\* process that is already stopped is not killed again; its table is cleared.
ResolveCycle ==
  /\ todo # <<>>
  /\ LET v == Victim(Head(todo))
     IN  /\ ReleaseAll(v)
         /\ proc' = [proc EXCEPT ![v] = IF @ = "alive" THEN "stopping" ELSE @]
  /\ todo' = Tail(todo)
  /\ UNCHANGED resources

RNext == Operation \/ DetectCycles \/ ResolveCycle

\* The clock thread keeps ticking and runs the handler to its end; the bus worker
\* delivers every queued death event.
Fairness ==
  /\ WF_rvars(DetectCycles)
  /\ WF_rvars(ResolveCycle)
  /\ \A p \in Pid : WF_rvars(OnProcDeath(p) /\ UNCHANGED todo)

RSpec == RInit /\ [][RNext]_rvars /\ Fairness

-----------------------------------------------------------------------------
(* Properties *)

\* A deadlocked process does not stay deadlocked: while the clock ticks, some
\* victim of every cycle it is on is found and its units are handed on.
DeadlocksEnd == \A p \in Pid : p \in Deadlocked ~> p \notin Deadlocked

\* Total of the instance that is checked, whose resources are 1, with a single unit, and 2, with
\* a spare one, so that a holder can take two.
UnitsByNumber == [r \in Rid |-> r]
=============================================================================
