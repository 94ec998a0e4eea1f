------------------------------ MODULE Multicore ------------------------------
(***************************************************************************)
(* The core pool (src/system/kernel/multicore_engine.py): which process    *)
(* sits on which virtual core, and the index from processes to cores that  *)
(* release uses.  Every operation runs under the engine's lock.            *)
(*                                                                         *)
(* Utilization is a moving average that only decides which of several      *)
(* cores is chosen; it is abstracted to a free choice among them.  Cores   *)
(* are numbered from 1 here, from 0 in the code.                           *)
(***************************************************************************)
EXTENDS Integers, Sequences, FiniteSets

CONSTANTS
  Pid,        \* process identifiers
  NoPid,      \* an idle core
  InitCores,  \* cores at start
  MaxCores    \* bound on the core count

ASSUME NoPidAssumption == NoPid \notin Pid
ASSUME CoresAssumption == InitCores \in 1..MaxCores /\ MaxCores \in Nat

NoCore == 0   \* no entry in _proc_core

VARIABLES
  cores,      \* cores[c] is the current_process of core c
  proc_core   \* _proc_core: the core the index has for a process

mceVars == <<cores, proc_core>>

MceTypeOK ==
  /\ cores \in Seq(Pid \cup {NoPid})
  /\ Len(cores) \in 1..MaxCores
  /\ proc_core \in [Pid -> 0..MaxCores]

MceInit ==
  /\ cores = [c \in 1..InitCores |-> NoPid]
  /\ proc_core = [p \in Pid |-> NoCore]

IdleCores == {c \in 1..Len(cores) : cores[c] = NoPid}

Occupies(p) == {c \in 1..Len(cores) : cores[c] = p}

-----------------------------------------------------------------------------
(* Operations *)

\* assign, on pools given as arguments so that a caller may have changed them in
\* the same step: an idle core, or whichever is least used when all are busy.
AssignChoices(pool) ==
  LET idle == {c \in 1..Len(pool) : pool[c] = NoPid}
  IN  IF idle # {} THEN idle ELSE 1..Len(pool)

AssignedCores(pool, p, c) == [pool EXCEPT ![c] = p]

AssignedIndex(pool, index, p, c) ==
  [q \in Pid |-> IF q = p THEN c ELSE IF q = pool[c] THEN NoCore ELSE index[q]]

Assign(p) ==
  \E c \in AssignChoices(cores) :
    /\ cores' = AssignedCores(cores, p, c)
    /\ proc_core' = AssignedIndex(cores, proc_core, p, c)

\* release: the entry is popped before the core is looked up, and the core is
\* cleared only if the process is still on it.
ReleasedCores(p) ==
  [c \in 1..Len(cores) |-> IF c = proc_core[p] /\ cores[c] = p THEN NoPid ELSE cores[c]]
ReleasedIndex(p) == [proc_core EXCEPT ![p] = NoCore]

\* self.cores[core_id] raises IndexError: the entry names a core that is gone.
ReleaseRaises(p) == proc_core[p] > Len(cores)

Release(p) ==
  /\ cores' = ReleasedCores(p)
  /\ proc_core' = ReleasedIndex(p)

\* Mutant of _migrate: the index keeps the old core.
MigratedIndexStale(p, to) == proc_core
MigratedIndex(p, to) == [proc_core EXCEPT ![p] = to]

\* rebalance, when the spread exceeds the threshold: the process of the busiest
\* core moves to the idlest one, whether or not that one has a process.
Rebalance ==
  \E busiest, idlest \in 1..Len(cores) :
    /\ busiest # idlest
    /\ cores[busiest] # NoPid
    /\ cores' = [cores EXCEPT ![busiest] = NoPid, ![idlest] = cores[busiest]]
    /\ proc_core' = MigratedIndex(cores[busiest], idlest)

GrowTo(n) ==
  /\ n > Len(cores)
  /\ cores' = [c \in 1..n |-> IF c <= Len(cores) THEN cores[c] ELSE NoPid]
  /\ UNCHANGED proc_core

\* The loop over the removed cores: each process in turn gets an idle core that
\* remains, and from the first that finds none on they are unassigned.
Reseating(place, idle) ==
  /\ \A c, d \in DOMAIN place :
       c < d /\ place[d] # NoCore => place[c] # NoCore /\ place[c] # place[d]
  /\ (\E c \in DOMAIN place : place[c] = NoCore)
       => \A d \in idle : \E c \in DOMAIN place : place[c] = d

ShrinkTo(n) ==
  /\ n < Len(cores)
  /\ LET leaving == {c \in (n + 1)..Len(cores) : cores[c] # NoPid}
         idle    == {c \in 1..n : cores[c] = NoPid}
     IN  \E place \in [leaving -> idle \cup {NoCore}] :
           /\ Reseating(place, idle)
           /\ cores' = [c \in 1..n |-> IF \E d \in leaving : place[d] = c
                                       THEN cores[CHOOSE d \in leaving : place[d] = c]
                                       ELSE cores[c]]
           /\ proc_core' = [p \in Pid |-> IF \E c \in leaving : cores[c] = p
                                          THEN place[CHOOSE c \in leaving : cores[c] = p]
                                          ELSE proc_core[p]]

\* A count below one is refused.
SetCoreCount(n) == n > 0 /\ (GrowTo(n) \/ ShrinkTo(n))

\* The engine with its callers: the scheduler assigns only processes it has taken
\* from its queue, which are on no core.
MceNext ==
  \/ \E p \in Pid : (Occupies(p) = {} /\ Assign(p)) \/ Release(p)
  \/ Rebalance
  \/ \E n \in 0..MaxCores : SetCoreCount(n)

MceSpec == MceInit /\ [][MceNext]_mceVars

-----------------------------------------------------------------------------
(* Properties *)

\* The occupant of a core is indexed there, so that a release finds it.  In
\* particular no process sits on two cores, whatever migrates or is resized.
OccupantIndexed ==
  \A c \in 1..Len(cores) : cores[c] # NoPid => proc_core[cores[c]] = c
=============================================================================
