--------------------------- MODULE Scheduler_proofs ---------------------------
(***************************************************************************)
(* Proofs about the scheduler with its process table and core pool, for    *)
(* any processes, bursts, priorities and cores: types, one place for each  *)
(* process, no return after a handled death (SchedulerSound), and one core *)
(* for each (CoresIndexed).                                                *)
(*                                                                         *)
(* The argument follows a process through its life.  Nobody is in the      *)
(* scheduler before its birth is announced; the announcement is the first  *)
(* of its events in the queue and comes once; so what a handled death has  *)
(* taken out is not announced again, and only the scheduler itself puts a  *)
(* process back into its queue.                                            *)
(***************************************************************************)
EXTENDS Scheduler, FiniteNumbers, SequenceTheorems

-----------------------------------------------------------------------------
(* The core pool by itself, with any client that assigns only processes    *)
(* that are on no core                                                     *)

\* MceTypeOK with sequences read as functions, which is what the steps update.
PoolOK ==
  /\ Len(cores) \in 1..MaxCores
  /\ cores \in [1..Len(cores) -> Pid \cup {NoPid}]
  /\ proc_core \in [Pid -> 0..MaxCores]

LEMMA PoolIsTyped == PoolOK => MceTypeOK
  BY DEF PoolOK, MceTypeOK

\* The inductive invariant: the types and the agreement itself.
PoolInv == PoolOK /\ OccupantIndexed

\* A pool written as a function on 1..n is a sequence of length n.
LEMMA PoolLength ==
  ASSUME NEW n \in Nat, NEW f \in [1..n -> Pid \cup {NoPid}]
  PROVE  Len(f) = n /\ f \in Seq(Pid \cup {NoPid})
  OBVIOUS

LEMMA InitPool == MceInit => PoolInv
<1> SUFFICES ASSUME MceInit PROVE PoolInv
  OBVIOUS
<1>1. InitCores \in Nat /\ InitCores \in 1..MaxCores /\ MaxCores \in Nat
  BY CoresAssumption
<1>2. cores \in [1..InitCores -> Pid \cup {NoPid}]
  BY DEF MceInit
<1>3. Len(cores) = InitCores
  BY <1>1, <1>2, PoolLength
<1>4. PoolOK
  BY <1>1, <1>2, <1>3 DEF PoolOK, MceInit, NoCore
<1>5. OccupantIndexed
  BY <1>3 DEF MceInit, OccupantIndexed
<1> QED
  BY <1>4, <1>5 DEF PoolInv

LEMMA AssignKeeps ==
  ASSUME PoolInv, NEW p \in Pid, Occupies(p) = {}, Assign(p)
  PROVE  PoolInv'
<1>1. PICK c \in AssignChoices(cores) :
        /\ cores' = AssignedCores(cores, p, c)
        /\ proc_core' = AssignedIndex(cores, proc_core, p, c)
  BY DEF Assign
<1>2. c \in 1..Len(cores) /\ MaxCores \in Nat /\ Len(cores) \in 1..MaxCores
  BY CoresAssumption DEF AssignChoices, PoolInv, PoolOK
<1>3. cores' \in [1..Len(cores) -> Pid \cup {NoPid}] /\ Len(cores') = Len(cores)
  <2>1. cores' \in [1..Len(cores) -> Pid \cup {NoPid}]
    BY <1>1, <1>2 DEF AssignedCores, PoolInv, PoolOK
  <2> QED
    BY <2>1, <1>2, PoolLength
<1>4. PoolOK'
  <2>1. proc_core' \in [Pid -> 0..MaxCores]
    BY <1>1, <1>2 DEF AssignedIndex, PoolInv, PoolOK, NoCore
  <2> QED
    BY <2>1, <1>2, <1>3 DEF PoolOK
<1>5. OccupantIndexed'
  <2> SUFFICES ASSUME NEW d \in 1..Len(cores), cores'[d] # NoPid
               PROVE  proc_core'[cores'[d]] = d
    BY <1>3 DEF OccupantIndexed
  <2>1. CASE d = c
    BY <2>1, <1>1, <1>2 DEF AssignedCores, AssignedIndex, PoolInv, PoolOK
  <2>2. CASE d # c
    <3>1. cores'[d] = cores[d] /\ cores[d] \in Pid /\ proc_core[cores[d]] = d
      BY <2>2, <1>1, <1>2 DEF AssignedCores, PoolInv, PoolOK, OccupantIndexed
    <3>2. cores[d] # p
      BY DEF Occupies
    <3>3. cores[d] # cores[c]
      BY <2>2, <3>1, <1>2 DEF PoolInv, OccupantIndexed
    <3> QED
      BY <3>1, <3>2, <3>3, <1>1 DEF AssignedIndex
  <2> QED
    BY <2>1, <2>2
<1> QED
  BY <1>4, <1>5 DEF PoolInv

LEMMA ReleaseTyped ==
  ASSUME PoolOK, NEW p \in Pid, Release(p)
  PROVE  PoolOK' /\ Len(cores') = Len(cores)
<1>1. MaxCores \in Nat /\ Len(cores) \in 1..MaxCores
  BY CoresAssumption DEF PoolOK
<1>2. cores' \in [1..Len(cores) -> Pid \cup {NoPid}] /\ Len(cores') = Len(cores)
  <2>1. cores' \in [1..Len(cores) -> Pid \cup {NoPid}]
    BY DEF Release, ReleasedCores, PoolOK
  <2> QED
    BY <2>1, <1>1, PoolLength
<1> QED
  BY <1>1, <1>2 DEF PoolOK, Release, ReleasedIndex, NoCore

LEMMA ReleaseKeeps ==
  ASSUME PoolInv, NEW p \in Pid, Release(p)
  PROVE  PoolInv'
<1>2. PoolOK' /\ Len(cores') = Len(cores)
  BY ReleaseTyped DEF PoolInv
<1>4. OccupantIndexed'
  <2> SUFFICES ASSUME NEW d \in 1..Len(cores), cores'[d] # NoPid
               PROVE  proc_core'[cores'[d]] = d
    BY <1>2 DEF OccupantIndexed
  <2>1. cores'[d] = cores[d] /\ cores[d] \in Pid /\ proc_core[cores[d]] = d
    BY DEF Release, ReleasedCores, PoolInv, PoolOK, OccupantIndexed
  <2>2. cores[d] # p
    BY <2>1 DEF Release, ReleasedCores
  <2> QED
    BY <2>1, <2>2 DEF Release, ReleasedIndex, PoolInv, PoolOK
<1> QED
  BY <1>2, <1>4 DEF PoolInv

LEMMA RebalanceTyped ==
  ASSUME PoolOK, Rebalance
  PROVE  PoolOK' /\ Len(cores') = Len(cores)
<1>1. PICK b \in 1..Len(cores), i \in 1..Len(cores) :
        /\ cores[b] # NoPid
        /\ cores' = [cores EXCEPT ![b] = NoPid, ![i] = cores[b]]
        /\ proc_core' = MigratedIndex(cores[b], i)
  BY DEF Rebalance
<1>2. MaxCores \in Nat /\ Len(cores) \in 1..MaxCores /\ cores[b] \in Pid
  BY <1>1, CoresAssumption DEF PoolOK
<1>3. cores' \in [1..Len(cores) -> Pid \cup {NoPid}] /\ Len(cores') = Len(cores)
  <2>1. cores' \in [1..Len(cores) -> Pid \cup {NoPid}]
    BY <1>1 DEF PoolOK
  <2> QED
    BY <2>1, <1>2, PoolLength
<1> QED
  BY <1>1, <1>2, <1>3 DEF PoolOK, MigratedIndex

LEMMA RebalanceKeeps ==
  ASSUME PoolInv, Rebalance
  PROVE  PoolInv'
<1>1. PICK b \in 1..Len(cores), i \in 1..Len(cores) :
        /\ b # i
        /\ cores[b] # NoPid
        /\ cores' = [cores EXCEPT ![b] = NoPid, ![i] = cores[b]]
        /\ proc_core' = MigratedIndex(cores[b], i)
  BY DEF Rebalance
<1>2. MaxCores \in Nat /\ Len(cores) \in 1..MaxCores /\ cores[b] \in Pid
  BY <1>1, CoresAssumption DEF PoolInv, PoolOK
<1>3. PoolOK' /\ Len(cores') = Len(cores)
  BY RebalanceTyped DEF PoolInv
<1>5. OccupantIndexed'
  <2> SUFFICES ASSUME NEW d \in 1..Len(cores), cores'[d] # NoPid
               PROVE  proc_core'[cores'[d]] = d
    BY <1>3 DEF OccupantIndexed
  <2>1. CASE d = i
    BY <2>1, <1>1, <1>2 DEF MigratedIndex, PoolInv, PoolOK
  <2>2. CASE d # i
    <3>1. cores'[d] = cores[d] /\ d # b /\ proc_core[cores[d]] = d /\ cores[d] \in Pid
      BY <2>2, <1>1 DEF PoolInv, PoolOK, OccupantIndexed
    <3>2. cores[d] # cores[b]
      BY <3>1, <1>1 DEF PoolInv, OccupantIndexed
    <3> QED
      BY <3>1, <3>2, <1>1 DEF MigratedIndex, PoolInv, PoolOK
  <2> QED
    BY <2>1, <2>2
<1> QED
  BY <1>3, <1>5 DEF PoolInv

LEMMA GrowTyped ==
  ASSUME PoolOK, NEW n \in 0..MaxCores, n > 0, GrowTo(n)
  PROVE  PoolOK' /\ Len(cores') = n
<1>1. MaxCores \in Nat /\ n \in 1..MaxCores /\ Len(cores) \in 1..MaxCores
  BY CoresAssumption DEF PoolOK
<1>2. cores' \in [1..n -> Pid \cup {NoPid}] /\ Len(cores') = n
  <2>1. cores' \in [1..n -> Pid \cup {NoPid}]
    BY <1>1 DEF GrowTo, PoolOK
  <2> QED
    BY <2>1, <1>1, PoolLength
<1> QED
  BY <1>1, <1>2 DEF PoolOK, GrowTo

LEMMA GrowKeeps ==
  ASSUME PoolInv, NEW n \in 0..MaxCores, n > 0, GrowTo(n)
  PROVE  PoolInv'
<1>1. MaxCores \in Nat /\ n \in 1..MaxCores /\ Len(cores) \in 1..MaxCores
  BY CoresAssumption DEF PoolInv, PoolOK
<1>2. PoolOK' /\ Len(cores') = n
  BY GrowTyped DEF PoolInv
<1>4. OccupantIndexed'
  BY <1>1, <1>2 DEF OccupantIndexed, PoolInv, PoolOK, GrowTo
<1> QED
  BY <1>2, <1>4 DEF PoolInv

LEMMA ShrinkTyped ==
  ASSUME PoolOK, NEW n \in 0..MaxCores, n > 0, ShrinkTo(n)
  PROVE  PoolOK' /\ Len(cores') = n
<1> DEFINE leaving == {c \in (n + 1)..Len(cores) : cores[c] # NoPid}
           idle    == {c \in 1..n : cores[c] = NoPid}
<1>1. MaxCores \in Nat /\ n \in 1..MaxCores /\ Len(cores) \in 1..MaxCores /\ n < Len(cores)
  BY CoresAssumption DEF PoolOK, ShrinkTo
<1>2. PICK place \in [leaving -> idle \cup {NoCore}] :
        /\ Reseating(place, idle)
        /\ cores' = [c \in 1..n |-> IF \E d \in leaving : place[d] = c
                                    THEN cores[CHOOSE d \in leaving : place[d] = c]
                                    ELSE cores[c]]
        /\ proc_core' = [p \in Pid |-> IF \E c \in leaving : cores[c] = p
                                       THEN place[CHOOSE c \in leaving : cores[c] = p]
                                       ELSE proc_core[p]]
  BY DEF ShrinkTo
<1>3. \A c \in leaving : c \in 1..Len(cores) /\ c > n /\ cores[c] \in Pid
  BY <1>1 DEF PoolOK
<1>4. \A c \in 1..n : c \in 1..Len(cores) /\ c \notin leaving
  BY <1>1
<1> HIDE DEF leaving
<1>5. cores' \in [1..n -> Pid \cup {NoPid}] /\ Len(cores') = n
  <2>1. cores' \in [1..n -> Pid \cup {NoPid}]
    <3> SUFFICES ASSUME NEW c \in 1..n
                 PROVE  (IF \E d \in leaving : place[d] = c
                         THEN cores[CHOOSE d \in leaving : place[d] = c]
                         ELSE cores[c]) \in Pid \cup {NoPid}
      BY <1>2
    <3> QED
      BY <1>3, <1>4 DEF PoolOK
  <2> QED
    BY <2>1, <1>1, PoolLength
<1>6. PoolOK'
  <2>1. proc_core' \in [Pid -> 0..MaxCores]
    <3> SUFFICES ASSUME NEW p \in Pid
                 PROVE  (IF \E c \in leaving : cores[c] = p
                         THEN place[CHOOSE c \in leaving : cores[c] = p]
                         ELSE proc_core[p]) \in 0..MaxCores
      BY <1>2
    <3>1. \A c \in leaving : place[c] \in 0..MaxCores
      BY <1>1, <1>2 DEF NoCore
    <3> QED
      BY <3>1 DEF PoolOK
  <2> QED
    BY <2>1, <1>1, <1>5 DEF PoolOK
<1> QED
  BY <1>5, <1>6

LEMMA ShrinkKeeps ==
  ASSUME PoolInv, NEW n \in 0..MaxCores, n > 0, ShrinkTo(n)
  PROVE  PoolInv'
<1> DEFINE leaving == {c \in (n + 1)..Len(cores) : cores[c] # NoPid}
           idle    == {c \in 1..n : cores[c] = NoPid}
<1>1. MaxCores \in Nat /\ n \in 1..MaxCores /\ Len(cores) \in 1..MaxCores /\ n < Len(cores)
  BY CoresAssumption DEF PoolInv, PoolOK, ShrinkTo
<1>2. PICK place \in [leaving -> idle \cup {NoCore}] :
        /\ Reseating(place, idle)
        /\ cores' = [c \in 1..n |-> IF \E d \in leaving : place[d] = c
                                    THEN cores[CHOOSE d \in leaving : place[d] = c]
                                    ELSE cores[c]]
        /\ proc_core' = [p \in Pid |-> IF \E c \in leaving : cores[c] = p
                                       THEN place[CHOOSE c \in leaving : cores[c] = p]
                                       ELSE proc_core[p]]
  BY DEF ShrinkTo
<1>3. \A c \in leaving : c \in 1..Len(cores) /\ c > n /\ cores[c] \in Pid
                         /\ proc_core[cores[c]] = c
  BY <1>1 DEF PoolInv, PoolOK, OccupantIndexed
<1>4. \A c \in 1..n : c \in 1..Len(cores) /\ c \notin leaving
  BY <1>1
<1> HIDE DEF leaving
<1>5. PoolOK' /\ Len(cores') = n
  BY ShrinkTyped DEF PoolInv
<1>7. OccupantIndexed'
  <2> SUFFICES ASSUME NEW c \in 1..n, cores'[c] # NoPid
               PROVE  proc_core'[cores'[c]] = c
    BY <1>5 DEF OccupantIndexed
  <2>1. CASE \E d \in leaving : place[d] = c
    <3>1. PICK d \in leaving : cores'[c] = cores[d] /\ place[d] = c
      BY <2>1, <1>2
    <3>2. \A e \in leaving : cores[e] = cores[d] => e = d
      BY <1>3, <3>1
    <3> QED
      BY <3>1, <3>2, <1>2, <1>3
  <2>2. CASE ~ \E d \in leaving : place[d] = c
    <3>1. cores'[c] = cores[c] /\ cores[c] \in Pid /\ proc_core[cores[c]] = c
      BY <2>2, <1>2, <1>4 DEF PoolInv, PoolOK, OccupantIndexed
    <3>2. ~ \E d \in leaving : cores[d] = cores[c]
      BY <3>1, <1>3, <1>1
    <3> QED
      BY <3>1, <3>2, <1>2
  <2> QED
    BY <2>1, <2>2
<1> QED
  BY <1>5, <1>7 DEF PoolInv

LEMMA NextKeeps == PoolInv /\ [MceNext]_mceVars => PoolInv'
<1> SUFFICES ASSUME PoolInv, [MceNext]_mceVars PROVE PoolInv'
  OBVIOUS
<1>1. CASE \E p \in Pid : Occupies(p) = {} /\ Assign(p)
  BY <1>1, AssignKeeps
<1>2. CASE \E p \in Pid : Release(p)
  BY <1>2, ReleaseKeeps
<1>3. CASE Rebalance
  BY <1>3, RebalanceKeeps
<1>4. CASE \E n \in 0..MaxCores : SetCoreCount(n)
  BY <1>4, GrowKeeps, ShrinkKeeps DEF SetCoreCount
<1>5. CASE UNCHANGED mceVars
  BY <1>5 DEF mceVars, PoolInv, PoolOK, OccupantIndexed
<1> QED
  BY <1>1, <1>2, <1>3, <1>4, <1>5 DEF MceNext

LEMMA PoolInvariant == MceSpec => []PoolInv
<1> QED
  BY InitPool, NextKeeps, PTL DEF MceSpec

\* The pool keeps its size between one core and the maximum, its cores hold
\* processes, and the index names cores (MulticoreEngine's cores and _proc_core).
THEOREM MceTyping == MceSpec => []MceTypeOK
<1> QED
  BY PoolInvariant, PoolIsTyped, PTL DEF PoolInv

\* Whatever is assigned, released, migrated or resized, a process on a core is
\* indexed there, so release(pid) clears the core it is on.
THEOREM OccupantsAreIndexed == MceSpec => []OccupantIndexed
<1> QED
  BY PoolInvariant, PTL DEF PoolInv

\* Hence no process sits on two cores.
OnOneCore == \A c, d \in 1..Len(cores) : cores[c] # NoPid /\ cores[c] = cores[d] => c = d

THEOREM NobodyOnTwoCores == MceSpec => []OnOneCore
<1>1. OccupantIndexed => OnOneCore
  BY DEF OccupantIndexed, OnOneCore
<1> QED
  BY <1>1, OccupantsAreIndexed, PTL

-----------------------------------------------------------------------------
(* The inductive invariant                                                 *)

Statuses == {"unborn", "running", "ready", "terminated", "completed", "stopped", "reaped"}

EventRecords == [kind : {"spawned", "stopped", "completed"}, pid : Pid]

Jobs ==
  {j \in [burst : Nat, remaining : Nat, priority : 1..MaxPrio, waited : 0..(AgingThreshold - 1),
          budget : Nat, executed : Nat, shared : BOOLEAN] : j.remaining <= j.burst}

Typed ==
  /\ PoolOK
  /\ ready \in Seq(Pid) /\ current \in Pid \cup {NoPid}
  /\ algorithm \in Algorithms /\ quantum_ticks \in Nat
  /\ job \in [Pid -> Jobs] /\ status \in [Pid -> Statuses]
  /\ events \in Seq(EventRecords)
  /\ dispatched \in Pid \cup {NoPid} /\ handled \subseteq Pid /\ panicked \in BOOLEAN

Unborn(p) == status[p] = "unborn"
Announced(p) == \E i \in 1..Len(events) : events[i].kind = "spawned" /\ events[i].pid = p
Outside(p) == p \notin ToSet(ready) /\ p # current /\ p \notin handled

\* Events are about processes that are born; a birth is announced once, before the
\* process is in the scheduler and before anything else about it.
Births ==
  /\ \A p \in Pid : Unborn(p) => Outside(p)
  /\ \A i \in 1..Len(events) : ~Unborn(events[i].pid)
  /\ \A i \in 1..Len(events) : events[i].kind = "spawned" => Outside(events[i].pid)
  /\ \A i, j \in 1..Len(events) :
       events[i].kind = "spawned" /\ events[j].pid = events[i].pid => i <= j

\* p is on no core of the pool.
Off(pool, p) == \A c \in 1..Len(pool) : pool[c] # p

\* What holds until a panic: one place for each process, out once its death has been
\* handled, and no core yet for those still to be scheduled.
Whole ==
  /\ current \notin ToSet(ready) /\ IsInjective(ready)
  /\ \A p \in handled : p # current /\ p \notin ToSet(ready)
  /\ OccupantIndexed
  /\ \A p \in Pid : p \in ToSet(ready) \/ Unborn(p) \/ Announced(p) => Off(cores, p)

SchedInv == Typed /\ Births /\ (~panicked => Whole)

-----------------------------------------------------------------------------
(* The queue                                                               *)

LEMMA MembersType == ASSUME NEW q \in Seq(Pid) PROVE ToSet(q) \subseteq Pid
BY DEF ToSet

LEMMA AppendMembers ==
  ASSUME NEW q \in Seq(Pid), NEW p \in Pid
  PROVE  /\ Append(q, p) \in Seq(Pid)
         /\ ToSet(Append(q, p)) = ToSet(q) \cup {p}
         /\ IsInjective(q) /\ p \notin ToSet(q) => IsInjective(Append(q, p))
<1>1. /\ Append(q, p) \in Seq(Pid) /\ Len(Append(q, p)) = Len(q) + 1 /\ Len(q) \in Nat
      /\ \A i \in 1..Len(q) : Append(q, p)[i] = q[i]
      /\ Append(q, p)[Len(q) + 1] = p
  BY AppendProperties
<1> DEFINE a == Append(q, p)
<1>2. DOMAIN a = 1..(Len(q) + 1) /\ DOMAIN q = 1..Len(q)
  BY <1>1
<1> HIDE DEF a
<1>3. ToSet(a) = ToSet(q) \cup {p}
  BY <1>1, <1>2 DEF ToSet, a
<1>4. ASSUME IsInjective(q), p \notin ToSet(q) PROVE IsInjective(a)
  BY <1>1, <1>2, <1>4 DEF IsInjective, ToSet, a
<1> QED
  BY <1>1, <1>3, <1>4 DEF a

\* What remove_process keeps: the others, in their order, once each if they were.
LEMMA WithoutMembers ==
  ASSUME NEW q \in Seq(Pid), NEW p
  PROVE  /\ Without(q, p) \in Seq(Pid)
         /\ ToSet(Without(q, p)) \subseteq ToSet(q) \ {p}
         /\ IsInjective(q) => IsInjective(Without(q, p))
<1> DEFINE kept == {i \in 1..Len(q) : q[i] # p}
           Rank(i) == Cardinality({k \in kept : k <= i})
           n == Cardinality(kept)
           w == [j \in 1..n |-> q[CHOOSE i \in kept : Rank(i) = j]]
<1>1. Len(q) \in Nat /\ IsFiniteSet(1..Len(q))
  BY FS_Interval
<1>2. IsFiniteSet(kept) /\ n \in Nat /\ kept \subseteq Nat
  <2>1. kept \in SUBSET (1..Len(q))
    OBVIOUS
  <2> QED
    BY <1>1, <2>1, FS_Subset, FS_CardinalityType
<1>6. ASSUME NEW j \in 1..n PROVE \E i \in kept : Rank(i) = j
  <2> HIDE DEF kept
  <2> QED
    BY <1>2, EveryRank
<1> DEFINE at(j) == CHOOSE i \in kept : Rank(i) = j
<1>7. \A j \in 1..n : at(j) \in kept /\ Rank(at(j)) = j
  <2> HIDE DEF kept, Rank
  <2> QED
    BY <1>6
<1>8. \A i \in kept : i \in 1..Len(q) /\ q[i] \in Pid /\ q[i] # p
  OBVIOUS
<1>9. Without(q, p) = w
  BY DEF Without
<1> HIDE DEF kept, Rank, n
<1>10. w = [j \in 1..n |-> q[at(j)]]
  OBVIOUS
<1> HIDE DEF at, w
<1>11. w \in [1..n -> Pid]
  BY <1>7, <1>8, <1>10
<1>12. w \in Seq(Pid) /\ DOMAIN w = 1..n
  BY <1>2, <1>11, IsASeq
<1>13. ASSUME NEW x \in ToSet(w) PROVE x \in ToSet(q) \ {p}
  <2>1. PICK j \in 1..n : x = q[at(j)]
    BY <1>10, <1>12 DEF ToSet
  <2> QED
    BY <2>1, <1>7, <1>8 DEF ToSet
<1>14. ASSUME IsInjective(q) PROVE IsInjective(w)
  <2> SUFFICES ASSUME NEW j \in 1..n, NEW k \in 1..n, w[j] = w[k] PROVE j = k
    BY <1>12 DEF IsInjective
  <2>1. at(j) = at(k)
    BY <1>7, <1>8, <1>10, <1>14 DEF IsInjective
  <2> QED
    BY <2>1, <1>7
<1> QED
  BY <1>9, <1>12, <1>13, <1>14

LEMMA RemoveFirstMembers ==
  ASSUME NEW q \in Seq(Pid), NEW p \in ToSet(q)
  PROVE  /\ RemoveFirst(q, p) \in Seq(Pid)
         /\ ToSet(RemoveFirst(q, p)) \subseteq ToSet(q)
         /\ IsInjective(q) => p \notin ToSet(RemoveFirst(q, p)) /\ IsInjective(RemoveFirst(q, p))
<1> DEFINE I == {i \in 1..Len(q) : q[i] = p}
           m == Min(I)
           w == SubSeq(q, 1, m - 1) \o SubSeq(q, m + 1, Len(q))
<1>1. Len(q) \in Nat /\ \A i \in 1..Len(q) : q[i] \in Pid
  OBVIOUS
<1>2. I # {}
  BY DEF ToSet
<1>3. m \in 1..Len(q) /\ q[m] = p
  <2>1. IsFiniteSet(I) /\ I \subseteq Nat
    <3>1. IsFiniteSet(1..Len(q)) /\ I \in SUBSET (1..Len(q))
      BY <1>1, FS_Interval
    <3> QED
      BY <3>1, FS_Subset
  <2> HIDE DEF I
  <2>2. \E x \in I : \A y \in I : x <= y
    BY <1>2, <2>1, Smallest
  <2>3. m \in I
    BY <2>2 DEF Min
  <2> QED
    BY <2>3 DEF I
<1>4. RemoveFirst(q, p) = w
  BY <1>2 DEF RemoveFirst, RemoveAt, SelectInSeq
<1> HIDE DEF m
<1>5. /\ Len(SubSeq(q, 1, m - 1)) = m - 1 /\ Len(SubSeq(q, m + 1, Len(q))) = Len(q) - m
      /\ SubSeq(q, 1, m - 1) \in Seq(Pid) /\ SubSeq(q, m + 1, Len(q)) \in Seq(Pid)
      /\ \A j \in 1..(m - 1) : SubSeq(q, 1, m - 1)[j] = q[j]
      /\ \A j \in 1..(Len(q) - m) : SubSeq(q, m + 1, Len(q))[j] = q[m + j]
  BY <1>1, <1>3
<1>6. /\ w \in Seq(Pid) /\ Len(w) = Len(q) - 1 /\ DOMAIN w = 1..(Len(q) - 1)
      /\ \A j \in 1..(Len(q) - 1) : w[j] = IF j < m THEN q[j] ELSE q[j + 1]
  <2> DEFINE before == SubSeq(q, 1, m - 1)
             after  == SubSeq(q, m + 1, Len(q))
  <2>1. before \in Seq(Pid) /\ after \in Seq(Pid) /\ Len(before) = m - 1 /\ Len(after) = Len(q) - m
    BY <1>5
  <2> HIDE DEF before, after
  <2>2. /\ before \o after \in Seq(Pid)
        /\ Len(before \o after) = (m - 1) + (Len(q) - m)
        /\ \A j \in 1..((m - 1) + (Len(q) - m)) :
             (before \o after)[j] = IF j <= m - 1 THEN before[j] ELSE after[j - (m - 1)]
    <3>1. /\ before \o after \in Seq(Pid)
          /\ Len(before \o after) = Len(before) + Len(after)
          /\ \A j \in 1..Len(before) + Len(after) :
               (before \o after)[j] = IF j <= Len(before) THEN before[j] ELSE after[j - Len(before)]
      BY <2>1, ConcatProperties, Zenon
    <3> QED
      BY <2>1, <3>1, Zenon
  <2>3. w = before \o after /\ (m - 1) + (Len(q) - m) = Len(q) - 1
    BY <1>1, <1>3 DEF before, after
  <2> HIDE DEF w
  <2>4. w \in Seq(Pid) /\ Len(w) = Len(q) - 1
    BY <2>2, <2>3
  <2>5. DOMAIN w = 1..(Len(q) - 1)
    BY <2>4
  <2>6. ASSUME NEW j \in 1..(Len(q) - 1) PROVE w[j] = IF j < m THEN q[j] ELSE q[j + 1]
    <3>1. w[j] = IF j <= m - 1 THEN before[j] ELSE after[j - (m - 1)]
      BY <2>2, <2>3
    <3>2. CASE j < m
      <4>1. j \in 1..(m - 1) /\ j <= m - 1
        BY <1>1, <1>3, <3>2
      <4> QED
        BY <3>1, <3>2, <4>1, <1>5 DEF before
    <3>3. CASE ~(j < m)
      <4>1. j - (m - 1) \in 1..(Len(q) - m) /\ ~(j <= m - 1) /\ m + (j - (m - 1)) = j + 1
        BY <1>1, <1>3, <3>3
      <4> QED
        BY <3>1, <3>3, <4>1, <1>5 DEF after
    <3> QED
      BY <3>2, <3>3
  <2> QED
    BY <2>4, <2>5, <2>6
<1> HIDE DEF w
<1> DEFINE from(j) == IF j < m THEN j ELSE j + 1
<1>7. /\ \A j \in 1..(Len(q) - 1) : from(j) \in 1..Len(q) /\ from(j) # m /\ w[j] = q[from(j)]
      /\ \A j, k \in 1..(Len(q) - 1) : from(j) = from(k) => j = k
  BY <1>1, <1>3, <1>6
<1> HIDE DEF from
<1>8. ToSet(w) \subseteq ToSet(q)
  BY <1>1, <1>6, <1>7 DEF ToSet
<1>9. ASSUME IsInjective(q) PROVE p \notin ToSet(w) /\ IsInjective(w)
  <2>1. \A i, k \in 1..Len(q) : q[i] = q[k] => i = k
    BY <1>9 DEF IsInjective
  <2>2. p \notin ToSet(w)
    BY <1>3, <1>6, <1>7, <2>1 DEF ToSet
  <2>3. IsInjective(w)
    BY <1>6, <1>7, <2>1 DEF IsInjective
  <2> QED
    BY <2>2, <2>3
<1> QED
  BY <1>4, <1>6, <1>8, <1>9

\* Of finitely many processes one has the least key.
LEMMA LeastKey ==
  ASSUME NEW S \in SUBSET Pid, S # {}, IsFiniteSet(S), NEW key \in [Pid -> Nat]
  PROVE  \E p \in S : \A s \in S : key[p] <= key[s]
<1> DEFINE V == {key[s] : s \in S}
           f == [s \in S |-> key[s]]
<1>1. f \in Surjection(S, V)
  BY DEF Surjection
<1>2. V \subseteq Nat /\ V # {}
  OBVIOUS
<1> HIDE DEF V, f
<1>3. IsFiniteSet(V)
  BY <1>1, FS_Surjection
<1>4. PICK m \in V : \A v \in V : m <= v
  BY <1>2, <1>3, Smallest
<1> QED
  BY <1>4 DEF V

\* Whatever the algorithm, somebody in the queue comes before the others.
LEMMA SomeBest ==
  ASSUME NEW q \in Seq(Pid), q # << >>, algorithm \in Algorithms,
         job \in [Pid -> Jobs], NEW jobs \in [Pid -> Jobs]
  PROVE  \E p \in ToSet(q) : p \in Best(q, jobs)
<1> DEFINE M == ToSet(q)
<1>1. M \in SUBSET Pid /\ M # {} /\ IsFiniteSet(M)
  <2>1. Len(q) \in Nat /\ Len(q) # 0 /\ DOMAIN q = 1..Len(q) /\ q \in [1..Len(q) -> Pid]
    OBVIOUS
  <2>2. IsFiniteSet(1..Len(q)) /\ q \in Surjection(1..Len(q), M)
    BY <2>1, FS_Interval DEF Surjection, ToSet
  <2>3. 1 \in DOMAIN q /\ q[1] \in M
    BY <2>1 DEF ToSet
  <2> HIDE DEF M
  <2>4. IsFiniteSet(M)
    BY <2>2, FS_Surjection
  <2> QED
    BY <2>3, <2>4, MembersType DEF M
<1> HIDE DEF M
<1>2. CASE algorithm = "FCFS"
  <2> DEFINE key == [p \in Pid |-> p]
  <2>1. key \in [Pid -> Nat]
    BY PidsAreNumbers
  <2> HIDE DEF key
  <2>2. PICK p \in M : \A s \in M : key[p] <= key[s]
    BY <1>1, <2>1, LeastKey
  <2>3. \A s \in M : p <= s
    BY <1>1, <2>2 DEF key
  <2> QED
    BY <1>2, <2>2, <2>3 DEF Best, M
<1>3. CASE algorithm = "SJF"
  <2> DEFINE key == [p \in Pid |-> job[p].burst]
             T == {p \in M : job[p].burst # 0}
  <2>1. key \in [Pid -> Nat] /\ \A p \in Pid : job[p].burst \in Nat
    BY DEF Jobs
  <2>2. T \in SUBSET Pid /\ IsFiniteSet(T)
    <3>1. T \in SUBSET M
      OBVIOUS
    <3> HIDE DEF T
    <3> QED
      BY <3>1, <1>1, FS_Subset
  <2>3. \E p \in M : \A s \in M : ~Shorter(s, p)
    <3>1. CASE T = {}
      BY <3>1, <1>1 DEF Shorter
    <3>2. CASE T # {}
      <4> HIDE DEF T, key
      <4>1. PICK p \in T : \A s \in T : key[p] <= key[s]
        BY <2>1, <2>2, <3>2, LeastKey
      <4>2. p \in M /\ job[p].burst # 0 /\ key[p] = job[p].burst
        BY <1>1 DEF T, key
      <4>3. ASSUME NEW s \in M PROVE ~Shorter(s, p)
        <5>1. job[s].burst = 0 \/ job[p].burst <= job[s].burst
          BY <1>1, <4>1, <4>2 DEF T, key
        <5> QED
          BY <5>1, <4>2, <1>1, <2>1 DEF Shorter
      <4> QED
        BY <4>2, <4>3
    <3> QED
      BY <3>1, <3>2
  <2> QED
    BY <1>3, <2>3 DEF Best, M
<1>4. CASE algorithm = "RR"
  BY <1>1, <1>4 DEF Best, M
<1>5. CASE algorithm = "PRIO"
  <2> DEFINE key == [p \in Pid |-> MaxPrio - jobs[p].priority]
  <2>1. \A p \in Pid : jobs[p].priority \in 1..MaxPrio
    BY DEF Jobs
  <2>2. key \in [Pid -> Nat]
    BY <2>1, SchedulerAssumption
  <2> HIDE DEF key
  <2>3. PICK p \in M : \A s \in M : key[p] <= key[s]
    BY <1>1, <2>2, LeastKey
  <2>4. ASSUME NEW s \in M PROVE jobs[s].priority <= jobs[p].priority
    <3>1. MaxPrio - jobs[p].priority <= MaxPrio - jobs[s].priority
      BY <1>1, <2>3 DEF key
    <3>2. jobs[p].priority \in Int /\ jobs[s].priority \in Int /\ MaxPrio \in Int
      BY <1>1, <2>1, <2>3, SchedulerAssumption
    <3> HIDE DEF M
    <3> QED
      BY <3>1, <3>2
  <2> QED
    BY <1>5, <2>3, <2>4 DEF Best, M
<1> QED
  BY <1>2, <1>3, <1>4, <1>5, SchedulerAssumption

LEMMA SelectNextMember ==
  ASSUME NEW q \in Seq(Pid), q # << >>, algorithm \in Algorithms,
         job \in [Pid -> Jobs], NEW jobs \in [Pid -> Jobs]
  PROVE  SelectNext(q, jobs) \in ToSet(q)
<1> DEFINE B == Best(q, jobs)
           I == {i \in 1..Len(q) : q[i] \in B}
<1>1. Len(q) \in Nat /\ DOMAIN q = 1..Len(q)
  OBVIOUS
<1> HIDE DEF B
<1>2. I # {}
  BY <1>1, SomeBest DEF B, ToSet
<1>3. I \subseteq Nat /\ IsFiniteSet(I)
  <2>1. IsFiniteSet(1..Len(q)) /\ I \in SUBSET (1..Len(q))
    BY <1>1, FS_Interval
  <2> QED
    BY <2>1, FS_Subset
<1> HIDE DEF I
<1>4. PICK m \in I : \A k \in I : m <= k
  BY <1>2, <1>3, Smallest
<1>5. m \in 1..Len(q) /\ q[m] \in B /\ \A j \in 1..(m - 1) : q[j] \notin B
  BY <1>1, <1>4 DEF I
<1>6. \E i \in 1..Len(q) : q[i] \in B /\ \A j \in 1..(i - 1) : q[j] \notin B
  BY <1>5
<1> QED
  BY <1>1, <1>6 DEF SelectNext, B, ToSet

-----------------------------------------------------------------------------
(* The core pool, as the scheduler's steps hand it on                      *)

Pools == {pool \in Seq(Pid \cup {NoPid}) : Len(pool) \in 1..MaxCores}
Indexes == [Pid -> 0..MaxCores]

Agrees(pool, index) == \A c \in 1..Len(pool) : pool[c] # NoPid => index[pool[c]] = c

LEMMA PoolIsArgument ==
  /\ PoolOK <=> cores \in Pools /\ proc_core \in Indexes
  /\ OccupantIndexed <=> Agrees(cores, proc_core)
<1>1. MaxCores \in Nat
  BY CoresAssumption
<1>2. PoolOK => cores \in Pools /\ proc_core \in Indexes
  <2> SUFFICES ASSUME PoolOK PROVE cores \in Pools /\ proc_core \in Indexes
    OBVIOUS
  <2>1. Len(cores) \in Nat
    BY <1>1 DEF PoolOK
  <2> QED
    BY <2>1, PoolLength DEF PoolOK, Pools, Indexes
<1>3. cores \in Pools /\ proc_core \in Indexes => PoolOK
  BY DEF PoolOK, Pools, Indexes
<1> QED
  BY <1>2, <1>3 DEF OccupantIndexed, Agrees

\* A pool updated core by core is a pool of the same size.
LEMMA SamePool ==
  ASSUME NEW pool \in Pools, NEW f \in [1..Len(pool) -> Pid \cup {NoPid}]
  PROVE  f \in Pools /\ Len(f) = Len(pool)
<1>1. Len(pool) \in Nat /\ Len(pool) \in 1..MaxCores
  BY DEF Pools
<1>2. Len(f) = Len(pool) /\ f \in Seq(Pid \cup {NoPid})
  BY <1>1, PoolLength
<1> QED
  BY <1>1, <1>2 DEF Pools

LEMMA AssignedTyped ==
  ASSUME NEW pool \in Pools, NEW index \in Indexes, NEW p \in Pid, NEW c \in AssignChoices(pool)
  PROVE  /\ c \in 1..Len(pool)
         /\ AssignedCores(pool, p, c) \in Pools
         /\ Len(AssignedCores(pool, p, c)) = Len(pool)
         /\ AssignedIndex(pool, index, p, c) \in Indexes
<1>1. c \in 1..Len(pool) /\ Len(pool) \in 1..MaxCores /\ MaxCores \in Nat
  BY CoresAssumption DEF AssignChoices, Pools
<1>2. pool \in [1..Len(pool) -> Pid \cup {NoPid}]
  BY DEF Pools
<1>3. AssignedCores(pool, p, c) \in [1..Len(pool) -> Pid \cup {NoPid}]
  BY <1>1, <1>2 DEF AssignedCores
<1>4. AssignedIndex(pool, index, p, c) \in Indexes
  BY <1>1 DEF AssignedIndex, Indexes, NoCore
<1> QED
  BY <1>1, <1>3, <1>4, SamePool

\* A process that is on no core takes its core alone, and nobody else a new one.
LEMMA AssignedAgrees ==
  ASSUME NEW pool \in Pools, NEW index \in Indexes, NEW p \in Pid, NEW c \in AssignChoices(pool),
         Agrees(pool, index), Off(pool, p)
  PROVE  /\ Agrees(AssignedCores(pool, p, c), AssignedIndex(pool, index, p, c))
         /\ \A q \in Pid \ {p} : Off(pool, q) => Off(AssignedCores(pool, p, c), q)
<1>1. /\ c \in 1..Len(pool)
      /\ Len(AssignedCores(pool, p, c)) = Len(pool)
  BY AssignedTyped
<1>2. \A d \in 1..Len(pool) : pool[d] \in Pid \cup {NoPid}
  BY DEF Pools
<1>3. \A d \in 1..Len(pool) : AssignedCores(pool, p, c)[d] = IF d = c THEN p ELSE pool[d]
  BY DEF AssignedCores, Pools
<1> DEFINE after == AssignedCores(pool, p, c)
<1> HIDE DEF after
<1>4. ASSUME NEW d \in 1..Len(pool), after[d] # NoPid
      PROVE  AssignedIndex(pool, index, p, c)[after[d]] = d
  <2>1. CASE d = c
    BY <2>1, <1>3 DEF AssignedIndex, after
  <2>2. CASE d # c
    <3>1. after[d] = pool[d] /\ pool[d] \in Pid /\ index[pool[d]] = d
      BY <2>2, <1>2, <1>3, <1>4 DEF Agrees, after
    <3>2. pool[d] # p /\ pool[d] # pool[c]
      BY <2>2, <3>1, <1>1, <1>4 DEF Off, Agrees, after
    <3> QED
      BY <3>1, <3>2 DEF AssignedIndex
  <2> QED
    BY <2>1, <2>2
<1>5. ASSUME NEW q \in Pid \ {p}, Off(pool, q) PROVE Off(after, q)
  BY <1>1, <1>3, <1>5 DEF Off, after
<1> QED
  BY <1>1, <1>4, <1>5 DEF Agrees, after

\* A release takes its process off the core it is indexed on, and nobody else.
LEMMA ReleasedPool ==
  ASSUME PoolOK, NEW p \in Pid
  PROVE  /\ ReleasedCores(p) \in Pools /\ ReleasedIndex(p) \in Indexes
         /\ \A q \in Pid : Off(cores, q) => Off(ReleasedCores(p), q)
         /\ OccupantIndexed => Agrees(ReleasedCores(p), ReleasedIndex(p)) /\ Off(ReleasedCores(p), p)
<1>1. cores \in Pools /\ proc_core \in Indexes
  BY PoolIsArgument
<1>2. ReleasedCores(p) \in [1..Len(cores) -> Pid \cup {NoPid}]
  BY DEF ReleasedCores, PoolOK
<1>3. ReleasedCores(p) \in Pools /\ Len(ReleasedCores(p)) = Len(cores)
  BY <1>1, <1>2, SamePool
<1>4. ReleasedIndex(p) \in Indexes
  BY <1>1, CoresAssumption DEF ReleasedIndex, Indexes, NoCore
<1>5. \A q \in Pid : Off(cores, q) => Off(ReleasedCores(p), q)
  BY <1>3, NoPidAssumption DEF Off, ReleasedCores
<1>6. ASSUME OccupantIndexed
      PROVE  Agrees(ReleasedCores(p), ReleasedIndex(p)) /\ Off(ReleasedCores(p), p)
  <2>1. Off(ReleasedCores(p), p)
    BY <1>3, <1>6, NoPidAssumption DEF Off, ReleasedCores, OccupantIndexed
  <2>2. ASSUME NEW d \in 1..Len(cores), ReleasedCores(p)[d] # NoPid
        PROVE  ReleasedIndex(p)[ReleasedCores(p)[d]] = d
    <3>1. /\ ReleasedCores(p)[d] = cores[d] /\ cores[d] \in Pid
          /\ proc_core[cores[d]] = d /\ cores[d] # p
      BY <1>6, <2>1, <2>2, <1>3 DEF ReleasedCores, Off, OccupantIndexed, PoolOK
    <3> QED
      BY <3>1 DEF ReleasedIndex, PoolOK
  <2> QED
    BY <1>3, <2>1, <2>2 DEF Agrees
<1> QED
  BY <1>3, <1>4, <1>5, <1>6

\* Rebalancing and resizing move processes or take them off; nobody new gets a core.
LEMMA CorePoolTyped ==
  ASSUME PoolOK, Rebalance \/ \E n \in CoreCounts : SetCoreCount(n)
  PROVE  /\ PoolOK'
         /\ OccupantIndexed => OccupantIndexed'
         /\ \A q \in Pid : Off(cores, q) => Off(cores', q)
<1>0. Len(cores) \in Nat /\ MaxCores \in Nat
  BY CoresAssumption DEF PoolOK
<1>1. CASE Rebalance
  <2>1. PoolOK' /\ Len(cores') = Len(cores)
    BY <1>1, RebalanceTyped
  <2>2. OccupantIndexed => OccupantIndexed'
    BY <1>1, RebalanceKeeps DEF PoolInv
  <2>3. ASSUME NEW q \in Pid, Off(cores, q) PROVE Off(cores', q)
    BY <1>1, <2>1, <2>3, NoPidAssumption DEF Rebalance, Off, PoolOK
  <2> QED
    BY <2>1, <2>2, <2>3
<1>2. ASSUME NEW n \in 0..MaxCores, n > 0, GrowTo(n)
      PROVE  /\ PoolOK'
             /\ OccupantIndexed => OccupantIndexed'
             /\ \A q \in Pid : Off(cores, q) => Off(cores', q)
  <2>1. PoolOK' /\ Len(cores') = n
    BY <1>2, GrowTyped
  <2>2. OccupantIndexed => OccupantIndexed'
    BY <1>2, GrowKeeps DEF PoolInv
  <2>3. ASSUME NEW q \in Pid, Off(cores, q) PROVE Off(cores', q)
    BY <1>0, <1>2, <2>1, <2>3, NoPidAssumption DEF GrowTo, Off, PoolOK
  <2> QED
    BY <2>1, <2>2, <2>3
<1>3. ASSUME NEW n \in 0..MaxCores, n > 0, ShrinkTo(n)
      PROVE  /\ PoolOK'
             /\ OccupantIndexed => OccupantIndexed'
             /\ \A q \in Pid : Off(cores, q) => Off(cores', q)
  <2>1. PoolOK' /\ Len(cores') = n
    BY <1>3, ShrinkTyped
  <2>2. OccupantIndexed => OccupantIndexed'
    BY <1>3, ShrinkKeeps DEF PoolInv
  <2>3. ASSUME NEW c \in 1..n PROVE \E d \in 1..Len(cores) : cores'[c] = cores[d]
    <3> DEFINE leaving == {d \in (n + 1)..Len(cores) : cores[d] # NoPid}
               idle    == {d \in 1..n : cores[d] = NoPid}
    <3>1. PICK place \in [leaving -> idle \cup {NoCore}] :
            cores' = [d \in 1..n |-> IF \E e \in leaving : place[e] = d
                                     THEN cores[CHOOSE e \in leaving : place[e] = d]
                                     ELSE cores[d]]
      BY <1>3 DEF ShrinkTo
    <3>2. n < Len(cores) /\ \A d \in leaving : d \in 1..Len(cores)
      BY <1>0, <1>3 DEF ShrinkTo
    <3> HIDE DEF leaving
    <3>3. c \in 1..Len(cores)
      BY <1>0, <3>2
    <3> QED
      BY <3>1, <3>2, <3>3
  <2>4. \A q \in Pid : Off(cores, q) => Off(cores', q)
    BY <2>1, <2>3 DEF Off
  <2> QED
    BY <2>1, <2>2, <2>4
<1> QED
  BY <1>1, <1>2, <1>3, SchedulerAssumption DEF SetCoreCount

-----------------------------------------------------------------------------
(* The Process objects and the statuses                                    *)

LEMMA NewJobTyped ==
  ASSUME NEW burst \in Nat, NEW prio \in 1..MaxPrio, NEW budget \in Nat, NEW shared \in BOOLEAN
  PROVE  NewJob(burst, prio, budget, shared) \in Jobs
BY SchedulerAssumption DEF NewJob, Jobs

LEMMA AgedTyped ==
  ASSUME ready \in Seq(Pid), job \in [Pid -> Jobs]
  PROVE  /\ Aged \in [Pid -> Jobs]
         /\ \A p \in Pid : /\ Aged[p].burst = job[p].burst /\ Aged[p].remaining = job[p].remaining
                           /\ Aged[p].budget = job[p].budget /\ Aged[p].executed = job[p].executed
                           /\ Aged[p].shared = job[p].shared
<1> SUFFICES ASSUME NEW p \in Pid
             PROVE  /\ Aged[p] \in Jobs
                    /\ Aged[p].burst = job[p].burst /\ Aged[p].remaining = job[p].remaining
                    /\ Aged[p].budget = job[p].budget /\ Aged[p].executed = job[p].executed
                    /\ Aged[p].shared = job[p].shared
  BY DEF Aged
<1> DEFINE waits  == Cardinality({i \in 1..Len(ready) : ready[i] = p})
           waited == (job[p].waited + waits) % AgingThreshold
           boost  == IF waits > 0 /\ waited = 0 THEN waits ELSE 0
           prio   == IF job[p].priority + boost > MaxPrio THEN MaxPrio ELSE job[p].priority + boost
<1>1. waits \in Nat
  <2>1. IsFiniteSet(1..Len(ready)) /\ {i \in 1..Len(ready) : ready[i] = p} \in SUBSET (1..Len(ready))
    BY FS_Interval
  <2> QED
    BY <2>1, FS_Subset, FS_CardinalityType
<1>2. Aged[p] = [job[p] EXCEPT !.waited = waited, !.priority = prio]
  BY DEF Aged
<1>3. job[p] \in Jobs /\ job[p].priority \in 1..MaxPrio /\ job[p].waited \in Nat
      /\ MaxPrio \in Nat /\ AgingThreshold \in Nat \ {0}
  BY SchedulerAssumption DEF Jobs
<1> HIDE DEF waits
<1>4. waited \in 0..(AgingThreshold - 1)
  BY <1>1, <1>3
<1>5. prio \in 1..MaxPrio
  BY <1>1, <1>3
<1> HIDE DEF waited, prio
<1> QED
  BY <1>2, <1>3, <1>4, <1>5 DEF Jobs

LEMMA AdvancedTyped ==
  ASSUME ready \in Seq(Pid), job \in [Pid -> Jobs], NEW p \in Pid
  PROVE  Advanced(p) \in [Pid -> Jobs]
<1>1. Aged \in [Pid -> Jobs] /\ job[p] \in Jobs /\ job[p].budget \in Nat
  BY AgedTyped DEF Jobs
<1>2. PICK r \in Nat, x \in Nat : /\ r <= Aged[p].burst
        /\ Advanced(p) = [Aged EXCEPT ![p].remaining = r, ![p].executed = x]
  <2>1. Aged[p].remaining \in Nat /\ Aged[p].burst \in Nat /\ Aged[p].executed \in Nat
        /\ Aged[p].remaining <= Aged[p].burst
    BY <1>1 DEF Jobs
  <2> DEFINE r == IF Aged[p].remaining > 0 THEN Aged[p].remaining - 1 ELSE 0
             x == IF job[p].budget = 0 \/ Aged[p].executed > job[p].budget THEN Aged[p].executed
                  ELSE Aged[p].executed + 1
  <2>2. r \in Nat /\ x \in Nat /\ r <= Aged[p].burst
    BY <1>1, <2>1
  <2>3. Advanced(p) = [Aged EXCEPT ![p].remaining = r, ![p].executed = x]
    BY <1>1 DEF Advanced
  <2> QED
    BY <2>2, <2>3
<1>3. Aged[p] \in Jobs
  BY <1>1
<1>4. [Aged[p] EXCEPT !.remaining = r, !.executed = x] \in Jobs
  BY <1>2, <1>3 DEF Jobs
<1>5. Advanced(p) = [Aged EXCEPT ![p] = [Aged[p] EXCEPT !.remaining = r, !.executed = x]]
  BY <1>1, <1>2, <1>3 DEF Jobs
<1> HIDE DEF Jobs
<1> QED
  BY <1>1, <1>4, <1>5

\* Whoever is born stays so.
NoneUnborn(old, new) == \A p \in Pid : new[p] = "unborn" => old[p] = "unborn"

LEMMA MarkedStatus ==
  ASSUME NEW st \in [Pid -> Statuses], NEW p \in Pid, NEW s \in Statuses \ {"unborn"}
  PROVE  Marked(st, p, s) \in [Pid -> Statuses] /\ NoneUnborn(st, Marked(st, p, s))
BY DEF Marked, NoneUnborn

LEMMA KilledStatusKeeps ==
  ASSUME NEW st \in [Pid -> Statuses], NEW p \in Pid
  PROVE  KilledStatus(st, p) \in [Pid -> Statuses] /\ NoneUnborn(st, KilledStatus(st, p))
BY DEF KilledStatus, Alive, Statuses, NoneUnborn

LEMMA SwitchedStatus ==
  ASSUME NEW st \in [Pid -> Statuses], NEW p \in Pid
  PROVE  Switched(st, p) \in [Pid -> Statuses] /\ NoneUnborn(st, Switched(st, p))
BY DEF Switched, Statuses, NoneUnborn

-----------------------------------------------------------------------------
(* What steps have in common                                               *)

LEMMA EventsTyped ==
  ASSUME Typed
  PROVE  Len(events) \in Nat /\ \A i \in 1..Len(events) : events[i] \in EventRecords
BY DEF Typed

\* A step that is not a birth and handles no event may add the death of a process.
DeathAdded ==
  \/ events' = events
  \/ \E kind \in {"stopped", "completed"}, p \in Pid :
       ~Unborn(p) /\ events' = Append(events, Event(kind, p))

LEMMA EventsGrown ==
  ASSUME Typed, Births, DeathAdded
  PROVE  /\ events' \in Seq(EventRecords)
         /\ \A i \in 1..Len(events') :
              /\ ~Unborn(events'[i].pid)
              /\ events'[i].pid \in Pid
              /\ events'[i].kind = "spawned" => i \in 1..Len(events) /\ events'[i] = events[i]
              /\ \/ i \in 1..Len(events) /\ events'[i] = events[i]
                 \/ \A j \in 1..Len(events) : j <= i
<1>1. Len(events) \in Nat /\ \A i \in 1..Len(events) : events[i] \in EventRecords
  BY EventsTyped
<1>2. CASE events' = events
  BY <1>1, <1>2 DEF Typed, Births, EventRecords
<1>3. ASSUME NEW kind \in {"stopped", "completed"}, NEW p \in Pid,
             ~Unborn(p), events' = Append(events, Event(kind, p))
      PROVE  /\ events' \in Seq(EventRecords)
             /\ \A i \in 1..Len(events') :
                  /\ ~Unborn(events'[i].pid)
                  /\ events'[i].pid \in Pid
                  /\ events'[i].kind = "spawned" => i \in 1..Len(events) /\ events'[i] = events[i]
                  /\ \/ i \in 1..Len(events) /\ events'[i] = events[i]
                     \/ \A j \in 1..Len(events) : j <= i
  <2> DEFINE e == Event(kind, p)
  <2>1. e \in EventRecords /\ e.kind # "spawned" /\ e.pid = p
    BY DEF Event, EventRecords
  <2> HIDE DEF e
  <2>2. /\ Append(events, e) \in Seq(EventRecords)
        /\ Len(Append(events, e)) = Len(events) + 1
        /\ \A i \in 1..Len(events) : Append(events, e)[i] = events[i]
        /\ Append(events, e)[Len(events) + 1] = e
    BY <2>1, AppendProperties DEF Typed
  <2>3. events' = Append(events, e)
    BY <1>3 DEF e
  <2>4. ASSUME NEW i \in 1..Len(events')
        PROVE  \/ i \in 1..Len(events) /\ events'[i] = events[i]
               \/ i = Len(events) + 1 /\ events'[i] = e
    BY <1>1, <2>2, <2>3
  <2>5. ASSUME NEW i \in 1..Len(events')
        PROVE  /\ ~Unborn(events'[i].pid)
               /\ events'[i].pid \in Pid
               /\ events'[i].kind = "spawned" => i \in 1..Len(events) /\ events'[i] = events[i]
               /\ \/ i \in 1..Len(events) /\ events'[i] = events[i]
                  \/ \A j \in 1..Len(events) : j <= i
    <3>1. CASE i \in 1..Len(events) /\ events'[i] = events[i]
      BY <3>1, <1>1 DEF Births, EventRecords
    <3>2. CASE i = Len(events) + 1 /\ events'[i] = e
      BY <3>2, <1>1, <1>3, <2>1
    <3> QED
      BY <2>4, <3>1, <3>2
  <2> QED
    BY <2>2, <2>3, <2>5
<1> QED
  BY <1>2, <1>3 DEF DeathAdded

\* Such a step takes nobody into the scheduler who was not there before.
NobodyNew ==
  /\ NoneUnborn(status, status') /\ handled' = handled
  /\ ToSet(ready') \subseteq ToSet(ready) \cup {current}
  /\ current' \in ToSet(ready) \cup {current, NoPid}

LEMMA BirthsKept ==
  ASSUME Typed, Births, DeathAdded, NobodyNew
  PROVE  /\ Births'
         /\ \A p \in Pid : Unborn(p)' => Unborn(p)
         /\ \A p \in Pid : Announced(p)' => Announced(p)
<1>1. \A p \in Pid : Unborn(p)' => Unborn(p)
  BY DEF NobodyNew, NoneUnborn, Unborn
<1>2. \A p \in Pid : Outside(p) => Outside(p)'
  BY NoPidAssumption DEF NobodyNew, Outside
<1>3. \A i \in 1..Len(events') :
        /\ ~Unborn(events'[i].pid) /\ events'[i].pid \in Pid
        /\ events'[i].kind = "spawned" => i \in 1..Len(events) /\ events'[i] = events[i]
        /\ \/ i \in 1..Len(events) /\ events'[i] = events[i]
           \/ \A j \in 1..Len(events) : j <= i
  BY EventsGrown
<1> DEFINE Out(p) == p \notin ToSet(ready') /\ p # current' /\ p \notin handled'
<1>4. \A p \in Pid : status'[p] = "unborn" => Out(p)
  BY <1>1, <1>2 DEF Births, Unborn, Outside
<1>5. \A i \in 1..Len(events') : status'[events'[i].pid] # "unborn"
  BY <1>1, <1>3 DEF Unborn
<1>6. \A i \in 1..Len(events') : events'[i].kind = "spawned" => Out(events'[i].pid)
  BY <1>2, <1>3 DEF Births, Outside
<1>7. \A i, j \in 1..Len(events') :
        events'[i].kind = "spawned" /\ events'[j].pid = events'[i].pid => i <= j
  BY <1>3 DEF Births
<1>8. Births'
  BY <1>4, <1>5, <1>6, <1>7 DEF Births, Unborn, Outside
<1>9. \A p \in Pid : Announced(p)' => Announced(p)
  BY <1>3 DEF Announced
<1> QED
  BY <1>1, <1>8, <1>9

LEMMA WholeKept ==
  ASSUME Typed, Births, Whole, DeathAdded, NobodyNew,
         current' \notin ToSet(ready'), IsInjective(ready'), OccupantIndexed',
         \A p \in Pid \ {current'} :
            p \in ToSet(ready') \/ (p \notin ToSet(ready) \cup {current} /\ Off(cores, p))
               => Off(cores', p)
  PROVE  Whole'
<1>1. \A p \in handled' : p # current' /\ p \notin ToSet(ready')
  BY NoPidAssumption DEF Typed, Whole, NobodyNew
<1>2. ASSUME NEW p \in Pid, p \in ToSet(ready') \/ Unborn(p)' \/ Announced(p)'
      PROVE  Off(cores', p)
  <2>1. CASE p \in ToSet(ready')
    BY <2>1
  <2>2. CASE Unborn(p)' \/ Announced(p)'
    <3>1. Unborn(p) \/ Announced(p)
      BY <2>2, BirthsKept
    <3>2. p \notin ToSet(ready) \cup {current}
      BY <3>1 DEF Births, Outside, Announced
    <3>3. p # current'
      BY <3>2, NoPidAssumption DEF NobodyNew
    <3> QED
      BY <3>1, <3>2, <3>3 DEF Whole
  <2> QED
    BY <1>2, <2>1, <2>2
<1> QED
  BY <1>1, <1>2 DEF Whole, Off

\* A step outside the scheduler and the core pool.
LEMMA StayPut ==
  ASSUME SchedInv, Typed', DeathAdded, NoneUnborn(status, status'),
         UNCHANGED <<cores, proc_core, ready, current, handled, panicked>>
  PROVE  SchedInv'
<1>1. NobodyNew
  BY DEF NobodyNew
<1>2. Births'
  BY <1>1, BirthsKept DEF SchedInv
<1>3. ASSUME Whole PROVE Whole'
  <2>1. OccupantIndexed'
    BY <1>3 DEF Whole, OccupantIndexed
  <2>2. current' \notin ToSet(ready') /\ IsInjective(ready')
    BY <1>3 DEF Whole
  <2>3. \A p \in Pid \ {current'} :
          p \in ToSet(ready') \/ (p \notin ToSet(ready) \cup {current} /\ Off(cores, p))
             => Off(cores', p)
    BY <1>3 DEF Whole, Off
  <2> QED
    BY <1>1, <1>3, <2>1, <2>2, <2>3, WholeKept DEF SchedInv
<1>4. panicked' = panicked
  OBVIOUS
<1> QED
  BY <1>2, <1>3, <1>4 DEF SchedInv

-----------------------------------------------------------------------------
(* The initial states                                                      *)

LEMMA InitSched == Init => SchedInv
<1> SUFFICES ASSUME Init PROVE SchedInv
  OBVIOUS
<1>1. PoolInv
  BY InitPool DEF Init
<1>2. job \in [Pid -> Jobs]
  BY NewJobTyped, SchedulerAssumption DEF Init
<1>3. ready \in Seq(Pid) /\ events \in Seq(EventRecords) /\ Len(events) = 0 /\ ToSet(ready) = {}
  BY EmptySeq DEF Init, ToSet
<1>4. Typed
  BY <1>1, <1>2, <1>3 DEF Init, Typed, PoolInv, Statuses
<1>5. Births
  BY <1>3, NoPidAssumption DEF Init, Births, Outside
<1>6. Whole
  <2>1. \A p \in Pid : Off(cores, p)
    <3>1. Len(cores) = InitCores
      BY CoresAssumption, PoolLength DEF Init, MceInit
    <3> QED
      BY <3>1, NoPidAssumption DEF Init, MceInit, Off
  <2>2. IsInjective(ready)
    BY DEF Init, IsInjective
  <2> QED
    BY <1>1, <1>3, <2>1, <2>2, NoPidAssumption DEF Init, Whole, PoolInv
<1> QED
  BY <1>4, <1>5, <1>6 DEF SchedInv

-----------------------------------------------------------------------------
(* The process table                                                       *)

LEMMA CompleteKeeps ==
  ASSUME SchedInv, NEW p \in Pid, Complete(p)
  PROVE  SchedInv'
<1>1. UNCHANGED <<cores, proc_core, ready, current, algorithm, quantum_ticks, job, handled,
                  panicked, dispatched>>
  BY DEF Complete, schedVars, history
<1>2. DeathAdded
  BY DEF Complete, DeathAdded, Unborn
<1>3. status' \in [Pid -> Statuses] /\ NoneUnborn(status, status')
  BY DEF Complete, SchedInv, Typed, Statuses, NoneUnborn
<1>4. Typed'
  BY <1>1, <1>2, <1>3, EventsGrown DEF SchedInv, Typed, PoolOK
<1> QED
  BY <1>1, <1>2, <1>3, <1>4, StayPut

LEMMA KillKeeps ==
  ASSUME SchedInv, NEW p \in Pid, Kill(p)
  PROVE  SchedInv'
<1>1. UNCHANGED <<cores, proc_core, ready, current, algorithm, quantum_ticks, job, handled,
                  panicked, dispatched>>
  BY DEF Kill, schedVars, history
<1>2. DeathAdded
  <2>1. events' = events \o <<Event("stopped", p)>> /\ ~Unborn(p)
    BY DEF Kill, KillEvents, Alive, Unborn
  <2>2. events \o <<Event("stopped", p)>> = Append(events, Event("stopped", p))
    <3>1. Event("stopped", p) \in EventRecords /\ events \in Seq(EventRecords)
      BY DEF Event, EventRecords, SchedInv, Typed
    <3> QED
      BY <3>1, AppendIsConcat
  <2> QED
    BY <2>1, <2>2 DEF DeathAdded
<1>3. status' \in [Pid -> Statuses] /\ NoneUnborn(status, status')
  BY KilledStatusKeeps DEF Kill, SchedInv, Typed
<1>4. Typed'
  BY <1>1, <1>2, <1>3, EventsGrown DEF SchedInv, Typed, PoolOK
<1> QED
  BY <1>1, <1>2, <1>3, <1>4, StayPut

LEMMA ReapKeeps ==
  ASSUME SchedInv, NEW p \in Pid, Reap(p)
  PROVE  SchedInv'
<1>1. UNCHANGED <<cores, proc_core, ready, current, algorithm, quantum_ticks, job, handled,
                  panicked, dispatched, events>>
  BY DEF Reap, schedVars, history
<1>2. DeathAdded
  BY <1>1 DEF DeathAdded
<1>3. status' \in [Pid -> Statuses]
  BY DEF Reap, SchedInv, Typed, Statuses
<1>4. NoneUnborn(status, status')
  BY DEF Reap, SchedInv, Typed, NoneUnborn
<1>5. Typed'
  BY <1>1, <1>3 DEF SchedInv, Typed, PoolOK
<1> QED
  BY <1>1, <1>2, <1>4, <1>5, StayPut

LEMMA AlgorithmKeeps ==
  ASSUME SchedInv, NEW a \in Algorithms, SetAlgorithm(a)
  PROVE  SchedInv'
<1>1. UNCHANGED <<cores, proc_core, ready, current, job, handled, panicked, dispatched,
                  status, events>> /\ algorithm' = a /\ quantum_ticks' = 0
  BY DEF SetAlgorithm, pmVars, history
<1>2. DeathAdded /\ NoneUnborn(status, status')
  BY <1>1 DEF DeathAdded, NoneUnborn
<1>3. Typed'
  BY <1>1 DEF SchedInv, Typed, PoolOK
<1> QED
  BY <1>1, <1>2, <1>3, StayPut

\* A birth that is announced on the bus.
LEMMA SpawnKeeps ==
  ASSUME SchedInv, NEW p \in Pid, Spawn(p)
  PROVE  SchedInv'
<1> DEFINE e == Event("spawned", p)
<1>1. UNCHANGED <<cores, proc_core, ready, current, algorithm, quantum_ticks, job, handled,
                  panicked, dispatched>>
  BY DEF Spawn, schedVars, history
<1>2. /\ status' \in [Pid -> Statuses] /\ NoneUnborn(status, status')
      /\ status[p] = "unborn" /\ status'[p] # "unborn"
  BY DEF Spawn, SchedInv, Typed, Statuses, NoneUnborn
<1>3. e \in EventRecords /\ e.kind = "spawned" /\ e.pid = p /\ events' = Append(events, e)
  BY DEF Event, EventRecords, Spawn
<1> HIDE DEF e
<1>4. /\ events' \in Seq(EventRecords) /\ Len(events') = Len(events) + 1 /\ Len(events) \in Nat
      /\ \A i \in 1..Len(events) : events'[i] = events[i] /\ events[i] \in EventRecords
      /\ events'[Len(events) + 1] = e
  BY <1>3, EventsTyped, AppendProperties DEF SchedInv, Typed
<1>5. \A i \in 1..Len(events') :
        \/ i \in 1..Len(events) /\ events'[i] = events[i] /\ events[i].pid \in Pid
        \/ i = Len(events) + 1 /\ events'[i] = e
  BY <1>4 DEF EventRecords
<1>6. Typed'
  BY <1>1, <1>2, <1>4 DEF SchedInv, Typed, PoolOK
<1>7. \A i \in 1..Len(events) : events[i].pid # p
  BY <1>2 DEF SchedInv, Births, Unborn
<1>8. Births'
  <2>1. \A q \in Pid : status'[q] = "unborn" => Outside(q)
    BY <1>2 DEF SchedInv, Births, Unborn, NoneUnborn
  <2>2. \A i \in 1..Len(events') : status'[events'[i].pid] # "unborn"
    BY <1>2, <1>3, <1>5 DEF SchedInv, Births, Unborn, NoneUnborn
  <2>3. \A i \in 1..Len(events') : events'[i].kind = "spawned" => Outside(events'[i].pid)
    BY <1>2, <1>3, <1>5 DEF SchedInv, Births, Unborn
  <2>4. ASSUME NEW i \in 1..Len(events'), NEW j \in 1..Len(events'),
               events'[i].kind = "spawned", events'[j].pid = events'[i].pid
        PROVE  i <= j
    <3>1. CASE i \in 1..Len(events) /\ j \in 1..Len(events)
      BY <3>1, <2>4, <1>4 DEF SchedInv, Births
    <3>2. CASE i = Len(events) + 1
      <4>1. j \notin 1..Len(events)
        BY <3>2, <2>4, <1>3, <1>4, <1>7
      <4> QED
        BY <4>1, <3>2, <1>4
    <3>3. CASE j = Len(events) + 1
      BY <3>3, <1>4
    <3> QED
      BY <3>1, <3>2, <3>3, <1>4
  <2> QED
    BY <1>1, <2>1, <2>2, <2>3, <2>4 DEF Births, Unborn, Outside
<1>9. ASSUME Whole PROVE Whole'
  <2>1. \A q \in Pid : Announced(q)' => Announced(q) \/ q = p
    BY <1>3, <1>5 DEF Announced
  <2>2. \A q \in Pid : Unborn(q)' => Unborn(q)
    BY <1>2 DEF Unborn, NoneUnborn
  <2>3. \A q \in Pid : q \in ToSet(ready') \/ Unborn(q)' \/ Announced(q)' => Off(cores', q)
    BY <2>1, <2>2, <1>1, <1>2, <1>9 DEF Whole, Off, Unborn
  <2>4. OccupantIndexed'
    BY <1>1, <1>9 DEF Whole, OccupantIndexed
  <2> QED
    BY <2>3, <2>4, <1>1, <1>9 DEF Whole
<1> QED
  BY <1>1, <1>6, <1>8, <1>9 DEF SchedInv

\* A birth that puts the process into the queue at once.
LEMMA RegisterKeeps ==
  ASSUME SchedInv, NEW p \in Pid, Register(p)
  PROVE  SchedInv'
<1>1. UNCHANGED <<cores, proc_core, current, algorithm, quantum_ticks, handled, panicked,
                  dispatched, events>>
  BY DEF Register, history
<1>2. /\ status' \in [Pid -> Statuses] /\ NoneUnborn(status, status')
      /\ Unborn(p) /\ status'[p] # "unborn"
  BY DEF Register, SchedInv, Typed, Statuses, NoneUnborn, Unborn
<1>3. job' \in [Pid -> Jobs]
  <2>1. PICK burst \in Bursts, prio \in Prios, budget \in Budgets :
          job' = [job EXCEPT ![p] = NewJob(burst, prio, budget, TRUE)]
    BY DEF Register
  <2>2. NewJob(burst, prio, budget, TRUE) \in Jobs
    BY <2>1, SchedulerAssumption, NewJobTyped
  <2> QED
    BY <2>1, <2>2 DEF SchedInv, Typed
<1>4. /\ ready' \in Seq(Pid) /\ ToSet(ready') = ToSet(ready) \cup {p}
      /\ IsInjective(ready) /\ p \notin ToSet(ready) => IsInjective(ready')
  BY AppendMembers DEF Register, SchedInv, Typed
<1>5. Typed'
  BY <1>1, <1>2, <1>3, <1>4 DEF SchedInv, Typed, PoolOK
<1>6. Outside(p) /\ \A i \in 1..Len(events) : events[i].pid # p
  BY <1>2 DEF SchedInv, Births, Unborn
<1>7. Births'
  <2>1. \A q \in Pid : status'[q] = "unborn" => Unborn(q) /\ q # p
    BY <1>2 DEF Unborn, NoneUnborn
  <2>2. \A i \in 1..Len(events) : events[i].pid \in Pid
    BY EventsTyped DEF SchedInv, EventRecords
  <2>3. \A q \in Pid : status'[q] = "unborn" => q \notin ToSet(ready') /\ q # current' /\ q \notin handled'
    BY <1>1, <1>4, <2>1 DEF SchedInv, Births, Outside
  <2>4. \A i \in 1..Len(events') : status'[events'[i].pid] # "unborn"
    BY <1>1, <2>1, <2>2 DEF SchedInv, Births
  <2>5. \A i \in 1..Len(events') : events'[i].kind = "spawned" =>
          /\ events'[i].pid \notin ToSet(ready') /\ events'[i].pid # current'
          /\ events'[i].pid \notin handled'
    BY <1>1, <1>4, <1>6 DEF SchedInv, Births, Outside
  <2>6. \A i, j \in 1..Len(events') :
          events'[i].kind = "spawned" /\ events'[j].pid = events'[i].pid => i <= j
    BY <1>1 DEF SchedInv, Births
  <2> QED
    BY <2>3, <2>4, <2>5, <2>6 DEF Births, Unborn, Outside
<1>8. ASSUME Whole PROVE Whole'
  <2>1. current' \notin ToSet(ready') /\ IsInjective(ready')
    BY <1>1, <1>4, <1>6, <1>8 DEF Whole, Outside
  <2>2. \A q \in handled' : q # current' /\ q \notin ToSet(ready')
    BY <1>1, <1>4, <1>6, <1>8 DEF Whole, Outside
  <2>3. OccupantIndexed'
    BY <1>1, <1>8 DEF Whole, OccupantIndexed
  <2>4. \A q \in Pid : q \in ToSet(ready') \/ Unborn(q)' \/ Announced(q)' => Off(cores', q)
    BY <1>1, <1>2, <1>4, <1>8 DEF Whole, Off, Unborn, Announced, NoneUnborn
  <2> QED
    BY <2>1, <2>2, <2>3, <2>4 DEF Whole
<1> QED
  BY <1>1, <1>5, <1>7, <1>8 DEF SchedInv

-----------------------------------------------------------------------------
(* The bus worker                                                          *)

LEMMA EventsDelivered ==
  ASSUME Typed, events # << >>
  PROVE  /\ Head(events) = events[1] /\ 1 \in 1..Len(events) /\ events[1] \in EventRecords
         /\ events[1].pid \in Pid
         /\ Tail(events) \in Seq(EventRecords)
         /\ \A i \in 1..Len(Tail(events)) :
              i + 1 \in 1..Len(events) /\ Tail(events)[i] = events[i + 1]
<1>1. Len(events) \in Nat /\ \A i \in 1..Len(events) : events[i] \in EventRecords
  BY EventsTyped
<1>2. /\ Head(events) \in EventRecords /\ Tail(events) \in Seq(EventRecords)
      /\ Len(events) # 0
      /\ Len(Tail(events)) = Len(events) - 1
      /\ \A i \in 1..Len(Tail(events)) : Tail(events)[i] = events[i + 1]
  BY HeadTailProperties, EmptySeq DEF Typed
<1>3. Head(events) = events[1]
  BY DEF Typed
<1> QED
  BY <1>1, <1>2, <1>3 DEF EventRecords

\* The announced process comes into the queue; nothing before this was about it.
LEMMA SpawnedKeeps ==
  ASSUME SchedInv, Deliver, Head(events).kind = "spawned"
  PROVE  SchedInv'
<1> DEFINE p == events[1].pid
<1>1. /\ UNCHANGED <<cores, proc_core, current, algorithm, quantum_ticks, status, handled,
                     panicked, dispatched>>
      /\ events # << >> /\ events' = Tail(events) /\ ready' = Append(ready, Head(events).pid)
      /\ \E burst \in Bursts \ {0} :
           job' = [job EXCEPT ![Head(events).pid] = NewJob(burst, DefaultPrio, 0, FALSE)]
  BY DEF Deliver, OnProcessSpawned, history
<1>2. /\ Head(events) = events[1] /\ 1 \in 1..Len(events) /\ p \in Pid
      /\ events' \in Seq(EventRecords)
      /\ \A i \in 1..Len(events') : i + 1 \in 1..Len(events) /\ events'[i] = events[i + 1]
  BY <1>1, EventsDelivered DEF SchedInv
<1>3. Outside(p) /\ ~Unborn(p) /\ Announced(p)
  BY <1>2 DEF SchedInv, Births, Announced
<1>4. \A i \in 1..Len(events') : events'[i].kind = "spawned" => events'[i].pid # p
  BY <1>2 DEF SchedInv, Births
<1>5. job' \in [Pid -> Jobs]
  <2>1. PICK burst \in Bursts : job' = [job EXCEPT ![p] = NewJob(burst, DefaultPrio, 0, FALSE)]
    BY <1>1, <1>2
  <2>2. NewJob(burst, DefaultPrio, 0, FALSE) \in Jobs
    BY <2>1, SchedulerAssumption, NewJobTyped
  <2> QED
    BY <2>1, <2>2 DEF SchedInv, Typed
<1> HIDE DEF p
<1>6. /\ ready' \in Seq(Pid) /\ ToSet(ready') = ToSet(ready) \cup {p}
      /\ IsInjective(ready) /\ p \notin ToSet(ready) => IsInjective(ready')
  BY <1>1, <1>2, AppendMembers DEF SchedInv, Typed, p
<1>7. Typed'
  BY <1>1, <1>2, <1>5, <1>6 DEF SchedInv, Typed, PoolOK
<1>8. Births'
  <2>1. \A q \in Pid : Unborn(q)' => Outside(q)'
    BY <1>1, <1>3, <1>6 DEF SchedInv, Births, Unborn, Outside
  <2>2. \A i \in 1..Len(events') : status'[events'[i].pid] # "unborn"
    BY <1>1, <1>2 DEF SchedInv, Births, Unborn
  <2>3. \A i \in 1..Len(events') : events'[i].kind = "spawned" =>
          /\ events'[i].pid \notin ToSet(ready') /\ events'[i].pid # current'
          /\ events'[i].pid \notin handled'
    BY <1>1, <1>2, <1>4, <1>6 DEF SchedInv, Births, Outside
  <2>4. \A i, j \in 1..Len(events') :
          events'[i].kind = "spawned" /\ events'[j].pid = events'[i].pid => i <= j
    <3> SUFFICES ASSUME NEW i \in 1..Len(events'), NEW j \in 1..Len(events'),
                        events'[i].kind = "spawned", events'[j].pid = events'[i].pid
                 PROVE  i <= j
      OBVIOUS
    <3>1. i + 1 <= j + 1
      BY <1>2 DEF SchedInv, Births
    <3>2. i \in Int /\ j \in Int
      OBVIOUS
    <3> QED
      BY <3>1, <3>2
  <2> QED
    BY <2>1, <2>2, <2>3, <2>4 DEF Births, Unborn, Outside
<1>9. ASSUME Whole PROVE Whole'
  <2>1. current' \notin ToSet(ready') /\ IsInjective(ready')
    BY <1>1, <1>3, <1>6, <1>9 DEF Whole, Outside
  <2>2. \A q \in handled' : q # current' /\ q \notin ToSet(ready')
    BY <1>1, <1>3, <1>6, <1>9 DEF Whole, Outside
  <2>3. OccupantIndexed'
    BY <1>1, <1>9 DEF Whole, OccupantIndexed
  <2>4. \A q \in Pid : Announced(q)' => Announced(q)
    BY <1>2 DEF Announced
  <2>5. \A q \in Pid : q \in ToSet(ready') \/ Unborn(q)' \/ Announced(q)' => Off(cores', q)
    BY <1>1, <1>2, <1>3, <1>6, <1>9, <2>4 DEF Whole, Off, Unborn
  <2> QED
    BY <2>1, <2>2, <2>3, <2>5 DEF Whole
<1> QED
  BY <1>1, <1>7, <1>8, <1>9 DEF SchedInv

\* The dead process leaves the queue or the CPU, and was announced before it died.
LEMMA DeathKeeps ==
  ASSUME SchedInv, Deliver, Head(events).kind # "spawned"
  PROVE  SchedInv'
<1> DEFINE p == events[1].pid
<1>1. /\ events # << >> /\ events' = Tail(events)
      /\ RemoveProcess(Head(events).pid) /\ handled' = handled \cup {Head(events).pid}
      /\ UNCHANGED <<job, algorithm, dispatched>>
  BY DEF Deliver, OnProcDeath
<1>2. /\ Head(events) = events[1] /\ 1 \in 1..Len(events) /\ p \in Pid
      /\ events' \in Seq(EventRecords)
      /\ \A i \in 1..Len(events') : i + 1 \in 1..Len(events) /\ events'[i] = events[i + 1]
  BY <1>1, EventsDelivered DEF SchedInv
<1>3. ~Unborn(p) /\ \A i \in 1..Len(events') : events'[i].kind = "spawned" => events'[i].pid # p
  BY <1>2 DEF SchedInv, Births
<1>4. handled' = handled \cup {p} /\ RemoveProcess(p)
  BY <1>1, <1>2
<1> HIDE DEF p
<1>5. /\ PoolOK' /\ ready' \in Seq(Pid) /\ current' \in Pid \cup {NoPid}
      /\ quantum_ticks' \in Nat /\ panicked' \in BOOLEAN
      /\ status' \in [Pid -> Statuses] /\ NoneUnborn(status, status')
      /\ ToSet(ready') \subseteq ToSet(ready)
      /\ current' \in {current, NoPid}
      /\ panicked => panicked'
      /\ Whole /\ ~panicked' =>
           /\ IsInjective(ready') /\ current' # p /\ p \notin ToSet(ready') /\ OccupantIndexed'
           /\ \A q \in Pid : Off(cores, q) => Off(cores', q)
  <2>1. CASE current = p
    <3>1. PreemptRemoved
      BY <1>4, <2>1 DEF RemoveProcess
    <3>2. /\ PoolOK'
          /\ \A q \in Pid : Off(cores, q) => Off(cores', q)
          /\ OccupantIndexed => OccupantIndexed'
      <4>1. Release(p) /\ PoolOK /\ p \in Pid
        BY <3>1, <2>1, <1>2 DEF PreemptRemoved, SchedInv, Typed
      <4>2. cores' = ReleasedCores(p)
        BY <4>1 DEF Release
      <4> QED
        BY <4>1, <4>2, ReleaseTyped, ReleaseKeeps, ReleasedPool DEF PoolInv
    <3>3. /\ ready' = ready /\ current' \in {current, NoPid} /\ quantum_ticks' \in Nat
          /\ ~ReleaseRaises(current) => current' = NoPid
      BY <3>1 DEF PreemptRemoved, SchedInv, Typed
    <3>4. panicked' = (panicked \/ ReleaseRaises(current))
      BY <3>1 DEF PreemptRemoved
    <3>5. status' \in [Pid -> Statuses] /\ NoneUnborn(status, status')
      BY <3>1, <2>1, <1>2 DEF PreemptRemoved, SchedInv, Typed, Statuses, NoneUnborn
    <3>6. panicked' \in BOOLEAN /\ (panicked => panicked') /\ (~panicked' => ~ReleaseRaises(current))
      BY <3>4, Zenon
    <3>7. Whole => IsInjective(ready) /\ current \notin ToSet(ready) /\ OccupantIndexed
      BY DEF Whole
    <3> QED
      BY <3>2, <3>3, <3>5, <3>6, <3>7, <2>1, <1>2, NoPidAssumption DEF SchedInv, Typed
  <2>2. CASE current # p
    <3>1. /\ ready' = Without(ready, p)
          /\ UNCHANGED <<current, quantum_ticks, cores, proc_core, status, panicked>>
      BY <1>4, <2>2 DEF RemoveProcess
    <3>2. /\ ready' \in Seq(Pid) /\ ToSet(ready') \subseteq ToSet(ready) \ {p}
          /\ IsInjective(ready) => IsInjective(ready')
      BY <3>1, WithoutMembers DEF SchedInv, Typed
    <3>3. PoolOK' /\ (OccupantIndexed => OccupantIndexed') /\ NoneUnborn(status, status')
          /\ \A q \in Pid : Off(cores, q) => Off(cores', q)
      BY <3>1 DEF SchedInv, Typed, PoolOK, OccupantIndexed, NoneUnborn, Off
    <3>4. panicked' = panicked
      BY <3>1
    <3>5. panicked' \in BOOLEAN /\ (panicked => panicked')
      BY <3>4 DEF SchedInv, Typed
    <3>6. Whole => IsInjective(ready) /\ OccupantIndexed
      BY DEF Whole
    <3> QED
      BY <3>1, <3>2, <3>3, <3>5, <3>6, <2>2 DEF SchedInv, Typed
  <2> QED
    BY <2>1, <2>2
<1>6. Typed'
  <2>1. job' \in [Pid -> Jobs] /\ algorithm' \in Algorithms /\ dispatched' \in Pid \cup {NoPid}
        /\ handled' \subseteq Pid
    BY <1>1, <1>2, <1>4 DEF SchedInv, Typed
  <2> QED
    BY <1>2, <1>5, <2>1 DEF Typed
<1>7. /\ \A q \in Pid : status'[q] = "unborn" => Unborn(q) /\ q # p
      /\ \A q \in Pid : Outside(q) /\ q # p =>
           q \notin ToSet(ready') /\ q # current' /\ q \notin handled'
  BY <1>3, <1>4, <1>5, NoPidAssumption DEF Outside, Unborn, NoneUnborn
<1>8. Births'
  <2>1. \A q \in Pid : status'[q] = "unborn" =>
          q \notin ToSet(ready') /\ q # current' /\ q \notin handled'
    BY <1>7 DEF SchedInv, Births
  <2>0. \A i \in 1..Len(events') : events'[i].pid \in Pid
    BY <1>2, EventsTyped DEF SchedInv, EventRecords
  <2>2. \A i \in 1..Len(events') : status'[events'[i].pid] # "unborn"
    BY <1>2, <1>7, <2>0 DEF SchedInv, Births
  <2>3. \A i \in 1..Len(events') : events'[i].kind = "spawned" =>
          /\ events'[i].pid \notin ToSet(ready') /\ events'[i].pid # current'
          /\ events'[i].pid \notin handled'
    BY <1>2, <1>3, <1>7, <2>0 DEF SchedInv, Births
  <2>4. \A i, j \in 1..Len(events') :
          events'[i].kind = "spawned" /\ events'[j].pid = events'[i].pid => i <= j
    <3> SUFFICES ASSUME NEW i \in 1..Len(events'), NEW j \in 1..Len(events'),
                        events'[i].kind = "spawned", events'[j].pid = events'[i].pid
                 PROVE  i <= j
      OBVIOUS
    <3>1. i + 1 <= j + 1
      BY <1>2 DEF SchedInv, Births
    <3>2. i \in Int /\ j \in Int
      OBVIOUS
    <3> QED
      BY <3>1, <3>2
  <2> QED
    BY <2>1, <2>2, <2>3, <2>4 DEF Births, Unborn, Outside
<1>9. ASSUME Whole, ~panicked' PROVE Whole'
  <2>1. /\ IsInjective(ready') /\ current' # p /\ p \notin ToSet(ready') /\ OccupantIndexed'
        /\ \A q \in Pid : Off(cores, q) => Off(cores', q)
    BY <1>5, <1>9
  <2>2. current' \notin ToSet(ready')
    BY <1>5, <1>6, <1>9, MembersType, NoPidAssumption DEF Whole, SchedInv, Typed
  <2>3. \A q \in handled' : q # current' /\ q \notin ToSet(ready')
    BY <1>4, <1>5, <1>6, <1>9, <2>1, NoPidAssumption DEF Whole, Typed
  <2>4. \A q \in Pid : Announced(q)' => Announced(q)
    BY <1>2 DEF Announced
  <2>5. \A q \in Pid : q \in ToSet(ready') \/ Unborn(q)' \/ Announced(q)' => Off(cores', q)
    BY <1>5, <1>7, <1>9, <2>1, <2>4 DEF Whole, Unborn
  <2> QED
    BY <2>1, <2>2, <2>3, <2>5 DEF Whole
<1> QED
  BY <1>5, <1>6, <1>8, <1>9 DEF SchedInv

-----------------------------------------------------------------------------
(* The clock tick                                                          *)

\* Step 3 takes one of the queue, or leaves the CPU free: types, after panics too.
LEMMA FreeCpuTyped ==
  ASSUME Typed, NEW queue \in Seq(Pid), NEW jobs \in [Pid -> Jobs], NEW pool \in Pools,
         NEW index \in Indexes, NEW st \in [Pid -> Statuses],
         FreeCpu(queue, jobs, pool, index, st)
  PROVE  /\ PoolOK' /\ ready' \in Seq(Pid) /\ ToSet(ready') \subseteq ToSet(queue)
         /\ current' \in ToSet(queue) \cup {NoPid}
         /\ status' \in [Pid -> Statuses] /\ NoneUnborn(st, status')
         /\ dispatched' \in Pid \cup {NoPid}
<1>1. CASE queue = << >>
  <2>1. /\ ready' = queue /\ current' = NoPid /\ cores' = pool /\ proc_core' = index
        /\ status' = st /\ dispatched' = dispatched
    BY <1>1 DEF FreeCpu
  <2>2. PoolOK'
    BY <2>1 DEF PoolOK, Pools, Indexes
  <2> QED
    BY <2>1, <2>2 DEF Typed, NoneUnborn
<1>2. CASE queue # << >>
  <2> DEFINE p == SelectNext(queue, jobs)
  <2>1. p \in ToSet(queue) /\ p \in Pid
    BY <1>2, SelectNextMember, MembersType DEF Typed
  <2>2. /\ ready' = RemoveFirst(queue, p) /\ current' = p
        /\ \E c \in AssignChoices(pool) :
             /\ cores' = AssignedCores(pool, p, c)
             /\ proc_core' = AssignedIndex(pool, index, p, c)
        /\ status' = Switched(Marked(st, p, "running"), p)
        /\ dispatched' \in {dispatched, p}
    BY <1>2 DEF FreeCpu, TakeNext, Dequeued
  <2> HIDE DEF p
  <2>3. PoolOK'
    <3>1. cores' \in Pools /\ proc_core' \in Indexes
      BY <2>1, <2>2, AssignedTyped
    <3> QED
      BY <3>1 DEF PoolOK, Pools, Indexes
  <2>4. ready' \in Seq(Pid) /\ ToSet(ready') \subseteq ToSet(queue)
    BY <2>1, <2>2, RemoveFirstMembers
  <2>5. status' \in [Pid -> Statuses] /\ NoneUnborn(st, status')
    <3>1. "running" \in Statuses \ {"unborn"}
      BY DEF Statuses
    <3>2. Marked(st, p, "running") \in [Pid -> Statuses] /\ NoneUnborn(st, Marked(st, p, "running"))
      BY <2>1, <3>1, MarkedStatus
    <3>3. status' \in [Pid -> Statuses] /\ NoneUnborn(Marked(st, p, "running"), status')
      BY <2>1, <2>2, <3>2, SwitchedStatus
    <3> QED
      BY <3>2, <3>3 DEF NoneUnborn
  <2> QED
    BY <2>1, <2>2, <2>3, <2>4, <2>5 DEF Typed
<1> QED
  BY <1>1, <1>2

\* When the queue is in order and its processes are on no core, so it stays.
LEMMA FreeCpuWhole ==
  ASSUME Typed, NEW queue \in Seq(Pid), NEW jobs \in [Pid -> Jobs], NEW pool \in Pools,
         NEW index \in Indexes, NEW st \in [Pid -> Statuses],
         FreeCpu(queue, jobs, pool, index, st),
         IsInjective(queue), Agrees(pool, index), \A q \in ToSet(queue) : Off(pool, q)
  PROVE  /\ current' \notin ToSet(ready') /\ IsInjective(ready') /\ OccupantIndexed'
         /\ \A q \in Pid \ {current'} : Off(pool, q) => Off(cores', q)
<1>1. CASE queue = << >>
  <2>1. ready' = queue /\ current' = NoPid /\ cores' = pool /\ proc_core' = index
    BY <1>1 DEF FreeCpu
  <2>2. NoPid \notin ToSet(queue)
    BY MembersType, NoPidAssumption
  <2> QED
    BY <2>1, <2>2 DEF OccupantIndexed, Agrees
<1>2. CASE queue # << >>
  <2> DEFINE p == SelectNext(queue, jobs)
  <2>1. p \in ToSet(queue) /\ p \in Pid
    BY <1>2, SelectNextMember, MembersType DEF Typed
  <2>2. /\ ready' = RemoveFirst(queue, p) /\ current' = p
        /\ \E c \in AssignChoices(pool) :
             /\ cores' = AssignedCores(pool, p, c)
             /\ proc_core' = AssignedIndex(pool, index, p, c)
    BY <1>2 DEF FreeCpu, TakeNext, Dequeued
  <2> HIDE DEF p
  <2>3. current' \notin ToSet(ready') /\ IsInjective(ready')
    BY <2>1, <2>2, RemoveFirstMembers
  <2>4. PICK c \in AssignChoices(pool) :
          /\ cores' = AssignedCores(pool, p, c)
          /\ proc_core' = AssignedIndex(pool, index, p, c)
    BY <2>2
  <2>5. /\ Agrees(AssignedCores(pool, p, c), AssignedIndex(pool, index, p, c))
        /\ \A q \in Pid \ {p} : Off(pool, q) => Off(AssignedCores(pool, p, c), q)
    BY <2>1, AssignedAgrees
  <2>6. OccupantIndexed'
    BY <2>4, <2>5 DEF OccupantIndexed, Agrees
  <2> QED
    BY <2>2, <2>3, <2>4, <2>5, <2>6
<1> QED
  BY <1>1, <1>2

LEMMA TickIdleKeeps ==
  ASSUME SchedInv, TickIdle, UNCHANGED <<algorithm, handled>>
  PROVE  SchedInv'
<1>1. /\ current = NoPid /\ job' = Aged /\ quantum_ticks' = 0
      /\ FreeCpu(ready, Aged, cores, proc_core, status)
      /\ events' = events /\ panicked' = panicked
  BY DEF TickIdle
<1>2. /\ Typed /\ ready \in Seq(Pid) /\ Aged \in [Pid -> Jobs] /\ cores \in Pools
      /\ proc_core \in Indexes /\ status \in [Pid -> Statuses]
  BY AgedTyped, PoolIsArgument DEF SchedInv, Typed
<1>3. /\ PoolOK' /\ ready' \in Seq(Pid) /\ ToSet(ready') \subseteq ToSet(ready)
      /\ current' \in ToSet(ready) \cup {NoPid}
      /\ status' \in [Pid -> Statuses] /\ NoneUnborn(status, status')
      /\ dispatched' \in Pid \cup {NoPid}
  BY <1>1, <1>2, FreeCpuTyped
<1>4. Typed'
  BY <1>1, <1>2, <1>3, MembersType DEF Typed
<1>5. DeathAdded /\ NobodyNew
  BY <1>1, <1>3 DEF DeathAdded, NobodyNew
<1>6. Births'
  BY <1>5, BirthsKept DEF SchedInv
<1>7. ASSUME Whole PROVE Whole'
  <2>1. IsInjective(ready) /\ Agrees(cores, proc_core) /\ \A q \in ToSet(ready) : Off(cores, q)
    BY <1>2, <1>7, PoolIsArgument, MembersType DEF Whole
  <2>2. /\ current' \notin ToSet(ready') /\ IsInjective(ready') /\ OccupantIndexed'
        /\ \A q \in Pid \ {current'} : Off(cores, q) => Off(cores', q)
    BY <1>1, <1>2, <2>1, FreeCpuWhole
  <2>3. \A q \in Pid \ {current'} :
          q \in ToSet(ready') \/ (q \notin ToSet(ready) \cup {current} /\ Off(cores, q))
             => Off(cores', q)
    BY <1>3, <2>1, <2>2
  <2> QED
    BY <1>5, <1>7, <2>2, <2>3, WholeKept DEF SchedInv
<1> QED
  BY <1>1, <1>4, <1>6, <1>7 DEF SchedInv

LEMMA TickContinueKeeps ==
  ASSUME SchedInv, TickContinue, UNCHANGED <<algorithm, handled>>
  PROVE  SchedInv'
<1>1. /\ UNCHANGED <<ready, current, cores, proc_core, status, events, dispatched, panicked>>
      /\ current # NoPid /\ job' = Advanced(current)
      /\ quantum_ticks' \in {quantum_ticks + 1, quantum_ticks}
  BY DEF TickContinue, pmVars
<1>2. job' \in [Pid -> Jobs]
  BY <1>1, AdvancedTyped DEF SchedInv, Typed
<1>3. DeathAdded /\ NoneUnborn(status, status')
  BY <1>1 DEF DeathAdded, NoneUnborn
<1>4. Typed'
  BY <1>1, <1>2 DEF SchedInv, Typed, PoolOK
<1> QED
  BY <1>1, <1>3, <1>4, StayPut

\* The panic leaves the process both current and queued; what remains is the types and
\* the births.
LEMMA TickPanicKeeps ==
  ASSUME SchedInv, TickPanic, UNCHANGED <<algorithm, handled>>
  PROVE  SchedInv'
<1>1. /\ UNCHANGED <<current, events, dispatched>> /\ panicked' = TRUE
      /\ current \in Pid /\ job' = Advanced(current) /\ Release(current)
      /\ quantum_ticks' \in {quantum_ticks + 1, quantum_ticks}
      /\ ready' = Append(ready, current) /\ status' = Marked(status, current, "ready")
  BY DEF TickPanic, SchedInv, Typed
<1>2. job' \in [Pid -> Jobs]
  BY <1>1, AdvancedTyped DEF SchedInv, Typed
<1>3. ready' \in Seq(Pid) /\ ToSet(ready') = ToSet(ready) \cup {current}
  BY <1>1, AppendMembers DEF SchedInv, Typed
<1>4. status' \in [Pid -> Statuses] /\ NoneUnborn(status, status')
  <2>1. "ready" \in Statuses \ {"unborn"}
    BY DEF Statuses
  <2> QED
    BY <1>1, <2>1, MarkedStatus DEF SchedInv, Typed
<1>5. PoolOK'
  BY <1>1, ReleaseTyped DEF SchedInv, Typed
<1>6. panicked' \in BOOLEAN /\ panicked'
  BY <1>1
<1>7. Typed'
  BY <1>1, <1>2, <1>3, <1>4, <1>5, <1>6 DEF SchedInv, Typed
<1>8. DeathAdded /\ NobodyNew
  BY <1>1, <1>3, <1>4 DEF DeathAdded, NobodyNew
<1>9. Births'
  BY <1>8, BirthsKept DEF SchedInv
<1> QED
  BY <1>6, <1>7, <1>9 DEF SchedInv

\* The process finishes and keeps its core, or yields, is released and queued again.
LEMMA LeaveCpuKeeps ==
  ASSUME SchedInv, LeaveCpu, UNCHANGED <<algorithm, handled>>
  PROVE  SchedInv'
<1> DEFINE p      == current
           jobs   == Advanced(p)
           queue  == IF Yields(p) THEN Append(ready, p) ELSE ready
           pool   == IF Yields(p) THEN ReleasedCores(p) ELSE cores
           index  == IF Yields(p) THEN ReleasedIndex(p) ELSE proc_core
           marked == IF Finished(p) THEN Marked(status, p, "terminated")
                     ELSE IF Yields(p) THEN Marked(status, p, "ready") ELSE status
           killed == OverBudget(p) /\ Alive(marked, p)
           st     == IF killed THEN KilledStatus(marked, p) ELSE marked
<1>1. /\ p \in Pid /\ job' = jobs /\ quantum_ticks' = 0 /\ panicked' = panicked
      /\ events' = IF killed THEN events \o KillEvents(marked, p) ELSE events
      /\ FreeCpu(queue, jobs, pool, index, st)
  BY DEF LeaveCpu, SchedInv, Typed
<1>2. jobs \in [Pid -> Jobs]
  BY <1>1, AdvancedTyped DEF SchedInv, Typed
<1>3. /\ queue \in Seq(Pid) /\ ToSet(queue) \subseteq ToSet(ready) \cup {current}
      /\ ~Yields(p) => ToSet(queue) = ToSet(ready)
      /\ IsInjective(ready) /\ current \notin ToSet(ready) => IsInjective(queue)
  BY <1>1, AppendMembers DEF SchedInv, Typed
<1>4. pool \in Pools /\ index \in Indexes
  BY <1>1, ReleasedPool, PoolIsArgument DEF SchedInv, Typed
<1>5. marked \in [Pid -> Statuses] /\ NoneUnborn(status, marked)
  <2>1. {"ready", "terminated"} \subseteq Statuses \ {"unborn"}
    BY DEF Statuses
  <2>2. status \in [Pid -> Statuses] /\ NoneUnborn(status, status)
    BY DEF SchedInv, Typed, NoneUnborn
  <2>3. \A s \in {"ready", "terminated"} :
          Marked(status, p, s) \in [Pid -> Statuses] /\ NoneUnborn(status, Marked(status, p, s))
    BY <1>1, <2>1, <2>2, MarkedStatus
  <2> QED
    BY <2>2, <2>3
<1>6. st \in [Pid -> Statuses] /\ NoneUnborn(status, st)
  <2> HIDE DEF marked, killed
  <2>1. KilledStatus(marked, p) \in [Pid -> Statuses] /\ NoneUnborn(marked, KilledStatus(marked, p))
    BY <1>1, <1>5, KilledStatusKeeps
  <2> QED
    BY <1>5, <2>1 DEF NoneUnborn
<1>7. DeathAdded
  <2>1. CASE killed
    <3>1. events' = events \o <<Event("stopped", p)>> /\ marked[p] # "unborn"
      BY <1>1, <2>1 DEF KillEvents, Alive
    <3>2. ~Unborn(p)
      BY <1>1 DEF SchedInv, Births, Outside
    <3>3. events \o <<Event("stopped", p)>> = Append(events, Event("stopped", p))
      <4>1. Event("stopped", p) \in EventRecords /\ events \in Seq(EventRecords)
        BY <1>1 DEF Event, EventRecords, SchedInv, Typed
      <4> QED
        BY <4>1, AppendIsConcat
    <3> QED
      BY <1>1, <3>1, <3>2, <3>3 DEF DeathAdded
  <2>2. CASE ~killed
    BY <1>1, <2>2 DEF DeathAdded
  <2> QED
    BY <2>1, <2>2
<1> HIDE DEF p, jobs, queue, pool, index, marked, killed, st
<1>8. /\ PoolOK' /\ ready' \in Seq(Pid) /\ ToSet(ready') \subseteq ToSet(queue)
      /\ current' \in ToSet(queue) \cup {NoPid}
      /\ status' \in [Pid -> Statuses] /\ NoneUnborn(st, status')
      /\ dispatched' \in Pid \cup {NoPid}
  BY <1>1, <1>2, <1>3, <1>4, <1>6, FreeCpuTyped DEF SchedInv
<1>9. NobodyNew
  BY <1>3, <1>6, <1>8 DEF NobodyNew, NoneUnborn
<1>10. Typed'
  <2>1. events' \in Seq(EventRecords)
    BY <1>7, EventsGrown DEF SchedInv
  <2>2. current' \in Pid \cup {NoPid}
    BY <1>3, <1>8, MembersType
  <2> QED
    BY <1>1, <1>2, <1>8, <2>1, <2>2 DEF SchedInv, Typed
<1>11. Births'
  BY <1>7, <1>9, BirthsKept DEF SchedInv
<1>12. ASSUME Whole PROVE Whole'
  <2>1. IsInjective(queue)
    BY <1>3, <1>12 DEF Whole
  <2>2. /\ Agrees(pool, index) /\ \A q \in Pid : Off(cores, q) => Off(pool, q)
        /\ Yields(p) => Off(pool, p)
    BY <1>1, <1>12, ReleasedPool, PoolIsArgument DEF SchedInv, Typed, Whole, pool, index
  <2>3. \A q \in ToSet(ready) : q \in Pid /\ Off(cores, q)
    BY <1>12, MembersType DEF SchedInv, Typed, Whole
  <2>4. \A q \in ToSet(queue) : Off(pool, q)
    BY <1>1, <1>3, <2>2, <2>3 DEF p
  <2>5. /\ current' \notin ToSet(ready') /\ IsInjective(ready') /\ OccupantIndexed'
        /\ \A q \in Pid \ {current'} : Off(pool, q) => Off(cores', q)
    BY <1>1, <1>2, <1>3, <1>4, <1>6, <2>1, <2>2, <2>4, FreeCpuWhole DEF SchedInv
  <2>6. \A q \in Pid \ {current'} :
          q \in ToSet(ready') \/ (q \notin ToSet(ready) \cup {current} /\ Off(cores, q))
             => Off(cores', q)
    BY <1>8, <2>2, <2>4, <2>5
  <2> QED
    BY <1>7, <1>9, <1>12, <2>5, <2>6, WholeKept DEF SchedInv
<1> QED
  BY <1>1, <1>10, <1>11, <1>12 DEF SchedInv

-----------------------------------------------------------------------------
(* The core pool, and the theorems                                         *)

LEMMA CorePoolKeeps ==
  ASSUME SchedInv, CorePool
  PROVE  SchedInv'
<1>1. /\ UNCHANGED <<ready, current, algorithm, quantum_ticks, job, status, events, dispatched,
                     handled, panicked>>
      /\ Rebalance \/ \E n \in CoreCounts : SetCoreCount(n)
  BY DEF CorePool, schedVars, pmVars, history
<1>2. /\ PoolOK' /\ (OccupantIndexed => OccupantIndexed')
      /\ \A q \in Pid : Off(cores, q) => Off(cores', q)
  BY <1>1, CorePoolTyped DEF SchedInv, Typed
<1>3. Typed'
  BY <1>1, <1>2 DEF SchedInv, Typed
<1>4. DeathAdded /\ NobodyNew
  BY <1>1 DEF DeathAdded, NobodyNew, NoneUnborn
<1>5. Births'
  BY <1>4, BirthsKept DEF SchedInv
<1>6. ASSUME Whole PROVE Whole'
  <2>1. current' \notin ToSet(ready') /\ IsInjective(ready') /\ OccupantIndexed'
    BY <1>1, <1>2, <1>6 DEF Whole
  <2>2. \A q \in Pid \ {current'} :
          q \in ToSet(ready') \/ (q \notin ToSet(ready) \cup {current} /\ Off(cores, q))
             => Off(cores', q)
    BY <1>1, <1>2, <1>6 DEF Whole
  <2> QED
    BY <1>4, <1>6, <2>1, <2>2, WholeKept DEF SchedInv
<1> QED
  BY <1>1, <1>3, <1>5, <1>6 DEF SchedInv

LEMMA NothingKeeps ==
  ASSUME SchedInv, UNCHANGED vars
  PROVE  SchedInv'
<1>1. UNCHANGED <<cores, proc_core, ready, current, algorithm, quantum_ticks, job, status,
                  events, dispatched, handled, panicked>>
  BY DEF vars, schedVars, pmVars, history
<1>2. Typed' /\ DeathAdded /\ NoneUnborn(status, status')
  BY <1>1 DEF SchedInv, Typed, PoolOK, DeathAdded, NoneUnborn
<1> QED
  BY <1>1, <1>2, StayPut

LEMMA SchedStep == SchedInv /\ [Next]_vars => SchedInv'
<1> SUFFICES ASSUME SchedInv, [Next]_vars PROVE SchedInv'
  OBVIOUS
<1>1. ASSUME NEW p \in Pid, Spawn(p) \/ Register(p) \/ Complete(p) \/ Kill(p) \/ Reap(p)
      PROVE  SchedInv'
  BY <1>1, SpawnKeeps, RegisterKeeps, CompleteKeeps, KillKeeps, ReapKeeps
<1>2. ASSUME NEW a \in Algorithms, SetAlgorithm(a) PROVE SchedInv'
  BY <1>2, AlgorithmKeeps
<1>3. CASE Deliver
  BY <1>3, SpawnedKeeps, DeathKeeps
<1>4. CASE Tick
  BY <1>4, TickIdleKeeps, TickContinueKeeps, TickPanicKeeps, LeaveCpuKeeps DEF Tick
<1>5. CASE CorePool
  BY <1>5, CorePoolKeeps
<1>6. CASE UNCHANGED vars
  BY <1>6, NothingKeeps
<1> QED
  BY <1>1, <1>2, <1>3, <1>4, <1>5, <1>6 DEF Next

LEMMA SchedInvariant == Spec => []SchedInv
<1> QED
  BY InitSched, SchedStep, PTL DEF Spec

\* Whatever is spawned, registered, killed, completed or reaped, and in whatever order the
\* bus tells the scheduler: a process is current, queued once, or neither, and once its
\* death has been handled it is never scheduled again, except through a kernel panic
\* (Scheduler.ready_queue, current_process, _on_process_spawned, remove_process).
THEOREM SchedulerIsSound == Spec => []SchedulerSound
<1>1. SchedInv => SchedulerSound
  <2> SUFFICES ASSUME SchedInv PROVE SchedulerSound
    OBVIOUS
  <2>1. TypeOK
    <3>1. MceTypeOK
      BY PoolIsTyped DEF SchedInv, Typed
    <3>2. \A p \in Pid : /\ job[p].remaining \in 0..job[p].burst
                         /\ job[p].priority \in 1..MaxPrio
                         /\ job[p].waited \in 0..(AgingThreshold - 1)
      <4> SUFFICES ASSUME NEW p \in Pid
                   PROVE  /\ job[p].remaining \in 0..job[p].burst
                          /\ job[p].priority \in 1..MaxPrio
                          /\ job[p].waited \in 0..(AgingThreshold - 1)
        OBVIOUS
      <4>1. job[p] \in Jobs
        BY DEF SchedInv, Typed
      <4>2. /\ job[p].remaining \in Nat /\ job[p].burst \in Nat
            /\ job[p].remaining <= job[p].burst
            /\ job[p].priority \in 1..MaxPrio /\ job[p].waited \in 0..(AgingThreshold - 1)
        BY <4>1 DEF Jobs
      <4> QED
        BY <4>2
    <3> QED
      BY <3>1, <3>2 DEF SchedInv, Typed, TypeOK, Statuses, EventRecords
  <2>2. OnePlace /\ HandledStayOut
    BY DEF SchedInv, Whole, OnePlace, HandledStayOut
  <2> QED
    BY <2>1, <2>2 DEF SchedulerSound
<1> QED
  BY <1>1, SchedInvariant, PTL

\* As long as no release has panicked, whoever is on a core is indexed there, and so on no
\* other, with the scheduler as the pool's only client (MulticoreEngine._proc_core).
THEOREM CoresStayIndexed == Spec => []CoresIndexed
<1>1. SchedInv => CoresIndexed
  BY DEF SchedInv, Whole, CoresIndexed
<1> QED
  BY <1>1, SchedInvariant, PTL
=============================================================================
