------------------------ MODULE DeadlockManager_proofs ------------------------
(***************************************************************************)
(* Proofs about the resource table, for any finite set of processes, any   *)
(* resources and totals, and any priorities.                               *)
(*                                                                         *)
(* Typing, NoIdleUnit, the order of the queues, TableSound, the agreement  *)
(* of the two views and the account of units hold whatever the processes   *)
(* ask for; the last three rest on the inductive invariant Allotment.  The *)
(* clean-up after a death and the refinement of FifoResources hold when no *)
(* process asks again for what it holds or awaits (~Reentrant); they rest  *)
(* on the inductive invariant Ledger.                                      *)
(***************************************************************************)
EXTENDS DeadlockManager, FiniteSetTheorems, SequenceTheorems, TLAPS

-----------------------------------------------------------------------------
(* Queues *)

InQueue(q, p) == \E i \in 1..Len(q) : q[i] = p
Distinct(q)   == \A i, j \in 1..Len(q) : q[i] = q[j] => i = j

\* Taking a process out of a queue leaves a queue of processes.
LEMMA WithoutType ==
  ASSUME NEW q \in Seq(Pid), NEW p
  PROVE  Without(q, p) \in Seq(Pid)
<1>1. CASE InQueue(q, p)
  <2> DEFINE k == CHOOSE i \in 1..Len(q) : q[i] = p
             w == [j \in 1..(Len(q) - 1) |-> IF j < k THEN q[j] ELSE q[j + 1]]
  <2>1. Len(q) \in Nat /\ k \in 1..Len(q)
    BY <1>1 DEF InQueue
  <2>2. w \in [1..(Len(q) - 1) -> Pid] /\ Len(q) - 1 \in Nat
    BY <2>1
  <2>3. w \in Seq(Pid)
    BY <2>2
  <2> QED
    BY <2>3, <1>1 DEF Without, InQueue
<1>2. CASE ~InQueue(q, p)
  BY <1>2 DEF Without, InQueue
<1> QED
  BY <1>1, <1>2

\* Nothing appears in an empty queue by taking someone out of it.
LEMMA WithoutNonEmpty ==
  ASSUME NEW q \in Seq(Pid), NEW p, Without(q, p) # <<>>
  PROVE  q # <<>>
BY DEF Without

\* In a queue without repetitions exactly that process leaves.
LEMMA WithoutMembers ==
  ASSUME NEW q \in Seq(Pid), NEW p, Distinct(q)
  PROVE  /\ Distinct(Without(q, p))
         /\ \A x : InQueue(Without(q, p), x) <=> InQueue(q, x) /\ x # p
<1>1. CASE InQueue(q, p)
  <2> DEFINE k == CHOOSE i \in 1..Len(q) : q[i] = p
             w == [j \in 1..(Len(q) - 1) |-> IF j < k THEN q[j] ELSE q[j + 1]]
  <2>1. Len(q) \in Nat /\ k \in 1..Len(q) /\ q[k] = p
    BY <1>1 DEF InQueue
  <2>2. Without(q, p) = w /\ Len(w) = Len(q) - 1
    BY <2>1, <1>1 DEF Without, InQueue
  <2>3. \A j \in 1..Len(w) : w[j] = IF j < k THEN q[j] ELSE q[j + 1]
    BY <2>2
  <2> HIDE DEF k, w
  <2>4. Distinct(w)
    BY <2>1, <2>2, <2>3 DEF Distinct
  <2>5. ASSUME NEW x, InQueue(w, x) PROVE InQueue(q, x) /\ x # p
    BY <2>1, <2>2, <2>3, <2>5 DEF Distinct, InQueue
  <2>6. ASSUME NEW x, InQueue(q, x), x # p PROVE InQueue(w, x)
    <3>1. PICK i \in 1..Len(q) : q[i] = x
      BY <2>6 DEF InQueue
    <3>2. CASE i < k
      BY <2>1, <2>2, <2>3, <3>1, <3>2 DEF InQueue
    <3>3. CASE i > k
      <4>1. i - 1 \in 1..Len(w) /\ w[i - 1] = x
        BY <2>1, <2>2, <2>3, <3>1, <3>3
      <4> QED
        BY <4>1 DEF InQueue
    <3> QED
      BY <2>1, <2>6, <3>1, <3>2, <3>3
  <2> QED
    BY <2>2, <2>4, <2>5, <2>6
<1>2. CASE ~InQueue(q, p)
  BY <1>2 DEF Without, InQueue
<1> QED
  BY <1>1, <1>2

\* The head leaves, the others stay.
LEMMA TailMembers ==
  ASSUME NEW q \in Seq(Pid), q # <<>>, Distinct(q)
  PROVE  /\ Distinct(Tail(q))
         /\ \A x : InQueue(Tail(q), x) <=> InQueue(q, x) /\ x # Head(q)
<1>1. Len(q) \in Nat \ {0} /\ Head(q) = q[1] /\ Len(Tail(q)) = Len(q) - 1
  OBVIOUS
<1>2. \A i \in 1..Len(Tail(q)) : Tail(q)[i] = q[i + 1]
  OBVIOUS
<1>3. Distinct(Tail(q))
  BY <1>1, <1>2 DEF Distinct
<1>4. ASSUME NEW x, InQueue(Tail(q), x) PROVE InQueue(q, x) /\ x # Head(q)
  BY <1>1, <1>2, <1>4 DEF Distinct, InQueue
<1>5. ASSUME NEW x, InQueue(q, x), x # Head(q) PROVE InQueue(Tail(q), x)
  <2>1. PICK i \in 1..Len(q) : q[i] = x
    BY <1>5 DEF InQueue
  <2>2. i - 1 \in 1..Len(Tail(q)) /\ Tail(q)[i - 1] = x
    BY <1>1, <1>2, <1>5, <2>1
  <2> QED
    BY <2>2 DEF InQueue
<1> QED
  BY <1>3, <1>4, <1>5

\* A process that joins is the only newcomer.
LEMMA AppendMembers ==
  ASSUME NEW q \in Seq(Pid), NEW p \in Pid, Distinct(q), ~InQueue(q, p)
  PROVE  /\ Distinct(Append(q, p))
         /\ \A x : InQueue(Append(q, p), x) <=> InQueue(q, x) \/ x = p
<1>1. Len(q) \in Nat /\ Len(Append(q, p)) = Len(q) + 1
  OBVIOUS
<1>2. \A i \in 1..Len(q) + 1 : Append(q, p)[i] = IF i <= Len(q) THEN q[i] ELSE p
  OBVIOUS
<1> QED
  BY <1>1, <1>2 DEF Distinct, InQueue
-----------------------------------------------------------------------------
(* Typing *)

\* Giving up a unit keeps the fields of a resource, and the counters of the
\* processes, within their types.
LEMMA AfterReleaseType ==
  ASSUME TypeOK, NEW p \in Pid, NEW r \in Rid
  PROVE  /\ Heir(r) \in SUBSET Pid
         /\ HoldersAfter(p, r) \in SUBSET Pid
         /\ AvailableAfter(r) \in Nat
         /\ QueueAfter(r) \in Seq(Pid)
         /\ \A q \in Pid : UnitsAfter(p, r, q) \in Nat
<1>1. waited_by[r] \in Seq(Pid) /\ held_by[r] \in SUBSET Pid /\ available[r] \in Nat
  BY DEF TypeOK
<1>2. \A q \in Pid : held[q][r] \in Nat
  BY DEF TypeOK
<1>3. Heir(r) \in SUBSET Pid
  BY <1>1 DEF Heir
<1>4. QueueAfter(r) \in Seq(Pid)
  BY <1>1 DEF QueueAfter, Heir
<1>5. ASSUME NEW q \in Pid PROVE UnitsAfter(p, r, q) \in Nat
  BY <1>2 DEF UnitsAfter, LastUnit
<1> QED
  BY <1>1, <1>3, <1>4, <1>5 DEF HoldersAfter, AvailableAfter

LEMMA RequestType ==
  ASSUME TypeOK, NEW p \in Pid, NEW r \in Rid, NEW prio \in Prio, Request(p, r, prio)
  PROVE  TypeOK'
<1>1. EffectivePrio(p, prio) \in Prio
  BY DEF TypeOK, EffectivePrio
<1>2. base_priority' \in [Pid -> Prio \cup {NoBase}]
  BY DEF TypeOK, Request
<1>3. CASE Grant(p, r, prio)
  <2>1. available' \in [Rid -> Nat] /\ held_by' \in [Rid -> SUBSET Pid]
    BY <1>3 DEF TypeOK, Grant
  <2>2. held' \in [Pid -> [Rid -> Nat]]
    BY <1>3 DEF TypeOK, Grant
  <2> QED
    BY <1>1, <1>2, <1>3, <2>1, <2>2 DEF TypeOK, Grant, Request
<1>4. CASE Enqueue(p, r, prio)
  <2>1. waited_by' \in [Rid -> Seq(Pid)]
    BY <1>4 DEF TypeOK, Enqueue
  <2>2. priority' \in [Pid -> Prio]
    BY <1>1, <1>4 DEF TypeOK, Enqueue, Lent
  <2> QED
    BY <1>2, <1>4, <2>1, <2>2 DEF TypeOK, Enqueue, Request
<1> QED
  BY <1>3, <1>4 DEF Request

LEMMA ReleaseType ==
  ASSUME TypeOK, NEW p \in Pid, NEW r \in Rid, Release(p, r)
  PROVE  TypeOK'
<1>1. held' \in [Pid -> [Rid -> Nat]]
  BY AfterReleaseType DEF TypeOK, Release
<1>2. priority' \in [Pid -> Prio]
  BY DEF TypeOK, Release
<1> QED
  BY <1>1, <1>2, AfterReleaseType DEF TypeOK, Release

LEMMA ReleaseAllType ==
  ASSUME TypeOK, NEW p \in Pid, ReleaseAll(p), resources' = resources,
         proc' \in [Pid -> {"alive", "stopping", "gone"}]
  PROVE  TypeOK'
<1>1. held_by' \in [Rid -> SUBSET Pid] /\ available' \in [Rid -> Nat]
  BY AfterReleaseType DEF TypeOK, ReleaseAll
<1>2. waited_by' \in [Rid -> Seq(Pid)]
  BY AfterReleaseType, WithoutType DEF TypeOK, ReleaseAll
<1>3. held' \in [Pid -> [Rid -> Nat]]
  BY AfterReleaseType DEF TypeOK, ReleaseAll
<1>4. priority' \in [Pid -> Prio] /\ base_priority' \in [Pid -> Prio \cup {NoBase}]
  BY PrioAssumption DEF TypeOK, ReleaseAll
<1> QED
  BY <1>1, <1>2, <1>3, <1>4 DEF TypeOK

LEMMA NextType == TypeOK /\ [Next]_vars => TypeOK'
<1> SUFFICES ASSUME TypeOK, [Next]_vars PROVE TypeOK'
  OBVIOUS
<1>1. ASSUME NEW r \in Rid, AddResource(r) PROVE TypeOK'
  <2>1. resources' \subseteq Rid /\ available' \in [Rid -> Nat]
    BY <1>1, TotalAssumption DEF TypeOK, AddResource
  <2>2. held_by' \in [Rid -> SUBSET Pid] /\ waited_by' \in [Rid -> Seq(Pid)]
    BY <1>1 DEF TypeOK, AddResource
  <2> QED
    BY <1>1, <2>1, <2>2 DEF TypeOK, AddResource
<1>2. ASSUME NEW r \in Rid, RemoveResource(r) PROVE TypeOK'
  BY <1>2 DEF TypeOK, RemoveResource
<1>3. ASSUME NEW p \in Pid, NEW r \in Rid, Release(p, r) PROVE TypeOK'
  BY <1>3, ReleaseType
<1>4. ASSUME NEW p \in Pid, NEW r \in Rid, NEW prio \in Prio, Request(p, r, prio)
      PROVE TypeOK'
  BY <1>4, RequestType
<1>5. ASSUME NEW p \in Pid, Kill(p) PROVE TypeOK'
  BY <1>5 DEF TypeOK, Kill
<1>6. ASSUME NEW p \in Pid, OnProcDeath(p) PROVE TypeOK'
  <2>1. proc' \in [Pid -> {"alive", "stopping", "gone"}]
    BY <1>6 DEF TypeOK, OnProcDeath
  <2> QED
    BY <1>6, <2>1, ReleaseAllType DEF OnProcDeath
<1>7. CASE UNCHANGED vars
  BY <1>7 DEF TypeOK, vars
<1> QED
  BY <1>1, <1>2, <1>3, <1>4, <1>5, <1>6, <1>7 DEF Next

\* Every variable keeps its type: free counts never go negative, priorities and
\* queues only ever hold priorities and processes.
THEOREM Typing == Spec => []TypeOK
<1>1. Init => TypeOK
  BY PrioAssumption DEF Init, TypeOK
<1> QED
  BY <1>1, NextType, PTL DEF Spec

-----------------------------------------------------------------------------
(* No unit is idle while someone waits for it *)

\* After a release the queue is empty or the count of free units is what it was.
LEMMA HandOff ==
  ASSUME TypeOK, NEW r \in Rid, waited_by[r] # <<>> => available[r] = 0,
         QueueAfter(r) # <<>>
  PROVE  AvailableAfter(r) = 0
BY DEF TypeOK, QueueAfter, AvailableAfter, Heir

LEMMA NextNoIdleUnit == TypeOK /\ NoIdleUnit /\ [Next]_vars => NoIdleUnit'
<1> SUFFICES ASSUME TypeOK, NoIdleUnit, [Next]_vars,
                    NEW r \in resources', waited_by'[r] # <<>>
             PROVE  available'[r] = 0
  BY DEF NoIdleUnit
<1>0. r \in Rid
  BY NextType DEF TypeOK
<1>1. ASSUME NEW a \in Rid, AddResource(a) PROVE available'[r] = 0
  BY <1>0, <1>1 DEF TypeOK, NoIdleUnit, AddResource
<1>2. ASSUME NEW a \in Rid, RemoveResource(a) PROVE available'[r] = 0
  BY <1>2 DEF NoIdleUnit, RemoveResource
<1>3. ASSUME NEW p \in Pid, NEW a \in Rid, Release(p, a) PROVE available'[r] = 0
  BY <1>0, <1>3, HandOff DEF TypeOK, NoIdleUnit, Release
<1>4. ASSUME NEW p \in Pid, NEW a \in Rid, NEW prio \in Prio, Request(p, a, prio)
      PROVE available'[r] = 0
  <2>1. CASE Grant(p, a, prio)
    BY <1>0, <1>4, <2>1 DEF TypeOK, NoIdleUnit, Request, Grant
  <2>2. CASE Enqueue(p, a, prio)
    BY <1>0, <1>4, <2>2 DEF TypeOK, NoIdleUnit, Request, Enqueue
  <2> QED
    BY <1>4, <2>1, <2>2 DEF Request
<1>5. ASSUME NEW p \in Pid, Kill(p) PROVE available'[r] = 0
  BY <1>5 DEF NoIdleUnit, Kill
<1>6. ASSUME NEW p \in Pid, OnProcDeath(p) PROVE available'[r] = 0
  <2>1. r \in resources /\ (waited_by[r] # <<>> => available[r] = 0)
    BY <1>6 DEF OnProcDeath, NoIdleUnit
  <2>2. CASE held[p][r] > 0 /\ p \in held_by[r]
    <3>1. available'[r] = AvailableAfter(r) /\ waited_by'[r] = Without(QueueAfter(r), p)
      BY <1>0, <1>6, <2>1, <2>2 DEF OnProcDeath, ReleaseAll
    <3>2. QueueAfter(r) # <<>>
      BY <1>0, <3>1, AfterReleaseType, WithoutNonEmpty
    <3> QED
      BY <1>0, <2>1, <3>1, <3>2, HandOff
  <2>3. CASE ~(held[p][r] > 0 /\ p \in held_by[r])
    <3>1. available'[r] = available[r] /\ waited_by'[r] = Without(waited_by[r], p)
      BY <1>0, <1>6, <2>1, <2>3 DEF OnProcDeath, ReleaseAll
    <3>2. waited_by[r] # <<>>
      BY <1>0, <3>1, WithoutNonEmpty DEF TypeOK
    <3> QED
      BY <2>1, <3>1, <3>2
  <2> QED
    BY <2>2, <2>3
<1>7. CASE UNCHANGED vars
  BY <1>7 DEF NoIdleUnit, vars
<1> QED
  BY <1>1, <1>2, <1>3, <1>4, <1>5, <1>6, <1>7 DEF Next

\* A unit that comes back reaches the queue before anyone else can see it free,
\* for every number of units and every pattern of requests, kills and removals.
THEOREM WaitersMeanNothingFree == Spec => []NoIdleUnit
<1>1. Init => NoIdleUnit
  BY DEF Init, NoIdleUnit
<1> QED
  BY <1>1, NextNoIdleUnit, Typing, PTL DEF Spec

-----------------------------------------------------------------------------
(* Clean-up, without reentrant requests *)

\* No process is twice in a queue or both in it and a holder; a holder has one
\* unit; a process that is gone is nowhere; a resource that is not in the table
\* has neither holders nor waiters; and the units add up.
Ledger ==
  /\ \A r \in Rid : Distinct(waited_by[r])
  /\ \A p \in Pid, r \in Rid : Waits(p, r) => p \notin held_by[r]
  /\ \A p \in Pid, r \in Rid : held[p][r] = IF p \in held_by[r] THEN 1 ELSE 0
  /\ \A r \in Rid \ resources : held_by[r] = {} /\ waited_by[r] = <<>>
  /\ GoneHoldNothing
  /\ UnitsConserved

\* What one release does to one resource under Ledger: the releaser is replaced by
\* the heir, and free units plus holders still add up.
LEMMA ReleaseOne ==
  ASSUME TypeOK, Ledger, NEW p \in Pid, NEW r \in resources, p \in held_by[r]
  PROVE  /\ HoldersAfter(p, r) = (held_by[r] \ {p}) \cup Heir(r)
         /\ Heir(r) \cap held_by[r] = {}
         /\ AvailableAfter(r) + Cardinality(HoldersAfter(p, r)) = Total[r]
         /\ Distinct(QueueAfter(r))
         /\ \A q \in Pid : InQueue(QueueAfter(r), q) <=> Waits(q, r) /\ q \notin Heir(r)
         /\ \A q \in Pid : UnitsAfter(p, r, q)
                              = IF q \in HoldersAfter(p, r) THEN 1 ELSE 0
<1>1. r \in Rid /\ waited_by[r] \in Seq(Pid) /\ held_by[r] \in SUBSET Pid
      /\ available[r] \in Nat /\ Distinct(waited_by[r])
  BY DEF TypeOK, Ledger
<1>2. /\ available[r] + Cardinality(held_by[r]) = Total[r]
      /\ \A q \in Pid : held[q][r] = IF q \in held_by[r] THEN 1 ELSE 0
  BY <1>1 DEF Ledger, UnitsConserved
<1>3. HoldersAfter(p, r) = (held_by[r] \ {p}) \cup Heir(r)
  BY <1>2 DEF HoldersAfter, LastUnit
<1>4. \A q \in Heir(r) : q \in Pid /\ Waits(q, r) /\ q = Head(waited_by[r])
  BY <1>1 DEF Heir, Waits
<1>5. Heir(r) \cap held_by[r] = {}
  BY <1>1, <1>4 DEF Ledger
<1>6. IsFiniteSet(held_by[r]) /\ Cardinality(held_by[r]) \in Nat
  BY <1>1, PidAssumption, FS_Subset, FS_CardinalityType
<1>7. /\ IsFiniteSet(held_by[r] \ {p})
      /\ Cardinality(held_by[r] \ {p}) = Cardinality(held_by[r]) - 1
  BY <1>6, FS_RemoveElement
<1>8. AvailableAfter(r) + Cardinality(HoldersAfter(p, r)) = Total[r]
  <2>1. CASE waited_by[r] = <<>>
    <3>1. Heir(r) = {} /\ AvailableAfter(r) = available[r] + 1
      BY <2>1 DEF Heir, AvailableAfter
    <3>2. HoldersAfter(p, r) = held_by[r] \ {p}
      BY <3>1, <1>3
    <3> QED
      BY <1>1, <1>2, <1>6, <1>7, <3>1, <3>2
  <2>2. CASE waited_by[r] # <<>>
    <3> DEFINE h == Head(waited_by[r])
    <3>1. Heir(r) = {h} /\ AvailableAfter(r) = available[r]
      BY <2>2 DEF Heir, AvailableAfter
    <3>2. h \notin held_by[r] \ {p}
      BY <1>5, <3>1
    <3> HIDE DEF h
    <3>3. Cardinality((held_by[r] \ {p}) \cup {h}) = Cardinality(held_by[r] \ {p}) + 1
      BY <1>7, <3>2, FS_AddElement
    <3> QED
      BY <1>1, <1>2, <1>3, <1>6, <1>7, <3>1, <3>3
  <2> QED
    BY <2>1, <2>2
<1>9. /\ Distinct(QueueAfter(r))
      /\ \A q \in Pid : InQueue(QueueAfter(r), q) <=> Waits(q, r) /\ q \notin Heir(r)
  <2>1. CASE waited_by[r] = <<>>
    BY <1>1, <2>1 DEF QueueAfter, Heir, InQueue, Waits
  <2>2. CASE waited_by[r] # <<>>
    <3>1. QueueAfter(r) = Tail(waited_by[r]) /\ Heir(r) = {Head(waited_by[r])}
      BY <2>2 DEF QueueAfter, Heir
    <3>2. /\ Distinct(Tail(waited_by[r]))
          /\ \A x : InQueue(Tail(waited_by[r]), x)
                  <=> InQueue(waited_by[r], x) /\ x # Head(waited_by[r])
      BY <1>1, <2>2, TailMembers
    <3>3. \A q \in Pid : Waits(q, r) <=> InQueue(waited_by[r], q)
      BY DEF Waits, InQueue
    <3> QED
      BY <3>1, <3>2, <3>3
  <2> QED
    BY <2>1, <2>2
<1>10. ASSUME NEW q \in Pid
       PROVE UnitsAfter(p, r, q) = IF q \in HoldersAfter(p, r) THEN 1 ELSE 0
  BY <1>2, <1>3, <1>5 DEF UnitsAfter, LastUnit
<1> QED
  BY <1>3, <1>5, <1>8, <1>9, <1>10

\* The members of a queue, whichever way they are named.
LEMMA WaitsIsInQueue ==
  ASSUME NEW p, NEW r PROVE Waits(p, r) <=> InQueue(waited_by[r], p)
BY DEF Waits, InQueue

LEMMA AddResourceLedger ==
  ASSUME TypeOK, Ledger, NEW a \in Rid, AddResource(a)
  PROVE  Ledger'
<1>1. \A r \in Rid \ {a} : /\ held_by'[r] = held_by[r] /\ waited_by'[r] = waited_by[r]
                         /\ available'[r] = available[r]
  BY DEF TypeOK, AddResource
<1>2. /\ held_by'[a] = {} /\ waited_by'[a] = <<>> /\ available'[a] = Total[a]
      /\ held_by[a] = {} /\ waited_by[a] = <<>>
  BY DEF TypeOK, AddResource, Ledger
<1>3. \A p \in Pid, r \in Rid : Waits(p, r)' => Waits(p, r)
  BY <1>1, <1>2 DEF Waits
<1>4. UnitsConserved'
  <2> SUFFICES ASSUME NEW r \in resources'
               PROVE  available'[r] + Cardinality(held_by'[r]) = Total[r]
    BY DEF UnitsConserved
  <2>1. CASE r = a
    <3>1. Total[r] \in Nat /\ Cardinality(held_by'[r]) = 0
      BY <1>2, <2>1, FS_EmptySet, TotalAssumption
    <3> QED
      BY <1>2, <2>1, <3>1
  <2>2. CASE r # a
    BY <1>1, <2>2 DEF AddResource, Ledger, UnitsConserved, TypeOK
  <2> QED
    BY <2>1, <2>2
<1>5. \A r \in Rid : Distinct(waited_by'[r])
  BY <1>1, <1>2 DEF Ledger
<1>6. GoneHoldNothing'
  <2> SUFFICES ASSUME NEW p \in Pid, NEW r \in Rid, proc'[p] = "gone"
               PROVE  p \notin held_by'[r] /\ ~Waits(p, r)'
    BY DEF GoneHoldNothing, AddResource, TypeOK
  <2>1. proc[p] = "gone"
    BY DEF AddResource
  <2>2. CASE r = a
    BY <1>2, <1>3, <2>2 DEF Waits
  <2>3. CASE r # a
    <3>1. r \in resources \/ (held_by[r] = {} /\ waited_by[r] = <<>>)
      BY DEF Ledger
    <3>2. p \notin held_by[r] /\ ~Waits(p, r)
      BY <2>1, <3>1 DEF Ledger, GoneHoldNothing, Waits
    <3> QED
      BY <1>1, <1>3, <2>3, <3>2
  <2> QED
    BY <2>2, <2>3
<1>7. \A r \in Rid \ resources' : held_by'[r] = {} /\ waited_by'[r] = <<>>
  BY <1>1 DEF AddResource, Ledger
<1>8. \A p \in Pid, r \in Rid : Waits(p, r)' => p \notin held_by'[r]
  BY <1>1, <1>2, <1>3 DEF Ledger
<1>9. \A p \in Pid, r \in Rid : held'[p][r] = IF p \in held_by'[r] THEN 1 ELSE 0
  BY <1>1, <1>2 DEF AddResource, Ledger
<1> QED
  BY <1>4, <1>5, <1>6, <1>7, <1>8, <1>9 DEF Ledger

LEMMA RemoveResourceLedger ==
  ASSUME TypeOK, Ledger, NEW a \in Rid, RemoveResource(a)
  PROVE  Ledger'
<1>1. UNCHANGED <<available, held_by, waited_by, held, proc>>
  BY DEF RemoveResource
<1>2. resources' = resources \ {a} /\ held_by[a] = {} /\ waited_by[a] = <<>>
  BY DEF RemoveResource
<1> QED
  BY <1>1, <1>2 DEF Ledger, Waits, GoneHoldNothing, UnitsConserved

LEMMA KillLedger ==
  ASSUME TypeOK, Ledger, NEW p \in Pid, Kill(p)
  PROVE  Ledger'
<1>1. UNCHANGED <<resources, available, held_by, waited_by, held>>
  BY DEF Kill
<1>2. \A q \in Pid : proc'[q] = "gone" => proc[q] = "gone"
  BY DEF Kill, TypeOK
<1> QED
  BY <1>1, <1>2 DEF Ledger, Waits, GoneHoldNothing, UnitsConserved

LEMMA GrantLedger ==
  ASSUME TypeOK, Ledger, NEW p \in Pid, NEW a \in Rid, NEW prio \in Prio,
         p \notin held_by[a], ~Waits(p, a), a \in resources, proc[p] = "alive",
         Grant(p, a, prio), resources' = resources, proc' = proc
  PROVE  Ledger'
<1>1. /\ held_by' = [held_by EXCEPT ![a] = @ \cup {p}]
      /\ held' = [held EXCEPT ![p][a] = @ + 1]
      /\ available' = [available EXCEPT ![a] = @ - 1]
      /\ waited_by' = waited_by
  BY DEF Grant
<1>2. \A q \in Pid, r \in Rid : held'[q][r] = IF q \in held_by'[r] THEN 1 ELSE 0
  BY <1>1 DEF TypeOK, Ledger
<1>3. UnitsConserved'
  <2>1. IsFiniteSet(held_by[a]) /\ Cardinality(held_by[a]) \in Nat
    BY PidAssumption, FS_Subset, FS_CardinalityType DEF TypeOK
  <2>2. Cardinality(held_by[a] \cup {p}) = Cardinality(held_by[a]) + 1
    BY <2>1, FS_AddElement
  <2>3. available'[a] + Cardinality(held_by'[a]) = Total[a]
    BY <1>1, <2>1, <2>2 DEF TypeOK, Ledger, UnitsConserved
  <2> QED
    BY <1>1, <2>3 DEF TypeOK, Ledger, UnitsConserved
<1>4. \A q \in Pid, r \in Rid : Waits(q, r)' <=> Waits(q, r)
  BY <1>1 DEF Waits
<1>5. \A q \in Pid, r \in Rid : Waits(q, r)' => q \notin held_by'[r]
  BY <1>1, <1>4 DEF TypeOK, Ledger
<1>6. GoneHoldNothing'
  BY <1>1, <1>4 DEF TypeOK, Ledger, GoneHoldNothing
<1> QED
  BY <1>1, <1>2, <1>3, <1>5, <1>6 DEF TypeOK, Ledger

LEMMA EnqueueLedger ==
  ASSUME TypeOK, Ledger, NEW p \in Pid, NEW a \in Rid, NEW prio \in Prio,
         p \notin held_by[a], ~Waits(p, a), a \in resources, proc[p] = "alive",
         Enqueue(p, a, prio), resources' = resources, proc' = proc
  PROVE  Ledger'
<1>1. /\ waited_by' = [waited_by EXCEPT ![a] = Append(@, p)]
      /\ UNCHANGED <<available, held_by, held>>
  BY DEF Enqueue
<1>2. waited_by[a] \in Seq(Pid) /\ Distinct(waited_by[a]) /\ ~InQueue(waited_by[a], p)
  BY WaitsIsInQueue DEF TypeOK, Ledger
<1>3. /\ Distinct(Append(waited_by[a], p))
      /\ \A x : InQueue(Append(waited_by[a], p), x) <=> InQueue(waited_by[a], x) \/ x = p
  BY <1>2, AppendMembers
<1>4. \A q \in Pid, r \in Rid : Waits(q, r)' <=> InQueue(waited_by'[r], q)
  BY DEF Waits, InQueue
<1>5. \A q \in Pid, r \in Rid : Waits(q, r)' <=> Waits(q, r) \/ (r = a /\ q = p)
  BY <1>1, <1>3, <1>4, WaitsIsInQueue DEF TypeOK
<1>6. \A r \in Rid : Distinct(waited_by'[r])
  BY <1>1, <1>3 DEF TypeOK, Ledger
<1>7. \A q \in Pid, r \in Rid : Waits(q, r)' => q \notin held_by'[r]
  BY <1>1, <1>5 DEF Ledger
<1>8. GoneHoldNothing'
  BY <1>1, <1>5 DEF TypeOK, Ledger, GoneHoldNothing
<1>9. UnitsConserved'
  BY <1>1 DEF Ledger, UnitsConserved
<1>10. \A r \in Rid \ resources' : held_by'[r] = {} /\ waited_by'[r] = <<>>
  BY <1>1 DEF TypeOK, Ledger
<1> QED
  BY <1>1, <1>6, <1>7, <1>8, <1>9, <1>10 DEF Ledger

LEMMA ReleaseLedger ==
  ASSUME TypeOK, Ledger, NEW p \in Pid, NEW a \in Rid, Release(p, a)
  PROVE  Ledger'
<1>1. /\ a \in resources /\ p \in held_by[a] /\ proc[p] = "alive"
      /\ held_by'[a] = HoldersAfter(p, a) /\ waited_by'[a] = QueueAfter(a)
      /\ available'[a] = AvailableAfter(a)
      /\ \A q \in Pid : held'[q][a] = UnitsAfter(p, a, q)
      /\ resources' = resources /\ proc' = proc
  BY DEF TypeOK, Release
<1>2. \A r \in Rid \ {a} : /\ held_by'[r] = held_by[r] /\ waited_by'[r] = waited_by[r]
                         /\ available'[r] = available[r]
                         /\ \A q \in Pid : held'[q][r] = held[q][r]
  BY DEF TypeOK, Release
<1>3. /\ HoldersAfter(p, a) = (held_by[a] \ {p}) \cup Heir(a)
      /\ Heir(a) \cap held_by[a] = {}
      /\ AvailableAfter(a) + Cardinality(HoldersAfter(p, a)) = Total[a]
      /\ Distinct(QueueAfter(a))
      /\ \A q \in Pid : InQueue(QueueAfter(a), q) <=> Waits(q, a) /\ q \notin Heir(a)
      /\ \A q \in Pid : UnitsAfter(p, a, q) = IF q \in HoldersAfter(p, a) THEN 1 ELSE 0
  BY <1>1, ReleaseOne
<1>4. \A q \in Pid, r \in Rid : Waits(q, r)' <=> InQueue(waited_by'[r], q)
  BY DEF Waits, InQueue
<1>5. \A q \in Heir(a) : q \in Pid /\ Waits(q, a)
  <2>1. waited_by[a] \in Seq(Pid)
    BY DEF TypeOK
  <2> QED
    BY <2>1 DEF Heir, Waits
<1>6. \A q \in Pid, r \in Rid :
        Waits(q, r)' <=> Waits(q, r) /\ (r = a => q \notin Heir(a))
  BY <1>1, <1>2, <1>3, <1>4, WaitsIsInQueue
<1>7. \A r \in Rid : Distinct(waited_by'[r])
  BY <1>1, <1>2, <1>3 DEF Ledger
<1>8. \A q \in Pid, r \in Rid : Waits(q, r)' => q \notin held_by'[r]
  <2> SUFFICES ASSUME NEW q \in Pid, NEW r \in Rid, Waits(q, r)'
               PROVE  q \notin held_by'[r]
    OBVIOUS
  <2>1. Waits(q, r) /\ q \notin held_by[r]
    BY <1>6 DEF Ledger
  <2> QED
    BY <1>1, <1>2, <1>3, <1>6, <2>1
<1>9. \A q \in Pid, r \in Rid : held'[q][r] = IF q \in held_by'[r] THEN 1 ELSE 0
  BY <1>1, <1>2, <1>3 DEF Ledger
<1>10. \A r \in Rid \ resources' : held_by'[r] = {} /\ waited_by'[r] = <<>>
  BY <1>1, <1>2 DEF Ledger
<1>11. GoneHoldNothing'
  <2> SUFFICES ASSUME NEW q \in Pid, NEW r \in resources, proc[q] = "gone"
               PROVE  q \notin held_by'[r] /\ ~Waits(q, r)'
    BY <1>1 DEF GoneHoldNothing
  <2>1. q \notin held_by[r] /\ ~Waits(q, r) /\ r \in Rid
    BY DEF Ledger, GoneHoldNothing, TypeOK
  <2>2. CASE r = a
    BY <1>1, <1>3, <1>5, <1>6, <2>1, <2>2
  <2>3. CASE r # a
    BY <1>2, <1>6, <2>1, <2>3
  <2> QED
    BY <2>2, <2>3
<1>12. UnitsConserved'
  BY <1>1, <1>2, <1>3 DEF Ledger, UnitsConserved, TypeOK
<1> QED
  BY <1>7, <1>8, <1>9, <1>10, <1>11, <1>12 DEF Ledger

\* The clean-up of one resource when p dies: as for a release if p holds it, and in
\* any case p leaves the queue.
LEMMA CleanOne ==
  ASSUME TypeOK, Ledger, NEW p \in Pid, NEW r \in Rid, ReleaseAll(p)
  PROVE  /\ Distinct(waited_by'[r])
         /\ \A q \in Pid : Waits(q, r)' => q # p /\ Waits(q, r) /\ q \notin held_by'[r]
         /\ \A q \in held_by'[r] : q \in held_by[r] \/ Waits(q, r)
         /\ p \notin held_by'[r]
         /\ r \in resources => available'[r] + Cardinality(held_by'[r]) = Total[r]
         /\ r \notin resources => held_by'[r] = held_by[r]
         /\ \A q \in Pid : held'[q][r] = IF q \in held_by'[r] THEN 1 ELSE 0
<1>0. waited_by[r] \in Seq(Pid) /\ Distinct(waited_by[r])
  BY DEF TypeOK, Ledger
<1>1. \A q \in Pid : Waits(q, r)' <=> InQueue(waited_by'[r], q)
  BY DEF Waits, InQueue
<1>2. \A q \in Pid : held[q][r] = IF q \in held_by[r] THEN 1 ELSE 0
  BY DEF Ledger
<1>3. CASE r \in resources /\ p \in held_by[r]
  <2>1. held[p][r] > 0
    BY <1>2, <1>3
  <2>2. /\ held_by'[r] = HoldersAfter(p, r) /\ available'[r] = AvailableAfter(r)
        /\ waited_by'[r] = Without(QueueAfter(r), p)
        /\ \A q \in Pid : held'[q][r] = IF q = p THEN 0 ELSE UnitsAfter(p, r, q)
    BY <1>3, <2>1 DEF ReleaseAll
  <2>3. /\ HoldersAfter(p, r) = (held_by[r] \ {p}) \cup Heir(r)
        /\ Heir(r) \cap held_by[r] = {}
        /\ AvailableAfter(r) + Cardinality(HoldersAfter(p, r)) = Total[r]
        /\ Distinct(QueueAfter(r))
        /\ \A q \in Pid : InQueue(QueueAfter(r), q) <=> Waits(q, r) /\ q \notin Heir(r)
        /\ \A q \in Pid : UnitsAfter(p, r, q) = IF q \in HoldersAfter(p, r) THEN 1 ELSE 0
    BY <1>3, ReleaseOne
  <2>4. QueueAfter(r) \in Seq(Pid)
    BY AfterReleaseType
  <2>5. /\ Distinct(waited_by'[r])
        /\ \A x : InQueue(waited_by'[r], x) <=> InQueue(QueueAfter(r), x) /\ x # p
    BY <2>2, <2>3, <2>4, WithoutMembers
  <2>6. p \notin Heir(r)
    BY <1>3, <2>3
  <2>7. \A q \in Pid : Waits(q, r)' => q # p /\ Waits(q, r) /\ q \notin held_by'[r]
    BY <1>1, <2>2, <2>3, <2>5 DEF Ledger
  <2>8. \A q \in held_by'[r] : q \in held_by[r] \/ Waits(q, r)
    BY <1>0, <2>2, <2>3 DEF Heir, Waits
  <2> QED
    BY <1>3, <2>2, <2>3, <2>5, <2>6, <2>7, <2>8
<1>4. CASE ~(r \in resources /\ p \in held_by[r])
  <2>1. /\ held_by'[r] = held_by[r] /\ available'[r] = available[r]
        /\ waited_by'[r] = Without(waited_by[r], p)
        /\ \A q \in Pid : held'[q][r] = IF q = p THEN 0 ELSE held[q][r]
    BY <1>4 DEF ReleaseAll
  <2>2. p \notin held_by[r]
    BY <1>4 DEF Ledger
  <2>3. /\ Distinct(waited_by'[r])
        /\ \A x : InQueue(waited_by'[r], x) <=> InQueue(waited_by[r], x) /\ x # p
    BY <1>0, <2>1, WithoutMembers
  <2>4. \A q \in Pid : Waits(q, r)' => q # p /\ Waits(q, r) /\ q \notin held_by'[r]
    BY <1>1, <2>1, <2>3, WaitsIsInQueue DEF Ledger
  <2>5. r \in resources => available'[r] + Cardinality(held_by'[r]) = Total[r]
    BY <2>1 DEF Ledger, UnitsConserved
  <2> QED
    BY <1>2, <2>1, <2>2, <2>3, <2>4, <2>5
<1> QED
  BY <1>3, <1>4

LEMMA OnProcDeathLedger ==
  ASSUME TypeOK, Ledger, NEW p \in Pid, OnProcDeath(p)
  PROVE  Ledger'
<1>1. ReleaseAll(p) /\ resources' = resources /\ proc' = [proc EXCEPT ![p] = "gone"]
  BY DEF OnProcDeath
<1>2. \A r \in Rid :
         /\ Distinct(waited_by'[r])
         /\ \A q \in Pid : Waits(q, r)' => q # p /\ Waits(q, r) /\ q \notin held_by'[r]
         /\ \A q \in held_by'[r] : q \in held_by[r] \/ Waits(q, r)
         /\ p \notin held_by'[r]
         /\ r \in resources => available'[r] + Cardinality(held_by'[r]) = Total[r]
         /\ r \notin resources => held_by'[r] = held_by[r]
         /\ \A q \in Pid : held'[q][r] = IF q \in held_by'[r] THEN 1 ELSE 0
  BY <1>1, CleanOne
<1>3. \A q \in Pid \ {p} : proc'[q] = proc[q]
  BY <1>1 DEF TypeOK
<1>4. GoneHoldNothing'
  <2> SUFFICES ASSUME NEW q \in Pid, NEW r \in resources, proc'[q] = "gone"
               PROVE  q \notin held_by'[r] /\ ~Waits(q, r)'
    BY <1>1 DEF GoneHoldNothing
  <2>0. r \in Rid
    BY DEF TypeOK
  <2>1. CASE q = p
    BY <1>2, <2>0, <2>1
  <2>2. CASE q # p
    <3>1. q \notin held_by[r] /\ ~Waits(q, r)
      BY <1>3, <2>2 DEF Ledger, GoneHoldNothing
    <3> QED
      BY <1>2, <2>0, <3>1
  <2> QED
    BY <2>1, <2>2
<1>5. UnitsConserved'
  BY <1>1, <1>2 DEF UnitsConserved, TypeOK
<1>6. \A r \in Rid \ resources' : held_by'[r] = {} /\ waited_by'[r] = <<>>
  <2> SUFFICES ASSUME NEW r \in Rid \ resources
               PROVE  held_by'[r] = {} /\ waited_by'[r] = <<>>
    BY <1>1
  <2>1. held_by[r] = {} /\ waited_by[r] = <<>>
    BY DEF Ledger
  <2>2. waited_by'[r] = Without(waited_by[r], p)
    BY <1>1 DEF ReleaseAll
  <2> QED
    BY <1>2, <2>1, <2>2 DEF Without
<1> QED
  BY <1>2, <1>4, <1>5, <1>6 DEF Ledger

LEMMA NextLedger == ~Reentrant /\ TypeOK /\ Ledger /\ [Next]_vars => Ledger'
<1> SUFFICES ASSUME ~Reentrant, TypeOK, Ledger, [Next]_vars PROVE Ledger'
  OBVIOUS
<1>1. ASSUME NEW r \in Rid, AddResource(r) PROVE Ledger'
  BY <1>1, AddResourceLedger
<1>2. ASSUME NEW r \in Rid, RemoveResource(r) PROVE Ledger'
  BY <1>2, RemoveResourceLedger
<1>3. ASSUME NEW p \in Pid, NEW r \in Rid, Release(p, r) PROVE Ledger'
  BY <1>3, ReleaseLedger
<1>4. ASSUME NEW p \in Pid, NEW r \in Rid, NEW prio \in Prio, Request(p, r, prio)
      PROVE Ledger'
  BY <1>4, GrantLedger, EnqueueLedger DEF Request
<1>5. ASSUME NEW p \in Pid, Kill(p) PROVE Ledger'
  BY <1>5, KillLedger
<1>6. ASSUME NEW p \in Pid, OnProcDeath(p) PROVE Ledger'
  BY <1>6, OnProcDeathLedger
<1>7. CASE UNCHANGED vars
  BY <1>7 DEF vars, Ledger, Waits, GoneHoldNothing, UnitsConserved
<1> QED
  BY <1>1, <1>2, <1>3, <1>4, <1>5, <1>6, <1>7 DEF Next

LEMMA LedgerAlways == ~Reentrant => (Spec => []Ledger)
<1>1. Init => Ledger
  BY FS_EmptySet DEF Init, Ledger, Distinct, Waits, GoneHoldNothing, UnitsConserved
<1> SUFFICES ASSUME ~Reentrant PROVE Spec => []Ledger
  OBVIOUS
<1>2. TypeOK /\ Ledger /\ [Next]_vars => Ledger'
  BY NextLedger
<1> QED
  BY <1>1, <1>2, Typing, PTL DEF Spec

\* Without reentrant requests a process whose death has been handled is nowhere in
\* the table, and no later release hands it a unit.
THEOREM DeathIsClean == ~Reentrant => (Spec => []GoneHoldNothing)
<1> SUFFICES ASSUME ~Reentrant PROVE Spec => []GoneHoldNothing
  OBVIOUS
<1>1. Ledger => GoneHoldNothing
  BY DEF Ledger
<1>2. Spec => []Ledger
  BY LedgerAlways
<1> QED
  BY <1>1, <1>2, PTL

-----------------------------------------------------------------------------
(* The order of the queues *)

\* A release makes a holder of nobody but the head of the queue.
LEMMA OnlyTheHeir ==
  ASSUME NEW p, NEW r, waited_by[r] # <<>>
  PROVE  HoldersAfter(p, r) \ held_by[r] \subseteq {Head(waited_by[r])}
BY DEF HoldersAfter, Heir

LEMMA NextNoOvertaking ==
  ASSUME TypeOK, NoIdleUnit, [Next]_vars, NEW r \in resources, waited_by[r] # <<>>
  PROVE  held_by'[r] \ held_by[r] \subseteq {Head(waited_by[r])}
<1>0. r \in Rid /\ available[r] = 0
  BY DEF TypeOK, NoIdleUnit
<1>1. ASSUME NEW a \in Rid, AddResource(a) PROVE held_by'[r] = held_by[r]
  BY <1>0, <1>1 DEF TypeOK, AddResource
<1>2. ASSUME NEW a \in Rid, RemoveResource(a) PROVE held_by'[r] = held_by[r]
  BY <1>2 DEF RemoveResource
<1>3. ASSUME NEW p \in Pid, NEW a \in Rid, Release(p, a)
      PROVE  held_by'[r] = held_by[r] \/ held_by'[r] = HoldersAfter(p, r)
  BY <1>0, <1>3 DEF TypeOK, Release
<1>4. ASSUME NEW p \in Pid, NEW a \in Rid, NEW prio \in Prio, Request(p, a, prio)
      PROVE  held_by'[r] = held_by[r]
  <2>1. CASE Grant(p, a, prio)
    <3>1. a # r
      BY <1>0, <2>1 DEF Grant
    <3> QED
      BY <1>0, <2>1, <3>1 DEF TypeOK, Grant
  <2>2. CASE Enqueue(p, a, prio)
    BY <2>2 DEF Enqueue
  <2> QED
    BY <1>4, <2>1, <2>2 DEF Request
<1>5. ASSUME NEW p \in Pid, Kill(p) PROVE held_by'[r] = held_by[r]
  BY <1>5 DEF Kill
<1>6. ASSUME NEW p \in Pid, OnProcDeath(p)
      PROVE  held_by'[r] = held_by[r] \/ held_by'[r] = HoldersAfter(p, r)
  BY <1>0, <1>6 DEF OnProcDeath, ReleaseAll
<1>7. CASE UNCHANGED vars
  BY <1>7 DEF vars
<1> QED
  BY <1>1, <1>2, <1>3, <1>4, <1>5, <1>6, <1>7, OnlyTheHeir DEF Next

\* While processes wait for a resource only the head of its queue can become a holder:
\* no request is granted past it, no release and no clean-up gives a unit to another,
\* whatever the processes ask for.
THEOREM QueueOrder == Spec => NoOvertaking
<1>1. TypeOK /\ NoIdleUnit /\ [Next]_vars
        => [\A r \in resources : waited_by[r] # <<>> =>
              held_by'[r] \ held_by[r] \subseteq {Head(waited_by[r])}]_vars
  BY NextNoOvertaking
<1> QED
  BY <1>1, Typing, WaitersMeanNothingFree, PTL DEF Spec, NoOvertaking

-----------------------------------------------------------------------------
(* Loans of priority *)

\* A holder's priority is only ever raised, and what is raised was a priority.
LEMMA LentProperties ==
  ASSUME NEW own \in Prio, NEW lent \in Prio
  PROVE  Lent(own, lent) \in Prio /\ Lent(own, lent) >= lent
BY PrioAssumption DEF Lent

LEMMA RequestBase ==
  ASSUME TypeOK, NeverBelowBase, NEW p \in Pid, NEW r \in Rid, NEW prio \in Prio,
         Request(p, r, prio)
  PROVE  NeverBelowBase'
<1> DEFINE own == EffectivePrio(p, prio)
<1>1. own \in Prio /\ (base_priority[p] # NoBase => own >= base_priority[p])
  BY DEF TypeOK, NeverBelowBase, EffectivePrio
<1>2. base_priority[p] = NoBase => own = prio
  BY DEF EffectivePrio
<1>3. base_priority' = [base_priority EXCEPT ![p] = IF @ = NoBase THEN prio ELSE @]
  BY DEF Request
<1>4. own >= base_priority'[p]
  BY <1>1, <1>2, <1>3, PrioAssumption DEF TypeOK
<1>5. \A q \in Pid : q # p => base_priority'[q] = base_priority[q]
  BY <1>3 DEF TypeOK
<1>6. base_priority' \in [Pid -> Prio \cup {NoBase}]
  BY <1>3 DEF TypeOK
<1> HIDE DEF own
<1>7. CASE Grant(p, r, prio)
  <2>1. priority' = [priority EXCEPT ![p] = own]
    BY <1>7 DEF Grant, own
  <2> QED
    BY <1>4, <1>5, <2>1 DEF TypeOK, NeverBelowBase
<1>8. CASE Enqueue(p, r, prio)
  <2> DEFINE known == [priority EXCEPT ![p] = own]
  <2>1. priority' = [q \in Pid |-> IF q \in held_by[r] THEN Lent(own, known[q]) ELSE known[q]]
    BY <1>8 DEF Enqueue, own
  <2>2. known \in [Pid -> Prio] /\ known[p] = own
        /\ \A q \in Pid : q # p => known[q] = priority[q]
    BY <1>1 DEF TypeOK
  <2> HIDE DEF known
  <2>3. \A q \in Pid : priority'[q] \in Prio /\ priority'[q] >= known[q]
    <3> SUFFICES ASSUME NEW q \in Pid
                 PROVE  priority'[q] \in Prio /\ priority'[q] >= known[q]
      OBVIOUS
    <3>1. known[q] \in Prio
      BY <2>2
    <3>2. CASE q \in held_by[r]
      BY <1>1, <2>1, <3>1, <3>2, LentProperties
    <3>3. CASE q \notin held_by[r]
      <4>1. priority'[q] = known[q]
        BY <2>1, <3>3
      <4>2. known[q] \in Nat
        BY <3>1, PrioAssumption
      <4> QED
        BY <3>1, <4>1, <4>2
    <3> QED
      BY <3>2, <3>3
  <2> SUFFICES ASSUME NEW q \in Pid, base_priority'[q] # NoBase
               PROVE  priority'[q] >= base_priority'[q]
    BY DEF NeverBelowBase
  <2>4. known[q] >= base_priority'[q]
    <3>1. CASE q = p
      BY <1>4, <2>2, <3>1
    <3>2. CASE q # p
      BY <1>5, <2>2, <3>2 DEF NeverBelowBase
    <3> QED
      BY <3>1, <3>2
  <2>5. priority'[q] \in Nat /\ known[q] \in Nat /\ base_priority'[q] \in Nat
    BY <1>6, <2>2, <2>3, PrioAssumption DEF NoBase
  <2> QED
    BY <2>3, <2>4, <2>5
<1> QED
  BY <1>7, <1>8 DEF Request

LEMMA NextBase == TypeOK /\ NeverBelowBase /\ [Next]_vars => NeverBelowBase'
<1> SUFFICES ASSUME TypeOK, NeverBelowBase, [Next]_vars PROVE NeverBelowBase'
  OBVIOUS
<1>1. ASSUME NEW r \in Rid, AddResource(r) \/ RemoveResource(r) PROVE NeverBelowBase'
  BY <1>1 DEF AddResource, RemoveResource, NeverBelowBase
<1>2. ASSUME NEW p \in Pid, NEW r \in Rid, Release(p, r) PROVE NeverBelowBase'
  <2>1. /\ priority' = [priority EXCEPT ![p] = IF base_priority[p] = NoBase
                                              THEN @ ELSE base_priority[p]]
        /\ base_priority' = base_priority
    BY <1>2 DEF Release
  <2> SUFFICES ASSUME NEW q \in Pid, base_priority'[q] # NoBase
               PROVE  priority'[q] >= base_priority'[q]
    BY DEF NeverBelowBase
  <2>2. CASE q = p
    <3>1. priority'[q] = base_priority[q] /\ base_priority[q] \in Prio
      BY <2>1, <2>2 DEF TypeOK
    <3> QED
      BY <2>1, <3>1, PrioAssumption
  <2>3. CASE q # p
    BY <2>1, <2>3 DEF TypeOK, NeverBelowBase
  <2> QED
    BY <2>2, <2>3
<1>3. ASSUME NEW p \in Pid, NEW r \in Rid, NEW prio \in Prio, Request(p, r, prio)
      PROVE  NeverBelowBase'
  BY <1>3, RequestBase
<1>4. ASSUME NEW p \in Pid, Kill(p) PROVE NeverBelowBase'
  BY <1>4 DEF Kill, NeverBelowBase
<1>5. ASSUME NEW p \in Pid, OnProcDeath(p) PROVE NeverBelowBase'
  <2>1. /\ priority' = [priority EXCEPT ![p] = DefaultPrio]
        /\ base_priority' = [base_priority EXCEPT ![p] = NoBase]
    BY <1>5 DEF OnProcDeath, ReleaseAll
  <2> QED
    BY <2>1 DEF TypeOK, NeverBelowBase
<1>6. CASE UNCHANGED vars
  BY <1>6 DEF vars, NeverBelowBase
<1> QED
  BY <1>1, <1>2, <1>3, <1>4, <1>5, <1>6 DEF Next

\* No process ever runs below its own priority, whoever lends it what and whatever it
\* gives back in between.
LEMMA BaseAlways == Spec => []NeverBelowBase
<1>1. Init => NeverBelowBase
  BY DEF Init, NeverBelowBase
<1> QED
  BY <1>1, NextBase, Typing, PTL DEF Spec

-----------------------------------------------------------------------------
(* Never more than the total, with reentrant requests *)

\* The units behind counters and a set of holders: as many for each process as its
\* counter says, and one for a holder without a counter.
UnitsOf(count, holders) ==
  {u \in Pid \X (Nat \ {0}) : u[2] <= count[u[1]] \/ (u[2] = 1 /\ u[1] \in holders)}

\* The units of r that are given out.
Given(r) == UnitsOf([p \in Pid |-> held[p][r]], held_by[r])

\* Free and given units of a resource do not exceed its total.
Covered(r) == IsFiniteSet(Given(r)) /\ available[r] + Cardinality(Given(r)) <= Total[r]

\* What holds whatever processes ask for: queues without repetitions; counters and
\* holders that agree but for a process whose table was dropped, which counts nothing
\* and awaits nothing; and units that are not given out twice.
Allotment ==
  /\ \A r \in Rid : Distinct(waited_by[r])
  /\ \A p \in Pid, r \in Rid : proc[p] = "gone" => held[p][r] = 0 /\ ~Waits(p, r)
  /\ \A p \in Pid, r \in Rid : proc[p] # "gone" => (p \in held_by[r] <=> held[p][r] > 0)
  /\ \A r \in Rid \ resources : held_by[r] = {} /\ waited_by[r] = <<>>
  /\ \A r \in resources : Covered(r)

\* A release, or the clean-up of a process, takes away the last of its units; the heir
\* gets it, or it is free again.
LEMMA ReleaseUnits ==
  ASSUME TypeOK, NEW p \in Pid, NEW r \in Rid, p \in held_by[r], held[p][r] > 0,
         NEW count \in [Pid -> Nat], NEW holders, holders = HoldersAfter(p, r),
         \A q \in Pid \ {p} : count[q] = UnitsAfter(p, r, q),
         count[p] <= UnitsAfter(p, r, p)
  PROVE  LET last == <<p, held[p][r]>>
         IN  /\ last \in Given(r)
             /\ Heir(r) = {} => UnitsOf(count, holders) \subseteq Given(r) \ {last}
             /\ \A h \in Pid \ {p} : Heir(r) = {h} =>
                  UnitsOf(count, holders)
                    \subseteq (Given(r) \ {last}) \cup {<<h, held[h][r] + 1>>}
             /\ Heir(r) = {p} => UnitsOf(count, holders) \subseteq Given(r)
<1> DEFINE last == <<p, held[p][r]>>
<1>0. \A q \in Pid : held[q][r] \in Nat
  BY DEF TypeOK
<1>1. \A u : u \in Given(r) <=>
        /\ u \in Pid \X (Nat \ {0})
        /\ u[2] <= held[u[1]][r] \/ (u[2] = 1 /\ u[1] \in held_by[r])
  BY DEF Given, UnitsOf
<1>2. last \in Given(r)
  BY <1>0, <1>1
<1>3. \A q \in Pid : q \in holders =>
        q \in Heir(r) \/ (q \in held_by[r] /\ (q = p => held[p][r] > 1))
  BY <1>0 DEF HoldersAfter, LastUnit
<1>4. ASSUME NEW u \in UnitsOf(count, holders)
      PROVE  /\ u \in Pid \X (Nat \ {0}) /\ u[1] \in Pid /\ u[2] \in Nat \ {0}
             /\ u = <<u[1], u[2]>>
             /\ u[2] <= count[u[1]] \/ (u[2] = 1 /\ u[1] \in holders)
  BY <1>4 DEF UnitsOf
<1>5. \A q \in Pid \ {p} : q \notin Heir(r) => count[q] = held[q][r]
  BY <1>0 DEF UnitsAfter
<1>6. \A q \in Pid \ {p} : q \in Heir(r) => count[q] = held[q][r] + 1
  BY <1>0 DEF UnitsAfter
<1>7. p \notin Heir(r) => count[p] < held[p][r]
  BY <1>0 DEF UnitsAfter, LastUnit
<1>8. count[p] <= held[p][r]
  BY <1>0 DEF UnitsAfter, LastUnit
<1>9. ASSUME NEW u \in UnitsOf(count, holders), u[1] \notin Heir(r)
      PROVE  u \in Given(r) \ {last}
  <2>1. CASE u[1] = p
    <3>1. u[2] < held[p][r]
      BY <1>0, <1>3, <1>4, <1>7, <1>9, <2>1
    <3> QED
      BY <1>0, <1>1, <1>4, <2>1, <3>1
  <2>2. CASE u[1] # p
    <3>1. u[2] <= held[u[1]][r] \/ (u[2] = 1 /\ u[1] \in held_by[r])
      BY <1>3, <1>4, <1>5, <1>9, <2>2
    <3> QED
      BY <1>1, <1>4, <2>2, <3>1
  <2> QED
    BY <2>1, <2>2
<1>10. ASSUME NEW h \in Pid \ {p}, Heir(r) = {h}, NEW u \in UnitsOf(count, holders), u[1] = h
       PROVE  u \in (Given(r) \ {last}) \cup {<<h, held[h][r] + 1>>}
  <2>1. u[2] <= held[h][r] + 1
    BY <1>0, <1>4, <1>6, <1>10
  <2>2. CASE u[2] = held[h][r] + 1
    BY <1>4, <1>10, <2>2
  <2>3. CASE u[2] <= held[h][r]
    BY <1>1, <1>4, <1>10, <2>3
  <2> QED
    BY <1>0, <1>4, <1>10, <2>1, <2>2, <2>3
<1>11. ASSUME Heir(r) = {p}, NEW u \in UnitsOf(count, holders), u[1] = p
       PROVE  u \in Given(r)
  BY <1>0, <1>1, <1>4, <1>8, <1>11
<1> QED
  BY <1>2, <1>9, <1>10, <1>11

LEMMA ReleaseCovered ==
  ASSUME TypeOK, NEW p \in Pid, NEW r \in Rid, p \in held_by[r], held[p][r] > 0, Covered(r),
         NEW count \in [Pid -> Nat], NEW holders, holders = HoldersAfter(p, r),
         \A q \in Pid \ {p} : count[q] = UnitsAfter(p, r, q),
         count[p] <= UnitsAfter(p, r, p)
  PROVE  /\ IsFiniteSet(UnitsOf(count, holders))
         /\ AvailableAfter(r) + Cardinality(UnitsOf(count, holders)) <= Total[r]
<1> DEFINE W == UnitsOf(count, holders)
           G == Given(r)
           last == <<p, held[p][r]>>
<1>1. IsFiniteSet(G) /\ Cardinality(G) \in Nat /\ available[r] \in Nat /\ Total[r] \in Nat
      /\ available[r] + Cardinality(G) <= Total[r]
  BY FS_CardinalityType, TotalAssumption DEF Covered, TypeOK
<1>2. /\ last \in G
      /\ Heir(r) = {} => W \subseteq G \ {last}
      /\ \A h \in Pid \ {p} : Heir(r) = {h} => W \subseteq (G \ {last}) \cup {<<h, held[h][r] + 1>>}
      /\ Heir(r) = {p} => W \subseteq G
  BY ReleaseUnits
<1>3. Heir(r) = {} \/ \E h \in Pid : Heir(r) = {h}
  <2>1. waited_by[r] \in Seq(Pid)
    BY DEF TypeOK
  <2> QED
    BY <2>1 DEF Heir
<1> HIDE DEF W, G
<1>4. IsFiniteSet(G \ {last}) /\ Cardinality(G \ {last}) = Cardinality(G) - 1
  BY <1>1, <1>2, FS_RemoveElement
<1>5. CASE Heir(r) = {}
  <2>1. IsFiniteSet(W) /\ Cardinality(W) <= Cardinality(G) - 1 /\ Cardinality(W) \in Nat
    BY <1>2, <1>4, <1>5, FS_Subset, FS_CardinalityType
  <2>2. AvailableAfter(r) = available[r] + 1
    BY <1>5 DEF AvailableAfter
  <2> QED
    BY <1>1, <2>1, <2>2 DEF W
<1>6. ASSUME NEW h \in Pid \ {p}, Heir(r) = {h}
      PROVE  IsFiniteSet(W) /\ Cardinality(W) <= Cardinality(G) /\ Cardinality(W) \in Nat
  <2> DEFINE v == <<h, held[h][r] + 1>>
             R == G \ {last}
  <2>1. W \subseteq R \cup {v}
    BY <1>2, <1>6
  <2> HIDE DEF R, v
  <2>2. IsFiniteSet(R) /\ Cardinality(R) = Cardinality(G) - 1
    BY <1>4 DEF R
  <2>3. IsFiniteSet(R \cup {v}) /\ (Cardinality(R \cup {v}) = Cardinality(R)
                                    \/ Cardinality(R \cup {v}) = Cardinality(R) + 1)
    BY <2>2, FS_AddElement
  <2>4. IsFiniteSet(W) /\ Cardinality(W) <= Cardinality(R \cup {v}) /\ Cardinality(W) \in Nat
    BY <2>1, <2>3, FS_Subset, FS_CardinalityType
  <2> QED
    BY <1>1, <2>2, <2>3, <2>4
<1>7. ASSUME Heir(r) = {p}
      PROVE  IsFiniteSet(W) /\ Cardinality(W) <= Cardinality(G) /\ Cardinality(W) \in Nat
  BY <1>1, <1>2, <1>7, FS_Subset, FS_CardinalityType
<1>8. ASSUME NEW h \in Pid, Heir(r) = {h}
      PROVE  IsFiniteSet(W) /\ AvailableAfter(r) + Cardinality(W) <= Total[r]
  <2>1. AvailableAfter(r) = available[r]
    BY <1>8 DEF AvailableAfter
  <2>2. IsFiniteSet(W) /\ Cardinality(W) <= Cardinality(G) /\ Cardinality(W) \in Nat
    BY <1>6, <1>7, <1>8
  <2> QED
    BY <1>1, <2>1, <2>2
<1> QED
  BY <1>3, <1>5, <1>8 DEF W

\* A step that leaves the holders, the counters and the free count of r alone leaves
\* what is given out alone.
LEMMA SameCovered ==
  ASSUME NEW r \in Rid, Covered(r), held_by'[r] = held_by[r], available'[r] = available[r],
         \A p \in Pid : held'[p][r] = held[p][r]
  PROVE  Covered(r)'
<1>1. Given(r)' = Given(r)
  BY DEF Given, UnitsOf
<1> QED
  BY <1>1 DEF Covered

LEMMA AddResourceAllotment ==
  ASSUME TypeOK, Allotment, NEW a \in Rid, AddResource(a)
  PROVE  Allotment'
<1>1. /\ a \notin resources /\ resources' = resources \cup {a}
      /\ available' = [available EXCEPT ![a] = Total[a]]
      /\ UNCHANGED <<held, proc>>
  BY DEF AddResource
<1>2. held_by' = held_by /\ waited_by' = waited_by
  BY <1>1 DEF TypeOK, Allotment, AddResource
<1>3. Covered(a)'
  <2>1. \A p \in Pid : held[p][a] \in Nat /\ ~(held[p][a] > 0) /\ p \notin held_by[a]
    BY <1>1 DEF TypeOK, Allotment
  <2>2. Given(a) = {}
    BY <2>1 DEF Given, UnitsOf
  <2>3. Given(a)' = {}
    BY <1>1, <1>2, <2>2 DEF Given, UnitsOf
  <2>4. PICK G : G = Given(a)'
    OBVIOUS
  <2>5. IsFiniteSet(G) /\ Cardinality(G) = 0
    BY <2>3, <2>4, FS_EmptySet
  <2>6. available'[a] = Total[a] /\ Total[a] \in Nat
    BY <1>1, TotalAssumption DEF TypeOK
  <2>7. IsFiniteSet(G) /\ available'[a] + Cardinality(G) <= Total[a]
    BY <2>5, <2>6
  <2> QED
    BY <2>4, <2>7 DEF Covered
<1>4. ASSUME NEW r \in resources PROVE Covered(r)'
  BY <1>1, <1>2, <1>4, SameCovered DEF TypeOK, Allotment
<1>5. \A r \in Rid \ resources' : held_by'[r] = {} /\ waited_by'[r] = <<>>
  BY <1>1, <1>2 DEF Allotment
<1>6. \A p \in Pid, r \in Rid : Waits(p, r)' <=> Waits(p, r)
  BY <1>2 DEF Waits
<1> QED
  BY <1>1, <1>2, <1>3, <1>4, <1>5, <1>6 DEF Allotment

LEMMA RemoveResourceAllotment ==
  ASSUME TypeOK, Allotment, NEW a \in Rid, RemoveResource(a)
  PROVE  Allotment'
<1>1. /\ held_by[a] = {} /\ waited_by[a] = <<>> /\ resources' = resources \ {a}
      /\ UNCHANGED <<available, held_by, waited_by, held, proc>>
  BY DEF RemoveResource
<1>2. \A r \in Rid : Covered(r)' <=> Covered(r)
  BY <1>1 DEF Covered, Given, UnitsOf
<1>3. \A r \in resources' : Covered(r)'
  BY <1>1, <1>2 DEF Allotment, TypeOK
<1>4. \A p \in Pid, r \in Rid : Waits(p, r)' <=> Waits(p, r)
  BY <1>1 DEF Waits
<1> QED
  BY <1>1, <1>3, <1>4 DEF Allotment

LEMMA KillAllotment ==
  ASSUME TypeOK, Allotment, NEW p \in Pid, Kill(p)
  PROVE  Allotment'
<1>1. UNCHANGED <<resources, available, held_by, waited_by, held>>
  BY DEF Kill
<1>2. \A q \in Pid : proc'[q] = "gone" <=> proc[q] = "gone"
  BY DEF Kill, TypeOK
<1>3. \A r \in Rid : Covered(r)' <=> Covered(r)
  BY <1>1 DEF Covered, Given, UnitsOf
<1>4. \A q \in Pid, r \in Rid : Waits(q, r)' <=> Waits(q, r)
  BY <1>1 DEF Waits
<1> QED
  BY <1>1, <1>2, <1>3, <1>4 DEF Allotment, TypeOK

LEMMA GrantAllotment ==
  ASSUME TypeOK, Allotment, NEW p \in Pid, NEW a \in resources, NEW prio \in Prio,
         proc[p] = "alive", Grant(p, a, prio), resources' = resources, proc' = proc
  PROVE  Allotment'
<1>0. a \in Rid
  BY DEF TypeOK
<1>1. /\ available[a] > 0 /\ available' = [available EXCEPT ![a] = @ - 1]
      /\ held_by' = [held_by EXCEPT ![a] = @ \cup {p}]
      /\ held' = [held EXCEPT ![p][a] = @ + 1]
      /\ waited_by' = waited_by
  BY DEF Grant
<1>2. /\ held'[p][a] = held[p][a] + 1 /\ held[p][a] \in Nat
      /\ \A q \in Pid, r \in Rid : q # p \/ r # a => held'[q][r] = held[q][r]
  BY <1>0, <1>1 DEF TypeOK
<1>3. \A q \in Pid, r \in Rid : proc'[q] # "gone" => (q \in held_by'[r] <=> held'[q][r] > 0)
  BY <1>0, <1>1, <1>2 DEF TypeOK, Allotment
<1>4. \A q \in Pid, r \in Rid : Waits(q, r)' <=> Waits(q, r)
  BY <1>1 DEF Waits
<1>5. Covered(a)'
  <2> DEFINE new == <<p, held[p][a] + 1>>
  <2>1. IsFiniteSet(Given(a)) /\ Cardinality(Given(a)) \in Nat
        /\ available[a] + Cardinality(Given(a)) <= Total[a]
    BY FS_CardinalityType DEF Allotment, Covered
  <2>2. Given(a)' \subseteq Given(a) \cup {new}
    <3> SUFFICES ASSUME NEW u \in Given(a)' PROVE u \in Given(a) \cup {new}
      OBVIOUS
    <3>1. /\ u \in Pid \X (Nat \ {0}) /\ u[1] \in Pid /\ u[2] \in Nat \ {0} /\ u = <<u[1], u[2]>>
          /\ u[2] <= held'[u[1]][a] \/ (u[2] = 1 /\ u[1] \in held_by'[a])
      BY DEF Given, UnitsOf
    <3>2. CASE u[1] = p
      <4>1. u[2] <= held[p][a] + 1
        BY <1>2, <3>1, <3>2
      <4>2. CASE u[2] = held[p][a] + 1
        BY <3>1, <3>2, <4>2
      <4>3. CASE u[2] <= held[p][a]
        BY <3>1, <3>2, <4>3 DEF Given, UnitsOf
      <4> QED
        BY <1>2, <3>1, <4>1, <4>2, <4>3
    <3>3. CASE u[1] # p
      <4>1. held'[u[1]][a] = held[u[1]][a] /\ (u[1] \in held_by'[a] => u[1] \in held_by[a])
        BY <1>0, <1>1, <1>2, <3>1, <3>3 DEF TypeOK
      <4> QED
        BY <3>1, <4>1 DEF Given, UnitsOf
    <3> QED
      BY <3>2, <3>3
  <2> HIDE DEF new
  <2>3. PICK G : G = Given(a)'
    OBVIOUS
  <2>4. /\ IsFiniteSet(Given(a) \cup {new})
        /\ \/ Cardinality(Given(a) \cup {new}) = Cardinality(Given(a))
           \/ Cardinality(Given(a) \cup {new}) = Cardinality(Given(a)) + 1
    BY <2>1, FS_AddElement
  <2>5. /\ IsFiniteSet(G) /\ Cardinality(G) <= Cardinality(Given(a) \cup {new})
        /\ Cardinality(G) \in Nat /\ Cardinality(Given(a) \cup {new}) \in Nat
    BY <2>2, <2>3, <2>4, FS_Subset, FS_CardinalityType
  <2>6. available'[a] = available[a] - 1 /\ available[a] \in Nat /\ Total[a] \in Nat
    BY <1>0, <1>1, TotalAssumption DEF TypeOK
  <2>7. IsFiniteSet(G) /\ available'[a] + Cardinality(G) <= Total[a]
    BY <2>1, <2>4, <2>5, <2>6
  <2> QED
    BY <2>3, <2>7 DEF Covered
<1>6. ASSUME NEW r \in resources, r # a PROVE Covered(r)'
  <2>1. /\ r \in Rid /\ held_by'[r] = held_by[r] /\ available'[r] = available[r]
        /\ \A q \in Pid : held'[q][r] = held[q][r]
    BY <1>0, <1>1, <1>2, <1>6 DEF TypeOK
  <2> QED
    BY <2>1, SameCovered DEF Allotment
<1>7. \A r \in Rid \ resources' : held_by'[r] = {} /\ waited_by'[r] = <<>>
  BY <1>1 DEF TypeOK, Allotment
<1>8. \A q \in Pid, r \in Rid : proc'[q] = "gone" => held'[q][r] = 0 /\ ~Waits(q, r)'
  BY <1>2, <1>4 DEF Allotment
<1> QED
  BY <1>1, <1>3, <1>5, <1>6, <1>7, <1>8 DEF Allotment

LEMMA EnqueueAllotment ==
  ASSUME TypeOK, Allotment, NEW p \in Pid, NEW a \in resources, NEW prio \in Prio,
         proc[p] = "alive", Enqueue(p, a, prio), resources' = resources, proc' = proc
  PROVE  Allotment'
<1>0. a \in Rid
  BY DEF TypeOK
<1>1. /\ waited_by' = [waited_by EXCEPT ![a] = IF Waits(p, a) THEN @ ELSE Append(@, p)]
      /\ UNCHANGED <<available, held_by, held>>
  BY DEF Enqueue
<1>2. waited_by[a] \in Seq(Pid) /\ Distinct(waited_by[a])
  BY <1>0 DEF TypeOK, Allotment
<1>3. Distinct(waited_by'[a]) /\ \A q \in Pid : InQueue(waited_by'[a], q) => Waits(q, a) \/ q = p
  <2>1. CASE Waits(p, a)
    BY <1>0, <1>1, <1>2, <2>1 DEF TypeOK, Waits, InQueue
  <2>2. CASE ~Waits(p, a)
    <3>1. waited_by'[a] = Append(waited_by[a], p) /\ ~InQueue(waited_by[a], p)
      BY <1>0, <1>1, <2>2 DEF TypeOK, Waits, InQueue
    <3> QED
      BY <1>2, <3>1, AppendMembers DEF Waits, InQueue
  <2> QED
    BY <2>1, <2>2
<1>4. \A r \in Rid : r # a => waited_by'[r] = waited_by[r]
  BY <1>1 DEF TypeOK
<1>5. \A q \in Pid, r \in Rid : Waits(q, r)' => Waits(q, r) \/ q = p
  BY <1>3, <1>4 DEF Waits, InQueue
<1>6. \A r \in Rid : Distinct(waited_by'[r])
  BY <1>3, <1>4 DEF Allotment
<1>7. \A r \in Rid : Covered(r)' <=> Covered(r)
  BY <1>1 DEF Covered, Given, UnitsOf
<1>8. \A r \in Rid \ resources' : held_by'[r] = {} /\ waited_by'[r] = <<>>
  BY <1>1, <1>4 DEF Allotment
<1>9. \A q \in Pid, r \in Rid : proc'[q] = "gone" => held'[q][r] = 0 /\ ~Waits(q, r)'
  BY <1>1, <1>5 DEF Allotment
<1>10. \A r \in resources' : Covered(r)'
  BY <1>7 DEF Allotment, TypeOK
<1> QED
  BY <1>1, <1>6, <1>8, <1>9, <1>10 DEF Allotment

LEMMA ReleaseAllotment ==
  ASSUME TypeOK, Allotment, NEW p \in Pid, NEW a \in Rid, Release(p, a)
  PROVE  Allotment'
<1>1. /\ a \in resources /\ p \in held_by[a] /\ proc[p] = "alive"
      /\ held_by'[a] = HoldersAfter(p, a) /\ waited_by'[a] = QueueAfter(a)
      /\ available'[a] = AvailableAfter(a)
      /\ \A q \in Pid : held'[q][a] = UnitsAfter(p, a, q)
      /\ resources' = resources /\ proc' = proc
  BY DEF TypeOK, Release
<1>2. \A r \in Rid \ {a} : /\ held_by'[r] = held_by[r] /\ waited_by'[r] = waited_by[r]
                         /\ available'[r] = available[r]
                         /\ \A q \in Pid : held'[q][r] = held[q][r]
  BY DEF TypeOK, Release
<1>3. waited_by[a] \in Seq(Pid) /\ Distinct(waited_by[a]) /\ Covered(a)
  BY <1>1 DEF TypeOK, Allotment
<1>4. \A q \in Pid : held[q][a] \in Nat
  BY DEF TypeOK
<1>5. held[p][a] > 0
  BY <1>1 DEF Allotment
<1>6. \A q \in Heir(a) : q \in Pid /\ Waits(q, a) /\ proc[q] # "gone"
  <2>1. \A q \in Heir(a) : q \in Pid /\ Waits(q, a)
    BY <1>3 DEF Heir, Waits
  <2> QED
    BY <2>1 DEF Allotment
<1>7. Distinct(QueueAfter(a)) /\ \A q \in Pid : InQueue(QueueAfter(a), q) => Waits(q, a)
  <2>1. CASE waited_by[a] = <<>>
    BY <1>3, <2>1 DEF QueueAfter, Heir, InQueue, Waits
  <2>2. CASE waited_by[a] # <<>>
    <3>1. QueueAfter(a) = Tail(waited_by[a])
      BY <2>2 DEF QueueAfter, Heir
    <3> QED
      BY <1>3, <2>2, <3>1, TailMembers DEF InQueue, Waits
  <2> QED
    BY <2>1, <2>2
<1>8. \A q \in Pid, r \in Rid : Waits(q, r)' => Waits(q, r)
  <2> SUFFICES ASSUME NEW q \in Pid, NEW r \in Rid, Waits(q, r)' PROVE Waits(q, r)
    OBVIOUS
  <2>1. InQueue(waited_by'[r], q)
    BY DEF Waits, InQueue
  <2>2. CASE r = a
    BY <1>1, <1>7, <2>1, <2>2
  <2>3. CASE r # a
    BY <1>2, <2>1, <2>3 DEF Waits, InQueue
  <2> QED
    BY <2>2, <2>3
<1>9. \A r \in Rid : Distinct(waited_by'[r])
  BY <1>1, <1>2, <1>7 DEF Allotment
<1>10. \A q \in Pid, r \in Rid : proc'[q] = "gone" => held'[q][r] = 0 /\ ~Waits(q, r)'
  <2> SUFFICES ASSUME NEW q \in Pid, NEW r \in Rid, proc[q] = "gone"
               PROVE  held'[q][r] = 0 /\ ~Waits(q, r)'
    BY <1>1
  <2>1. held[q][r] = 0 /\ ~Waits(q, r)
    BY DEF Allotment
  <2>2. CASE r = a
    <3>1. q # p /\ q \notin Heir(a)
      BY <1>1, <1>6
    <3> QED
      BY <1>1, <1>8, <2>1, <2>2, <3>1 DEF UnitsAfter
  <2>3. CASE r # a
    BY <1>2, <1>8, <2>1, <2>3
  <2> QED
    BY <2>2, <2>3
<1>11. \A q \in Pid, r \in Rid : proc'[q] # "gone" => (q \in held_by'[r] <=> held'[q][r] > 0)
  <2> SUFFICES ASSUME NEW q \in Pid, NEW r \in Rid, proc[q] # "gone"
               PROVE  q \in held_by'[r] <=> held'[q][r] > 0
    BY <1>1
  <2>1. q \in held_by[r] <=> held[q][r] > 0
    BY DEF Allotment
  <2>2. CASE r = a
    BY <1>1, <1>4, <2>1, <2>2 DEF HoldersAfter, UnitsAfter, LastUnit
  <2>3. CASE r # a
    BY <1>2, <2>1, <2>3
  <2> QED
    BY <2>2, <2>3
<1>12. Covered(a)'
  <2>1. PICK count : count = [q \in Pid |-> held'[q][a]]
    OBVIOUS
  <2>2. PICK holders : holders = held_by'[a]
    OBVIOUS
  <2>3. count \in [Pid -> Nat] /\ \A q \in Pid : count[q] = UnitsAfter(p, a, q)
    BY <1>1, <2>1, AfterReleaseType
  <2>4. count[p] <= UnitsAfter(p, a, p)
    BY <2>3
  <2>5. /\ IsFiniteSet(UnitsOf(count, holders))
        /\ AvailableAfter(a) + Cardinality(UnitsOf(count, holders)) <= Total[a]
    BY <1>1, <1>3, <1>5, <2>2, <2>3, <2>4, ReleaseCovered
  <2>6. Given(a)' = UnitsOf(count, holders)
    BY <2>1, <2>2 DEF Given, UnitsOf
  <2> QED
    BY <1>1, <2>5, <2>6 DEF Covered
<1>13. ASSUME NEW r \in resources, r # a PROVE Covered(r)'
  BY <1>2, <1>13, SameCovered DEF TypeOK, Allotment
<1>14. \A r \in Rid \ resources' : held_by'[r] = {} /\ waited_by'[r] = <<>>
  BY <1>1, <1>2 DEF Allotment
<1> QED
  BY <1>1, <1>9, <1>10, <1>11, <1>12, <1>13, <1>14 DEF Allotment

\* What the death of p does to one resource.
LEMMA CleanAllotment ==
  ASSUME TypeOK, Allotment, NEW p \in Pid, proc[p] = "stopping", ReleaseAll(p), NEW r \in Rid
  PROVE  /\ Distinct(waited_by'[r])
         /\ \A q \in Pid : Waits(q, r)' => q # p /\ Waits(q, r)
         /\ \A q \in Pid \ {p} : proc[q] = "gone" => held'[q][r] = 0
         /\ held'[p][r] = 0
         /\ \A q \in Pid \ {p} : proc[q] # "gone" => (q \in held_by'[r] <=> held'[q][r] > 0)
         /\ r \in resources => Covered(r)'
         /\ r \notin resources => held_by'[r] = {} /\ waited_by'[r] = <<>>
<1>0. waited_by[r] \in Seq(Pid) /\ Distinct(waited_by[r])
  BY DEF TypeOK, Allotment
<1>1. \A q \in Pid : held[q][r] \in Nat
  BY DEF TypeOK
<1>2. p \in held_by[r] <=> held[p][r] > 0
  BY DEF Allotment
<1>3. \A q \in Pid : Waits(q, r)' <=> InQueue(waited_by'[r], q)
  BY DEF Waits, InQueue
<1>4. \A q \in Heir(r) : q \in Pid /\ Waits(q, r) /\ proc[q] # "gone"
  <2>1. \A q \in Heir(r) : q \in Pid /\ Waits(q, r)
    BY <1>0 DEF Heir, Waits
  <2> QED
    BY <2>1 DEF Allotment
<1>5. CASE r \in resources /\ p \in held_by[r]
  <2>1. held[p][r] > 0
    BY <1>2, <1>5
  <2>2. /\ held_by'[r] = HoldersAfter(p, r) /\ available'[r] = AvailableAfter(r)
        /\ waited_by'[r] = Without(QueueAfter(r), p)
        /\ \A q \in Pid : held'[q][r] = IF q = p THEN 0 ELSE UnitsAfter(p, r, q)
    BY <1>5, <2>1 DEF ReleaseAll
  <2>3. /\ QueueAfter(r) \in Seq(Pid) /\ Distinct(QueueAfter(r))
        /\ \A q \in Pid : InQueue(QueueAfter(r), q) => Waits(q, r)
    <3>1. CASE waited_by[r] = <<>>
      BY <1>0, <3>1 DEF QueueAfter, Heir, InQueue, Waits
    <3>2. CASE waited_by[r] # <<>>
      <4>1. QueueAfter(r) = Tail(waited_by[r])
        BY <3>2 DEF QueueAfter, Heir
      <4> QED
        BY <1>0, <3>2, <4>1, TailMembers, AfterReleaseType DEF InQueue, Waits
    <3> QED
      BY <3>1, <3>2
  <2>4. /\ Distinct(waited_by'[r])
        /\ \A x : InQueue(waited_by'[r], x) <=> InQueue(QueueAfter(r), x) /\ x # p
    BY <2>2, <2>3, WithoutMembers
  <2>5. \A q \in Pid \ {p} : proc[q] = "gone" => held'[q][r] = 0
    <3> SUFFICES ASSUME NEW q \in Pid \ {p}, proc[q] = "gone" PROVE held'[q][r] = 0
      OBVIOUS
    <3>1. held[q][r] = 0 /\ q \notin Heir(r)
      BY <1>4 DEF Allotment
    <3> QED
      BY <2>2, <3>1 DEF UnitsAfter
  <2>6. \A q \in Pid \ {p} : proc[q] # "gone" => (q \in held_by'[r] <=> held'[q][r] > 0)
    <3> SUFFICES ASSUME NEW q \in Pid \ {p}, proc[q] # "gone"
                 PROVE  q \in held_by'[r] <=> held'[q][r] > 0
      OBVIOUS
    <3>1. q \in held_by[r] <=> held[q][r] > 0
      BY DEF Allotment
    <3> QED
      BY <1>1, <2>2, <3>1 DEF HoldersAfter, UnitsAfter
  <2>7. Covered(r)'
    <3>1. PICK count : count = [q \in Pid |-> held'[q][r]]
      OBVIOUS
    <3>2. PICK holders : holders = held_by'[r]
      OBVIOUS
    <3>3. count \in [Pid -> Nat] /\ \A q \in Pid \ {p} : count[q] = UnitsAfter(p, r, q)
      BY <2>2, <3>1, AfterReleaseType
    <3>4. count[p] <= UnitsAfter(p, r, p)
      <4>1. UnitsAfter(p, r, p) \in Nat /\ count[p] = 0
        BY <2>2, <3>1, AfterReleaseType
      <4> QED
        BY <4>1
    <3>5. /\ IsFiniteSet(UnitsOf(count, holders))
          /\ AvailableAfter(r) + Cardinality(UnitsOf(count, holders)) <= Total[r]
      BY <1>5, <2>1, <2>2, <3>2, <3>3, <3>4, ReleaseCovered DEF Allotment
    <3>6. Given(r)' = UnitsOf(count, holders)
      BY <3>1, <3>2 DEF Given, UnitsOf
    <3> QED
      BY <2>2, <3>5, <3>6 DEF Covered
  <2> QED
    BY <1>3, <1>5, <2>2, <2>3, <2>4, <2>5, <2>6, <2>7
<1>6. CASE ~(r \in resources /\ p \in held_by[r])
  <2>1. p \notin held_by[r] /\ held[p][r] = 0
    BY <1>1, <1>2, <1>6 DEF Allotment
  <2>2. /\ held_by'[r] = held_by[r] /\ available'[r] = available[r]
        /\ waited_by'[r] = Without(waited_by[r], p)
        /\ \A q \in Pid : held'[q][r] = held[q][r]
    BY <2>1 DEF ReleaseAll
  <2>3. /\ Distinct(waited_by'[r])
        /\ \A x : InQueue(waited_by'[r], x) <=> InQueue(waited_by[r], x) /\ x # p
    BY <1>0, <2>2, WithoutMembers
  <2>4. \A q \in Pid : Waits(q, r)' => q # p /\ Waits(q, r)
    BY <1>3, <2>3 DEF InQueue, Waits
  <2>5. r \in resources => Covered(r)'
    BY <2>2, SameCovered DEF Allotment
  <2>6. r \notin resources => held_by'[r] = {} /\ waited_by'[r] = <<>>
    <3> SUFFICES ASSUME r \notin resources PROVE held_by'[r] = {} /\ waited_by'[r] = <<>>
      OBVIOUS
    <3>1. held_by[r] = {} /\ waited_by[r] = <<>>
      BY DEF Allotment
    <3> QED
      BY <2>2, <3>1 DEF Without
  <2>7. \A q \in Pid \ {p} : proc[q] = "gone" => held'[q][r] = 0
    BY <2>2 DEF Allotment
  <2>8. \A q \in Pid \ {p} : proc[q] # "gone" => (q \in held_by'[r] <=> held'[q][r] > 0)
    BY <2>2 DEF Allotment
  <2> QED
    BY <2>1, <2>2, <2>3, <2>4, <2>5, <2>6, <2>7, <2>8
<1> QED
  BY <1>5, <1>6

LEMMA OnProcDeathAllotment ==
  ASSUME TypeOK, Allotment, NEW p \in Pid, OnProcDeath(p)
  PROVE  Allotment'
<1>1. /\ proc[p] = "stopping" /\ ReleaseAll(p) /\ resources' = resources
      /\ proc' = [proc EXCEPT ![p] = "gone"]
  BY DEF OnProcDeath
<1>2. \A r \in Rid :
        /\ Distinct(waited_by'[r])
        /\ \A q \in Pid : Waits(q, r)' => q # p /\ Waits(q, r)
        /\ \A q \in Pid \ {p} : proc[q] = "gone" => held'[q][r] = 0
        /\ held'[p][r] = 0
        /\ \A q \in Pid \ {p} : proc[q] # "gone" => (q \in held_by'[r] <=> held'[q][r] > 0)
        /\ r \in resources => Covered(r)'
        /\ r \notin resources => held_by'[r] = {} /\ waited_by'[r] = <<>>
  BY <1>1, CleanAllotment
<1>3. proc'[p] = "gone" /\ \A q \in Pid \ {p} : proc'[q] = proc[q]
  BY <1>1 DEF TypeOK
<1>4. \A q \in Pid, r \in Rid : proc'[q] = "gone" => held'[q][r] = 0 /\ ~Waits(q, r)'
  BY <1>2, <1>3 DEF Allotment
<1>5. \A q \in Pid, r \in Rid : proc'[q] # "gone" => (q \in held_by'[r] <=> held'[q][r] > 0)
  BY <1>2, <1>3
<1>6. \A r \in resources' : Covered(r)'
  BY <1>1, <1>2 DEF TypeOK
<1> QED
  BY <1>1, <1>2, <1>4, <1>5, <1>6 DEF Allotment

LEMMA NextAllotment == TypeOK /\ Allotment /\ [Next]_vars => Allotment'
<1> SUFFICES ASSUME TypeOK, Allotment, [Next]_vars PROVE Allotment'
  OBVIOUS
<1>1. ASSUME NEW r \in Rid, AddResource(r) PROVE Allotment'
  BY <1>1, AddResourceAllotment
<1>2. ASSUME NEW r \in Rid, RemoveResource(r) PROVE Allotment'
  BY <1>2, RemoveResourceAllotment
<1>3. ASSUME NEW p \in Pid, NEW r \in Rid, Release(p, r) PROVE Allotment'
  BY <1>3, ReleaseAllotment
<1>4. ASSUME NEW p \in Pid, NEW r \in Rid, NEW prio \in Prio, Request(p, r, prio)
      PROVE Allotment'
  BY <1>4, GrantAllotment, EnqueueAllotment DEF Request
<1>5. ASSUME NEW p \in Pid, Kill(p) PROVE Allotment'
  BY <1>5, KillAllotment
<1>6. ASSUME NEW p \in Pid, OnProcDeath(p) PROVE Allotment'
  BY <1>6, OnProcDeathAllotment
<1>7. CASE UNCHANGED vars
  BY <1>7 DEF vars, Allotment, Waits, Covered, Given, UnitsOf
<1> QED
  BY <1>1, <1>2, <1>3, <1>4, <1>5, <1>6, <1>7 DEF Next

\* Every holder has a unit, so there are no more holders than units given out.
LEMMA HoldersAreCovered ==
  ASSUME TypeOK, NEW r \in Rid, Covered(r)
  PROVE  available[r] + Cardinality(held_by[r]) <= Total[r]
<1> DEFINE H == held_by[r]
           G == Given(r)
           first == [p \in H |-> <<p, 1>>]
<1>1. \A p \in H : p \in Pid /\ <<p, 1>> \in G
  BY DEF TypeOK, Given, UnitsOf
<1>2. IsFiniteSet(G) /\ available[r] + Cardinality(G) <= Total[r]
  BY DEF Covered
<1>3. available[r] \in Nat /\ Total[r] \in Nat
  BY TotalAssumption DEF TypeOK
<1> HIDE DEF G, H
<1>4. first \in Injection(H, G)
  BY <1>1 DEF Injection, IsInjective
<1> HIDE DEF first
<1>5. IsFiniteSet(H) /\ Cardinality(H) <= Cardinality(G)
  BY <1>2, <1>4, FS_Injection
<1>6. Cardinality(H) \in Nat /\ Cardinality(G) \in Nat
  BY <1>2, <1>5, FS_CardinalityType
<1> QED
  BY <1>2, <1>3, <1>5, <1>6 DEF H

LEMMA AllotmentAlways == Spec => []Allotment
<1>1. Init => Allotment
  BY DEF Init, Allotment, Distinct, Waits
<1> QED
  BY <1>1, NextAllotment, Typing, PTL DEF Spec

\* The table stays within its types, its totals and its loans, whatever is asked for and
\* given back, and however late a death is noticed: also for processes that ask again for
\* what they hold or await, whose units the clean-up may lose but never doubles.
THEOREM TableIsSound == Spec => []TableSound
<1>1. TypeOK /\ Allotment => NeverOverCommitted
  BY HoldersAreCovered DEF Allotment, NeverOverCommitted, TypeOK
<1>2. TypeOK /\ Allotment /\ NeverBelowBase => TableSound
  BY <1>1 DEF TableSound
<1> QED
  BY <1>2, AllotmentAlways, Typing, BaseAlways, PTL

\* The table of a process and the holders of a resource name the same holdings until the
\* process's death is handled, after every hand-off and every partial clean-up, however
\* many units it holds and whatever else it awaits; the table of the dead counts nothing.
THEOREM ViewsAlwaysAgree == Spec => []ViewsAgree
<1>1. TypeOK /\ Allotment => ViewsAgree
  <2> SUFFICES ASSUME TypeOK, Allotment, NEW p \in Pid, NEW r \in resources
               PROVE  IF proc[p] = "gone" THEN held[p][r] = 0
                      ELSE p \in held_by[r] <=> held[p][r] > 0
    BY DEF ViewsAgree
  <2> QED
    BY DEF Allotment, TypeOK
<1> QED
  BY <1>1, AllotmentAlways, Typing, PTL

-----------------------------------------------------------------------------
(* The account of units, with reentrant requests *)

\* A unit is a process and a number up to what its table counts.
LEMMA CountedUnits ==
  ASSUME NEW r \in Rid
  PROVE  /\ \A p, k : <<p, k>> \in Counted(r) <=> p \in Pid /\ k \in 1..held[p][r]
         /\ \A u \in Counted(r) : u = <<u[1], u[2]>>
BY DEF Counted

LEMMA CountedUnitsNext ==
  ASSUME NEW r \in Rid
  PROVE  /\ \A p, k : <<p, k>> \in Counted(r)' <=> p \in Pid /\ k \in 1..held'[p][r]
         /\ \A u \in Counted(r)' : u = <<u[1], u[2]>>
BY DEF Counted

\* There are finitely many, since they are within the total.
LEMMA CountedFinite ==
  ASSUME TypeOK, Allotment, NEW r \in resources
  PROVE  /\ r \in Rid /\ IsFiniteSet(Counted(r)) /\ Cardinality(Counted(r)) \in Nat
         /\ available[r] \in Nat
<1>1. r \in Rid /\ available[r] \in Nat /\ \A p \in Pid : held[p][r] \in Nat
  BY DEF TypeOK
<1>2. IsFiniteSet(Given(r))
  BY DEF Allotment, Covered
<1>3. Counted(r) \subseteq Given(r)
  <2> SUFFICES ASSUME NEW u \in Counted(r) PROVE u \in Given(r)
    OBVIOUS
  <2>1. u = <<u[1], u[2]>> /\ u[1] \in Pid /\ u[2] \in 1..held[u[1]][r]
    BY <1>1, CountedUnits
  <2>2. u[2] \in Nat \ {0} /\ u[2] <= held[u[1]][r]
    BY <1>1, <2>1
  <2> QED
    BY <2>1, <2>2 DEF Given, UnitsOf
<1> QED
  BY <1>1, <1>2, <1>3, FS_Subset, FS_CardinalityType

\* The units of one process are as many as its table counts.
LEMMA OwnUnits ==
  ASSUME NEW p, NEW n \in Nat
  PROVE  IsFiniteSet({p} \X (1..n)) /\ Cardinality({p} \X (1..n)) = n
<1> DEFINE f == [k \in 1..n |-> <<p, k>>]
<1>1. IsFiniteSet(1..n) /\ Cardinality(1..n) = n
  BY FS_Interval
<1>2. f \in Bijection(1..n, {p} \X (1..n))
  <2>1. \A u \in {p} \X (1..n) : u[2] \in 1..n /\ f[u[2]] = u
    OBVIOUS
  <2> QED
    BY <2>1 DEF Bijection, Injection, Surjection, IsInjective
<1> HIDE DEF f
<1> QED
  BY <1>1, <1>2, FS_Bijection DEF ExistsBijection

LEMMA SameUnits ==
  ASSUME NEW r \in Rid, available'[r] = available[r],
         \A p \in Pid : held'[p][r] = held[p][r]
  PROVE  Units(r)' = Units(r)
<1>1. Counted(r)' = Counted(r)
  BY DEF Counted
<1> QED
  BY <1>1 DEF Units

LEMMA GrantUnits ==
  ASSUME TypeOK, Allotment, NEW p \in Pid, NEW a \in resources, NEW prio \in Prio,
         Grant(p, a, prio), NEW r \in resources
  PROVE  Units(r)' = Units(r)
<1>1. a \in Rid /\ r \in Rid
  BY DEF TypeOK
<1>2. /\ available' = [available EXCEPT ![a] = @ - 1]
      /\ held' = [held EXCEPT ![p][a] = @ + 1]
  BY DEF Grant
<1>3. /\ held'[p][a] = held[p][a] + 1 /\ held[p][a] \in Nat
      /\ \A q \in Pid, s \in Rid : q # p \/ s # a => held'[q][s] = held[q][s]
      /\ \A q \in Pid : held[q][a] \in Nat
  BY <1>1, <1>2 DEF TypeOK
<1>4. CASE r # a
  <2>1. available'[r] = available[r]
    BY <1>1, <1>2, <1>4 DEF TypeOK
  <2> QED
    BY <1>1, <1>3, <1>4, <2>1, SameUnits
<1>5. CASE r = a
  <2> DEFINE new == <<p, held[p][a] + 1>>
             C == Counted(a)
             D == Counted(a)'
  <2>1. D = C \cup {new}
    <3>1. ASSUME NEW q \in Pid, NEW k
          PROVE  k \in 1..held'[q][a] <=> k \in 1..held[q][a] \/ (q = p /\ k = held[p][a] + 1)
      BY <1>1, <1>3
    <3>2. ASSUME NEW q, NEW k PROVE <<q, k>> \in D <=> <<q, k>> \in C \/ <<q, k>> = new
      <4>1. <<q, k>> \in D <=> q \in Pid /\ k \in 1..held'[q][a]
        BY <1>1, CountedUnitsNext
      <4>2. <<q, k>> \in C <=> q \in Pid /\ k \in 1..held[q][a]
        BY <1>1, CountedUnits
      <4> HIDE DEF C, D
      <4> QED
        BY <3>1, <4>1, <4>2
    <3>3. \A u \in D : u = <<u[1], u[2]>>
      BY <1>1, CountedUnitsNext
    <3>4. \A u \in C : u = <<u[1], u[2]>>
      BY <1>1, CountedUnits
    <3> HIDE DEF C, D
    <3> QED
      BY <3>2, <3>3, <3>4
  <2>2. new \notin C
    BY <1>1, <1>3, CountedUnits
  <2>3. IsFiniteSet(C) /\ Cardinality(C) \in Nat /\ available[a] \in Nat
    BY CountedFinite
  <2> HIDE DEF C, D, new
  <2>4. Cardinality(D) = Cardinality(C) + 1
    BY <2>1, <2>2, <2>3, FS_AddElement
  <2>5. available'[a] = available[a] - 1
    BY <1>1, <1>2 DEF TypeOK
  <2>6. available'[a] + Cardinality(D) = available[a] + Cardinality(C)
    BY <2>3, <2>4, <2>5
  <2> QED
    BY <1>5, <2>6 DEF Units, C, D
<1> QED
  BY <1>4, <1>5

\* Who a unit goes to is nobody or one process.
LEMMA OneHeir ==
  ASSUME TypeOK, NEW r \in Rid
  PROVE  Heir(r) = {} \/ \E h \in Pid : Heir(r) = {h}
<1>1. waited_by[r] \in Seq(Pid)
  BY DEF TypeOK
<1> QED
  BY <1>1 DEF Heir

\* The unit that an heir gets is a new one of its own.
LEMMA Inherited ==
  ASSUME TypeOK, Allotment, NEW r \in resources, NEW h \in Pid,
         NEW S, S \subseteq Counted(r), IsFiniteSet(S)
  PROVE  /\ IsFiniteSet(S \cup {<<h, held[h][r] + 1>>})
         /\ Cardinality(S \cup {<<h, held[h][r] + 1>>}) = Cardinality(S) + 1
<1>1. r \in Rid /\ held[h][r] \in Nat
  BY DEF TypeOK
<1>2. <<h, held[h][r] + 1>> \notin Counted(r)
  BY <1>1, CountedUnits
<1> QED
  BY <1>2, FS_AddElement

\* A release changes the owner of a unit, or frees it: none is made up or lost.
LEMMA ReleaseKeepsUnits ==
  ASSUME TypeOK, Allotment, NEW p \in Pid, NEW a \in Rid, Release(p, a),
         NEW r \in resources
  PROVE  Units(r)' = Units(r)
<1>1. /\ a \in resources /\ p \in held_by[a] /\ proc[p] = "alive" /\ r \in Rid
      /\ available'[a] = AvailableAfter(a)
      /\ \A q \in Pid : held'[q][a] = UnitsAfter(p, a, q)
  BY DEF TypeOK, Release
<1>2. CASE r # a
  <2>1. available'[r] = available[r] /\ \A q \in Pid : held'[q][r] = held[q][r]
    BY <1>1, <1>2 DEF TypeOK, Release
  <2> QED
    BY <1>1, <2>1, SameUnits
<1>3. CASE r = a
  <2> DEFINE C == Counted(a)
             D == Counted(a)'
             last == <<p, held[p][a]>>
  <2>1. held[p][a] > 0 /\ \A q \in Pid : held[q][a] \in Nat
    BY <1>1 DEF Allotment, TypeOK
  <2>2. IsFiniteSet(C) /\ Cardinality(C) \in Nat /\ available[a] \in Nat
    BY <1>1, CountedFinite
  <2>3. /\ \A q, k : <<q, k>> \in C <=> q \in Pid /\ k \in 1..held[q][a]
        /\ \A u \in C : u = <<u[1], u[2]>>
    BY CountedUnits
  <2>4. /\ \A q, k : <<q, k>> \in D <=> q \in Pid /\ k \in 1..held'[q][a]
        /\ \A u \in D : u = <<u[1], u[2]>>
    BY CountedUnitsNext
  <2>5. last \in C
    BY <2>1, <2>3
  <2> HIDE DEF C, D
  <2>6. IsFiniteSet(C \ {last}) /\ Cardinality(C \ {last}) = Cardinality(C) - 1
    BY <2>2, <2>5, FS_RemoveElement
  <2>7. CASE Heir(a) = {}
    <3>1. ASSUME NEW q \in Pid, NEW k
          PROVE  k \in 1..held'[q][a] <=> k \in 1..held[q][a] /\ <<q, k>> # last
      BY <1>1, <2>1, <2>7 DEF UnitsAfter, LastUnit
    <3>2. ASSUME NEW q, NEW k PROVE <<q, k>> \in D <=> <<q, k>> \in C \ {last}
      BY <2>3, <2>4, <3>1
    <3>3. D = C \ {last}
      BY <2>3, <2>4, <3>2
    <3>4. available'[a] = available[a] + 1
      BY <1>1, <2>7 DEF AvailableAfter
    <3>5. available'[a] + Cardinality(D) = available[a] + Cardinality(C)
      BY <2>2, <2>6, <3>3, <3>4
    <3> QED
      BY <1>3, <3>5 DEF Units, C, D
  <2>8. ASSUME NEW h \in Pid \ {p}, Heir(a) = {h} PROVE Units(a)' = Units(a)
    <3> DEFINE new == <<h, held[h][a] + 1>>
    <3>1. ASSUME NEW q \in Pid, NEW k
          PROVE  k \in 1..held'[q][a]
                   <=> (k \in 1..held[q][a] /\ <<q, k>> # last) \/ <<q, k>> = new
      BY <1>1, <2>1, <2>8 DEF UnitsAfter, LastUnit
    <3>2. ASSUME NEW q, NEW k PROVE <<q, k>> \in D <=> <<q, k>> \in (C \ {last}) \cup {new}
      BY <2>3, <2>4, <3>1
    <3> HIDE DEF new
    <3>3. D = (C \ {last}) \cup {new}
      <4>1. new = <<new[1], new[2]>>
        BY DEF new
      <4> QED
        BY <2>3, <2>4, <3>2, <4>1
    <3>4. Cardinality((C \ {last}) \cup {new}) = Cardinality(C \ {last}) + 1
      BY <1>1, <2>6, Inherited DEF C, new
    <3>5. available'[a] = available[a]
      BY <1>1, <2>8 DEF AvailableAfter
    <3>6. available'[a] + Cardinality(D) = available[a] + Cardinality(C)
      BY <2>2, <2>6, <3>3, <3>4, <3>5
    <3> QED
      BY <3>6 DEF Units, C, D
  <2>9. CASE Heir(a) = {p}
    <3>1. available'[a] = available[a]
      BY <1>1, <2>9 DEF AvailableAfter
    <3>2. \A q \in Pid : held'[q][a] = held[q][a]
      BY <1>1, <2>1, <2>9 DEF UnitsAfter, LastUnit
    <3> QED
      BY <1>3, <3>1, <3>2, SameUnits
  <2> QED
    BY <1>3, <2>7, <2>8, <2>9, OneHeir
<1> QED
  BY <1>2, <1>3

\* The clean-up of p gives back one of its units of r and forgets the others.
LEMMA DeathForgets ==
  ASSUME TypeOK, Allotment, NEW p \in Pid, OnProcDeath(p), NEW r \in resources
  PROVE  Units(r)' = Units(r) - Forgotten(p, r) /\ Forgotten(p, r) \in Nat
<1>1. proc[p] = "stopping" /\ ReleaseAll(p) /\ r \in Rid
  BY DEF OnProcDeath, TypeOK
<1>2. \A q \in Pid : held[q][r] \in Nat
  BY <1>1 DEF TypeOK
<1>3. p \in held_by[r] <=> held[p][r] > 0
  BY <1>1 DEF Allotment
<1>4. IsFiniteSet(Counted(r)) /\ Cardinality(Counted(r)) \in Nat /\ available[r] \in Nat
  BY CountedFinite
<1>5. CASE held[p][r] = 0
  <2>1. available'[r] = available[r] /\ \A q \in Pid : held'[q][r] = held[q][r]
    BY <1>1, <1>5 DEF ReleaseAll
  <2>2. Units(r)' = Units(r) /\ Units(r) \in Nat
    BY <1>1, <1>4, <2>1, SameUnits DEF Units
  <2> QED
    BY <1>5, <2>2 DEF Forgotten
<1>6. CASE held[p][r] > 0
  <2> DEFINE C == Counted(r)
             D == Counted(r)'
             P == {p} \X (1..held[p][r])
  <2>1. /\ available'[r] = AvailableAfter(r)
        /\ \A q \in Pid : held'[q][r] = IF q = p THEN 0 ELSE UnitsAfter(p, r, q)
    BY <1>1, <1>3, <1>6 DEF ReleaseAll
  <2>2. /\ \A q, k : <<q, k>> \in C <=> q \in Pid /\ k \in 1..held[q][r]
        /\ \A u \in C : u = <<u[1], u[2]>>
    BY <1>1, CountedUnits
  <2>3. /\ \A q, k : <<q, k>> \in D <=> q \in Pid /\ k \in 1..held'[q][r]
        /\ \A u \in D : u = <<u[1], u[2]>>
    BY <1>1, CountedUnitsNext
  <2>4. IsFiniteSet(P) /\ Cardinality(P) = held[p][r]
    BY <1>2, OwnUnits
  <2>5. \A q, k : <<q, k>> \in P <=> q = p /\ k \in 1..held[p][r]
    OBVIOUS
  <2>6. P \subseteq C
    BY <2>2 DEF C, Counted
  <2> HIDE DEF C, D, P
  <2>7. /\ IsFiniteSet(C \ P) /\ Cardinality(C \ P) = Cardinality(C) - held[p][r]
        /\ Cardinality(C \ P) \in Nat
    <3>1. Cardinality(C \ P) = Cardinality(C) - Cardinality(C \cap P) /\ IsFiniteSet(C \ P)
      BY <1>4, FS_Difference DEF C
    <3>2. C \cap P = P
      BY <2>6
    <3> QED
      BY <2>4, <3>1, <3>2, FS_CardinalityType
  <2>8. CASE Heir(r) = {} \/ Heir(r) = {p}
    <3>1. ASSUME NEW q \in Pid, NEW k
          PROVE  k \in 1..held'[q][r] <=> k \in 1..held[q][r] /\ q # p
      BY <1>2, <2>1, <2>8 DEF UnitsAfter
    <3>2. ASSUME NEW q, NEW k PROVE <<q, k>> \in D <=> <<q, k>> \in C \ P
      BY <2>2, <2>3, <2>5, <3>1
    <3>3. D = C \ P
      BY <2>2, <2>3, <3>2
    <3>4. available'[r] = IF Heir(r) = {} THEN available[r] + 1 ELSE available[r]
      BY <2>1, <2>8 DEF AvailableAfter
    <3>5. Forgotten(p, r) = IF Heir(r) = {p} THEN held[p][r] ELSE held[p][r] - 1
      BY <1>6 DEF Forgotten
    <3>6. /\ available'[r] + Cardinality(D) = available[r] + Cardinality(C) - Forgotten(p, r)
          /\ available'[r] \in Nat /\ Cardinality(D) \in Nat
      <4>1. Cardinality(C) \in Nat /\ available[r] \in Nat
        BY <1>4 DEF C
      <4>2. Cardinality(D) = Cardinality(C) - held[p][r] /\ Cardinality(D) \in Nat
        BY <2>7, <3>3
      <4>3. Heir(r) # {p} => Heir(r) = {}
        BY <2>8
      <4> HIDE DEF C, D
      <4> QED
        BY <1>2, <3>4, <3>5, <4>1, <4>2, <4>3
    <3>7. Forgotten(p, r) \in Nat
      BY <1>2, <1>6, <3>5
    <3>8. Units(r) = available[r] + Cardinality(C) /\ Units(r)' = available'[r] + Cardinality(D)
      BY DEF Units, C, D
    <3> QED
      BY <1>4, <3>6, <3>7, <3>8 DEF C
  <2>9. ASSUME NEW h \in Pid \ {p}, Heir(r) = {h}
        PROVE  Units(r)' = Units(r) - Forgotten(p, r) /\ Forgotten(p, r) \in Nat
    <3> DEFINE new == <<h, held[h][r] + 1>>
    <3>1. ASSUME NEW q \in Pid, NEW k
          PROVE  k \in 1..held'[q][r] <=> (k \in 1..held[q][r] /\ q # p) \/ <<q, k>> = new
      BY <1>2, <2>1, <2>9 DEF UnitsAfter
    <3>2. ASSUME NEW q, NEW k PROVE <<q, k>> \in D <=> <<q, k>> \in (C \ P) \cup {new}
      BY <2>2, <2>3, <2>5, <3>1
    <3> HIDE DEF new
    <3>3. D = (C \ P) \cup {new}
      <4>1. new = <<new[1], new[2]>>
        BY DEF new
      <4> QED
        BY <2>2, <2>3, <3>2, <4>1
    <3>4. Cardinality((C \ P) \cup {new}) = Cardinality(C \ P) + 1
      BY <2>7, Inherited DEF C, new
    <3>5. available'[r] = available[r]
      BY <2>1, <2>9 DEF AvailableAfter
    <3>6. Forgotten(p, r) = held[p][r] - 1
      BY <1>6, <2>9 DEF Forgotten
    <3>7. /\ available'[r] + Cardinality(D) = available[r] + Cardinality(C) - Forgotten(p, r)
          /\ available'[r] \in Nat /\ Cardinality(D) \in Nat
      BY <1>2, <1>4, <2>7, <3>3, <3>4, <3>5, <3>6 DEF C
    <3>8. Forgotten(p, r) \in Nat
      BY <1>2, <1>6, <3>6
    <3>9. Units(r) = available[r] + Cardinality(C) /\ Units(r)' = available'[r] + Cardinality(D)
      BY DEF Units, C, D
    <3> QED
      BY <1>4, <3>7, <3>8, <3>9 DEF C
  <2> QED
    BY <1>1, <2>8, <2>9, OneHeir
<1> QED
  BY <1>2, <1>5, <1>6

\* Every step keeps the account of every resource that stays, but for the clean-ups.
LEMMA NextUnits ==
  ASSUME TypeOK, Allotment, [Next]_vars, NEW r \in resources \cap resources'
  PROVE  LET lost == {p \in Pid : /\ proc[p] = "stopping" /\ proc'[p] = "gone"
                                  /\ Forgotten(p, r) > 0}
         IN  IF lost = {} THEN Units(r)' = Units(r)
             ELSE \A p \in lost : Units(r)' = Units(r) - Forgotten(p, r)
<1> DEFINE Cleaned(p) == proc[p] = "stopping" /\ proc'[p] = "gone"
           lost == {p \in Pid : Cleaned(p) /\ Forgotten(p, r) > 0}
<1>0. r \in Rid
  BY DEF TypeOK
<1>1. ASSUME Units(r)' = Units(r), \A p \in Pid : ~Cleaned(p)
      PROVE  lost = {} /\ Units(r)' = Units(r)
  BY <1>1
<1>2. ASSUME NEW a \in Rid, AddResource(a) PROVE lost = {} /\ Units(r)' = Units(r)
  <2>1. /\ a # r /\ held' = held /\ proc' = proc
        /\ available' = [available EXCEPT ![a] = Total[a]]
    BY <1>2 DEF AddResource
  <2>2. available'[r] = available[r]
    BY <1>0, <2>1 DEF TypeOK
  <2> QED
    BY <1>0, <1>1, <2>1, <2>2, SameUnits
<1>3. ASSUME NEW a \in Rid, RemoveResource(a) PROVE lost = {} /\ Units(r)' = Units(r)
  BY <1>0, <1>1, <1>3, SameUnits DEF RemoveResource
<1>4. ASSUME NEW p \in Pid, NEW a \in Rid, Release(p, a)
      PROVE  lost = {} /\ Units(r)' = Units(r)
  <2>1. proc' = proc
    BY <1>4 DEF Release
  <2>2. Units(r)' = Units(r)
    BY <1>4, ReleaseKeepsUnits
  <2> QED
    BY <1>1, <2>1, <2>2
<1>5. ASSUME NEW p \in Pid, NEW a \in Rid, NEW prio \in Prio, Request(p, a, prio)
      PROVE  lost = {} /\ Units(r)' = Units(r)
  <2>1. a \in resources /\ proc' = proc /\ (Grant(p, a, prio) \/ Enqueue(p, a, prio))
    BY <1>5 DEF Request
  <2>2. Grant(p, a, prio) => Units(r)' = Units(r)
    BY <2>1, GrantUnits
  <2>3. Enqueue(p, a, prio) => Units(r)' = Units(r)
    BY <1>0, SameUnits DEF Enqueue
  <2> QED
    BY <1>1, <2>1, <2>2, <2>3
<1>6. ASSUME NEW p \in Pid, Kill(p) PROVE lost = {} /\ Units(r)' = Units(r)
  <2>1. /\ available' = available /\ held' = held
        /\ proc' = [proc EXCEPT ![p] = "stopping"]
    BY <1>6 DEF Kill
  <2>2. \A q \in Pid : ~Cleaned(q)
    BY <2>1 DEF TypeOK
  <2> QED
    BY <1>0, <1>1, <2>1, <2>2, SameUnits
<1>7. ASSUME NEW p \in Pid, OnProcDeath(p)
      PROVE  IF lost = {} THEN Units(r)' = Units(r)
             ELSE \A q \in lost : Units(r)' = Units(r) - Forgotten(q, r)
  <2>1. Units(r)' = Units(r) - Forgotten(p, r) /\ Forgotten(p, r) \in Nat
    BY <1>7, DeathForgets
  <2>2. \A q \in Pid : Cleaned(q) => q = p
    BY <1>7 DEF OnProcDeath, TypeOK
  <2>3. Cleaned(p)
    BY <1>7 DEF OnProcDeath, TypeOK
  <2>4. Units(r) \in Nat
    BY CountedFinite DEF Units
  <2>5. CASE Forgotten(p, r) = 0
    <3>1. lost = {}
      BY <2>2, <2>5
    <3> QED
      BY <2>1, <2>4, <2>5, <3>1
  <2>6. CASE Forgotten(p, r) > 0
    <3>1. p \in lost /\ \A q \in lost : q = p
      BY <2>2, <2>3, <2>6
    <3> QED
      BY <2>1, <3>1
  <2> QED
    BY <2>1, <2>5, <2>6
<1>8. ASSUME UNCHANGED vars PROVE lost = {} /\ Units(r)' = Units(r)
  BY <1>0, <1>1, <1>8, SameUnits DEF vars
<1> HIDE DEF lost
<1>9. IF lost = {} THEN Units(r)' = Units(r)
      ELSE \A p \in lost : Units(r)' = Units(r) - Forgotten(p, r)
  <2>1. (lost = {} /\ Units(r)' = Units(r)) \/ \E p \in Pid : OnProcDeath(p)
    BY <1>2, <1>3, <1>4, <1>5, <1>6, <1>8 DEF Next
  <2> QED
    BY <1>7, <2>1
<1> QED
  BY <1>9 DEF lost

\* No unit of any resource is made up or lost by a request, a release, a hand-off or a kill,
\* whoever asks again for what it holds or awaits; the clean-up after a death loses exactly
\* what its process held beyond the one unit it gives back.
THEOREM Conservation == Spec => UnitsAccountedFor
<1>1. TypeOK /\ Allotment /\ [Next]_vars => [Account]_vars
  BY NextUnits DEF Account
<1> QED
  BY <1>1, AllotmentAlways, Typing, PTL DEF Spec, UnitsAccountedFor

-----------------------------------------------------------------------------
(* The table implements FifoResources: under the invariants TypeOK, NoIdleUnit *)
(* and Ledger each operation of the table is one step of FifoResources, or      *)
(* changes nothing that FifoResources has.                                      *)

\* What the steps below may assume.
Invariants == TypeOK /\ NoIdleUnit /\ Ledger

LEMMA RidTypes ==
  ASSUME TypeOK, NEW r \in Rid
  PROVE  /\ waited_by[r] \in Seq(Pid) /\ held_by[r] \in SUBSET Pid /\ available[r] \in Nat
         /\ IsFiniteSet(held_by[r]) /\ Cardinality(held_by[r]) \in Nat
<1>1. waited_by[r] \in Seq(Pid) /\ held_by[r] \in SUBSET Pid /\ available[r] \in Nat
  BY DEF TypeOK
<1> QED BY <1>1, PidAssumption, FS_Subset, FS_CardinalityType

\* Free units and holders add up, so the free count says how many holders there are.
LEMMA FreeUnits ==
  ASSUME Invariants, NEW r \in resources
  PROVE  /\ available[r] > 0 <=> Cardinality(held_by[r]) < Total[r]
         /\ available[r] = 0 <=> Cardinality(held_by[r]) = Total[r]
<1>1. r \in Rid
  BY DEF Invariants, TypeOK
<1>2. available[r] + Cardinality(held_by[r]) = Total[r]
  BY DEF Invariants, Ledger, UnitsConserved
<1> QED BY <1>1, <1>2, RidTypes DEF Invariants

LEMMA AddResourceStep ==
  ASSUME Invariants, NEW r \in Rid, AddResource(r) PROVE Fifo!Add(r)
<1>1. held_by[r] = {} /\ waited_by[r] = <<>>
  BY DEF Invariants, Ledger, AddResource
<1>2. held_by' = held_by /\ waited_by' = waited_by
  BY <1>1 DEF Invariants, TypeOK, AddResource
<1> QED BY <1>2 DEF AddResource, Fifo!Add

LEMMA RemoveResourceStep ==
  ASSUME NEW r \in Rid, RemoveResource(r) PROVE Fifo!Remove(r)
BY DEF RemoveResource, Fifo!Remove

\* FifoResources counts with a Cardinality of its own, the same operator.
LEMMA SameCardinality == ASSUME NEW S PROVE Fifo!Cardinality(S) = Cardinality(S)
  BY DEF Cardinality, Fifo!Cardinality

LEMMA RequestStep ==
  ASSUME ~Reentrant, Invariants, NEW p \in Pid, NEW r \in Rid, NEW prio \in Prio,
         Request(p, r, prio)
  PROVE  Fifo!Take(p, r) \/ Fifo!Join(p, r)
<1>1. r \in resources /\ p \notin held_by[r] /\ ~Waits(p, r) /\ resources' = resources
  BY DEF Request
<1>2. CASE Grant(p, r, prio)
  <2>1. waited_by[r] = <<>>
    BY <1>1, <1>2 DEF Grant, Invariants, NoIdleUnit
  <2>2. Cardinality(held_by[r]) < Total[r]
    BY <1>1, <1>2, FreeUnits DEF Grant
  <2>3. held_by' = [held_by EXCEPT ![r] = @ \cup {p}] /\ waited_by' = waited_by
    BY <1>2 DEF Grant
  <2> QED BY <1>1, <2>1, <2>2, <2>3, SameCardinality DEF Fifo!Take
<1>3. CASE Enqueue(p, r, prio)
  <2>1. Cardinality(held_by[r]) = Total[r]
    BY <1>1, <1>3, FreeUnits DEF Enqueue
  <2>2. waited_by' = [waited_by EXCEPT ![r] = Append(@, p)] /\ held_by' = held_by
    BY <1>1, <1>3 DEF Enqueue
  <2>3. ~Fifo!InLine(p, r)
    BY <1>1 DEF Waits, Fifo!InLine
  <2> QED BY <1>1, <2>1, <2>2, <2>3, SameCardinality DEF Fifo!Join
<1> QED BY <1>2, <1>3 DEF Request

\* The hand-off is the one of FifoResources.
LEMMA SameHandOff ==
  ASSUME Invariants, NEW p \in Pid, NEW r \in resources, p \in held_by[r]
  PROVE  /\ HoldersAfter(p, r) = Fifo!HoldersWithout(p, r)
         /\ QueueAfter(r) = Fifo!LineAfter(r)
<1>1. HoldersAfter(p, r) = (held_by[r] \ {p}) \cup Heir(r)
  BY ReleaseOne DEF Invariants
<1> QED BY <1>1 DEF Heir, QueueAfter, Fifo!HoldersWithout, Fifo!LineAfter

LEMMA ReleaseStep ==
  ASSUME Invariants, NEW p \in Pid, NEW r \in Rid, Release(p, r) PROVE Fifo!GiveUp(p, r)
BY SameHandOff DEF Release, Fifo!GiveUp

\* Taking p out of a queue by index is cutting it out.
LEMMA SameRemoval ==
  ASSUME TypeOK, NEW p \in Pid, NEW r \in Rid
  PROVE  Without(waited_by[r], p) = Fifo!LineWithout(p, r)
<1> DEFINE q == waited_by[r]
<1>1. q \in Seq(Pid)
  BY RidTypes
<1>2. CASE InQueue(q, p)
  <2>1. PICK k : k = CHOOSE i \in 1..Len(q) : q[i] = p
    OBVIOUS
  <2>2. k \in 1..Len(q) /\ Len(q) \in Nat
    BY <1>1, <1>2, <2>1 DEF InQueue
  <2> DEFINE w == [j \in 1..(Len(q) - 1) |-> IF j < k THEN q[j] ELSE q[j + 1]]
             before == SubSeq(q, 1, k - 1)
             after == SubSeq(q, k + 1, Len(q))
  <2>3. Without(q, p) = w
    BY <1>2, <2>1 DEF Without, InQueue
  <2>4. Fifo!LineWithout(p, r) = before \o after
    BY <1>2, <2>1 DEF Fifo!LineWithout, Fifo!InLine, InQueue
  <2>5. /\ before \in Seq(Pid) /\ Len(before) = k - 1
        /\ \A j \in 1..(k - 1) : before[j] = q[j]
    BY <1>1, <2>2, SubSeqProperties
  <2>6. /\ after \in Seq(Pid) /\ Len(after) = Len(q) - k
        /\ \A j \in 1..(Len(q) - k) : after[j] = q[k + j]
    BY <1>1, <2>2, SubSeqProperties
  <2> HIDE DEF before, after
  <2>7. /\ before \o after \in Seq(Pid)
        /\ Len(before \o after) = Len(q) - 1
        /\ \A j \in 1..(Len(q) - 1) :
             (before \o after)[j] = IF j < k THEN before[j] ELSE after[j - (k - 1)]
    <3>1. /\ before \o after \in Seq(Pid)
          /\ Len(before \o after) = Len(before) + Len(after)
          /\ \A j \in 1..(Len(before) + Len(after)) :
               (before \o after)[j] = IF j <= Len(before) THEN before[j]
                                      ELSE after[j - Len(before)]
      BY <2>5, <2>6, ConcatProperties
    <3> QED BY <2>2, <2>5, <2>6, <3>1
  <2>8. \A j \in 1..(Len(q) - 1) : (before \o after)[j] = w[j]
    BY <2>2, <2>5, <2>6, <2>7
  <2>9. w \in Seq(Pid) /\ Len(w) = Len(q) - 1
    BY <1>1, <2>2, <2>3, WithoutType
  <2> HIDE DEF w
  <2> QED BY <2>3, <2>4, <2>7, <2>8, <2>9, SeqEqual
<1>3. CASE ~InQueue(q, p)
  BY <1>3 DEF Without, InQueue, Fifo!LineWithout, Fifo!InLine
<1> QED BY <1>2, <1>3

LEMMA OnProcDeathStep ==
  ASSUME Invariants, NEW p \in Pid, OnProcDeath(p) PROVE Fifo!Leave(p)
<1>1. ReleaseAll(p) /\ resources' = resources
  BY DEF OnProcDeath
<1>2. ASSUME NEW r \in Rid
      PROVE  /\ held_by'[r] = IF p \in held_by[r] THEN Fifo!HoldersWithout(p, r) ELSE held_by[r]
             /\ waited_by'[r] = IF p \in held_by[r] THEN Fifo!LineAfter(r)
                                ELSE Fifo!LineWithout(p, r)
  <2>1. p \in held_by[r] => r \in resources
    BY DEF Invariants, Ledger
  <2>2. held[p][r] = IF p \in held_by[r] THEN 1 ELSE 0
    BY DEF Invariants, Ledger
  <2>3. CASE p \in held_by[r]
    <3>1. /\ held_by'[r] = HoldersAfter(p, r)
          /\ waited_by'[r] = Without(QueueAfter(r), p)
      BY <1>1, <2>1, <2>2, <2>3 DEF ReleaseAll
    <3>2. ~InQueue(QueueAfter(r), p)
      <4>1. ~Waits(p, r)
        BY <2>3 DEF Invariants, Ledger
      <4> QED BY <2>1, <2>3, <4>1, ReleaseOne DEF Invariants
    <3>3. Without(QueueAfter(r), p) = QueueAfter(r)
      BY <3>2 DEF Without, InQueue
    <3> QED BY <2>1, <2>3, <3>1, <3>3, SameHandOff
  <2>4. CASE p \notin held_by[r]
    <3>1. held_by'[r] = held_by[r] /\ waited_by'[r] = Without(waited_by[r], p)
      BY <1>1, <2>4 DEF ReleaseAll
    <3> QED BY <2>4, <3>1, SameRemoval DEF Invariants
  <2> QED BY <2>3, <2>4
<1>3. /\ held_by' = [r \in Rid |-> held_by'[r]]
      /\ waited_by' = [r \in Rid |-> waited_by'[r]]
  BY <1>1 DEF ReleaseAll
<1> QED BY <1>1, <1>2, <1>3 DEF Fifo!Leave

LEMMA NextStep ==
  ~Reentrant /\ Invariants /\ [Next]_vars => [Fifo!Next]_(Fifo!vars)
<1> SUFFICES ASSUME ~Reentrant, Invariants, [Next]_vars PROVE [Fifo!Next]_(Fifo!vars)
  OBVIOUS
<1>1. ASSUME NEW r \in Rid, AddResource(r) \/ RemoveResource(r) PROVE Fifo!Next
  BY <1>1, AddResourceStep, RemoveResourceStep DEF Fifo!Next
<1>2. ASSUME NEW p \in Pid, NEW r \in Rid, Release(p, r) PROVE Fifo!Next
  BY <1>2, ReleaseStep DEF Fifo!Next
<1>3. ASSUME NEW p \in Pid, NEW r \in Rid, NEW prio \in Prio, Request(p, r, prio)
      PROVE  Fifo!Next
  BY <1>3, RequestStep DEF Fifo!Next
<1>4. ASSUME NEW p \in Pid, OnProcDeath(p) PROVE Fifo!Next
  BY <1>4, OnProcDeathStep DEF Fifo!Next
<1>5. ASSUME NEW p \in Pid, Kill(p) PROVE UNCHANGED Fifo!vars
  BY <1>5 DEF Kill, Fifo!vars
<1>6. CASE UNCHANGED vars
  BY <1>6 DEF vars, Fifo!vars
<1> QED BY <1>1, <1>2, <1>3, <1>4, <1>5, <1>6 DEF Next

\* Without reentrant requests the table, with all its counters, hand-offs and late
\* death events, behaves as FifoResources.
THEOREM TableImplementsFifo == ~Reentrant => (Spec => ImplementsFifo)
<1> SUFFICES ASSUME ~Reentrant PROVE Spec => ImplementsFifo
  OBVIOUS
<1>1. Init => Fifo!Init
  BY DEF Init, Fifo!Init
<1>2. Invariants /\ [Next]_vars => [Fifo!Next]_(Fifo!vars)
  BY NextStep
<1>3. Spec => []Invariants
  <2>1. Spec => []Ledger
    BY LedgerAlways
  <2> QED BY <2>1, Typing, WaitersMeanNothingFree, PTL DEF Invariants
<1> QED BY <1>1, <1>2, <1>3, PTL DEF Spec, ImplementsFifo, Fifo!Spec
=============================================================================
