------------------------------ MODULE Apps_proofs ------------------------------
(***************************************************************************)
(* Proofs about what surrounds an application, in three parts.             *)
(*                                                                         *)
(* The windows of the desktop: the manager, the widgets and the taskbar    *)
(* agree after every chain of events, for any number of windows.  A        *)
(* handler is a chain of changes of one record, so the proof follows the   *)
(* chain: what each operator returns when no ghost is listed (Focuses,     *)
(* Closes, Registers) first, then that Sane survives it, then one lemma    *)
(* per action.                                                             *)
(*                                                                         *)
(* The geometry of a window: within reach on a workspace of any size.      *)
(*                                                                         *)
(* The bridge to an isolated engine: a call is carried out once at most,   *)
(* for any capacities, rates and lifetimes.  AtMostOnce is not inductive:  *)
(* that a number is forgotten in time is harmless because every packet     *)
(* that still bears it is stale by then.  Spent says so of an end's pipe   *)
(* and queue together, and Remembers that the calls that have run, or wait *)
(* in the engine's queue, are spent.                                       *)
(***************************************************************************)
EXTENDS Windows, WindowGeometry, AppBridge, FiniteNumbers, SequenceTheorems, TLAPS

(* PART ONE: the windows                                                   *)

-----------------------------------------------------------------------------
\* What is left of a sequence.

\* Every number up to the size of a finite set of integers is the rank of one of its members.
LEMMA RankOf ==
  ASSUME NEW S, S \subseteq Int, IsFiniteSet(S), NEW i \in S
  PROVE  /\ Cardinality({k \in S : k <= i}) \in 1..Cardinality(S)
         /\ \A j \in S : j < i => Cardinality({k \in S : k <= j}) < Cardinality({k \in S : k <= i})
<1> DEFINE upto(j) == {k \in S : k <= j}
<1>1. Cardinality(S) \in Nat
  BY FS_CardinalityType
<1>2. ASSUME NEW j \in S
      PROVE  IsFiniteSet(upto(j)) /\ Cardinality(upto(j)) \in 1..Cardinality(S)
  <2>1. upto(j) \in SUBSET S /\ j \in upto(j)
    OBVIOUS
  <2> HIDE DEF upto
  <2>2. IsFiniteSet(upto(j)) /\ Cardinality(upto(j)) <= Cardinality(S) /\ Cardinality(upto(j)) \in Nat
    BY <2>1, FS_Subset, FS_CardinalityType
  <2>3. Cardinality(upto(j)) # 0
    BY <2>1, <2>2, FS_EmptySet
  <2> QED
    BY <1>1, <2>2, <2>3
<1>3. ASSUME NEW j \in S, j < i
      PROVE  Cardinality(upto(j)) < Cardinality(upto(i))
  <2>0. \A k \in S : k <= j => k <= i
    <3>1. i \in Int /\ j \in Int /\ \A k \in S : k \in Int
      OBVIOUS
    <3> QED
      BY <1>3, <3>1
  <2>1. upto(j) \subseteq upto(i) /\ i \in upto(i) /\ i \notin upto(j)
    <3>1. i <= i /\ ~(i <= j)
      BY <1>3
    <3> QED
      BY <2>0, <3>1, Zenon
  <2>2. upto(j) \in SUBSET upto(i) /\ upto(j) # upto(i)
    BY <2>1
  <2> HIDE DEF upto
  <2>3. IsFiniteSet(upto(i)) /\ Cardinality(upto(i)) \in Nat /\ Cardinality(upto(j)) \in Nat
    BY <1>2
  <2>4. Cardinality(upto(j)) <= Cardinality(upto(i)) /\ Cardinality(upto(j)) # Cardinality(upto(i))
    BY <2>2, <2>3, FS_Subset
  <2> QED
    BY <2>3, <2>4
<1> QED
  BY <1>2, <1>3

PickedBy(q, ws, n, e) ==
  /\ Kept(q, ws) = [j \in 1..n |-> q[e[j]]]
  /\ \A j \in 1..n : q[e[j]] \in ws
  /\ \A i \in DOMAIN q : q[i] \in ws => \E j \in 1..n : e[j] = i
  /\ \A i, j \in 1..n : i < j => e[i] < e[j]

\* The places of what is kept, in their order.
\* Kept picks the places whose member is kept, in their order.
LEMMA KeptPlaces ==
  ASSUME NEW S, NEW q \in Seq(S), NEW ws
  PROVE  \E n \in Nat : \E e \in [1..n -> DOMAIN q] : PickedBy(q, ws, n, e)
<1> DEFINE here == {i \in DOMAIN q : q[i] \in ws}
           n == Cardinality(here)
           rank(i) == Cardinality({k \in here : k <= i})
           e == [j \in 1..n |-> CHOOSE i \in here : rank(i) = j]
<1>1. here \subseteq Nat /\ here \subseteq Int /\ IsFiniteSet(here)
  <2>1. Len(q) \in Nat /\ DOMAIN q = 1..Len(q)
    OBVIOUS
  <2>2. IsFiniteSet(1..Len(q)) /\ here \in SUBSET (1..Len(q))
    BY <2>1, FS_Interval
  <2> QED
    BY <2>1, <2>2, FS_Subset
<1> HIDE DEF here
<1>2. n \in Nat
  BY <1>1, FS_CardinalityType
<1>3. \A i \in here : rank(i) \in 1..n /\ \A j \in here : j < i => rank(j) < rank(i)
  BY <1>1, RankOf
<1>4. \A j \in 1..n : \E i \in here : rank(i) = j
  BY <1>1, EveryRank
<1>5. Kept(q, ws) = [j \in 1..n |-> q[CHOOSE i \in here : rank(i) = j]]
  BY DEF Kept, here
<1> HIDE DEF n, rank
<1>6. \A j \in 1..n : e[j] \in here /\ rank(e[j]) = j
  BY <1>4
<1>7. Kept(q, ws) = [j \in 1..n |-> q[e[j]]]
  BY <1>5
<1> HIDE DEF e
<1>8. e \in [1..n -> DOMAIN q]
  <2>1. here \subseteq DOMAIN q
    BY DEF here
  <2>2. DOMAIN e = 1..n /\ e = [j \in 1..n |-> e[j]]
    BY DEF e
  <2> QED
    BY <1>6, <2>1, <2>2
<1>9. \A j \in 1..n : q[e[j]] \in ws
  BY <1>6 DEF here
<1>10. ASSUME NEW i \in here PROVE \E j \in 1..n : e[j] = i
  <2>1. rank(i) \in 1..n /\ e[rank(i)] \in here /\ rank(e[rank(i)]) = rank(i)
    BY <1>3, <1>6
  <2>2. e[rank(i)] \in Int /\ i \in Int
    BY <1>1, <2>1
  <2>3. ~(e[rank(i)] < i) /\ ~(i < e[rank(i)])
    <3>1. \A a \in here : rank(a) \in Int
      BY <1>2, <1>3
    <3> QED
      BY <1>3, <2>1, <3>1
  <2> QED
    BY <2>1, <2>2, <2>3
<1>11. ASSUME NEW i \in 1..n, NEW j \in 1..n, i < j PROVE e[i] < e[j]
  <2>1. e[i] \in here /\ e[j] \in here /\ rank(e[i]) = i /\ rank(e[j]) = j
    BY <1>6
  <2>2. e[i] \in Int /\ e[j] \in Int
    BY <1>1, <2>1
  <2>3. ~(e[j] < e[i]) /\ e[i] # e[j]
    BY <1>2, <1>3, <1>11, <2>1
  <2> QED
    BY <2>2, <2>3
<1>12. \A i \in DOMAIN q : q[i] \in ws => \E j \in 1..n : e[j] = i
  BY <1>10 DEF here
<1>13. \A i, j \in 1..n : i < j => e[i] < e[j]
  BY <1>11
<1> WITNESS n \in Nat
<1> WITNESS e \in [1..n -> DOMAIN q]
<1> QED
  BY <1>7, <1>9, <1>12, <1>13 DEF PickedBy

\* Its members are the kept ones, each as often as before.
LEMMA KeptMembers ==
  ASSUME NEW S, NEW q \in Seq(S), NEW ws
  PROVE  /\ Kept(q, ws) \in Seq(S)
         /\ ToSet(Kept(q, ws)) = ToSet(q) \cap ws
         /\ IsInjective(q) => IsInjective(Kept(q, ws))
<1>1. PICK n \in Nat : \E e \in [1..n -> DOMAIN q] : PickedBy(q, ws, n, e)
  BY KeptPlaces
<1>2. PICK e \in [1..n -> DOMAIN q] : PickedBy(q, ws, n, e)
  BY <1>1
<1>0. /\ Kept(q, ws) = [j \in 1..n |-> q[e[j]]]
      /\ \A j \in 1..n : q[e[j]] \in ws
      /\ \A i \in DOMAIN q : q[i] \in ws => \E j \in 1..n : e[j] = i
      /\ \A i, j \in 1..n : i < j => e[i] < e[j]
  BY <1>2 DEF PickedBy
<1>3. \A i \in DOMAIN q : q[i] \in S
  OBVIOUS
<1>4. \A j \in 1..n : e[j] \in DOMAIN q /\ e[j] \in Int
  <2>1. DOMAIN q \subseteq Int
    OBVIOUS
  <2> QED
    BY <2>1
<1> DEFINE k == Kept(q, ws)
<1>5. DOMAIN k = 1..n /\ \A j \in 1..n : k[j] = q[e[j]]
  BY <1>0
<1>6. k \in Seq(S)
  BY <1>0, <1>3, <1>4, SeqDef
<1>7. ToSet(k) = ToSet(q) \cap ws
  <2>1. ASSUME NEW x \in ToSet(k) PROVE x \in ToSet(q) /\ x \in ws
    <3>1. PICK j \in 1..n : x = q[e[j]]
      BY <1>5, <2>1 DEF ToSet
    <3> QED
      BY <1>0, <1>4, <3>1 DEF ToSet
  <2>2. ASSUME NEW x \in ToSet(q), x \in ws PROVE x \in ToSet(k)
    <3>1. PICK i \in DOMAIN q : x = q[i]
      BY <2>2 DEF ToSet
    <3>2. PICK j \in 1..n : e[j] = i
      BY <1>0, <2>2, <3>1
    <3>3. k[j] = x /\ j \in DOMAIN k
      BY <1>5, <3>1, <3>2
    <3> HIDE DEF k
    <3> QED
      BY <3>3 DEF ToSet
  <2> HIDE DEF k
  <2> QED
    BY <2>1, <2>2
<1>8. ASSUME IsInjective(q) PROVE IsInjective(k)
  <2>1. \A a, b \in DOMAIN q : q[a] = q[b] => a = b
    BY <1>8 DEF IsInjective
  <2>2. ASSUME NEW a \in 1..n, NEW b \in 1..n, k[a] = k[b] PROVE a = b
    <3>1. k[a] = q[e[a]] /\ k[b] = q[e[b]] /\ e[a] \in DOMAIN q /\ e[b] \in DOMAIN q
      BY <1>4, <1>5
    <3> HIDE DEF k
    <3>2. e[a] = e[b]
      BY <2>1, <2>2, <3>1
    <3> QED
      BY <1>0, <1>4, <3>2
  <2> QED
    BY <1>5, <2>2 DEF IsInjective
<1> QED
  BY <1>6, <1>7, <1>8

LEMMA KeptLast ==
  ASSUME NEW S, NEW q \in Seq(S), NEW ws, q # << >>, Last(q) \in ws
  PROVE  Kept(q, ws) # << >> /\ Last(Kept(q, ws)) = Last(q)
<1>1. PICK n \in Nat : \E e \in [1..n -> DOMAIN q] : PickedBy(q, ws, n, e)
  BY KeptPlaces
<1>2. PICK e \in [1..n -> DOMAIN q] : PickedBy(q, ws, n, e)
  BY <1>1
<1>3. Len(q) \in Nat /\ DOMAIN q = 1..Len(q) /\ Len(q) # 0
  OBVIOUS
<1>4. Len(q) \in DOMAIN q /\ q[Len(q)] \in ws
  BY <1>3 DEF Last
<1>5. PICK j \in 1..n : e[j] = Len(q)
  BY <1>2, <1>4 DEF PickedBy
<1>6. j = n
  <2>1. n \in 1..n /\ e[n] \in 1..Len(q)
    BY <1>3, <1>5
  <2>2. j < n => e[j] < e[n]
    BY <1>2, <2>1 DEF PickedBy
  <2> QED
    BY <1>3, <1>5, <2>1, <2>2
<1>7. Kept(q, ws) = [i \in 1..n |-> q[e[i]]]
  BY <1>2 DEF PickedBy
<1> DEFINE k == [i \in 1..n |-> q[e[i]]]
<1>8. Len(k) = n /\ k[n] = q[Len(q)] /\ n # 0
  BY <1>5, <1>6
<1>9. k # << >>
  BY <1>8
<1> QED
  BY <1>7, <1>8, <1>9 DEF Last

\* When what is kept comes first, that much of the sequence stays as it is.
LEMMA KeptFirst ==
  ASSUME NEW S, NEW q \in Seq(S), NEW ws, NEW m \in 0..Len(q),
         \A i \in DOMAIN q : q[i] \in ws <=> i <= m
  PROVE  Kept(q, ws) = [j \in 1..m |-> q[j]]
<1> DEFINE here == {i \in DOMAIN q : q[i] \in ws}
<1>1. Len(q) \in Nat /\ m \in Nat /\ DOMAIN q = 1..Len(q)
  OBVIOUS
<1>2. here = 1..m
  BY <1>1
<1>3. Cardinality(1..m) = m
  BY <1>1, FS_Interval
<1>4. ASSUME NEW i \in 1..m PROVE Cardinality({k \in 1..m : k <= i}) = i
  <2>1. {k \in 1..m : k <= i} = 1..i
    BY <1>1
  <2>2. i \in Int /\ i >= 1
    BY <1>1
  <2>3. Cardinality(1..i) = i
    BY <2>2, FS_Interval
  <2> QED
    BY <2>1, <2>3
<1>5. ASSUME NEW j \in 1..m
      PROVE  (CHOOSE i \in 1..m : Cardinality({k \in 1..m : k <= i}) = j) = j
  BY <1>4
<1>6. Kept(q, ws) =
        [j \in 1..m |-> q[CHOOSE i \in 1..m : Cardinality({k \in 1..m : k <= i}) = j]]
  <2>1. Kept(q, ws) = [j \in 1..Cardinality(here) |->
                         q[CHOOSE i \in here : Cardinality({k \in here : k <= i}) = j]]
    BY DEF Kept
  <2> HIDE DEF here
  <2> QED
    BY <1>2, <1>3, <2>1, Zenon
<1> QED
  BY <1>5, <1>6

LEMMA LessMembers ==
  ASSUME NEW S, NEW q \in Seq(S), NEW ws
  PROVE  /\ Less(q, ws) \in Seq(S)
         /\ ToSet(Less(q, ws)) = ToSet(q) \ ws
         /\ IsInjective(q) => IsInjective(Less(q, ws))
         /\ q # << >> /\ Last(q) \notin ws =>
              Less(q, ws) # << >> /\ Last(Less(q, ws)) = Last(q)
<1>1. q # << >> => Last(q) \in ToSet(q)
  BY DEF Last, ToSet
<1> QED
  BY <1>1, KeptMembers, KeptLast DEF Less

LEMMA LessAbsent ==
  ASSUME NEW S, NEW q \in Seq(S), NEW w, w \notin ToSet(q)
  PROVE  Less(q, {w}) = q
<1>1. Len(q) \in 0..Len(q) /\ DOMAIN q = 1..Len(q) /\ q = [j \in 1..Len(q) |-> q[j]]
  OBVIOUS
<1>2. \A i \in DOMAIN q : q[i] \in ToSet(q) \ {w} <=> i <= Len(q)
  BY <1>1 DEF ToSet
<1>3. Kept(q, ToSet(q) \ {w}) = [j \in 1..Len(q) |-> q[j]]
  BY <1>1, <1>2, KeptFirst
<1> QED
  BY <1>1, <1>3 DEF Less

LEMMA LessAppended ==
  ASSUME NEW S, NEW q \in Seq(S), NEW w \in S, w \notin ToSet(q)
  PROVE  Less(Append(q, w), {w}) = q
<1> DEFINE a == Append(q, w)
<1>1. /\ Len(q) \in Nat /\ a \in Seq(S) /\ Len(a) = Len(q) + 1 /\ DOMAIN a = 1..(Len(q) + 1)
      /\ a[Len(q) + 1] = w /\ \A j \in 1..Len(q) : a[j] = q[j]
      /\ q = [j \in 1..Len(q) |-> q[j]]
  OBVIOUS
<1>2. \A j \in 1..Len(q) : q[j] \in ToSet(q) /\ q[j] # w
  BY <1>1 DEF ToSet
<1> HIDE DEF a
<1>3. \A j \in 1..Len(q) : a[j] \in ToSet(a)
  BY <1>1 DEF ToSet
<1>4. \A i \in DOMAIN a : a[i] \in ToSet(a) \ {w} <=> i <= Len(q)
  BY <1>1, <1>2, <1>3
<1>5. Len(q) \in 0..Len(a)
  BY <1>1
<1>6. Kept(a, ToSet(a) \ {w}) = [j \in 1..Len(q) |-> a[j]]
  <2> DEFINE ws == ToSet(a) \ {w}
  <2>1. \A i \in DOMAIN a : a[i] \in ws <=> i <= Len(q)
    BY <1>4
  <2> HIDE DEF ws
  <2>2. a \in Seq(S)
    BY <1>1
  <2>3. Kept(a, ws) = [j \in 1..Len(q) |-> a[j]]
    BY <1>5, <2>1, <2>2, KeptFirst
  <2> QED
    BY <2>3 DEF ws
<1>7. [j \in 1..Len(q) |-> a[j]] = q
  BY <1>1
<1>8. Less(a, {w}) = q
  BY <1>6, <1>7 DEF Less
<1> QED
  BY <1>8 DEF a

\* A window brought on top is the last, is listed once, and is on top already the second time.
LEMMA OnTopMembers ==
  ASSUME NEW S, NEW q \in Seq(S), NEW w \in S
  PROVE  /\ OnTop(q, w) \in Seq(S)
         /\ ToSet(OnTop(q, w)) = ToSet(q) \cup {w}
         /\ IsInjective(q) => IsInjective(OnTop(q, w))
         /\ OnTop(q, w) # << >> /\ Last(OnTop(q, w)) = w
         /\ OnTop(OnTop(q, w), w) = OnTop(q, w)
<1> DEFINE r == Less(q, {w})
<1>1. r \in Seq(S) /\ ToSet(r) = ToSet(q) \ {w} /\ (IsInjective(q) => IsInjective(r))
  BY LessMembers
<1> HIDE DEF r
<1>2. OnTop(q, w) = Append(r, w)
  BY DEF OnTop, r
<1>3. Less(Append(r, w), {w}) = r
  BY <1>1, LessAppended
<1>4. /\ Len(r) \in Nat /\ Append(r, w) \in Seq(S) /\ DOMAIN Append(r, w) = 1..(Len(r) + 1)
      /\ DOMAIN r = 1..Len(r) /\ Len(Append(r, w)) = Len(r) + 1
      /\ Append(r, w)[Len(r) + 1] = w /\ \A j \in 1..Len(r) : Append(r, w)[j] = r[j]
  BY <1>1
<1> DEFINE a == Append(r, w)
<1>5. OnTop(a, w) = a
  BY <1>3 DEF OnTop
<1> HIDE DEF a
<1>6. ToSet(a) = ToSet(r) \cup {w}
  <2>1. ASSUME NEW x \in ToSet(a) PROVE x \in ToSet(r) \cup {w}
    <3>1. PICK j \in 1..(Len(r) + 1) : x = a[j]
      BY <1>4, <2>1 DEF ToSet, a
    <3> QED
      BY <1>4, <3>1 DEF ToSet, a
  <2>2. ASSUME NEW x \in ToSet(r) PROVE x \in ToSet(a)
    <3>1. PICK j \in 1..Len(r) : x = r[j]
      BY <1>4, <2>2 DEF ToSet
    <3>2. j \in DOMAIN a /\ a[j] = x
      BY <1>4, <3>1 DEF a
    <3> QED
      BY <3>2 DEF ToSet
  <2>3. w \in ToSet(a)
    <3>1. Len(r) + 1 \in DOMAIN a /\ a[Len(r) + 1] = w
      BY <1>4 DEF a
    <3> QED
      BY <3>1 DEF ToSet
  <2> QED
    BY <2>1, <2>2, <2>3
<1>7. ASSUME IsInjective(r) PROVE IsInjective(a)
  <2>1. \A i \in 1..Len(r) : r[i] # w
    BY <1>1, <1>4 DEF ToSet
  <2>2. \A i, j \in 1..Len(r) : r[i] = r[j] => i = j
    BY <1>4, <1>7 DEF IsInjective
  <2>3. ASSUME NEW i \in 1..(Len(r) + 1), NEW j \in 1..(Len(r) + 1), a[i] = a[j] PROVE i = j
    BY <1>4, <2>1, <2>2, <2>3 DEF a
  <2> QED
    BY <1>4, <2>3 DEF IsInjective, a
<1>8. a # << >> /\ Last(a) = w
  BY <1>4 DEF a, Last
<1>9. OnTop(q, w) = a
  BY <1>2 DEF a
<1>10. a \in Seq(S)
  BY <1>4 DEF a
<1>11. ToSet(a) = ToSet(q) \cup {w}
  BY <1>1, <1>6
<1> QED
  BY <1>1, <1>5, <1>7, <1>8, <1>9, <1>10, <1>11

-----------------------------------------------------------------------------
\* What every operator leaves alone, ghosts or not.

\* A handler leaves the table of the windows and the dead alone.
Keeps(s, r) == r \in Desk /\ r.windows = s.windows /\ r.gone = s.gone

LEMMA DeskParts ==
  ASSUME NEW s \in Desk
  PROVE  /\ s.windows \in Seq(Win) /\ s.order \in Seq(Win) /\ s.ranks \in Seq(Win)
         /\ s.active \in Win \cup {NoWindow}
         /\ s.minimized \in SUBSET Win /\ s.lit \in SUBSET Win /\ s.shown \in SUBSET Win
         /\ s.gone \in SUBSET Win /\ s.tabs \in SUBSET Win
         /\ s.anim \in [Win -> {"idle", "minimize", "restore"}] /\ s.ok \in BOOLEAN
         /\ Known(s) \in SUBSET Win
<1>1. s.windows \in Seq(Win)
  BY DEF Desk
<1>2. Known(s) \in SUBSET Win
  BY <1>1 DEF Known, ToSet
<1> QED
  BY <1>1, <1>2 DEF Desk

LEMMA TabsTyped ==
  ASSUME NEW s \in Desk
  PROVE  Keeps(s, TabsRefreshed(s)) /\ TabsRefreshed(s).ok = s.ok
<1>1. Known(s) \in SUBSET Win
  BY DeskParts
<1>2. Known(s) \cap (s.shown \cup s.minimized) \in SUBSET Win
  BY <1>1
<1> DEFINE k == Known(s) \cap (s.shown \cup s.minimized)
<1>3. k \in SUBSET Win
  BY <1>2
<1>4. TabsRefreshed(s) = IF Ghosts(s) # {} THEN s ELSE [s EXCEPT !.tabs = k]
  BY DEF TabsRefreshed, Icons
<1> HIDE DEF k
<1>5. /\ [s EXCEPT !.tabs = k] \in Desk /\ [s EXCEPT !.tabs = k].windows = s.windows
      /\ [s EXCEPT !.tabs = k].gone = s.gone
  BY <1>3 DEF Desk
<1>6. [s EXCEPT !.tabs = k].ok = s.ok
  BY DEF Desk
<1> QED
  BY <1>4, <1>5, <1>6, Zenon DEF Keeps

LEMMA OnTopTyped ==
  ASSUME NEW q \in Seq(Win), NEW w \in Win
  PROVE  OnTop(q, w) \in Seq(Win)
BY OnTopMembers

LEMMA RaisedTyped ==
  ASSUME NEW s \in Desk, NEW w \in Win
  PROVE  Keeps(s, Raised(s, w))
<1> DEFINE o == OnTop(s.order, w)
           k == OnTop(s.ranks, w)
           f == [s EXCEPT !.order = o, !.ranks = k]
           g == [f EXCEPT !.active = w, !.lit = {w}]
<1>1. o \in Seq(Win) /\ k \in Seq(Win)
  BY OnTopTyped, DeskParts
<1>2. Raised(s, w) = IF Ghosts(s) # {} THEN [f EXCEPT !.ok = FALSE] ELSE TabsRefreshed(g)
  BY DEF Raised, LightsOnly
<1> HIDE DEF o, k
<1>3. f \in Desk /\ f.windows = s.windows /\ f.gone = s.gone
  BY <1>1 DEF Desk
<1> HIDE DEF f
<1>4. g \in Desk /\ g.windows = f.windows /\ g.gone = f.gone
  BY <1>3 DEF Desk
<1>5. [f EXCEPT !.ok = FALSE] \in Desk /\ [f EXCEPT !.ok = FALSE].windows = f.windows
      /\ [f EXCEPT !.ok = FALSE].gone = f.gone
  BY <1>3 DEF Desk
<1> HIDE DEF g
<1> QED
  BY <1>2, <1>3, <1>4, <1>5, TabsTyped DEF Keeps

LEMMA RestoredTyped ==
  ASSUME NEW s \in Desk, NEW w \in Win
  PROVE  Keeps(s, Restored(s, w))
<1> DEFINE m == s.minimized \ {w}
           f == [s EXCEPT !.minimized = m]
           b == TabsRefreshed(f)
           g == FadesIn(b, w)
<1>0. m \in SUBSET Win
  BY DeskParts
<1>1. Restored(s, w) = IF w \notin s.minimized THEN Raised(s, w)
                       ELSE IF w \in s.gone THEN [s EXCEPT !.minimized = m, !.ok = FALSE]
                       ELSE Raised(g, w)
  BY DEF Restored
<1> HIDE DEF m
<1>2. f \in Desk /\ f.windows = s.windows /\ f.gone = s.gone
  BY <1>0 DEF Desk
<1>3. [s EXCEPT !.minimized = m, !.ok = FALSE] \in Desk
      /\ [s EXCEPT !.minimized = m, !.ok = FALSE].windows = s.windows
      /\ [s EXCEPT !.minimized = m, !.ok = FALSE].gone = s.gone
  BY <1>0 DEF Desk
<1> HIDE DEF f
<1>4. Keeps(f, b)
  BY <1>2, TabsTyped
<1> HIDE DEF b
<1>5. b \in Desk /\ b.windows = s.windows /\ b.gone = s.gone
  BY <1>2, <1>4 DEF Keeps
<1> DEFINE an == [b.anim EXCEPT ![w] = "restore"]
           sh == b.shown \cup {w}
<1>6. g = [b EXCEPT !.shown = sh, !.anim = an]
  BY <1>5 DEF FadesIn, Desk
<1>60. an \in [Win -> {"idle", "minimize", "restore"}] /\ sh \in SUBSET Win
  BY <1>5, DeskParts
<1> HIDE DEF an, sh
<1>7. g \in Desk /\ g.windows = b.windows /\ g.gone = b.gone
  <2> HIDE DEF g
  <2> QED
    BY <1>5, <1>6, <1>60 DEF Desk
<1> HIDE DEF g
<1>8. Keeps(g, Raised(g, w)) /\ Keeps(s, Raised(s, w))
  BY <1>7, RaisedTyped
<1> QED
  BY <1>1, <1>3, <1>5, <1>7, <1>8 DEF Keeps

LEMMA FocusedTyped ==
  ASSUME NEW s \in Desk, NEW w \in Win
  PROVE  Keeps(s, Focused(s, w))
<1> DEFINE o == OnTop(s.order, w)
           f == [s EXCEPT !.order = o]
<1>1. o \in Seq(Win)
  BY OnTopTyped, DeskParts
<1>2. Focused(s, w) = IF w \notin Known(s) THEN s ELSE Restored(f, w)
  BY DEF Focused
<1> HIDE DEF o
<1>3. f \in Desk /\ f.windows = s.windows /\ f.gone = s.gone
  BY <1>1 DEF Desk
<1> HIDE DEF f
<1>4. Keeps(f, Restored(f, w))
  BY <1>3, RestoredTyped
<1> QED
  BY <1>2, <1>3, <1>4 DEF Keeps

\* Who is next when the active window goes: the one it finds is open.
LEMMA CycledTo ==
  ASSUME NEW s \in Desk
  PROVE  \/ /\ Cycled(s) = [s EXCEPT !.active = NoWindow]
            /\ ToSet(s.order) \cap (Known(s) \ s.minimized) = {}
         \/ \E w \in Known(s) \ s.minimized : w \in ToSet(s.order) /\ Cycled(s) = Focused(s, w)
<1> DEFINE open == Kept(s.order, Known(s) \ s.minimized)
<1>1. open \in Seq(Win) /\ ToSet(open) = ToSet(s.order) \cap (Known(s) \ s.minimized)
  BY DeskParts, KeptMembers
<1>2. Cycled(s) = IF open = << >> THEN [s EXCEPT !.active = NoWindow] ELSE Focused(s, Last(open))
  BY DEF Cycled
<1> HIDE DEF open
<1>3. open # << >> => Last(open) \in ToSet(open)
  BY <1>1 DEF Last, ToSet
<1>4. open = << >> => ToSet(open) = {}
  BY DEF ToSet
<1> QED
  BY <1>1, <1>2, <1>3, <1>4

LEMMA CycledTyped ==
  ASSUME NEW s \in Desk
  PROVE  Keeps(s, Cycled(s))
<1>1. [s EXCEPT !.active = NoWindow] \in Desk
      /\ [s EXCEPT !.active = NoWindow].windows = s.windows
      /\ [s EXCEPT !.active = NoWindow].gone = s.gone
  BY DEF Desk
<1>2. Known(s) \in SUBSET Win
  BY DeskParts
<1>3. CASE Cycled(s) = [s EXCEPT !.active = NoWindow]
  BY <1>1, <1>3 DEF Keeps
<1>4. ASSUME NEW w \in Known(s), Cycled(s) = Focused(s, w) PROVE Keeps(s, Cycled(s))
  <2>1. w \in Win
    BY <1>2
  <2> QED
    BY <1>4, <2>1, FocusedTyped
<1> QED
  BY <1>3, <1>4, CycledTo

LEMMA MinimizedTyped ==
  ASSUME NEW s \in Desk, NEW w \in Win
  PROVE  Keeps(s, Minimized(s, w))
<1> DEFINE m == s.minimized \cup {w}
           f == [s EXCEPT !.minimized = m]
           g == [f EXCEPT !.active = NoWindow]
           n == IF s.active = w THEN Cycled(g) ELSE f
           t == TabsRefreshed(n)
           o == [t EXCEPT !.anim[w] = "minimize"]
<1>1. m \in SUBSET Win
  BY DeskParts
<1>2. Minimized(s, w) = IF w \notin Known(s) \ s.minimized THEN s
                        ELSE IF ~ n.ok \/ w \in s.gone THEN n ELSE o
  BY DEF Minimized, FadesOut
<1> HIDE DEF m
<1>3. f \in Desk /\ f.windows = s.windows /\ f.gone = s.gone
  BY <1>1 DEF Desk
<1> HIDE DEF f
<1>4. g \in Desk /\ g.windows = s.windows /\ g.gone = s.gone
  BY <1>3 DEF Desk
<1> HIDE DEF g
<1>5. Keeps(g, Cycled(g))
  BY <1>4, CycledTyped
<1>6. n \in Desk /\ n.windows = s.windows /\ n.gone = s.gone
  BY <1>3, <1>4, <1>5 DEF Keeps
<1> HIDE DEF n
<1>7. Keeps(n, t)
  BY <1>6, TabsTyped
<1>8. t \in Desk /\ t.windows = s.windows /\ t.gone = s.gone
  BY <1>6, <1>7 DEF Keeps
<1> HIDE DEF t
<1>9. o \in Desk /\ o.windows = s.windows /\ o.gone = s.gone
  BY <1>8 DEF Desk
<1> HIDE DEF o
<1> QED
  BY <1>2, <1>6, <1>9 DEF Keeps

LEMMA RegisteredTyped ==
  ASSUME NEW s \in Desk, NEW w \in Win
  PROVE  /\ Registered(s, w) \in Desk /\ Registered(s, w).gone = s.gone
         /\ Registered(s, w).windows = Append(s.windows, w)
<1> DEFINE o == Append(s.windows, w)
           k == Append(s.ranks, w)
           f == [s EXCEPT !.windows = o, !.ranks = k]
           t == TabsRefreshed(f)
<1>1. o \in Seq(Win) /\ k \in Seq(Win)
  BY DeskParts, AppendProperties
<1>2. Registered(s, w) = Focused(t, w)
  BY DEF Registered
<1> HIDE DEF o, k
<1>3. f \in Desk /\ f.windows = o /\ f.gone = s.gone
  BY <1>1 DEF Desk
<1> HIDE DEF f
<1>4. Keeps(f, t)
  BY <1>3, TabsTyped
<1>5. t \in Desk /\ t.windows = o /\ t.gone = s.gone
  BY <1>3, <1>4 DEF Keeps
<1> HIDE DEF t
<1>6. Keeps(t, Focused(t, w))
  BY <1>5, FocusedTyped
<1> QED
  BY <1>2, <1>5, <1>6 DEF Keeps, o

\* What closing windows comes to, ghosts among them or not.
Closes(s, r, ws) ==
  LET real == ws \ s.gone IN
  /\ r \in Desk /\ r.gone = s.gone \cup ws /\ Known(r) = Known(s) \ ws
  /\ r.windows = Less(s.windows, ws) /\ r.ranks = Less(s.ranks, ws) /\ r.order = Less(s.order, real)
  /\ r.active = IF s.active \in real THEN NoWindow ELSE s.active
  /\ r.shown = s.shown \ real /\ r.minimized = s.minimized \ real /\ r.lit = s.lit \ real
  /\ r.anim = [v \in Win |-> IF v \in real THEN "idle" ELSE s.anim[v]] /\ r.tabs = s.tabs

LEMMA ClosedIs ==
  ASSUME NEW s \in Desk, NEW ws \in SUBSET Win
  PROVE  Closes(s, Closed(s, ws), ws)
<1> DEFINE real == ws \ s.gone
           q1 == Less(s.windows, ws)
           q2 == Less(s.ranks, ws)
           q3 == Less(s.order, real)
           an == [v \in Win |-> IF v \in real THEN "idle" ELSE s.anim[v]]
           ac == IF s.active \in real THEN NoWindow ELSE s.active
           f == FinalClose(s, real)
           c == [f EXCEPT !.windows = q1, !.ranks = q2, !.order = q3, !.active = ac, !.ok = (real = ws)]
<1>1. q1 \in Seq(Win) /\ q2 \in Seq(Win) /\ q3 \in Seq(Win) /\ ToSet(q1) = Known(s) \ ws
  BY DeskParts, LessMembers DEF Known
<1>2. an \in [Win -> {"idle", "minimize", "restore"}]
  BY DeskParts
<1>3. f = [s EXCEPT !.gone = s.gone \cup real, !.shown = s.shown \ real, !.minimized = s.minimized \ real,
                    !.lit = s.lit \ real, !.anim = an]
  BY DEF FinalClose, Desk
<1>4. real \in SUBSET Win /\ s.gone \cup real = s.gone \cup ws
  OBVIOUS
<1>5. ac \in Win \cup {NoWindow}
  BY DeskParts
<1> HIDE DEF an
<1>6. /\ f \in Desk /\ f.windows = s.windows /\ f.ranks = s.ranks /\ f.order = s.order
      /\ f.active = s.active /\ f.tabs = s.tabs /\ f.gone = s.gone \cup ws
      /\ f.shown = s.shown \ real /\ f.minimized = s.minimized \ real /\ f.lit = s.lit \ real
      /\ f.anim = an
  <2> HIDE DEF f, real
  <2> QED
    BY <1>2, <1>3, <1>4 DEF Desk
<1>7. Closed(s, ws) = c
  <2>1. Closed(s, ws) =
          [f EXCEPT !.windows = Less(f.windows, ws), !.ranks = Less(f.ranks, ws),
                    !.order = Less(f.order, real),
                    !.active = IF f.active \in real THEN NoWindow ELSE f.active,
                    !.ok = (real = ws)]
    <3>1. DOMAIN f = DOMAIN s /\ DOMAIN s = {"windows", "order", "ranks", "active", "minimized", "lit",
            "shown", "gone", "anim", "tabs", "ok"}
      BY <1>6 DEF Desk
    <3> HIDE DEF f
    <3> QED
      BY <3>1 DEF Closed, f
  <2> HIDE DEF f
  <2> QED
    BY <1>6, <2>1
<1> HIDE DEF f, real, q1, q2, q3, ac
<1>8. /\ c \in Desk /\ c.windows = q1 /\ c.ranks = q2 /\ c.order = q3 /\ c.active = ac
      /\ c.tabs = s.tabs /\ c.gone = s.gone \cup ws
      /\ c.shown = s.shown \ real /\ c.minimized = s.minimized \ real /\ c.lit = s.lit \ real
      /\ c.anim = an
  BY <1>1, <1>5, <1>6 DEF Desk
<1> HIDE DEF c
<1> QED
  BY <1>1, <1>7, <1>8 DEF Closes, Known, q1, q2, q3, ac, an, real

-----------------------------------------------------------------------------
\* What focusing comes to when no ghost is listed.

\* What focusing a window comes to while no ghost is listed.
Focuses(s, r, w) ==
  /\ Keeps(s, r)
  /\ r.order = OnTop(s.order, w) /\ r.ranks = OnTop(s.ranks, w)
  /\ r.active = w /\ r.lit = {w} /\ r.minimized = s.minimized \ {w}
  /\ r.shown = IF w \in s.minimized THEN s.shown \cup {w} ELSE s.shown
  /\ r.anim = IF w \in s.minimized THEN [s.anim EXCEPT ![w] = "restore"] ELSE s.anim
  /\ r.tabs = Known(s) \cap (r.shown \cup r.minimized)
SameOk(s, r) == r.ok = s.ok

LEMMA RaisedIs ==
  ASSUME NEW s \in Desk, NEW w \in Win, Ghosts(s) = {}, w \notin s.minimized
  PROVE  Focuses(s, Raised(s, w), w) /\ SameOk(s, Raised(s, w))
<1> DEFINE o == OnTop(s.order, w)
           k == OnTop(s.ranks, w)
           f == [s EXCEPT !.order = o, !.ranks = k]
           g == [f EXCEPT !.active = w, !.lit = {w}]
           x == Known(s) \cap (s.shown \cup s.minimized)
           h == [g EXCEPT !.tabs = x]
<1>1. o \in Seq(Win) /\ k \in Seq(Win) /\ x \in SUBSET Win
  BY OnTopTyped, DeskParts
<1>2. Raised(s, w) = TabsRefreshed(g)
  BY DEF Raised, LightsOnly
<1>3. s.minimized = s.minimized \ {w}
  OBVIOUS
<1> HIDE DEF o, k
<1>4. /\ f \in Desk /\ f.windows = s.windows /\ f.gone = s.gone /\ f.order = o /\ f.ranks = k
      /\ f.shown = s.shown /\ f.minimized = s.minimized /\ f.anim = s.anim
  BY <1>1 DEF Desk
<1>40. f.ok = s.ok
  BY DEF Desk
<1> HIDE DEF f
<1>5. /\ g \in Desk /\ g.windows = s.windows /\ g.gone = s.gone /\ g.order = o /\ g.ranks = k
      /\ g.shown = s.shown /\ g.minimized = s.minimized /\ g.anim = s.anim
      /\ g.active = w /\ g.lit = {w}
  BY <1>4 DEF Desk
<1>50. g.ok = f.ok
  BY <1>4 DEF Desk
<1> HIDE DEF g
<1>6. TabsRefreshed(g) = h
  BY <1>5 DEF TabsRefreshed, Icons, Ghosts, Known
<1> HIDE DEF x
<1>7. /\ h \in Desk /\ h.windows = s.windows /\ h.gone = s.gone /\ h.order = o /\ h.ranks = k
      /\ h.shown = s.shown /\ h.minimized = s.minimized /\ h.anim = s.anim
      /\ h.active = w /\ h.lit = {w} /\ h.tabs = x
  BY <1>1, <1>5 DEF Desk
<1>70. h.ok = g.ok
  BY <1>5 DEF Desk
<1> HIDE DEF h
<1>8. Focuses(s, h, w)
  BY <1>3, <1>7 DEF Focuses, Keeps, o, k, x
<1>9. SameOk(s, h)
  BY <1>40, <1>50, <1>70, Zenon DEF SameOk
<1> QED
  BY <1>2, <1>6, <1>8, <1>9

LEMMA RestoredIs ==
  ASSUME NEW s \in Desk, NEW w \in Known(s), Ghosts(s) = {}
  PROVE  Focuses(s, Restored(s, w), w) /\ SameOk(s, Restored(s, w))
<1>0. w \in Win /\ w \notin s.gone
  BY DeskParts DEF Ghosts
<1>1. CASE w \notin s.minimized
  BY <1>0, <1>1, RaisedIs DEF Restored
<1>2. CASE w \in s.minimized
  <2> DEFINE m == s.minimized \ {w}
             f == [s EXCEPT !.minimized = m]
             b == TabsRefreshed(f)
             an == [b.anim EXCEPT ![w] = "restore"]
             sh == b.shown \cup {w}
             g == [b EXCEPT !.shown = sh, !.anim = an]
  <2>1. m \in SUBSET Win
    BY DeskParts
  <2>2. Restored(s, w) = Raised(FadesIn(b, w), w)
    BY <1>0, <1>2 DEF Restored
  <2> HIDE DEF m
  <2>3. /\ f \in Desk /\ f.windows = s.windows /\ f.gone = s.gone /\ f.order = s.order
        /\ f.ranks = s.ranks /\ f.shown = s.shown /\ f.minimized = m /\ f.anim = s.anim
    BY <2>1 DEF Desk
  <2>30. f.ok = s.ok
    BY DEF Desk
  <2> HIDE DEF f
  <2> DEFINE x == Known(f) \cap (f.shown \cup f.minimized)
  <2>4. b = [f EXCEPT !.tabs = x]
    BY <2>3 DEF TabsRefreshed, Icons, Ghosts, Known
  <2>5. x \in SUBSET Win
    BY <2>3, DeskParts
  <2> HIDE DEF x, b
  <2>6. /\ b \in Desk /\ b.windows = s.windows /\ b.gone = s.gone /\ b.order = s.order
        /\ b.ranks = s.ranks /\ b.shown = s.shown /\ b.minimized = m /\ b.anim = s.anim
    BY <2>3, <2>4, <2>5 DEF Desk
  <2>60. b.ok = f.ok
    BY <2>3, <2>4 DEF Desk
  <2>7. FadesIn(b, w) = g
    BY <2>6 DEF FadesIn, Desk
  <2>8. an \in [Win -> {"idle", "minimize", "restore"}] /\ sh \in SUBSET Win
    BY <1>0, <2>6, DeskParts
  <2>9. an = [s.anim EXCEPT ![w] = "restore"] /\ sh = s.shown \cup {w}
    BY <2>6
  <2> HIDE DEF an, sh
  <2>10. /\ g \in Desk /\ g.windows = s.windows /\ g.gone = s.gone /\ g.order = s.order
         /\ g.ranks = s.ranks /\ g.shown = sh /\ g.minimized = m /\ g.anim = an
    BY <2>6, <2>8 DEF Desk
  <2>100. g.ok = b.ok
    BY <2>6 DEF Desk
  <2> HIDE DEF g
  <2>11. Ghosts(g) = {} /\ Known(g) = Known(s) /\ w \notin g.minimized
    BY <2>10 DEF Ghosts, Known, m
  <2>12. Focuses(g, Raised(g, w), w) /\ SameOk(g, Raised(g, w))
    BY <1>0, <2>10, <2>11, RaisedIs
  <2>13. Focuses(s, Raised(g, w), w)
    <3>1. g.minimized = s.minimized \ {w} /\ g.minimized = g.minimized \ {w}
      BY <2>10, <2>11 DEF m
    <3> HIDE DEF m
    <3> QED
      BY <1>2, <2>9, <2>10, <2>11, <2>12, <3>1 DEF Focuses, Keeps
  <2>14. SameOk(s, Raised(g, w))
    BY <2>12, <2>30, <2>60, <2>100, Zenon DEF SameOk
  <2> QED
    BY <2>2, <2>7, <2>13, <2>14
<1> QED
  BY <1>1, <1>2

LEMMA FocusedIs ==
  ASSUME NEW s \in Desk, NEW w \in Known(s), Ghosts(s) = {}
  PROVE  /\ Keeps(s, Focused(s, w))
         /\ Focused(s, w).order = OnTop(s.order, w)
         /\ Focuses(s, Focused(s, w), w) /\ SameOk(s, Focused(s, w))
<1> DEFINE o == OnTop(s.order, w)
           f == [s EXCEPT !.order = o]
<1>0. w \in Win
  BY DeskParts
<1>1. o \in Seq(Win) /\ OnTop(o, w) = o
  BY <1>0, OnTopMembers, DeskParts
<1>2. Focused(s, w) = Restored(f, w)
  BY DEF Focused
<1> HIDE DEF o
<1>3. /\ f \in Desk /\ f.windows = s.windows /\ f.gone = s.gone /\ f.order = o
      /\ f.ranks = s.ranks /\ f.shown = s.shown /\ f.minimized = s.minimized /\ f.anim = s.anim
  BY <1>1 DEF Desk
<1>4. f.ok = s.ok
  BY DEF Desk
<1> HIDE DEF f
<1>5. Ghosts(f) = {} /\ Known(f) = Known(s)
  BY <1>3 DEF Ghosts, Known
<1>6. Focuses(f, Restored(f, w), w) /\ SameOk(f, Restored(f, w))
  BY <1>3, <1>5, RestoredIs
<1>7. Focuses(s, Restored(f, w), w)
  BY <1>1, <1>3, <1>5, <1>6 DEF Focuses, Keeps, o
<1>8. SameOk(s, Restored(f, w))
  BY <1>4, <1>6, Zenon DEF SameOk
<1> QED
  BY <1>2, <1>7, <1>8 DEF Focuses

-----------------------------------------------------------------------------
\* A desk without ghosts stays in step.

\* The parts of WindowsAgree, of any desk, with what makes them inductive: an animation says
\* where the window it moves is, and no unknown window moves.
Ordered(s) == ToSet(s.order) = Known(s) /\ IsInjective(s.order) /\ s.ranks = s.order
FrontOK(s) ==
  /\ s.active # NoWindow => s.order # << >> /\ s.active = Last(s.order)
  /\ s.lit \ s.minimized = {s.active} \ {NoWindow}
Rests(s, w) ==
  /\ s.anim[w] = "minimize" => w \in s.minimized
  /\ s.anim[w] = "restore" => w \in s.shown /\ w \notin s.minimized
  /\ s.anim[w] = "idle" => ((w \in s.shown) <=> (w \notin s.minimized))
Still(s) == \A v \in Win \ Known(s) : s.anim[v] = "idle"
Listed(s) == s.tabs = Known(s)
Sane(s) ==
  /\ s \in Desk /\ Ghosts(s) = {} /\ Ordered(s) /\ FrontOK(s)
  /\ (\A w \in Known(s) : Rests(s, w)) /\ Still(s)

LEMMA SameWindows ==
  ASSUME NEW s, NEW r, Keeps(s, r)
  PROVE  Known(r) = Known(s) /\ Ghosts(r) = Ghosts(s)
BY DEF Keeps, Known, Ghosts

LEMMA NoWindowIsNone == NoWindow \notin Win
BY WindowsAssumption DEF Win

LEMMA RestsIsThere ==
  ASSUME NEW s \in Desk, NEW w \in Known(s), Rests(s, w)
  PROVE  w \in s.shown \cup s.minimized
<1>1. s.anim[w] \in {"idle", "minimize", "restore"}
  BY DeskParts
<1> QED
  BY <1>1 DEF Rests

LEMMA FocusOrdered ==
  ASSUME NEW s \in Desk, NEW r, NEW w \in Known(s), Focuses(s, r, w),
         ToSet(s.order) \cup {w} = Known(s), IsInjective(s.order),
         OnTop(s.ranks, w) = OnTop(s.order, w)
  PROVE  r \in Desk /\ Known(r) = Known(s) /\ Ordered(r) /\ FrontOK(r)
<1>0. w \in Win /\ s.order \in Seq(Win)
  BY DeskParts
<1>1. r \in Desk /\ Known(r) = Known(s)
  BY SameWindows DEF Focuses, Keeps
<1>2. /\ ToSet(OnTop(s.order, w)) = ToSet(s.order) \cup {w}
      /\ IsInjective(OnTop(s.order, w)) /\ OnTop(s.order, w) # << >>
      /\ Last(OnTop(s.order, w)) = w
  BY <1>0, OnTopMembers
<1>3. Ordered(r)
  BY <1>1, <1>2 DEF Ordered, Focuses
<1>4. FrontOK(r)
  <2>1. r.lit \ r.minimized = {w}
    BY DEF Focuses
  <2>2. w # NoWindow
    BY <1>0, NoWindowIsNone
  <2> QED
    BY <1>2, <2>1, <2>2 DEF FrontOK, Focuses
<1> QED
  BY <1>1, <1>3, <1>4

LEMMA FocusRests ==
  ASSUME NEW s \in Desk, NEW r, NEW w \in Known(s), Focuses(s, r, w)
  PROVE  \A v \in Known(s) : Rests(s, v) => Rests(r, v)
<1> SUFFICES ASSUME NEW v \in Known(s), Rests(s, v) PROVE Rests(r, v)
  OBVIOUS
<1>0. v \in Win /\ w \in Win /\ s.anim \in [Win -> {"idle", "minimize", "restore"}]
  BY DeskParts
<1>1. CASE v # w
  <2>1. r.anim[v] = s.anim[v] /\ (v \in r.shown <=> v \in s.shown)
        /\ (v \in r.minimized <=> v \in s.minimized)
    BY <1>0, <1>1 DEF Focuses
  <2> QED
    BY <2>1 DEF Rests
<1>2. CASE v = w /\ w \notin s.minimized
  BY <1>2 DEF Rests, Focuses
<1>3. CASE v = w /\ w \in s.minimized
  BY <1>0, <1>3 DEF Rests, Focuses
<1> QED
  BY <1>1, <1>2, <1>3

LEMMA FocusStill ==
  ASSUME NEW s \in Desk, NEW r, NEW w \in Known(s), Focuses(s, r, w), Still(s)
  PROVE  Still(r)
<1> SUFFICES ASSUME NEW v \in Win \ Known(r) PROVE r.anim[v] = "idle"
  BY DEF Still
<1>1. v \notin Known(s) /\ v # w
  BY SameWindows DEF Focuses
<1>2. s.anim \in [Win -> {"idle", "minimize", "restore"}]
  BY DeskParts
<1>3. r.anim[v] = s.anim[v]
  BY <1>1, <1>2 DEF Focuses
<1> QED
  BY <1>1, <1>3 DEF Still

\* After a focus, whatever was minimized, the taskbar lists the windows too.
LEMMA FocusSane ==
  ASSUME NEW s, Sane(s), NEW r, NEW w \in Known(s), Focuses(s, r, w)
  PROVE  Sane(r) /\ Listed(r)
<1>0. s \in Desk
  BY DEF Sane
<1>1. ToSet(s.order) \cup {w} = Known(s) /\ IsInjective(s.order) /\ OnTop(s.ranks, w) = OnTop(s.order, w)
  BY DEF Sane, Ordered
<1>2. r \in Desk /\ Known(r) = Known(s) /\ Ordered(r) /\ FrontOK(r)
  BY <1>0, <1>1, FocusOrdered
<1>3. \A v \in Known(s) : Rests(r, v)
  BY <1>0, FocusRests DEF Sane
<1>4. Ghosts(r) = {}
  BY SameWindows DEF Sane, Focuses
<1>5. \A v \in Known(r) : v \in r.shown \cup r.minimized
  BY <1>2, <1>3, RestsIsThere
<1>6. Listed(r)
  BY <1>2, <1>5 DEF Listed, Focuses
<1>7. Still(r)
  BY <1>0, FocusStill DEF Sane
<1> QED
  BY <1>2, <1>3, <1>4, <1>6, <1>7 DEF Sane

LEMMA TabsIs ==
  ASSUME NEW s \in Desk, Ghosts(s) = {}
  PROVE  LET r == TabsRefreshed(s) IN
         /\ Keeps(s, r) /\ r.order = s.order /\ r.ranks = s.ranks /\ r.active = s.active
         /\ r.lit = s.lit /\ r.minimized = s.minimized /\ r.shown = s.shown /\ r.anim = s.anim
         /\ r.tabs = Known(s) \cap (s.shown \cup s.minimized)
<1> DEFINE x == Known(s) \cap (s.shown \cup s.minimized)
           r == TabsRefreshed(s)
<1>1. r = [s EXCEPT !.tabs = x]
  BY DEF TabsRefreshed, Icons
<1>2. Keeps(s, r)
  BY TabsTyped
<1> HIDE DEF x, r
<1>3. /\ r.order = s.order /\ r.ranks = s.ranks /\ r.active = s.active
      /\ r.lit = s.lit /\ r.minimized = s.minimized /\ r.shown = s.shown /\ r.anim = s.anim
      /\ r.tabs = x
  BY <1>1 DEF Desk
<1> QED
  BY <1>2, <1>3 DEF r, x

LEMMA TabsSane ==
  ASSUME NEW s, Sane(s)
  PROVE  Sane(TabsRefreshed(s)) /\ Listed(TabsRefreshed(s))
<1> DEFINE r == TabsRefreshed(s)
<1>0. s \in Desk /\ Ghosts(s) = {}
  BY DEF Sane
<1>1. /\ Keeps(s, r) /\ r.order = s.order /\ r.ranks = s.ranks /\ r.active = s.active
      /\ r.lit = s.lit /\ r.minimized = s.minimized /\ r.shown = s.shown /\ r.anim = s.anim
      /\ r.tabs = Known(s) \cap (s.shown \cup s.minimized)
  BY <1>0, TabsIs
<1> HIDE DEF r
<1>2. Known(r) = Known(s) /\ Ghosts(r) = {} /\ r \in Desk
  BY <1>0, <1>1, SameWindows DEF Keeps
<1>3. \A v \in Known(s) : v \in s.shown \cup s.minimized
  BY <1>0, RestsIsThere DEF Sane
<1>4. Listed(r)
  BY <1>1, <1>2, <1>3 DEF Listed
<1>5. Sane(r)
  <2>1. Ordered(r) /\ FrontOK(r)
    BY <1>1, <1>2 DEF Sane, Ordered, FrontOK
  <2>2. Still(r)
    BY <1>1, <1>2 DEF Sane, Still
  <2>3. \A v \in Known(s) : Rests(r, v)
    BY <1>1 DEF Sane, Rests
  <2> QED
    BY <1>2, <2>1, <2>2, <2>3 DEF Sane
<1> QED
  BY <1>4, <1>5 DEF r

\* The window left on top is the active one unless that one was closed.
LEMMA CloseSane ==
  ASSUME NEW s, Sane(s), NEW ws \in SUBSET Known(s)
  PROVE  Sane(Closed(s, ws))
<1> DEFINE r == Closed(s, ws)
<1>0. s \in Desk /\ ws \in SUBSET Win /\ ws \cap s.gone = {} /\ ws \ s.gone = ws
  BY DeskParts DEF Sane, Ghosts
<1>1. /\ r \in Desk /\ r.gone = s.gone \cup ws /\ Known(r) = Known(s) \ ws
      /\ r.ranks = Less(s.ranks, ws) /\ r.order = Less(s.order, ws)
      /\ r.active = IF s.active \in ws THEN NoWindow ELSE s.active
      /\ r.shown = s.shown \ ws /\ r.minimized = s.minimized \ ws /\ r.lit = s.lit \ ws
      /\ r.anim = [v \in Win |-> IF v \in ws THEN "idle" ELSE s.anim[v]]
  <2> DEFINE real == ws \ s.gone
  <2>1. /\ r \in Desk /\ r.gone = s.gone \cup ws /\ Known(r) = Known(s) \ ws
        /\ r.ranks = Less(s.ranks, ws) /\ r.order = Less(s.order, real)
        /\ r.active = IF s.active \in real THEN NoWindow ELSE s.active
        /\ r.shown = s.shown \ real /\ r.minimized = s.minimized \ real /\ r.lit = s.lit \ real
        /\ r.anim = [v \in Win |-> IF v \in real THEN "idle" ELSE s.anim[v]]
    BY <1>0, ClosedIs DEF Closes
  <2>2. real = ws
    BY <1>0
  <2> HIDE DEF real
  <2> HIDE DEF r
  <2>3. r.order = Less(s.order, ws)
    BY <2>1, <2>2
  <2>4. r.anim = [v \in Win |-> IF v \in ws THEN "idle" ELSE s.anim[v]]
    BY <2>1, <2>2
  <2> QED
    BY <2>1, <2>2, <2>3, <2>4
<1> HIDE DEF r
<1>2. /\ ToSet(Less(s.order, ws)) = ToSet(s.order) \ ws
      /\ IsInjective(s.order) => IsInjective(Less(s.order, ws))
      /\ s.order # << >> /\ Last(s.order) \notin ws =>
           Less(s.order, ws) # << >> /\ Last(Less(s.order, ws)) = Last(s.order)
  BY <1>0, LessMembers, DeskParts
<1>3. Ordered(r)
  BY <1>1, <1>2 DEF Sane, Ordered
<1>4. FrontOK(r)
  <2>1. r.active # NoWindow => r.order # << >> /\ r.active = Last(r.order)
    BY <1>1, <1>2 DEF Sane, FrontOK
  <2>2. r.lit \ r.minimized = (s.lit \ s.minimized) \ ws
    BY <1>1
  <2>3. (s.lit \ s.minimized) \ ws = {r.active} \ {NoWindow}
    <3>1. NoWindow \notin ws
      BY <1>0, NoWindowIsNone
    <3> QED
      BY <1>1, <3>1 DEF Sane, FrontOK
  <2> QED
    BY <2>1, <2>2, <2>3 DEF FrontOK
<1>5. ASSUME NEW v \in Known(r) PROVE Rests(r, v)
  <2>1. v \in Known(s) /\ v \notin ws /\ v \in Win
    BY <1>0, <1>1, DeskParts
  <2>2. r.anim[v] = s.anim[v]
    BY <1>1, <2>1
  <2>3. Rests(s, v)
    BY <2>1 DEF Sane
  <2> QED
    BY <1>1, <2>1, <2>2, <2>3 DEF Rests
<1>6. Ghosts(r) = {}
  BY <1>1 DEF Ghosts, Sane
<1>7. Still(r)
  BY <1>1 DEF Still, Sane
<1> QED
  BY <1>1, <1>3, <1>4, <1>5, <1>6, <1>7 DEF Sane, r

\* Minimizing the active window hands the front to the next open one, or to none.
LEMMA MinimizeSane ==
  ASSUME NEW s, Sane(s), s.ok = TRUE, NEW w \in Known(s) \ s.minimized
  PROVE  Sane(Minimized(s, w)) /\ Listed(Minimized(s, w)) /\ SameOk(s, Minimized(s, w))
<1> DEFINE m == s.minimized \cup {w}
           f == [s EXCEPT !.minimized = m]
           g == [f EXCEPT !.active = NoWindow]
           n == IF s.active = w THEN Cycled(g) ELSE f
           t == TabsRefreshed(n)
           an == [t.anim EXCEPT ![w] = "minimize"]
           o == [t EXCEPT !.anim = an]
<1>0. s \in Desk /\ Ghosts(s) = {} /\ w \in Win /\ w \notin s.gone /\ m \in SUBSET Win
  BY DeskParts DEF Sane, Ghosts
<1>1. Minimized(s, w) = IF ~ n.ok THEN n ELSE FadesOut(t, w)
  BY <1>0 DEF Minimized
<1>2. /\ w \in m /\ \A v : v # w => (v \in m <=> v \in s.minimized)
  OBVIOUS
<1> HIDE DEF m
<1>3. /\ f \in Desk /\ f.windows = s.windows /\ f.gone = s.gone /\ f.order = s.order
      /\ f.ranks = s.ranks /\ f.shown = s.shown /\ f.minimized = m /\ f.anim = s.anim
      /\ f.active = s.active /\ f.lit = s.lit
  BY <1>0 DEF Desk
<1>30. f.ok = s.ok
  BY <1>0 DEF Desk
<1> HIDE DEF f
<1>4. /\ g \in Desk /\ g.windows = s.windows /\ g.gone = s.gone /\ g.order = s.order
      /\ g.ranks = s.ranks /\ g.shown = s.shown /\ g.minimized = m /\ g.anim = s.anim
      /\ g.active = NoWindow /\ g.lit = s.lit
  BY <1>3 DEF Desk
<1>40. g.ok = f.ok
  BY <1>3 DEF Desk
<1> HIDE DEF g
<1>5. Ghosts(f) = {} /\ Ghosts(g) = {} /\ Known(f) = Known(s) /\ Known(g) = Known(s)
  BY <1>0, <1>3, <1>4 DEF Ghosts, Known
<1>6. \A v \in Known(s) \ {w} : Rests(f, v) /\ Rests(g, v)
  BY <1>2, <1>3, <1>4 DEF Sane, Rests
<1>60. Still(f) /\ Still(g)
  BY <1>3, <1>4, <1>5 DEF Still, Sane
\* What the choice of the next window leaves.
<1>7. /\ n \in Desk /\ Known(n) = Known(s) /\ n.gone = s.gone /\ Ghosts(n) = {}
      /\ Ordered(n) /\ FrontOK(n) /\ w \in n.minimized
      /\ (\A v \in Known(s) \ {w} : Rests(n, v)) /\ Still(n)
  <2>1. CASE s.active # w
    <3>1. n = f
      BY <2>1
    <3>2. FrontOK(f)
      BY <1>2, <1>3, <2>1 DEF Sane, FrontOK
    <3>3. Ordered(f)
      BY <1>3, <1>5 DEF Sane, Ordered
    <3> QED
      BY <1>2, <1>3, <1>5, <1>6, <1>60, <3>1, <3>2, <3>3
  <2>2. CASE s.active = w /\ \E v \in Known(g) \ g.minimized : v \in ToSet(g.order) /\ Cycled(g) = Focused(g, v)
    <3>1. PICK v \in Known(g) \ g.minimized : Cycled(g) = Focused(g, v)
      BY <2>2
    <3>2. n = Focused(g, v) /\ v # w /\ v \in Known(g)
      BY <1>2, <1>4, <2>2, <3>1
    <3>3. Focuses(g, n, v)
      BY <1>4, <1>5, <3>2, FocusedIs
    <3> HIDE DEF n
    <3>4. ToSet(g.order) \cup {v} = Known(g) /\ IsInjective(g.order) /\ OnTop(g.ranks, v) = OnTop(g.order, v)
      BY <1>4, <1>5, <3>2 DEF Sane, Ordered
    <3>5. n \in Desk /\ Known(n) = Known(g) /\ Ordered(n) /\ FrontOK(n)
      BY <1>4, <3>2, <3>3, <3>4, FocusOrdered
    <3>6. n.gone = g.gone /\ Ghosts(n) = {}
      BY <1>5, <3>3, SameWindows DEF Focuses, Keeps
    <3>7. w \in n.minimized
      BY <1>2, <1>4, <3>2, <3>3 DEF Focuses
    <3>8. \A u \in Known(g) : Rests(g, u) => Rests(n, u)
      BY <1>4, <3>2, <3>3, FocusRests
    <3>9. Still(n)
      BY <1>4, <1>60, <3>2, <3>3, FocusStill
    <3> QED
      BY <3>9, <1>4, <1>5, <1>6, <3>5, <3>6, <3>7, <3>8
  <2>3. CASE s.active = w /\ Cycled(g) = [g EXCEPT !.active = NoWindow]
    <3>1. n = [g EXCEPT !.active = NoWindow]
      BY <2>3
    <3>2. n = g
      BY <1>4, <3>1 DEF Desk
    <3>3. FrontOK(g)
      <4>1. s.lit \ s.minimized = {w}
        BY <1>0, <2>3, NoWindowIsNone DEF Sane, FrontOK
      <4>2. g.lit \ g.minimized = {}
        BY <1>2, <1>4, <4>1
      <4> QED
        BY <1>4, <4>2 DEF FrontOK
    <3>4. Ordered(g)
      BY <1>4, <1>5 DEF Sane, Ordered
    <3> HIDE DEF n
    <3> QED
      BY <1>2, <1>4, <1>5, <1>6, <1>60, <3>2, <3>3, <3>4
  <2> QED
    BY <1>4, <2>1, <2>2, <2>3, CycledTo
<1>70. n.ok = s.ok
  <2>1. CASE s.active # w
    BY <1>30, <2>1
  <2>2. CASE s.active = w /\ \E v \in Known(g) \ g.minimized : v \in ToSet(g.order) /\ Cycled(g) = Focused(g, v)
    <3>1. PICK v \in Known(g) \ g.minimized : Cycled(g) = Focused(g, v)
      BY <2>2
    <3>2. SameOk(g, Focused(g, v))
      BY <1>4, <1>5, FocusedIs
    <3> QED
      BY <1>30, <1>40, <2>2, <3>1, <3>2 DEF SameOk
  <2>3. CASE s.active = w /\ Cycled(g) = [g EXCEPT !.active = NoWindow]
    <3>1. [g EXCEPT !.active = NoWindow].ok = g.ok
      BY <1>4 DEF Desk
    <3> QED
      BY <1>30, <1>40, <2>3, <3>1
  <2> QED
    BY <1>4, <2>1, <2>2, <2>3, CycledTo
<1> HIDE DEF n
<1>8. /\ Keeps(n, t) /\ t.order = n.order /\ t.ranks = n.ranks /\ t.active = n.active
      /\ t.lit = n.lit /\ t.minimized = n.minimized /\ t.shown = n.shown /\ t.anim = n.anim
      /\ t.tabs = Known(n) \cap (n.shown \cup n.minimized)
  BY <1>7, TabsIs
<1>80. t.ok = n.ok
  BY <1>7, TabsTyped
<1> HIDE DEF t
<1>9. t \in Desk /\ Known(t) = Known(s) /\ Ghosts(t) = {}
  BY <1>7, <1>8, SameWindows DEF Keeps
<1>10. FadesOut(t, w) = o
  BY <1>9 DEF FadesOut, Desk
<1>11. an \in [Win -> {"idle", "minimize", "restore"}] /\ an[w] = "minimize"
       /\ \A v \in Win : v # w => an[v] = n.anim[v]
  BY <1>0, <1>8, <1>9, DeskParts
<1> HIDE DEF an
<1>12. /\ o \in Desk /\ o.windows = t.windows /\ o.gone = t.gone /\ o.order = t.order
       /\ o.ranks = t.ranks /\ o.shown = t.shown /\ o.minimized = t.minimized /\ o.anim = an
       /\ o.active = t.active /\ o.lit = t.lit /\ o.tabs = t.tabs
  BY <1>9, <1>11 DEF Desk
<1>120. o.ok = t.ok
  BY <1>9 DEF Desk
<1> HIDE DEF o
<1>13. Known(o) = Known(s) /\ Ghosts(o) = {}
  BY <1>9, <1>12 DEF Known, Ghosts
<1>14. ASSUME NEW v \in Known(s) PROVE Rests(o, v)
  <2>1. v \in Win
    BY <1>0, DeskParts
  <2>2. CASE v = w
    BY <1>7, <1>8, <1>11, <1>12, <2>2 DEF Rests
  <2>3. CASE v # w
    <3>1. Rests(n, v) /\ o.anim[v] = n.anim[v]
      BY <1>7, <1>11, <1>12, <2>1, <2>3
    <3> QED
      BY <1>8, <1>12, <3>1 DEF Rests
  <2> QED
    BY <2>2, <2>3
<1>15. Ordered(o) /\ FrontOK(o)
  BY <1>7, <1>8, <1>9, <1>12, <1>13 DEF Ordered, FrontOK
<1>16. Listed(o)
  <2>1. \A v \in Known(s) \ {w} : v \in n.shown \cup n.minimized
    BY <1>7, RestsIsThere
  <2> QED
    BY <1>7, <1>8, <1>12, <1>13, <2>1 DEF Listed
<1>170. Still(o)
  <2>1. \A v \in Win \ Known(s) : v # w /\ o.anim[v] = n.anim[v]
    BY <1>11, <1>12
  <2> QED
    BY <1>7, <1>13, <2>1 DEF Still
<1>17. Sane(o)
  BY <1>12, <1>13, <1>14, <1>15, <1>170 DEF Sane
<1>18. Minimized(s, w) = o
  BY <1>1, <1>10, <1>70
<1>19. SameOk(s, o)
  BY <1>70, <1>80, <1>120, Zenon DEF SameOk
<1> QED
  BY <1>16, <1>17, <1>18, <1>19

-----------------------------------------------------------------------------
\* The steps that leave the table of windows alone.

\* Safe holds whatever was terminated; Tidy until then.
Typed ==
  /\ wm \in Desk /\ title \in [Win -> Title \cup {NoTitle}]
  /\ run \in [Win -> {"none", "new", "started", "stopped"}]
  /\ start_due \subseteq Win /\ refresh_due \in BOOLEAN /\ terminated \subseteq Win
Unborn == \A v \in Win : run[v] = "none" => v \notin Known(wm) \cup wm.gone \cup start_due
Apart == \A v, w \in Known(wm) : title[v] = title[w] => v = w
Begun == wm.ok = TRUE
Lists(s, due) == due \/ Listed(s)
Tidy == terminated = {} => Sane(wm) /\ Lists(wm, refresh_due) /\ Apart
Safe == Typed /\ Unborn /\ ClosedAppsStop
DeskInv == Safe /\ Begun /\ Tidy

\* An exception is over when the handler is: nothing else of the desk changes.
LEMMA BecomesIs ==
  ASSUME NEW s \in Desk
  PROVE  LET r == [s EXCEPT !.ok = TRUE] IN
         /\ Keeps(s, r) /\ Known(r) = Known(s) /\ (Sane(s) => Sane(r)) /\ (Listed(s) => Listed(r))
<1> DEFINE r == [s EXCEPT !.ok = TRUE]
<1>1. /\ r \in Desk /\ r.windows = s.windows /\ r.gone = s.gone /\ r.order = s.order
      /\ r.ranks = s.ranks /\ r.shown = s.shown /\ r.minimized = s.minimized /\ r.anim = s.anim
      /\ r.active = s.active /\ r.lit = s.lit /\ r.tabs = s.tabs
  BY DEF Desk
<1> HIDE DEF r
<1>2. Keeps(s, r) /\ Known(r) = Known(s) /\ Ghosts(r) = Ghosts(s)
  BY <1>1 DEF Keeps, Known, Ghosts
<1>3. Ordered(s) /\ FrontOK(s) => Ordered(r) /\ FrontOK(r)
  BY <1>1, <1>2 DEF Ordered, FrontOK
<1>4. Still(s) => Still(r)
  BY <1>1, <1>2 DEF Still
<1>5. (\A v \in Known(s) : Rests(s, v)) => \A v \in Known(s) : Rests(r, v)
  BY <1>1 DEF Rests
<1>6. Listed(s) => Listed(r)
  BY <1>1, <1>2 DEF Listed
<1>7. Sane(s) => Sane(r)
  BY <1>1, <1>2, <1>3, <1>4, <1>5 DEF Sane
<1> QED
  BY <1>2, <1>6, <1>7 DEF r

LEMMA BecomesBegins ==
  ASSUME NEW s \in Desk
  PROVE  [s EXCEPT !.ok = TRUE].ok = TRUE
BY DEF Desk

\* A step that leaves the table of windows and the dead alone.
LEMMA StepSafe ==
  ASSUME Safe, NEW x, Keeps(wm, x), wm' = [x EXCEPT !.ok = TRUE], refresh_due' \in BOOLEAN,
         UNCHANGED <<title, run, start_due, terminated>>
  PROVE  Safe' /\ wm'.gone = wm.gone /\ Known(wm)' = Known(wm)
<1>1. x \in Desk /\ Known(x) = Known(wm) /\ x.gone = wm.gone
  BY SameWindows DEF Keeps
<1>2. wm' \in Desk /\ wm'.gone = wm.gone /\ Known(wm') = Known(wm)
  BY <1>1, BecomesIs DEF Keeps
<1>3. Known(wm)' = Known(wm)
  BY <1>2
<1>4. Typed'
  BY <1>2 DEF Safe, Typed
<1>5. Unborn'
  BY <1>2, <1>3 DEF Safe, Unborn
<1>6. ClosedAppsStop'
  BY <1>2 DEF Safe, ClosedAppsStop
<1> QED
  BY <1>2, <1>3, <1>4, <1>5, <1>6 DEF Safe

LEMMA StepTidy ==
  ASSUME Safe, Tidy, NEW x, Keeps(wm, x), wm' = [x EXCEPT !.ok = TRUE], refresh_due' \in BOOLEAN,
         UNCHANGED <<title, run, start_due, terminated>>,
         terminated = {} => Sane(x) /\ Lists(x, refresh_due')
  PROVE  DeskInv'
<1>1. Safe' /\ Known(wm)' = Known(wm)
  BY StepSafe
<1>2. x \in Desk
  BY DEF Keeps
<1>3. Begun'
  <2>1. wm'.ok = TRUE
    BY <1>2, BecomesBegins
  <2> QED
    BY <2>1 DEF Begun
<1>4. Tidy'
  <2> SUFFICES ASSUME terminated' = {} PROVE Sane(wm)' /\ Lists(wm, refresh_due)' /\ Apart'
    BY DEF Tidy
  <2>1. Sane(x) /\ Lists(x, refresh_due')
    OBVIOUS
  <2>2. Sane(wm') /\ (Listed(x) => Listed(wm'))
    BY <1>2, <2>1, BecomesIs
  <2>3. Lists(wm', refresh_due')
    BY <2>1, <2>2 DEF Lists
  <2>4. Apart'
    BY <1>1 DEF Tidy, Apart
  <2> QED
    BY <2>2, <2>3, <2>4
<1> QED
  BY <1>1, <1>3, <1>4 DEF DeskInv

LEMMA FocusedSane ==
  ASSUME NEW s, Sane(s), NEW w \in Win, NEW due, Lists(s, due)
  PROVE  Sane(Focused(s, w)) /\ Lists(Focused(s, w), due)
<1>0. s \in Desk /\ Ghosts(s) = {}
  BY DEF Sane
<1>1. CASE w \in Known(s)
  <2>1. Focuses(s, Focused(s, w), w)
    BY <1>0, <1>1, FocusedIs
  <2> QED
    BY <1>1, <2>1, FocusSane DEF Lists
<1>2. CASE w \notin Known(s)
  BY <1>2 DEF Focused
<1> QED
  BY <1>1, <1>2

LEMMA MinimizedSane ==
  ASSUME NEW s, Sane(s), s.ok = TRUE, NEW w, NEW due, Lists(s, due)
  PROVE  Sane(Minimized(s, w)) /\ Lists(Minimized(s, w), due)
<1>1. CASE w \in Known(s) \ s.minimized
  BY <1>1, MinimizeSane DEF Lists
<1>2. CASE w \notin Known(s) \ s.minimized
  BY <1>2 DEF Minimized
<1> QED
  BY <1>1, <1>2

LEMMA FocusStep ==
  ASSUME DeskInv, NEW w \in Win, Becomes(Focused(wm, w)),
         UNCHANGED <<title, run, start_due, refresh_due, terminated>>
  PROVE  DeskInv'
<1> DEFINE x == Focused(wm, w)
<1>1. Safe /\ Tidy /\ wm \in Desk /\ refresh_due' \in BOOLEAN
  BY DEF DeskInv, Safe, Typed
<1>2. Keeps(wm, x) /\ wm' = [x EXCEPT !.ok = TRUE]
  BY <1>1, FocusedTyped DEF Becomes
<1>3. terminated = {} => Sane(x) /\ Lists(x, refresh_due')
  BY <1>1, FocusedSane DEF Tidy
<1> HIDE DEF x
<1> QED
  BY <1>1, <1>2, <1>3, StepTidy

LEMMA MinimizeStep ==
  ASSUME DeskInv, NEW w \in Win, Becomes(Minimized(wm, w)),
         UNCHANGED <<title, run, start_due, refresh_due, terminated>>
  PROVE  DeskInv'
<1> DEFINE x == Minimized(wm, w)
<1>1. Safe /\ Tidy /\ wm \in Desk /\ refresh_due' \in BOOLEAN /\ wm.ok = TRUE
  BY DEF DeskInv, Safe, Typed, Begun
<1>2. Keeps(wm, x) /\ wm' = [x EXCEPT !.ok = TRUE]
  BY <1>1, MinimizedTyped DEF Becomes
<1>3. terminated = {} => Sane(x) /\ Lists(x, refresh_due')
  BY <1>1, MinimizedSane DEF Tidy
<1> HIDE DEF x
<1> QED
  BY <1>1, <1>2, <1>3, StepTidy

LEMMA RestoreStep ==
  ASSUME DeskInv, NEW w \in Known(wm), Becomes(Restored(wm, w)),
         UNCHANGED <<title, run, start_due, refresh_due, terminated>>
  PROVE  DeskInv'
<1> DEFINE x == Restored(wm, w)
<1>1. Safe /\ Tidy /\ wm \in Desk /\ refresh_due' \in BOOLEAN /\ w \in Win
  BY DeskParts DEF DeskInv, Safe, Typed
<1>2. Keeps(wm, x) /\ wm' = [x EXCEPT !.ok = TRUE]
  BY <1>1, RestoredTyped DEF Becomes
<1>3. ASSUME terminated = {} PROVE Sane(x) /\ Lists(x, refresh_due')
  <2>1. Sane(wm) /\ Ghosts(wm) = {}
    BY <1>1, <1>3 DEF Tidy, Sane
  <2>2. Focuses(wm, x, w)
    BY <1>1, <2>1, RestoredIs
  <2> QED
    BY <2>1, <2>2, FocusSane DEF Lists
<1> HIDE DEF x
<1> QED
  BY <1>1, <1>2, <1>3, StepTidy

LEMMA ClickStep ==
  ASSUME DeskInv, NEW w \in Win, TaskbarClick(w)
  PROVE  DeskInv'
<1>0. /\ UNCHANGED <<title, run, start_due, refresh_due, terminated>>
      /\ \/ Becomes(Minimized(wm, w)) \/ Becomes(Focused(wm, w))
         \/ w \in Known(wm) /\ Becomes(Restored(wm, w))
  BY DEF TaskbarClick, Request
<1> QED
  BY <1>0, MinimizeStep, FocusStep, RestoreStep

LEMMA RefreshStep ==
  ASSUME DeskInv, RefreshTimer
  PROVE  DeskInv'
<1> DEFINE x == TabsRefreshed(wm)
<1>1. Safe /\ Tidy /\ wm \in Desk /\ refresh_due' \in BOOLEAN
  BY DEF DeskInv, Safe, Typed, RefreshTimer
<1>2. Keeps(wm, x) /\ wm' = [x EXCEPT !.ok = TRUE]
  BY <1>1, TabsTyped DEF Becomes, RefreshTimer
<1>3. terminated = {} => Sane(x) /\ Lists(x, refresh_due')
  BY <1>1, TabsSane DEF Tidy, Lists
<1>4. UNCHANGED <<title, run, start_due, terminated>>
  BY DEF RefreshTimer
<1> HIDE DEF x
<1> QED
  BY <1>1, <1>2, <1>3, <1>4, StepTidy

-----------------------------------------------------------------------------
\* Animations, timers, deletions and closes.

LEMMA AnimationStep ==
  ASSUME DeskInv, NEW w \in Win, AnimationEnds(w)
  PROVE  DeskInv'
<1> DEFINE a == [wm.anim EXCEPT ![w] = "idle"]
           h == IF wm.anim[w] = "minimize" THEN wm.shown \ {w} ELSE wm.shown
<1>1. /\ Safe /\ Tidy /\ wm \in Desk /\ wm.ok = TRUE /\ h \in SUBSET Win
      /\ a \in [Win -> {"idle", "minimize", "restore"}] /\ a[w] = "idle"
      /\ \A v \in Win \ {w} : a[v] = wm.anim[v]
  BY DeskParts DEF DeskInv, Safe, Typed, Begun
<1>2. wm' = [wm EXCEPT !.anim = a, !.shown = h]
  BY <1>1 DEF AnimationEnds, Desk
<1>3. UNCHANGED <<title, run, start_due, refresh_due, terminated>>
  BY DEF AnimationEnds
<1>4. \A v \in Win \ {w} : v \in h <=> v \in wm.shown
  OBVIOUS
<1>5. wm.anim[w] = "minimize" => w \notin h
  OBVIOUS
<1>6. wm.anim[w] # "minimize" => h = wm.shown
  OBVIOUS
<1> HIDE DEF a, h
<1>7. /\ wm' \in Desk /\ wm'.windows = wm.windows /\ wm'.gone = wm.gone /\ wm'.order = wm.order
      /\ wm'.ranks = wm.ranks /\ wm'.shown = h /\ wm'.minimized = wm.minimized /\ wm'.anim = a
      /\ wm'.active = wm.active /\ wm'.lit = wm.lit /\ wm'.tabs = wm.tabs
  BY <1>1, <1>2 DEF Desk
<1>8. wm'.ok = wm.ok
  BY <1>1, <1>2 DEF Desk
<1>9. Known(wm') = Known(wm) /\ Ghosts(wm') = Ghosts(wm)
  BY <1>7 DEF Known, Ghosts
<1>10. Known(wm)' = Known(wm)
  BY <1>9
<1>11. Safe'
  BY <1>1, <1>3, <1>7, <1>10 DEF Safe, Typed, Unborn, ClosedAppsStop
<1>12. Begun'
  BY <1>1, <1>8 DEF Begun
<1>13. Tidy'
  <2> SUFFICES ASSUME terminated' = {} PROVE Sane(wm)' /\ Lists(wm, refresh_due)' /\ Apart'
    BY DEF Tidy
  <2>1. Sane(wm) /\ Lists(wm, refresh_due) /\ Apart
    BY <1>1, <1>3 DEF Tidy
  <2>2. Ordered(wm') /\ FrontOK(wm')
    BY <1>7, <1>9, <2>1 DEF Sane, Ordered, FrontOK
  <2>3. Still(wm')
    BY <1>1, <1>7, <1>9, <2>1 DEF Sane, Still
  <2>4. ASSUME NEW v \in Known(wm) PROVE Rests(wm', v)
    <3>1. v \in Win /\ Rests(wm, v) /\ wm.anim[v] \in {"idle", "minimize", "restore"}
      BY <1>1, <2>1, DeskParts DEF Sane
    <3>2. CASE v = w
      BY <1>1, <1>5, <1>6, <1>7, <3>1, <3>2 DEF Rests
    <3>3. CASE v # w
      <4>1. wm'.anim[v] = wm.anim[v] /\ (v \in wm'.shown <=> v \in wm.shown)
        BY <1>1, <1>4, <1>7, <3>1, <3>3
      <4> QED
        BY <1>7, <3>1, <4>1 DEF Rests
    <3> QED
      BY <3>2, <3>3
  <2>5. Sane(wm')
    BY <1>7, <1>9, <2>1, <2>2, <2>3, <2>4 DEF Sane
  <2>6. Lists(wm', refresh_due')
    BY <1>3, <1>7, <1>9, <2>1 DEF Lists, Listed
  <2>7. Apart'
    BY <1>3, <1>10, <2>1 DEF Apart
  <2> QED
    BY <2>5, <2>6, <2>7
<1> QED
  BY <1>11, <1>12, <1>13 DEF DeskInv

LEMMA StartStep ==
  ASSUME DeskInv, NEW w \in Win, StartTimer(w)
  PROVE  DeskInv'
<1>1. /\ Safe /\ Tidy /\ Begun
      /\ UNCHANGED <<wm, title, refresh_due, terminated>> /\ start_due' = start_due \ {w}
      /\ run \in [Win -> {"none", "new", "started", "stopped"}] /\ w \in start_due
      /\ run' = [run EXCEPT ![w] = IF w \in wm.gone \/ run[w] # "new" THEN run[w] ELSE "started"]
  BY DEF StartTimer, DeskInv, Safe, Typed
<1>2. run' \in [Win -> {"none", "new", "started", "stopped"}]
  BY <1>1
<1>3. \A v \in Win : /\ (run'[v] = "none" => run[v] = "none")
                     /\ v \in wm.gone => run'[v] = run[v]
  BY <1>1
<1>4. Known(wm)' = Known(wm)
  BY <1>1
<1>5. wm.gone \subseteq Win
  BY <1>1, DeskParts DEF Safe, Typed
<1>6. Safe'
  BY <1>1, <1>2, <1>3, <1>4, <1>5 DEF Safe, Typed, Unborn, ClosedAppsStop
<1>7. Begun' /\ Tidy'
  BY <1>1, <1>4 DEF Begun, Tidy, Sane, Lists, Listed, Apart
<1> QED
  BY <1>6, <1>7 DEF DeskInv

LEMMA TerminateStep ==
  ASSUME DeskInv, NEW w \in Win, Terminate(w)
  PROVE  DeskInv'
<1> DEFINE a == [wm.anim EXCEPT ![w] = "idle"]
           x == [wm EXCEPT !.gone = wm.gone \cup {w}, !.shown = wm.shown \ {w}, !.anim = a]
<1>1. /\ Safe /\ wm \in Desk /\ w \in Known(wm)
      /\ UNCHANGED <<title, run, start_due, refresh_due>> /\ terminated' = terminated \cup {w}
      /\ a \in [Win -> {"idle", "minimize", "restore"}]
      /\ wm.gone \in SUBSET Win /\ wm.shown \in SUBSET Win
  BY DeskParts DEF Terminate, DeskInv, Safe, Typed
<1>2. wm' = [x EXCEPT !.ok = TRUE]
  BY <1>1 DEF Terminate, Becomes, Desk
<1> HIDE DEF a
<1>3. x \in Desk /\ x.windows = wm.windows /\ x.gone = wm.gone \cup {w}
  BY <1>1 DEF Desk
<1> HIDE DEF x
<1>4. wm' \in Desk /\ wm'.gone = wm.gone \cup {w} /\ Known(wm') = Known(wm)
  BY <1>2, <1>3, BecomesIs DEF Keeps, Known
<1>5. Known(wm)' = Known(wm)
  BY <1>4
<1>6. Typed'
  BY <1>1, <1>4 DEF Safe, Typed
<1>7. Unborn'
  BY <1>1, <1>4, <1>5 DEF Safe, Unborn
<1>8. ClosedAppsStop'
  BY <1>1, <1>4 DEF Safe, ClosedAppsStop
<1>9. Begun'
  <2>1. wm'.ok = TRUE
    BY <1>2, <1>3, BecomesBegins
  <2> QED
    BY <2>1 DEF Begun
<1>10. Tidy'
  BY <1>1 DEF Tidy
<1> QED
  BY <1>6, <1>7, <1>8, <1>9, <1>10 DEF DeskInv, Safe

\* The windows that go at once: their widgets are deleted and their applications stopped.
LEMMA CloseSafe ==
  ASSUME Safe, NEW ws \in SUBSET Known(wm), NEW x \in Desk, Known(x) = Known(wm) \ ws,
         x.gone = wm.gone \cup ws, wm' = [x EXCEPT !.ok = TRUE], Stops(ws \ wm.gone),
         refresh_due' \in BOOLEAN, UNCHANGED <<title, start_due, terminated>>
  PROVE  Safe' /\ Known(wm)' = Known(wm) \ ws
<1>1. wm' \in Desk /\ wm'.gone = wm.gone \cup ws /\ Known(wm') = Known(wm) \ ws
  BY BecomesIs DEF Keeps
<1>2. Known(wm)' = Known(wm) \ ws
  BY <1>1
<1>3. /\ run \in [Win -> {"none", "new", "started", "stopped"}]
      /\ run' = [v \in Win |-> IF v \in ws \ wm.gone /\ run[v] = "started" THEN "stopped" ELSE run[v]]
  BY DEF Stops, Safe, Typed
<1>4. run' \in [Win -> {"none", "new", "started", "stopped"}]
  BY <1>3
<1>5. \A v \in Win : /\ (run'[v] = "none" <=> run[v] = "none")
                     /\ v \in ws \ wm.gone => run'[v] # "started"
                     /\ run[v] # "started" => run'[v] # "started"
  BY <1>3
<1>6. wm.gone \in SUBSET Win /\ ws \in SUBSET Win
  BY DeskParts DEF Safe, Typed
<1>7. Typed'
  BY <1>1, <1>4 DEF Safe, Typed
<1>8. Unborn'
  BY <1>1, <1>2, <1>5 DEF Safe, Unborn
<1>9. ClosedAppsStop'
  BY <1>1, <1>5, <1>6 DEF Safe, ClosedAppsStop
<1> QED
  BY <1>2, <1>7, <1>8, <1>9 DEF Safe

LEMMA CloseTidy ==
  ASSUME Safe, Tidy, NEW ws \in SUBSET Known(wm), NEW x \in Desk, Known(x) = Known(wm) \ ws,
         x.gone = wm.gone \cup ws, wm' = [x EXCEPT !.ok = TRUE], Stops(ws \ wm.gone),
         refresh_due' \in BOOLEAN, UNCHANGED <<title, start_due, terminated>>,
         terminated = {} => Sane(x) /\ Lists(x, refresh_due')
  PROVE  DeskInv'
<1>1. Safe' /\ Known(wm)' = Known(wm) \ ws
  BY CloseSafe
<1>3. Begun'
  <2>1. wm'.ok = TRUE
    BY BecomesBegins
  <2> QED
    BY <2>1 DEF Begun
<1>4. Tidy'
  <2> SUFFICES ASSUME terminated' = {} PROVE Sane(wm)' /\ Lists(wm, refresh_due)' /\ Apart'
    BY DEF Tidy
  <2>1. Sane(x) /\ Lists(x, refresh_due')
    OBVIOUS
  <2>2. Sane(wm') /\ (Listed(x) => Listed(wm'))
    BY <2>1, BecomesIs
  <2>3. Lists(wm', refresh_due')
    BY <2>1, <2>2 DEF Lists
  <2>4. Apart'
    BY <1>1 DEF Tidy, Apart
  <2> QED
    BY <2>2, <2>3, <2>4
<1> QED
  BY <1>1, <1>3, <1>4 DEF DeskInv

LEMMA CloseStep ==
  ASSUME DeskInv, NEW w \in Win, Close(w)
  PROVE  DeskInv'
<1> DEFINE ws == {w}
           x == Closed(wm, ws)
<1>1. /\ Safe /\ Tidy /\ wm \in Desk /\ refresh_due' \in BOOLEAN
      /\ ws \in SUBSET Known(wm) /\ ws \in SUBSET Win /\ Stops(ws \ wm.gone)
      /\ UNCHANGED <<title, start_due, terminated>>
  BY DEF DeskInv, Safe, Typed, Close
<1>2. wm' = [x EXCEPT !.ok = TRUE]
  BY DEF Close, Becomes, Request
<1>3. ASSUME terminated = {} PROVE Sane(wm) /\ refresh_due' = TRUE
  BY <1>1, <1>3 DEF Tidy, Close, Sane, Ghosts
<1> HIDE DEF ws
<1>4. x \in Desk /\ Known(x) = Known(wm) \ ws /\ x.gone = wm.gone \cup ws
  BY <1>1, ClosedIs DEF Closes
<1>5. ASSUME terminated = {} PROVE Sane(x) /\ Lists(x, refresh_due')
  BY <1>1, <1>3, <1>5, CloseSane DEF Lists
<1> HIDE DEF x
<1> QED
  BY <1>1, <1>2, <1>4, <1>5, CloseTidy

LEMMA CloseAllStep ==
  ASSUME DeskInv, CloseAll
  PROVE  DeskInv'
<1> DEFINE ws == UntilGhost(wm)
           all == Closed(wm, ws)
           x == IF all.ok THEN [all EXCEPT !.order = << >>, !.active = NoWindow] ELSE all
<1>1. /\ Safe /\ Tidy /\ wm \in Desk /\ refresh_due' \in BOOLEAN /\ Stops(ws \ wm.gone)
      /\ UNCHANGED <<title, start_due, terminated>> /\ Known(wm) \in SUBSET Win
      /\ wm.windows # << >>
  BY DeskParts DEF DeskInv, Safe, Typed, CloseAll
<1>2. ws \in SUBSET Known(wm)
  BY DEF UntilGhost
<1>3. wm' = [x EXCEPT !.ok = TRUE]
  BY DEF CloseAll, Becomes
<1>4. ASSUME terminated = {} PROVE Sane(wm) /\ refresh_due' = TRUE /\ ws = Known(wm)
  <2>1. Sane(wm) /\ Ghosts(wm) = {}
    BY <1>1, <1>4 DEF Tidy, Sane
  <2>2. wm.windows \in Seq(Win)
    BY <1>1, DeskParts
  <2>3. ASSUME NEW w \in Known(wm) PROVE w \in ws
    <3>1. PICK i \in DOMAIN wm.windows : wm.windows[i] = w
      BY DEF Known, ToSet
    <3>2. \A j \in DOMAIN wm.windows : wm.windows[j] \notin wm.gone
      BY <2>1 DEF Ghosts, Known, ToSet
    <3>3. \A j \in 1..(i - 1) : j \in DOMAIN wm.windows
      BY <2>2
    <3> QED
      BY <3>1, <3>2, <3>3 DEF UntilGhost
  <2>4. ws = Known(wm)
    BY <1>2, <2>3
  <2>5. wm.windows[1] \in Known(wm)
    BY <1>1, <2>2 DEF Known, ToSet
  <2>6. UntilGhost(wm) \ wm.gone # {}
    BY <2>1, <2>4, <2>5 DEF Ghosts
  <2> QED
    BY <2>1, <2>4, <2>6 DEF CloseAll
<1> HIDE DEF ws
<1>5. all \in Desk /\ Known(all) = Known(wm) \ ws /\ all.gone = wm.gone \cup ws
  <2>1. ws \in SUBSET Win
    BY <1>1, <1>2
  <2> QED
    BY <1>1, <2>1, ClosedIs DEF Closes
<1>6. ASSUME terminated = {} PROVE Sane(all) /\ Known(all) = {}
  BY <1>1, <1>2, <1>4, <1>5, <1>6, CloseSane
<1> HIDE DEF all
<1>7. x \in Desk /\ Known(x) = Known(wm) \ ws /\ x.gone = wm.gone \cup ws
  <2> DEFINE y == [all EXCEPT !.order = << >>, !.active = NoWindow]
  <2>0. << >> \in Seq(Win)
    BY EmptySeq
  <2>1. y \in Desk /\ y.windows = all.windows /\ y.gone = all.gone
    BY <1>5, <2>0 DEF Desk
  <2> HIDE DEF y
  <2>2. x = y \/ x = all
    BY DEF y
  <2> HIDE DEF x
  <2> QED
    BY <1>5, <2>1, <2>2 DEF Known
<1>8. ASSUME terminated = {} PROVE Sane(x) /\ Lists(x, refresh_due')
  <2>1. all.order = << >> /\ all.active = NoWindow
    <3>1. ToSet(all.order) = {} /\ all.order \in Seq(Win)
      BY <1>5, <1>6, <1>8, DeskParts DEF Sane, Ordered
    <3>2. all.order = << >>
      <4>1. ASSUME all.order # << >> PROVE FALSE
        <5>1. 1 \in DOMAIN all.order
          BY <3>1, <4>1, EmptySeq, LenProperties
        <5> QED
          BY <3>1, <5>1 DEF ToSet
      <4> QED
        BY <4>1
    <3> QED
      BY <1>6, <1>8, <3>2 DEF Sane, FrontOK
  <2>2. [all EXCEPT !.order = << >>, !.active = NoWindow] = all
    BY <1>5, <2>1 DEF Desk
  <2>3. x = all
    BY <2>2
  <2> HIDE DEF x
  <2> QED
    BY <1>4, <1>6, <1>8, <2>3 DEF Lists
<1> HIDE DEF x
<1> QED
  BY <1>1, <1>2, <1>3, <1>7, <1>8, CloseTidy

-----------------------------------------------------------------------------
\* A new window, and the theorem.

\* A new window is registered: it is listed, on top and in front, and not shown yet.
Registers(s, r, w) ==
  /\ r \in Desk /\ Known(r) = Known(s) \cup {w} /\ r.gone = s.gone /\ Ghosts(r) = {}
  /\ Ordered(r) /\ FrontOK(r) /\ Still(r) /\ (\A v \in Known(s) : Rests(r, v))
  /\ r.anim[w] # "minimize" /\ w \notin r.minimized

LEMMA AppendedMembers ==
  ASSUME NEW S, NEW q \in Seq(S), NEW w \in S
  PROVE  Append(q, w) \in Seq(S) /\ ToSet(Append(q, w)) = ToSet(q) \cup {w}
<1> DEFINE a == Append(q, w)
<1>1. /\ a \in Seq(S) /\ DOMAIN a = 1..(Len(q) + 1) /\ DOMAIN q = 1..Len(q) /\ Len(q) \in Nat
      /\ a[Len(q) + 1] = w /\ \A i \in 1..Len(q) : a[i] = q[i]
  BY AppendProperties, LenProperties
<1> HIDE DEF a
<1>2. ASSUME NEW v \in ToSet(a) PROVE v \in ToSet(q) \cup {w}
  <2>1. PICK i \in DOMAIN a : a[i] = v
    BY DEF ToSet
  <2> QED
    BY <1>1, <2>1 DEF ToSet
<1>3. ASSUME NEW v \in ToSet(q) PROVE v \in ToSet(a)
  <2>1. PICK i \in DOMAIN q : q[i] = v
    BY DEF ToSet
  <2>2. i \in DOMAIN a /\ a[i] = v
    BY <1>1, <2>1
  <2> QED
    BY <2>2 DEF ToSet
<1>4. w \in ToSet(a)
  <2>1. Len(q) + 1 \in DOMAIN a
    BY <1>1
  <2> QED
    BY <1>1, <2>1 DEF ToSet
<1>5. ToSet(a) = ToSet(q) \cup {w}
  BY <1>2, <1>3, <1>4
<1> QED
  BY <1>1, <1>5 DEF a

LEMMA RegisteredIs ==
  ASSUME NEW s, Sane(s), NEW w \in Win \ (Known(s) \cup s.gone)
  PROVE  Registers(s, Registered(s, w), w) /\ SameOk(s, Registered(s, w))
<1> DEFINE ws == Append(s.windows, w)
           k == Append(s.ranks, w)
           f == [s EXCEPT !.windows = ws, !.ranks = k]
           t == TabsRefreshed(f)
           r == Focused(t, w)
<1>0. s \in Desk /\ Ghosts(s) = {} /\ Ordered(s) /\ FrontOK(s) /\ Still(s)
  BY DEF Sane
<1>1. /\ ws \in Seq(Win) /\ ToSet(ws) = Known(s) \cup {w}
      /\ k \in Seq(Win) /\ OnTop(k, w) = k /\ k = OnTop(s.order, w)
  <2>1. s.windows \in Seq(Win) /\ s.ranks \in Seq(Win) /\ s.ranks = s.order /\ w \notin ToSet(s.ranks)
    BY <1>0, DeskParts DEF Ordered
  <2>3. ws \in Seq(Win) /\ ToSet(ws) = Known(s) \cup {w}
    BY <2>1, AppendedMembers DEF Known
  <2>4. Less(s.ranks, {w}) = s.ranks
    BY <2>1, LessAbsent
  <2>5. k \in Seq(Win)
    BY <2>1, AppendProperties
  <2>6. Less(k, {w}) = s.ranks
    BY <2>1, LessAppended
  <2>7. OnTop(k, w) = k /\ k = OnTop(s.order, w)
    BY <2>1, <2>4, <2>6 DEF OnTop
  <2> QED
    BY <2>3, <2>5, <2>7
<1>2. Registered(s, w) = r
  BY <1>0 DEF Registered
<1> HIDE DEF ws, k
<1>3. /\ f \in Desk /\ f.windows = ws /\ f.gone = s.gone /\ f.order = s.order
      /\ f.ranks = k /\ f.shown = s.shown /\ f.minimized = s.minimized /\ f.anim = s.anim
      /\ f.active = s.active /\ f.lit = s.lit
  BY <1>0, <1>1 DEF Desk
<1>30. SameOk(s, f)
  <2>1. f.ok = s.ok
    BY <1>0 DEF Desk
  <2> QED
    BY <2>1, Zenon DEF SameOk
<1> HIDE DEF f
<1>4. Known(f) = Known(s) \cup {w} /\ Ghosts(f) = {}
  BY <1>0, <1>1, <1>3 DEF Known, Ghosts
<1>5. /\ Keeps(f, t) /\ t.order = f.order /\ t.ranks = f.ranks /\ t.active = f.active
      /\ t.lit = f.lit /\ t.minimized = f.minimized /\ t.shown = f.shown /\ t.anim = f.anim
  BY <1>3, <1>4, TabsIs
<1>50. SameOk(f, t)
  <2>1. t.ok = f.ok
    BY <1>3, TabsTyped
  <2> QED
    BY <2>1, Zenon DEF SameOk
<1> HIDE DEF t
<1>6. t \in Desk /\ Known(t) = Known(s) \cup {w} /\ Ghosts(t) = {} /\ t.gone = s.gone
  BY <1>3, <1>4, <1>5, SameWindows DEF Keeps
<1>7. Focuses(t, r, w) /\ SameOk(t, r)
  BY <1>6, FocusedIs
<1> HIDE DEF r
<1>8. OnTop(t.ranks, w) = OnTop(t.order, w) /\ ToSet(t.order) \cup {w} = Known(t) /\ IsInjective(t.order)
  BY <1>0, <1>1, <1>3, <1>5, <1>6 DEF Ordered
<1>9. r \in Desk /\ Known(r) = Known(t) /\ Ordered(r) /\ FrontOK(r)
  BY <1>6, <1>7, <1>8, FocusOrdered
<1>10. \A v \in Known(s) : Rests(t, v)
  BY <1>3, <1>5 DEF Sane, Rests
<1>11. \A v \in Known(s) : Rests(r, v)
  BY <1>6, <1>7, <1>10, FocusRests
<1>12. Still(t)
  BY <1>0, <1>3, <1>5, <1>6 DEF Still
<1>13. Still(r)
  BY <1>6, <1>7, <1>12, FocusStill
<1>14. r.gone = s.gone /\ Ghosts(r) = {}
  BY <1>6, <1>7, SameWindows DEF Focuses, Keeps
<1>15. r.anim[w] # "minimize" /\ w \notin r.minimized
  <2>1. s.anim[w] = "idle" /\ t.anim = s.anim /\ s.anim \in [Win -> {"idle", "minimize", "restore"}]
    BY <1>0, <1>3, <1>5, DeskParts DEF Still
  <2> QED
    BY <1>7, <2>1 DEF Focuses
<1>16. SameOk(s, r)
  BY <1>7, <1>30, <1>50, Zenon DEF SameOk
<1> QED
  BY <1>2, <1>6, <1>9, <1>11, <1>13, <1>14, <1>15, <1>16 DEF Registers

LEMMA ShownSane ==
  ASSUME NEW s, Sane(s), NEW w \in Win, NEW r, Registers(s, r, w)
  PROVE  Sane([r EXCEPT !.shown = r.shown \cup {w}])
<1> DEFINE h == r.shown \cup {w}
           y == [r EXCEPT !.shown = h]
<1>0. r \in Desk /\ h \in SUBSET Win
  BY DeskParts DEF Registers
<1>1. w \in h /\ \A v : v # w => (v \in h <=> v \in r.shown)
  OBVIOUS
<1> HIDE DEF h
<1>2. /\ y \in Desk /\ y.windows = r.windows /\ y.gone = r.gone /\ y.order = r.order
      /\ y.ranks = r.ranks /\ y.shown = h /\ y.minimized = r.minimized /\ y.anim = r.anim
      /\ y.active = r.active /\ y.lit = r.lit
  BY <1>0 DEF Desk
<1> HIDE DEF y
<1>3. Known(y) = Known(r) /\ Ghosts(y) = Ghosts(r)
  BY <1>2 DEF Known, Ghosts
<1>4. Ordered(y) /\ FrontOK(y)
  BY <1>2, <1>3 DEF Registers, Ordered, FrontOK
<1>5. Still(y)
  BY <1>2, <1>3 DEF Registers, Still
<1>6. ASSUME NEW v \in Known(y) PROVE Rests(y, v)
  <2>1. CASE v = w
    BY <1>1, <1>2, <2>1 DEF Rests, Registers
  <2>2. CASE v # w
    <3>1. Rests(r, v)
      BY <1>3, <2>2 DEF Registers
    <3> QED
      BY <1>1, <1>2, <2>2, <3>1 DEF Rests
  <2> QED
    BY <2>1, <2>2
<1>7. Sane(y)
  BY <1>2, <1>3, <1>4, <1>5, <1>6 DEF Sane, Registers
<1> QED
  BY <1>7 DEF y, h

LEMMA LaunchStep ==
  ASSUME DeskInv, NEW w \in Win, NEW t \in Title, Launch(w, t)
  PROVE  DeskInv'
<1> DEFINE first == Registered(wm, w)
           y == [first EXCEPT !.shown = first.shown \cup {w}]
           x == IF first.ok THEN TabsRefreshed(y) ELSE first
<1>1. /\ Safe /\ Tidy /\ wm \in Desk /\ wm.ok = TRUE /\ refresh_due' = refresh_due
      /\ terminated' = terminated /\ run' = [run EXCEPT ![w] = "new"]
      /\ title' = [title EXCEPT ![w] = t] /\ start_due' \subseteq start_due \cup {w}
      /\ Known(wm) \in SUBSET Win /\ title \in [Win -> Title \cup {NoTitle}]
      /\ run \in [Win -> {"none", "new", "started", "stopped"}]
  BY DeskParts DEF DeskInv, Safe, Typed, Begun, Launch
<1>2. w \notin Known(wm) \cup wm.gone
  <2>1. run[w] = "none"
    BY <1>1 DEF Launch, Win
  <2> QED
    BY <1>1, <2>1 DEF Safe, Unborn
<1>3. \A v \in Known(wm) : title[v] # t
  BY DEF Launch, HasWindow
<1>4. first \in Desk /\ first.gone = wm.gone /\ Known(first) = Known(wm) \cup {w}
  <2>1. first \in Desk /\ first.gone = wm.gone /\ first.windows = Append(wm.windows, w)
    BY <1>1, RegisteredTyped
  <2>2. ToSet(Append(wm.windows, w)) = ToSet(wm.windows) \cup {w}
    <3>1. wm.windows \in Seq(Win)
      BY <1>1, DeskParts
    <3> QED
      BY <3>1, AppendedMembers
  <2> QED
    BY <2>1, <2>2 DEF Known
<1>5. Becomes(x)
  <2>1. y = [first EXCEPT !.shown = @ \cup {w}]
    BY <1>4 DEF Desk
  <2> QED
    BY <2>1 DEF Launch
<1>6. ASSUME terminated = {} PROVE Sane(x) /\ Listed(x)
  <2>1. Sane(wm)
    BY <1>1, <1>6 DEF Tidy
  <2>2. Registers(wm, first, w) /\ SameOk(wm, first)
    BY <1>1, <1>2, <2>1, RegisteredIs
  <2> HIDE DEF first
  <2>3. Sane(y)
    BY <2>1, <2>2, ShownSane
  <2> HIDE DEF y
  <2>4. x = TabsRefreshed(y)
    BY <1>1, <2>2 DEF SameOk
  <2> HIDE DEF x
  <2> QED
    BY <2>3, <2>4, TabsSane
<1> HIDE DEF first
<1>7. x \in Desk /\ x.gone = wm.gone /\ Known(x) = Known(wm) \cup {w}
  <2>1. first.shown \cup {w} \in SUBSET Win
    BY <1>4, DeskParts
  <2>2. y \in Desk /\ y.windows = first.windows /\ y.gone = first.gone
    BY <1>4, <2>1 DEF Desk
  <2> HIDE DEF y
  <2>3. Keeps(y, TabsRefreshed(y))
    BY <2>2, TabsTyped
  <2>4. x = TabsRefreshed(y) \/ x = first
    OBVIOUS
  <2> HIDE DEF x
  <2> QED
    BY <1>4, <2>2, <2>3, <2>4 DEF Keeps, Known
<1> HIDE DEF x
<1>8. wm' = [x EXCEPT !.ok = TRUE]
  BY <1>5 DEF Becomes
<1>9. wm' \in Desk /\ wm'.gone = wm.gone /\ Known(wm') = Known(wm) \cup {w}
  BY <1>7, <1>8, BecomesIs DEF Keeps
<1>10. Known(wm)' = Known(wm) \cup {w}
  BY <1>9
<1>11. Typed'
  BY <1>1, <1>9 DEF Safe, Typed
<1>12. Unborn'
  BY <1>1, <1>9, <1>10 DEF Safe, Unborn, Typed
<1>13. ClosedAppsStop'
  <2>1. wm.gone \in SUBSET Win
    BY <1>1, DeskParts
  <2> QED
    BY <1>1, <1>2, <1>9, <2>1 DEF Safe, ClosedAppsStop
<1>14. Begun'
  <2>1. wm'.ok = TRUE
    BY <1>7, <1>8, BecomesBegins
  <2> QED
    BY <2>1 DEF Begun
<1>15. Tidy'
  <2> SUFFICES ASSUME terminated' = {} PROVE Sane(wm)' /\ Lists(wm, refresh_due)' /\ Apart'
    BY DEF Tidy
  <2>1. Sane(x) /\ Listed(x)
    BY <1>1, <1>6
  <2>2. Sane(wm') /\ Listed(wm')
    BY <1>7, <1>8, <2>1, BecomesIs
  <2>3. Lists(wm', refresh_due')
    BY <2>2 DEF Lists
  <2>4. Apart'
    BY <1>1, <1>2, <1>3, <1>10 DEF Tidy, Apart
  <2> QED
    BY <2>2, <2>3, <2>4
<1> QED
  BY <1>11, <1>12, <1>13, <1>14, <1>15 DEF DeskInv, Safe

LEMMA DeskInit == WindowsInit => DeskInv
<1> SUFFICES ASSUME WindowsInit PROVE DeskInv
  OBVIOUS
<1> DEFINE an == [w \in Win |-> "idle"]
<1>0. << >> \in Seq(Win) /\ ToSet(<< >>) = {} /\ IsInjective(<< >>)
  BY EmptySeq DEF ToSet, IsInjective
<1>1. an \in [Win -> {"idle", "minimize", "restore"}] /\ \A w \in Win : an[w] = "idle"
  OBVIOUS
<1>2. wm = [windows |-> << >>, order |-> << >>, ranks |-> << >>, active |-> NoWindow,
            minimized |-> {}, lit |-> {}, shown |-> {}, gone |-> {},
            anim |-> an, tabs |-> {}, ok |-> TRUE]
  BY DEF WindowsInit
<1> HIDE DEF an
<1>3. wm \in Desk
  BY <1>0, <1>1, <1>2 DEF Desk
<1>4. /\ wm.windows = << >> /\ wm.order = << >> /\ wm.ranks = << >> /\ wm.active = NoWindow
      /\ wm.minimized = {} /\ wm.lit = {} /\ wm.gone = {} /\ wm.anim = an /\ wm.tabs = {}
  BY <1>2
<1>5. Begun
  BY <1>2 DEF Begun
<1>6. Known(wm) = {} /\ Ghosts(wm) = {}
  BY <1>0, <1>4 DEF Known, Ghosts
<1>7. Typed
  BY <1>3 DEF WindowsInit, Typed
<1>8. Unborn /\ ClosedAppsStop
  BY <1>4, <1>6 DEF WindowsInit, Unborn, ClosedAppsStop
<1>9. Ordered(wm) /\ FrontOK(wm) /\ Still(wm)
  BY <1>0, <1>1, <1>4, <1>6 DEF Ordered, FrontOK, Still
<1>10. Sane(wm) /\ Listed(wm) /\ Apart
  BY <1>3, <1>4, <1>6, <1>9 DEF Sane, Listed, Apart
<1> QED
  BY <1>5, <1>7, <1>8, <1>10 DEF DeskInv, Safe, Tidy, Lists

LEMMA DeskStep == DeskInv /\ [WindowsNext]_windowVars => DeskInv'
<1> SUFFICES ASSUME DeskInv, [WindowsNext]_windowVars PROVE DeskInv'
  OBVIOUS
<1>1. ASSUME NEW w \in Win, LaunchAgain(w) PROVE DeskInv'
  BY <1>1, FocusStep DEF LaunchAgain
<1>2. ASSUME NEW w \in Win, NEW t \in Title, Launch(w, t) PROVE DeskInv'
  BY <1>2, LaunchStep
<1>3. ASSUME NEW w \in Win, StartTimer(w) PROVE DeskInv'
  BY <1>3, StartStep
<1>4. ASSUME NEW w \in Win, Focus(w) PROVE DeskInv'
  BY <1>4, FocusStep DEF Focus
<1>5. ASSUME NEW w \in Win, MinimizeButton(w) PROVE DeskInv'
  BY <1>5, MinimizeStep DEF MinimizeButton
<1>6. ASSUME NEW w \in Win, TaskbarClick(w) PROVE DeskInv'
  BY <1>6, ClickStep
<1>7. ASSUME NEW w \in Win, Close(w) PROVE DeskInv'
  BY <1>7, CloseStep
<1>8. ASSUME NEW w \in Win, Terminate(w) PROVE DeskInv'
  BY <1>8, TerminateStep
<1>9. ASSUME NEW w \in Win, AnimationEnds(w) PROVE DeskInv'
  BY <1>9, AnimationStep
<1>10. CASE CloseAll
  BY <1>10, CloseAllStep
<1>11. CASE RefreshTimer
  BY <1>11, RefreshStep
<1>12. CASE UNCHANGED windowVars
  <2>1. UNCHANGED <<wm, title, run, start_due, refresh_due, terminated>>
    BY <1>12 DEF windowVars
  <2> QED
    BY <2>1 DEF DeskInv, Safe, Typed, Unborn, ClosedAppsStop, Begun, Tidy, Sane, Lists, Listed, Apart,
                Known, Ghosts, Ordered, FrontOK, Still, Rests
<1> QED
  BY <1>1, <1>2, <1>3, <1>4, <1>5, <1>6, <1>7, <1>8, <1>9, <1>10, <1>11, <1>12 DEF WindowsNext

LEMMA DeskSound == DeskInv => WindowsSound
<1> SUFFICES ASSUME DeskInv PROVE WindowsSound
  OBVIOUS
<1>1. wm \in Desk /\ ClosedAppsStop
  BY DEF DeskInv, Safe, Typed
<1>2. ASSUME terminated = {}
      PROVE  /\ OrderIsFocusOrder /\ ActiveIsOnTop /\ RestShows /\ TabsAreWindows
             /\ \A v, w \in Known(wm) : title[v] = title[w] => v = w
  <2>1. Sane(wm) /\ Lists(wm, refresh_due) /\ Apart
    BY <1>2 DEF DeskInv, Tidy
  <2>2. OrderIsFocusOrder /\ ActiveIsOnTop
    BY <2>1 DEF Sane, Ordered, FrontOK, OrderIsFocusOrder, ActiveIsOnTop
  <2>3. RestShows
    BY <2>1 DEF Sane, Rests, RestShows
  <2>4. TabsAreWindows
    BY <2>1 DEF Lists, Listed, TabsAreWindows
  <2> QED
    BY <2>1, <2>2, <2>3, <2>4 DEF Apart
<1> QED
  BY <1>1, <1>2 DEF WindowsSound, WindowsAgree

\* The manager, the widgets and the taskbar agree until a window is terminated, and no
\* application of a closed window is left running.  window_manager.py, os_window.py, desktop.py.
THEOREM WindowsAlwaysSound == WindowsSpec => []WindowsSound
BY DeskInit, DeskStep, DeskSound, PTL DEF WindowsSpec

-----------------------------------------------------------------------------
(* PART TWO: their geometry                                                *)

\* Where a window may be, for every size of the workspace and of the windows, every tolerance
\* and every movement of the pointer.

USE DEF Rect, R

LEMMA SizesAreInts ==
  PW \in Int /\ PH \in Int /\ MinW \in Int /\ MinH \in Int /\ KeepX \in Int /\ KeepY \in Int
  /\ Jitter \in Int /\ Edge \in Int
BY GeometryAssumption

\* What the gatekeeper returns is a rectangle within the limits, whatever was asked for and
\* wherever the window is, as long as the window is not too small.
LEMMA RequestedWithin ==
  ASSUME NEW old \in Rect, NEW g \in Rect, old.w >= MinW, old.h >= MinH
  PROVE  Requested(old, g) \in Rect /\ Within(Requested(old, g))
<1> DEFINE w == Larger(MinW, Smaller(g.w, PW))
           h == Larger(MinH, Smaller(g.h, PH))
           x == Larger(KeepX - w, Smaller(g.x, PW - KeepX))
           y == Larger(0, Smaller(g.y, PH - KeepY))
<1>1. w \in Int /\ w >= MinW /\ h \in Int /\ h >= MinH
  BY SizesAreInts DEF Larger, Smaller
<1>2. x \in Int /\ x + w >= KeepX /\ x <= PW - KeepX
  <2>1. KeepX - w <= PW - KeepX
    BY <1>1, SizesAreInts, GeometryAssumption
  <2> HIDE DEF w
  <2> QED BY <1>1, <2>1, SizesAreInts DEF Larger, Smaller
<1>3. y \in Int /\ y >= 0 /\ y <= PH - KeepY
  BY SizesAreInts, GeometryAssumption DEF Larger, Smaller
<1>4. \A a, b \in Int : /\ Steady(a, b) \in Int
                        /\ Steady(a, b) - a < Jitter /\ a - Steady(a, b) < Jitter
                        /\ Steady(a, b) \in {a, b}
  BY SizesAreInts, GeometryAssumption DEF Steady
<1>5. Requested(old, g) = R(Steady(x, old.x), Steady(y, old.y), Steady(w, old.w), Steady(h, old.h))
  BY DEF Requested
<1> HIDE DEF w, h, x, y
<1>6. Requested(old, g) \in Rect
  BY <1>1, <1>2, <1>3, <1>4, <1>5
<1>7. Steady(w, old.w) >= MinW /\ Steady(h, old.h) >= MinH
  BY <1>1, <1>4, SizesAreInts
<1>8. /\ Steady(x, old.x) + Steady(w, old.w) > KeepX - 2 * Jitter
      /\ Steady(x, old.x) < PW - KeepX + Jitter
      /\ Steady(y, old.y) > - Jitter /\ Steady(y, old.y) < PH - KeepY + Jitter
  <2>1. Steady(x, old.x) \in Int /\ Steady(w, old.w) \in Int /\ Steady(y, old.y) \in Int
    BY <1>1, <1>2, <1>3, <1>4
  <2>2. /\ x - Steady(x, old.x) < Jitter /\ Steady(x, old.x) - x < Jitter
        /\ w - Steady(w, old.w) < Jitter
        /\ y - Steady(y, old.y) < Jitter /\ Steady(y, old.y) - y < Jitter
    BY <1>1, <1>2, <1>3, <1>4
  <2> QED BY <1>1, <1>2, <1>3, <2>1, <2>2, SizesAreInts
<1> QED BY <1>5, <1>6, <1>7, <1>8 DEF Within

\* calculate_snap_geometry gives a rectangle that is within the limits once Qt has kept the
\* minimum size.
Clamped(g) == [g EXCEPT !.w = Larger(MinW, @), !.h = Larger(MinH, @)]

LEMMA SlotRects ==
  \A s \in Slots : SlotRect(s) \in Rect /\ (s # "normal" => Within(Clamped(SlotRect(s))))
<1>1. PW \div 2 \in Int /\ PH \div 2 \in Int /\ PW \div 2 >= 0
  BY GeometryAssumption
<1>2. \A s \in Slots : SlotRect(s) \in Rect
  BY <1>1, SizesAreInts DEF SlotRect, Slots, Tiles, Empty
<1>3. ASSUME NEW s \in Slots, s # "normal" PROVE Within(Clamped(SlotRect(s)))
  <2>1. PICK x \in {0, PW \div 2}, w \in Int, h \in Int : SlotRect(s) = R(x, 0, w, h)
    BY <1>1, <1>3, SizesAreInts DEF SlotRect, Slots, Tiles
  <2>2. Clamped(SlotRect(s)) = R(x, 0, Larger(MinW, w), Larger(MinH, h))
    <3>1. [SlotRect(s) EXCEPT !.w = Larger(MinW, @)] = R(x, 0, Larger(MinW, w), h)
      BY <2>1
    <3>2. PICK k : k = R(x, 0, Larger(MinW, w), h)
      OBVIOUS
    <3>3. SlotRect(s).h = h
      BY <2>1
    <3>4. Clamped(SlotRect(s)) = [k EXCEPT !.h = Larger(MinH, h)]
      BY <3>1, <3>2, <3>3 DEF Clamped
    <3> QED BY <3>2, <3>4
  <2>3. /\ Larger(MinW, w) \in Int /\ Larger(MinW, w) >= MinW
        /\ Larger(MinH, h) \in Int /\ Larger(MinH, h) >= MinH
    BY SizesAreInts DEF Larger
  <2>4. x \in Int /\ x >= 0 /\ x <= PW - KeepX
    BY <1>1, SizesAreInts, GeometryAssumption
  <2> QED
    BY <2>2, <2>3, <2>4, SizesAreInts, GeometryAssumption DEF Within
<1> QED BY <1>2, <1>3

LEMMA StatesOfSlots ==
  \A s \in Slots \ {"normal"} : StateOf(s) \in Flush
BY DEF StateOf, Slots, Tiles, Flush

Hand == [at: Step, want: Slots, box: Rect, then: {"rest", "drag", "tell"}]

\* What a thread holds on to: a snap its slot and that slot's rectangle, a restoration no slot,
\* and what is about to be set is within the limits, but for the edge being dragged.
HandOK(t, h) ==
  /\ t = "bus" => h.then = "rest" /\ (h.at # "rest" => h.want # "normal")
  /\ h.then = "drag" => h.want = "normal"
  /\ h.then = "tell" \/ h.at = "tell" => h.want # "normal"
  /\ h.at \in {"remember", "save", "slot", "state"} =>
       h.want # "normal" /\ h.box \in {Empty, SlotRect(h.want)} /\ h.then = "rest"
  /\ h.at \in {"rest", "drop", "zone", "grab"} => h.then = "rest"
  /\ h.at \in {"restore", "unslot", "back"} => h.want = "normal"
  /\ h.at \in {"set", "bypass"} /\ h.want # "normal" => h.box = SlotRect(h.want)
BoxOK(t, h, m) ==
  h.at \in {"guard", "put"} =>
    /\ h.box.w >= MinW /\ h.box.h >= MinH
    /\ Within(h.box) \/ (t = "ui" /\ m = "resize")
Hands == \A t \in Thread : HandOK(t, doing[t]) /\ BoxOK(t, doing[t], mouse)

Reach == Within(geom) \/ mouse = "resize" \/ strayed \/ doing["ui"].at \in {"ask", "guard", "put"}

\* Without an overlap one thread at most is changing, and what it has still to write is what
\* the other field says.
Chg(h) == h.at \in Writing \/ h.then = "drag"
Agree(st, sl) ==
  /\ st \in {"normal", "dragging"} => sl = "normal"
  /\ st \in Flush => StateOf(sl) = st
Told(h, st, sl) ==
  /\ h.at = "state" => sl = h.want
  /\ h.at = "unslot" => st = "normal"
  /\ h.at \in {"drop", "drag"} => sl = "normal"
  /\ h.then = "drag" /\ h.at \notin {"restore", "unslot"} => sl = "normal"
Story ==
  ~crossed =>
    /\ ~ (Chg(doing["ui"]) /\ Chg(doing["bus"]))
    /\ ~ Chg(doing["ui"]) /\ ~ Chg(doing["bus"]) => Agree(state, slot)
    /\ Told(doing["ui"], state, slot) /\ Told(doing["bus"], state, slot)

GeometryInv == GeometryTypeOK /\ Hands /\ Reach /\ Story

Other(t) == IF t = "ui" THEN "bus" ELSE "ui"

LEMMA InitGeometry == GeometryInit => GeometryInv
<1> SUFFICES ASSUME GeometryInit PROVE GeometryInv
  OBVIOUS
<1>1. PICK p \in Points :
        geom = Requested(R(0, 0, MinW, MinH), R(p.x, p.y, MinW + 1, MinH + 1))
  BY DEF GeometryInit
<1>2. R(0, 0, MinW, MinH) \in Rect /\ R(p.x, p.y, MinW + 1, MinH + 1) \in Rect
  BY SizesAreInts, GeometryAssumption
<1>3. geom \in Rect /\ Within(geom)
  BY <1>1, <1>2, RequestedWithin, SizesAreInts
<1>4. snapped \in Seq(Slots \ {"normal"})
  BY DEF GeometryInit
<1>5. Rest \in Hand /\ \A t \in Thread : doing[t] = Rest
  BY DEF GeometryInit, Rest, Hand, Step, Slots, Empty
<1>6. GeometryTypeOK
  <2>1. doing \in [Thread -> Hand]
    BY <1>5 DEF GeometryInit
  <2>2. prev \in Rect /\ start \in Rect
    BY DEF GeometryInit, Empty
  <2>3. /\ state \in {"normal", "dragging"} \cup Flush /\ slot \in Slots
        /\ mouse \in {"up", "drag", "resize"}
        /\ begun \in Nat /\ applying \in BOOLEAN /\ crossed \in BOOLEAN /\ strayed \in BOOLEAN
    BY DEF GeometryInit, Slots, Flush
  <2>4. geom.w >= MinW /\ geom.h >= MinH
    BY <1>3 DEF Within
  <2> QED BY <1>3, <1>4, <2>1, <2>2, <2>3, <2>4 DEF GeometryTypeOK, Hand
<1>7. Hands /\ Reach
  BY <1>3, <1>5 DEF Hands, HandOK, BoxOK, Reach, Rest
<1>8. Story
  BY <1>5 DEF GeometryInit, Story, Agree, Told, Rest, Chg, Writing, Thread, Flush
<1> QED BY <1>6, <1>7, <1>8 DEF GeometryInv

\* One thread's hand changes and the other's does not.
LEMMA HandsStep ==
  ASSUME GeometryInv, NEW t \in Thread, NEW h \in Hand, HandOK(t, h), BoxOK(t, h, mouse'),
         doing' = [doing EXCEPT ![t] = h],
         mouse' = mouse \/ t = "ui"
  PROVE  /\ doing' \in [Thread -> Hand] /\ doing'[t] = h
         /\ doing'[Other(t)] = doing[Other(t)]
         /\ Other(t) \in Thread /\ Other(t) # t /\ Thread = {t, Other(t)}
         /\ Hands'
<1>1. Other(t) \in Thread /\ Other(t) # t /\ Thread = {t, Other(t)}
  BY DEF Other, Thread
<1>2. doing \in [Thread -> Hand]
  BY DEF GeometryInv, GeometryTypeOK, Hand
<1> HIDE DEF Hand
<1>3. /\ doing' \in [Thread -> Hand] /\ doing'[t] = h
      /\ doing'[Other(t)] = doing[Other(t)]
  BY <1>1, <1>2
<1>4. BoxOK(Other(t), doing[Other(t)], mouse')
  <2>1. BoxOK(Other(t), doing[Other(t)], mouse)
    BY <1>1 DEF GeometryInv, Hands
  <2>2. mouse' = mouse \/ Other(t) # "ui"
    BY DEF Other
  <2> QED BY <2>1, <2>2 DEF BoxOK
<1>5. HandOK(Other(t), doing[Other(t)])
  BY <1>1 DEF GeometryInv, Hands
<1>6. ASSUME NEW u \in Thread PROVE HandOK(u, doing'[u]) /\ BoxOK(u, doing'[u], mouse')
  <2>1. CASE u = t
    BY <1>3, <2>1
  <2>2. CASE u = Other(t)
    BY <1>3, <1>4, <1>5, <2>2
  <2> QED BY <1>1, <2>1, <2>2
<1> QED BY <1>1, <1>3, <1>6 DEF Hands

\* A step of t that starts no change, or ends one in agreement, or is in the middle of one.
LEMMA StoryStep ==
  ASSUME GeometryInv, NEW t \in Thread, doing'[Other(t)] = doing[Other(t)], crossed' = crossed,
         \/ /\ ~ Chg(doing'[t]) /\ UNCHANGED <<state, slot>>
            /\ (Chg(doing[t]) /\ ~crossed => Agree(state, slot))
         \/ /\ Chg(doing[t]) /\ ~ Chg(doing'[t])
            /\ (~crossed => Agree(state', slot'))
         \/ /\ Chg(doing[t]) /\ Chg(doing'[t])
            /\ (~crossed => Told(doing'[t], state', slot'))
  PROVE  Story'
<1> SUFFICES ASSUME ~crossed PROVE Story'
  BY DEF Story
<1>1. (t = "ui" /\ Other(t) = "bus") \/ (t = "bus" /\ Other(t) = "ui")
  BY DEF Thread, Other
<1> DEFINE h == doing[t]  o == doing[Other(t)]  h2 == doing'[t]
<1>2. ~ (Chg(h) /\ Chg(o)) /\ (~ Chg(h) /\ ~ Chg(o) => Agree(state, slot)) /\ Told(h, state, slot) /\ Told(o, state, slot)
  BY <1>1 DEF GeometryInv, Story
<1>3. \A x : ~ Chg(x) => Told(x, state, slot) /\ Told(x, state', slot')
  BY DEF Chg, Told, Writing
<1> SUFFICES /\ ~ (Chg(h2) /\ Chg(o)) /\ (~ Chg(h2) /\ ~ Chg(o) => Agree(state', slot'))
             /\ Told(h2, state', slot') /\ Told(o, state', slot')
  BY <1>1 DEF Story, Told, Chg, Agree
<1>4. CASE ~ Chg(h2) /\ UNCHANGED <<state, slot>> /\ (Chg(h) => Agree(state, slot))
  <2>1. Told(h2, state', slot') /\ Told(o, state', slot')
    BY <1>2, <1>3, <1>4 DEF Told
  <2>2. Agree(state', slot') = Agree(state, slot)
    BY <1>4 DEF Agree
  <2> QED BY <1>2, <1>4, <2>1, <2>2
<1>5. CASE Chg(h) /\ ~ Chg(h2) /\ Agree(state', slot')
  BY <1>2, <1>3, <1>5 DEF Told
<1>6. CASE Chg(h) /\ Chg(h2) /\ Told(h2, state', slot')
  BY <1>2, <1>3, <1>6 DEF Told
<1> QED BY <1>4, <1>5, <1>6

\* A handler that writes both begins, or one that writes the state alone.
LEMMA StoryBegins ==
  ASSUME GeometryInv, NEW t \in Thread, doing'[Other(t)] = doing[Other(t)], UNCHANGED <<state, slot>>,
         ~ Chg(doing[t]), Chg(doing'[t]),
         \/ /\ Whole(t)
            /\ doing'[t].at = "restore" \/ (doing'[t].at = "remember" /\ doing'[t].then = "rest")
         \/ /\ Part(t) /\ doing'[t].then # "drag" /\ doing'[t].at \in {"drag", "drop"}
            /\ state \in {"normal", "dragging"}
  PROVE  Story'
<1> SUFFICES ASSUME ~crossed' PROVE Story'
  BY DEF Story
<1>1. (t = "ui" /\ Other(t) = "bus") \/ (t = "bus" /\ Other(t) = "ui")
  BY DEF Thread, Other
<1> DEFINE h == doing[t]  o == doing[Other(t)]  h2 == doing'[t]
<1>2. ~ Chg(o)
  <2>1. Other(t) \in Thread \ {t} /\ \A u : Changing(u) <=> Chg(doing[u])
    BY DEF Other, Thread, Changing, Chg
  <2> QED BY <2>1 DEF Whole, Part
<1>3. Told(o, state', slot')
  BY <1>2 DEF Chg, Told, Writing
<1>4. Told(h2, state', slot')
  <2>1. CASE h2.at = "restore" \/ (h2.at = "remember" /\ h2.then = "rest")
    BY <2>1 DEF Told
  <2>2. CASE Part(t) /\ h2.then # "drag" /\ h2.at \in {"drag", "drop"} /\ state \in {"normal", "dragging"}
    <3>1. ~crossed /\ Agree(state, slot)
      BY <1>1, <1>2, <2>2 DEF Part, GeometryInv, Story
    <3> QED BY <2>2, <3>1 DEF Agree, Told
  <2> QED BY <2>1, <2>2
<1> QED BY <1>1, <1>2, <1>3, <1>4 DEF Story, Told, Chg

\* What the operators on a hand return.
LEMMA GoesFacts ==
  ASSUME NEW h \in Hand, NEW s \in Step
  PROVE  /\ Goes(h, s) \in Hand /\ Goes(h, s).at = s
         /\ s # "rest" => /\ Goes(h, s).want = h.want /\ Goes(h, s).box = h.box
                          /\ Goes(h, s).then = h.then
         /\ s = "rest" => Goes(h, s) = Rest
<1>1. Rest \in Hand /\ Rest.at = "rest"
  BY DEF Rest, Hand, Step, Slots, Empty
<1>2. h.want \in Slots /\ h.box \in Rect /\ h.then \in {"rest", "drag", "tell"}
  BY DEF Hand
<1> HIDE DEF Rect
<1>3. [h EXCEPT !.at = s] = [at |-> s, want |-> h.want, box |-> h.box, then |-> h.then]
  BY <1>2 DEF Hand
<1> QED BY <1>1, <1>2, <1>3 DEF Goes, Hand

LEMMA RestFacts ==
  /\ Rest \in Hand /\ Rest.at = "rest" /\ Rest.want = "normal" /\ Rest.then = "rest"
  /\ ~ Chg(Rest) /\ \A t, m : HandOK(t, Rest) /\ BoxOK(t, Rest, m)
<1>1. Rest \in Hand /\ Rest.at = "rest" /\ Rest.want = "normal" /\ Rest.then = "rest"
  BY DEF Rest, Hand, Step, Slots, Empty
<1> QED BY <1>1 DEF Chg, Writing, HandOK, BoxOK

Aimed(h, s, g) == [h EXCEPT !.at = s, !.box = g]

LEMMA AimedFacts ==
  ASSUME NEW h \in Hand, NEW s \in Step, NEW g \in Rect
  PROVE  /\ Aimed(h, s, g) \in Hand
         /\ Aimed(h, s, g).at = s /\ Aimed(h, s, g).want = h.want
         /\ Aimed(h, s, g).box = g /\ Aimed(h, s, g).then = h.then
<1>1. h.want \in Slots /\ h.then \in {"rest", "drag", "tell"}
  BY DEF Hand
<1> HIDE DEF Rect
<1>2. [h EXCEPT !.at = s] = [at |-> s, want |-> h.want, box |-> h.box, then |-> h.then]
  BY DEF Hand
<1>3. PICK k : k = [at |-> s, want |-> h.want, box |-> h.box, then |-> h.then]
  OBVIOUS
<1>4. Aimed(h, s, g) = [k EXCEPT !.box = g]
  BY <1>2, <1>3 DEF Aimed
<1>5. [k EXCEPT !.box = g] = [at |-> s, want |-> h.want, box |-> g, then |-> h.then]
  BY <1>3
<1>6. Aimed(h, s, g) = [at |-> s, want |-> h.want, box |-> g, then |-> h.then]
  BY <1>4, <1>5
<1> QED BY <1>1, <1>6 DEF Hand

LEMMA HandOf ==
  ASSUME GeometryInv, NEW t \in Thread
  PROVE  /\ doing \in [Thread -> Hand] /\ doing[t] \in Hand /\ HandOK(t, doing[t])
         /\ BoxOK(t, doing[t], mouse) /\ (Changing(t) <=> Chg(doing[t]))
<1>1. doing \in [Thread -> Hand]
  BY DEF GeometryInv, GeometryTypeOK, Hand
<1> HIDE DEF Hand
<1> QED BY <1>1 DEF GeometryInv, Hands, Changing, Chg

OthersTyped ==
  /\ state \in {"normal", "dragging"} \cup Flush /\ slot \in Slots
  /\ geom \in Rect /\ geom.w >= MinW /\ geom.h >= MinH
  /\ prev \in Rect /\ start \in Rect
  /\ mouse \in {"up", "drag", "resize"}
  /\ snapped \in Seq(Slots \ {"normal"})
  /\ begun \in Nat /\ applying \in BOOLEAN /\ crossed \in BOOLEAN /\ strayed \in BOOLEAN

\* A step of thread t keeps the invariant when its new hand is sound and it leaves the rest so.
LEMMA HandKeeps ==
  ASSUME GeometryInv, NEW t \in Thread, NEW h \in Hand, HandOK(t, h), BoxOK(t, h, mouse'),
         doing' = [doing EXCEPT ![t] = h], mouse' = mouse \/ t = "ui",
         OthersTyped', Reach', Story'
  PROVE  GeometryInv'
<1>1. doing' \in [Thread -> Hand] /\ Hands'
  BY HandsStep
<1> QED BY <1>1 DEF GeometryInv, GeometryTypeOK, OthersTyped, Hand

\* A thread that is not writing goes on and still is not; but for a restoration before a drag,
\* which is in the middle of a change all along.
LEMMA QuietStory ==
  ASSUME GeometryInv, NEW t \in Thread, NEW h, doing[t].at \notin Writing,
         doing'[t] = h, doing'[Other(t)] = doing[Other(t)], UNCHANGED <<state, slot, crossed>>,
         h.at \notin Writing \/ (h.at = "drag" /\ h.then = "drag"),
         h.then = "drag" <=> doing[t].then = "drag"
  PROVE  Story'
<1>1. CASE h.then # "drag"
  <2>1. ~ Chg(doing[t]) /\ ~ Chg(doing'[t])
    BY <1>1 DEF Chg
  <2> QED BY <2>1, StoryStep
<1>2. CASE h.then = "drag"
  <2>1. Chg(doing[t]) /\ Chg(doing'[t])
    BY <1>2 DEF Chg
  <2>2. ~crossed => slot = "normal"
    <3>1. ~crossed => Told(doing[t], state, slot)
      BY DEF GeometryInv, Story, Thread
    <3> QED BY <1>2, <3>1 DEF Told, Writing
  <2>3. ~crossed => Told(doing'[t], state', slot')
    BY <1>2, <2>2 DEF Told, Writing
  <2> QED BY <2>1, <2>3, StoryStep
<1> QED BY <1>1, <1>2

\* A thread goes on without a change of the geometry.
LEMMA GoStep ==
  ASSUME GeometryInv, NEW t \in Thread, NEW h \in Hand, HandOK(t, h), BoxOK(t, h, mouse),
         doing' = [doing EXCEPT ![t] = h], OthersTyped', UNCHANGED <<geom, mouse, strayed>>,
         doing[t].at \in {"ask", "guard", "put"} => h.at \in {"ask", "guard", "put"},
         Story'
  PROVE  GeometryInv'
<1>1. doing'["ui"].at = doing["ui"].at \/ (t = "ui" /\ doing'["ui"] = h)
  BY HandsStep DEF Other, Thread
<1>2. Reach'
  BY <1>1 DEF Reach, GeometryInv, Within
<1> QED BY <1>2, HandKeeps

LEMMA WritingStep ==
  ASSUME GeometryInv, NEW t \in Thread,
         Remember(t) \/ Save(t) \/ WriteSlot(t) \/ WriteState(t)
  PROVE  GeometryInv'
<1> DEFINE h == doing[t]
<1>1. h \in Hand /\ HandOK(t, h) /\ BoxOK(t, h, mouse) /\ doing \in [Thread -> Hand]
  BY HandOf
<1>2. Chg(h)
  BY DEF Chg, Writing, Remember, Save, WriteSlot, WriteState, At
<1>3. UNCHANGED <<geom, mouse, start, begun, crossed, strayed, snapped, applying>>
  BY DEF Remember, Save, WriteSlot, WriteState, Stay
<1>4. ~crossed => Told(h, state, slot)
  BY DEF GeometryInv, Story, Thread
<1>5. h.at \in {"slot", "state", "save", "remember", "restore", "unslot", "drop", "drag"}
  BY DEF Remember, Save, WriteSlot, WriteState, At
<1>6. h.want \in Slots /\ h.then \in {"rest", "drag", "tell"}
  BY <1>1 DEF Hand
<1> HIDE DEF h, Hand
<1>7. OthersTyped /\ Empty \in Rect
  BY DEF GeometryInv, GeometryTypeOK, OthersTyped, Empty
<1> SUFFICES ASSUME NEW s \in Step, GoTo(t, s), h.at # s,
                    HandOK(t, Goes(h, s)), BoxOK(t, Goes(h, s), mouse), OthersTyped',
                    \/ ~ Chg(Goes(h, s)) /\ (~crossed => Agree(state', slot'))
                    \/ Chg(Goes(h, s)) /\ (~crossed => Told(Goes(h, s), state', slot'))
             PROVE  GeometryInv'
  <2> HIDE DEF Rect
  <2>1. ASSUME NEW s \in Step
        PROVE  /\ Goes(h, s) \in Hand /\ Goes(h, s).at = s
               /\ s # "rest" => /\ Goes(h, s).want = h.want /\ Goes(h, s).box = h.box
                                /\ Goes(h, s).then = h.then
               /\ s = "rest" => Goes(h, s) = Rest
               /\ Rest.at = "rest" /\ Rest.want = "normal" /\ Rest.then = "rest"
    BY <1>1, <2>1, GoesFacts, RestFacts
  <2>2. \A u : HandOK(u, Rest) /\ BoxOK(u, Rest, mouse) /\ ~ Chg(Rest)
    BY RestFacts
  <2>3. CASE Remember(t)
    <3>1. PICK s \in {"save", "slot"} : GoTo(t, s)
      BY <2>3 DEF Remember
    <3>2. s \in Step /\ h.at = "remember" /\ s # "rest"
      BY <2>3, <3>1 DEF Remember, At, h, Step, Writing
    <3>3. HandOK(t, Goes(h, s)) /\ BoxOK(t, Goes(h, s), mouse) /\ Chg(Goes(h, s))
      BY <1>1, <2>1, <3>1, <3>2 DEF HandOK, BoxOK, Chg, Writing
    <3>4. Told(Goes(h, s), state', slot')
      BY <1>1, <2>1, <3>1, <3>2 DEF Told, HandOK
    <3>5. OthersTyped'
      BY <1>3, <1>7, <2>3 DEF OthersTyped, Remember, Stay
    <3> QED BY <3>1, <3>2, <3>3, <3>4, <3>5
  <2>4. CASE Save(t)
    <3>1. "slot" \in Step /\ h.at = "save" /\ GoTo(t, "slot")
      BY <2>4 DEF Save, At, h, Step, Writing
    <3>3. HandOK(t, Goes(h, "slot")) /\ BoxOK(t, Goes(h, "slot"), mouse) /\ Chg(Goes(h, "slot"))
      BY <1>1, <2>1, <3>1 DEF HandOK, BoxOK, Chg, Writing
    <3>4. Told(Goes(h, "slot"), state', slot')
      BY <1>1, <2>1, <3>1 DEF Told, HandOK
    <3>5. OthersTyped'
      BY <1>3, <1>7, <2>4 DEF OthersTyped, Save, Stay
    <3> QED BY <3>1, <3>3, <3>4, <3>5
  <2>5. CASE WriteSlot(t)
    <3>1. slot' = h.want /\ state' = state /\ OthersTyped'
      BY <1>3, <1>6, <1>7, <2>5 DEF WriteSlot, Stay, SlotOf, OthersTyped, h
    <3>2. CASE h.at = "slot"
      <4>1. "state" \in Step /\ GoTo(t, "state")
        BY <2>5, <3>2 DEF WriteSlot, At, h, Step, Writing
      <4>2. HandOK(t, Goes(h, "state")) /\ BoxOK(t, Goes(h, "state"), mouse) /\ Chg(Goes(h, "state"))
        BY <1>1, <2>1, <3>2, <4>1 DEF HandOK, BoxOK, Chg, Writing
      <4>3. Told(Goes(h, "state"), state', slot')
        BY <1>1, <2>1, <3>1, <3>2, <4>1 DEF Told, HandOK
      <4> QED BY <3>1, <3>2, <4>1, <4>2, <4>3
    <3>3. CASE h.at = "unslot"
      <4>1. "back" \in Step /\ GoTo(t, "back")
        BY <2>5, <3>3 DEF WriteSlot, At, h, Step, Writing
      <4>2. HandOK(t, Goes(h, "back")) /\ BoxOK(t, Goes(h, "back"), mouse) /\ h.want = "normal"
        BY <1>1, <2>1, <3>3, <4>1 DEF HandOK, BoxOK
      <4>3. ~crossed => Agree(state', slot')
        BY <1>4, <3>1, <3>3, <4>2 DEF Told, Agree, Flush
      <4>4. Told(Goes(h, "back"), state', slot')
        BY <2>1, <3>1, <4>1, <4>2 DEF Told
      <4> QED BY <3>1, <3>3, <4>1, <4>2, <4>3, <4>4
    <3> QED BY <2>5, <3>2, <3>3 DEF WriteSlot, At, h
  <2>6. CASE WriteState(t) /\ h.at = "state"
    <3>1. PICK s \in {"rest", "set"} : GoTo(t, s) /\ (s = "set" => h.box # Empty)
      BY <2>6 DEF WriteState, At, h
    <3>2. s \in Step /\ state' = StateOf(h.want) /\ slot' = slot /\ h.want # "normal"
      BY <1>1, <2>6, <3>1 DEF WriteState, At, Stay, h, Step, HandOK
    <3>3. HandOK(t, Goes(h, s)) /\ BoxOK(t, Goes(h, s), mouse) /\ ~ Chg(Goes(h, s))
      BY <1>1, <2>1, <2>2, <2>6, <3>1, <3>2 DEF HandOK, BoxOK, Chg, Writing
    <3>4. state' \in Flush
      BY <1>6, <3>2, StatesOfSlots
    <3>5. ~crossed => Agree(state', slot')
      BY <1>4, <2>6, <3>2, <3>4 DEF Told, Agree, Flush
    <3>6. OthersTyped'
      BY <1>3, <1>7, <2>6, <3>2, <3>4 DEF OthersTyped, WriteState, Stay
    <3> QED BY <2>6, <3>1, <3>2, <3>3, <3>5, <3>6
  <2>7. CASE WriteState(t) /\ h.at = "restore"
    <3>1. "unslot" \in Step /\ GoTo(t, "unslot") /\ state' = "normal" /\ slot' = slot
      BY <2>7 DEF WriteState, At, Stay, h, Step, Writing
    <3>2. HandOK(t, Goes(h, "unslot")) /\ BoxOK(t, Goes(h, "unslot"), mouse) /\ Chg(Goes(h, "unslot"))
      BY <1>1, <2>1, <2>7, <3>1 DEF HandOK, BoxOK, Chg, Writing
    <3>3. Told(Goes(h, "unslot"), state', slot')
      BY <2>1, <3>1 DEF Told
    <3>4. OthersTyped'
      BY <1>3, <1>7, <2>7, <3>1 DEF OthersTyped, WriteState, Stay
    <3> QED BY <2>7, <3>1, <3>2, <3>3, <3>4
  <2>8. CASE WriteState(t) /\ h.at = "drop"
    <3>1. "zone" \in Step /\ GoTo(t, "zone") /\ state' = "normal" /\ slot' = slot
      BY <2>8 DEF WriteState, At, Stay, h, Step
    <3>2. HandOK(t, Goes(h, "zone")) /\ BoxOK(t, Goes(h, "zone"), mouse) /\ ~ Chg(Goes(h, "zone"))
      BY <1>1, <2>1, <2>8, <3>1 DEF HandOK, BoxOK, Chg, Writing
    <3>3. ~crossed => Agree(state', slot')
      BY <1>4, <2>8, <3>1 DEF Told, Agree, Flush
    <3>4. OthersTyped'
      BY <1>3, <1>7, <2>8, <3>1 DEF OthersTyped, WriteState, Stay
    <3> QED BY <2>8, <3>1, <3>2, <3>3, <3>4
  <2>9. CASE WriteState(t) /\ h.at = "drag"
    <3>1. "rest" \in Step /\ GoTo(t, "rest") /\ state' = "dragging" /\ slot' = slot
      BY <2>9 DEF WriteState, At, Stay, h, Step
    <3>2. HandOK(t, Goes(h, "rest")) /\ BoxOK(t, Goes(h, "rest"), mouse) /\ ~ Chg(Goes(h, "rest"))
      BY <2>1, <2>2, <3>1
    <3>3. ~crossed => Agree(state', slot')
      BY <1>4, <2>9, <3>1 DEF Told, Agree, Flush
    <3>4. OthersTyped'
      BY <1>3, <1>7, <2>9, <3>1 DEF OthersTyped, WriteState, Stay
    <3> QED BY <2>9, <3>1, <3>2, <3>3, <3>4
  <2>10. WriteState(t) => h.at \in {"state", "restore", "drop", "drag"}
    BY DEF WriteState, At, h
  <2> QED BY <2>3, <2>4, <2>5, <2>6, <2>7, <2>8, <2>9, <2>10
<1>8. Goes(h, s) \in Hand /\ doing' = [doing EXCEPT ![t] = Goes(h, s)]
  BY <1>1, GoesFacts DEF GoTo, h
<1>9. doing'[t] = Goes(h, s) /\ doing'[Other(t)] = doing[Other(t)]
  BY <1>1, <1>8 DEF Other, Thread
<1>10. Story'
  BY <1>2, <1>3, <1>9, StoryStep DEF h
<1>11. h.at \notin {"ask", "guard", "put"}
  BY <1>5
<1> QED BY <1>3, <1>8, <1>10, <1>11, GoStep DEF h

\* Nothing that another thread relies on changes when a thread goes on without writing.
LEMMA QuietHand ==
  ASSUME GeometryInv, NEW t \in Thread, NEW h \in Hand, HandOK(t, h), BoxOK(t, h, mouse),
         doing' = [doing EXCEPT ![t] = h], OthersTyped', UNCHANGED <<geom, mouse, strayed>>,
         UNCHANGED <<state, slot, crossed>>, doing[t].at \notin Writing,
         doing[t].at \in {"ask", "guard", "put"} => h.at \in {"ask", "guard", "put"},
         h.at \notin Writing \/ (h.at = "drag" /\ h.then = "drag"),
         h.then = "drag" <=> doing[t].then = "drag"
  PROVE  GeometryInv'
<1>1. doing'[t] = h /\ doing'[Other(t)] = doing[Other(t)]
  BY HandOf, HandsStep
<1>2. Story'
  BY <1>1, QuietStory
<1> QED BY <1>2, GoStep

LEMMA SettingStep ==
  ASSUME GeometryInv, NEW t \in Thread,
         PutBack(t) \/ SetGeometry(t) \/ Propose(t) \/ Guard(t)
  PROVE  GeometryInv'
<1>1. doing[t] \in Hand /\ HandOK(t, doing[t]) /\ BoxOK(t, doing[t], mouse)
  BY HandOf
<1>2. OthersTyped /\ prev \in Rect /\ geom \in Rect
  BY DEF GeometryInv, GeometryTypeOK, OthersTyped
<1>3. /\ UNCHANGED <<state, slot, geom, prev, mouse, start, begun, crossed, strayed, snapped>>
      /\ applying' \in BOOLEAN
  BY <1>2 DEF PutBack, SetGeometry, Propose, Guard, Stay, OthersTyped
<1>4. OthersTyped'
  BY <1>2, <1>3 DEF OthersTyped
<1>5. doing[t].at \in {"back", "set", "ask", "guard", "unguard"}
  BY DEF PutBack, SetGeometry, Propose, Guard, At
<1>6. doing[t].at \notin Writing
  BY <1>5 DEF Writing
<1>7. doing[t].box \in Rect /\ doing[t].then \in {"rest", "drag", "tell"}
  BY <1>1 DEF Hand
<1> HIDE DEF Rect, Hand
<1>8. ASSUME NEW s \in Step, GoTo(t, s),
             HandOK(t, Goes(doing[t], s)), BoxOK(t, Goes(doing[t], s), mouse),
             doing[t].at \in {"ask", "guard", "put"} => s \in {"ask", "guard", "put"},
             s \notin Writing \/ (s = "drag" /\ doing[t].then = "drag"),
             s # "rest" \/ doing[t].then # "drag"
      PROVE  GeometryInv'
  <2>1. /\ Goes(doing[t], s) \in Hand /\ Goes(doing[t], s).at = s
        /\ s # "rest" => Goes(doing[t], s).then = doing[t].then
        /\ s = "rest" => Goes(doing[t], s).then = "rest"
    BY <1>1, GoesFacts, RestFacts
  <2>2. doing' = [doing EXCEPT ![t] = Goes(doing[t], s)]
    BY <1>8 DEF GoTo
  <2> QED BY <1>3, <1>4, <1>6, <1>8, <2>1, <2>2, QuietHand
<1>9. ASSUME NEW s \in Step, NEW g \in Rect, Aim(t, s, g), s \notin Writing,
             HandOK(t, Aimed(doing[t], s, g)), BoxOK(t, Aimed(doing[t], s, g), mouse),
             doing[t].at \in {"ask", "guard", "put"} => s \in {"ask", "guard", "put"}
      PROVE  GeometryInv'
  <2>1. /\ Aimed(doing[t], s, g) \in Hand /\ Aimed(doing[t], s, g).at = s
        /\ Aimed(doing[t], s, g).then = doing[t].then
    BY <1>1, AimedFacts
  <2>2. doing' = [doing EXCEPT ![t] = Aimed(doing[t], s, g)]
    BY <1>9 DEF Aim, Aimed
  <2> QED BY <1>3, <1>4, <1>6, <1>9, <2>1, <2>2, QuietHand
<1>10. ASSUME NEW s \in Step
       PROVE  /\ Goes(doing[t], s).at = s
              /\ s # "rest" => /\ Goes(doing[t], s).want = doing[t].want
                               /\ Goes(doing[t], s).box = doing[t].box
                               /\ Goes(doing[t], s).then = doing[t].then
              /\ s = "rest" => Goes(doing[t], s) = Rest
  BY <1>1, GoesFacts
<1>11. ASSUME NEW s \in Step, NEW g \in Rect
       PROVE  /\ Aimed(doing[t], s, g).at = s /\ Aimed(doing[t], s, g).want = doing[t].want
              /\ Aimed(doing[t], s, g).box = g /\ Aimed(doing[t], s, g).then = doing[t].then
  BY <1>1, AimedFacts
<1>12. \A m : HandOK(t, Rest) /\ BoxOK(t, Rest, m)
  BY RestFacts
<1>13. {"rest", "drag", "back", "set", "bypass", "ask", "guard", "put", "unguard", "tell"} \subseteq Step
  BY DEF Step, Writing
<1>14. CASE PutBack(t) /\ Aim(t, "set", prev)
  <2>1. "set" \in Step /\ doing[t].want = "normal" /\ doing[t].at = "back" /\ "set" \notin Writing
    BY <1>1, <1>13, <1>14 DEF PutBack, At, HandOK, Writing
  <2>2. HandOK(t, Aimed(doing[t], "set", prev)) /\ BoxOK(t, Aimed(doing[t], "set", prev), mouse)
    BY <1>1, <1>2, <1>11, <2>1 DEF HandOK, BoxOK
  <2> QED BY <1>2, <1>9, <1>14, <2>1, <2>2
<1>15. CASE PutBack(t) /\ GoTo(t, doing[t].then)
  <2>1. doing[t].want = "normal" /\ doing[t].at = "back" /\ doing[t].then \in {"rest", "drag"}
    BY <1>1, <1>7, <1>15 DEF PutBack, At, HandOK
  <2>2. CASE doing[t].then = "rest"
    <3>1. "rest" \in Step /\ "rest" \notin Writing
      BY <1>13 DEF Writing
    <3> QED BY <1>8, <1>10, <1>12, <1>15, <2>1, <2>2, <3>1
  <2>3. CASE doing[t].then = "drag"
    <3>1. "drag" \in Step
      BY <1>13
    <3>2. HandOK(t, Goes(doing[t], "drag")) /\ BoxOK(t, Goes(doing[t], "drag"), mouse)
      BY <1>1, <1>10, <2>1, <2>3, <3>1 DEF HandOK, BoxOK
    <3> QED BY <1>8, <1>15, <2>1, <2>3, <3>1, <3>2
  <2> QED BY <2>1, <2>2, <2>3
<1>16. CASE SetGeometry(t)
  <2>1. PICK s \in {"bypass", "ask"} : GoTo(t, s)
    BY <1>16 DEF SetGeometry
  <2>2. s \in Step /\ s # "rest" /\ doing[t].at = "set" /\ s \notin Writing
    BY <1>13, <1>16, <2>1 DEF SetGeometry, At, Writing
  <2>3. HandOK(t, Goes(doing[t], s)) /\ BoxOK(t, Goes(doing[t], s), mouse)
    BY <1>1, <1>10, <2>1, <2>2 DEF HandOK, BoxOK
  <2> QED BY <1>8, <2>1, <2>2, <2>3
<1>17. CASE Propose(t)
  <2> DEFINE g == Requested(geom, doing[t].box)
  <2>1. g \in Rect /\ Within(g)
    BY <1>2, <1>7, RequestedWithin DEF GeometryInv, GeometryTypeOK
  <2>2. Aim(t, "guard", g) /\ doing[t].at = "ask" /\ "guard" \in Step /\ "guard" \notin Writing
    BY <1>13, <1>17 DEF Propose, At, Writing
  <2> HIDE DEF g
  <2>3. HandOK(t, Aimed(doing[t], "guard", g)) /\ BoxOK(t, Aimed(doing[t], "guard", g), mouse)
    BY <1>1, <1>11, <2>1, <2>2 DEF HandOK, BoxOK, Within
  <2> QED BY <1>9, <2>1, <2>2, <2>3
<1>18. CASE Guard(t) /\ doing[t].at = "guard"
  <2>1. GoTo(t, "put") /\ "put" \in Step /\ "put" \notin Writing
    BY <1>13, <1>18 DEF Guard, At, Writing
  <2>2. HandOK(t, Goes(doing[t], "put")) /\ BoxOK(t, Goes(doing[t], "put"), mouse)
    BY <1>1, <1>10, <1>18, <2>1 DEF HandOK, BoxOK
  <2> QED BY <1>8, <1>18, <2>1, <2>2
<1>19. CASE Guard(t) /\ doing[t].at = "unguard"
  <2>1. GoTo(t, doing[t].then)
    BY <1>19 DEF Guard, At
  <2>2. CASE doing[t].then = "rest"
    <3>1. "rest" \in Step /\ "rest" \notin Writing
      BY <1>13 DEF Writing
    <3> QED BY <1>8, <1>10, <1>12, <1>19, <2>1, <2>2, <3>1
  <2>3. CASE doing[t].then \in {"drag", "tell"}
    <3>1. doing[t].then \in Step /\ doing[t].then # "rest" /\ "tell" \notin Writing
      BY <1>13, <2>3 DEF Writing
    <3>2. HandOK(t, Goes(doing[t], doing[t].then)) /\ BoxOK(t, Goes(doing[t], doing[t].then), mouse)
      BY <1>1, <1>10, <1>19, <2>3, <3>1 DEF HandOK, BoxOK
    <3> QED BY <1>8, <1>19, <2>1, <2>3, <3>1, <3>2
  <2> QED BY <1>7, <2>2, <2>3
<1> QED BY <1>14, <1>15, <1>16, <1>17, <1>18, <1>19 DEF PutBack, Guard, At

\* A geometry is set: the step of a thread that is not writing.
LEMMA GeomStep ==
  ASSUME GeometryInv, NEW t \in Thread, Bypass(t) \/ Put(t)
  PROVE  GeometryInv'
<1> DEFINE g == IF doing[t].at = "put" THEN doing[t].box ELSE Clamped(doing[t].box)
           s == IF doing[t].at = "put" THEN "unguard" ELSE doing[t].then
<1>1. doing[t] \in Hand /\ HandOK(t, doing[t]) /\ BoxOK(t, doing[t], mouse)
  BY HandOf
<1>2. doing[t].box \in Rect /\ doing[t].then \in {"rest", "drag", "tell"} /\ doing[t].want \in Slots
  BY <1>1 DEF Hand
<1>3. doing[t].at \in {"put", "bypass"}
  BY DEF Bypass, Put, At
<1>4. Resized(t, g, s) /\ UNCHANGED <<state, slot, prev, applying, mouse, start, begun, crossed, snapped>>
  BY DEF Bypass, Put, At, Clamped, Stay
<1>5. strayed' = (doing[t].at = "bypass" /\ doing[t].want = "normal")
  BY DEF Bypass, Put, At
<1>6. /\ g \in Rect /\ g.w >= MinW /\ g.h >= MinH
      /\ Within(g) \/ strayed' \/ (t = "ui" /\ mouse = "resize")
  <2>1. CASE doing[t].at = "put"
    BY <1>1, <1>2, <2>1 DEF BoxOK
  <2>2. CASE doing[t].at = "bypass"
    <3>1. PICK x \in Int, y \in Int, w \in Int, h \in Int : doing[t].box = R(x, y, w, h)
      <4>1. doing[t].box \in [x: Int, y: Int, w: Int, h: Int]
        BY <1>2
      <4>2. doing[t].box = R(doing[t].box.x, doing[t].box.y, doing[t].box.w, doing[t].box.h)
        BY <4>1
      <4> QED BY <4>1, <4>2
    <3>2. Clamped(doing[t].box) = R(x, y, Larger(MinW, w), Larger(MinH, h))
      <4>1. PICK b : b = R(x, y, w, h)
        OBVIOUS
      <4>2. PICK k : k = R(x, y, Larger(MinW, w), h)
        OBVIOUS
      <4>3. [b EXCEPT !.w = Larger(MinW, b.w)] = k
        BY <4>1, <4>2
      <4>4. [k EXCEPT !.h = Larger(MinH, h)] = R(x, y, Larger(MinW, w), Larger(MinH, h))
        BY <4>2
      <4>5. b = doing[t].box /\ b.h = h
        BY <3>1, <4>1
      <4> QED BY <4>3, <4>4, <4>5 DEF Clamped
    <3>3. /\ Larger(MinW, w) \in Int /\ Larger(MinW, w) >= MinW
          /\ Larger(MinH, h) \in Int /\ Larger(MinH, h) >= MinH
      BY SizesAreInts DEF Larger
    <3>4. g \in Rect /\ g.w >= MinW /\ g.h >= MinH
      BY <2>2, <3>2, <3>3
    <3>5. doing[t].want # "normal" => Within(g)
      BY <1>1, <1>2, <2>2, SlotRects DEF HandOK
    <3> QED BY <1>5, <2>2, <3>4, <3>5
  <2> QED BY <1>3, <2>1, <2>2
<1>7. geom' = g /\ (Aim(t, "ask", g) \/ GoTo(t, s))
  BY <1>4 DEF Resized
<1>8. OthersTyped'
  <2>1. OthersTyped
    BY DEF GeometryInv, GeometryTypeOK, OthersTyped
  <2>2. strayed' \in BOOLEAN
    BY <1>5
  <2> HIDE DEF g, s, Rect
  <2> QED BY <1>4, <1>6, <1>7, <2>1, <2>2 DEF OthersTyped
<1> HIDE DEF g, Rect, Hand
<1>9. ASSUME NEW h \in Hand, HandOK(t, h), BoxOK(t, h, mouse), doing' = [doing EXCEPT ![t] = h],
             h.at \notin Writing \/ (h.at = "drag" /\ h.then = "drag"),
             h.then = "drag" <=> doing[t].then = "drag"
      PROVE  GeometryInv'
  <2>1. doing'[t] = h /\ doing'[Other(t)] = doing[Other(t)] /\ mouse' = mouse
    BY <1>4, <1>9, HandsStep
  <2>2. doing[t].at \notin Writing
    BY <1>3 DEF Writing
  <2>3. Story'
    BY <1>4, <1>9, <2>1, <2>2, QuietStory
  <2>4. Reach'
    BY <1>4, <1>6, <1>7 DEF Reach, Within
  <2> QED BY <1>8, <1>9, <2>1, <2>3, <2>4, HandKeeps
<1>10. CASE Aim(t, "ask", g)
  <2>1. "ask" \in Step /\ "ask" \notin Writing
    BY DEF Step, Writing
  <2>2. /\ Aimed(doing[t], "ask", g) \in Hand /\ Aimed(doing[t], "ask", g).at = "ask"
        /\ Aimed(doing[t], "ask", g).want = doing[t].want
        /\ Aimed(doing[t], "ask", g).then = doing[t].then
    BY <1>1, <1>6, <2>1, AimedFacts
  <2>3. HandOK(t, Aimed(doing[t], "ask", g)) /\ BoxOK(t, Aimed(doing[t], "ask", g), mouse)
    BY <1>1, <1>3, <2>2 DEF HandOK, BoxOK
  <2>4. doing' = [doing EXCEPT ![t] = Aimed(doing[t], "ask", g)]
    BY <1>10 DEF Aim, Aimed
  <2> QED BY <1>9, <2>1, <2>2, <2>3, <2>4
<1>11. CASE GoTo(t, s)
  <2>1. s \in {"unguard", "rest", "drag", "tell"} /\ s \in Step
    BY <1>2 DEF Step, Writing
  <2>2. s \in {"drag", "tell"} => doing[t].then = s
    OBVIOUS
  <2>3. s = "rest" => doing[t].then = "rest"
    OBVIOUS
  <2> HIDE DEF s
  <2>4. /\ Goes(doing[t], s) \in Hand /\ Goes(doing[t], s).at = s
        /\ s # "rest" => /\ Goes(doing[t], s).want = doing[t].want
                         /\ Goes(doing[t], s).box = doing[t].box
                         /\ Goes(doing[t], s).then = doing[t].then
        /\ s = "rest" => Goes(doing[t], s) = Rest
    BY <1>1, <2>1, GoesFacts
  <2>5. HandOK(t, Goes(doing[t], s)) /\ BoxOK(t, Goes(doing[t], s), mouse)
    BY <1>1, <1>3, <2>1, <2>2, <2>4, RestFacts DEF HandOK, BoxOK
  <2>6. Goes(doing[t], s).then = "drag" <=> doing[t].then = "drag"
    BY <2>1, <2>3, <2>4, RestFacts
  <2>7. doing' = [doing EXCEPT ![t] = Goes(doing[t], s)]
    BY <1>11 DEF GoTo
  <2>8. s \notin Writing \/ (s = "drag" /\ doing[t].then = "drag")
    BY <2>1, <2>2 DEF Writing
  <2>9. Goes(doing[t], s).at \notin Writing
          \/ (Goes(doing[t], s).at = "drag" /\ Goes(doing[t], s).then = "drag")
    BY <2>4, <2>8
  <2> QED BY <1>9, <2>4, <2>5, <2>6, <2>7, <2>9
<1> QED BY <1>7, <1>10, <1>11

\* What a step does to the rest of the window in the middle of a handler of the interface.
LEMMA ReleaseSteps ==
  ASSUME GeometryInv, Zone \/ Tell \/ Grab
  PROVE  GeometryInv'
<1> DEFINE zone == ZoneOf(geom.x, geom.y)
<1>1. /\ doing["ui"] \in Hand /\ HandOK("ui", doing["ui"]) /\ BoxOK("ui", doing["ui"], mouse)
      /\ "ui" \in Thread
  BY HandOf DEF Thread
<1>2. OthersTyped
  BY DEF GeometryInv, GeometryTypeOK, OthersTyped
<1>3. CASE Zone
  <2>1. zone \in Slots
    BY DEF ZoneOf, Slots, Tiles
  <2>2. SlotRect(zone) \in Rect
    BY <2>1, SlotRects
  <2> HIDE DEF zone
  <2>3. PICK h : /\ doing' = [doing EXCEPT !["ui"] = h]
                 /\ h = IF zone = "normal" THEN Rest
                        ELSE [at |-> "ask", want |-> zone, box |-> SlotRect(zone), then |-> "tell"]
    BY <1>3 DEF Zone, zone
  <2>4. /\ h \in Hand /\ HandOK("ui", h) /\ BoxOK("ui", h, mouse) /\ h.then # "drag"
        /\ h.at \notin Writing
    <3>1. CASE zone = "normal"
      BY <2>3, <3>1, RestFacts DEF Writing
    <3>2. CASE zone # "normal"
      <4>1. "ask" \in Step /\ "ask" \notin Writing
        BY DEF Step, Writing
      <4> QED BY <2>1, <2>2, <2>3, <3>2, <4>1 DEF HandOK, BoxOK, Hand
    <3> QED BY <3>1, <3>2
  <2>5. /\ UNCHANGED <<state, slot, geom, prev, applying, snapped, strayed, mouse, start, begun, crossed>>
        /\ doing["ui"].at = "zone"
    BY <1>3 DEF Zone, Stay, At
  <2>6. OthersTyped'
    BY <1>2, <2>5 DEF OthersTyped
  <2>7. doing["ui"].then # "drag" /\ doing["ui"].at \notin Writing
    BY <1>1, <2>5 DEF HandOK, Writing
  <2> QED BY <1>1, <2>3, <2>4, <2>5, <2>6, <2>7, QuietHand
<1>4. CASE Tell
  <2>1. /\ doing["ui"].at = "tell" /\ doing["ui"].want # "normal" /\ doing["ui"].want \in Slots
        /\ doing["ui"].at \notin Writing /\ doing["ui"].then # "drag"
    BY <1>1, <1>4 DEF Tell, At, HandOK, Hand, Writing
  <2>2. doing' = [doing EXCEPT !["ui"] = Rest]
    BY <1>4 DEF Tell, GoTo, Goes
  <2>3. /\ UNCHANGED <<state, slot, geom, prev, applying, strayed, mouse, start, begun, crossed>>
        /\ snapped' = Append(snapped, doing["ui"].want)
    BY <1>4 DEF Tell, Stay
  <2>4. OthersTyped'
    BY <1>2, <2>1, <2>3 DEF OthersTyped
  <2>5. Rest.at \notin Writing
    BY RestFacts DEF Chg
  <2> QED BY <1>1, <2>1, <2>2, <2>3, <2>4, <2>5, QuietHand, RestFacts
<1>5. CASE Grab
  <2>1. doing["ui"].at = "grab" /\ doing["ui"].at \notin Writing /\ doing["ui"].then # "drag"
    BY <1>1, <1>5 DEF Grab, At, HandOK, Writing
  <2>2. doing' = [doing EXCEPT !["ui"] = Rest]
    BY <1>5 DEF Grab, GoTo, Goes
  <2>3. /\ UNCHANGED <<state, slot, geom, prev, applying, strayed, mouse, snapped, begun, crossed>>
        /\ start' = geom
    BY <1>5 DEF Grab
  <2>4. OthersTyped'
    BY <1>2, <2>3 DEF OthersTyped
  <2>5. Rest.at \notin Writing
    BY RestFacts DEF Chg
  <2> QED BY <1>1, <2>1, <2>2, <2>3, <2>4, <2>5, QuietHand, RestFacts
<1> QED BY <1>3, <1>4, <1>5

\* What begins, as the rest of the proof needs it.
LEMMA BeginFacts ==
  ASSUME GeometryInv, NEW t \in Thread, NEW s \in Step, NEW w \in Slots, NEW g \in Rect,
         NEW n \in {"rest", "drag", "tell"}, Begin(t, s, w, g, n)
  PROVE  LET h == [at |-> s, want |-> w, box |-> g, then |-> n]
         IN /\ h \in Hand /\ doing' = [doing EXCEPT ![t] = h]
            /\ doing'[t] = h /\ doing'[Other(t)] = doing[Other(t)]
            /\ doing[t].at = "rest" /\ ~ Chg(doing[t])
            /\ UNCHANGED <<state, slot, geom, prev, applying, strayed>>
            /\ begun \in Nat /\ begun' = begun + 1
<1> DEFINE h == [at |-> s, want |-> w, box |-> g, then |-> n]
<1>1. h \in Hand
  BY DEF Hand
<1>2. doing \in [Thread -> Hand] /\ doing[t] \in Hand /\ HandOK(t, doing[t])
  BY HandOf
<1>3. /\ doing' = [doing EXCEPT ![t] = h] /\ doing[t].at = "rest" /\ begun' = begun + 1
      /\ UNCHANGED <<state, slot, geom, prev, applying, strayed>>
  BY DEF Begin, At
<1> HIDE DEF h, Hand
<1>4. doing'[t] = h /\ doing'[Other(t)] = doing[Other(t)]
  BY <1>2, <1>3 DEF Other, Thread
<1>5. ~ Chg(doing[t])
  BY <1>2, <1>3 DEF HandOK, Chg, Writing
<1> QED BY <1>1, <1>3, <1>4, <1>5 DEF h, GeometryInv, GeometryTypeOK

\* A handler begins that changes the state and the slot.
LEMMA ChangeBegins ==
  ASSUME GeometryInv, NEW t \in Thread, NEW w \in Slots, NEW g \in Rect,
         NEW s \in {"remember", "restore"}, NEW n \in {"rest", "drag"},
         s = "remember" => w # "normal" /\ g \in {Empty, SlotRect(w)} /\ n = "rest",
         s = "restore" => t = "ui" /\ w = "normal",
         Begin(t, s, w, g, n), Whole(t), start' \in Rect, snapped' \in Seq(Slots \ {"normal"}),
         mouse' \in {"up", "drag", "resize"}, mouse' = mouse \/ (t = "ui" /\ mouse # "resize")
  PROVE  GeometryInv'
<1> DEFINE h == [at |-> s, want |-> w, box |-> g, then |-> n]
<1>1. s \in Step /\ n \in {"rest", "drag", "tell"}
  BY DEF Step, Writing
<1>2. /\ h \in Hand /\ doing' = [doing EXCEPT ![t] = h]
      /\ doing'[t] = h /\ doing'[Other(t)] = doing[Other(t)]
      /\ doing[t].at = "rest" /\ ~ Chg(doing[t])
      /\ UNCHANGED <<state, slot, geom, prev, applying, strayed>>
      /\ begun \in Nat /\ begun' = begun + 1
  <2> HIDE DEF Rect
  <2>1. s \in Step /\ w \in Slots /\ g \in Rect /\ n \in {"rest", "drag", "tell"}
    BY <1>1
  <2>2. Begin(t, s, w, g, n)
    OBVIOUS
  <2> QED BY <2>1, <2>2, BeginFacts
<1>3. h.at = s /\ h.want = w /\ h.box = g /\ h.then = n
  OBVIOUS
<1> HIDE DEF h, Hand, Rect
<1>4. HandOK(t, h) /\ BoxOK(t, h, mouse')
  BY <1>3 DEF HandOK, BoxOK, Thread
<1>5. crossed' \in BOOLEAN
  BY DEF Whole
<1>6. OthersTyped'
  BY <1>2, <1>5 DEF OthersTyped, GeometryInv, GeometryTypeOK
<1>7. Chg(h)
  BY <1>3 DEF Chg, Writing
<1>8. Story'
  <2>1. doing'[t].at = "restore" \/ (doing'[t].at = "remember" /\ doing'[t].then = "rest")
    BY <1>2, <1>3
  <2> QED BY <1>2, <1>7, <2>1, StoryBegins
<1>9. Reach'
  <2>1. doing'["ui"].at = doing["ui"].at \/ (t = "ui" /\ doing["ui"].at = "rest")
    BY <1>2 DEF Other, Thread
  <2> QED BY <1>2, <2>1 DEF GeometryInv, Reach, Within
<1> QED BY <1>2, <1>4, <1>6, <1>8, <1>9, HandKeeps

\* A handler of the interface begins that does not.
LEMMA QuietBegins ==
  ASSUME GeometryInv, NEW s \in {"ask", "guard", "grab"}, NEW g \in Rect,
         Begin("ui", s, "normal", g, "rest"), crossed' = crossed, snapped' = snapped, start' \in Rect,
         s = "guard" => g.w >= MinW /\ g.h >= MinH /\ mouse' = "resize",
         mouse' \in {"up", "drag", "resize"}, s = "grab" => mouse' = "resize",
         mouse' = mouse \/ s \in {"ask", "grab"}
  PROVE  GeometryInv'
<1> DEFINE h == [at |-> s, want |-> "normal", box |-> g, then |-> "rest"]
<1>1. /\ s \in Step /\ s \notin Writing /\ "ui" \in Thread /\ "normal" \in Slots
      /\ "rest" \in {"rest", "drag", "tell"}
  BY DEF Step, Writing, Thread, Slots
<1>2. /\ h \in Hand /\ doing' = [doing EXCEPT !["ui"] = h]
      /\ doing'["ui"] = h /\ doing'[Other("ui")] = doing[Other("ui")]
      /\ doing["ui"].at = "rest" /\ ~ Chg(doing["ui"])
      /\ UNCHANGED <<state, slot, geom, prev, applying, strayed>>
      /\ begun \in Nat /\ begun' = begun + 1
  BY <1>1, BeginFacts
<1>3. h.at = s /\ h.want = "normal" /\ h.box = g /\ h.then = "rest"
  OBVIOUS
<1> HIDE DEF h, Hand, Rect
<1>4. HandOK("ui", h) /\ BoxOK("ui", h, mouse')
  BY <1>3 DEF HandOK, BoxOK
<1>5. OthersTyped'
  BY <1>2 DEF OthersTyped, GeometryInv, GeometryTypeOK
<1>6. Story'
  <2>1. ~ Chg(doing'["ui"])
    BY <1>1, <1>2, <1>3 DEF Chg
  <2> QED BY <1>1, <1>2, <2>1, StoryStep
<1>7. Reach'
  BY <1>2, <1>3 DEF GeometryInv, Reach, Within
<1> QED BY <1>1, <1>2, <1>4, <1>5, <1>6, <1>7, HandKeeps

\* A handler of the interface begins that changes the state alone.
LEMMA PartBegins ==
  ASSUME GeometryInv, NEW s \in {"drag", "drop"}, state \in {"normal", "dragging"},
         Begin("ui", s, "normal", Empty, "rest"), Part("ui"), UNCHANGED <<start, snapped>>,
         mouse \in {"up", "drag"}, mouse' \in {"up", "drag"}
  PROVE  GeometryInv'
<1> DEFINE h == [at |-> s, want |-> "normal", box |-> Empty, then |-> "rest"]
<1>1. /\ s \in Step /\ "ui" \in Thread /\ "normal" \in Slots /\ Empty \in Rect
      /\ "rest" \in {"rest", "drag", "tell"}
  BY DEF Step, Writing, Thread, Slots, Empty
<1>2. /\ h \in Hand /\ doing' = [doing EXCEPT !["ui"] = h]
      /\ doing'["ui"] = h /\ doing'[Other("ui")] = doing[Other("ui")]
      /\ doing["ui"].at = "rest" /\ ~ Chg(doing["ui"])
      /\ UNCHANGED <<state, slot, geom, prev, applying, strayed>>
      /\ begun \in Nat /\ begun' = begun + 1
  BY <1>1, BeginFacts
<1>3. h.at = s /\ h.want = "normal" /\ h.then = "rest"
  OBVIOUS
<1> HIDE DEF h, Hand, Rect
<1>4. HandOK("ui", h) /\ BoxOK("ui", h, mouse')
  BY <1>3 DEF HandOK, BoxOK
<1>5. crossed' \in BOOLEAN
  BY DEF Part, GeometryInv, GeometryTypeOK
<1>6. OthersTyped'
  BY <1>2, <1>5 DEF OthersTyped, GeometryInv, GeometryTypeOK
<1>7. Story'
  <2>1. Chg(doing'["ui"])
    BY <1>2, <1>3 DEF Chg, Writing
  <2> QED BY <1>1, <1>2, <1>3, <2>1, StoryBegins
<1>8. Reach'
  BY <1>2 DEF GeometryInv, Reach, Within
<1> QED BY <1>1, <1>2, <1>4, <1>6, <1>7, <1>8, HandKeeps

\* The release of a drag that a late snap has ended.
LEMMA MouseUp ==
  ASSUME GeometryInv, mouse = "drag", mouse' = "up",
         UNCHANGED <<doing, state, slot, geom, prev, applying, begun, strayed, crossed, start, snapped>>
  PROVE  GeometryInv'
<1>1. GeometryTypeOK'
  BY DEF GeometryInv, GeometryTypeOK
<1>2. Hands'
  BY DEF GeometryInv, Hands, HandOK, BoxOK, Within
<1>3. Reach' /\ Story'
  BY DEF GeometryInv, Reach, Within, Story, Agree, Told, Chg
<1> QED BY <1>1, <1>2, <1>3 DEF GeometryInv

LEMMA NextGeometry == GeometryInv /\ [GeometryNext]_geometryVars => GeometryInv'
<1> SUFFICES ASSUME GeometryInv, [GeometryNext]_geometryVars PROVE GeometryInv'
  OBVIOUS
<1>1. /\ geom \in Rect /\ prev \in Rect /\ start \in Rect /\ Empty \in Rect
      /\ mouse \in {"up", "drag", "resize"} /\ snapped \in Seq(Slots \ {"normal"})
      /\ "ui" \in Thread /\ "bus" \in Thread /\ "normal" \in Slots
  BY DEF GeometryInv, GeometryTypeOK, Empty, Thread, Slots
<1>2. \A s \in Slots : SlotRect(s) \in Rect
  BY SlotRects
<1>3. {"half_left", "half_right", "maximized"} \subseteq Slots \ {"normal"}
  BY DEF Slots, Tiles
<1>4. ASSUME NEW t \in Thread, NEW s \in Slots \ {"normal"}, NEW g \in {Empty, SlotRect(s)},
             Snap(t, s, g), Whole(t), start' = start, mouse' = mouse,
             snapped' \in Seq(Slots \ {"normal"})
      PROVE  GeometryInv'
  <2>1. Begin(t, "remember", s, g, "rest") /\ g \in Rect
    BY <1>1, <1>2, <1>4 DEF Snap
  <2> QED BY <1>1, <1>4, <2>1, ChangeBegins
<1>5. ASSUME NEW n \in {"rest", "drag"}, Unsnap("ui", n), Whole("ui"), start' = start,
             snapped' = snapped, mouse' = mouse \/ (mouse' = "drag" /\ mouse = "up")
      PROVE  GeometryInv'
  <2>1. Begin("ui", "restore", "normal", Empty, n)
    BY <1>5 DEF Unsnap
  <2> QED BY <1>1, <1>5, <2>1, ChangeBegins
<1>6. CASE PressTitle
  <2>1. CASE state \in Flush
    BY <1>5, <1>6, <2>1 DEF PressTitle
  <2>2. CASE state \notin Flush
    <3>1. Begin("ui", "drag", "normal", Empty, "rest") /\ Part("ui") /\ mouse = "up"
          /\ mouse' = "drag" /\ UNCHANGED <<start, snapped>>
      BY <1>6, <2>2 DEF PressTitle
    <3>2. state \in {"normal", "dragging"}
      BY <2>2 DEF GeometryInv, GeometryTypeOK
    <3> QED BY <1>1, <3>1, <3>2, PartBegins
  <2> QED BY <2>1, <2>2
<1>7. CASE Drag
  <2>1. PICK p \in Points : Begin("ui", "ask", "normal", R(p.x, p.y, geom.w, geom.h), "rest")
    BY <1>7 DEF Drag
  <2>2. R(p.x, p.y, geom.w, geom.h) \in Rect
    BY <1>1, GeometryAssumption
  <2>3. UNCHANGED <<mouse, start, snapped, crossed>>
    BY <1>7 DEF Drag
  <2> HIDE DEF Rect, R
  <2> QED BY <1>1, <2>1, <2>2, <2>3, QuietBegins
<1>8. CASE Release
  <2>1. CASE state # "dragging"
    BY <1>8, <2>1, MouseUp DEF Release
  <2>2. CASE state = "dragging"
    BY <1>1, <1>8, <2>2, PartBegins DEF Release
  <2> QED BY <2>1, <2>2
<1>9. CASE LateSnap
  <2>1. Head(snapped) \in Slots \ {"normal"} /\ Tail(snapped) \in Seq(Slots \ {"normal"})
    BY <1>1, <1>9 DEF LateSnap
  <2>2. /\ Snap("bus", Head(snapped), SlotRect(Head(snapped))) /\ Whole("bus")
        /\ UNCHANGED <<mouse, start>> /\ snapped' = Tail(snapped)
    BY <1>9 DEF LateSnap
  <2> QED BY <1>1, <1>4, <2>1, <2>2
<1>10. CASE PressEdge
  BY <1>1, <1>10, QuietBegins DEF PressEdge
<1>11. CASE Resize
  <2>1. PICK d \in Growth, e \in Growth, c \in Corners :
          Begin("ui", "guard", "normal",
                R(IF c.left THEN start.x + start.w - Larger(MinW, start.w + d) ELSE start.x,
                  IF c.top THEN start.y + start.h - Larger(MinH, start.h + e) ELSE start.y,
                  Larger(MinW, start.w + d), Larger(MinH, start.h + e)), "rest")
    BY <1>11 DEF Resize
  <2>2. /\ start.x \in Int /\ start.y \in Int /\ start.w \in Int /\ start.h \in Int
        /\ d \in Int /\ e \in Int
    BY <1>1, GeometryAssumption
  <2>3. PICK w \in Int, h \in Int :
          /\ w = Larger(MinW, start.w + d) /\ w >= MinW
          /\ h = Larger(MinH, start.h + e) /\ h >= MinH
    <3>1. \A a, b \in Int : Larger(a, b) \in Int /\ Larger(a, b) >= a
      BY DEF Larger
    <3>2. start.w + d \in Int /\ start.h + e \in Int
      BY <2>2
    <3> QED BY <3>1, <3>2, SizesAreInts
  <2>4. PICK x \in Int, y \in Int :
          /\ x = IF c.left THEN start.x + start.w - w ELSE start.x
          /\ y = IF c.top THEN start.y + start.h - h ELSE start.y
    BY <2>2, <2>3
  <2>5. Begin("ui", "guard", "normal", R(x, y, w, h), "rest")
    BY <2>1, <2>3, <2>4
  <2>6. R(x, y, w, h) \in Rect /\ R(x, y, w, h).w = w /\ R(x, y, w, h).h = h
    OBVIOUS
  <2>7. mouse = "resize" /\ UNCHANGED <<mouse, start, snapped, crossed>>
    BY <1>11 DEF Resize
  <2> HIDE DEF Rect, R
  <2> QED BY <1>1, <2>3, <2>5, <2>6, <2>7, QuietBegins
<1>12. CASE ReleaseEdge
  <2>1. /\ Begin("ui", "ask", "normal", geom, "rest") /\ start' = Empty /\ mouse' = "up"
        /\ UNCHANGED <<snapped, crossed>>
    BY <1>12 DEF ReleaseEdge
  <2> HIDE DEF Rect
  <2> QED BY <1>1, <2>1, QuietBegins
<1>13. CASE ToggleMaximize
  BY <1>1, <1>3, <1>4, <1>5, <1>13 DEF ToggleMaximize
<1>14. CASE Shortcut
  <2>1. Whole("ui") /\ UNCHANGED <<mouse, start, snapped>>
    BY <1>14 DEF Shortcut
  <2>2. CASE \E s \in {"half_left", "half_right", "maximized"} :
               Snap("ui", s, Empty) \/ Snap("ui", s, SlotRect(s))
    BY <1>1, <1>3, <1>4, <2>1, <2>2
  <2>3. CASE Unsnap("ui", "rest")
    BY <1>5, <2>1, <2>3
  <2> QED BY <1>14, <2>2, <2>3 DEF Shortcut
<1>15. CASE UNCHANGED geometryVars
  BY <1>15 DEF geometryVars, GeometryInv, GeometryTypeOK, Hands, BoxOK, HandOK, Reach, Within,
            Story, Agree, Told, Chg
<1> QED
  BY <1>6, <1>7, <1>8, <1>9, <1>10, <1>11, <1>12, <1>13, <1>14, <1>15, WritingStep, SettingStep,
     GeomStep, ReleaseSteps DEF GeometryNext

LEMMA GeometryInvariant == GeometrySpec => []GeometryInv
<1> QED BY InitGeometry, NextGeometry, PTL DEF GeometrySpec

\* Between two events of the interface the window can be reached with the mouse, except while
\* one of its edges is dragged and after a restoration past the gatekeeper; and the slot and the
\* state of the snap controller agree once nothing is being changed, unless two changes have
\* overlapped: with the two threads interleaved at every access, for every workspace that is
\* large enough to hold the strip that must stay inside (request_geometry, snap_controller.py).
THEOREM GeometryAlwaysSound == GeometrySpec => []GeometrySound
<1>1. GeometryInv => GeometrySound
  <2> SUFFICES ASSUME GeometryInv PROVE GeometrySound
    OBVIOUS
  <2>1. StaysReachable
    BY DEF GeometryInv, Reach, StaysReachable, At
  <2>2. SlotTellsState
    <3>1. \A t \in Thread : Changing(t) <=> Chg(doing[t])
      BY HandOf
    <3> QED BY <3>1 DEF GeometryInv, Story, Agree, SlotTellsState, Thread
  <2> QED BY <2>1, <2>2 DEF GeometrySound
<1> QED BY <1>1, GeometryInvariant, PTL

HIDE DEF Rect, R

-----------------------------------------------------------------------------
(* PART THREE: the bridge                                                  *)

\* What may be on the wire, and the types of the rest.
PacketSet == [type: {"HANDSHAKE", "CALL", "RET"}, id: Id, ts: 0..MaxTime]
Peer(e) == IF e = "host" THEN "app" ELSE "host"
\* The calls an end has made, and the packets on their way to an end.
Made(e) == {<<e, n>> : n \in 1..made[e]}
Pk(e) == ToSet(pipe[e]) \cup ToSet(queue[e])

\* No packet with this number is accepted any more: each is stale, or remembered as long as
\* it is not.
Spent(pk, sn, t, i) ==
  \A p \in pk : p.id = i => p.ts + 1 < t \/ \E s \in sn : s.id = i /\ p.ts <= s.at

WireTyped ==
  /\ now \in 0..MaxTime
  /\ pipe \in [End -> Seq(PacketSet)] /\ queue \in [End -> Seq(PacketSet)]
  /\ counted \in [End -> 0..(RateLimit + 1)] /\ seen \in [End -> SUBSET [id: Id, at: Nat]]
  /\ \A e \in End : Len(queue[e]) <= QueueCap
BooksTyped ==
  /\ made \in [End -> Nat] /\ repeats \in Nat /\ made["host"] + made["app"] + repeats <= MaxSent
  /\ ran \in [Id -> Nat] /\ calledback \in [Id -> Nat]
  /\ outcome \in [Id -> {"none", "main", "own", "TIMEOUT"}]
EngineTyped ==
  /\ commands \in Seq(Id) /\ Len(commands) <= CommandCap
  /\ at \in {"idle", "draining", "serving", "method"} /\ (at = "method" <=> method # NoId)
  /\ asking \in [Asker -> [id: Id \cup {NoId}, since: Nat]]
HandTyped == handshake_done \in BOOLEAN

\* A call bears the number of one that was made, an answer of one that was carried out.
PktOK ==
  \A e \in End : \A p \in Pk(e) :
    /\ p.ts <= now
    /\ p.type = "HANDSHAKE" => e = "host"
    /\ p.type = "CALL" => p.id \in Made(Peer(e))
    /\ p.type = "RET" => ran[p.id] > 0
\* What ran, what waits and what is in hand are calls that were made.
Books ==
  /\ \A i \in Id : (ran[i] > 0 => i \in Made("host") \cup Made("app")) /\ (calledback[i] > 0 => i \in Made("host"))
  /\ pending_calls \subseteq Made("host") /\ ToSet(commands) \subseteq Made("host")
  /\ method # NoId => method \in Made("host") /\ ran[method] > 0
  /\ \A r \in responses : r.id \in Made("app")
  /\ \A a \in Asker : asking[a].id \in Made("app") \cup {NoId}
\* A callback that has run is not expected again, and a queued call has not run.
Once ==
  /\ \A i \in Id : ran[i] <= 1 /\ calledback[i] <= 1 /\ (calledback[i] > 0 => i \notin pending_calls)
  /\ IsInjective(commands) /\ \A i \in ToSet(commands) : ran[i] = 0
\* What has run, or waits in the engine's queue, is not accepted again.
Remembers ==
  /\ \A i \in Made("app") : ran[i] > 0 => Spent(Pk("host"), seen["host"], now, i)
  /\ \A i \in Made("host") : ran[i] > 0 \/ i \in ToSet(commands) => Spent(Pk("app"), seen["app"], now, i)
\* Callbacks and answers come from calls that were carried out.
Real ==
  /\ \A i \in Id : calledback[i] > 0 \/ outcome[i] \in Asker => ran[i] > 0
  /\ \A i \in Id : [id |-> i, has |-> TRUE] \in responses => ran[i] > 0
\* A method that asks keeps the main thread, which alone would bring it the answer.
MainWaits ==
  /\ asking["main"] # Nobody => at = "method" /\ [id |-> asking["main"].id, has |-> TRUE] \notin responses
  /\ MethodsAskInVain
  /\ \A r \in responses : r \in [id: Id, has: BOOLEAN]

BridgeInv ==
  /\ WireTyped /\ BooksTyped /\ EngineTyped /\ HandTyped
  /\ PktOK /\ Books /\ Once /\ Remembers /\ Real /\ MainWaits /\ WaitsAreOwned

-----------------------------------------------------------------------------
\* Numbers, and the sequences packets wait in.
LEMMA IdFacts ==
  /\ NoId \notin Id
  /\ \A e \in End, n \in 1..MaxSent : <<e, n>> \in Id
BY BridgeAssumption DEF Id, NoId, End

LEMMA MadeFacts ==
  ASSUME BooksTyped
  PROVE  /\ \A e \in End : Made(e) \subseteq Id
         /\ Made("host") \cap Made("app") = {}
         /\ \A e \in End : <<e, made[e] + 1>> \notin Made(e)
         /\ \A e \in End : <<e, made[e] + 1>> \notin Made(Peer(e))
<1>1. \A e \in End : made[e] \in Nat /\ made[e] <= MaxSent
  BY BridgeAssumption DEF BooksTyped, End
<1>2. \A e \in End : Made(e) \subseteq Id
  BY <1>1, BridgeAssumption, IdFacts DEF Made
<1>3. Made("host") \cap Made("app") = {}
  BY DEF Made
<1>4. \A e \in End : <<e, made[e] + 1>> \notin Made(e)
  BY <1>1 DEF Made
<1>5. \A e \in End : <<e, made[e] + 1>> \notin Made(Peer(e))
  BY DEF Made, Peer, End
<1> QED
  BY <1>2, <1>3, <1>4, <1>5

LEMMA Appends ==
  ASSUME NEW S, NEW q \in Seq(S), NEW w \in S
  PROVE  /\ Append(q, w) \in Seq(S) /\ ToSet(Append(q, w)) = ToSet(q) \cup {w}
         /\ Len(Append(q, w)) = Len(q) + 1
         /\ IsInjective(q) /\ w \notin ToSet(q) => IsInjective(Append(q, w))
<1> DEFINE a == Append(q, w)
<1>1. /\ a \in Seq(S) /\ DOMAIN a = 1..(Len(q) + 1) /\ DOMAIN q = 1..Len(q) /\ Len(q) \in Nat
      /\ a[Len(q) + 1] = w /\ (\A i \in 1..Len(q) : a[i] = q[i]) /\ Len(a) = Len(q) + 1
  BY AppendProperties, LenProperties
<1> HIDE DEF a
<1>2. ASSUME NEW v \in ToSet(a) PROVE v \in ToSet(q) \cup {w}
  <2>1. PICK i \in DOMAIN a : a[i] = v
    BY DEF ToSet
  <2> QED
    BY <1>1, <2>1 DEF ToSet
<1>3. ASSUME NEW v \in ToSet(q) PROVE v \in ToSet(a)
  <2>1. PICK i \in DOMAIN q : q[i] = v
    BY DEF ToSet
  <2>2. i \in DOMAIN a /\ a[i] = v
    BY <1>1, <2>1
  <2> QED
    BY <2>2 DEF ToSet
<1>4. w \in ToSet(a)
  <2>1. Len(q) + 1 \in DOMAIN a
    BY <1>1
  <2> QED
    BY <1>1, <2>1 DEF ToSet
<1>5. ToSet(a) = ToSet(q) \cup {w}
  BY <1>2, <1>3, <1>4
<1>6. ASSUME IsInjective(q), w \notin ToSet(q) PROVE IsInjective(a)
  <2>1. \A i \in 1..Len(q) : q[i] # w
    BY <1>1, <1>6 DEF ToSet
  <2>2. \A i, j \in 1..Len(q) : q[i] = q[j] => i = j
    BY <1>1, <1>6 DEF IsInjective
  <2>3. ASSUME NEW i \in DOMAIN a, NEW j \in DOMAIN a, a[i] = a[j] PROVE i = j
    BY <1>1, <2>1, <2>2, <2>3
  <2> QED
    BY <2>3 DEF IsInjective
<1> QED
  BY <1>1, <1>5, <1>6 DEF a

LEMMA Heads ==
  ASSUME NEW S, NEW q \in Seq(S), q # << >>
  PROVE  /\ Head(q) \in S /\ Head(q) \in ToSet(q) /\ Tail(q) \in Seq(S)
         /\ ToSet(Tail(q)) \subseteq ToSet(q) /\ Len(Tail(q)) = Len(q) - 1 /\ Len(q) \in Nat \ {0}
         /\ IsInjective(q) => IsInjective(Tail(q)) /\ Head(q) \notin ToSet(Tail(q))
<1> DEFINE t == Tail(q)
<1>1. /\ t \in Seq(S) /\ Len(t) = Len(q) - 1 /\ DOMAIN q = 1..Len(q) /\ Len(q) \in Nat \ {0}
      /\ DOMAIN t = 1..(Len(q) - 1) /\ (\A i \in 1..(Len(q) - 1) : t[i] = q[i + 1]) /\ Head(q) = q[1]
  BY HeadTailProperties, LenProperties, EmptySeq
<1> HIDE DEF t
<1>2. Head(q) \in S /\ Head(q) \in ToSet(q)
  BY <1>1, ElementOfSeq DEF ToSet
<1>3. \A i \in DOMAIN t : i + 1 \in DOMAIN q /\ t[i] = q[i + 1]
  BY <1>1
<1>4. ToSet(t) \subseteq ToSet(q)
  BY <1>3 DEF ToSet
<1>5. ASSUME IsInjective(q) PROVE IsInjective(t) /\ Head(q) \notin ToSet(t)
  <2>1. \A i, j \in 1..Len(q) : q[i] = q[j] => i = j
    BY <1>1, <1>5 DEF IsInjective
  <2>2. ASSUME NEW i \in DOMAIN t, NEW j \in DOMAIN t, t[i] = t[j] PROVE i = j
    BY <1>1, <2>1, <2>2
  <2>3. ASSUME NEW i \in DOMAIN t PROVE t[i] # q[1]
    BY <1>1, <2>1
  <2> QED
    BY <1>1, <2>2, <2>3 DEF IsInjective, ToSet
<1> QED
  BY <1>1, <1>2, <1>4, <1>5 DEF t

\* What is spent stays so: time goes on, packets go, and a number is only forgotten once its
\* packets are stale.
LEMMA SpentStays ==
  ASSUME NEW pk \in SUBSET PacketSet, NEW qk \in SUBSET pk, NEW sn \in SUBSET [id: Id, at: Nat], NEW sm,
         NEW t \in Nat, NEW u \in Nat, t <= u, NEW i, Spent(pk, sn, t, i),
         \A s \in sn : s \in sm \/ s.at + NonceLife < u
  PROVE  Spent(qk, sm, u, i)
<1> SUFFICES ASSUME NEW p \in qk, p.id = i PROVE p.ts + 1 < u \/ \E s \in sm : s.id = i /\ p.ts <= s.at
  BY DEF Spent
<1>0. p.ts \in Nat
  BY DEF PacketSet
<1>1. CASE p.ts + 1 < t
  BY <1>0, <1>1
<1>2. CASE \E s \in sn : s.id = i /\ p.ts <= s.at
  <2>1. PICK s \in sn : s.id = i /\ p.ts <= s.at
    BY <1>2
  <2>2. s.at \in Nat
    OBVIOUS
  <2>3. CASE s \in sm
    BY <2>1, <2>3
  <2>4. CASE s.at + NonceLife < u
    BY <1>0, <2>1, <2>2, <2>4, BridgeAssumption
  <2> QED
    BY <2>3, <2>4
<1> QED
  BY <1>1, <1>2 DEF Spent

LEMMA SpentByTaking ==
  ASSUME NEW pk, NEW sn, NEW t, NEW i, \A p \in pk : p.ts <= t, [id |-> i, at |-> t] \in sn
  PROVE  Spent(pk, sn, t, i)
BY DEF Spent

LEMMA SpentWith ==
  ASSUME NEW pk, NEW sn, NEW t, NEW i, Spent(pk, sn, t, i), NEW q, q.id # i, NEW qk, qk \subseteq pk \cup {q}
  PROVE  Spent(qk, sn, t, i)
BY DEF Spent

LEMMA SpentIsRefused ==
  ASSUME NEW e \in End, NEW p \in Pk(e), WireTyped, p = Head(queue[e]), Spent(Pk(e), seen[e], now, p.id),
         p \in PacketSet
  PROVE  ~ Accepted(e)
<1> SUFFICES ASSUME Fresh(p) PROVE \E s \in StillSeen(e) : s.id = p.id
  BY DEF Accepted
<1>1. p.ts \in Nat /\ now \in Nat /\ now <= p.ts + 1
  BY DEF Fresh, PacketSet, WireTyped
<1>2. PICK s \in seen[e] : s.id = p.id /\ p.ts <= s.at
  BY <1>1 DEF Spent
<1>3. s.at \in Nat
  BY DEF WireTyped
<1>4. now <= s.at + NonceLife
  BY <1>1, <1>2, <1>3, BridgeAssumption
<1> QED
  BY <1>2, <1>4 DEF StillSeen, Remembered

LEMMA PkTyped ==
  ASSUME WireTyped
  PROVE  \A e \in End : Pk(e) \subseteq PacketSet /\ pipe[e] \in Seq(PacketSet) /\ queue[e] \in Seq(PacketSet)
<1> SUFFICES ASSUME NEW e \in End PROVE Pk(e) \subseteq PacketSet /\ pipe[e] \in Seq(PacketSet) /\ queue[e] \in Seq(PacketSet)
  OBVIOUS
<1>1. pipe[e] \in Seq(PacketSet) /\ queue[e] \in Seq(PacketSet)
  BY DEF WireTyped
<1> HIDE DEF PacketSet
<1>2. ToSet(pipe[e]) \subseteq PacketSet /\ ToSet(queue[e]) \subseteq PacketSet
  BY <1>1 DEF ToSet
<1> QED
  BY <1>1, <1>2 DEF Pk

\* The memory of an end and what is on its way to it, in a step that runs nothing.
LEMMA RememberStep ==
  ASSUME WireTyped, WireTyped', BooksTyped, Remembers, now <= now',
         \A e \in End : \A s \in seen[e] : s \in seen'[e] \/ s.at + NonceLife < now',
         \A p \in Pk("host")' \ Pk("host") : p.id \notin Made("app"),
         \A p \in Pk("app")' \ Pk("app") : p.id \notin Made("host")
  PROVE  /\ \A i \in Made("app") : ran[i] > 0 => Spent(Pk("host")', seen'["host"], now', i)
         /\ \A i \in Made("host") : ran[i] > 0 \/ i \in ToSet(commands) => Spent(Pk("app")', seen'["app"], now', i)
<1>0. now \in Nat /\ now' \in Nat /\ "host" \in End /\ "app" \in End
  BY DEF WireTyped, End
<1>1. ASSUME NEW e \in End, NEW i, Spent(Pk(e), seen[e], now, i),
             \A p \in Pk(e)' \ Pk(e) : p.id # i
      PROVE  Spent(Pk(e)', seen'[e], now', i)
  <2> DEFINE pk == Pk(e)
             qk == Pk(e)' \cap Pk(e)
  <2>1. Pk(e) \in SUBSET PacketSet /\ seen[e] \in SUBSET [id: Id, at: Nat]
    BY PkTyped DEF WireTyped
  <2>2. qk \in SUBSET pk
    OBVIOUS
  <2>3. \A s \in seen[e] : s \in seen'[e] \/ s.at + NonceLife < now'
    OBVIOUS
  <2>4. Spent(qk, seen'[e], now', i)
    <3> HIDE DEF qk
    <3> QED
      BY <1>0, <1>1, <2>1, <2>2, <2>3, SpentStays
  <2> QED
    BY <1>1, <2>4 DEF Spent
<1>2. ASSUME NEW i \in Made("app"), ran[i] > 0 PROVE Spent(Pk("host")', seen'["host"], now', i)
  BY <1>0, <1>1, <1>2 DEF Remembers
<1>3. ASSUME NEW i \in Made("host"), ran[i] > 0 \/ i \in ToSet(commands)
      PROVE  Spent(Pk("app")', seen'["app"], now', i)
  BY <1>0, <1>1, <1>3 DEF Remembers
<1> QED
  BY <1>2, <1>3

\* get_message
LEMMA TakenFacts ==
  ASSUME WireTyped, NEW e \in End, Taken(e)
  PROVE  LET p == Head(queue[e]) IN
         /\ queue[e] # << >> /\ p \in PacketSet /\ p \in Pk(e)
         /\ queue' \in [End -> Seq(PacketSet)] /\ (\A x \in End : Len(queue'[x]) <= QueueCap)
         /\ \A x \in End : ToSet(queue'[x]) \subseteq ToSet(queue[x])
         /\ seen' \in [End -> SUBSET [id: Id, at: Nat]]
         /\ \A x \in End : \A s \in seen[x] : s \in seen'[x] \/ s.at + NonceLife < now
         /\ Accepted(e) => [id |-> p.id, at |-> now] \in seen'[e]
         /\ UNCHANGED <<now, counted, made, repeats>>
<1> DEFINE p == Head(queue[e])
<1>1. queue[e] # << >> /\ queue' = [queue EXCEPT ![e] = Tail(queue[e])] /\ UNCHANGED <<now, counted, made, repeats>>
  BY DEF Taken
<1>2. /\ queue \in [End -> Seq(PacketSet)] /\ queue[e] \in Seq(PacketSet) /\ now \in Nat
      /\ seen \in [End -> SUBSET [id: Id, at: Nat]] /\ \A x \in End : Len(queue[x]) <= QueueCap
  BY DEF WireTyped
<1>3. /\ p \in PacketSet /\ p \in ToSet(queue[e]) /\ Tail(queue[e]) \in Seq(PacketSet)
      /\ ToSet(Tail(queue[e])) \subseteq ToSet(queue[e]) /\ Len(Tail(queue[e])) = Len(queue[e]) - 1
      /\ Len(queue[e]) \in Nat
  <2> HIDE DEF PacketSet
  <2> QED
    BY <1>1, <1>2, Heads
<1>4. queue' \in [End -> Seq(PacketSet)]
  <2> HIDE DEF PacketSet
  <2> QED
    BY <1>1, <1>2, <1>3
<1>5. \A x \in End : queue'[x] = IF x = e THEN Tail(queue[e]) ELSE queue[x]
  <2> HIDE DEF PacketSet
  <2> QED
    BY <1>1, <1>2
<1>6. (\A x \in End : Len(queue'[x]) <= QueueCap) /\ \A x \in End : ToSet(queue'[x]) \subseteq ToSet(queue[x])
  <2> SUFFICES ASSUME NEW x \in End
               PROVE  Len(queue'[x]) <= QueueCap /\ ToSet(queue'[x]) \subseteq ToSet(queue[x])
    OBVIOUS
  <2>1. CASE x = e
    <3>1. queue'[x] = Tail(queue[e]) /\ Len(queue[e]) <= QueueCap
      BY <1>2, <1>5, <2>1
    <3>2. Len(queue'[x]) = Len(queue[e]) - 1 /\ ToSet(queue'[x]) \subseteq ToSet(queue[e])
      BY <1>3, <3>1
    <3> QED
      BY <1>3, <2>1, <3>1, <3>2, BridgeAssumption
  <2>2. CASE x # e
    <3>1. queue'[x] = queue[x]
      BY <1>5, <2>2
    <3> QED
      BY <1>2, <3>1
  <2> QED
    BY <2>1, <2>2
<1> DEFINE add == IF Accepted(e) THEN {[id |-> p.id, at |-> now]} ELSE {}
           kept == {s \in seen[e] : now <= s.at + NonceLife}
<1>7. add \subseteq [id: Id, at: Nat]
  BY <1>2, <1>3 DEF PacketSet
<1>8. \/ seen' = seen /\ ~ Fresh(p)
      \/ seen' = [seen EXCEPT ![e] = kept \cup add]
  BY DEF Taken, StillSeen, Remembered
<1>9. kept \subseteq [id: Id, at: Nat] /\ \A s \in seen[e] : s \in kept \/ s.at + NonceLife < now
  BY <1>2, BridgeAssumption
<1>10. Accepted(e) => Fresh(p) /\ [id |-> p.id, at |-> now] \in add
  BY DEF Accepted
<1> HIDE DEF p, add, kept
<1>11. seen' \in [End -> SUBSET [id: Id, at: Nat]]
  BY <1>2, <1>7, <1>8, <1>9
<1>12. \A x \in End : \A s \in seen[x] : s \in seen'[x] \/ s.at + NonceLife < now
  BY <1>2, <1>8, <1>9
<1>13. Accepted(e) => [id |-> p.id, at |-> now] \in seen'[e]
  BY <1>2, <1>8, <1>10
<1> QED
  BY <1>1, <1>3, <1>4, <1>6, <1>11, <1>12, <1>13 DEF p, Pk

LEMMA PktStays ==
  ASSUME PktOK, now <= now', now \in Nat, now' \in Nat, WireTyped,
         \A e \in End : Made(e) \subseteq Made(e)',
         \A i \in Id : ran[i] > 0 => ran'[i] > 0,
         \A e \in End : \A p \in Pk(e)' \ Pk(e) :
           /\ p.ts <= now'
           /\ p.type = "HANDSHAKE" => e = "host"
           /\ p.type = "CALL" => p.id \in Made(Peer(e))'
           /\ p.type = "RET" => ran'[p.id] > 0
  PROVE  PktOK'
<1> SUFFICES ASSUME NEW e \in End, NEW p \in Pk(e)', p \in Pk(e)
             PROVE  /\ p.ts <= now'
                    /\ p.type = "HANDSHAKE" => e = "host"
                    /\ p.type = "CALL" => p.id \in Made(Peer(e))'
                    /\ p.type = "RET" => ran'[p.id] > 0
  BY DEF PktOK
<1>1. p \in PacketSet
  BY PkTyped
<1>2. p.ts \in Nat /\ p.id \in Id
  BY <1>1 DEF PacketSet
<1>3. Peer(e) \in End
  BY DEF Peer, End
<1> QED
  BY <1>2, <1>3 DEF PktOK

\* The steps that neither run, nor make, nor answer a call.
LEMMA QuietStep ==
  ASSUME BridgeInv, WireTyped', BooksTyped', now <= now', seen' = seen,
         \A e \in End : Pk(e)' \subseteq Pk(e),
         UNCHANGED <<hostState, commands, method, responses, asking, outcome, ran, made>>,
         EngineTyped', at = "method" => at' = "method"
  PROVE  BridgeInv'
<1>1. now \in Nat /\ now' \in Nat /\ \A e \in End : Made(e)' = Made(e)
  BY DEF BridgeInv, WireTyped, Made
<1>2. UNCHANGED <<handshake_done, pending_calls, calledback>>
  BY DEF hostState
<1>3. PktOK'
  BY <1>1, PktStays DEF BridgeInv
<1>4. Books'
  BY <1>1, <1>2 DEF BridgeInv, Books, End
<1>5. Once'
  BY <1>2 DEF BridgeInv, Once
<1>6. Remembers'
  <2>1. /\ \A i \in Made("app") : ran[i] > 0 => Spent(Pk("host")', seen'["host"], now', i)
        /\ \A i \in Made("host") : ran[i] > 0 \/ i \in ToSet(commands) => Spent(Pk("app")', seen'["app"], now', i)
    BY RememberStep DEF BridgeInv, End
  <2>2. Made("app")' = Made("app") /\ Made("host")' = Made("host")
    BY <1>1 DEF End
  <2> QED
    BY <2>1, <2>2 DEF Remembers
<1>7. Real' /\ WaitsAreOwned'
  BY <1>2 DEF BridgeInv, Real, WaitsAreOwned
<1>8. MainWaits'
  BY DEF BridgeInv, MainWaits, MethodsAskInVain
<1>9. HandTyped'
  BY <1>2 DEF BridgeInv, HandTyped
<1> QED
  BY <1>3, <1>4, <1>5, <1>6, <1>7, <1>8, <1>9 DEF BridgeInv

LEMMA TimeSteps ==
  ASSUME BridgeInv, NEW e \in End, Tick \/ NewSecond(e)
  PROVE  BridgeInv'
<1>1. /\ UNCHANGED <<pipe, queue, seen, hostState, appState, ran, made, repeats>>
      /\ WireTyped /\ BooksTyped /\ EngineTyped
  BY DEF BridgeInv, Tick, NewSecond
<1>2. now \in 0..MaxTime /\ now' \in 0..MaxTime /\ now <= now'
  BY <1>1, BridgeAssumption DEF Tick, NewSecond, WireTyped
<1>3. counted' \in [End -> 0..(RateLimit + 1)]
  <2>1. counted \in [End -> 0..(RateLimit + 1)] /\ 0 \in 0..(RateLimit + 1)
    BY <1>1, BridgeAssumption DEF WireTyped
  <2>2. counted' = [x \in End |-> 0] \/ counted' = [counted EXCEPT ![e] = 0]
    BY DEF Tick, NewSecond
  <2> QED
    BY <2>1, <2>2
<1>4. WireTyped'
  BY <1>1, <1>2, <1>3 DEF WireTyped
<1>5. \A x \in End : Pk(x)' = Pk(x)
  BY <1>1 DEF Pk
<1>6. UNCHANGED <<commands, at, method, responses, asking, outcome>>
  BY <1>1 DEF appState
<1>7. BooksTyped' /\ EngineTyped'
  BY <1>1, <1>6 DEF BooksTyped, EngineTyped, hostState
<1> QED
  BY <1>1, <1>2, <1>4, <1>5, <1>6, <1>7, QuietStep

LEMMA ListenStep ==
  ASSUME BridgeInv, NEW e \in End, Listen(e)
  PROVE  BridgeInv'
<1>1. /\ UNCHANGED <<now, seen, hostState, appState, ran, made, repeats>> /\ pipe[e] # << >>
      /\ WireTyped /\ BooksTyped /\ EngineTyped /\ pipe' = [pipe EXCEPT ![e] = Tail(pipe[e])]
      /\ counted' = [counted EXCEPT ![e] = IF counted[e] > RateLimit THEN counted[e] ELSE counted[e] + 1]
      /\ \/ queue' = queue
         \/ Len(queue[e]) < QueueCap /\ queue' = [queue EXCEPT ![e] = Append(queue[e], Head(pipe[e]))]
  <2>1. Len(queue[e]) \in Nat
    BY PkTyped, LenProperties DEF BridgeInv
  <2> QED
    BY <2>1, BridgeAssumption DEF BridgeInv, Listen
<1>2. counted' \in [End -> 0..(RateLimit + 1)]
  BY <1>1, BridgeAssumption DEF WireTyped
<1>3. pipe \in [End -> Seq(PacketSet)] /\ queue \in [End -> Seq(PacketSet)]
      /\ \A x \in End : Len(queue[x]) <= QueueCap
  BY <1>1 DEF WireTyped
<1> DEFINE h == Head(pipe[e])
<1>4. /\ h \in PacketSet /\ h \in ToSet(pipe[e]) /\ Tail(pipe[e]) \in Seq(PacketSet)
      /\ ToSet(Tail(pipe[e])) \subseteq ToSet(pipe[e])
  <2> HIDE DEF PacketSet
  <2> QED
    BY <1>1, <1>3, Heads
<1>5. /\ Append(queue[e], h) \in Seq(PacketSet) /\ ToSet(Append(queue[e], h)) = ToSet(queue[e]) \cup {h}
      /\ Len(Append(queue[e], h)) = Len(queue[e]) + 1 /\ Len(queue[e]) \in Nat
  <2> HIDE DEF PacketSet, h
  <2> QED
    BY <1>3, <1>4, Appends, LenProperties
<1> HIDE DEF h, PacketSet
<1>6. pipe' \in [End -> Seq(PacketSet)] /\ queue' \in [End -> Seq(PacketSet)]
  BY <1>1, <1>3, <1>4, <1>5 DEF h
<1>7. \A x \in End : /\ pipe'[x] = IF x = e THEN Tail(pipe[e]) ELSE pipe[x]
                     /\ queue'[x] = queue[x]
                        \/ (x = e /\ Len(queue[e]) < QueueCap /\ queue'[x] = Append(queue[e], h))
  BY <1>1, <1>3 DEF h
<1>8. \A x \in End : Len(queue'[x]) <= QueueCap
  <2> SUFFICES ASSUME NEW x \in End PROVE Len(queue'[x]) <= QueueCap
    OBVIOUS
  <2>1. CASE queue'[x] = queue[x]
    BY <1>3, <2>1
  <2>2. CASE x = e /\ Len(queue[e]) < QueueCap /\ queue'[x] = Append(queue[e], h)
    <3>1. Len(queue'[x]) = Len(queue[e]) + 1
      BY <1>5, <2>2
    <3> QED
      BY <1>5, <2>2, <3>1, BridgeAssumption
  <2> QED
    BY <1>7, <2>1, <2>2
<1>9. \A x \in End : Pk(x)' \subseteq Pk(x)
  <2> SUFFICES ASSUME NEW x \in End PROVE ToSet(pipe'[x]) \cup ToSet(queue'[x]) \subseteq ToSet(pipe[x]) \cup ToSet(queue[x])
    BY DEF Pk
  <2>1. ToSet(pipe'[x]) \subseteq ToSet(pipe[x])
    BY <1>4, <1>7
  <2>2. ToSet(queue'[x]) \subseteq ToSet(pipe[x]) \cup ToSet(queue[x])
    BY <1>4, <1>5, <1>7
  <2> QED
    BY <2>1, <2>2
<1>10. WireTyped'
  BY <1>1, <1>2, <1>6, <1>8 DEF WireTyped
<1>11. UNCHANGED <<commands, at, method, responses, asking, outcome>>
  BY <1>1 DEF appState
<1>12. BooksTyped' /\ EngineTyped'
  BY <1>1, <1>11 DEF BooksTyped, EngineTyped, hostState
<1>13. now <= now'
  BY <1>1 DEF WireTyped
<1> QED
  BY <1>1, <1>9, <1>10, <1>11, <1>12, <1>13, QuietStep

LEMMA PacketTyped ==
  ASSUME WireTyped, NEW type \in {"HANDSHAKE", "CALL", "RET"}, NEW id \in Id
  PROVE  /\ Packet(type, id) \in PacketSet /\ Packet(type, id).type = type /\ Packet(type, id).id = id
         /\ Packet(type, id).ts = now
BY DEF Packet, PacketSet, WireTyped

LEMMA SentFacts ==
  ASSUME WireTyped, NEW e \in End, NEW p \in PacketSet, pipe' = Sent(e, p)
  PROVE  /\ pipe' \in [End -> Seq(PacketSet)]
         /\ \A x \in End : ToSet(pipe'[x]) = ToSet(pipe[x]) \cup (IF x = e THEN {p} ELSE {})
<1> HIDE DEF PacketSet
<1>1. pipe \in [End -> Seq(PacketSet)]
  BY DEF WireTyped
<1>2. Append(pipe[e], p) \in Seq(PacketSet) /\ ToSet(Append(pipe[e], p)) = ToSet(pipe[e]) \cup {p}
  BY <1>1, Appends
<1>3. pipe' = [pipe EXCEPT ![e] = Append(pipe[e], p)]
  BY DEF Sent
<1>4. pipe' \in [End -> Seq(PacketSet)]
  BY <1>1, <1>2, <1>3
<1>5. \A x \in End : pipe'[x] = IF x = e THEN Append(pipe[e], p) ELSE pipe[x]
  BY <1>1, <1>3
<1> QED
  BY <1>2, <1>4, <1>5

\* A packet sent while the queues stay.
LEMMA SentWire ==
  ASSUME WireTyped, NEW e \in End, NEW p \in PacketSet, pipe' = Sent(e, p),
         UNCHANGED <<now, queue, counted, seen>>
  PROVE  WireTyped' /\ \A x \in End : Pk(x)' = Pk(x) \cup (IF x = e THEN {p} ELSE {})
<1>1. /\ pipe' \in [End -> Seq(PacketSet)]
      /\ \A x \in End : ToSet(pipe'[x]) = ToSet(pipe[x]) \cup (IF x = e THEN {p} ELSE {})
  BY SentFacts
<1>2. WireTyped'
  BY <1>1 DEF WireTyped
<1> QED
  BY <1>1, <1>2 DEF Pk

LEMMA RepeatStep ==
  ASSUME BridgeInv, NEW e \in End, Repeat(e)
  PROVE  BridgeInv'
<1>1. /\ WireTyped /\ BooksTyped /\ EngineTyped /\ queue[e] # << >> /\ pipe' = Sent(e, Head(queue[e]))
      /\ UNCHANGED <<now, queue, counted, seen, hostState, appState, ran, made>> /\ repeats' = repeats + 1
  BY DEF BridgeInv, Repeat
<1>2. Head(queue[e]) \in PacketSet /\ Head(queue[e]) \in Pk(e)
  <2> HIDE DEF PacketSet
  <2>1. queue[e] \in Seq(PacketSet)
    BY <1>1, PkTyped
  <2> QED
    BY <1>1, <2>1, Heads DEF Pk
<1>3. WireTyped' /\ \A x \in End : Pk(x)' = Pk(x) \cup (IF x = e THEN {Head(queue[e])} ELSE {})
  BY <1>1, <1>2, SentWire
<1>4. \A x \in End : Pk(x)' \subseteq Pk(x)
  BY <1>2, <1>3
<1>5. UNCHANGED <<commands, at, method, responses, asking, outcome>>
  BY <1>1 DEF appState
<1>6. BooksTyped'
  <2>1. made["host"] + made["app"] + repeats < MaxSent
    BY DEF Repeat, Bounded
  <2>2. made["host"] \in Nat /\ made["app"] \in Nat /\ repeats \in Nat
    BY <1>1 DEF BooksTyped, End
  <2>3. repeats' \in Nat /\ made["host"] + made["app"] + repeats' <= MaxSent
    BY <1>1, <2>1, <2>2, BridgeAssumption
  <2> QED
    BY <1>1, <1>5, <2>3 DEF BooksTyped, hostState
<1>7. EngineTyped'
  BY <1>1, <1>5 DEF EngineTyped
<1>8. now <= now'
  BY <1>1 DEF WireTyped
<1> QED
  BY <1>1, <1>3, <1>4, <1>5, <1>6, <1>7, <1>8, QuietStep

LEMMA TurnStep ==
  ASSUME BridgeInv, TimerFires \/ DrainEnds
  PROVE  BridgeInv'
<1>1. /\ UNCHANGED <<now, transport, hostState, commands, method, responses, asking, outcome, ran,
                     made, repeats>>
      /\ WireTyped /\ BooksTyped /\ EngineTyped /\ at \in {"idle", "draining"} /\ at' \in {"draining", "serving"}
  BY DEF BridgeInv, TimerFires, DrainEnds
<1>2. UNCHANGED <<pipe, queue, counted, seen, calledback>>
  BY <1>1 DEF transport, hostState
<1>3. \A x \in End : Pk(x)' \subseteq Pk(x)
  BY <1>2 DEF Pk
<1>4. WireTyped' /\ BooksTyped'
  BY <1>1, <1>2 DEF WireTyped, BooksTyped
<1>5. EngineTyped'
  BY <1>1 DEF EngineTyped
<1>6. now <= now'
  BY <1>1 DEF WireTyped
<1> QED
  BY <1>1, <1>2, <1>3, <1>4, <1>5, <1>6, QuietStep

LEMMA ServeStep ==
  ASSUME BridgeInv, Serve
  PROVE  BridgeInv'
<1>1. /\ UNCHANGED <<now, transport, hostState, responses, asking, outcome, made, repeats>>
      /\ WireTyped /\ BooksTyped /\ EngineTyped /\ at = "serving"
      /\ PktOK /\ Books /\ Once /\ Remembers /\ Real /\ MainWaits /\ WaitsAreOwned /\ HandTyped
  BY DEF BridgeInv, Serve
<1>2. UNCHANGED <<pipe, queue, counted, seen, pending_calls, calledback, handshake_done>>
  BY <1>1 DEF transport, hostState
<1>3. \A x \in End : Pk(x)' = Pk(x) /\ Made(x)' = Made(x)
  BY <1>1, <1>2 DEF Pk, Made
<1>4. WireTyped' /\ now <= now'
  BY <1>1, <1>2 DEF WireTyped
<1>5. CASE commands = << >>
  <2>1. at' = "idle" /\ UNCHANGED <<commands, method, ran>>
    BY <1>5 DEF Serve
  <2>2. BooksTyped' /\ EngineTyped'
    BY <1>1, <1>2, <2>1 DEF BooksTyped, EngineTyped
  <2> QED
    BY <1>1, <1>2, <1>3, <1>4, <2>1, <2>2, QuietStep
<1>6. CASE commands # << >>
  <2> DEFINE c == Head(commands)
  <2>1. /\ at' = "method" /\ method' = c /\ commands' = Tail(commands) /\ ran' = [ran EXCEPT ![c] = ran[c] + 1]
    BY <1>6 DEF Serve
  <2>2. /\ c \in Id /\ c \in ToSet(commands) /\ Tail(commands) \in Seq(Id)
        /\ ToSet(Tail(commands)) \subseteq ToSet(commands) /\ Len(Tail(commands)) = Len(commands) - 1
        /\ Len(commands) \in Nat /\ IsInjective(Tail(commands)) /\ c \notin ToSet(Tail(commands))
    BY <1>1, <1>6, Heads DEF EngineTyped, Once
  <2> HIDE DEF c
  <2>3. c \in Made("host") /\ ran[c] = 0 /\ c # NoId
    BY <1>1, <2>2, IdFacts DEF Books, Once
  <2>4. ran \in [Id -> Nat] /\ ran' \in [Id -> Nat] /\ ran'[c] = 1 /\ \A i \in Id : i # c => ran'[i] = ran[i]
    BY <1>1, <2>1, <2>2, <2>3 DEF BooksTyped
  <2>5. BooksTyped'
    BY <1>1, <1>2, <2>4 DEF BooksTyped
  <2>6. EngineTyped'
    <3>1. commands' \in Seq(Id) /\ method' # NoId
      BY <2>1, <2>2, <2>3
    <3>2. Len(commands') <= CommandCap
      BY <1>1, <2>1, <2>2, BridgeAssumption DEF EngineTyped
    <3>3. asking' = asking /\ at' = "method"
      BY <1>1, <2>1
    <3> QED
      BY <1>1, <3>1, <3>2, <3>3 DEF EngineTyped
  <2>7. PktOK'
    BY <1>1, <1>3, <1>4, <2>4, PktStays DEF WireTyped
  <2>8. Books'
    BY <1>1, <1>2, <1>3, <2>1, <2>2, <2>3, <2>4 DEF Books, End
  <2>9. Once'
    BY <1>1, <1>2, <2>1, <2>2, <2>4 DEF Once
  <2>10. Remembers'
    <3>1. /\ \A i \in Made("app") : ran[i] > 0 => Spent(Pk("host")', seen'["host"], now', i)
          /\ \A i \in Made("host") : ran[i] > 0 \/ i \in ToSet(commands) => Spent(Pk("app")', seen'["app"], now', i)
      BY <1>1, <1>2, <1>3, <1>4, RememberStep DEF End
    <3>2. ASSUME NEW i \in Made("app"), ran'[i] > 0 PROVE Spent(Pk("host")', seen'["host"], now', i)
      <4>1. i # c /\ i \in Id
        BY <1>1, <2>3, <3>2, MadeFacts DEF End
      <4> QED
        BY <2>4, <3>1, <3>2, <4>1
    <3>3. ASSUME NEW i \in Made("host"), ran'[i] > 0 \/ i \in ToSet(commands') PROVE Spent(Pk("app")', seen'["app"], now', i)
      <4>1. i \in Id
        BY <1>1, MadeFacts DEF End
      <4>2. ran[i] > 0 \/ i \in ToSet(commands)
        BY <2>1, <2>2, <2>4, <3>3, <4>1
      <4> QED
        BY <3>1, <4>2
    <3>4. Made("app")' = Made("app") /\ Made("host")' = Made("host")
      BY <1>3 DEF End
    <3> QED
      BY <3>2, <3>3, <3>4 DEF Remembers
  <2>11. Real'
    BY <1>1, <1>2, <2>2, <2>4 DEF Real
  <2>12. MainWaits'
    BY <1>1, <2>1 DEF MainWaits, MethodsAskInVain
  <2>13. WaitsAreOwned' /\ HandTyped'
    BY <1>1, <1>2 DEF WaitsAreOwned, HandTyped
  <2> QED
    BY <1>4, <2>5, <2>6, <2>7, <2>8, <2>9, <2>10, <2>11, <2>12, <2>13 DEF BridgeInv
<1> QED
  BY <1>5, <1>6

LEMMA AnswerStep ==
  ASSUME BridgeInv, Answer
  PROVE  BridgeInv'
<1> DEFINE p == Packet("RET", method)
<1>1. /\ WireTyped /\ BooksTyped /\ EngineTyped
      /\ PktOK /\ Books /\ Once /\ Remembers /\ Real /\ MainWaits /\ WaitsAreOwned /\ HandTyped
      /\ pipe' = Sent("host", p) /\ at' = "serving" /\ method' = NoId
      /\ UNCHANGED <<now, queue, counted, seen, hostState, commands, responses, asking, outcome, ran, made, repeats>>
      /\ at = "method" /\ asking["main"] = Nobody
  BY DEF BridgeInv, Answer, InMethod
<1>2. UNCHANGED <<pending_calls, calledback, handshake_done>>
  BY <1>1 DEF hostState
<1>3. method \in Made("host") /\ ran[method] > 0 /\ method \in Id
  BY <1>1, MadeFacts DEF EngineTyped, Books, End
<1>4. p \in PacketSet /\ p.type = "RET" /\ p.id = method /\ p.ts = now
  BY <1>1, <1>3, PacketTyped
<1> HIDE DEF p
<1>5. WireTyped' /\ \A x \in End : Pk(x)' = Pk(x) \cup (IF x = "host" THEN {p} ELSE {})
  BY <1>1, <1>4, SentWire DEF End
<1>6. \A x \in End : Made(x)' = Made(x)
  BY <1>1 DEF Made
<1>7. BooksTyped' /\ EngineTyped'
  BY <1>1, <1>2 DEF BooksTyped, EngineTyped
<1>8. now \in Nat /\ now' = now
  BY <1>1 DEF WireTyped
<1>9. PktOK'
  <2>1. \A e \in End : \A q \in Pk(e)' \ Pk(e) : q = p
    BY <1>5
  <2> QED
    BY <1>1, <1>3, <1>4, <1>6, <1>8, <2>1, PktStays
<1>10. Books'
  BY <1>1, <1>2, <1>6 DEF Books, End
<1>11. Once'
  BY <1>1, <1>2 DEF Once
<1>12. Remembers'
  <2>1. method \notin Made("app")
    BY <1>1, <1>3, MadeFacts
  <2>2. /\ \A q \in Pk("host")' \ Pk("host") : q.id \notin Made("app")
        /\ \A q \in Pk("app")' \ Pk("app") : q.id \notin Made("host")
    BY <1>4, <1>5, <2>1 DEF End
  <2>3. /\ \A i \in Made("app") : ran[i] > 0 => Spent(Pk("host")', seen'["host"], now', i)
        /\ \A i \in Made("host") : ran[i] > 0 \/ i \in ToSet(commands) => Spent(Pk("app")', seen'["app"], now', i)
    BY <1>1, <1>5, <1>8, <2>2, RememberStep
  <2>4. Made("app")' = Made("app") /\ Made("host")' = Made("host")
    BY <1>6 DEF End
  <2> QED
    BY <1>1, <2>3, <2>4 DEF Remembers
<1>13. Real' /\ WaitsAreOwned' /\ HandTyped'
  BY <1>1, <1>2 DEF Real, WaitsAreOwned, HandTyped
<1>14. MainWaits'
  BY <1>1 DEF MainWaits, MethodsAskInVain
<1> QED
  BY <1>5, <1>7, <1>9, <1>10, <1>11, <1>12, <1>13, <1>14 DEF BridgeInv

\* Every call has a number of its own.
LEMMA NewCall ==
  ASSUME WireTyped, BooksTyped, NEW e \in End, Bounded, made' = [made EXCEPT ![e] = made[e] + 1], repeats' = repeats
  PROVE  LET id == <<e, made[e] + 1>> IN
         /\ id \in Id /\ id # NoId /\ id \notin Made("host") /\ id \notin Made("app")
         /\ made' \in [End -> Nat] /\ made'["host"] + made'["app"] + repeats' <= MaxSent
         /\ \A x \in End : Made(x)' = Made(x) \cup (IF x = e THEN {id} ELSE {})
<1>1. /\ made \in [End -> Nat] /\ made["host"] \in Nat /\ made["app"] \in Nat /\ repeats \in Nat
      /\ made["host"] + made["app"] + repeats < MaxSent /\ "host" \in End /\ "app" \in End
      /\ e \in {"host", "app"}
  BY DEF BooksTyped, Bounded, End
<1>2. /\ made' \in [End -> Nat] /\ \A x \in End : made'[x] = IF x = e THEN made[e] + 1 ELSE made[x]
  BY <1>1
<1>3. made'["host"] + made'["app"] + repeats' <= MaxSent
  <2>1. CASE e = "host"
    <3>1. made'["host"] = made["host"] + 1 /\ made'["app"] = made["app"]
      BY <1>1, <1>2, <2>1
    <3> QED
      BY <1>1, <3>1, BridgeAssumption
  <2>2. CASE e = "app"
    <3>1. made'["host"] = made["host"] /\ made'["app"] = made["app"] + 1
      BY <1>1, <1>2, <2>2
    <3> QED
      BY <1>1, <3>1, BridgeAssumption
  <2> QED
    BY <1>1, <2>1, <2>2
<1>4. made[e] + 1 \in 1..MaxSent
  BY <1>1, BridgeAssumption
<1>5. <<e, made[e] + 1>> \in Id /\ <<e, made[e] + 1>> # NoId
  BY <1>4, IdFacts
<1>6. <<e, made[e] + 1>> \notin Made("host") /\ <<e, made[e] + 1>> \notin Made("app")
  BY <1>1, MadeFacts DEF Peer
<1>7. \A x \in End : Made(x)' = Made(x) \cup (IF x = e THEN {<<e, made[e] + 1>>} ELSE {})
  <2> SUFFICES ASSUME NEW x \in End
               PROVE  {<<x, n>> : n \in 1..made'[x]}
                        = {<<x, n>> : n \in 1..made[x]} \cup (IF x = e THEN {<<e, made[e] + 1>>} ELSE {})
    BY DEF Made
  <2>1. CASE x = e
    <3>1. made[e] \in Nat /\ made'[x] = made[e] + 1
      BY <1>1, <1>2, <2>1
    <3>2. 1..(made[e] + 1) = 1..made[e] \cup {made[e] + 1}
      BY <3>1
    <3> QED
      BY <2>1, <3>1, <3>2
  <2>2. CASE x # e
    BY <1>2, <2>2
  <2> QED
    BY <2>1, <2>2
<1> QED
  BY <1>2, <1>3, <1>5, <1>6, <1>7

LEMMA CallRemoteStep ==
  ASSUME BridgeInv, CallRemote
  PROVE  BridgeInv'
<1> DEFINE id == <<"host", made["host"] + 1>>
           p == Packet("CALL", id)
<1>1. /\ WireTyped /\ BooksTyped /\ EngineTyped
      /\ PktOK /\ Books /\ Once /\ Remembers /\ Real /\ MainWaits /\ WaitsAreOwned /\ HandTyped
      /\ pipe' = Sent("app", p) /\ made' = [made EXCEPT !["host"] = made["host"] + 1] /\ Bounded
      /\ pending_calls' = pending_calls \cup {id}
      /\ UNCHANGED <<now, queue, counted, seen, handshake_done, calledback, appState, ran, repeats>>
      /\ "host" \in End /\ "app" \in End
  BY DEF BridgeInv, CallRemote, End
<1>2. UNCHANGED <<commands, at, method, responses, asking, outcome>>
  BY <1>1 DEF appState
<1>3. /\ id \in Id /\ id # NoId /\ id \notin Made("host") /\ id \notin Made("app")
      /\ made' \in [End -> Nat] /\ made'["host"] + made'["app"] + repeats' <= MaxSent
      /\ Made("host")' = Made("host") \cup {id} /\ Made("app")' = Made("app")
  BY <1>1, NewCall
<1> HIDE DEF id
<1>4. p \in PacketSet /\ p.type = "CALL" /\ p.id = id /\ p.ts = now
  BY <1>1, <1>3, PacketTyped
<1> HIDE DEF p
<1>5. WireTyped' /\ \A x \in End : Pk(x)' = Pk(x) \cup (IF x = "app" THEN {p} ELSE {})
  BY <1>1, <1>4, SentWire
<1>6. BooksTyped' /\ EngineTyped'
  BY <1>1, <1>2, <1>3 DEF BooksTyped, EngineTyped
<1>7. now \in Nat /\ now' = now
  BY <1>1 DEF WireTyped
<1>8. PktOK'
  <2>1. \A e \in End : \A q \in Pk(e)' \ Pk(e) : q = p /\ e = "app"
    BY <1>5
  <2>2. \A e \in End : Made(e) \subseteq Made(e)'
    BY <1>3 DEF End
  <2>3. Peer("app") = "host"
    BY DEF Peer
  <2> QED
    BY <1>1, <1>3, <1>4, <1>7, <2>1, <2>2, <2>3, PktStays
<1>9. Books'
  <2>1. /\ \A i \in Id : /\ ran'[i] > 0 => i \in Made("host")' \cup Made("app")'
                         /\ calledback'[i] > 0 => i \in Made("host")'
    BY <1>1, <1>3 DEF Books
  <2>2. pending_calls' \subseteq Made("host")' /\ ToSet(commands') \subseteq Made("host")'
    BY <1>1, <1>2, <1>3 DEF Books
  <2>3. method' # NoId => method' \in Made("host")' /\ ran'[method'] > 0
    BY <1>1, <1>2, <1>3 DEF Books
  <2>4. (\A r \in responses' : r.id \in Made("app")') /\ \A a \in Asker : asking'[a].id \in Made("app")' \cup {NoId}
    BY <1>1, <1>2, <1>3 DEF Books
  <2> QED
    BY <2>1, <2>2, <2>3, <2>4 DEF Books
<1>10. Once'
  <2>1. ~ (calledback[id] > 0)
    BY <1>1, <1>3 DEF Books
  <2> QED
    BY <1>1, <1>2, <2>1 DEF Once
<1>11. Remembers'
  <2>1. /\ \A q \in Pk("host")' \ Pk("host") : q.id \notin Made("app")
        /\ \A q \in Pk("app")' \ Pk("app") : q.id \notin Made("host")
    BY <1>1, <1>3, <1>4, <1>5
  <2>2. /\ \A i \in Made("app") : ran[i] > 0 => Spent(Pk("host")', seen'["host"], now', i)
        /\ \A i \in Made("host") : ran[i] > 0 \/ i \in ToSet(commands) => Spent(Pk("app")', seen'["app"], now', i)
    BY <1>1, <1>5, <1>7, <2>1, RememberStep
  <2>3. ~ (ran[id] > 0) /\ id \notin ToSet(commands)
    BY <1>1, <1>3 DEF Books
  <2>4. \A i \in Made("app")' : ran'[i] > 0 => Spent(Pk("host")', seen'["host"], now', i)
    BY <1>1, <1>3, <2>2
  <2>5. \A i \in Made("host")' : ran'[i] > 0 \/ i \in ToSet(commands') => Spent(Pk("app")', seen'["app"], now', i)
    BY <1>1, <1>2, <1>3, <2>2, <2>3
  <2> QED
    BY <2>4, <2>5 DEF Remembers
<1>12. Real' /\ WaitsAreOwned' /\ HandTyped'
  BY <1>1, <1>2 DEF Real, WaitsAreOwned, HandTyped
<1>13. MainWaits'
  BY <1>1, <1>2 DEF MainWaits, MethodsAskInVain
<1> QED
  BY <1>5, <1>6, <1>8, <1>9, <1>10, <1>11, <1>12, <1>13 DEF BridgeInv

LEMMA AskStep ==
  ASSUME BridgeInv, NEW a \in Asker, Ask(a)
  PROVE  BridgeInv'
<1> DEFINE id == <<"app", made["app"] + 1>>
           p == Packet("CALL", id)
           w == [id |-> id, since |-> now]
           r == [id |-> id, has |-> FALSE]
<1>1. /\ WireTyped /\ BooksTyped /\ EngineTyped
      /\ PktOK /\ Books /\ Once /\ Remembers /\ Real /\ MainWaits /\ WaitsAreOwned /\ HandTyped
      /\ pipe' = Sent("host", p) /\ made' = [made EXCEPT !["app"] = made["app"] + 1] /\ Bounded
      /\ responses' = responses \cup {r} /\ asking' = [asking EXCEPT ![a] = w]
      /\ UNCHANGED <<now, queue, counted, seen, hostState, commands, at, method, outcome, ran, repeats>>
      /\ "host" \in End /\ "app" \in End
  BY DEF BridgeInv, Ask, End
<1>0. asking[a] = Nobody /\ (a = "main" => at = "method")
  BY DEF Ask, InMethod, Asker
<1>2. UNCHANGED <<handshake_done, pending_calls, calledback>>
  BY <1>1 DEF hostState
<1>3. /\ id \in Id /\ id # NoId /\ id \notin Made("host") /\ id \notin Made("app")
      /\ made' \in [End -> Nat] /\ made'["host"] + made'["app"] + repeats' <= MaxSent
      /\ Made("app")' = Made("app") \cup {id} /\ Made("host")' = Made("host")
  BY <1>1, NewCall
<1> HIDE DEF id
<1>4. p \in PacketSet /\ p.type = "CALL" /\ p.id = id /\ p.ts = now
  BY <1>1, <1>3, PacketTyped
<1> HIDE DEF p
<1>5. WireTyped' /\ \A x \in End : Pk(x)' = Pk(x) \cup (IF x = "host" THEN {p} ELSE {})
  BY <1>1, <1>4, SentWire
<1>7. now \in Nat /\ now' = now
  BY <1>1 DEF WireTyped
<1>20. w \in [id: Id \cup {NoId}, since: Nat] /\ w.id = id /\ r \in [id: Id, has: BOOLEAN] /\ r.id = id /\ r.has = FALSE
  BY <1>3, <1>7
<1> HIDE DEF w, r
<1>21. /\ asking' \in [Asker -> [id: Id \cup {NoId}, since: Nat]]
       /\ \A b \in Asker : asking'[b] = IF b = a THEN w ELSE asking[b]
  BY <1>1, <1>20 DEF EngineTyped
<1>6. BooksTyped' /\ EngineTyped'
  BY <1>1, <1>2, <1>3, <1>21 DEF BooksTyped, EngineTyped
<1>8. PktOK'
  <2>1. \A e \in End : \A q \in Pk(e)' \ Pk(e) : q = p /\ e = "host"
    BY <1>5
  <2>2. \A e \in End : Made(e) \subseteq Made(e)'
    BY <1>3 DEF End
  <2>3. Peer("host") = "app"
    BY DEF Peer
  <2> QED
    BY <1>1, <1>3, <1>4, <1>7, <2>1, <2>2, <2>3, PktStays
<1>9. Books'
  <2>1. /\ \A i \in Id : /\ ran'[i] > 0 => i \in Made("host")' \cup Made("app")'
                         /\ calledback'[i] > 0 => i \in Made("host")'
    BY <1>1, <1>2, <1>3 DEF Books
  <2>2. pending_calls' \subseteq Made("host")' /\ ToSet(commands') \subseteq Made("host")'
    BY <1>1, <1>2, <1>3 DEF Books
  <2>3. method' # NoId => method' \in Made("host")' /\ ran'[method'] > 0
    BY <1>1, <1>3 DEF Books
  <2>4. \A x \in responses' : x.id \in Made("app")'
    BY <1>1, <1>3, <1>20 DEF Books
  <2>5. \A b \in Asker : asking'[b].id \in Made("app")' \cup {NoId}
    BY <1>1, <1>3, <1>20, <1>21 DEF Books
  <2> QED
    BY <2>1, <2>2, <2>3, <2>4, <2>5 DEF Books
<1>10. Once'
  BY <1>1, <1>2 DEF Once
<1>11. Remembers'
  <2>1. /\ \A q \in Pk("host")' \ Pk("host") : q.id \notin Made("app")
        /\ \A q \in Pk("app")' \ Pk("app") : q.id \notin Made("host")
    BY <1>1, <1>3, <1>4, <1>5
  <2>2. /\ \A i \in Made("app") : ran[i] > 0 => Spent(Pk("host")', seen'["host"], now', i)
        /\ \A i \in Made("host") : ran[i] > 0 \/ i \in ToSet(commands) => Spent(Pk("app")', seen'["app"], now', i)
    BY <1>1, <1>5, <1>7, <2>1, RememberStep
  <2>3. ~ (ran[id] > 0)
    BY <1>1, <1>3 DEF Books
  <2>4. \A i \in Made("app")' : ran'[i] > 0 => Spent(Pk("host")', seen'["host"], now', i)
    BY <1>1, <1>3, <2>2, <2>3
  <2>5. \A i \in Made("host")' : ran'[i] > 0 \/ i \in ToSet(commands') => Spent(Pk("app")', seen'["app"], now', i)
    BY <1>1, <1>3, <2>2
  <2> QED
    BY <2>4, <2>5 DEF Remembers
<1>12. Real'
  <2>1. \A i \in Id : [id |-> i, has |-> TRUE] # r
    BY <1>20
  <2> QED
    BY <1>1, <1>2, <2>1 DEF Real
<1>13. MainWaits'
  <2>1. \A x \in responses' : x \in [id: Id, has: BOOLEAN]
    BY <1>1, <1>20 DEF MainWaits
  <2>2. \A i : [id |-> i, has |-> TRUE] # r
    BY <1>20
  <2>3. \A i : [id |-> i, has |-> TRUE] \in responses' => [id |-> i, has |-> TRUE] \in responses
    BY <1>1, <2>2
  <2>4. CASE a = "main"
    <3>1. at' = "method" /\ asking'["main"].id = id
      BY <1>0, <1>1, <1>20, <1>21, <2>4
    <3>2. [id |-> id, has |-> TRUE] \notin responses
      <4>1. [id |-> id, has |-> TRUE].id = id
        OBVIOUS
      <4> QED
        BY <1>1, <1>3, <4>1 DEF Books
    <3> QED
      BY <1>1, <2>1, <2>3, <3>1, <3>2 DEF MainWaits, MethodsAskInVain
  <2>5. CASE a # "main"
    <3>1. asking'["main"] = asking["main"] /\ at' = at
      BY <1>1, <1>21, <2>5 DEF Asker
    <3> QED
      BY <1>1, <2>1, <2>3, <3>1 DEF MainWaits, MethodsAskInVain
  <2> QED
    BY <2>4, <2>5
<1>14. WaitsAreOwned'
  <2> SUFFICES ASSUME NEW x \in responses' PROVE \E b \in Asker : asking'[b].id = x.id
    BY DEF WaitsAreOwned
  <2>1. CASE x = r
    BY <1>20, <1>21, <2>1
  <2>2. CASE x \in responses
    <3>1. PICK b \in Asker : asking[b].id = x.id
      BY <1>1, <2>2 DEF WaitsAreOwned
    <3>2. x.id \in Made("app") /\ Made("app") \subseteq Id
      BY <1>1, <2>2, MadeFacts DEF Books
    <3>3. b # a
      BY <1>0, <3>1, <3>2, IdFacts DEF Nobody
    <3> QED
      BY <1>21, <3>1, <3>3
  <2> QED
    BY <1>1, <2>1, <2>2
<1>15. HandTyped'
  BY <1>1, <1>2 DEF HandTyped
<1> QED
  BY <1>5, <1>6, <1>8, <1>9, <1>10, <1>11, <1>12, <1>13, <1>14, <1>15 DEF BridgeInv

LEMMA AskEndsStep ==
  ASSUME BridgeInv, NEW a \in Asker, GetsAnswer(a) \/ TimesOut(a)
  PROVE  BridgeInv'
<1> DEFINE id == asking[a].id
<1>1. /\ WireTyped /\ BooksTyped /\ EngineTyped
      /\ PktOK /\ Books /\ Once /\ Remembers /\ Real /\ MainWaits /\ WaitsAreOwned /\ HandTyped
  BY DEF BridgeInv
<1>2. PICK how \in {a, "TIMEOUT"} :
        /\ asking[a] # Nobody /\ asking' = [asking EXCEPT ![a] = Nobody]
        /\ outcome' = [outcome EXCEPT ![id] = how]
        /\ responses' = {r \in responses : r.id # id}
        /\ UNCHANGED <<now, transport, hostState, commands, at, method, ran, made, repeats>>
        /\ [id |-> id, has |-> how = a] \in responses
  <2>1. "TIMEOUT" # a
    BY DEF Asker
  <2>2. CASE GetsAnswer(a)
    <3>1. (a = a) = TRUE
      OBVIOUS
    <3> QED
      BY <2>2, <3>1 DEF GetsAnswer, AskEnds
  <2>3. CASE TimesOut(a)
    <3>1. ("TIMEOUT" = a) = FALSE
      BY <2>1
    <3> QED
      BY <2>3, <3>1 DEF TimesOut, AskEnds
  <2> QED
    BY <2>2, <2>3
<1>3. UNCHANGED <<pipe, queue, counted, seen, handshake_done, pending_calls, calledback>>
  BY <1>2 DEF transport, hostState
<1>4. id \in Made("app") /\ id \in Id
  <2>1. [id |-> id, has |-> how = a].id = id
    OBVIOUS
  <2>2. id \in Made("app")
    BY <1>1, <1>2, <2>1 DEF Books
  <2> QED
    BY <1>1, <2>2, MadeFacts DEF End
<1>5. how = a => ran[id] > 0
  <2> SUFFICES ASSUME how = a PROVE ran[id] > 0
    OBVIOUS
  <2>1. (how = a) = TRUE
    OBVIOUS
  <2>2. [id |-> id, has |-> TRUE] \in responses
    BY <1>2, <2>1
  <2> QED
    BY <1>1, <1>4, <2>2 DEF Real
<1>6. how # "main"
  <2> SUFFICES ASSUME how = "main" PROVE FALSE
    OBVIOUS
  <2>1. a = "main"
    OBVIOUS
  <2>2. (how = a) = TRUE
    BY <2>1
  <2> QED
    BY <1>1, <1>2, <2>1, <2>2 DEF MainWaits
<1> HIDE DEF id
<1>7. Nobody \in [id: Id \cup {NoId}, since: Nat] /\ Nobody.id = NoId
  BY DEF Nobody
<1>8. /\ asking' \in [Asker -> [id: Id \cup {NoId}, since: Nat]]
      /\ \A b \in Asker : asking'[b] = IF b = a THEN Nobody ELSE asking[b]
  BY <1>1, <1>2, <1>7 DEF EngineTyped
<1>9. /\ outcome' \in [Id -> {"none", "main", "own", "TIMEOUT"}]
      /\ \A i \in Id : outcome'[i] = IF i = id THEN how ELSE outcome[i]
  BY <1>1, <1>2, <1>4 DEF BooksTyped, Asker
<1>10. BooksTyped' /\ EngineTyped' /\ WireTyped'
  BY <1>1, <1>2, <1>3, <1>8, <1>9 DEF BooksTyped, EngineTyped, WireTyped
<1>11. \A x \in End : Pk(x)' = Pk(x) /\ Made(x)' = Made(x)
  BY <1>2, <1>3 DEF Pk, Made
<1>12. "host" \in End /\ "app" \in End
  BY DEF End
<1>13. PktOK'
  <2>1. now \in Nat /\ now' = now
    BY <1>1, <1>2 DEF WireTyped
  <2> QED
    BY <1>1, <1>2, <1>11, <2>1, PktStays
<1>14. Books'
  BY <1>1, <1>2, <1>3, <1>7, <1>8, <1>11, <1>12 DEF Books
<1>15. Once'
  BY <1>1, <1>2, <1>3 DEF Once
<1>16. Remembers'
  BY <1>1, <1>2, <1>3, <1>11, <1>12 DEF Remembers
<1>17. Real'
  BY <1>1, <1>2, <1>3, <1>5, <1>9 DEF Real, Asker
<1>18. MainWaits'
  <2>1. MethodsAskInVain'
    BY <1>1, <1>6, <1>9 DEF MainWaits, MethodsAskInVain
  <2>2. asking'["main"] # Nobody => asking'["main"] = asking["main"]
    BY <1>8 DEF Asker
  <2>3. responses' \subseteq responses /\ at' = at
    BY <1>2
  <2>4. /\ asking["main"] # Nobody => at = "method" /\ [id |-> asking["main"].id, has |-> TRUE] \notin responses
        /\ \A r \in responses : r \in [id: Id, has: BOOLEAN]
    BY <1>1 DEF MainWaits
  <2> QED
    BY <2>1, <2>2, <2>3, <2>4 DEF MainWaits
<1>19. WaitsAreOwned'
  <2> SUFFICES ASSUME NEW x \in responses' PROVE \E b \in Asker : asking'[b].id = x.id
    BY DEF WaitsAreOwned
  <2>1. x \in responses /\ x.id # id
    BY <1>2
  <2>2. PICK b \in Asker : asking[b].id = x.id
    BY <1>1, <2>1 DEF WaitsAreOwned
  <2>3. b # a
    BY <2>1, <2>2 DEF id
  <2> QED
    BY <1>8, <2>2, <2>3
<1>20. HandTyped'
  BY <1>1, <1>3 DEF HandTyped
<1> QED
  BY <1>10, <1>13, <1>14, <1>15, <1>16, <1>17, <1>18, <1>19, <1>20 DEF BridgeInv

\* A packet is taken, and something may be sent to an end: what holds of the wire.
LEMMA TakenWire ==
  ASSUME BridgeInv, NEW e \in End, Taken(e), NEW x \in End, NEW p \in PacketSet,
         pipe' = pipe \/ pipe' = Sent(x, p)
  PROVE  /\ WireTyped' /\ now' = now /\ now \in Nat
         /\ \A y \in End : Made(y)' = Made(y)
         /\ \A y \in End : \A q \in Pk(y)' \ Pk(y) : y = x /\ q = p /\ pipe' = Sent(x, p)
<1>1. WireTyped
  BY DEF BridgeInv
<1>2. /\ queue' \in [End -> Seq(PacketSet)] /\ (\A y \in End : Len(queue'[y]) <= QueueCap)
      /\ \A y \in End : ToSet(queue'[y]) \subseteq ToSet(queue[y])
      /\ seen' \in [End -> SUBSET [id: Id, at: Nat]]
      /\ UNCHANGED <<now, counted, made, repeats>>
  BY <1>1, TakenFacts
<1>3. /\ pipe' \in [End -> Seq(PacketSet)]
      /\ \A y \in End : \/ ToSet(pipe'[y]) = ToSet(pipe[y])
                        \/ pipe' = Sent(x, p) /\ y = x /\ ToSet(pipe'[y]) = ToSet(pipe[y]) \cup {p}
  <2>1. CASE pipe' = pipe
    BY <1>1, <2>1 DEF WireTyped
  <2>2. CASE pipe' = Sent(x, p)
    <3> HIDE DEF PacketSet
    <3>1. /\ pipe' \in [End -> Seq(PacketSet)]
          /\ \A y \in End : ToSet(pipe'[y]) = ToSet(pipe[y]) \cup (IF y = x THEN {p} ELSE {})
      BY <1>1, <2>2, SentFacts
    <3> QED
      BY <2>2, <3>1
  <2> QED
    BY <2>1, <2>2
<1>4. WireTyped'
  BY <1>1, <1>2, <1>3 DEF WireTyped
<1>5. now' = now /\ now \in Nat /\ \A y \in End : Made(y)' = Made(y)
  BY <1>1, <1>2 DEF WireTyped, Made
<1>6. ASSUME NEW y \in End, NEW q \in Pk(y)', q \notin Pk(y) PROVE y = x /\ q = p /\ pipe' = Sent(x, p)
  BY <1>2, <1>3, <1>6 DEF Pk
<1> QED
  BY <1>4, <1>5, <1>6

\* A packet that is taken was not taken before.
LEMMA FirstTime ==
  ASSUME BridgeInv, NEW e \in End, Taken(e), Accepted(e)
  PROVE  ~ Spent(Pk(e), seen[e], now, Head(queue[e]).id)
<1>1. WireTyped
  BY DEF BridgeInv
<1>2. Head(queue[e]) \in PacketSet /\ Head(queue[e]) \in Pk(e)
  BY <1>1, TakenFacts
<1> QED
  BY <1>1, <1>2, SpentIsRefused

LEMMA HostTakesStep ==
  ASSUME BridgeInv, HostTakes
  PROVE  BridgeInv'
<1> DEFINE p == Head(queue["host"])
<1>1. /\ WireTyped /\ BooksTyped /\ EngineTyped
      /\ PktOK /\ Books /\ Once /\ Remembers /\ Real /\ MainWaits /\ WaitsAreOwned /\ HandTyped
      /\ Taken("host") /\ UNCHANGED appState /\ "host" \in End /\ "app" \in End
  BY DEF BridgeInv, HostTakes, End
<1>2. UNCHANGED <<commands, at, method, responses, asking, outcome>>
  BY <1>1 DEF appState
<1>3. /\ p \in PacketSet /\ p \in Pk("host")
      /\ \A x \in End : \A s \in seen[x] : s \in seen'[x] \/ s.at + NonceLife < now
      /\ Accepted("host") => [id |-> p.id, at |-> now] \in seen'["host"]
      /\ UNCHANGED <<now, counted, made, repeats>>
  BY <1>1, TakenFacts
<1>4. p.id \in Id /\ p.type \in {"HANDSHAKE", "CALL", "RET"} /\ p.ts \in Nat
  BY <1>3 DEF PacketSet
<1>5. /\ p.type = "CALL" => p.id \in Made("app")
      /\ p.type = "RET" => ran[p.id] > 0
  BY <1>1, <1>3 DEF PktOK, Peer
<1>6. EngineTyped' /\ WaitsAreOwned' /\ MainWaits'
  BY <1>1, <1>2 DEF EngineTyped, WaitsAreOwned, MainWaits, MethodsAskInVain
<1> DEFINE q == Packet("RET", p.id)
<1>7. q \in PacketSet /\ q.type = "RET" /\ q.id = p.id /\ q.ts = now
  BY <1>1, <1>4, PacketTyped
<1>8. CASE pipe' = pipe /\ ran' = ran
  <2>1. /\ WireTyped' /\ now' = now /\ now \in Nat /\ \A y \in End : Made(y)' = Made(y)
        /\ \A y \in End : Pk(y)' \ Pk(y) = {}
    <3>1. ASSUME NEW y \in End PROVE Pk(y)' \subseteq Pk(y)
      BY <1>1, <1>8, TakenFacts DEF Pk
    <3>2. /\ WireTyped' /\ now' = now /\ now \in Nat /\ \A y \in End : Made(y)' = Made(y)
      BY <1>1, <1>7, <1>8, TakenWire
    <3> QED
      BY <3>1, <3>2
  <2>2. PktOK'
    BY <1>1, <1>8, <2>1, PktStays
  <2>3. Remembers'
    <3>1. /\ \A i \in Made("app") : ran[i] > 0 => Spent(Pk("host")', seen'["host"], now', i)
          /\ \A i \in Made("host") : ran[i] > 0 \/ i \in ToSet(commands) => Spent(Pk("app")', seen'["app"], now', i)
      BY <1>1, <1>3, <2>1, RememberStep
    <3> QED
      BY <1>1, <1>2, <1>8, <2>1, <3>1 DEF Remembers
  <2>4. CASE UNCHANGED <<pending_calls, calledback>> /\ handshake_done' \in BOOLEAN
    <3>1. BooksTyped' /\ Books' /\ Once' /\ Real' /\ HandTyped'
      <4>1. BooksTyped'
        BY <1>1, <1>2, <1>3, <1>8, <2>4 DEF BooksTyped
      <4>2. Books'
        BY <1>1, <1>2, <1>8, <2>1, <2>4 DEF Books
      <4>3. Once' /\ Real'
        BY <1>1, <1>2, <1>8, <2>4 DEF Once, Real
      <4>4. HandTyped'
        BY <2>4 DEF HandTyped
      <4> QED
        BY <4>1, <4>2, <4>3, <4>4
    <3> QED
      BY <1>6, <2>1, <2>2, <2>3, <3>1 DEF BridgeInv
  <2>5. CASE /\ p.type = "RET" /\ handshake_done' = handshake_done
             /\ pending_calls' = pending_calls \ {p.id}
             /\ calledback' = IF p.id \in pending_calls
                              THEN [calledback EXCEPT ![p.id] = calledback[p.id] + 1] ELSE calledback
    <3> HIDE DEF p
    <3>1. calledback \in [Id -> Nat] /\ ran[p.id] > 0
      BY <1>1, <1>5, <2>5 DEF BooksTyped
    <3>2. p.id \in pending_calls => calledback[p.id] = 0 /\ p.id \in Made("host")
      <4>1. p.id \in pending_calls => ~ (calledback[p.id] > 0) /\ p.id \in Made("host")
        BY <1>1, <1>4 DEF Once, Books
      <4> QED
        BY <1>4, <3>1, <4>1
    <3>3. /\ calledback' \in [Id -> Nat]
          /\ \A i \in Id : \/ calledback'[i] = calledback[i]
                           \/ i = p.id /\ p.id \in pending_calls /\ calledback'[i] = 1
      BY <1>4, <2>5, <3>1, <3>2
    <3>4. BooksTyped'
      BY <1>1, <1>2, <1>3, <1>8, <3>3 DEF BooksTyped
    <3>5. Books'
      <4>1. \A i \in Id : calledback'[i] > 0 => i \in Made("host")
        BY <1>1, <3>2, <3>3 DEF Books
      <4>2. pending_calls' \subseteq Made("host")
        BY <1>1, <2>5 DEF Books
      <4> QED
        BY <1>1, <1>2, <1>8, <2>1, <4>1, <4>2 DEF Books
    <3>6. Once'
      <4>1. \A i \in Id : calledback'[i] <= 1 /\ (calledback'[i] > 0 => i \notin pending_calls')
        BY <1>1, <2>5, <3>3 DEF Once
      <4> QED
        BY <1>1, <1>2, <1>8, <4>1 DEF Once
    <3>7. Real'
      BY <1>1, <1>2, <1>8, <3>1, <3>3 DEF Real
    <3>8. HandTyped'
      BY <1>1, <2>5 DEF HandTyped
    <3> QED
      BY <1>6, <2>1, <2>2, <2>3, <3>4, <3>5, <3>6, <3>7, <3>8 DEF BridgeInv
  <2>6. \/ UNCHANGED <<pending_calls, calledback>> /\ handshake_done' \in BOOLEAN
        \/ /\ p.type = "RET" /\ handshake_done' = handshake_done
           /\ pending_calls' = pending_calls \ {p.id}
           /\ calledback' = IF p.id \in pending_calls
                            THEN [calledback EXCEPT ![p.id] = calledback[p.id] + 1] ELSE calledback
        \/ p.type = "CALL" /\ ran' = [ran EXCEPT ![p.id] = ran[p.id] + 1]
    BY <1>1, <1>4 DEF HostTakes, hostState, HandTyped
  <2>7. ~ (ran' = [ran EXCEPT ![p.id] = ran[p.id] + 1])
    <3>1. ran \in [Id -> Nat]
      BY <1>1 DEF BooksTyped
    <3> HIDE DEF p
    <3>2. ran[p.id] \in Nat /\ [ran EXCEPT ![p.id] = ran[p.id] + 1][p.id] = ran[p.id] + 1
      BY <1>4, <3>1
    <3>3. ran[p.id] + 1 # ran[p.id]
      BY <3>2
    <3> QED
      BY <1>8, <3>2, <3>3
  <2> QED
    BY <2>4, <2>5, <2>6, <2>7
<1>9. CASE /\ Accepted("host") /\ p.type = "CALL" /\ handshake_done' = handshake_done
           /\ ran' = [ran EXCEPT ![p.id] = ran[p.id] + 1] /\ pipe' = Sent("app", q)
           /\ UNCHANGED <<pending_calls, calledback>>
  <2>1. p.id \in Made("app") /\ p.id \notin Made("host")
    BY <1>1, <1>5, <1>9, MadeFacts
  <2>2. ran[p.id] = 0
    <3>1. ~ (ran[p.id] > 0)
      BY <1>1, <1>9, <2>1, FirstTime DEF Remembers
    <3> QED
      BY <1>1, <1>4, <3>1 DEF BooksTyped
  <2>3. /\ WireTyped' /\ now' = now /\ now \in Nat /\ \A y \in End : Made(y)' = Made(y)
        /\ \A y \in End : \A z \in Pk(y)' \ Pk(y) : y = "app" /\ z = q
    BY <1>1, <1>7, <1>9, TakenWire
  <2> HIDE DEF p, q
  <2>4. ran \in [Id -> Nat] /\ ran' \in [Id -> Nat] /\ ran'[p.id] = 1 /\ \A i \in Id : i # p.id => ran'[i] = ran[i]
    BY <1>1, <1>4, <1>9, <2>2 DEF BooksTyped
  <2>5. BooksTyped'
    BY <1>1, <1>2, <1>3, <1>9, <2>4 DEF BooksTyped
  <2>6. PktOK'
    BY <1>1, <1>7, <2>3, <2>4, PktStays
  <2>7. Books'
    <3>1. \A i \in Id : ran'[i] > 0 => i \in Made("host") \cup Made("app")
      BY <1>1, <2>1, <2>4 DEF Books
    <3>2. method # NoId => ran'[method] > 0
      <4> SUFFICES ASSUME method # NoId PROVE ran'[method] > 0
        OBVIOUS
      <4>1. method \in Made("host") /\ ran[method] > 0 /\ method \in Id
        BY <1>1, MadeFacts DEF Books
      <4> QED
        BY <2>1, <2>4, <4>1
    <3> QED
      BY <1>1, <1>2, <1>9, <2>3, <3>1, <3>2 DEF Books
  <2>8. Once'
    <3>1. \A i \in Id : ran'[i] <= 1
      BY <1>1, <2>4 DEF Once
    <3>2. \A i \in ToSet(commands) : ran'[i] = 0
      <4> SUFFICES ASSUME NEW i \in ToSet(commands) PROVE ran'[i] = 0
        OBVIOUS
      <4>1. i \in Made("host") /\ i \in Id
        BY <1>1, MadeFacts DEF Books
      <4> QED
        BY <1>1, <2>1, <2>4, <4>1 DEF Once
    <3> QED
      BY <1>1, <1>2, <1>9, <3>1, <3>2 DEF Once
  <2>9. Remembers'
    <3>1. /\ \A z \in Pk("host")' \ Pk("host") : z.id \notin Made("app")
          /\ \A z \in Pk("app")' \ Pk("app") : z.id \notin Made("host")
      BY <1>1, <1>7, <2>1, <2>3
    <3>2. /\ \A i \in Made("app") : ran[i] > 0 => Spent(Pk("host")', seen'["host"], now', i)
          /\ \A i \in Made("host") : ran[i] > 0 \/ i \in ToSet(commands) => Spent(Pk("app")', seen'["app"], now', i)
      BY <1>1, <1>3, <2>3, <3>1, RememberStep
    <3>3. Spent(Pk("host")', seen'["host"], now', p.id)
      <4>1. \A z \in Pk("host")' : z.ts <= now'
        BY <1>1, <2>6 DEF PktOK
      <4>2. [id |-> p.id, at |-> now'] \in seen'["host"]
        BY <1>3, <1>9, <2>3 DEF p
      <4> QED
        BY <4>1, <4>2, SpentByTaking
    <3>4. \A i \in Made("app") : ran'[i] > 0 => Spent(Pk("host")', seen'["host"], now', i)
      <4>1. Made("app") \subseteq Id
        BY <1>1, MadeFacts
      <4> QED
        BY <2>4, <3>2, <3>3, <4>1
    <3>5. \A i \in Made("host") : ran'[i] > 0 \/ i \in ToSet(commands) => Spent(Pk("app")', seen'["app"], now', i)
      <4>1. Made("host") \subseteq Id
        BY <1>1, MadeFacts
      <4> QED
        BY <2>1, <2>4, <3>2, <4>1
    <3> QED
      BY <1>1, <1>2, <2>3, <3>4, <3>5 DEF Remembers
  <2>10. Real'
    BY <1>1, <1>2, <1>9, <2>4 DEF Real
  <2>11. HandTyped'
    BY <1>1, <1>9 DEF HandTyped
  <2> QED
    BY <1>6, <2>3, <2>5, <2>6, <2>7, <2>8, <2>9, <2>10, <2>11 DEF BridgeInv
<1>10. \/ pipe' = pipe /\ ran' = ran
       \/ /\ Accepted("host") /\ p.type = "CALL" /\ handshake_done' = handshake_done
          /\ ran' = [ran EXCEPT ![p.id] = ran[p.id] + 1] /\ pipe' = Sent("app", q)
          /\ UNCHANGED <<pending_calls, calledback>>
  BY DEF HostTakes
<1> QED
  BY <1>8, <1>9, <1>10

LEMMA DrainTakesStep ==
  ASSUME BridgeInv, DrainTakes
  PROVE  BridgeInv'
<1> DEFINE p == Head(queue["app"])
<1>1. /\ WireTyped /\ BooksTyped /\ EngineTyped
      /\ PktOK /\ Books /\ Once /\ Remembers /\ Real /\ MainWaits /\ WaitsAreOwned /\ HandTyped
      /\ Taken("app") /\ at = "draining" /\ "host" \in End /\ "app" \in End
      /\ UNCHANGED <<pipe, hostState, method, asking, outcome, ran>>
  BY DEF BridgeInv, DrainTakes, End
<1>2. UNCHANGED <<handshake_done, pending_calls, calledback>>
  BY <1>1 DEF hostState
<1>3. /\ p \in PacketSet /\ p \in Pk("app")
      /\ \A x \in End : \A s \in seen[x] : s \in seen'[x] \/ s.at + NonceLife < now
      /\ Accepted("app") => [id |-> p.id, at |-> now] \in seen'["app"]
      /\ UNCHANGED <<now, counted, made, repeats>>
  BY <1>1, TakenFacts
<1>4. p.id \in Id /\ p.type \in {"HANDSHAKE", "CALL", "RET"} /\ p.ts \in Nat
  BY <1>3 DEF PacketSet
<1>5. /\ p.type # "HANDSHAKE"
      /\ p.type = "CALL" => p.id \in Made("host")
      /\ p.type = "RET" => ran[p.id] > 0
  <2>1. "app" # "host"
    OBVIOUS
  <2> QED
    BY <1>1, <1>3, <2>1 DEF PktOK, Peer
<1>6. asking["main"] = Nobody /\ method = NoId
  BY <1>1 DEF MainWaits, EngineTyped
<1>7. /\ WireTyped' /\ now' = now /\ now \in Nat /\ \A y \in End : Made(y)' = Made(y)
      /\ \A y \in End : Pk(y)' \ Pk(y) = {}
  <2>1. ASSUME NEW y \in End PROVE Pk(y)' \subseteq Pk(y)
    BY <1>1, TakenFacts DEF Pk
  <2>2. WireTyped' /\ now' = now /\ now \in Nat /\ \A y \in End : Made(y)' = Made(y)
    BY <1>1, <1>3, TakenWire
  <2> QED
    BY <2>1, <2>2
<1>8. PktOK' /\ BooksTyped' /\ HandTyped'
  <2>1. PktOK'
    BY <1>1, <1>7, PktStays
  <2>2. BooksTyped' /\ HandTyped'
    BY <1>1, <1>2, <1>3 DEF BooksTyped, HandTyped
  <2> QED
    BY <2>1, <2>2
<1>9. /\ \A i \in Made("app") : ran[i] > 0 => Spent(Pk("host")', seen'["host"], now', i)
      /\ \A i \in Made("host") : ran[i] > 0 \/ i \in ToSet(commands) => Spent(Pk("app")', seen'["app"], now', i)
  BY <1>1, <1>3, <1>7, RememberStep
<1>10. CASE commands' = commands /\ responses' = responses /\ at' \in {"draining", "serving"}
  <2>1. EngineTyped'
    BY <1>1, <1>6, <1>10 DEF EngineTyped
  <2>2. Books' /\ Once'
    BY <1>1, <1>2, <1>7, <1>10 DEF Books, Once
  <2>3. Remembers'
    BY <1>1, <1>7, <1>9, <1>10 DEF Remembers
  <2>4. Real' /\ WaitsAreOwned'
    BY <1>1, <1>2, <1>10 DEF Real, WaitsAreOwned
  <2>5. MainWaits'
    BY <1>1, <1>6, <1>10 DEF MainWaits, MethodsAskInVain
  <2> QED
    BY <1>7, <1>8, <2>1, <2>2, <2>3, <2>4, <2>5 DEF BridgeInv
<1>11. CASE p.type = "RET" /\ responses' = Delivered(p.id) /\ commands' = commands /\ at' = at
  <2> HIDE DEF p
  <2>1. EngineTyped'
    BY <1>1, <1>11 DEF EngineTyped
  <2>2. ASSUME NEW r \in responses'
        PROVE  \E s \in responses : r.id = s.id /\ (r = s \/ s.id = p.id) /\ r \in [id: Id, has: BOOLEAN]
    <3>1. PICK s \in responses : r = IF s.id = p.id THEN [s EXCEPT !.has = TRUE] ELSE s
      BY <1>11, <2>2 DEF Delivered
    <3>2. s \in [id: Id, has: BOOLEAN]
      BY <1>1 DEF MainWaits
    <3>3. r.id = s.id /\ (r = s \/ s.id = p.id) /\ r \in [id: Id, has: BOOLEAN]
      BY <3>1, <3>2
    <3> QED
      BY <3>3
  <2>3. \A r \in responses' : r.id \in Made("app")
    BY <1>1, <2>2 DEF Books
  <2>4. Books' /\ Once'
    <3>1. Books'
      BY <1>1, <1>2, <1>7, <1>11, <2>3 DEF Books
    <3>2. Once'
      BY <1>1, <1>2, <1>11 DEF Once
    <3> QED
      BY <3>1, <3>2
  <2>5. Remembers'
    BY <1>1, <1>7, <1>9, <1>11 DEF Remembers
  <2>6. Real'
    <3>1. ASSUME NEW i \in Id, [id |-> i, has |-> TRUE] \in responses' PROVE ran[i] > 0
      <4>1. PICK s \in responses : i = s.id /\ ([id |-> i, has |-> TRUE] = s \/ s.id = p.id)
        BY <2>2, <3>1
      <4> QED
        BY <1>1, <1>5, <1>11, <4>1 DEF Real
    <3> QED
      BY <1>1, <1>2, <3>1 DEF Real
  <2>7. WaitsAreOwned'
    BY <1>1, <2>2 DEF WaitsAreOwned
  <2>8. MainWaits'
    <3>1. \A r \in responses' : r \in [id: Id, has: BOOLEAN]
      BY <2>2
    <3> QED
      BY <1>1, <1>6, <3>1 DEF MainWaits, MethodsAskInVain
  <2> QED
    BY <1>7, <1>8, <2>1, <2>4, <2>5, <2>6, <2>7, <2>8 DEF BridgeInv
<1>12. CASE /\ Accepted("app") /\ p.type = "CALL" /\ responses' = responses /\ at' = at
            /\ Len(commands) < CommandCap /\ commands' = Append(commands, p.id)
  <2>1. p.id \in Made("host") /\ ~ (ran[p.id] > 0) /\ p.id \notin ToSet(commands)
    BY <1>1, <1>5, <1>12, FirstTime DEF Remembers
  <2> HIDE DEF p
  <2>2. ran[p.id] = 0
    BY <1>1, <1>4, <2>1 DEF BooksTyped
  <2>3. /\ commands' \in Seq(Id) /\ ToSet(commands') = ToSet(commands) \cup {p.id}
        /\ Len(commands') = Len(commands) + 1 /\ IsInjective(commands') /\ Len(commands) \in Nat
    BY <1>1, <1>4, <1>12, <2>1, Appends, LenProperties DEF EngineTyped, Once
  <2>4. EngineTyped'
    <3>1. Len(commands') <= CommandCap
      BY <1>12, <2>3, BridgeAssumption
    <3> QED
      BY <1>1, <1>12, <2>3, <3>1 DEF EngineTyped
  <2>5. Books'
    <3>1. ToSet(commands') \subseteq Made("host")
      BY <1>1, <2>1, <2>3 DEF Books
    <3> QED
      BY <1>1, <1>2, <1>7, <1>12, <3>1 DEF Books
  <2>6. Once'
    BY <1>1, <1>2, <2>2, <2>3 DEF Once
  <2>7. Remembers'
    <3>1. Spent(Pk("app")', seen'["app"], now', p.id)
      <4>1. \A z \in Pk("app")' : z.ts <= now'
        BY <1>1, <1>8 DEF PktOK
      <4>2. [id |-> p.id, at |-> now'] \in seen'["app"]
        BY <1>3, <1>7, <1>12 DEF p
      <4> QED
        BY <4>1, <4>2, SpentByTaking
    <3> QED
      BY <1>1, <1>7, <1>9, <2>3, <3>1 DEF Remembers
  <2>8. Real' /\ WaitsAreOwned'
    BY <1>1, <1>2, <1>12 DEF Real, WaitsAreOwned
  <2>9. MainWaits'
    BY <1>1, <1>12 DEF MainWaits, MethodsAskInVain
  <2> QED
    BY <1>7, <1>8, <2>4, <2>5, <2>6, <2>7, <2>8, <2>9 DEF BridgeInv
<1>13. \/ commands' = commands /\ responses' = responses /\ at' \in {"draining", "serving"}
       \/ p.type = "RET" /\ responses' = Delivered(p.id) /\ commands' = commands /\ at' = at
       \/ /\ Accepted("app") /\ p.type = "CALL" /\ responses' = responses /\ at' = at
          /\ Len(commands) < CommandCap /\ commands' = Append(commands, p.id)
  BY <1>4, <1>5 DEF DrainTakes
<1> QED
  BY <1>10, <1>11, <1>12, <1>13

LEMMA BridgeInitInv ==
  ASSUME BridgeInit
  PROVE  BridgeInv
<1> DEFINE hello == Packet("HANDSHAKE", <<"hello", 0>>)
<1>1. now = 0 /\ "host" \in End /\ "app" \in End /\ <<"hello", 0>> \in Id /\ \A e \in End : e \in {"host", "app"}
  BY DEF BridgeInit, End, Id
<1>2. hello \in PacketSet /\ hello.type = "HANDSHAKE" /\ hello.ts = 0
  BY <1>1, BridgeAssumption DEF Packet, PacketSet
<1> HIDE DEF hello, PacketSet
<1>3. << >> \in Seq(PacketSet) /\ <<hello>> \in Seq(PacketSet) /\ Len(<< >>) = 0
      /\ ToSet(<< >>) = {} /\ ToSet(<<hello>>) = {hello} /\ << >> \in Seq(Id)
  BY <1>2, EmptySeq DEF ToSet
<1>4. pipe \in [End -> Seq(PacketSet)] /\ \A e \in End : pipe[e] = IF e = "host" THEN <<hello>> ELSE << >>
  BY <1>3 DEF BridgeInit, hello
<1>5. queue \in [End -> Seq(PacketSet)] /\ \A e \in End : queue[e] = << >>
  BY <1>3 DEF BridgeInit
<1>6. WireTyped
  <2>1. \A e \in End : Len(queue[e]) <= QueueCap
    BY <1>3, <1>5, BridgeAssumption
  <2>2. counted \in [End -> 0..(RateLimit + 1)] /\ seen \in [End -> SUBSET [id: Id, at: Nat]] /\ now \in 0..MaxTime
    BY <1>1, BridgeAssumption DEF BridgeInit
  <2> QED
    BY <1>4, <1>5, <2>1, <2>2 DEF WireTyped
<1>7. BooksTyped
  BY BridgeAssumption DEF BridgeInit, BooksTyped, End
<1>8. EngineTyped /\ HandTyped
  <2>1. Nobody \in [id: Id \cup {NoId}, since: Nat]
    BY DEF Nobody
  <2>2. asking \in [Asker -> [id: Id \cup {NoId}, since: Nat]]
    BY <2>1 DEF BridgeInit
  <2>3. commands \in Seq(Id) /\ Len(commands) <= CommandCap
    BY <1>3, BridgeAssumption DEF BridgeInit
  <2>4. at \in {"idle", "draining", "serving", "method"} /\ (at = "method" <=> method # NoId)
    BY DEF BridgeInit
  <2>5. HandTyped
    BY DEF BridgeInit, HandTyped
  <2> QED
    BY <2>2, <2>3, <2>4, <2>5 DEF EngineTyped
<1>9. \A e \in End : \A p \in Pk(e) : p = hello /\ e = "host"
  BY <1>3, <1>4, <1>5 DEF Pk
<1>10. PktOK
  BY <1>1, <1>2, <1>9 DEF PktOK
<1>11. Books
  BY <1>3 DEF BridgeInit, Books, Nobody
<1>12. Once
  <2>1. IsInjective(<< >>)
    BY DEF IsInjective
  <2> QED
    BY <1>3, <2>1 DEF BridgeInit, Once
<1>13. Remembers
  <2>1. \A i \in Made("app") \cup Made("host") : i \in Id
    BY <1>1, <1>7, MadeFacts
  <2> QED
    BY <1>3, <2>1 DEF BridgeInit, Remembers
<1>14. Real /\ MainWaits /\ WaitsAreOwned
  BY DEF BridgeInit, Real, MainWaits, WaitsAreOwned, Asker, MethodsAskInVain, Nobody
<1> QED
  BY <1>6, <1>7, <1>8, <1>10, <1>11, <1>12, <1>13, <1>14 DEF BridgeInv

LEMMA BridgeStays ==
  ASSUME BridgeInv, [BridgeNext]_bridgeVars
  PROVE  BridgeInv'
<1>1. CASE UNCHANGED bridgeVars
  <2>1. UNCHANGED <<now, pipe, queue, counted, seen, handshake_done, pending_calls, calledback,
                    commands, at, method, responses, asking, outcome, ran, made, repeats>>
    BY <1>1 DEF bridgeVars, transport, hostState, appState
  <2>2. \A x \in End : Pk(x)' \subseteq Pk(x)
    BY <2>1 DEF Pk
  <2>3. WireTyped' /\ BooksTyped' /\ EngineTyped' /\ now <= now'
    <3>1. WireTyped' /\ now \in 0..MaxTime
      BY <2>1 DEF BridgeInv, WireTyped
    <3>2. BooksTyped'
      BY <2>1 DEF BridgeInv, BooksTyped
    <3>3. EngineTyped'
      BY <2>1 DEF BridgeInv, EngineTyped
    <3>4. now <= now'
      BY <2>1, <3>1
    <3> QED
      BY <3>1, <3>2, <3>3, <3>4
  <2>4. UNCHANGED <<hostState, commands, method, responses, asking, outcome, ran, made>>
    BY <2>1 DEF hostState
  <2>5. seen' = seen /\ (at = "method" => at' = "method")
    BY <2>1
  <2>6. BridgeInv
    OBVIOUS
  <2> QED
    BY <2>2, <2>3, <2>4, <2>5, <2>6, QuietStep
<1>2. CASE BridgeNext
  <2>1. CASE Tick
    BY <2>1, TimeSteps DEF End
  <2>2. CASE CallRemote
    BY <2>2, CallRemoteStep
  <2>3. CASE HostTakes
    BY <2>3, HostTakesStep
  <2>4. CASE Main
    BY <2>4, TurnStep, DrainTakesStep, ServeStep, AnswerStep DEF Main
  <2>5. CASE \E e \in End : NewSecond(e) \/ Listen(e) \/ Repeat(e)
    BY <2>5, TimeSteps, ListenStep, RepeatStep
  <2>6. CASE \E a \in Asker : Ask(a) \/ GetsAnswer(a) \/ TimesOut(a)
    BY <2>6, AskStep, AskEndsStep
  <2> QED
    BY <1>2, <2>1, <2>2, <2>3, <2>4, <2>5, <2>6 DEF BridgeNext
<1> QED
  BY <1>1, <1>2

\* The engine's queue is full of calls that have not run, and the one in hand is another.
LEMMA Floods ==
  ASSUME BridgeInv
  PROVE  BlocksOnlyWhenFlooded
<1> DEFINE p == Head(queue["app"])
           open == {i \in Id : i[1] = "host" /\ i[2] <= made["host"] /\ ran[i] = 0}
<1> SUFFICES ASSUME at = "draining", Len(commands) = CommandCap, queue["app"] # << >>,
                    Accepted("app"), p.type = "CALL"
             PROVE  Cardinality(open) > CommandCap
  BY DEF BlocksOnlyWhenFlooded
<1>1. /\ WireTyped /\ BooksTyped /\ PktOK /\ Books /\ Once /\ Remembers /\ commands \in Seq(Id)
      /\ "host" \in End /\ "app" \in End
  BY DEF BridgeInv, EngineTyped, End
<1>2. p \in PacketSet /\ p \in Pk("app")
  <2> HIDE DEF PacketSet
  <2>1. queue["app"] \in Seq(PacketSet)
    BY <1>1, PkTyped
  <2> QED
    BY <2>1, Heads DEF Pk
<1>3. p.id \in Made("host")
  BY <1>1, <1>2 DEF PktOK, Peer
<1>4. ~ (ran[p.id] > 0) /\ p.id \notin ToSet(commands)
  BY <1>1, <1>2, <1>3, SpentIsRefused DEF Remembers
<1>5. ran[p.id] = 0
  <2>1. p.id \in Id
    BY <1>2 DEF PacketSet
  <2> QED
    BY <1>1, <1>4, <2>1 DEF BooksTyped
<1> HIDE DEF p
<1>6. \A i \in Made("host") : i[1] = "host" /\ i[2] <= made["host"] /\ i \in Id
  <2>1. made["host"] \in Nat
    BY <1>1 DEF BooksTyped
  <2> QED
    BY <1>1, <2>1, MadeFacts DEF Made
<1>7. ToSet(commands) \cup {p.id} \subseteq open
  BY <1>1, <1>3, <1>5, <1>6 DEF Books, Once
<1>8. IsFiniteSet(open)
  <2>1. IsFiniteSet(End)
    <3>1. IsFiniteSet({"host"}) /\ IsFiniteSet({"host"} \cup {"app"})
      BY FS_Singleton, FS_AddElement
    <3>2. End = {"host"} \cup {"app"}
      BY DEF End
    <3> QED
      BY <3>1, <3>2
  <2>2. IsFiniteSet(1..MaxSent)
    BY FS_Interval, BridgeAssumption
  <2>3. IsFiniteSet(Id)
    BY <2>1, <2>2, FS_Product, FS_AddElement DEF Id
  <2> QED
    BY <2>3, FS_Subset
<1> HIDE DEF open
<1>9. IsFiniteSet(ToSet(commands)) /\ Cardinality(ToSet(commands)) = Len(commands)
  <2>1. DOMAIN commands = 1..Len(commands) /\ Len(commands) \in Nat
    BY <1>1, LenProperties
  <2>2. commands \in [1..Len(commands) -> ToSet(commands)]
    BY <1>1, <2>1 DEF ToSet
  <2>3. commands \in Bijection(1..Len(commands), ToSet(commands))
    <3>1. IsInjective(commands)
      BY <1>1 DEF Once
    <3>2. \A v \in ToSet(commands) : \E i \in 1..Len(commands) : commands[i] = v
      BY <2>1 DEF ToSet
    <3> QED
      BY <2>2, <3>1, <3>2 DEF Bijection, Injection, Surjection
  <2>4. ExistsBijection(1..Len(commands), ToSet(commands))
    BY <2>3 DEF ExistsBijection
  <2>5. IsFiniteSet(1..Len(commands)) /\ Cardinality(1..Len(commands)) = Len(commands)
    BY <2>1, FS_Interval
  <2> QED
    BY <2>4, <2>5, FS_Bijection
<1>10. /\ IsFiniteSet(ToSet(commands) \cup {p.id})
       /\ Cardinality(ToSet(commands) \cup {p.id}) = CommandCap + 1
  BY <1>4, <1>9, FS_AddElement
<1>11. Cardinality(ToSet(commands) \cup {p.id}) <= Cardinality(open)
  BY <1>7, <1>8, FS_Subset
<1> QED
  BY <1>8, <1>10, <1>11, FS_CardinalityType, BridgeAssumption

LEMMA BridgeIsSound ==
  ASSUME BridgeInv
  PROVE  BridgeSound
<1>1. WireTyped /\ BooksTyped /\ EngineTyped /\ HandTyped /\ Books /\ Once /\ Real /\ MainWaits
  BY DEF BridgeInv
<1>2. BridgeTypeOK
  <2>1. pending_calls \subseteq Id
    BY <1>1, MadeFacts DEF Books, End
  <2> QED
    BY <1>1, <2>1 DEF BridgeTypeOK, WireTyped, EngineTyped, HandTyped
<1>3. AtMostOnce
  BY <1>1 DEF AtMostOnce, Once
<1>4. AnswersAreReal
  <2> SUFFICES ASSUME NEW i \in Id, calledback[i] > 0 \/ outcome[i] \in Asker PROVE ran[i] = 1
    BY DEF AnswersAreReal
  <2>1. ran[i] > 0 /\ ran[i] <= 1 /\ ran[i] \in Nat
    BY <1>1 DEF Real, Once, BooksTyped
  <2> QED
    BY <2>1
<1> QED
  BY <1>1, <1>2, <1>3, <1>4, Floods DEF BridgeSound, BridgeInv, MainWaits

\* A call is carried out once at most, its callback runs once at most and after it, a method that
\* asks the desktop waits in vain, nothing waits that nobody waits for, and the engine blocks in
\* the put of its own queue only when more calls are open than that queue holds (ipc.py,
\* app_controller_isolated.py, app_runner.py).
THEOREM BridgeAlwaysSound == BridgeSpec => []BridgeSound
<1>1. BridgeInit => BridgeInv
  BY BridgeInitInv
<1>2. BridgeInv /\ [BridgeNext]_bridgeVars => BridgeInv'
  BY BridgeStays
<1>3. BridgeInv => BridgeSound
  BY BridgeIsSound
<1> QED
  BY <1>1, <1>2, <1>3, PTL DEF BridgeSpec
=============================================================================
