--------------------------- MODULE Services_proofs ---------------------------
(***************************************************************************)
(* Proofs about the services of the simulated kernel and about the virtual *)
(* file system, in four parts.                                             *)
(*                                                                         *)
(* The event bus: BusSound, for any number of subscribers, events and      *)
(* nested dispatches, and any sizes of the history and of the drag index.  *)
(* EveryoneHears is not inductive.  BusInv follows an event on its way:    *)
(* queued in the order of the numbers, dispatched by a frame of which a    *)
(* subscriber is left to be called, or heard.  That a dispatch begins with *)
(* every living subscriber is Wants: who has not unsubscribed has kept a   *)
(* place in the list, whatever was dropped or swept.                       *)
(*                                                                         *)
(* The objects processes meet at: ObjectsSound, for any threads, processes *)
(* and names.  The locks are inductive with their types (LocksInv).  The   *)
(* messages are not: Keeps says which numbers an object holds, the last    *)
(* ones sent, and which its readers have got; Lost finds for a message a   *)
(* queue has dropped the newer ones that filled it.                        *)
(*                                                                         *)
(* The clock and its interrupts: ClockSound, for any number of starts,     *)
(* ticks and raised interrupts.  LoopInv ties the loops that live to the   *)
(* joins that gave up, and the flags to the loop they are for; IrqInv      *)
(* follows each number from its draw to the heap, a handler and done.      *)
(*                                                                         *)
(* The virtual file system: that its tree hangs together, what a restart   *)
(* brings back, and what a lock hides, for any built-in tree and any paths *)
(* typed.  SetNodeHangs is the heart of the first: copies and moves may    *)
(* land on files and inside one another.  VfsInv adds what the file holds. *)
(***************************************************************************)
EXTENDS EventBus, KernelObjects, KernelClock, VirtualFS, SequenceTheorems, FiniteSetTheorems, TLAPS

(* PART ONE: the event bus                                                 *)

Event == [kind : Kind, window : Window \cup {"none"}, n : 1..MaxEmits]
Frame ==
  [event : Event, rest : SUBSET Subscription, dead : SUBSET Subscription, callee : SUBSET Owner]

BusTyped ==
  /\ bus \in BOOLEAN /\ subscribers \in [Kind -> SUBSET Subscription]
  /\ alive \subseteq Object /\ recent \subseteq RateLimited
  /\ bus_history \in Seq(Event) /\ Len(bus_history) <= MaxQueueSize + 1
  /\ \A w \in DOMAIN drag_dedup : drag_dedup[w] \in 1..(MaxQueueSize + 1)
  /\ emit_count \in 0..(SweepEvery - 1)
  /\ queue \in Seq(Event) /\ stack \in [Thread -> Seq(Frame)]
  /\ sent \in Seq(Kind) /\ Len(sent) <= MaxEmits
  /\ wanted \subseteq [kind : Kind, owner : Owner, since : Nat]
  /\ heard \in [Owner -> Seq(1..MaxEmits)] /\ subscribed \in 0..MaxSubscribes

IsSent(e) == e.n \in 1..Len(sent) /\ sent[e.n] = e.kind

QueueOK ==
  /\ \A i \in 1..Len(queue) : IsSent(queue[i]) /\ queue[i].kind \notin Synchronous
  /\ \A i, j \in 1..Len(queue) : i < j => queue[i].n < queue[j].n

\* Only the worker dispatches queued events, one at a time, and those in the queue are newer.
FrameOK(t, i) ==
  /\ IsSent(stack[t][i].event)
  /\ \A s \in stack[t][i].dead : ~Lives(s)
  /\ stack[t][i].event.kind \notin Synchronous =>
       t = "worker" /\ i = 1 /\ \A j \in 1..Len(queue) : stack[t][i].event.n < queue[j].n

StackOK == \A t \in Thread : \A i \in 1..Len(stack[t]) : FrameOK(t, i)

\* What was heard of the queued events is older than what is queued, and not newer than what
\* the worker dispatches.
HeardOK ==
  \A o \in Owner : \A i \in 1..Len(heard[o]) :
    /\ heard[o][i] \in 1..Len(sent)
    /\ sent[heard[o][i]] \notin Synchronous =>
         /\ \A j \in 1..Len(queue) : heard[o][i] < queue[j].n
         /\ 1 \in 1..Len(stack["worker"]) /\ stack["worker"][1].event.kind \notin Synchronous
              => heard[o][i] <= stack["worker"][1].event.n

Breathes(o) == o \in Function \cup alive

Wants == \A w \in wanted : Breathes(w.owner) => \E s \in subscribers[w.kind] : s.owner = w.owner

InQueue(n) == \E i \in 1..Len(queue) : queue[i].n = n
IsCalled(t, i, n, o) == stack[t][i].event.n = n /\ \E s \in stack[t][i].rest : s.owner = o
ToBeCalled(n, o) == \E t \in Thread : \E i \in 1..Len(stack[t]) : IsCalled(t, i, n, o)
WasCalled(n, o) == \E i \in 1..Len(heard[o]) : heard[o][i] = n

Hears ==
  \A w \in wanted : Breathes(w.owner) =>
    \A n \in (w.since + 1)..Len(sent) :
      sent[n] = w.kind => InQueue(n) \/ ToBeCalled(n, w.owner) \/ WasCalled(n, w.owner)

BusInv == BusTyped /\ QueueOK /\ StackOK /\ HeardOK /\ Wants /\ Hears /\ InOrder

-----------------------------------------------------------------------------
(* The dispatches of a thread                                              *)

\* A dispatch is put on top of those the thread is in.
LEMMA DispatchBegun ==
  ASSUME stack \in [Thread -> Seq(Frame)], NEW t \in Thread, NEW frame \in Frame,
         stack' = [stack EXCEPT ![t] = Append(@, frame)]
  PROVE  /\ stack' \in [Thread -> Seq(Frame)]
         /\ Len(stack[t]) \in Nat /\ Len(stack'[t]) = Len(stack[t]) + 1
         /\ \A i \in 1..Len(stack[t]) : stack'[t][i] = stack[t][i]
         /\ stack'[t][Len(stack[t]) + 1] = frame
         /\ \A u \in Thread \ {t} : stack'[u] = stack[u]
<1>1. stack[t] \in Seq(Frame) /\ stack'[t] = Append(stack[t], frame)
  OBVIOUS
<1>2. stack'[t] \in Seq(Frame) /\ Len(stack'[t]) = Len(stack[t]) + 1 /\ Len(stack[t]) \in Nat
  BY <1>1
<1>3. /\ \A i \in 1..Len(stack[t]) : stack'[t][i] = stack[t][i]
      /\ stack'[t][Len(stack[t]) + 1] = frame
  BY <1>1
<1>4. \A u \in Thread \ {t} : stack'[u] = stack[u]
  OBVIOUS
<1>5. stack' \in [Thread -> Seq(Frame)]
  BY <1>2
<1> QED
  BY <1>2, <1>3, <1>4, <1>5

\* The innermost dispatch is replaced.
LEMMA DispatchGoesOn ==
  ASSUME stack \in [Thread -> Seq(Frame)], NEW t \in Thread, stack[t] # << >>,
         NEW frame \in Frame, GoesOn(t, frame)
  PROVE  /\ stack' \in [Thread -> Seq(Frame)]
         /\ Len(stack[t]) \in Nat \ {0} /\ Len(stack'[t]) = Len(stack[t])
         /\ \A i \in 1..(Len(stack[t]) - 1) : stack'[t][i] = stack[t][i]
         /\ stack'[t][Len(stack[t])] = frame
         /\ \A u \in Thread \ {t} : stack'[u] = stack[u]
<1> DEFINE s == stack[t]
<1>1. s \in Seq(Frame) /\ s # << >> /\ stack'[t] = [s EXCEPT ![Len(s)] = frame]
  BY DEF GoesOn
<1>2. \A u \in Thread \ {t} : stack'[u] = stack[u]
  BY DEF GoesOn
<1>3. stack' = [stack EXCEPT ![t] = [s EXCEPT ![Len(s)] = frame]]
  BY DEF GoesOn
<1> HIDE DEF s
<1>4. Len(s) \in Nat \ {0} /\ Len(s) \in 1..Len(s)
  BY <1>1
<1>5. /\ [s EXCEPT ![Len(s)] = frame] \in Seq(Frame) /\ Len([s EXCEPT ![Len(s)] = frame]) = Len(s)
      /\ \A i \in 1..Len(s) : [s EXCEPT ![Len(s)] = frame][i] = IF i = Len(s) THEN frame ELSE s[i]
  BY <1>1, <1>4, ExceptSeq
<1>6. stack' \in [Thread -> Seq(Frame)]
  BY <1>3, <1>5
<1>7. \A i \in 1..(Len(s) - 1) : stack'[t][i] = s[i]
  <2>1. \A i \in 1..(Len(s) - 1) : i \in 1..Len(s) /\ i # Len(s)
    BY <1>4
  <2> QED
    BY <1>1, <1>5, <2>1
<1> QED
  BY <1>1, <1>2, <1>4, <1>5, <1>6, <1>7 DEF s

\* The innermost dispatch ends.
LEMMA DispatchEnds ==
  ASSUME stack \in [Thread -> Seq(Frame)], NEW t \in Thread, stack[t] # << >>,
         stack' = [stack EXCEPT ![t] = Front(@)]
  PROVE  /\ stack' \in [Thread -> Seq(Frame)]
         /\ Len(stack[t]) \in Nat \ {0} /\ Len(stack'[t]) = Len(stack[t]) - 1
         /\ \A i \in 1..(Len(stack[t]) - 1) : stack'[t][i] = stack[t][i]
         /\ \A u \in Thread \ {t} : stack'[u] = stack[u]
<1> DEFINE s == stack[t]
           n == Len(s) - 1
<1>1. s \in Seq(Frame) /\ s # << >> /\ stack'[t] = Front(s) /\ stack' = [stack EXCEPT ![t] = Front(s)]
  OBVIOUS
<1>2. \A u \in Thread \ {t} : stack'[u] = stack[u]
  OBVIOUS
<1> HIDE DEF s
<1>3. Len(s) \in Nat \ {0} /\ n \in Nat /\ Front(s) = SubSeq(s, 1, n)
  BY <1>1 DEF Front
<1>4. \A i \in 1..n : s[i] \in Frame /\ (1 + i) - 1 = i
  BY <1>1, <1>3, ElementOfSeq
<1> HIDE DEF n
<1>5. /\ SubSeq(s, 1, n) \in Seq(Frame) /\ Len(SubSeq(s, 1, n)) = IF 1 <= n THEN (n - 1) + 1 ELSE 0
      /\ \A i \in 1..((n - 1) + 1) : SubSeq(s, 1, n)[i] = s[(1 + i) - 1]
  BY <1>3, <1>4, SubSeqProperties
<1>6. Len(SubSeq(s, 1, n)) = n /\ (n - 1) + 1 = n
  BY <1>3, <1>5
<1>7. stack' \in [Thread -> Seq(Frame)]
  BY <1>1, <1>3, <1>5
<1> QED
  BY <1>1, <1>2, <1>3, <1>4, <1>5, <1>6, <1>7 DEF s, n

-----------------------------------------------------------------------------
(* Steps that leave the dispatches alone                                   *)

LEMMA InitBus == BusInit => BusInv
<1> SUFFICES ASSUME BusInit PROVE BusInv
  OBVIOUS
<1> USE BusAssumption DEF BusInit
<1>1. BusTyped
  <2>1. << >> \in Seq(Event) /\ << >> \in Seq(Kind) /\ << >> \in Seq(Frame) /\ << >> \in Seq(1..MaxEmits)
    OBVIOUS
  <2>2. Len(<< >>) = 0 /\ DOMAIN << >> = {}
    OBVIOUS
  <2>3. bus_history \in Seq(Event) /\ Len(bus_history) <= MaxQueueSize + 1
    BY <2>1, <2>2
  <2>4. sent \in Seq(Kind) /\ Len(sent) <= MaxEmits /\ queue \in Seq(Event)
    BY <2>1, <2>2
  <2>5. stack \in [Thread -> Seq(Frame)] /\ heard \in [Owner -> Seq(1..MaxEmits)]
    BY <2>1
  <2>6. emit_count \in 0..(SweepEvery - 1) /\ subscribed \in 0..MaxSubscribes
    OBVIOUS
  <2> QED
    BY <2>2, <2>3, <2>4, <2>5, <2>6 DEF BusTyped
<1>2. Len(queue) = 0 /\ (\A t \in Thread : Len(stack[t]) = 0) /\ \A o \in Owner : Len(heard[o]) = 0
  OBVIOUS
<1>3. QueueOK /\ StackOK /\ HeardOK /\ Wants /\ Hears /\ InOrder
  BY <1>2 DEF QueueOK, StackOK, HeardOK, Wants, Hears, InOrder
<1> QED
  BY <1>1, <1>3 DEF BusInv

\* Who subscribes, unsubscribes or dies changes nothing of what is under way.
LEMMA UnderwayStays ==
  ASSUME BusInv, UNCHANGED <<queue, stack, sent, heard>>, alive' \subseteq alive,
         \A w \in wanted' : w \in wanted \/ w.since = Len(sent)
  PROVE  QueueOK' /\ StackOK' /\ HeardOK' /\ InOrder' /\ Hears'
<1> USE DEF BusInv
<1>1. QueueOK'
  BY DEF QueueOK, IsSent
<1>2. StackOK'
  BY DEF StackOK, FrameOK, IsSent, Lives
<1>3. HeardOK'
  BY DEF HeardOK
<1>4. InOrder'
  BY DEF InOrder
<1>5. Hears'
  <2> SUFFICES ASSUME NEW w \in wanted', Breathes(w.owner)', NEW n \in (w.since + 1)..Len(sent),
                      sent[n] = w.kind
               PROVE  InQueue(n)' \/ ToBeCalled(n, w.owner)' \/ WasCalled(n, w.owner)'
    BY DEF Hears
  <2>1. Len(sent) \in Nat
    BY DEF BusTyped
  <2>2. w \in wanted /\ Breathes(w.owner)
    BY <2>1 DEF Breathes
  <2>3. InQueue(n) \/ ToBeCalled(n, w.owner) \/ WasCalled(n, w.owner)
    BY <2>2 DEF Hears
  <2> QED
    BY <2>3 DEF InQueue, ToBeCalled, IsCalled, WasCalled
<1> QED
  BY <1>1, <1>2, <1>3, <1>4, <1>5

LEMMA QuietKeeps ==
  ASSUME BusInv, bus' \in BOOLEAN, recent' \subseteq RateLimited,
         UNCHANGED <<subscribers, alive, bus_history, drag_dedup, emit_count, queue, stack, ghosts>>
  PROVE  BusInv'
<1> USE DEF BusInv, ghosts
<1>1. QueueOK' /\ StackOK' /\ HeardOK' /\ InOrder' /\ Hears'
  BY UnderwayStays
<1>2. BusTyped'
  BY DEF BusTyped
<1>3. Wants'
  BY DEF Wants, Breathes
<1> QED
  BY <1>1, <1>2, <1>3

LEMMA SubscribeKeeps ==
  ASSUME BusInv, NEW t \in Thread, NEW k \in Kind, NEW o \in Owner, Subscribe(t, k, o)
  PROVE  BusInv'
<1> USE BusAssumption DEF BusInv, Subscribe
<1>1. UNCHANGED <<queue, stack, sent, heard, alive>> /\ Len(sent) \in Nat
  BY DEF BusTyped
<1>2. \A w \in wanted' : w \in wanted \/ w = [kind |-> k, owner |-> o, since |-> Len(sent)]
  OBVIOUS
<1>3. QueueOK' /\ StackOK' /\ HeardOK' /\ InOrder' /\ Hears'
  BY <1>1, <1>2, UnderwayStays
<1>4. [owner |-> o, n |-> subscribed + 1] \in Subscription
  BY DEF BusTyped, Subscription
<1>5. BusTyped'
  <2>1. subscribers' \in [Kind -> SUBSET Subscription]
    BY <1>4 DEF BusTyped
  <2>2. wanted' \subseteq [kind : Kind, owner : Owner, since : Nat]
    BY <1>1 DEF BusTyped
  <2>3. subscribed' \in 0..MaxSubscribes
    BY DEF BusTyped
  <2> QED
    BY <1>1, <2>1, <2>2, <2>3 DEF BusTyped
<1>6. Wants'
  <2>1. /\ [owner |-> o, n |-> subscribed + 1] \in subscribers'[k]
        /\ \A kind \in Kind : subscribers[kind] \subseteq subscribers'[kind]
    BY DEF BusTyped
  <2>2. \A w \in wanted : w.kind \in Kind
    BY DEF BusTyped
  <2> QED
    BY <1>2, <2>1, <2>2 DEF Wants, Breathes
<1> QED
  BY <1>3, <1>5, <1>6

\* Who is taken out of a list is dead or does not want to be in it.
LEMMA DroppedKeeps ==
  ASSUME BusInv, UNCHANGED <<bus, alive, recent, bus_history, drag_dedup, emit_count, queue,
                             stack, sent, heard, subscribed>>,
         wanted' \subseteq wanted, subscribers' \in [Kind -> SUBSET Subscription],
         \A k \in Kind : subscribers'[k] \subseteq subscribers[k],
         \A k \in Kind : \A s \in subscribers[k] \ subscribers'[k] :
           Lives(s) => \A w \in wanted' : w.kind # k \/ w.owner # s.owner
  PROVE  BusInv'
<1> USE DEF BusInv
<1>1. QueueOK' /\ StackOK' /\ HeardOK' /\ InOrder' /\ Hears'
  BY UnderwayStays
<1>2. BusTyped'
  BY DEF BusTyped
<1>3. Wants'
  <2> SUFFICES ASSUME NEW w \in wanted', Breathes(w.owner)
               PROVE  \E s \in subscribers'[w.kind] : s.owner = w.owner
    BY DEF Wants, Breathes
  <2>1. w.kind \in Kind
    BY DEF BusTyped
  <2>2. PICK s \in subscribers[w.kind] : s.owner = w.owner
    BY DEF Wants
  <2>3. Lives(s)
    BY <2>2 DEF Lives, Breathes
  <2> QED
    BY <2>1, <2>2, <2>3
<1> QED
  BY <1>1, <1>2, <1>3

LEMMA UnsubscribeKeeps ==
  ASSUME BusInv, NEW t \in Thread, NEW k \in Kind, NEW o \in Owner, Unsubscribe(t, k, o)
  PROVE  BusInv'
<1>1. subscribers \in [Kind -> SUBSET Subscription]
  BY DEF BusInv, BusTyped
<1>2. subscribers' = [subscribers EXCEPT ![k] = {s \in @ : s.owner # o}]
  BY DEF Unsubscribe
<1>3. \A i \in Kind : subscribers'[i] = IF i = k THEN {s \in subscribers[i] : s.owner # o} ELSE subscribers[i]
  BY <1>1, <1>2
<1>4. subscribers' \in [Kind -> SUBSET Subscription]
  BY <1>1, <1>2
<1>5. \A w \in wanted' : w \in wanted /\ (w.kind # k \/ w.owner # o)
  BY DEF Unsubscribe
<1>6. \A i \in Kind : subscribers'[i] \subseteq subscribers[i]
  BY <1>3
<1>7. ASSUME NEW i \in Kind, NEW s \in subscribers[i] \ subscribers'[i], NEW w \in wanted'
      PROVE  w.kind # i \/ w.owner # s.owner
  BY <1>3, <1>5, <1>7
<1> QED
  BY <1>4, <1>5, <1>6, <1>7, DroppedKeeps DEF Unsubscribe

LEMMA UnsubscribeAllKeeps ==
  ASSUME BusInv, NEW t \in Thread, NEW o \in Object, UnsubscribeAll(t, o)
  PROVE  BusInv'
<1>1. subscribers \in [Kind -> SUBSET Subscription]
  BY DEF BusInv, BusTyped
<1>2. subscribers' = [k \in Kind |-> {s \in subscribers[k] : Lives(s) /\ s.owner # o}]
  BY DEF UnsubscribeAll
<1>3. subscribers' \in [Kind -> SUBSET Subscription]
  BY <1>1, <1>2
<1>4. \A w \in wanted' : w \in wanted /\ w.owner # o
  BY DEF UnsubscribeAll
<1>5. \A i \in Kind : subscribers'[i] \subseteq subscribers[i]
  BY <1>2
<1>6. ASSUME NEW i \in Kind, NEW s \in subscribers[i] \ subscribers'[i], Lives(s), NEW w \in wanted'
      PROVE  w.owner # s.owner
  BY <1>2, <1>4, <1>6
<1> QED
  BY <1>3, <1>4, <1>5, <1>6, DroppedKeeps DEF UnsubscribeAll

LEMMA CollectedKeeps == ASSUME BusInv, NEW o \in Object, Collected(o) PROVE BusInv'
<1> USE DEF BusInv, Collected, ghosts
<1>1. UNCHANGED <<queue, stack, sent, heard, wanted>> /\ alive' \subseteq alive
  OBVIOUS
<1>2. QueueOK' /\ StackOK' /\ HeardOK' /\ InOrder' /\ Hears'
  BY <1>1, UnderwayStays
<1>3. BusTyped'
  BY DEF BusTyped
<1>4. Wants'
  BY DEF Wants, Breathes
<1> QED
  BY <1>2, <1>3, <1>4

-----------------------------------------------------------------------------
(* Dispatches                                                              *)

LEMMA HeardGrows ==
  ASSUME heard \in [Owner -> Seq(1..MaxEmits)], NEW o \in Owner, NEW n \in 1..MaxEmits,
         heard' = [heard EXCEPT ![o] = Append(@, n)]
  PROVE  /\ heard' \in [Owner -> Seq(1..MaxEmits)]
         /\ Len(heard[o]) \in Nat /\ Len(heard'[o]) = Len(heard[o]) + 1
         /\ \A i \in 1..Len(heard[o]) : heard'[o][i] = heard[o][i]
         /\ heard'[o][Len(heard[o]) + 1] = n
         /\ \A other \in Owner \ {o} : heard'[other] = heard[other]
<1>1. heard[o] \in Seq(1..MaxEmits) /\ heard'[o] = Append(heard[o], n)
  OBVIOUS
<1>2. heard'[o] \in Seq(1..MaxEmits) /\ Len(heard'[o]) = Len(heard[o]) + 1 /\ Len(heard[o]) \in Nat
  BY <1>1
<1>3. /\ \A i \in 1..Len(heard[o]) : heard'[o][i] = heard[o][i]
      /\ heard'[o][Len(heard[o]) + 1] = n
  BY <1>1
<1>4. \A other \in Owner \ {o} : heard'[other] = heard[other]
  OBVIOUS
<1>5. heard' \in [Owner -> Seq(1..MaxEmits)]
  BY <1>2
<1> QED
  BY <1>2, <1>3, <1>4, <1>5

\* The innermost dispatch of a thread.
LEMMA Innermost ==
  ASSUME BusInv, NEW t \in Thread, stack[t] # << >>
  PROVE  /\ Last(stack[t]) = stack[t][Len(stack[t])] /\ Last(stack[t]) \in Frame
         /\ Len(stack[t]) \in Nat \ {0} /\ FrameOK(t, Len(stack[t]))
<1>1. stack[t] \in Seq(Frame)
  BY DEF BusInv, BusTyped
<1>2. Len(stack[t]) \in Nat \ {0} /\ Len(stack[t]) \in 1..Len(stack[t])
  BY <1>1
<1>3. Last(stack[t]) = stack[t][Len(stack[t])] /\ Last(stack[t]) \in Frame
  BY <1>1, <1>2, ElementOfSeq DEF Last
<1> QED
  BY <1>2, <1>3 DEF BusInv, StackOK

LEMMA CallNextKeeps == ASSUME BusInv, NEW t \in Thread, CallNext(t) PROVE BusInv'
<1> USE DEF BusInv
<1> DEFINE f == Last(stack[t])
           top == Len(stack[t])
<1>1. stack[t] # << >> /\ UNCHANGED <<bus, subscribers, alive, bus_history, drag_dedup, emit_count,
                                      recent, queue, sent, wanted, subscribed>>
  BY DEF CallNext
<1>2. f = stack[t][top] /\ f \in Frame /\ top \in Nat \ {0} /\ FrameOK(t, top)
  BY <1>1, Innermost
<1>3. PICK s \in f.rest :
        /\ GoesOn(t, [f EXCEPT !.rest = @ \ {s}, !.dead = IF Lives(s) THEN @ ELSE @ \cup {s},
                               !.callee = {s.owner} \cap (Function \cup alive)])
        /\ heard' = IF Lives(s) THEN [heard EXCEPT ![s.owner] = Append(@, f.event.n)] ELSE heard
  BY DEF CallNext
<1> DEFINE g == [f EXCEPT !.rest = @ \ {s}, !.dead = IF Lives(s) THEN @ ELSE @ \cup {s},
                          !.callee = {s.owner} \cap (Function \cup alive)]
<1> HIDE DEF f, top
<1>4. s \in Subscription /\ s.owner \in Owner /\ f.event \in Event /\ f.event.n \in 1..MaxEmits
  BY <1>2, <1>3 DEF Frame, Subscription, Event
<1>5. g \in Frame
  BY <1>2, <1>4 DEF Frame, Owner
<1>6. /\ g.event = f.event /\ g.rest = f.rest \ {s}
      /\ g.dead \subseteq f.dead \cup {s} /\ (Lives(s) => g.dead = f.dead)
  BY <1>2 DEF Frame
<1>7. GoesOn(t, g)
  BY <1>3
<1> HIDE DEF g
<1>8. stack \in [Thread -> Seq(Frame)] /\ heard \in [Owner -> Seq(1..MaxEmits)] /\ sent \in Seq(Kind)
  BY DEF BusTyped
<1>9. /\ stack' \in [Thread -> Seq(Frame)] /\ Len(stack'[t]) = top
      /\ \A i \in 1..(top - 1) : stack'[t][i] = stack[t][i]
      /\ stack'[t][top] = g
      /\ \A u \in Thread \ {t} : stack'[u] = stack[u]
  BY <1>1, <1>5, <1>7, <1>8, DispatchGoesOn DEF top
<1>10. \A i \in 1..top : i = top \/ i \in 1..(top - 1)
  BY <1>2
<1>11. ASSUME NEW u \in Thread
       PROVE  Len(stack'[u]) = Len(stack[u]) /\ \A i \in 1..Len(stack[u]) : stack'[u][i].event = stack[u][i].event
  <2>1. CASE u = t
    BY <1>2, <1>6, <1>9, <1>10, <2>1 DEF top
  <2> QED
    BY <1>9, <2>1
<1>12. heard' \in [Owner -> Seq(1..MaxEmits)]
  BY <1>3, <1>4, <1>8, HeardGrows
<1>13. ASSUME NEW o \in Owner
       PROVE  /\ Len(heard[o]) \in Nat /\ Len(heard'[o]) \in Nat /\ Len(heard'[o]) >= Len(heard[o])
              /\ \A i \in 1..Len(heard[o]) : heard'[o][i] = heard[o][i]
              /\ \A i \in 1..Len(heard'[o]) :
                   i \in 1..Len(heard[o]) \/ (i = Len(heard[o]) + 1 /\ heard'[o][i] = f.event.n)
  <2>1. Len(heard[o]) \in Nat
    BY <1>8
  <2>2. CASE Lives(s) /\ o = s.owner
    <3>1. heard' = [heard EXCEPT ![o] = Append(@, f.event.n)]
      BY <1>3, <2>2
    <3>2. /\ Len(heard'[o]) = Len(heard[o]) + 1
          /\ \A i \in 1..Len(heard[o]) : heard'[o][i] = heard[o][i]
          /\ heard'[o][Len(heard[o]) + 1] = f.event.n
      BY <1>4, <1>8, <3>1, HeardGrows
    <3> QED
      BY <2>1, <3>2
  <2>3. CASE ~(Lives(s) /\ o = s.owner)
    <3>1. heard'[o] = heard[o]
      BY <1>3, <1>4, <1>8, <2>3
    <3> QED
      BY <2>1, <3>1
  <2> QED
    BY <2>2, <2>3
<1>14. Lives(s) => \E i \in 1..Len(heard'[s.owner]) : heard'[s.owner][i] = f.event.n
  <2> SUFFICES ASSUME Lives(s) PROVE \E i \in 1..Len(heard'[s.owner]) : heard'[s.owner][i] = f.event.n
    OBVIOUS
  <2>1. heard' = [heard EXCEPT ![s.owner] = Append(@, f.event.n)]
    BY <1>3
  <2>2. /\ Len(heard[s.owner]) \in Nat /\ Len(heard'[s.owner]) = Len(heard[s.owner]) + 1
        /\ heard'[s.owner][Len(heard[s.owner]) + 1] = f.event.n
    BY <1>4, <1>8, <2>1, HeardGrows
  <2>3. Len(heard[s.owner]) + 1 \in 1..Len(heard'[s.owner])
    BY <2>2
  <2> QED
    BY <2>2, <2>3
<1>15. BusTyped'
  BY <1>1, <1>9, <1>12 DEF BusTyped
<1>16. QueueOK' /\ Wants'
  BY <1>1 DEF QueueOK, IsSent, Wants, Breathes
<1>17. StackOK'
  <2> SUFFICES ASSUME NEW u \in Thread, NEW i \in 1..Len(stack'[u]) PROVE FrameOK(u, i)'
    BY DEF StackOK
  <2>1. i \in 1..Len(stack[u]) /\ FrameOK(u, i) /\ stack'[u][i].event = stack[u][i].event
    BY <1>11 DEF StackOK
  <2>2. \A d \in stack'[u][i].dead : ~Lives(d)
    <3>1. CASE u = t /\ i = top
      BY <1>2, <1>6, <1>9, <3>1 DEF FrameOK
    <3>2. CASE ~(u = t /\ i = top)
      <4>1. stack'[u][i] = stack[u][i]
        BY <1>9, <1>10, <2>1, <3>2 DEF top
      <4> QED
        BY <2>1, <4>1 DEF FrameOK
    <3> QED
      BY <3>1, <3>2
  <2> QED
    BY <1>1, <2>1, <2>2 DEF FrameOK, IsSent, Lives
<1>18. f.event.kind \notin Synchronous =>
         t = "worker" /\ top = 1 /\ \A j \in 1..Len(queue) : f.event.n < queue[j].n
  BY <1>2 DEF FrameOK
<1>19. f.event.n \in 1..Len(sent) /\ sent[f.event.n] = f.event.kind
  BY <1>2 DEF FrameOK, IsSent
<1>20. HeardOK'
  <2> SUFFICES ASSUME NEW o \in Owner, NEW i \in 1..Len(heard'[o])
               PROVE  /\ heard'[o][i] \in 1..Len(sent)
                      /\ sent[heard'[o][i]] \notin Synchronous =>
                           /\ \A j \in 1..Len(queue) : heard'[o][i] < queue[j].n
                           /\ 1 \in 1..Len(stack'["worker"]) /\ stack'["worker"][1].event.kind \notin Synchronous
                                => heard'[o][i] <= stack'["worker"][1].event.n
    <3>1. UNCHANGED <<sent, queue>>
      BY <1>1
    <3> QED
      BY <3>1 DEF HeardOK
  <2>1. /\ Len(stack'["worker"]) = Len(stack["worker"])
        /\ 1 \in 1..Len(stack["worker"]) => stack'["worker"][1].event = stack["worker"][1].event
    BY <1>11 DEF Thread
  <2>2. CASE i \in 1..Len(heard[o])
    BY <1>13, <2>1, <2>2 DEF HeardOK
  <2>3. CASE heard'[o][i] = f.event.n
    <3>1. f.event.n \in 1..Len(sent) /\ sent[f.event.n] = f.event.kind
      BY <1>19
    <3>2. ASSUME f.event.kind \notin Synchronous
          PROVE  \A j \in 1..Len(queue) : f.event.n < queue[j].n
      BY <1>18, <3>2
    <3>3. ASSUME f.event.kind \notin Synchronous, 1 \in 1..Len(stack'["worker"])
          PROVE  f.event.n <= stack'["worker"][1].event.n
      <4>1. f = stack["worker"][1] /\ 1 \in 1..Len(stack["worker"])
        BY <1>2, <1>18, <2>1, <3>3
      <4>2. stack'["worker"][1].event.n = f.event.n
        BY <2>1, <4>1
      <4> QED
        BY <3>1, <4>2
    <3> QED
      BY <2>3, <3>1, <3>2, <3>3
  <2> QED
    BY <1>13, <2>2, <2>3
<1>21. InOrder'
  <2> SUFFICES ASSUME NEW o \in Owner, NEW i \in 1..Len(heard'[o]), NEW j \in 1..Len(heard'[o]), i < j,
                      sent[heard'[o][i]] \notin Synchronous, sent[heard'[o][j]] \notin Synchronous
               PROVE  heard'[o][i] <= heard'[o][j]
    BY <1>1 DEF InOrder
  <2>1. i \in 1..Len(heard[o]) /\ heard'[o][i] = heard[o][i]
    BY <1>13
  <2>2. CASE j \in 1..Len(heard[o])
    BY <1>13, <2>1, <2>2 DEF InOrder
  <2>3. CASE heard'[o][j] = f.event.n
    <3>1. f.event.kind \notin Synchronous
      BY <1>19, <2>3
    <3>2. t = "worker" /\ top = 1 /\ f = stack["worker"][1] /\ Len(stack["worker"]) = 1
      BY <1>2, <1>18, <3>1 DEF top
    <3>3. sent[heard[o][i]] \notin Synchronous /\ 1 \in 1..Len(stack["worker"])
      BY <2>1, <3>2
    <3>4. heard[o][i] <= f.event.n
      BY <2>1, <3>1, <3>2, <3>3 DEF HeardOK
    <3> QED
      BY <2>1, <2>3, <3>4
  <2> QED
    BY <1>13, <2>2, <2>3
<1>22. Hears'
  <2> SUFFICES ASSUME NEW w \in wanted, Breathes(w.owner), NEW n \in (w.since + 1)..Len(sent),
                      sent[n] = w.kind
               PROVE  InQueue(n)' \/ ToBeCalled(n, w.owner)' \/ WasCalled(n, w.owner)'
    BY <1>1 DEF Hears, Breathes
  <2>1. w.owner \in Owner
    BY DEF BusTyped
  <2>2. CASE InQueue(n)
    BY <1>1, <2>2 DEF InQueue
  <2>3. CASE WasCalled(n, w.owner)
    <3>1. PICK i \in 1..Len(heard[w.owner]) : heard[w.owner][i] = n
      BY <2>3 DEF WasCalled
    <3>2. i \in 1..Len(heard'[w.owner]) /\ heard'[w.owner][i] = n
      BY <1>13, <2>1, <3>1
    <3> QED
      BY <3>2 DEF WasCalled
  <2>4. CASE ToBeCalled(n, w.owner)
    <3>0. PICK u \in Thread : \E i \in 1..Len(stack[u]) : IsCalled(u, i, n, w.owner)
      BY <2>4 DEF ToBeCalled
    <3>1. PICK i \in 1..Len(stack[u]) : IsCalled(u, i, n, w.owner)
      BY <3>0
    <3>2. i \in 1..Len(stack'[u])
      BY <1>11
    <3>3. PICK r \in stack[u][i].rest : r.owner = w.owner
      BY <3>1 DEF IsCalled
    <3>4. CASE u = t /\ i = top
      <4>1. r \in f.rest /\ f.event.n = n /\ stack'[u][i] = g
        BY <1>2, <1>9, <3>1, <3>3, <3>4 DEF IsCalled
      <4>2. CASE r = s
        <5>1. Lives(s) /\ s.owner = w.owner
          BY <3>3, <4>2 DEF Lives, Breathes
        <5> QED
          BY <1>14, <4>1, <5>1 DEF WasCalled
      <4>3. CASE r # s
        <5>1. IsCalled(u, i, n, w.owner)'
          BY <1>6, <3>3, <4>1, <4>3 DEF IsCalled
        <5> QED
          BY <3>2, <5>1 DEF ToBeCalled
      <4> QED
        BY <4>2, <4>3
    <3>5. CASE ~(u = t /\ i = top)
      <4>1. stack'[u][i] = stack[u][i]
        BY <1>9, <1>10, <3>5 DEF top
      <4>2. IsCalled(u, i, n, w.owner)'
        BY <3>1, <4>1 DEF IsCalled
      <4> QED
        BY <3>2, <4>2 DEF ToBeCalled
    <3> QED
      BY <3>4, <3>5
  <2> QED
    BY <2>2, <2>3, <2>4 DEF Hears
<1> QED
  BY <1>15, <1>16, <1>17, <1>20, <1>21, <1>22

\* A dispatch that has called everybody may forget its dead and end.
LEMMA CalledAll ==
  ASSUME BusInv, UNCHANGED <<alive, queue, sent, heard, wanted>>,
         stack' \in [Thread -> Seq(Frame)],
         \A u \in Thread : Len(stack'[u]) <= Len(stack[u]),
         \A u \in Thread : \A i \in 1..Len(stack'[u]) :
           /\ stack'[u][i].event = stack[u][i].event /\ stack'[u][i].rest = stack[u][i].rest
           /\ stack'[u][i].dead \subseteq stack[u][i].dead,
         \A u \in Thread : \A i \in 1..Len(stack[u]) :
           i \in 1..Len(stack'[u]) \/ stack[u][i].rest = {}
  PROVE  QueueOK' /\ StackOK' /\ HeardOK' /\ InOrder' /\ Hears'
<1> USE DEF BusInv
<1>1. ASSUME NEW u \in Thread
      PROVE  Len(stack[u]) \in Nat /\ Len(stack'[u]) \in Nat /\ \A i \in 1..Len(stack'[u]) : i \in 1..Len(stack[u])
  <2>1. stack[u] \in Seq(Frame) /\ stack'[u] \in Seq(Frame)
    BY DEF BusTyped
  <2> QED
    BY <2>1
<1>2. QueueOK' /\ InOrder'
  BY DEF QueueOK, IsSent, InOrder
<1>3. StackOK'
  <2> SUFFICES ASSUME NEW u \in Thread, NEW i \in 1..Len(stack'[u]) PROVE FrameOK(u, i)'
    BY DEF StackOK
  <2>1. FrameOK(u, i)
    BY <1>1 DEF StackOK
  <2> QED
    BY <2>1 DEF FrameOK, IsSent, Lives
<1>4. HeardOK'
  <2>1. 1 \in 1..Len(stack'["worker"]) =>
          1 \in 1..Len(stack["worker"]) /\ stack'["worker"][1].event = stack["worker"][1].event
    BY <1>1 DEF Thread
  <2> QED
    BY <2>1 DEF HeardOK
<1>5. Hears'
  <2> SUFFICES ASSUME NEW w \in wanted, Breathes(w.owner), NEW n \in (w.since + 1)..Len(sent),
                      sent[n] = w.kind, ToBeCalled(n, w.owner)
               PROVE  ToBeCalled(n, w.owner)'
    BY DEF Hears, Breathes, InQueue, WasCalled
  <2>1. PICK u \in Thread : \E i \in 1..Len(stack[u]) : IsCalled(u, i, n, w.owner)
    BY DEF ToBeCalled
  <2>2. PICK i \in 1..Len(stack[u]) : IsCalled(u, i, n, w.owner)
    BY <2>1
  <2>3. i \in 1..Len(stack'[u])
    BY <2>2 DEF IsCalled
  <2>4. IsCalled(u, i, n, w.owner)'
    BY <2>2, <2>3 DEF IsCalled
  <2> QED
    BY <2>3, <2>4 DEF ToBeCalled
<1> QED
  BY <1>2, <1>3, <1>4, <1>5

LEMMA LivingStay ==
  ASSUME BusInv, UNCHANGED <<alive, wanted>>,
         \A k \in Kind : \A s \in subscribers[k] : Lives(s) => s \in subscribers'[k]
  PROVE  Wants'
<1> SUFFICES ASSUME NEW w \in wanted, Breathes(w.owner)
             PROVE  \E s \in subscribers'[w.kind] : s.owner = w.owner
  BY DEF Wants, Breathes
<1>1. w.kind \in Kind
  BY DEF BusInv, BusTyped
<1>2. PICK s \in subscribers[w.kind] : s.owner = w.owner
  BY DEF BusInv, Wants
<1> QED
  BY <1>1, <1>2 DEF Lives, Breathes

LEMMA DropDeadKeeps == ASSUME BusInv, NEW t \in Thread, DropDead(t) PROVE BusInv'
<1> USE DEF BusInv
<1> DEFINE f == Last(stack[t])
           top == Len(stack[t])
           g == [f EXCEPT !.dead = {}, !.callee = {}]
<1>1. /\ stack[t] # << >> /\ f.rest = {} /\ GoesOn(t, g)
      /\ subscribers' = [subscribers EXCEPT ![f.event.kind] = WithoutDead(f.event.kind, f.dead)]
      /\ UNCHANGED <<bus, alive, bus_history, drag_dedup, emit_count, recent, queue, sent, wanted,
                     heard, subscribed>>
  BY DEF DropDead, ghosts
<1>2. f = stack[t][top] /\ f \in Frame /\ top \in Nat \ {0} /\ FrameOK(t, top)
  BY <1>1, Innermost
<1> HIDE DEF f, top
<1>3. g \in Frame /\ g.event = f.event /\ g.rest = f.rest /\ g.dead = {}
  BY <1>2 DEF Frame
<1> HIDE DEF g
<1>4. stack \in [Thread -> Seq(Frame)] /\ subscribers \in [Kind -> SUBSET Subscription]
  BY DEF BusTyped
<1>5. /\ stack' \in [Thread -> Seq(Frame)] /\ Len(stack'[t]) = top
      /\ \A i \in 1..(top - 1) : stack'[t][i] = stack[t][i]
      /\ stack'[t][top] = g
      /\ \A u \in Thread \ {t} : stack'[u] = stack[u]
  BY <1>1, <1>3, <1>4, DispatchGoesOn DEF top
<1>6. \A i \in 1..top : i = top \/ i \in 1..(top - 1)
  BY <1>2
<1>7. ASSUME NEW u \in Thread
      PROVE  /\ Len(stack'[u]) = Len(stack[u]) /\ Len(stack[u]) \in Nat
             /\ \A i \in 1..Len(stack[u]) :
                  /\ stack'[u][i].event = stack[u][i].event /\ stack'[u][i].rest = stack[u][i].rest
                  /\ stack'[u][i].dead \subseteq stack[u][i].dead
  <2>1. CASE u = t
    BY <1>2, <1>3, <1>5, <1>6, <2>1 DEF top
  <2>2. CASE u # t
    <3>1. stack[u] \in Seq(Frame) /\ stack'[u] = stack[u]
      BY <1>4, <1>5, <2>2
    <3> QED
      BY <3>1
  <2> QED
    BY <2>1, <2>2
<1>8. QueueOK' /\ StackOK' /\ HeardOK' /\ InOrder' /\ Hears'
  <2>1. \A u \in Thread : Len(stack'[u]) <= Len(stack[u])
    BY <1>7
  <2>2. \A u \in Thread : \A i \in 1..Len(stack'[u]) :
          /\ stack'[u][i].event = stack[u][i].event /\ stack'[u][i].rest = stack[u][i].rest
          /\ stack'[u][i].dead \subseteq stack[u][i].dead
    BY <1>7
  <2>3. \A u \in Thread : \A i \in 1..Len(stack[u]) : i \in 1..Len(stack'[u])
    BY <1>7
  <2>4. UNCHANGED <<alive, queue, sent, heard, wanted>> /\ stack' \in [Thread -> Seq(Frame)]
    BY <1>1, <1>5
  <2> QED
    BY <2>1, <2>2, <2>3, <2>4, CalledAll
<1>9. f.event.kind \in Kind /\ \A s \in f.dead : ~Lives(s)
  BY <1>2 DEF Frame, Event, FrameOK
<1>10. subscribers' \in [Kind -> SUBSET Subscription] /\ \A k \in Kind : subscribers[k] \ f.dead \subseteq subscribers'[k]
  BY <1>1, <1>4, <1>9 DEF WithoutDead
<1>11. Wants'
  BY <1>1, <1>9, <1>10, LivingStay
<1>12. BusTyped'
  BY <1>1, <1>5, <1>10 DEF BusTyped
<1> QED
  BY <1>8, <1>11, <1>12

LEMMA FinishKeeps == ASSUME BusInv, NEW t \in Thread, Finish(t) PROVE BusInv'
<1> USE DEF BusInv
<1> DEFINE top == Len(stack[t])
<1>1. /\ stack[t] # << >> /\ Last(stack[t]).rest = {} /\ stack' = [stack EXCEPT ![t] = Front(@)]
      /\ subscribers' = IF emit_count = 0 THEN Swept ELSE subscribers
      /\ UNCHANGED <<bus, alive, bus_history, drag_dedup, emit_count, recent, queue, sent, wanted,
                     heard, subscribed>>
  BY DEF Finish, ghosts
<1>2. stack[t][top].rest = {} /\ top \in Nat \ {0}
  BY <1>1, Innermost
<1>3. stack \in [Thread -> Seq(Frame)] /\ subscribers \in [Kind -> SUBSET Subscription]
  BY DEF BusTyped
<1>4. /\ stack' \in [Thread -> Seq(Frame)] /\ Len(stack'[t]) = top - 1
      /\ \A i \in 1..(top - 1) : stack'[t][i] = stack[t][i]
      /\ \A u \in Thread \ {t} : stack'[u] = stack[u]
  BY <1>1, <1>3, DispatchEnds
<1> HIDE DEF top
<1>5. \A i \in 1..top : i = top \/ i \in 1..(top - 1)
  BY <1>2
<1>6. ASSUME NEW u \in Thread
      PROVE  /\ Len(stack'[u]) <= Len(stack[u])
             /\ \A i \in 1..Len(stack'[u]) : stack'[u][i] = stack[u][i]
             /\ \A i \in 1..Len(stack[u]) : i \in 1..Len(stack'[u]) \/ stack[u][i].rest = {}
  <2>1. CASE u = t
    BY <1>2, <1>4, <1>5, <2>1 DEF top
  <2>2. CASE u # t
    <3>1. stack[u] \in Seq(Frame) /\ stack'[u] = stack[u]
      BY <1>3, <1>4, <2>2
    <3> QED
      BY <3>1
  <2> QED
    BY <2>1, <2>2
<1>7. QueueOK' /\ StackOK' /\ HeardOK' /\ InOrder' /\ Hears'
  BY <1>1, <1>4, <1>6, CalledAll
<1>8. /\ subscribers' \in [Kind -> SUBSET Subscription]
      /\ \A k \in Kind : \A s \in subscribers[k] : Lives(s) => s \in subscribers'[k]
  BY <1>1, <1>3 DEF Swept
<1>9. Wants'
  BY <1>1, <1>8, LivingStay
<1>10. BusTyped'
  BY <1>1, <1>4, <1>8 DEF BusTyped
<1> QED
  BY <1>7, <1>9, <1>10

\* The history is cut before it grows, and the drag index points into it.
LEMMA RecordedBounded ==
  ASSUME BusTyped, NEW event \in Event, Recorded(event)
  PROVE  /\ bus_history' \in Seq(Event) /\ Len(bus_history') <= MaxQueueSize + 1
         /\ \A w \in DOMAIN drag_dedup' : drag_dedup'[w] \in 1..(MaxQueueSize + 1)
<1> DEFINE size == Len(bus_history)
           first == size - Kept + 1
           kept == Trimmed
<1>1. bus_history \in Seq(Event) /\ size \in Nat /\ MaxQueueSize \in Nat /\ Kept \in 1..MaxQueueSize
  BY BusAssumption DEF BusTyped
<1>2. kept \in Seq(Event) /\ Len(kept) <= MaxQueueSize
  <2>1. CASE size > MaxQueueSize
    <3>1. kept = SubSeq(bus_history, first, size)
      BY <2>1 DEF Trimmed
    <3>2. first \in Int /\ size \in Int /\ first <= size /\ first >= 1 /\ (size - first) + 1 = Kept
      BY <1>1, <2>1
    <3>3. \A i \in first..size : bus_history[i] \in Event
      BY <1>1, <3>2, ElementOfSeq
    <3> HIDE DEF first, size, kept
    <3>4. kept \in Seq(Event) /\ Len(kept) = (size - first) + 1
      BY <3>1, <3>2, <3>3, SubSeqProperties
    <3> QED
      BY <1>1, <3>2, <3>4
  <2>2. CASE ~(size > MaxQueueSize)
    BY <1>1, <2>2 DEF Trimmed
  <2> QED
    BY <2>1, <2>2
<1>3. Len(kept) \in Nat /\ Len(kept) + 1 \in 1..(MaxQueueSize + 1)
  BY <1>1, <1>2
<1>4. \A w \in DOMAIN drag_dedup : drag_dedup[w] \in 1..(MaxQueueSize + 1)
  BY DEF BusTyped
<1>5. Append(kept, event) \in Seq(Event) /\ Len(Append(kept, event)) <= MaxQueueSize + 1
  BY <1>2, <1>3
<1>6. CASE UNCHANGED drag_dedup
  <2>1. \A i \in 1..Len(kept) :
          [kept EXCEPT ![i] = event] \in Seq(Event) /\ Len([kept EXCEPT ![i] = event]) <= MaxQueueSize + 1
    <3> HIDE DEF kept
    <3> TAKE i \in 1..Len(kept)
    <3>1. [kept EXCEPT ![i] = event] \in Seq(Event) /\ Len([kept EXCEPT ![i] = event]) = Len(kept)
      BY <1>2, ExceptSeq
    <3> QED
      BY <1>1, <1>2, <1>3, <3>1
  <2>2. \/ bus_history' = Append(kept, event)
        \/ \E i \in 1..Len(kept) : bus_history' = [kept EXCEPT ![i] = event]
    BY DEF Recorded
  <2> HIDE DEF kept
  <2> QED
    BY <1>4, <1>5, <1>6, <2>1, <2>2
<1>7. CASE ~UNCHANGED drag_dedup
  <2> DEFINE indexed == [w \in DOMAIN drag_dedup \cup {event.window} |->
                           IF w = event.window THEN Len(kept) + 1 ELSE drag_dedup[w]]
  <2>1. bus_history' = Append(kept, event) /\ (drag_dedup' = << >> \/ drag_dedup' = indexed)
    BY <1>7 DEF Recorded
  <2> HIDE DEF kept
  <2>2. \A w \in DOMAIN indexed : indexed[w] \in 1..(MaxQueueSize + 1)
    BY <1>3, <1>4
  <2>3. DOMAIN << >> = {}
    OBVIOUS
  <2> HIDE DEF indexed
  <2> QED
    BY <1>5, <2>1, <2>2, <2>3
<1> QED
  BY <1>6, <1>7

\* A dispatch begins with the whole list.
LEMMA BeginTyped ==
  ASSUME BusTyped, NEW t \in Thread, NEW event \in Event, Begin(t, event)
  PROVE  /\ bus_history' \in Seq(Event) /\ Len(bus_history') <= MaxQueueSize + 1
         /\ \A w \in DOMAIN drag_dedup' : drag_dedup'[w] \in 1..(MaxQueueSize + 1)
         /\ emit_count' \in 0..(SweepEvery - 1)
         /\ stack' \in [Thread -> Seq(Frame)]
         /\ Len(stack[t]) \in Nat /\ Len(stack'[t]) = Len(stack[t]) + 1
         /\ \A i \in 1..Len(stack[t]) : stack'[t][i] = stack[t][i]
         /\ \A u \in Thread \ {t} : stack'[u] = stack[u]
         /\ stack'[t][Len(stack[t]) + 1].event = event
         /\ stack'[t][Len(stack[t]) + 1].rest = subscribers[event.kind]
         /\ stack'[t][Len(stack[t]) + 1].dead = {}
<1> DEFINE frame == [event |-> event, rest |-> subscribers[event.kind], dead |-> {}, callee |-> {}]
<1>1. frame \in Frame
  BY DEF BusTyped, Frame, Event
<1>2. stack' = [stack EXCEPT ![t] = Append(@, frame)] /\ stack \in [Thread -> Seq(Frame)]
  BY DEF Begin, BusTyped
<1>3. frame.event = event /\ frame.rest = subscribers[event.kind] /\ frame.dead = {}
  OBVIOUS
<1>4. emit_count' \in 0..(SweepEvery - 1)
  BY BusAssumption DEF Begin, BusTyped
<1> HIDE DEF frame
<1>5. /\ stack' \in [Thread -> Seq(Frame)]
      /\ Len(stack[t]) \in Nat /\ Len(stack'[t]) = Len(stack[t]) + 1
      /\ \A i \in 1..Len(stack[t]) : stack'[t][i] = stack[t][i]
      /\ stack'[t][Len(stack[t]) + 1] = frame
      /\ \A u \in Thread \ {t} : stack'[u] = stack[u]
  BY <1>1, <1>2, DispatchBegun
<1>6. /\ bus_history' \in Seq(Event) /\ Len(bus_history') <= MaxQueueSize + 1
      /\ \A w \in DOMAIN drag_dedup' : drag_dedup'[w] \in 1..(MaxQueueSize + 1)
  BY RecordedBounded DEF Begin
<1> QED
  BY <1>3, <1>4, <1>5, <1>6

LEMMA WorkerKeeps == ASSUME BusInv, Worker PROVE BusInv'
<1> USE DEF BusInv
<1> DEFINE event == Head(queue)
<1>1. /\ stack["worker"] = << >> /\ queue # << >> /\ queue' = Tail(queue) /\ Begin("worker", event)
      /\ UNCHANGED <<bus, subscribers, alive, recent, sent, wanted, heard, subscribed>>
  BY DEF Worker, ghosts
<1>2. queue \in Seq(Event) /\ "worker" \in Thread
  BY DEF BusTyped, Thread
<1>3. /\ event = queue[1] /\ event \in Event /\ queue' \in Seq(Event)
      /\ Len(queue) \in Nat \ {0} /\ Len(queue') = Len(queue) - 1
      /\ \A i \in 1..Len(queue') : queue'[i] = queue[i + 1]
  BY <1>1, <1>2, HeadTailProperties
<1> HIDE DEF event
<1>4. \A i \in 1..Len(queue') : i + 1 \in 1..Len(queue)
  BY <1>3
<1>5. IsSent(event) /\ event.kind \notin Synchronous /\ \A i \in 1..Len(queue') : event.n < queue'[i].n
  <2>1. 1 \in 1..Len(queue) /\ \A i \in 1..Len(queue') : 1 < i + 1
    BY <1>3
  <2>2. IsSent(queue[1]) /\ queue[1].kind \notin Synchronous
    BY <2>1 DEF QueueOK
  <2>3. \A i \in 1..Len(queue') : queue[1].n < queue[i + 1].n
    BY <1>4, <2>1 DEF QueueOK
  <2> QED
    BY <1>3, <2>2, <2>3
<1>6. Len(stack["worker"]) = 0
  BY <1>1
<1>7. /\ stack' \in [Thread -> Seq(Frame)] /\ Len(stack'["worker"]) = 1
      /\ stack'["worker"][1].event = event /\ stack'["worker"][1].rest = subscribers[event.kind]
      /\ stack'["worker"][1].dead = {}
      /\ \A u \in Thread \ {"worker"} : stack'[u] = stack[u]
  <2>1. /\ stack' \in [Thread -> Seq(Frame)] /\ Len(stack'["worker"]) = Len(stack["worker"]) + 1
        /\ stack'["worker"][Len(stack["worker"]) + 1].event = event
        /\ stack'["worker"][Len(stack["worker"]) + 1].rest = subscribers[event.kind]
        /\ stack'["worker"][Len(stack["worker"]) + 1].dead = {}
        /\ \A u \in Thread \ {"worker"} : stack'[u] = stack[u]
    BY <1>1, <1>2, <1>3, BeginTyped
  <2> QED
    BY <1>6, <2>1
<1>8. BusTyped'
  BY <1>1, <1>2, <1>3, <1>7, BeginTyped DEF BusTyped
<1>9. QueueOK'
  <2>1. \A i \in 1..Len(queue') : IsSent(queue[i])' /\ queue'[i].kind \notin Synchronous
    <3>1. \A i \in 1..Len(queue') : IsSent(queue[i + 1]) /\ queue[i + 1].kind \notin Synchronous
      BY <1>4 DEF QueueOK
    <3> QED
      BY <1>1, <1>3, <3>1 DEF IsSent
  <2>2. ASSUME NEW i \in 1..Len(queue'), NEW j \in 1..Len(queue'), i < j
        PROVE  queue'[i].n < queue'[j].n
    <3>1. i + 1 < j + 1
      BY <1>3, <2>2
    <3>2. queue[i + 1].n < queue[j + 1].n
      BY <1>4, <3>1 DEF QueueOK
    <3> QED
      BY <1>3, <3>2
  <2> QED
    BY <2>1, <2>2 DEF QueueOK
<1>10. StackOK'
  <2> SUFFICES ASSUME NEW u \in Thread, NEW i \in 1..Len(stack'[u]) PROVE FrameOK(u, i)'
    BY DEF StackOK
  <2>1. CASE u = "worker"
    BY <1>1, <1>5, <1>7, <2>1 DEF FrameOK, IsSent
  <2>2. CASE u # "worker"
    <3>1. stack'[u] = stack[u] /\ FrameOK(u, i)
      BY <1>7, <2>2 DEF StackOK
    <3> QED
      BY <1>1, <2>2, <3>1 DEF FrameOK, IsSent, Lives
  <2> QED
    BY <2>1, <2>2
<1>11. HeardOK'
  <2> SUFFICES ASSUME NEW o \in Owner, NEW i \in 1..Len(heard[o])
               PROVE  /\ heard[o][i] \in 1..Len(sent)
                      /\ sent[heard[o][i]] \notin Synchronous =>
                           /\ \A j \in 1..Len(queue') : heard[o][i] < queue'[j].n
                           /\ heard[o][i] <= stack'["worker"][1].event.n
    BY <1>1 DEF HeardOK
  <2>1. heard[o][i] \in 1..Len(sent)
    BY DEF HeardOK
  <2>2. ASSUME sent[heard[o][i]] \notin Synchronous
        PROVE  \A j \in 1..Len(queue) : heard[o][i] < queue[j].n
    BY <2>2 DEF HeardOK
  <2>3. 1 \in 1..Len(queue) /\ event.n \in Nat /\ heard[o][i] \in Nat
    BY <1>3, <2>1 DEF Event
  <2> SUFFICES ASSUME sent[heard[o][i]] \notin Synchronous
               PROVE  /\ \A j \in 1..Len(queue') : heard[o][i] < queue'[j].n
                      /\ heard[o][i] <= event.n
    BY <1>7, <2>1
  <2>4. heard[o][i] < event.n
    BY <1>3, <2>2, <2>3
  <2>5. \A j \in 1..Len(queue') : heard[o][i] < queue'[j].n
    BY <1>3, <1>4, <2>2
  <2> QED
    BY <2>3, <2>4, <2>5
<1>12. InOrder' /\ Wants'
  BY <1>1 DEF InOrder, Wants, Breathes
<1>13. Hears'
  <2> SUFFICES ASSUME NEW w \in wanted, Breathes(w.owner), NEW n \in (w.since + 1)..Len(sent),
                      sent[n] = w.kind
               PROVE  InQueue(n)' \/ ToBeCalled(n, w.owner)' \/ WasCalled(n, w.owner)'
    BY <1>1 DEF Hears, Breathes
  <2>1. CASE InQueue(n)
    <3>1. PICK i \in 1..Len(queue) : queue[i].n = n
      BY <2>1 DEF InQueue
    <3>2. CASE i = 1
      <4>1. event.n = n /\ event.kind = w.kind
        BY <1>3, <1>5, <3>1, <3>2 DEF IsSent
      <4>2. IsCalled("worker", 1, n, w.owner)'
        BY <1>7, <4>1 DEF IsCalled, Wants
      <4> QED
        BY <1>2, <1>7, <4>2 DEF ToBeCalled
    <3>3. CASE i # 1
      <4>1. i - 1 \in 1..Len(queue') /\ queue'[i - 1] = queue[(i - 1) + 1] /\ (i - 1) + 1 = i
        BY <1>3, <3>3
      <4> QED
        BY <3>1, <4>1 DEF InQueue
    <3> QED
      BY <3>2, <3>3
  <2>2. CASE WasCalled(n, w.owner)
    BY <1>1, <2>2 DEF WasCalled
  <2>3. CASE ToBeCalled(n, w.owner)
    <3>1. PICK u \in Thread : \E i \in 1..Len(stack[u]) : IsCalled(u, i, n, w.owner)
      BY <2>3 DEF ToBeCalled
    <3>2. u # "worker"
      BY <1>6, <3>1
    <3>3. stack'[u] = stack[u]
      BY <1>7, <3>2
    <3> QED
      BY <3>1, <3>3 DEF ToBeCalled, IsCalled
  <2> QED
    BY <2>1, <2>2, <2>3 DEF Hears
<1> QED
  BY <1>8, <1>9, <1>10, <1>11, <1>12, <1>13

\* What an emission adds to the history of emissions: the numbers given before stay.
LEMMA SentGrows ==
  ASSUME BusInv, NEW k \in Kind, Len(sent) < MaxEmits, sent' = Append(sent, k)
  PROVE  /\ sent' \in Seq(Kind) /\ Len(sent) \in Nat /\ Len(sent') = Len(sent) + 1
         /\ Len(sent') <= MaxEmits
         /\ \A n \in 1..Len(sent) : sent'[n] = sent[n] /\ n \in 1..Len(sent')
         /\ sent'[Len(sent) + 1] = k
         /\ \A e \in Event : IsSent(e) => IsSent(e)'
<1>1. sent \in Seq(Kind) /\ MaxEmits \in Nat
  BY BusAssumption DEF BusInv, BusTyped
<1>2. /\ sent' \in Seq(Kind) /\ Len(sent) \in Nat /\ Len(sent') = Len(sent) + 1
      /\ sent'[Len(sent) + 1] = k /\ \A n \in 1..Len(sent) : sent'[n] = sent[n]
  BY <1>1
<1> QED
  BY <1>1, <1>2 DEF IsSent

\* The parts of the invariant that an emission keeps of what is under way, if the stack and
\* the queue only grow.
LEMMA EmissionHeard ==
  ASSUME BusInv, NEW k \in Kind, Len(sent) < MaxEmits, sent' = Append(sent, k),
         UNCHANGED <<heard, wanted, alive>>, NEW m, m = Len(sent) + 1,
         \A i \in 1..Len(queue) : i \in 1..Len(queue') /\ queue'[i] = queue[i],
         \A u \in Thread : \A i \in 1..Len(stack[u]) :
           i \in 1..Len(stack'[u]) /\ stack'[u][i] = stack[u][i],
         \A w \in wanted : Breathes(w.owner) /\ w.kind = k =>
           InQueue(m)' \/ ToBeCalled(m, w.owner)'
  PROVE  Hears' /\ InOrder'
<1> USE DEF BusInv
<1>1. /\ Len(sent) \in Nat /\ Len(sent') = Len(sent) + 1 /\ sent'[m] = k
      /\ \A n \in 1..Len(sent) : sent'[n] = sent[n]
  BY SentGrows
<1>2. InOrder'
  <2>1. \A o \in Owner : \A i \in 1..Len(heard[o]) : sent'[heard[o][i]] = sent[heard[o][i]]
    <3>1. \A o \in Owner : \A i \in 1..Len(heard[o]) : heard[o][i] \in 1..Len(sent)
      BY DEF HeardOK
    <3> QED
      BY <1>1, <3>1
  <2>2. InOrder /\ heard' = heard
    OBVIOUS
  <2> SUFFICES ASSUME NEW o \in Owner, NEW i \in 1..Len(heard[o]), NEW j \in 1..Len(heard[o]), i < j,
                      {sent'[heard[o][i]], sent'[heard[o][j]]} \cap Synchronous = {}
               PROVE  heard[o][i] <= heard[o][j]
    BY <2>2 DEF InOrder
  <2>3. {sent[heard[o][i]], sent[heard[o][j]]} \cap Synchronous = {}
    BY <2>1
  <2> QED
    BY <2>2, <2>3 DEF InOrder
<1>3. Hears'
  <2> SUFFICES ASSUME NEW w \in wanted, Breathes(w.owner), NEW n \in (w.since + 1)..Len(sent'),
                      sent'[n] = w.kind
               PROVE  InQueue(n)' \/ ToBeCalled(n, w.owner)' \/ WasCalled(n, w.owner)'
    BY DEF Hears, Breathes
  <2>1. CASE n = m
    BY <1>1, <2>1
  <2>2. CASE n # m
    <3>1. w.since \in Nat
      BY DEF BusTyped
    <3>2. n \in (w.since + 1)..Len(sent) /\ n \in 1..Len(sent)
      BY <1>1, <2>2, <3>1
    <3>3. InQueue(n) \/ ToBeCalled(n, w.owner) \/ WasCalled(n, w.owner)
      BY <1>1, <3>2 DEF Hears
    <3>4. InQueue(n) => InQueue(n)'
      BY DEF InQueue
    <3>5. WasCalled(n, w.owner) => WasCalled(n, w.owner)'
      BY DEF WasCalled
    <3>6. ToBeCalled(n, w.owner) => ToBeCalled(n, w.owner)'
      <4> SUFFICES ASSUME ToBeCalled(n, w.owner) PROVE ToBeCalled(n, w.owner)'
        OBVIOUS
      <4>1. PICK u \in Thread : \E i \in 1..Len(stack[u]) : IsCalled(u, i, n, w.owner)
        BY DEF ToBeCalled
      <4>2. PICK i \in 1..Len(stack[u]) : IsCalled(u, i, n, w.owner)
        BY <4>1
      <4>3. i \in 1..Len(stack'[u]) /\ IsCalled(u, i, n, w.owner)'
        BY <4>2 DEF IsCalled
      <4> QED
        BY <4>3 DEF ToBeCalled
    <3> QED
      BY <3>3, <3>4, <3>5, <3>6
  <2> QED
    BY <2>1, <2>2
<1> QED
  BY <1>2, <1>3

LEMMA EmitKeeps ==
  ASSUME BusInv, NEW t \in Thread, NEW k \in Kind, NEW window \in Window \cup {"none"}, NEW source,
         Emit(t, k, window, source)
  PROVE  BusInv'
<1> USE DEF BusInv
<1> DEFINE m == Len(sent) + 1
           event == [kind |-> k, window |-> window, n |-> m]
<1>1. /\ Len(sent) < MaxEmits /\ sent' = Append(sent, k) /\ recent' = recent \cup ({k} \cap RateLimited)
      /\ UNCHANGED <<bus, subscribers, alive, wanted, heard, subscribed>>
      /\ IF k \in Synchronous THEN Begin(t, event) /\ UNCHANGED queue
         ELSE queue' = Queued(event) /\ UNCHANGED <<bus_history, drag_dedup, emit_count, stack>>
  BY DEF Emit
<1>2. PICK number : number = m
  OBVIOUS
<1>3. /\ sent' \in Seq(Kind) /\ Len(sent) \in Nat /\ Len(sent') = m /\ Len(sent') <= MaxEmits
      /\ \A n \in 1..Len(sent) : sent'[n] = sent[n] /\ n \in 1..Len(sent')
      /\ sent'[m] = k /\ \A e \in Event : IsSent(e) => IsSent(e)'
  BY <1>1, SentGrows
<1>4. event \in Event /\ m \in Nat /\ event.kind = k /\ event.n = m /\ m \in 1..Len(sent') /\ MaxEmits \in Nat
  BY <1>1, <1>3, BusAssumption DEF Event
<1> HIDE DEF m, event
<1>5. /\ queue \in Seq(Event) /\ stack \in [Thread -> Seq(Frame)]
      /\ Len(queue) \in Nat /\ \A i \in 1..Len(queue) : queue[i] \in Event
  <2>1. queue \in Seq(Event)
    BY DEF BusTyped
  <2> QED
    BY <2>1, ElementOfSeq DEF BusTyped
<1>6. \A u \in Thread : Len(stack[u]) \in Nat /\ \A i \in 1..Len(stack[u]) : stack[u][i].event \in Event
  <2> TAKE u \in Thread
  <2>1. stack[u] \in Seq(Frame)
    BY <1>5
  <2>2. \A i \in 1..Len(stack[u]) : stack[u][i] \in Frame
    BY <2>1, ElementOfSeq
  <2> QED
    BY <2>1, <2>2 DEF Frame
<1>7. recent' \subseteq RateLimited /\ \A o \in Owner : \A i \in 1..Len(heard[o]) : heard[o][i] < m
  BY <1>1, <1>3, <1>4 DEF BusTyped, HeardOK, m
<1>8. Wants'
  BY <1>1 DEF Wants, Breathes
<1>9. CASE k \in Synchronous
  <2>1. Begin(t, event) /\ queue' = queue
    BY <1>1, <1>9
  <2> DEFINE top == Len(stack[t]) + 1
  <2>2. /\ bus_history' \in Seq(Event) /\ Len(bus_history') <= MaxQueueSize + 1
        /\ \A w \in DOMAIN drag_dedup' : drag_dedup'[w] \in 1..(MaxQueueSize + 1)
        /\ emit_count' \in 0..(SweepEvery - 1)
        /\ stack' \in [Thread -> Seq(Frame)]
        /\ Len(stack[t]) \in Nat /\ Len(stack'[t]) = top
        /\ \A i \in 1..Len(stack[t]) : stack'[t][i] = stack[t][i]
        /\ \A u \in Thread \ {t} : stack'[u] = stack[u]
        /\ stack'[t][top].event = event /\ stack'[t][top].rest = subscribers[event.kind]
        /\ stack'[t][top].dead = {}
    BY <1>4, <2>1, BeginTyped
  <2>3. top \in 1..Len(stack'[t]) /\ \A i \in 1..Len(stack'[t]) : i = top \/ i \in 1..Len(stack[t])
    BY <2>2
  <2>4. \A u \in Thread : \A i \in 1..Len(stack[u]) : i \in 1..Len(stack'[u]) /\ stack'[u][i] = stack[u][i]
    <3>1. \A i \in 1..Len(stack[t]) : i \in 1..Len(stack'[t]) /\ stack'[t][i] = stack[t][i]
      BY <2>2
    <3>2. ASSUME NEW u \in Thread \ {t}, NEW i \in 1..Len(stack[u])
          PROVE  i \in 1..Len(stack'[u]) /\ stack'[u][i] = stack[u][i]
      <4>1. stack'[u] = stack[u]
        BY <2>2
      <4> QED
        BY <4>1
    <3> QED
      BY <3>1, <3>2
  <2>5. \A u \in Thread : \A i \in 1..Len(stack'[u]) : (u = t /\ i = top) \/ i \in 1..Len(stack[u])
    BY <2>2, <2>3
  <2> HIDE DEF top
  <2>6. BusTyped'
    BY <1>1, <1>3, <1>7, <2>1, <2>2 DEF BusTyped
  <2>7. QueueOK'
    BY <1>3, <1>5, <2>1 DEF QueueOK
  <2>8. StackOK'
    <3> SUFFICES ASSUME NEW u \in Thread, NEW i \in 1..Len(stack'[u]) PROVE FrameOK(u, i)'
      BY DEF StackOK
    <3>1. CASE u = t /\ i = top
      BY <1>3, <1>4, <1>9, <2>2, <3>1 DEF FrameOK, IsSent
    <3>2. CASE i \in 1..Len(stack[u])
      <4>1. FrameOK(u, i) /\ stack'[u][i] = stack[u][i] /\ stack[u][i].event \in Event
        BY <1>6, <2>4, <3>2 DEF StackOK
      <4>2. IsSent(stack[u][i].event)'
        BY <1>3, <4>1 DEF FrameOK
      <4> QED
        BY <1>1, <2>1, <4>1, <4>2 DEF FrameOK, Lives, IsSent
    <3> QED
      BY <2>5, <3>1, <3>2
  <2>9. HeardOK'
    <3>1. "worker" \in Thread
      BY DEF Thread
    <3>2. 1 \in 1..Len(stack'["worker"]) /\ stack'["worker"][1].event.kind \notin Synchronous =>
            1 \in 1..Len(stack["worker"]) /\ stack'["worker"][1] = stack["worker"][1]
      BY <1>4, <1>9, <2>2, <2>4, <2>5, <3>1
    <3> QED
      BY <1>1, <1>3, <2>1, <3>2 DEF HeardOK
  <2>10. ASSUME NEW w \in wanted, Breathes(w.owner), w.kind = k PROVE ToBeCalled(number, w.owner)'
    <3>1. PICK s \in subscribers[k] : s.owner = w.owner
      BY <2>10 DEF Wants
    <3>2. stack'[t][top].event.n = number /\ s \in stack'[t][top].rest
      BY <1>2, <1>4, <2>2, <3>1
    <3>3. \E i \in 1..Len(stack'[t]) : stack'[t][i].event.n = number /\ \E r \in stack'[t][i].rest : r.owner = w.owner
      BY <2>3, <3>1, <3>2
    <3> QED
      BY <3>3 DEF ToBeCalled, IsCalled
  <2>11. Hears' /\ InOrder'
    <3>1. number = Len(sent) + 1
      BY <1>2 DEF m
    <3> QED
      BY <1>1, <2>1, <2>4, <2>10, <3>1, EmissionHeard
  <2> QED
    BY <1>8, <2>6, <2>7, <2>8, <2>9, <2>11
<1>10. CASE k \notin Synchronous
  <2>1. queue' = Append(queue, event) /\ UNCHANGED <<bus_history, drag_dedup, emit_count, stack>>
    BY <1>1, <1>10 DEF Queued
  <2>2. /\ queue' \in Seq(Event) /\ Len(queue') = Len(queue) + 1 /\ queue'[Len(queue) + 1] = event
        /\ \A i \in 1..Len(queue) : i \in 1..Len(queue') /\ queue'[i] = queue[i]
    BY <1>4, <1>5, <2>1
  <2>3. \A i \in 1..Len(queue') : i \in 1..Len(queue) \/ (i = Len(queue) + 1 /\ queue'[i] = event)
    BY <1>5, <2>2
  <2>4. \A i \in 1..Len(queue) : queue[i].n \in Nat /\ queue[i].n < m
    BY <1>3, <1>5 DEF QueueOK, IsSent, Event, m
  <2>5. \A u \in Thread : \A i \in 1..Len(stack[u]) : stack[u][i].event.n < m
    BY <1>3, <1>6 DEF StackOK, FrameOK, IsSent, m
  <2>6. BusTyped'
    BY <1>1, <1>3, <1>7, <2>1, <2>2 DEF BusTyped
  <2>7. QueueOK'
    <3>1. \A i \in 1..Len(queue') :
            /\ queue'[i].n \in 1..Len(sent') /\ sent'[queue'[i].n] = queue'[i].kind
            /\ queue'[i].kind \notin Synchronous
      BY <1>3, <1>4, <1>10, <2>2, <2>3 DEF QueueOK, IsSent
    <3>2. ASSUME NEW i \in 1..Len(queue'), NEW j \in 1..Len(queue'), i < j PROVE queue'[i].n < queue'[j].n
      BY <1>4, <1>5, <2>2, <2>3, <2>4, <3>2 DEF QueueOK
    <3> QED
      BY <3>1, <3>2 DEF QueueOK, IsSent
  <2>8. StackOK'
    <3> SUFFICES ASSUME NEW u \in Thread, NEW i \in 1..Len(stack[u]) PROVE FrameOK(u, i)'
      BY <2>1 DEF StackOK
    <3>1. FrameOK(u, i) /\ stack'[u][i] = stack[u][i] /\ stack[u][i].event \in Event
      BY <1>6, <2>1 DEF StackOK
    <3>2. stack[u][i].event.n \in 1..Len(sent') /\ sent'[stack[u][i].event.n] = stack[u][i].event.kind
      BY <1>3, <3>1 DEF FrameOK, IsSent
    <3>3. \A j \in 1..Len(queue') : j \in 1..Len(queue) \/ stack[u][i].event.n < queue'[j].n
      BY <1>4, <2>3, <2>5
    <3> QED
      BY <1>1, <2>1, <2>2, <3>1, <3>2, <3>3 DEF FrameOK, Lives, IsSent
  <2>9. HeardOK'
    <3> SUFFICES ASSUME NEW o \in Owner, NEW i \in 1..Len(heard[o])
                 PROVE  /\ heard[o][i] \in 1..Len(sent')
                        /\ sent'[heard[o][i]] \notin Synchronous =>
                             /\ \A j \in 1..Len(queue') : heard[o][i] < queue'[j].n
                             /\ 1 \in 1..Len(stack["worker"]) /\ stack["worker"][1].event.kind \notin Synchronous
                                  => heard[o][i] <= stack["worker"][1].event.n
      BY <1>1, <2>1 DEF HeardOK
    <3>1. heard[o][i] \in 1..Len(sent) /\ heard[o][i] < m
      BY <1>7 DEF HeardOK
    <3>2. heard[o][i] \in 1..Len(sent') /\ sent'[heard[o][i]] = sent[heard[o][i]]
      BY <1>3, <3>1
    <3>3. sent[heard[o][i]] \notin Synchronous =>
            /\ \A j \in 1..Len(queue) : heard[o][i] < queue[j].n
            /\ 1 \in 1..Len(stack["worker"]) /\ stack["worker"][1].event.kind \notin Synchronous
                 => heard[o][i] <= stack["worker"][1].event.n
      BY DEF HeardOK
    <3>4. ASSUME sent[heard[o][i]] \notin Synchronous, NEW j \in 1..Len(queue')
          PROVE  heard[o][i] < queue'[j].n
      <4>1. CASE j \in 1..Len(queue)
        BY <2>2, <3>3, <3>4, <4>1
      <4>2. CASE queue'[j] = event
        BY <1>4, <3>1, <4>2
      <4> QED
        BY <2>3, <4>1, <4>2
    <3> QED
      BY <3>2, <3>3, <3>4
  <2>10. InQueue(number)'
    <3>1. Len(queue) + 1 \in 1..Len(queue') /\ queue'[Len(queue) + 1].n = number
      BY <1>2, <1>4, <1>5, <2>2
    <3> QED
      BY <3>1 DEF InQueue
  <2>11. Hears' /\ InOrder'
    <3>1. number = Len(sent) + 1
      BY <1>2 DEF m
    <3>2. \A u \in Thread : \A i \in 1..Len(stack[u]) : i \in 1..Len(stack'[u]) /\ stack'[u][i] = stack[u][i]
      BY <2>1
    <3> QED
      BY <1>1, <2>2, <2>10, <3>1, <3>2, EmissionHeard
  <2> QED
    BY <1>8, <2>6, <2>7, <2>8, <2>9, <2>11
<1> QED
  BY <1>9, <1>10

-----------------------------------------------------------------------------
(* Every step                                                              *)

LEMMA BusStep == BusInv /\ [BusNext]_busVars => BusInv'
<1> SUFFICES ASSUME BusInv, [BusNext]_busVars PROVE BusInv'
  OBVIOUS
<1>1. Emitted \subseteq Kind
  BY EmittedAssumption
<1>2. ASSUME NEW t \in Thread PROVE CallNext(t) \/ DropDead(t) \/ Finish(t) => BusInv'
  BY CallNextKeeps, DropDeadKeeps, FinishKeeps
<1>3. ASSUME NEW t \in Thread, NEW k \in Emitted, NEW o \in Owner
      PROVE  Subscribe(t, k, o) \/ Unsubscribe(t, k, o) => BusInv'
  BY <1>1, SubscribeKeeps, UnsubscribeKeeps
<1>4. ASSUME NEW t \in Thread, NEW k \in Emitted, NEW w \in IF k = "drag_update" THEN Window ELSE {"none"},
             NEW source, Emit(t, k, w, source)
      PROVE  BusInv'
  <2>1. w \in Window \cup {"none"} /\ k \in Kind
    BY <1>1
  <2> QED
    BY <1>4, <2>1, EmitKeeps
<1>5. ASSUME NEW t \in Thread, NEW o \in Object PROVE UnsubscribeAll(t, o) => BusInv'
  BY UnsubscribeAllKeeps
<1>6. ASSUME NEW o \in Object PROVE Collected(o) => BusInv'
  BY CollectedKeeps
<1>7. ASSUME NEW k \in RateLimited, IntervalOver(k) PROVE BusInv'
  BY <1>7, QuietKeeps DEF IntervalOver, BusInv, BusTyped
<1>8. CASE CreateBus
  BY <1>8, QuietKeeps DEF CreateBus, BusInv, BusTyped
<1>9. CASE UNCHANGED busVars
  BY <1>9, QuietKeeps DEF busVars, BusInv, BusTyped
<1>10. CASE Worker
  BY <1>10, WorkerKeeps
<1> QED
  BY <1>2, <1>3, <1>4, <1>5, <1>6, <1>7, <1>8, <1>9, <1>10 DEF BusNext

LEMMA BusInvSound == BusInv => BusSound
<1> SUFFICES ASSUME BusInv PROVE BusSound
  OBVIOUS
<1>1. BusTypeOK /\ HistoryBounded /\ InOrder
  BY DEF BusInv, BusTyped, BusTypeOK, HistoryBounded
<1>2. EveryoneHears
  <2> SUFFICES ASSUME NEW w \in wanted, Breathes(w.owner), NEW n \in (w.since + 1)..Len(sent),
                      sent[n] = w.kind, n \notin Underway
               PROVE  WasCalled(n, w.owner)
    BY DEF EveryoneHears, Breathes, WasCalled
  <2>1. InQueue(n) \/ ToBeCalled(n, w.owner) \/ WasCalled(n, w.owner)
    BY DEF BusInv, Hears
  <2>2. ~InQueue(n)
    BY DEF InQueue, Underway
  <2>3. ~ToBeCalled(n, w.owner)
    BY DEF ToBeCalled, IsCalled, Underway
  <2> QED
    BY <2>1, <2>2, <2>3
<1> QED
  BY <1>1, <1>2 DEF BusSound

\* Whatever the callbacks do, the history of the bus stays bounded, an owner hears the queued
\* events in the order of their emission, and whoever subscribed and still lives has heard
\* every event since that is not under way (_dispatch_event, subscribe, unsubscribe).
THEOREM BusAlwaysSound == BusSpec => []BusSound
<1>1. BusInit => BusInv
  BY InitBus
<1>2. BusInv /\ [BusNext]_busVars => BusInv'
  BY BusStep
<1>3. BusInv => BusSound
  BY BusInvSound
<1> QED
  BY <1>1, <1>2, <1>3, PTL DEF BusSpec

-----------------------------------------------------------------------------
(* PART TWO: the locks and message objects                                 *)

KernelObject ==
  [key : Kinds \X ObjectName, kind : Kinds, owner : Proc, authorized : SUBSET Proc, content : Seq(Nat)]

LocksTyped ==
  /\ holder \in Tid \cup {NoTid} /\ mutex_queue \in Seq(Tid)
  /\ count \in Nat /\ sem_queue \in Seq(Tid) /\ entered \in Seq(Tid) /\ signals \in Nat
LocksInv == LocksTyped /\ NobodyForgotten /\ SemaphoreCounts

\* What has happened to the messages of one object: given are those sent, got those received.
Increasing(s) == \A i, j \in 1..Len(s) : i < j => s[i] < s[j]
Keeps(kind, content, got, given) ==
  /\ content \in Seq(Nat) /\ got \in Seq(Nat) /\ given \in Seq(Nat)
  /\ \A i \in 1..Len(given) : given[i] = i
  /\ kind = "memory" => got = << >> /\ Len(content) <= 1
  /\ kind # "memory" =>
       /\ Len(content) <= Len(given)
       /\ \A i \in 1..Len(content) : content[i] = Len(given) - Len(content) + i
       /\ Increasing(got) /\ \A i \in 1..Len(got) : got[i] \in 1..(Len(given) - Len(content))
  /\ kind = "pipe" => Len(got) = Len(given) - Len(content) /\ \A i \in 1..Len(got) : got[i] = i
  /\ kind = "queue" => Len(content) <= QueueSize

Seen(content, got) == ToSet(got) \cup ToSet(content)

\* A message a queue has lost is older than as many as it holds.
Lost(content, got, given) ==
  \A m \in 1..Len(given) : m \notin Seen(content, got) =>
    \E S \in SUBSET {k \in Seen(content, got) : k > m} : IsFiniteSet(S) /\ Cardinality(S) >= QueueSize

IpcTyped ==
  /\ objects \in Seq(KernelObject) /\ Len(sent_messages) = Len(objects) /\ Len(received) = Len(objects)
  /\ sent_messages \in Seq(Seq(Nat)) /\ received \in Seq(Seq(Nat))
  /\ dead \subseteq Proc /\ pending_deaths \in Seq(Proc)

TableOK ==
  /\ DOMAIN table \subseteq Kinds \X ObjectName
  /\ \A k \in DOMAIN table : table[k] \in 1..Len(objects) /\ objects[table[k]].key = k
  /\ \A o \in 1..Len(objects) : objects[o].key[1] = objects[o].kind
  /\ \A i \in 1..Len(pending_deaths) : pending_deaths[i] \in dead

MessagesOK ==
  \A o \in 1..Len(objects) :
    /\ Keeps(objects[o].kind, objects[o].content, received[o], sent_messages[o])
    /\ objects[o].kind = "queue" => Lost(objects[o].content, received[o], sent_messages[o])

IpcInv == IpcTyped /\ TableOK /\ MessagesOK /\ DeadOwnNothing

-----------------------------------------------------------------------------
(* Mutex and semaphore                                                     *)

LEMMA LocksStay ==
  ASSUME LocksInv, UNCHANGED <<holder, mutex_queue, count, sem_queue, entered, signals>>
  PROVE  LocksInv'
BY DEF LocksInv, LocksTyped, NobodyForgotten, SemaphoreCounts

LEMMA TailOf ==
  ASSUME NEW S, NEW s \in Seq(S), s # << >>
  PROVE  /\ Head(s) \in S /\ Tail(s) \in Seq(S) /\ Len(s) \in Nat \ {0} /\ Len(Tail(s)) = Len(s) - 1
         /\ Head(s) = s[1] /\ \A i \in 1..Len(Tail(s)) : i + 1 \in 1..Len(s) /\ Tail(s)[i] = s[i + 1]
<1>1. Len(s) \in Nat \ {0} /\ Len(Tail(s)) = Len(s) - 1 /\ Tail(s) \in Seq(S) /\ Head(s) \in S /\ Head(s) = s[1]
  OBVIOUS
<1>2. \A i \in 1..Len(Tail(s)) : i + 1 \in 1..Len(s) /\ Tail(s)[i] = s[i + 1]
  BY <1>1
<1> QED
  BY <1>1, <1>2

LEMMA MutexKeeps ==
  ASSUME LocksInv, NEW t \in Tid, Acquire(t) \/ ReleaseMutex(t)
  PROVE  LocksInv'
<1> USE DEF LocksInv
<1>1. UNCHANGED <<count, sem_queue, entered, signals>>
  BY DEF Acquire, ReleaseMutex
<1>2. /\ holder \in Tid \cup {NoTid} /\ mutex_queue \in Seq(Tid) /\ Len(mutex_queue) \in Nat
      /\ holder = NoTid => mutex_queue = << >>
      /\ \A i, j \in 1..Len(mutex_queue) : i # j => mutex_queue[i] # mutex_queue[j]
      /\ NoTid \notin Tid
  BY ObjectsAssumption DEF LocksTyped, NobodyForgotten
<1>3. CASE holder = NoTid /\ holder' = t /\ mutex_queue' = mutex_queue
  BY <1>1, <1>2, <1>3 DEF LocksTyped, NobodyForgotten, SemaphoreCounts
<1>4. CASE UNCHANGED <<holder, mutex_queue>>
  BY <1>1, <1>4, LocksStay
<1>5. CASE holder # NoTid /\ holder' = holder /\ ~Contains(mutex_queue, t) /\ mutex_queue' = Append(mutex_queue, t)
  <2>1. mutex_queue' \in Seq(Tid) /\ Len(mutex_queue') = Len(mutex_queue) + 1
    BY <1>2, <1>5
  <2>2. \A i \in 1..Len(mutex_queue) : mutex_queue'[i] = mutex_queue[i] /\ mutex_queue[i] # t
    BY <1>2, <1>5 DEF Contains
  <2>3. mutex_queue'[Len(mutex_queue) + 1] = t
    BY <1>2, <1>5
  <2>4. \A i \in 1..Len(mutex_queue') : i \in 1..Len(mutex_queue) \/ i = Len(mutex_queue) + 1
    BY <1>2, <2>1
  <2>5. \A i, j \in 1..Len(mutex_queue') : i # j => mutex_queue'[i] # mutex_queue'[j]
    BY <1>2, <2>2, <2>3, <2>4
  <2>6. NobodyForgotten'
    BY <1>1, <1>5, <2>5 DEF NobodyForgotten
  <2> QED
    BY <1>1, <1>2, <1>5, <2>1, <2>6 DEF LocksTyped, SemaphoreCounts
<1>6. CASE mutex_queue # << >> /\ holder' = Head(mutex_queue) /\ mutex_queue' = Tail(mutex_queue)
  <2>1. /\ Head(mutex_queue) \in Tid /\ mutex_queue' \in Seq(Tid) /\ Len(mutex_queue') = Len(mutex_queue) - 1
        /\ \A i \in 1..Len(mutex_queue') : i + 1 \in 1..Len(mutex_queue) /\ mutex_queue'[i] = mutex_queue[i + 1]
    BY <1>2, <1>6, TailOf
  <2>2. holder' # NoTid
    BY <1>2, <1>6, <2>1
  <2>3. \A i, j \in 1..Len(mutex_queue') : i # j => mutex_queue'[i] # mutex_queue'[j]
    <3> TAKE i, j \in 1..Len(mutex_queue')
    <3>1. i # j => i + 1 # j + 1
      OBVIOUS
    <3> QED
      BY <1>2, <2>1, <3>1
  <2>4. NobodyForgotten'
    BY <1>1, <2>2, <2>3 DEF NobodyForgotten
  <2> QED
    BY <1>1, <1>6, <2>1, <2>4 DEF LocksTyped, SemaphoreCounts
<1>7. CASE mutex_queue = << >> /\ holder' = NoTid /\ mutex_queue' = << >>
  BY <1>1, <1>7 DEF LocksTyped, NobodyForgotten, SemaphoreCounts
<1> QED
  BY <1>3, <1>4, <1>5, <1>6, <1>7 DEF Acquire, ReleaseMutex, NextHolder

LEMMA SemaphoreKeeps ==
  ASSUME LocksInv, NEW t \in Tid, Wait(t) \/ Signal(t)
  PROVE  LocksInv'
<1> USE DEF LocksInv
<1>1. UNCHANGED <<holder, mutex_queue>>
  BY DEF Wait, Signal
<1>2. /\ count \in Nat /\ sem_queue \in Seq(Tid) /\ entered \in Seq(Tid) /\ signals \in Nat /\ Initial \in Nat
      /\ Len(entered) \in Nat /\ count + Len(entered) = Initial + signals /\ (count > 0 => sem_queue = << >>)
  BY ObjectsAssumption DEF LocksTyped, NobodyForgotten, SemaphoreCounts
<1>3. \A u \in Tid : Append(entered, u) \in Seq(Tid) /\ Len(Append(entered, u)) = Len(entered) + 1
  BY <1>2
<1>4. NobodyForgotten' <=> (count' > 0 => sem_queue' = << >>)
  BY <1>1 DEF NobodyForgotten
<1>5. CASE Wait(t)
  <2>1. CASE count > 0
    <3>1. /\ count' = count - 1 /\ entered' = Append(entered, t) /\ sem_queue' = sem_queue
          /\ signals' = signals
      BY <1>5, <2>1 DEF Wait
    <3>2. count' \in Nat /\ entered' \in Seq(Tid) /\ Len(entered') = Len(entered) + 1
      BY <1>2, <1>3, <2>1, <3>1
    <3>3. sem_queue' = << >> /\ sem_queue' \in Seq(Tid)
      BY <1>2, <2>1, <3>1
    <3>4. count' + Len(entered') = Initial + signals'
      BY <1>2, <2>1, <3>1, <3>2
    <3> QED
      BY <1>1, <1>2, <1>4, <3>1, <3>2, <3>3, <3>4 DEF LocksTyped, SemaphoreCounts
  <2>2. CASE ~(count > 0)
    <3>1. sem_queue' = Append(sem_queue, t) /\ UNCHANGED <<count, entered, signals>>
      BY <1>5, <2>2 DEF Wait
    <3>2. sem_queue' \in Seq(Tid) /\ ~(count' > 0)
      BY <1>2, <2>2, <3>1
    <3> QED
      BY <1>1, <1>2, <1>4, <3>1, <3>2 DEF LocksTyped, SemaphoreCounts
  <2> QED
    BY <2>1, <2>2
<1>6. CASE Signal(t)
  <2>1. CASE sem_queue = << >>
    BY <1>1, <1>2, <1>4, <1>6, <2>1 DEF Signal, CountAfterSignal, LocksTyped, SemaphoreCounts
  <2>2. CASE sem_queue # << >>
    <3>1. Head(sem_queue) \in Tid /\ Tail(sem_queue) \in Seq(Tid)
      BY <1>2, <2>2, TailOf
    <3>2. entered' \in Seq(Tid) /\ Len(entered') = Len(entered) + 1 /\ sem_queue' \in Seq(Tid)
          /\ count' = count /\ signals' = signals + 1 /\ ~(count > 0)
      BY <1>2, <1>3, <1>6, <2>2, <3>1 DEF Signal, CountAfterSignal
    <3> QED
      BY <1>1, <1>2, <1>4, <3>2 DEF LocksTyped, SemaphoreCounts
  <2> QED
    BY <2>1, <2>2
<1> QED
  BY <1>5, <1>6

LEMMA LocksStep == LocksInv /\ [ObjectsNext]_objectVars => LocksInv'
<1> SUFFICES ASSUME LocksInv, [ObjectsNext]_objectVars PROVE LocksInv'
  OBVIOUS
<1>1. ASSUME NEW t \in Tid, CreateThread(t) \/ TerminateThread(t) PROVE LocksInv'
  BY <1>1, LocksStay DEF CreateThread, TerminateThread
<1>2. ASSUME NEW t \in Tid PROVE Acquire(t) \/ ReleaseMutex(t) \/ Wait(t) \/ Signal(t) => LocksInv'
  BY MutexKeeps, SemaphoreKeeps
<1>3. IPC \/ UNCHANGED objectVars => LocksInv'
  BY LocksStay DEF IPC, objectVars, threadVars
<1> QED
  BY <1>1, <1>2, <1>3 DEF ObjectsNext, Die, Create, Authorize, Send, Receive, OnOwnerDeath

-----------------------------------------------------------------------------
(* The messages of one object                                              *)

LEMMA ElementsOf ==
  ASSUME NEW S, NEW s \in Seq(S)
  PROVE  Len(s) \in Nat /\ ToSet(s) \subseteq S /\ \A e : e \in ToSet(s) <=> \E i \in 1..Len(s) : s[i] = e
<1>1. DOMAIN s = 1..Len(s) /\ Len(s) \in Nat /\ \A i \in 1..Len(s) : s[i] \in S
  BY LenProperties, ElementOfSeq
<1> QED
  BY <1>1 DEF ToSet

LEMMA Appended ==
  ASSUME NEW S, NEW s \in Seq(S), NEW e \in S
  PROVE  /\ Append(s, e) \in Seq(S) /\ Len(s) \in Nat /\ Len(Append(s, e)) = Len(s) + 1
         /\ \A i \in 1..Len(s) : Append(s, e)[i] = s[i]
         /\ Append(s, e)[Len(s) + 1] = e
         /\ \A i \in 1..(Len(s) + 1) : i \in 1..Len(s) \/ i = Len(s) + 1
<1>1. Len(s) \in Nat
  OBVIOUS
<1> QED
  BY <1>1, AppendProperties

\* The next message is given to the object.
LEMMA GivenOn ==
  ASSUME NEW given \in Seq(Nat), \A i \in 1..Len(given) : given[i] = i
  PROVE  /\ Len(given) \in Nat /\ Append(given, Len(given) + 1) \in Seq(Nat)
         /\ Len(Append(given, Len(given) + 1)) = Len(given) + 1
         /\ \A i \in 1..(Len(given) + 1) : Append(given, Len(given) + 1)[i] = i
<1>1. Len(given) \in Nat /\ Len(given) + 1 \in Nat
  OBVIOUS
<1> QED
  BY <1>1, Appended

\* One more message at the end.
LEMMA Grown ==
  ASSUME NEW kind \in {"queue", "pipe"}, NEW content, NEW got, NEW given, Keeps(kind, content, got, given),
         kind = "queue" => Len(content) < QueueSize
  PROVE  LET more == Append(content, Len(given) + 1)
             all == Append(given, Len(given) + 1)
         IN  Keeps(kind, more, got, all) /\ (Lost(content, got, given) => Lost(more, got, all))
<1> DEFINE L == Len(given)
           n == Len(content)
           more == Append(content, L + 1)
           all == Append(given, L + 1)
<1>1. /\ content \in Seq(Nat) /\ got \in Seq(Nat) /\ given \in Seq(Nat)
      /\ \A i \in 1..L : given[i] = i
      /\ n <= L /\ \A i \in 1..n : content[i] = L - n + i
      /\ Increasing(got) /\ \A i \in 1..Len(got) : got[i] \in 1..(L - n)
      /\ kind = "pipe" => Len(got) = L - n /\ \A i \in 1..Len(got) : got[i] = i
  BY DEF Keeps
<1>2. L \in Nat /\ all \in Seq(Nat) /\ Len(all) = L + 1 /\ \A i \in 1..(L + 1) : all[i] = i
  BY <1>1, GivenOn
<1>3. /\ more \in Seq(Nat) /\ n \in Nat /\ Len(more) = n + 1 /\ \A i \in 1..n : more[i] = content[i]
      /\ more[n + 1] = L + 1 /\ \A i \in 1..(n + 1) : i \in 1..n \/ i = n + 1
  BY <1>1, <1>2, Appended
<1>4. kind = "queue" => n + 1 <= QueueSize
  BY <1>3, ObjectsAssumption
<1> HIDE DEF L, n, more, all
<1>5. L + 1 - (n + 1) = L - n /\ n + 1 <= L + 1
  BY <1>1, <1>2, <1>3
<1>6. \A i \in 1..(n + 1) : more[i] = L - n + i
  <2> TAKE i \in 1..(n + 1)
  <2>1. CASE i \in 1..n
    BY <1>1, <1>3, <2>1
  <2>2. CASE i = n + 1
    BY <1>2, <1>3, <2>2
  <2> QED
    BY <1>3, <2>1, <2>2
<1>7. Keeps(kind, more, got, all)
  <2>1. kind # "memory"
    OBVIOUS
  <2>2. /\ Len(more) <= Len(all) /\ Len(all) - Len(more) = L - n
        /\ \A i \in 1..Len(more) : more[i] = L - n + i
        /\ \A i \in 1..Len(all) : all[i] = i
    BY <1>2, <1>3, <1>5, <1>6
  <2>3. kind = "queue" => Len(more) <= QueueSize
    BY <1>3, <1>4
  <2> QED
    BY <1>1, <1>2, <1>3, <2>1, <2>2, <2>3 DEF Keeps
<1>8. ASSUME Lost(content, got, given) PROVE Lost(more, got, all)
  <2>1. Seen(content, got) \subseteq Seen(more, got)
    <3>1. \A e \in ToSet(content) : e \in ToSet(more)
      <4> TAKE e \in ToSet(content)
      <4>1. PICK i \in 1..n : content[i] = e
        BY <1>1, ElementsOf DEF n
      <4>2. i \in 1..Len(more) /\ more[i] = e
        BY <1>3, <4>1
      <4> QED
        BY <1>3, <4>2, ElementsOf
    <3> QED
      BY <3>1 DEF Seen
  <2>2. L + 1 \in Seen(more, got)
    <3>1. n + 1 \in 1..Len(more) /\ more[n + 1] = L + 1
      BY <1>3
    <3> QED
      BY <1>3, <3>1, ElementsOf DEF Seen
  <2> SUFFICES ASSUME NEW m \in 1..Len(all), m \notin Seen(more, got)
               PROVE  \E S \in SUBSET {k \in Seen(more, got) : k > m} : IsFiniteSet(S) /\ Cardinality(S) >= QueueSize
    BY DEF Lost
  <2>3. m \in 1..L /\ m \notin Seen(content, got)
    BY <1>2, <2>1, <2>2
  <2>4. PICK S \in SUBSET {k \in Seen(content, got) : k > m} : IsFiniteSet(S) /\ Cardinality(S) >= QueueSize
    BY <1>8, <2>3 DEF Lost, L
  <2>5. S \in SUBSET {k \in Seen(more, got) : k > m}
    BY <2>1
  <2> QED
    BY <2>4, <2>5
<1> QED
  BY <1>7, <1>8 DEF L, more, all

\* A full queue loses its oldest message for the new one.
LEMMA Pushed ==
  ASSUME NEW content, NEW got, NEW given, Keeps("queue", content, got, given), Len(content) = QueueSize
  PROVE  LET more == Append(Tail(content), Len(given) + 1)
             all == Append(given, Len(given) + 1)
         IN  Keeps("queue", more, got, all) /\ Lost(more, got, all)
<1> DEFINE L == Len(given)
           n == Len(content)
           rest == Tail(content)
           more == Append(rest, L + 1)
           all == Append(given, L + 1)
<1>1. /\ content \in Seq(Nat) /\ got \in Seq(Nat) /\ given \in Seq(Nat)
      /\ \A i \in 1..L : given[i] = i
      /\ n <= L /\ \A i \in 1..n : content[i] = L - n + i
      /\ Increasing(got) /\ \A i \in 1..Len(got) : got[i] \in 1..(L - n)
  BY DEF Keeps
<1>2. L \in Nat /\ all \in Seq(Nat) /\ Len(all) = L + 1 /\ \A i \in 1..(L + 1) : all[i] = i
  BY <1>1, GivenOn
<1>3. n = QueueSize /\ n \in Nat \ {0} /\ content # << >>
  BY <1>1, ObjectsAssumption
<1>4. /\ rest \in Seq(Nat) /\ Len(rest) = n - 1
      /\ \A i \in 1..Len(rest) : i + 1 \in 1..n /\ rest[i] = content[i + 1]
  BY <1>1, <1>3, TailOf
<1>5. /\ more \in Seq(Nat) /\ Len(more) = Len(rest) + 1 /\ \A i \in 1..Len(rest) : more[i] = rest[i]
      /\ more[Len(rest) + 1] = L + 1 /\ \A i \in 1..(Len(rest) + 1) : i \in 1..Len(rest) \/ i = Len(rest) + 1
  BY <1>2, <1>4, Appended
<1> HIDE DEF L, n, rest, more, all
<1>6. Len(more) = n /\ \A i \in 1..n : more[i] = (L + 1) - n + i
  <2>1. Len(more) = n /\ Len(rest) + 1 = n
    BY <1>3, <1>4, <1>5
  <2>2. \A i \in 1..Len(rest) : more[i] = (L + 1) - n + i
    <3> TAKE i \in 1..Len(rest)
    <3>1. more[i] = content[i + 1] /\ i + 1 \in 1..n
      BY <1>4, <1>5
    <3>2. more[i] = L - n + (i + 1)
      BY <1>1, <3>1
    <3> QED
      BY <1>2, <1>3, <3>1, <3>2
  <2>3. more[n] = (L + 1) - n + n
    BY <1>2, <1>3, <1>5, <2>1
  <2> QED
    BY <1>5, <2>1, <2>2, <2>3
<1>7. Keeps("queue", more, got, all)
  <2>1. n <= L + 1 /\ \A i \in 1..Len(got) : got[i] \in 1..((L + 1) - n)
    BY <1>1, <1>2, <1>3
  <2> QED
    BY <1>1, <1>2, <1>3, <1>5, <1>6, <2>1 DEF Keeps
<1>8. Lost(more, got, all)
  <2> SUFFICES ASSUME NEW m \in 1..Len(all), m \notin Seen(more, got)
               PROVE  \E S \in SUBSET {k \in Seen(more, got) : k > m} : IsFiniteSet(S) /\ Cardinality(S) >= QueueSize
    BY DEF Lost
  <2> DEFINE S == ((L + 1) - n + 1)..(L + 1)
  <2>1. \A k \in S : k \in Seen(more, got)
    <3> TAKE k \in S
    <3>1. k - ((L + 1) - n) \in 1..n
      BY <1>1, <1>2, <1>3
    <3>2. more[k - ((L + 1) - n)] = k
      BY <1>2, <1>3, <1>6, <3>1
    <3> QED
      BY <1>5, <1>6, <3>1, <3>2, ElementsOf DEF Seen
  <2>2. \A k \in S : k > m
    <3>1. m \notin S /\ m \in 1..(L + 1)
      BY <1>2, <2>1
    <3> QED
      BY <1>1, <1>2, <1>3, <3>1
  <2>3. IsFiniteSet(S) /\ Cardinality(S) = n
    <3>1. (L + 1) - n + 1 \in Int /\ L + 1 \in Int /\ (L + 1) - n + 1 <= L + 1
          /\ (L + 1) - ((L + 1) - n + 1) + 1 = n
      BY <1>2, <1>3
    <3> QED
      BY <3>1, FS_Interval
  <2>4. S \in SUBSET {k \in Seen(more, got) : k > m}
    BY <2>1, <2>2
  <2> HIDE DEF S
  <2>5. Cardinality(S) >= QueueSize
    BY <1>3, <2>3
  <2> QED
    BY <2>3, <2>4, <2>5
<1> QED
  BY <1>7, <1>8 DEF L, rest, more, all

LEMMA StoredKeeps ==
  ASSUME NEW object \in KernelObject, NEW got, NEW given,
         Keeps(object.kind, object.content, got, given),
         object.kind = "queue" => Lost(object.content, got, given)
  PROVE  LET more == Stored(object, Len(given) + 1)
             all == Append(given, Len(given) + 1)
         IN  /\ more \in Seq(Nat) /\ Keeps(object.kind, more, got, all)
             /\ object.kind = "queue" => Lost(more, got, all)
<1> DEFINE m == Len(given) + 1
<1>1. object.kind \in Kinds
  BY DEF KernelObject
<1>2. given \in Seq(Nat) /\ got \in Seq(Nat) /\ m \in Nat /\ object.content \in Seq(Nat) /\ Len(object.content) \in Nat
      /\ \A i \in 1..Len(given) : given[i] = i
  BY DEF Keeps
<1>3. CASE object.kind = "memory"
  <2>1. Stored(object, m) = <<m>>
    BY <1>3 DEF Stored
  <2>2. <<m>> \in Seq(Nat) /\ Len(<<m>>) = 1
    BY <1>2
  <2>3. Append(given, m) \in Seq(Nat) /\ \A i \in 1..Len(Append(given, m)) : Append(given, m)[i] = i
    BY <1>2, GivenOn
  <2>4. got = << >>
    BY <1>3 DEF Keeps
  <2> HIDE DEF m
  <2>5. Keeps(object.kind, <<m>>, got, Append(given, m))
    BY <1>2, <1>3, <2>2, <2>3, <2>4 DEF Keeps
  <2> QED
    BY <1>3, <2>1, <2>2, <2>5 DEF m
<1>4. CASE object.kind = "pipe"
  <2>1. Stored(object, m) = Append(object.content, m)
    BY <1>4 DEF Stored
  <2>2. Keeps(object.kind, Append(object.content, m), got, Append(given, m))
    BY <1>4, Grown
  <2> QED
    BY <1>4, <2>1, <2>2 DEF Keeps
<1>5. CASE object.kind = "queue" /\ Len(object.content) = QueueSize
  <2>1. Stored(object, m) = Append(Tail(object.content), m)
    BY <1>5 DEF Stored
  <2>2. /\ Keeps(object.kind, Append(Tail(object.content), m), got, Append(given, m))
        /\ Lost(Append(Tail(object.content), m), got, Append(given, m))
    BY <1>5, Pushed
  <2> QED
    BY <2>1, <2>2 DEF Keeps
<1>6. CASE object.kind = "queue" /\ Len(object.content) # QueueSize
  <2>1. Stored(object, m) = Append(object.content, m)
    BY <1>6 DEF Stored
  <2>2. Len(object.content) < QueueSize
    BY <1>2, <1>6, ObjectsAssumption DEF Keeps
  <2>3. /\ Keeps(object.kind, Append(object.content, m), got, Append(given, m))
        /\ Lost(Append(object.content, m), got, Append(given, m))
    BY <1>6, <2>2, Grown
  <2> QED
    BY <2>1, <2>3 DEF Keeps
<1> QED
  BY <1>1, <1>3, <1>4, <1>5, <1>6 DEF Kinds

\* The oldest messages go from the object to a reader.
LEMMA HandedOver ==
  ASSUME NEW kind \in {"queue", "pipe"}, NEW content, NEW got, NEW given, Keeps(kind, content, got, given),
         NEW d \in 1..Len(content)
  PROVE  LET out == SubSeq(content, 1, d)
             rest == SubSeq(content, d + 1, Len(content))
         IN  /\ Len(out) = d /\ out \in Seq(Nat) /\ rest \in Seq(Nat)
             /\ Keeps(kind, rest, got \o out, given)
             /\ Lost(content, got, given) => Lost(rest, got \o out, given)
<1> DEFINE L == Len(given)
           n == Len(content)
           g == Len(got)
           out == SubSeq(content, 1, d)
           rest == SubSeq(content, d + 1, n)
           now == got \o out
<1>1. /\ content \in Seq(Nat) /\ got \in Seq(Nat) /\ given \in Seq(Nat)
      /\ \A i \in 1..L : given[i] = i
      /\ n <= L /\ \A i \in 1..n : content[i] = L - n + i
      /\ Increasing(got) /\ \A i \in 1..g : got[i] \in 1..(L - n)
      /\ kind = "pipe" => g = L - n /\ \A i \in 1..g : got[i] = i
      /\ kind = "queue" => n <= QueueSize
  BY DEF Keeps
<1>2. L \in Nat /\ n \in Nat /\ g \in Nat /\ d \in 1..n /\ \A i \in 1..n : content[i] \in Nat
  BY <1>1, ElementOfSeq, LenProperties
<1>3. out \in Seq(Nat) /\ Len(out) = d /\ \A i \in 1..d : out[i] = content[i]
  <2>1. \A i \in 1..d : content[i] \in Nat
    BY <1>2
  <2>2. /\ out \in Seq(Nat) /\ Len(out) = (IF 1 <= d THEN d - 1 + 1 ELSE 0)
        /\ \A i \in 1..(d - 1 + 1) : out[i] = content[1 + i - 1]
    BY <1>2, <2>1, SubSeqProperties
  <2> HIDE DEF out
  <2>3. d - 1 + 1 = d /\ 1 <= d /\ \A i \in 1..d : 1 + i - 1 = i
    BY <1>2
  <2> QED
    BY <2>2, <2>3
<1>4. rest \in Seq(Nat) /\ Len(rest) = n - d /\ \A i \in 1..(n - d) : rest[i] = content[d + i]
  <2>1. \A i \in (d + 1)..n : content[i] \in Nat
    BY <1>2
  <2>2. /\ rest \in Seq(Nat) /\ Len(rest) = (IF d + 1 <= n THEN n - (d + 1) + 1 ELSE 0)
        /\ \A i \in 1..(n - (d + 1) + 1) : rest[i] = content[(d + 1) + i - 1]
    BY <1>2, <2>1, SubSeqProperties
  <2> HIDE DEF rest
  <2>3. n - (d + 1) + 1 = n - d /\ \A i \in 1..(n - d) : (d + 1) + i - 1 = d + i
    BY <1>2
  <2>4. Len(rest) = n - d
    BY <1>2, <2>2
  <2> QED
    BY <2>2, <2>3, <2>4
<1> HIDE DEF out
<1>5. /\ now \in Seq(Nat) /\ Len(now) = g + d
      /\ \A i \in 1..(g + d) : now[i] = IF i <= g THEN got[i] ELSE out[i - g]
  <2>1. /\ now \in Seq(Nat) /\ Len(now) = g + Len(out)
        /\ \A i \in 1..(g + Len(out)) : now[i] = IF i <= g THEN got[i] ELSE out[i - g]
    BY <1>1, <1>3, ConcatProperties
  <2> QED
    BY <1>3, <2>1
<1> HIDE DEF L, n, g, rest, now
<1>6. \A i \in 1..g : i \in 1..(g + d) /\ now[i] = got[i]
  BY <1>2, <1>5
<1>7. \A i \in 1..(g + d) : i \in 1..g \/ (i - g \in 1..d /\ now[i] = content[i - g] /\ now[i] = L - n + (i - g))
  <2> TAKE i \in 1..(g + d)
  <2>1. CASE i <= g
    BY <1>2, <2>1
  <2>2. CASE ~(i <= g)
    <3>1. i - g \in 1..d /\ i - g \in 1..n
      BY <1>2, <2>2
    <3> QED
      BY <1>1, <1>3, <1>5, <2>2, <3>1
  <2> QED
    BY <2>1, <2>2
<1>8. Keeps(kind, rest, now, given)
  <2>1. L - (n - d) = L - n + d /\ n - d <= L /\ n - d \in Nat
    BY <1>1, <1>2
  <2>2. \A i \in 1..(n - d) : rest[i] = L - (n - d) + i
    <3> TAKE i \in 1..(n - d)
    <3>1. d + i \in 1..n
      BY <1>2
    <3>2. rest[i] = L - n + (d + i)
      BY <1>1, <1>4, <3>1
    <3> QED
      BY <1>2, <3>2
  <2>3. \A i \in 1..(g + d) : now[i] \in 1..(L - (n - d))
    <3> TAKE i \in 1..(g + d)
    <3>1. CASE i \in 1..g
      <4>1. now[i] \in 1..(L - n)
        BY <1>1, <1>6, <3>1
      <4>2. n \in Nat /\ L \in Nat /\ d \in Nat /\ n <= L
        BY <1>1, <1>2
      <4> QED
        BY <4>1, <4>2
    <3>2. CASE i \notin 1..g
      <4>1. i - g \in 1..d /\ now[i] = L - n + (i - g)
        BY <1>7, <3>2
      <4>2. n <= L /\ L - n + (i - g) \in 1..(L - n + d)
        BY <1>1, <1>2, <4>1
      <4> QED
        BY <2>1, <4>1, <4>2
    <3> QED
      BY <3>1, <3>2
  <2>4. Increasing(now)
    <3> SUFFICES ASSUME NEW i \in 1..(g + d), NEW j \in 1..(g + d), i < j PROVE now[i] < now[j]
      BY <1>5 DEF Increasing
    <3>1. CASE i \in 1..g /\ j \in 1..g
      BY <1>1, <1>6, <3>1 DEF Increasing, g
    <3>2. CASE i \in 1..g /\ j \notin 1..g
      <4>1. j - g \in 1..d /\ now[j] = L - n + (j - g)
        BY <1>7, <3>2
      <4>2. now[i] \in 1..(L - n)
        BY <1>1, <1>6, <3>2
      <4> QED
        BY <1>1, <1>2, <4>1, <4>2
    <3>3. CASE i \notin 1..g
      <4>1. j \notin 1..g
        BY <1>2, <3>3
      <4>2. i - g \in 1..d /\ now[i] = L - n + (i - g) /\ j - g \in 1..d /\ now[j] = L - n + (j - g)
        BY <1>7, <3>3, <4>1
      <4> QED
        BY <1>2, <4>2
    <3> QED
      BY <3>1, <3>2, <3>3
  <2>5. ASSUME kind = "pipe" PROVE g + d = L - (n - d) /\ \A i \in 1..(g + d) : now[i] = i
    <3>1. g = L - n /\ \A i \in 1..g : got[i] = i
      BY <1>1, <2>5
    <3>2. \A i \in 1..(g + d) : now[i] = i
      <4> TAKE i \in 1..(g + d)
      <4>1. CASE i \in 1..g
        BY <1>6, <3>1, <4>1
      <4>2. CASE i \notin 1..g
        BY <1>2, <1>7, <3>1, <4>2
      <4> QED
        BY <4>1, <4>2
    <3> QED
      BY <1>2, <3>1, <3>2
  <2>6. kind = "queue" => n - d <= QueueSize
    BY <1>1, <1>2, ObjectsAssumption
  <2> QED
    BY <1>1, <1>4, <1>5, <2>1, <2>2, <2>3, <2>4, <2>5, <2>6 DEF Keeps, L
<1>9. Seen(rest, now) = Seen(content, got)
  <2>1. \A e \in ToSet(got) : e \in ToSet(now)
    <3> TAKE e \in ToSet(got)
    <3>1. PICK i \in 1..g : got[i] = e
      BY <1>1, ElementsOf DEF g
    <3>2. i \in 1..Len(now) /\ now[i] = e
      BY <1>5, <1>6, <3>1
    <3> QED
      BY <1>5, <3>2, ElementsOf
  <2>2. \A e \in ToSet(content) : e \in ToSet(now) \cup ToSet(rest)
    <3> TAKE e \in ToSet(content)
    <3>1. PICK i \in 1..n : content[i] = e
      BY <1>1, ElementsOf DEF n
    <3>2. CASE i <= d
      <4>1. g + i \in 1..(g + d) /\ g + i \notin 1..g /\ (g + i) - g = i
        BY <1>2, <3>2
      <4>2. now[g + i] = e
        BY <1>7, <3>1, <4>1
      <4> QED
        BY <1>5, <4>1, <4>2, ElementsOf
    <3>3. CASE ~(i <= d)
      <4>1. i - d \in 1..(n - d) /\ d + (i - d) = i
        BY <1>2, <3>3
      <4>2. rest[i - d] = e
        BY <1>4, <3>1, <4>1
      <4> QED
        BY <1>4, <4>1, <4>2, ElementsOf
    <3> QED
      BY <3>2, <3>3
  <2>3. \A e \in ToSet(now) : e \in ToSet(got) \cup ToSet(content)
    <3> TAKE e \in ToSet(now)
    <3>1. PICK i \in 1..(g + d) : now[i] = e
      BY <1>5, ElementsOf
    <3>2. CASE i \in 1..g
      BY <1>1, <1>6, <3>1, <3>2, ElementsOf DEF g
    <3>3. CASE i - g \in 1..d /\ now[i] = content[i - g]
      <4>1. i - g \in 1..n
        BY <1>2, <3>3
      <4> QED
        BY <1>1, <3>1, <3>3, <4>1, ElementsOf DEF n
    <3> QED
      BY <1>7, <3>2, <3>3
  <2>4. \A e \in ToSet(rest) : e \in ToSet(content)
    <3> TAKE e \in ToSet(rest)
    <3>1. PICK i \in 1..(n - d) : rest[i] = e
      BY <1>4, ElementsOf
    <3>2. d + i \in 1..n /\ content[d + i] = e
      BY <1>2, <1>4, <3>1
    <3> QED
      BY <1>1, <3>2, ElementsOf DEF n
  <2> QED
    BY <2>1, <2>2, <2>3, <2>4 DEF Seen
<1>10. Lost(content, got, given) => Lost(rest, now, given)
  BY <1>9 DEF Lost
<1> QED
  BY <1>3, <1>4, <1>8, <1>10 DEF out, rest, now, n

LEMMA TakenKeeps ==
  ASSUME NEW object \in KernelObject, NEW got, NEW given, NEW n \in 1..Len(object.content),
         Keeps(object.kind, object.content, got, given),
         object.kind = "queue" => Lost(object.content, got, given)
  PROVE  LET out == Taken(object, n)
             rest == SubSeq(object.content, Len(out) + 1, Len(object.content))
         IN  /\ rest \in Seq(Nat) /\ got \o out \in Seq(Nat) /\ Keeps(object.kind, rest, got \o out, given)
             /\ object.kind = "queue" => Lost(rest, got \o out, given)
<1> DEFINE out == Taken(object, n)
           c == object.content
           rest == SubSeq(c, Len(out) + 1, Len(c))
<1>1. object.kind \in Kinds
  BY DEF KernelObject
<1>2. c \in Seq(Nat) /\ got \in Seq(Nat) /\ given \in Seq(Nat) /\ Len(c) \in Nat /\ \A i \in 1..Len(c) : c[i] \in Nat
  <2>1. c \in Seq(Nat) /\ got \in Seq(Nat) /\ given \in Seq(Nat)
    BY DEF Keeps
  <2> QED
    BY <2>1, ElementOfSeq, LenProperties
<1>3. CASE object.kind = "memory"
  <2>1. out = << >> /\ Len(out) = 0 /\ got = << >> /\ got \o out = << >> /\ Len(c) <= 1
    BY <1>3 DEF Taken, Keeps
  <2>2. rest = SubSeq(c, 1, Len(c))
    BY <1>2, <2>1
  <2>3. rest \in Seq(Nat) /\ Len(rest) <= 1
    BY <1>2, <2>1, <2>2, SubSeqProperties
  <2>4. /\ \A i \in 1..Len(given) : given[i] = i
        /\ << >> \in Seq(Nat)
    BY DEF Keeps
  <2> HIDE DEF out, rest, c
  <2>5. Keeps(object.kind, rest, got \o out, given)
    BY <1>2, <1>3, <2>1, <2>3, <2>4 DEF Keeps
  <2> QED
    BY <1>3, <2>1, <2>3, <2>4, <2>5 DEF out, rest, c
<1>4. CASE object.kind \in {"queue", "pipe"}
  <2>1. PICK d \in 1..Len(c) : out = SubSeq(c, 1, d)
    <3>1. 1 \in 1..Len(c)
      BY <1>2
    <3> QED
      BY <1>4, <3>1 DEF Taken
  <2>2. /\ Len(SubSeq(c, 1, d)) = d /\ SubSeq(c, 1, d) \in Seq(Nat) /\ SubSeq(c, d + 1, Len(c)) \in Seq(Nat)
        /\ Keeps(object.kind, SubSeq(c, d + 1, Len(c)), got \o SubSeq(c, 1, d), given)
        /\ Lost(c, got, given) => Lost(SubSeq(c, d + 1, Len(c)), got \o SubSeq(c, 1, d), given)
    BY <1>4, HandedOver
  <2>3. rest = SubSeq(c, d + 1, Len(c))
    BY <2>1, <2>2
  <2>4. got \o out \in Seq(Nat)
    BY <1>2, <2>1, <2>2, ConcatProperties
  <2> QED
    BY <2>1, <2>2, <2>3, <2>4
<1> QED
  BY <1>1, <1>3, <1>4 DEF Kinds

-----------------------------------------------------------------------------
(* Shared memory, queues and pipes                                         *)

SameNames ==
  /\ Len(objects') = Len(objects)
  /\ \A i \in 1..Len(objects) : /\ objects'[i].key = objects[i].key /\ objects'[i].kind = objects[i].kind
                                /\ objects'[i].owner = objects[i].owner
  /\ UNCHANGED <<table, pending_deaths, dead>>

LEMMA TableStays ==
  ASSUME IpcTyped, TableOK, DeadOwnNothing, SameNames
  PROVE  TableOK' /\ DeadOwnNothing'
<1>1. TableOK'
  BY DEF TableOK, SameNames
<1>2. \A o \in 1..Len(objects) : Latest(o)' => Latest(o)
  <2> TAKE o \in 1..Len(objects)
  <2>1. \A i \in (o + 1)..Len(objects) : i \in 1..Len(objects)
    BY DEF IpcTyped
  <2> QED
    BY <2>1 DEF Latest, SameNames
<1>3. DeadOwnNothing'
  BY <1>2 DEF DeadOwnNothing, SameNames, TableOK
<1> QED
  BY <1>1, <1>3

\* One object becomes X.
LEMMA ObjectChanged ==
  ASSUME IpcTyped, NEW o \in 1..Len(objects), NEW X \in KernelObject,
         X.key = objects[o].key, X.kind = objects[o].kind, X.owner = objects[o].owner,
         objects' = [objects EXCEPT ![o] = X], UNCHANGED <<table, pending_deaths, dead>>
  PROVE  /\ SameNames /\ objects' \in Seq(KernelObject)
         /\ objects'[o] = X /\ \A i \in 1..Len(objects) \ {o} : objects'[i] = objects[i]
<1>1. /\ objects' \in Seq(KernelObject) /\ Len(objects') = Len(objects)
      /\ \A i \in 1..Len(objects) : objects'[i] = IF i = o THEN X ELSE objects[i]
  BY ExceptSeq DEF IpcTyped
<1> QED
  BY <1>1 DEF SameNames

\* Everything else as it was, one object has a new content or one of its two histories grows.
LEMMA MessagesChanged ==
  ASSUME IpcTyped, MessagesOK, NEW o \in 1..Len(objects), Len(objects') = Len(objects),
         \A i \in 1..Len(objects) \ {o} :
           objects'[i] = objects[i] /\ received'[i] = received[i] /\ sent_messages'[i] = sent_messages[i],
         NEW kind, NEW content, NEW got, NEW given,
         objects'[o].kind = kind, objects'[o].content = content, received'[o] = got, sent_messages'[o] = given,
         Keeps(kind, content, got, given), kind = "queue" => Lost(content, got, given)
  PROVE  MessagesOK'
<1> SUFFICES ASSUME NEW i \in 1..Len(objects)
             PROVE  /\ Keeps(objects'[i].kind, objects'[i].content, received'[i], sent_messages'[i])
                    /\ objects'[i].kind = "queue" => Lost(objects'[i].content, received'[i], sent_messages'[i])
  BY DEF MessagesOK
<1>1. CASE i = o
  BY <1>1
<1>2. CASE i # o
  BY <1>2 DEF MessagesOK
<1> QED
  BY <1>1, <1>2

LEMMA CreateKeeps ==
  ASSUME IpcInv, NEW p \in Proc, NEW kind \in Kinds, NEW name \in ObjectName, Create(p, kind, name)
  PROVE  IpcInv'
<1> DEFINE n == Len(objects)
           label == Key(kind, name)
           new == [key |-> label, kind |-> kind, owner |-> p, authorized |-> {p}, content |-> << >>]
<1>1. /\ p \notin dead /\ UNCHANGED <<pending_deaths, dead>>
      /\ objects' = Append(objects, new)
      /\ sent_messages' = Append(sent_messages, << >>) /\ received' = Append(received, << >>)
      /\ DOMAIN table' = DOMAIN table \cup {label}
      /\ \A k \in DOMAIN table' : table'[k] = IF k = label THEN n + 1 ELSE table[k]
  BY DEF Create
<1>2. IpcTyped /\ TableOK /\ MessagesOK /\ DeadOwnNothing
  BY DEF IpcInv
<1>3. new \in KernelObject /\ label \in Kinds \X ObjectName /\ label[1] = kind /\ << >> \in Seq(Nat)
  BY DEF KernelObject, Key
<1>4. new.key = label /\ new.kind = kind /\ new.owner = p /\ new.content = << >>
  OBVIOUS
<1> HIDE DEF new, label
<1>5. /\ n \in Nat /\ Len(objects') = n + 1 /\ objects' \in Seq(KernelObject)
      /\ \A i \in 1..n : objects'[i] = objects[i]
      /\ objects'[n + 1] = new /\ \A i \in 1..(n + 1) : i \in 1..n \/ i = n + 1
  BY <1>1, <1>2, <1>3, Appended DEF IpcTyped
<1>6. /\ Len(sent_messages') = n + 1 /\ sent_messages' \in Seq(Seq(Nat))
      /\ \A i \in 1..n : sent_messages'[i] = sent_messages[i]
      /\ sent_messages'[n + 1] = << >>
  BY <1>1, <1>2, <1>3, Appended DEF IpcTyped
<1>7. /\ Len(received') = n + 1 /\ received' \in Seq(Seq(Nat))
      /\ \A i \in 1..n : received'[i] = received[i]
      /\ received'[n + 1] = << >>
  BY <1>1, <1>2, <1>3, Appended DEF IpcTyped
<1> HIDE DEF n
<1>8. IpcTyped'
  BY <1>1, <1>2, <1>5, <1>6, <1>7 DEF IpcTyped
<1>9. TableOK'
  <2>1. \A k \in DOMAIN table' : table'[k] \in 1..(n + 1) /\ objects'[table'[k]].key = k
    <3> TAKE k \in DOMAIN table'
    <3>1. CASE k = label
      BY <1>1, <1>4, <1>5, <3>1
    <3>2. CASE k # label
      <4>1. table'[k] = table[k] /\ table[k] \in 1..n /\ objects[table[k]].key = k
        BY <1>1, <1>2, <3>2 DEF TableOK, n
      <4> QED
        BY <1>5, <4>1
    <3> QED
      BY <3>1, <3>2
  <2>2. \A i \in 1..(n + 1) : objects'[i].key[1] = objects'[i].kind
    BY <1>2, <1>3, <1>4, <1>5 DEF TableOK, n
  <2>3. DOMAIN table' \subseteq Kinds \X ObjectName
    BY <1>1, <1>2, <1>3 DEF TableOK
  <2> QED
    BY <1>1, <1>2, <1>5, <2>1, <2>2, <2>3 DEF TableOK
<1>10. MessagesOK'
  <2>1. Keeps(kind, << >>, << >>, << >>) /\ Lost(<< >>, << >>, << >>)
    <3>1. Len(<< >>) = 0 /\ << >> \in Seq(Nat)
      OBVIOUS
    <3> QED
      BY <3>1, ObjectsAssumption DEF Keeps, Lost, Increasing
  <2>2. \A i \in 1..n :
          /\ Keeps(objects'[i].kind, objects'[i].content, received'[i], sent_messages'[i])
          /\ objects'[i].kind = "queue" => Lost(objects'[i].content, received'[i], sent_messages'[i])
    BY <1>2, <1>5, <1>6, <1>7 DEF MessagesOK, n
  <2>3. /\ Keeps(objects'[n + 1].kind, objects'[n + 1].content, received'[n + 1], sent_messages'[n + 1])
        /\ Lost(objects'[n + 1].content, received'[n + 1], sent_messages'[n + 1])
    BY <1>4, <1>5, <1>6, <1>7, <2>1
  <2> QED
    BY <1>5, <2>2, <2>3 DEF MessagesOK
<1>11. DeadOwnNothing'
  <2>1. \A k \in DOMAIN table' : LET owner == objects'[table'[k]].owner
                                IN  owner \in dead => owner \in ToSet(pending_deaths)
    <3> TAKE k \in DOMAIN table'
    <3>1. CASE k = label
      BY <1>1, <1>4, <1>5, <3>1
    <3>2. CASE k # label
      <4>1. k \in DOMAIN table /\ table'[k] = table[k] /\ table[k] \in 1..n
        BY <1>1, <1>2, <3>2 DEF TableOK, n
      <4> QED
        BY <1>2, <1>5, <4>1 DEF DeadOwnNothing
    <3> QED
      BY <3>1, <3>2
  <2>2. \A o \in 1..(n + 1) : Latest(o)' /\ objects'[o].owner \notin dead
          => objects'[o].key \in DOMAIN table' /\ table'[objects'[o].key] = o
    <3> SUFFICES ASSUME NEW o \in 1..(n + 1), Latest(o)', objects'[o].owner \notin dead
                 PROVE  objects'[o].key \in DOMAIN table' /\ table'[objects'[o].key] = o
      OBVIOUS
    <3>1. CASE o = n + 1
      BY <1>1, <1>4, <1>5, <3>1
    <3>2. CASE o \in 1..n
      <4>1. \A i \in (o + 1)..(n + 1) : objects'[i].key # objects'[o].key
        BY <1>5 DEF Latest
      <4>2. n + 1 \in (o + 1)..(n + 1) /\ \A i \in (o + 1)..n : i \in (o + 1)..(n + 1) /\ i \in 1..n
        BY <1>5, <3>2
      <4>3. objects'[o].key # label
        BY <1>4, <1>5, <4>1, <4>2
      <4>4. Latest(o)
        BY <1>5, <3>2, <4>1, <4>2 DEF Latest, n
      <4>5. objects[o].key \in DOMAIN table /\ table[objects[o].key] = o
        BY <1>2, <1>5, <3>2, <4>4 DEF DeadOwnNothing, n
      <4> QED
        BY <1>1, <1>5, <3>2, <4>3, <4>5
    <3> QED
      BY <1>5, <3>1, <3>2
  <2> QED
    BY <1>1, <1>5, <2>1, <2>2 DEF DeadOwnNothing
<1> QED
  BY <1>8, <1>9, <1>10, <1>11 DEF IpcInv

LEMMA AuthorizeKeeps ==
  ASSUME IpcInv, NEW o \in 1..Len(objects), NEW p \in Proc, Authorize(o, p)
  PROVE  IpcInv'
<1> DEFINE X == [objects[o] EXCEPT !.authorized = @ \cup {p}]
<1>1. IpcTyped /\ TableOK /\ MessagesOK /\ DeadOwnNothing
  BY DEF IpcInv
<1>2. objects[o] \in KernelObject
  BY <1>1, ElementOfSeq DEF IpcTyped
<1>3. /\ X \in KernelObject /\ X.key = objects[o].key /\ X.kind = objects[o].kind
      /\ X.owner = objects[o].owner /\ X.content = objects[o].content
  BY <1>2 DEF KernelObject
<1>4. objects' = [objects EXCEPT ![o] = X] /\ UNCHANGED <<table, pending_deaths, dead, sent_messages, received>>
  BY DEF Authorize
<1> HIDE DEF X
<1>5. /\ SameNames /\ objects' \in Seq(KernelObject)
      /\ objects'[o] = X /\ \A i \in 1..Len(objects) \ {o} : objects'[i] = objects[i]
  BY <1>1, <1>3, <1>4, ObjectChanged
<1>6. MessagesOK'
  BY <1>1, <1>3, <1>4, <1>5 DEF MessagesOK, SameNames
<1> QED
  BY <1>1, <1>4, <1>5, <1>6, TableStays DEF IpcInv, IpcTyped, SameNames

LEMMA SendKeeps ==
  ASSUME IpcInv, NEW o \in 1..Len(objects), NEW p \in Proc, Send(o, p)
  PROVE  IpcInv'
<1> DEFINE given == sent_messages[o]
           m == Len(given) + 1
           more == Stored(objects[o], m)
           all == Append(given, m)
           X == [objects[o] EXCEPT !.content = more]
<1>1. IpcTyped /\ TableOK /\ MessagesOK /\ DeadOwnNothing
  BY DEF IpcInv
<1>2. objects[o] \in KernelObject /\ given \in Seq(Nat) /\ o \in 1..Len(sent_messages)
  BY <1>1, ElementOfSeq DEF IpcTyped
<1>3. /\ more \in Seq(Nat) /\ Keeps(objects[o].kind, more, received[o], all)
      /\ objects[o].kind = "queue" => Lost(more, received[o], all)
  BY <1>1, <1>2, StoredKeeps DEF MessagesOK
<1>4. /\ objects' = [objects EXCEPT ![o] = X] /\ UNCHANGED <<table, pending_deaths, dead, received>>
      /\ sent_messages' = [sent_messages EXCEPT ![o] = all]
  BY DEF Send
<1>5. all \in Seq(Nat)
  BY <1>2
<1> HIDE DEF more, m, all
<1>6. /\ X \in KernelObject /\ X.key = objects[o].key /\ X.kind = objects[o].kind
      /\ X.owner = objects[o].owner /\ X.content = more
  BY <1>2, <1>3 DEF KernelObject
<1> HIDE DEF X
<1>7. /\ SameNames /\ objects' \in Seq(KernelObject)
      /\ objects'[o] = X /\ \A i \in 1..Len(objects) \ {o} : objects'[i] = objects[i]
  BY <1>1, <1>4, <1>6, ObjectChanged
<1>8. /\ sent_messages' \in Seq(Seq(Nat)) /\ Len(sent_messages') = Len(sent_messages)
      /\ \A i \in 1..Len(sent_messages) : sent_messages'[i] = IF i = o THEN all ELSE sent_messages[i]
  BY <1>1, <1>2, <1>4, <1>5, ExceptSeq DEF IpcTyped
<1> HIDE DEF given
<1>9. MessagesOK'
  <2>1. \A i \in 1..Len(objects) \ {o} :
          objects'[i] = objects[i] /\ received'[i] = received[i] /\ sent_messages'[i] = sent_messages[i]
    BY <1>1, <1>4, <1>7, <1>8 DEF IpcTyped
  <2>2. /\ Len(objects') = Len(objects) /\ objects'[o].kind = objects[o].kind /\ objects'[o].content = more
        /\ received'[o] = received[o] /\ sent_messages'[o] = all
    BY <1>2, <1>4, <1>6, <1>7, <1>8 DEF SameNames
  <2> QED
    BY <1>1, <1>3, <2>1, <2>2, MessagesChanged
<1> QED
  BY <1>1, <1>4, <1>7, <1>8, <1>9, TableStays DEF IpcInv, IpcTyped, SameNames

LEMMA ReceiveKeeps ==
  ASSUME IpcInv, NEW o \in 1..Len(objects), NEW p \in Proc, NEW n \in 1..MaxSent, Receive(o, p, n)
  PROVE  IpcInv'
<1> DEFINE out == Taken(objects[o], n)
           c == objects[o].content
           rest == SubSeq(c, Len(out) + 1, Len(c))
           got == received[o] \o out
           X == [objects[o] EXCEPT !.content = rest]
<1>1. IpcTyped /\ TableOK /\ MessagesOK /\ DeadOwnNothing
  BY DEF IpcInv
<1>2. objects[o] \in KernelObject /\ o \in 1..Len(received)
  BY <1>1, ElementOfSeq DEF IpcTyped
<1>3. n \in 1..Len(c)
  BY DEF Receive
<1>4. /\ rest \in Seq(Nat) /\ got \in Seq(Nat) /\ Keeps(objects[o].kind, rest, got, sent_messages[o])
      /\ objects[o].kind = "queue" => Lost(rest, got, sent_messages[o])
  BY <1>1, <1>2, <1>3, TakenKeeps DEF MessagesOK
<1>5. /\ objects' = [objects EXCEPT ![o] = X] /\ UNCHANGED <<table, pending_deaths, dead, sent_messages>>
      /\ received' = [received EXCEPT ![o] = got]
  BY DEF Receive
<1> HIDE DEF rest, got
<1>6. /\ X \in KernelObject /\ X.key = objects[o].key /\ X.kind = objects[o].kind
      /\ X.owner = objects[o].owner /\ X.content = rest
  BY <1>2, <1>4 DEF KernelObject
<1> HIDE DEF X
<1>7. /\ SameNames /\ objects' \in Seq(KernelObject)
      /\ objects'[o] = X /\ \A i \in 1..Len(objects) \ {o} : objects'[i] = objects[i]
  BY <1>1, <1>5, <1>6, ObjectChanged
<1>8. /\ received' \in Seq(Seq(Nat)) /\ Len(received') = Len(received)
      /\ \A i \in 1..Len(received) : received'[i] = IF i = o THEN got ELSE received[i]
  BY <1>1, <1>2, <1>4, <1>5, ExceptSeq DEF IpcTyped
<1>9. MessagesOK'
  BY <1>1, <1>2, <1>4, <1>5, <1>6, <1>7, <1>8, MessagesChanged DEF IpcTyped, SameNames
<1> QED
  BY <1>1, <1>5, <1>7, <1>8, <1>9, TableStays DEF IpcInv, IpcTyped, SameNames

LEMMA DieKeeps ==
  ASSUME IpcInv, NEW p \in Proc, Die(p)
  PROVE  IpcInv'
<1>1. IpcTyped /\ TableOK /\ MessagesOK /\ DeadOwnNothing
  BY DEF IpcInv
<1>2. /\ dead' = dead \cup {p} /\ pending_deaths' = Append(pending_deaths, p)
      /\ UNCHANGED <<table, objects, sent_messages, received>>
  BY DEF Die
<1>3. /\ pending_deaths' \in Seq(Proc) /\ Len(pending_deaths) \in Nat /\ Len(pending_deaths') = Len(pending_deaths) + 1
      /\ \A i \in 1..Len(pending_deaths) : pending_deaths'[i] = pending_deaths[i]
      /\ pending_deaths'[Len(pending_deaths) + 1] = p
      /\ \A i \in 1..(Len(pending_deaths) + 1) : i \in 1..Len(pending_deaths) \/ i = Len(pending_deaths) + 1
  BY <1>1, <1>2, Appended DEF IpcTyped
<1>4. \A e \in ToSet(pending_deaths) \cup {p} : e \in ToSet(pending_deaths')
  <2> TAKE e \in ToSet(pending_deaths) \cup {p}
  <2>1. CASE e = p
    BY <1>3, <2>1, ElementsOf
  <2>2. CASE e \in ToSet(pending_deaths)
    <3>1. PICK i \in 1..Len(pending_deaths) : pending_deaths[i] = e
      BY <1>1, <2>2, ElementsOf DEF IpcTyped
    <3>2. i \in 1..Len(pending_deaths') /\ pending_deaths'[i] = e
      BY <1>3, <3>1
    <3> QED
      BY <1>3, <3>2, ElementsOf
  <2> QED
    BY <2>1, <2>2
<1>5. IpcTyped' /\ MessagesOK'
  BY <1>1, <1>2, <1>3 DEF IpcTyped, MessagesOK
<1>6. TableOK'
  BY <1>1, <1>2, <1>3 DEF TableOK
<1>7. DeadOwnNothing'
  <2>1. \A o \in 1..Len(objects) : Latest(o)' <=> Latest(o)
    BY <1>2 DEF Latest
  <2> QED
    BY <1>1, <1>2, <1>4, <2>1 DEF DeadOwnNothing
<1> QED
  BY <1>5, <1>6, <1>7 DEF IpcInv

LEMMA OwnerDeathKeeps ==
  ASSUME IpcInv, OnOwnerDeath
  PROVE  IpcInv'
<1> DEFINE p == Head(pending_deaths)
<1>1. IpcTyped /\ TableOK /\ MessagesOK /\ DeadOwnNothing
  BY DEF IpcInv
<1>2. /\ pending_deaths # << >> /\ pending_deaths' = Tail(pending_deaths)
      /\ UNCHANGED <<objects, dead, sent_messages, received>>
      /\ DOMAIN table' = DOMAIN table \ Reaped(p)
      /\ \A k \in DOMAIN table' : table'[k] = table[k]
  BY DEF OnOwnerDeath
<1>3. /\ p \in Proc /\ pending_deaths' \in Seq(Proc) /\ Len(pending_deaths) \in Nat \ {0}
      /\ Len(pending_deaths') = Len(pending_deaths) - 1
      /\ p = pending_deaths[1]
      /\ \A i \in 1..Len(pending_deaths') : i + 1 \in 1..Len(pending_deaths) /\ pending_deaths'[i] = pending_deaths[i + 1]
  BY <1>1, <1>2, TailOf DEF IpcTyped
<1> HIDE DEF p
<1>4. \A e \in ToSet(pending_deaths) : e # p => e \in ToSet(pending_deaths')
  <2> SUFFICES ASSUME NEW e \in ToSet(pending_deaths), e # p PROVE e \in ToSet(pending_deaths')
    OBVIOUS
  <2>1. PICK i \in 1..Len(pending_deaths) : pending_deaths[i] = e
    BY <1>1, ElementsOf DEF IpcTyped
  <2>2. i - 1 \in 1..Len(pending_deaths') /\ (i - 1) + 1 = i
    BY <1>3, <2>1
  <2>3. pending_deaths'[i - 1] = e
    BY <1>3, <2>1, <2>2
  <2> QED
    BY <1>3, <2>2, <2>3, ElementsOf
<1>5. IpcTyped' /\ MessagesOK'
  BY <1>1, <1>2, <1>3 DEF IpcTyped, MessagesOK
<1>6. TableOK'
  BY <1>1, <1>2, <1>3 DEF TableOK
<1>7. DeadOwnNothing'
  <2>1. \A k \in DOMAIN table' : k \in DOMAIN table /\ objects[table[k]].owner # p
    BY <1>2 DEF Reaped
  <2>2. \A k \in DOMAIN table' : objects[table[k]].owner \in dead => objects[table[k]].owner \in ToSet(pending_deaths')
    BY <1>1, <1>4, <2>1 DEF DeadOwnNothing
  <2>3. p \in dead
    <3>1. 1 \in 1..Len(pending_deaths)
      BY <1>3
    <3> QED
      BY <1>1, <1>3, <3>1 DEF TableOK
  <2>4. \A o \in 1..Len(objects) : Latest(o)' <=> Latest(o)
    BY <1>2 DEF Latest
  <2>5. ASSUME NEW o \in 1..Len(objects), Latest(o), objects[o].owner \notin dead
        PROVE  objects[o].key \in DOMAIN table' /\ table'[objects[o].key] = o
    <3>1. objects[o].key \in DOMAIN table /\ table[objects[o].key] = o
      BY <1>1, <2>5 DEF DeadOwnNothing
    <3>2. objects[o].key \notin Reaped(p)
      BY <2>3, <2>5, <3>1 DEF Reaped
    <3> QED
      BY <1>2, <3>1, <3>2
  <2> QED
    BY <1>2, <2>2, <2>4, <2>5 DEF DeadOwnNothing
<1> QED
  BY <1>5, <1>6, <1>7 DEF IpcInv

LEMMA IpcStep == IpcInv /\ [ObjectsNext]_objectVars => IpcInv'
<1> SUFFICES ASSUME IpcInv, [ObjectsNext]_objectVars PROVE IpcInv'
  OBVIOUS
<1>1. ASSUME UNCHANGED ipcVars PROVE IpcInv'
  <2>1. SameNames
    BY <1>1 DEF SameNames, ipcVars
  <2>2. IpcTyped' /\ MessagesOK'
    BY <1>1 DEF IpcInv, IpcTyped, MessagesOK, ipcVars
  <2> QED
    BY <2>1, <2>2, TableStays DEF IpcInv
<1>2. CASE \E t \in Tid : \/ CreateThread(t) \/ TerminateThread(t) \/ Acquire(t) \/ ReleaseMutex(t)
                         \/ Wait(t) \/ Signal(t)
  BY <1>1, <1>2 DEF CreateThread, TerminateThread, Acquire, ReleaseMutex, Wait, Signal, Threads
<1>3. ASSUME NEW p \in Proc PROVE Die(p) => IpcInv'
  BY DieKeeps
<1>4. ASSUME NEW p \in Proc, NEW kind \in Kinds, NEW name \in ObjectName PROVE Create(p, kind, name) => IpcInv'
  BY CreateKeeps
<1>5. ASSUME NEW p \in Proc, NEW o \in 1..Len(objects)
      PROVE  Authorize(o, p) \/ Send(o, p) \/ (\E n \in 1..MaxSent : Receive(o, p, n)) => IpcInv'
  BY AuthorizeKeeps, SendKeeps, ReceiveKeeps
<1>6. OnOwnerDeath => IpcInv'
  BY OwnerDeathKeeps
<1>7. UNCHANGED objectVars => IpcInv'
  BY <1>1 DEF objectVars
<1> QED
  BY <1>2, <1>3, <1>4, <1>5, <1>6, <1>7 DEF ObjectsNext

-----------------------------------------------------------------------------
(* What the invariants say                                                 *)

\* A reader of one object finds the messages in the order they were sent.
LEMMA KeptInOrder ==
  ASSUME NEW kind \in Kinds, NEW content, NEW got, NEW given, Keeps(kind, content, got, given),
         kind = "queue" => Lost(content, got, given)
  PROVE  LET seen == got \o content
         IN  /\ \A i, j \in 1..Len(seen) : i < j => seen[i] < seen[j]
             /\ kind = "pipe" => seen = given
             /\ kind = "queue" => \A m \in ToSet(given) \ ToSet(seen) :
                                    Cardinality({k \in ToSet(seen) : k > m}) >= QueueSize
<1> DEFINE L == Len(given)
           n == Len(content)
           g == Len(got)
           seen == got \o content
<1>1. /\ content \in Seq(Nat) /\ got \in Seq(Nat) /\ given \in Seq(Nat)
      /\ \A i \in 1..L : given[i] = i
      /\ kind = "memory" => got = << >> /\ n <= 1
      /\ kind # "memory" => /\ n <= L /\ \A i \in 1..n : content[i] = L - n + i
                            /\ Increasing(got) /\ \A i \in 1..g : got[i] \in 1..(L - n)
      /\ kind = "pipe" => g = L - n /\ \A i \in 1..g : got[i] = i
  BY DEF Keeps
<1>2. L \in Nat /\ n \in Nat /\ g \in Nat
  BY <1>1
<1>3. /\ seen \in Seq(Nat) /\ Len(seen) = g + n
      /\ \A i \in 1..(g + n) : seen[i] = IF i <= g THEN got[i] ELSE content[i - g]
  BY <1>1, ConcatProperties
<1>4. kind = "memory" => g = 0
  BY <1>1
<1> HIDE DEF L, n, g, seen
<1>5. \A i \in 1..(g + n) : (i \in 1..g /\ seen[i] = got[i]) \/ (i > g /\ i - g \in 1..n /\ seen[i] = content[i - g])
  <2> TAKE i \in 1..(g + n)
  <2>1. CASE i <= g
    BY <1>2, <1>3, <2>1
  <2>2. CASE ~(i <= g)
    BY <1>2, <1>3, <2>2
  <2> QED
    BY <2>1, <2>2
<1>6. ASSUME NEW i \in 1..(g + n), NEW j \in 1..(g + n), i < j PROVE seen[i] < seen[j]
  <2>1. CASE kind = "memory"
    <3>1. g + n <= 1
      BY <1>1, <1>2, <1>4, <2>1
    <3> QED
      BY <1>2, <1>6, <3>1
  <2>2. CASE kind # "memory"
    <3>1. CASE i \in 1..g /\ j \in 1..g
      <4>1. seen[i] = got[i] /\ seen[j] = got[j]
        BY <1>2, <1>3, <3>1
      <4> QED
        BY <1>1, <1>6, <2>2, <3>1, <4>1 DEF Increasing, g
    <3>2. CASE i \in 1..g /\ j \notin 1..g
      <4>1. j - g \in 1..n /\ seen[j] = L - n + (j - g)
        BY <1>1, <1>5, <2>2, <3>2
      <4>2. seen[i] \in 1..(L - n)
        BY <1>1, <1>2, <1>5, <2>2, <3>2
      <4> QED
        BY <1>1, <1>2, <2>2, <4>1, <4>2
    <3>3. CASE i \notin 1..g
      <4>1. j \notin 1..g
        BY <1>2, <1>6, <3>3
      <4>2. i - g \in 1..n /\ seen[i] = L - n + (i - g) /\ j - g \in 1..n /\ seen[j] = L - n + (j - g)
        BY <1>1, <1>5, <2>2, <3>3, <4>1
      <4> QED
        BY <1>2, <1>6, <4>2
    <3> QED
      BY <3>1, <3>2, <3>3
  <2> QED
    BY <2>1, <2>2
<1>7. ASSUME kind = "pipe" PROVE seen = given
  <2>1. g + n = L /\ Len(seen) = Len(given)
    BY <1>1, <1>2, <1>3, <1>7 DEF L
  <2>2. \A i \in 1..(g + n) : seen[i] = i
    <3> TAKE i \in 1..(g + n)
    <3>1. CASE i \in 1..g /\ seen[i] = got[i]
      BY <1>1, <1>7, <3>1
    <3>2. CASE i > g /\ i - g \in 1..n /\ seen[i] = content[i - g]
      <4>1. seen[i] = L - n + (i - g) /\ g = L - n
        BY <1>1, <1>7, <3>2
      <4> QED
        BY <1>2, <4>1
    <3> QED
      BY <1>5, <3>1, <3>2
  <2>3. \A i \in 1..Len(seen) : seen[i] = given[i]
    BY <1>1, <1>3, <2>1, <2>2
  <2> QED
    BY <1>1, <1>3, <2>1, <2>3, SeqEqual
<1>8. ASSUME kind = "queue", NEW m \in ToSet(given) \ ToSet(seen)
      PROVE  Cardinality({k \in ToSet(seen) : k > m}) >= QueueSize
  <2>1. \A e \in Seen(content, got) : e \in ToSet(seen)
    <3> TAKE e \in Seen(content, got)
    <3>1. CASE e \in ToSet(got)
      <4>1. PICK i \in 1..g : got[i] = e
        BY <1>1, <3>1, ElementsOf DEF g
      <4>2. i \in 1..(g + n) /\ seen[i] = e
        BY <1>2, <1>3, <4>1
      <4> QED
        BY <1>3, <4>2, ElementsOf
    <3>2. CASE e \in ToSet(content)
      <4>1. PICK i \in 1..n : content[i] = e
        BY <1>1, <3>2, ElementsOf DEF n
      <4>2. g + i \in 1..(g + n) /\ ~(g + i <= g) /\ (g + i) - g = i
        BY <1>2, <4>1
      <4>3. seen[g + i] = e
        BY <1>3, <4>1, <4>2
      <4> QED
        BY <1>3, <4>2, <4>3, ElementsOf
    <3> QED
      BY <3>1, <3>2 DEF Seen
  <2>2. \A e \in ToSet(seen) : e \in 1..L
    <3> TAKE e \in ToSet(seen)
    <3>1. PICK i \in 1..(g + n) : seen[i] = e
      BY <1>3, ElementsOf
    <3>2. CASE i \in 1..g /\ seen[i] = got[i]
      BY <1>1, <1>2, <1>8, <3>1, <3>2
    <3>3. CASE i - g \in 1..n /\ seen[i] = content[i - g]
      <4>1. e = L - n + (i - g) /\ n <= L
        BY <1>1, <1>8, <3>1, <3>3
      <4> QED
        BY <1>2, <3>3, <4>1
    <3> QED
      BY <1>5, <3>2, <3>3
  <2>3. m \in 1..L /\ m \notin Seen(content, got)
    <3>1. PICK i \in 1..L : given[i] = m
      BY <1>1, <1>8, ElementsOf DEF L
    <3> QED
      BY <1>1, <1>8, <2>1, <3>1
  <2>4. PICK S \in SUBSET {k \in Seen(content, got) : k > m} : IsFiniteSet(S) /\ Cardinality(S) >= QueueSize
    BY <1>8, <2>3 DEF Lost, L
  <2> DEFINE T == {k \in ToSet(seen) : k > m}
  <2>5. T \in SUBSET (1..L) /\ S \in SUBSET T
    BY <2>1, <2>2
  <2>6. IsFiniteSet(1..L)
    BY <1>2, FS_Interval
  <2> HIDE DEF T
  <2>7. IsFiniteSet(T)
    BY <2>5, <2>6, FS_Subset
  <2>8. Cardinality(S) <= Cardinality(T) /\ Cardinality(S) \in Nat /\ Cardinality(T) \in Nat
    BY <2>4, <2>5, <2>7, FS_Subset, FS_CardinalityType
  <2>9. Cardinality(T) >= QueueSize
    BY <2>4, <2>8, ObjectsAssumption
  <2> QED
    BY <2>9 DEF T
<1> QED
  BY <1>3, <1>6, <1>7, <1>8 DEF seen

LEMMA SoundFromInvs == LocksInv /\ IpcInv => ObjectsSound
<1> SUFFICES ASSUME LocksInv, IpcInv PROVE ObjectsSound
  OBVIOUS
<1>1. ObjectsTypeOK
  BY DEF LocksInv, LocksTyped, IpcInv, TableOK, ObjectsTypeOK
<1>2. \A o \in 1..Len(objects) : objects[o].kind \in Kinds
  <2> TAKE o \in 1..Len(objects)
  <2>1. objects[o] \in KernelObject
    BY ElementOfSeq DEF IpcInv, IpcTyped
  <2> QED
    BY <2>1 DEF KernelObject
<1>3. MessagesInOrder
  BY <1>2, KeptInOrder DEF IpcInv, MessagesOK, MessagesInOrder
<1> QED
  BY <1>1, <1>3 DEF LocksInv, IpcInv, ObjectsSound

LEMMA InvsInit == ObjectsInit => LocksInv /\ IpcInv
<1> SUFFICES ASSUME ObjectsInit PROVE LocksInv /\ IpcInv
  OBVIOUS
<1>1. Len(<< >>) = 0 /\ << >> \in Seq(Tid) /\ << >> \in Seq(KernelObject) /\ << >> \in Seq(Seq(Nat))
      /\ << >> \in Seq(Proc) /\ DOMAIN << >> = {}
  OBVIOUS
<1>2. LocksInv
  BY <1>1, ObjectsAssumption DEF ObjectsInit, LocksInv, LocksTyped, NobodyForgotten, SemaphoreCounts
<1>3. IpcTyped
  BY <1>1 DEF ObjectsInit, IpcTyped
<1>4. TableOK /\ MessagesOK /\ DeadOwnNothing
  BY <1>1 DEF ObjectsInit, TableOK, MessagesOK, DeadOwnNothing
<1> QED
  BY <1>2, <1>3, <1>4 DEF IpcInv

\* Nobody is left waiting for a free mutex or semaphore, the semaphore lets in as many as its count
\* and the signals allow, a reader finds the messages once and in the order they were sent, and a
\* name leads to the last object made under it until its owner's death has been handled
\* (kernel/thread_manager.py, kernel/ipc_manager.py).
THEOREM ObjectsAlwaysSound == ObjectsSpec => []ObjectsSound
<1>1. ObjectsInit => LocksInv /\ IpcInv
  BY InvsInit
<1>2. (LocksInv /\ IpcInv) /\ [ObjectsNext]_objectVars => (LocksInv /\ IpcInv)'
  BY LocksStep, IpcStep
<1>3. LocksInv /\ IpcInv => ObjectsSound
  BY SoundFromInvs
<1> QED
  BY <1>1, <1>2, <1>3, PTL DEF ObjectsSpec

-----------------------------------------------------------------------------
(* PART THREE: the clock and its interrupts                                *)

Place == {"unborn", "top", "asleep", "due", "dispatch", "push", "pop", "handle", "gone"}
Irq == [type : DOMAIN Priority, seq : Nat]

Due == {l \in Loop : loop[l].at = "due"}
Popping == {l \in Loop : loop[l].at = "pop"}
Begun == {l \in Loop : loop[l].at # "unborn"}

LoopTyped ==
  /\ running \in BOOLEAN /\ paused \in BOOLEAN /\ stop_event \in BOOLEAN /\ go \in BOOLEAN
  /\ thread \in 0..MaxStarts /\ tick_count \in 0..MaxTicks
  /\ joining \in {"none", "stop", "reset"}
  /\ loop \in [Loop -> [at : Place, tick : 0..MaxTicks]]
  /\ timeouts \in Nat /\ late \in Nat /\ announced \in Nat

RunningOK == running => joining = "none" /\ ~stop_event /\ thread \in Live /\ (go <=> ~paused)
UnbornOK == \A l \in Loop : l > thread => loop[l].at = "unborn"
OldLoops == Cardinality(Live \ {thread}) <= timeouts
Ended == ~running /\ joining = "none" => Cardinality(Live) <= timeouts
PauseOK ==
  paused /\ running =>
    /\ late + Cardinality(Due) <= Cardinality(Begun)
    /\ timeouts = 0 => late + Cardinality(Due) <= 1
TicksOK ==
  timeouts = 0 =>
    /\ announced <= tick_count
    /\ \A l \in Live : loop[l].at = "dispatch" =>
         loop[l].tick = tick_count /\ announced < tick_count
LoopInv == LoopTyped /\ RunningOK /\ UnbornOK /\ OldLoops /\ Ended /\ PauseOK /\ TicksOK

IrqTyped ==
  /\ pending \subseteq Irq /\ IsFiniteSet(pending) /\ holds \in [Raiser -> SUBSET Irq]
  /\ seq \in Nat /\ others \in Nat /\ done \subseteq Nat
InHand(n) == \E r \in Raiser : \E irq \in holds[r] : irq.seq = n
InHeap(n) == \E irq \in pending : irq.seq = n
OneEach ==
  /\ \A r \in Raiser : \A a, b \in holds[r] : a = b
  /\ \A a, b \in pending : a.seq = b.seq => a = b
  /\ \A r \in Raiser : \A a \in holds[r], b \in pending : a.seq # b.seq
  /\ \A r, s \in Raiser : r # s => \A a \in holds[r], b \in holds[s] : a.seq # b.seq
Numbered ==
  /\ \A n \in done : n < seq /\ ~InHand(n) /\ ~InHeap(n)
  /\ \A r \in Raiser : \A a \in holds[r] : a.seq < seq
  /\ \A a \in pending : a.seq < seq
  /\ \A n \in 0..(seq - 1) : n \in done \/ InHand(n) \/ InHeap(n)
HandsOK == \A l \in Loop : holds[l] # {} => loop[l].at \in {"push", "handle"}
KeptUp ==
  /\ Cardinality(pending) + Cardinality(holds[0]) <= others + Cardinality(Popping)
  /\ Cardinality(holds[0]) <= others
IrqInv == IrqTyped /\ OneEach /\ Numbered /\ HandsOK /\ KeptUp
ClockInv == LoopInv /\ IrqInv

-----------------------------------------------------------------------------
(* The loops                                                               *)

LEMMA Loops ==
  /\ IsFiniteSet(Loop) /\ \A S : S \subseteq Loop => IsFiniteSet(S) /\ Cardinality(S) \in Nat
  /\ Live \subseteq Loop /\ Due \subseteq Live /\ Begun \subseteq Loop /\ Due \subseteq Begun
  /\ Popping \subseteq Loop
<1>1. MaxStarts \in Nat
  BY ClockAssumption
<1>2. IsFiniteSet(Loop)
  BY <1>1, FS_Interval DEF Loop
<1>3. \A S : S \subseteq Loop => IsFiniteSet(S) /\ Cardinality(S) \in Nat
  BY <1>2, FS_Subset, FS_CardinalityType
<1>4. Live \subseteq Loop /\ Due \subseteq Live /\ Begun \subseteq Loop /\ Due \subseteq Begun /\ Popping \subseteq Loop
  BY DEF Live, Due, Begun, Popping
<1> QED
  BY <1>2, <1>3, <1>4

LEMMA Fewer ==
  ASSUME NEW S \in SUBSET Loop, NEW R \in SUBSET S
  PROVE  Cardinality(R) \in Nat /\ Cardinality(S) \in Nat /\ Cardinality(R) <= Cardinality(S)
BY Loops, FS_Subset

LEMMA OneLess ==
  ASSUME NEW S \in SUBSET Loop, NEW l
  PROVE  /\ Cardinality(S \ {l}) \in Nat /\ Cardinality(S) \in Nat
         /\ l \in S => Cardinality(S \ {l}) = Cardinality(S) - 1
         /\ l \notin S => S \ {l} = S
<1>1. IsFiniteSet(S) /\ IsFiniteSet(S \ {l})
  BY Loops
<1> QED
  BY <1>1, FS_CardinalityType, FS_RemoveElement

\* While no join has given up only the latest loop lives.
LEMMA OnlyLatest ==
  ASSUME LoopInv, timeouts = 0
  PROVE  Live \subseteq {thread}
<1>1. Cardinality(Live \ {thread}) \in Nat /\ Cardinality(Live \ {thread}) <= 0
  BY Fewer, Loops DEF LoopInv, OldLoops
<1>2. IsFiniteSet(Live \ {thread}) /\ Cardinality(Live \ {thread}) = 0
  BY <1>1, Loops
<1>3. Live \ {thread} = {}
  BY <1>2, FS_EmptySet
<1> QED
  BY <1>3

\* What a loop's own step keeps, whatever its new place.
LEMMA LoopMoves ==
  ASSUME LoopInv, NEW l \in Live, NEW at \in Place \ {"unborn"}, NEW tick \in 0..MaxTicks,
         loop' = [loop EXCEPT ![l] = [at |-> at, tick |-> tick]],
         at = "gone" => stop_event,
         UNCHANGED <<running, paused, stop_event, go, thread, joining, timeouts>>
  PROVE  /\ loop' \in [Loop -> [at : Place, tick : 0..MaxTicks]]
         /\ Live' \subseteq Live /\ Begun' = Begun
         /\ RunningOK' /\ UnbornOK' /\ OldLoops' /\ Ended'
<1> USE DEF LoopInv
<1>1. l \in Loop /\ loop \in [Loop -> [at : Place, tick : 0..MaxTicks]] /\ loop[l].at # "unborn"
  BY Loops DEF LoopTyped, Live
<1>2. /\ loop' \in [Loop -> [at : Place, tick : 0..MaxTicks]]
      /\ loop'[l].at = at /\ \A k \in Loop \ {l} : loop'[k] = loop[k]
  BY <1>1
<1>3. Live' \subseteq Live
  BY <1>2 DEF Live
<1>4. Begun' = Begun
  BY <1>1, <1>2 DEF Begun
<1>5. RunningOK'
  BY <1>1, <1>2 DEF RunningOK, Live
<1>6. UnbornOK'
  BY <1>1, <1>2 DEF UnbornOK
<1>7. OldLoops'
  <2>1. Cardinality(Live' \ {thread}) <= Cardinality(Live \ {thread}) /\ Cardinality(Live' \ {thread}) \in Nat
        /\ Cardinality(Live \ {thread}) \in Nat
    BY <1>3, Fewer, Loops
  <2> QED
    BY <2>1 DEF OldLoops, LoopTyped
<1>8. Ended'
  <2>1. Cardinality(Live') <= Cardinality(Live) /\ Cardinality(Live') \in Nat /\ Cardinality(Live) \in Nat
    BY <1>3, Fewer, Loops
  <2> QED
    BY <2>1 DEF Ended, LoopTyped
<1> QED
  BY <1>2, <1>3, <1>4, <1>5, <1>6, <1>7, <1>8

\* A step that counts no tick and, while the clock is suspended, takes no loop to one.
LEMMA LoopGoes ==
  ASSUME LoopInv, NEW l \in Live, NEW at \in Place \ {"unborn", "dispatch"}, Goes(l, at),
         at = "gone" => stop_event, at = "due" => go,
         UNCHANGED <<running, paused, stop_event, go, tick_count, thread, joining, timeouts, late>>,
         \/ announced' = announced
         \/ loop[l].at = "dispatch" /\ announced' = loop[l].tick
  PROVE  LoopInv'
<1> USE DEF LoopInv
<1>1. l \in Loop /\ loop \in [Loop -> [at : Place, tick : 0..MaxTicks]]
  BY Loops DEF LoopTyped
<1>2. PICK tick \in 0..MaxTicks : tick = loop[l].tick
  BY <1>1
<1>3. loop' = [loop EXCEPT ![l] = [at |-> at, tick |-> tick]]
  <2>1. [loop[l] EXCEPT !.at = at] = [at |-> at, tick |-> tick]
    BY <1>1, <1>2
  <2> QED
    BY <1>1, <2>1 DEF Goes
<1>4. /\ loop' \in [Loop -> [at : Place, tick : 0..MaxTicks]]
      /\ Live' \subseteq Live /\ Begun' = Begun
      /\ RunningOK' /\ UnbornOK' /\ OldLoops' /\ Ended'
  BY <1>3, LoopMoves
<1>5. loop'[l].at = at /\ \A k \in Loop \ {l} : loop'[k] = loop[k]
  BY <1>1, <1>3
<1>6. LoopTyped'
  <2>1. announced' \in Nat
    BY <1>1, ClockAssumption DEF LoopTyped
  <2> QED
    BY <1>4, <2>1 DEF LoopTyped
<1>7. PauseOK'
  <2> SUFFICES ASSUME paused, running PROVE PauseOK'
    BY DEF PauseOK
  <2>1. ~go
    BY DEF RunningOK, LoopTyped
  <2>2. Due' \subseteq Due
    BY <1>5, <2>1 DEF Due
  <2>3. Cardinality(Due') <= Cardinality(Due) /\ Cardinality(Due') \in Nat /\ Cardinality(Due) \in Nat
        /\ Cardinality(Begun) \in Nat
    BY <2>2, Fewer, Loops
  <2> QED
    BY <1>4, <2>3 DEF PauseOK, LoopTyped
<1>8. TicksOK'
  <2> SUFFICES ASSUME timeouts = 0 PROVE TicksOK'
    BY DEF TicksOK
  <2>1. Live = {l}
    BY OnlyLatest
  <2>2. announced' <= tick_count
    BY <2>1 DEF TicksOK, LoopTyped
  <2>3. \A k \in Live' : loop'[k].at # "dispatch"
    BY <1>4, <1>5, <2>1
  <2> QED
    BY <2>2, <2>3 DEF TicksOK
<1> QED
  BY <1>4, <1>6, <1>7, <1>8

LEMMA CountKeeps ==
  ASSUME LoopInv, NEW l \in Loop, Count(l)
  PROVE  LoopInv'
<1> USE DEF LoopInv
<1>1. l \in Live /\ l \in Due
  BY DEF Count, Live, Due
<1>2. PICK at \in Place \ {"unborn"} : at = "dispatch"
  BY DEF Place
<1>3. tick_count \in Nat /\ tick_count + 1 \in 0..MaxTicks /\ late \in Nat
  BY ClockAssumption DEF Count, LoopTyped
<1>4. PICK tick \in 0..MaxTicks : tick = tick_count + 1
  BY <1>3
<1>5. /\ loop' = [loop EXCEPT ![l] = [at |-> at, tick |-> tick]]
      /\ tick_count' = tick_count + 1 /\ late' = (IF go THEN late ELSE late + 1) /\ at # "gone"
      /\ UNCHANGED <<running, paused, stop_event, go, thread, joining, timeouts, announced>>
  BY <1>2, <1>4 DEF Count
<1>6. /\ loop' \in [Loop -> [at : Place, tick : 0..MaxTicks]]
      /\ Live' \subseteq Live /\ Begun' = Begun
      /\ RunningOK' /\ UnbornOK' /\ OldLoops' /\ Ended'
  BY <1>1, <1>5, LoopMoves
<1>7. loop'[l].at = "dispatch" /\ loop'[l].tick = tick_count + 1 /\ \A k \in Loop \ {l} : loop'[k] = loop[k]
  BY <1>2, <1>4, <1>5 DEF LoopTyped
<1>8. LoopTyped'
  BY <1>3, <1>5, <1>6 DEF LoopTyped
<1>9. PauseOK'
  <2> SUFFICES ASSUME paused, running PROVE PauseOK'
    BY <1>5 DEF PauseOK
  <2>1. ~go
    BY DEF RunningOK, LoopTyped
  <2>2. Due' = Due \ {l}
    BY <1>7 DEF Due
  <2>3. Due \in SUBSET Loop
    BY Loops
  <2>4. Cardinality(Due') = Cardinality(Due) - 1 /\ Cardinality(Due) \in Nat /\ Cardinality(Begun) \in Nat
    BY <1>1, <2>2, <2>3, OneLess, Loops
  <2> QED
    BY <1>3, <1>5, <1>6, <2>1, <2>4 DEF PauseOK
<1>10. TicksOK'
  <2> SUFFICES ASSUME timeouts = 0 PROVE TicksOK'
    BY <1>5 DEF TicksOK
  <2>1. Live = {l}
    BY <1>1, OnlyLatest
  <2>2. announced \in Nat /\ announced <= tick_count
    BY DEF TicksOK, LoopTyped
  <2> QED
    BY <1>3, <1>5, <1>6, <1>7, <2>1, <2>2 DEF TicksOK
<1> QED
  BY <1>6, <1>8, <1>9, <1>10

-----------------------------------------------------------------------------
(* The calls of the interface thread                                       *)

LEMMA StartKeeps ==
  ASSUME LoopInv, joining = "none", Start
  PROVE  LoopInv'
<1> USE DEF LoopInv
<1>1. thread + 1 \in Loop /\ thread \in Nat /\ MaxStarts \in Nat /\ MaxTicks \in Nat
  BY ClockAssumption DEF Start, LoopTyped, Loop
<1>2. PICK new : new = thread + 1
  OBVIOUS
<1>3. /\ running' = TRUE /\ paused' = FALSE /\ stop_event' = FALSE /\ go' = TRUE /\ late' = 0
      /\ thread' = new /\ loop' = [loop EXCEPT ![new] = [at |-> "top", tick |-> 0]] /\ ~running
      /\ UNCHANGED <<tick_count, joining, timeouts, announced>>
  BY <1>2 DEF Start, StartGoes
<1>4. new \in Loop /\ new > thread /\ loop[new].at = "unborn" /\ loop \in [Loop -> [at : Place, tick : 0..MaxTicks]]
  BY <1>1, <1>2 DEF UnbornOK, LoopTyped
<1>5. loop'[new].at = "top" /\ \A k \in Loop \ {new} : loop'[k] = loop[k]
  BY <1>3, <1>4
<1>6. LoopTyped'
  <2>1. [at |-> "top", tick |-> 0] \in [at : Place, tick : 0..MaxTicks]
    BY <1>1 DEF Place
  <2>2. loop' \in [Loop -> [at : Place, tick : 0..MaxTicks]]
    BY <1>3, <1>4, <2>1
  <2>3. thread' \in 0..MaxStarts
    BY <1>1, <1>2, <1>3, <1>4 DEF Loop
  <2> QED
    BY <1>3, <2>2, <2>3 DEF LoopTyped
<1>7. Live' = Live \cup {new} /\ new \notin Live
  BY <1>4, <1>5 DEF Live
<1>8. Cardinality(Live) <= timeouts /\ Cardinality(Live) \in Nat /\ timeouts \in Nat
  BY <1>3, Fewer, Loops DEF Ended, LoopTyped
<1>9. RunningOK' /\ Ended' /\ PauseOK'
  BY <1>3, <1>7 DEF RunningOK, Ended, PauseOK
<1>10. UnbornOK'
  BY <1>1, <1>2, <1>3, <1>5 DEF UnbornOK, Loop
<1>11. OldLoops'
  <2>1. Live' \ {thread'} = Live
    BY <1>3, <1>7
  <2> QED
    BY <1>3, <1>8, <2>1 DEF OldLoops
<1>12. TicksOK'
  <2> SUFFICES ASSUME timeouts = 0 PROVE TicksOK'
    BY <1>3 DEF TicksOK
  <2>1. \A k \in Live' : loop'[k].at # "dispatch"
    <3>1. Cardinality(Live) = 0 /\ IsFiniteSet(Live)
      BY <1>8, Loops
    <3>2. Live = {}
      BY <3>1, FS_EmptySet
    <3> QED
      BY <1>5, <1>7, <3>2
  <2> QED
    BY <1>3, <2>1 DEF TicksOK
<1> QED
  BY <1>6, <1>9, <1>10, <1>11, <1>12

LEMMA PauseKeeps ==
  ASSUME LoopInv, Pause
  PROVE  LoopInv'
<1> USE DEF LoopInv
<1>1. /\ paused' = TRUE /\ go' = FALSE /\ late' = 0
      /\ UNCHANGED <<running, stop_event, tick_count, thread, loop, joining, timeouts, announced>>
  BY DEF Pause
<1>2. Live' = Live /\ Due' = Due /\ Begun' = Begun
  BY <1>1 DEF Live, Due, Begun
<1>3. LoopTyped' /\ RunningOK' /\ UnbornOK' /\ OldLoops' /\ Ended' /\ TicksOK'
  BY <1>1, <1>2 DEF LoopTyped, RunningOK, UnbornOK, OldLoops, Ended, TicksOK
<1>4. PauseOK'
  <2>1. Cardinality(Due) <= Cardinality(Begun) /\ Cardinality(Due) \in Nat /\ Cardinality(Begun) \in Nat
    BY Fewer, Loops
  <2>2. timeouts = 0 => Cardinality(Due) <= 1
    <3> SUFFICES ASSUME timeouts = 0 PROVE Cardinality(Due) <= 1
      OBVIOUS
    <3>1. Due \subseteq {thread} /\ IsFiniteSet({thread}) /\ Cardinality({thread}) = 1
      BY OnlyLatest, Loops, FS_Singleton
    <3> QED
      BY <3>1, FS_Subset
  <2> QED
    BY <1>1, <1>2, <2>1, <2>2 DEF PauseOK
<1> QED
  BY <1>3, <1>4

LEMMA StopKeeps ==
  ASSUME LoopInv, NEW purpose \in {"stop", "reset"}, Stop(purpose)
  PROVE  LoopInv'
<1> USE DEF LoopInv
<1>1. /\ running' = FALSE /\ stop_event' = TRUE /\ go' = TRUE /\ joining' = purpose
      /\ UNCHANGED <<paused, tick_count, thread, loop, timeouts, late, announced>>
  BY DEF Stop
<1>2. Live' = Live
  BY <1>1 DEF Live
<1> QED
  BY <1>1, <1>2 DEF LoopTyped, RunningOK, UnbornOK, OldLoops, Ended, TicksOK, PauseOK

LEMMA ResumeKeeps ==
  ASSUME LoopInv, Resume
  PROVE  LoopInv'
<1> USE DEF LoopInv
<1>1. /\ paused' = FALSE /\ go' = TRUE
      /\ UNCHANGED <<running, stop_event, tick_count, thread, loop, joining, timeouts, late, announced>>
  BY DEF Resume
<1>2. Live' = Live
  BY <1>1 DEF Live
<1> QED
  BY <1>1, <1>2 DEF LoopTyped, RunningOK, UnbornOK, OldLoops, Ended, TicksOK, PauseOK

LEMMA JoinedKeeps ==
  ASSUME LoopInv, Joined
  PROVE  LoopInv'
<1> USE DEF LoopInv
<1>1. /\ joining' = "none" /\ joining # "none" /\ ~running
      /\ UNCHANGED <<running, paused, stop_event, go, thread, loop, late>>
  BY DEF Joined, RunningOK
<1>2. Live' = Live
  BY <1>1 DEF Live
<1>3. (thread \notin Live /\ timeouts' = timeouts) \/ timeouts' = timeouts + 1
  BY DEF Joined
<1>4. (tick_count' = 0 /\ announced' = 0) \/ UNCHANGED <<tick_count, announced>>
  BY DEF Joined
<1>5. LoopTyped'
  BY <1>1, <1>3, <1>4, ClockAssumption DEF LoopTyped
<1>6. RunningOK' /\ UnbornOK' /\ PauseOK'
  BY <1>1 DEF RunningOK, UnbornOK, PauseOK
<1>7. OldLoops' /\ Ended'
  <2>1. /\ Cardinality(Live \ {thread}) \in Nat /\ Cardinality(Live) \in Nat /\ timeouts \in Nat
        /\ Cardinality(Live \ {thread}) <= timeouts
        /\ thread \in Live => Cardinality(Live \ {thread}) = Cardinality(Live) - 1
        /\ thread \notin Live => Live \ {thread} = Live
    BY Loops, OneLess DEF OldLoops, LoopTyped
  <2>2. OldLoops'
    BY <1>1, <1>2, <1>3, <2>1 DEF OldLoops
  <2>3. CASE thread \notin Live /\ timeouts' = timeouts
    <3>1. Cardinality(Live) <= timeouts
      BY <2>1, <2>3
    <3> QED
      BY <1>1, <1>2, <2>2, <2>3, <3>1 DEF Ended
  <2>4. CASE timeouts' = timeouts + 1
    <3>1. Cardinality(Live) <= timeouts + 1
      <4>1. CASE thread \in Live
        BY <2>1, <4>1
      <4>2. CASE thread \notin Live
        <5>1. Live \ {thread} = Live
          BY <2>1, <4>2
        <5>2. Cardinality(Live) <= timeouts
          BY <2>1, <5>1
        <5> QED
          BY <2>1, <5>2
      <4> QED
        BY <4>1, <4>2
    <3> QED
      BY <1>1, <1>2, <2>2, <2>4, <3>1 DEF Ended
  <2> QED
    BY <1>3, <2>3, <2>4
<1>8. TicksOK'
  <2> SUFFICES ASSUME timeouts' = 0 PROVE TicksOK'
    BY DEF TicksOK
  <2>1. thread \notin Live /\ timeouts = 0
    BY <1>3 DEF LoopTyped
  <2>2. Live = {}
    BY <2>1, OnlyLatest
  <2> QED
    BY <1>2, <1>4, <2>1, <2>2 DEF TicksOK
<1> QED
  BY <1>5, <1>6, <1>7, <1>8

LEMMA ResetStoppedKeeps ==
  ASSUME LoopInv, ResetStopped
  PROVE  LoopInv'
<1> USE DEF LoopInv
<1>1. /\ tick_count' = 0 /\ announced' = 0 /\ ~running /\ joining = "none"
      /\ UNCHANGED <<running, paused, stop_event, go, thread, loop, joining, timeouts, late>>
  BY DEF ResetStopped, Calls
<1>2. Live' = Live
  BY <1>1 DEF Live
<1>3. LoopTyped'
  BY <1>1, ClockAssumption DEF LoopTyped
<1>4. RunningOK' /\ UnbornOK' /\ OldLoops' /\ Ended' /\ PauseOK'
  BY <1>1, <1>2 DEF RunningOK, UnbornOK, OldLoops, Ended, PauseOK
<1>5. TicksOK'
  <2> SUFFICES ASSUME timeouts = 0 PROVE TicksOK'
    BY <1>1 DEF TicksOK
  <2>1. Cardinality(Live) = 0 /\ IsFiniteSet(Live)
    BY <1>1, Fewer, Loops DEF Ended
  <2>2. Live = {}
    BY <2>1, FS_EmptySet
  <2> QED
    BY <1>1, <1>2, <2>2 DEF TicksOK
<1> QED
  BY <1>3, <1>4, <1>5

LEMMA LoopStays ==
  ASSUME LoopInv, UNCHANGED <<running, paused, stop_event, go, tick_count, thread, loop, joining,
                              timeouts, late, announced>>
  PROVE  LoopInv'
<1>1. Live' = Live /\ Due' = Due /\ Begun' = Begun
  BY DEF Live, Due, Begun
<1> QED
  BY <1>1 DEF LoopInv, LoopTyped, RunningOK, UnbornOK, OldLoops, Ended, TicksOK, PauseOK

LEMMA InitLoops == ClockInit => LoopInv
<1> SUFFICES ASSUME ClockInit PROVE LoopInv
  OBVIOUS
<1>1. MaxTicks \in Nat /\ MaxStarts \in Nat
  BY ClockAssumption
<1>2. LoopTyped
  <2>1. [at |-> "unborn", tick |-> 0] \in [at : Place, tick : 0..MaxTicks]
    BY <1>1 DEF Place
  <2>2. loop \in [Loop -> [at : Place, tick : 0..MaxTicks]]
    BY <2>1 DEF ClockInit
  <2>3. /\ running \in BOOLEAN /\ paused \in BOOLEAN /\ stop_event \in BOOLEAN /\ go \in BOOLEAN
        /\ joining \in {"none", "stop", "reset"}
    BY DEF ClockInit
  <2>4. thread \in 0..MaxStarts /\ tick_count \in 0..MaxTicks /\ timeouts \in Nat /\ late \in Nat /\ announced \in Nat
    BY <1>1 DEF ClockInit
  <2> QED
    BY <2>2, <2>3, <2>4 DEF LoopTyped
<1>3. Live = {} /\ Live \ {thread} = {} /\ Cardinality({}) = 0
  BY FS_EmptySet DEF ClockInit, Live
<1>4. RunningOK /\ UnbornOK /\ OldLoops /\ Ended /\ PauseOK /\ TicksOK
  BY <1>3 DEF ClockInit, RunningOK, UnbornOK, OldLoops, Ended, PauseOK, TicksOK
<1> QED
  BY <1>2, <1>4 DEF LoopInv

LEMMA LoopStep == LoopInv /\ [ClockNext]_clockVars => LoopInv'
<1> SUFFICES ASSUME LoopInv, [ClockNext]_clockVars PROVE LoopInv'
  OBVIOUS
<1>1. StartClock \/ Show => LoopInv'
  BY StartKeeps, LoopStays DEF StartClock, Show, Calls
<1>2. PauseClock \/ Hide => LoopInv'
  BY PauseKeeps, LoopStays DEF PauseClock, Hide
<1>3. Resume \/ ResetStopped \/ Joined \/ (\E purpose \in {"stop", "reset"} : Stop(purpose)) => LoopInv'
  BY ResumeKeeps, ResetStoppedKeeps, JoinedKeeps, StopKeeps
<1>4. ASSUME NEW l \in Loop, Top(l) PROVE LoopInv'
  <2>1. PICK at \in Place \ {"unborn", "dispatch"} : at = IF stop_event THEN "gone" ELSE "asleep"
    BY DEF Place
  <2>2. l \in Live /\ Goes(l, at)
    BY <1>4, <2>1 DEF Top, Live
  <2> QED
    BY <1>4, <2>1, <2>2, LoopGoes DEF Top
<1>5. ASSUME NEW l \in Loop, Wakes(l) PROVE LoopInv'
  <2>1. PICK at \in Place \ {"unborn", "dispatch"} : at = IF stop_event THEN "gone" ELSE IF go THEN "due" ELSE "top"
    BY DEF Place
  <2>2. l \in Live /\ Goes(l, at)
    BY <1>5, <2>1 DEF Wakes, Live
  <2> QED
    BY <1>5, <2>1, <2>2, LoopGoes DEF Wakes
<1>6. ASSUME NEW l \in Loop, Count(l) PROVE LoopInv'
  BY <1>6, CountKeeps
<1>7. ASSUME NEW l \in Loop, Announce(l) PROVE LoopInv'
  <2>1. PICK at \in {"top", "push", "pop"} : Goes(l, at)
    BY <1>7 DEF Announce
  <2>2. l \in Live /\ at \in Place \ {"unborn", "dispatch"} /\ at # "gone" /\ at # "due"
    BY <1>7 DEF Announce, Live, Place
  <2>3. announced' = announced \/ (loop[l].at = "dispatch" /\ announced' = loop[l].tick)
    BY <1>7 DEF Announce
  <2> QED
    BY <1>7, <2>1, <2>2, <2>3, LoopGoes DEF Announce
<1>8. ASSUME NEW l \in Loop, PushTimer(l) \/ HandleOnTick(l) \/ HandledOnTick(l) PROVE LoopInv'
  <2>1. PICK at \in {"pop", "top", "handle"} : Goes(l, at)
    BY <1>8 DEF PushTimer, HandleOnTick, HandledOnTick
  <2>2. l \in Live /\ at \in Place \ {"unborn", "dispatch"} /\ at # "gone" /\ at # "due"
    BY <1>8 DEF PushTimer, HandleOnTick, HandledOnTick, Live, Place
  <2>3. UNCHANGED <<running, paused, stop_event, go, tick_count, thread, joining, timeouts, late, announced>>
    BY <1>8 DEF PushTimer, HandleOnTick, HandledOnTick
  <2> QED
    BY <2>1, <2>2, <2>3, LoopGoes
<1>9. (\E type \in RaisedTypes : Draw(type)) \/ PushDrawn \/ ListenOrNot \/ UNCHANGED clockVars => LoopInv'
  BY LoopStays DEF Draw, PushDrawn, ListenOrNot, clockVars, loopVars
<1> QED
  BY <1>1, <1>2, <1>3, <1>4, <1>5, <1>6, <1>7, <1>8, <1>9 DEF ClockNext

-----------------------------------------------------------------------------
(* The interrupts: drawing a number, pushing, taking out, handling         *)

IrqSound == IrqTyped /\ OneEach /\ Numbered

LEMMA DrawSound ==
  ASSUME IrqSound, NEW r \in Raiser, NEW type \in DOMAIN Priority, holds[r] = {},
         seq' = seq + 1, holds' = [holds EXCEPT ![r] = {Interrupt(type)}],
         others' \in Nat, UNCHANGED <<pending, done>>
  PROVE  IrqSound'
<1> USE DEF IrqSound
<1>1. PICK new \in Irq : new = Interrupt(type) /\ new.seq = seq
  <2>1. Interrupt(type) \in Irq /\ Interrupt(type).seq = seq
    BY DEF Interrupt, Irq, IrqTyped
  <2> QED
    BY <2>1
<1>0. PICK last : last = seq
  OBVIOUS
<1>2. /\ seq \in Nat /\ holds \in [Raiser -> SUBSET Irq] /\ pending \subseteq Irq /\ done \subseteq Nat
      /\ holds' = [holds EXCEPT ![r] = {new}]
  BY <1>1 DEF IrqTyped
<1>3. holds'[r] = {new} /\ \A k \in Raiser \ {r} : holds'[k] = holds[k]
  BY <1>2
<1>4. \A k \in Raiser : \A a \in holds'[k] : a = new \/ (k # r /\ a \in holds[k])
  BY <1>3
<1>5. IrqTyped'
  <2>1. holds' \in [Raiser -> SUBSET Irq]
    BY <1>2
  <2> QED
    BY <1>2, <2>1 DEF IrqTyped
<1>6. /\ \A k \in Raiser : \A a \in holds[k] : a.seq \in Nat /\ a.seq < seq
      /\ \A a \in pending : a.seq \in Nat /\ a.seq < seq
  BY <1>2 DEF Numbered, Irq
<1>7. OneEach'
  <2>1. \A k \in Raiser : \A a, b \in holds'[k] : a = b
    BY <1>3 DEF OneEach
  <2>2. \A a, b \in pending' : a.seq = b.seq => a = b
    BY DEF OneEach
  <2>3. \A k \in Raiser : \A a \in holds'[k], b \in pending' : a.seq # b.seq
    BY <1>1, <1>2, <1>4, <1>6 DEF OneEach
  <2>4. ASSUME NEW k \in Raiser, NEW s \in Raiser, k # s, NEW a \in holds'[k], NEW b \in holds'[s]
        PROVE  a.seq # b.seq
    <3>1. CASE k = r
      BY <1>1, <1>2, <1>3, <1>6, <2>4, <3>1
    <3>2. CASE s = r
      BY <1>1, <1>2, <1>3, <1>6, <2>4, <3>2
    <3>3. CASE k # r /\ s # r
      BY <1>3, <2>4, <3>3 DEF OneEach
    <3> QED
      BY <3>1, <3>2, <3>3
  <2> QED
    BY <2>1, <2>2, <2>3, <2>4 DEF OneEach
<1>8. \A n \in Nat : InHand(n)' => InHand(n) \/ n = seq
  BY <1>1, <1>4 DEF InHand
<1>9. \A n \in Nat : InHand(n) => InHand(n)'
  BY <1>3 DEF InHand
<1>10. InHand(last)'
  BY <1>0, <1>1, <1>3 DEF InHand
<1>11. \A n \in Nat : InHeap(n)' <=> InHeap(n)
  BY DEF InHeap
<1>12. Numbered'
  <2>1. \A n \in done : n < seq + 1 /\ ~InHand(n)' /\ ~InHeap(n)'
    <3> TAKE n \in done
    <3>1. n \in Nat /\ n < seq /\ ~InHand(n) /\ ~InHeap(n)
      BY <1>2 DEF Numbered
    <3> QED
      BY <1>2, <1>8, <1>11, <3>1
  <2>2. \A k \in Raiser : \A a \in holds'[k] : a.seq < seq + 1
    BY <1>1, <1>2, <1>4, <1>6
  <2>3. \A a \in pending : a.seq < seq + 1
    BY <1>2, <1>6
  <2>4. \A n \in 0..seq : n \in done \/ InHand(n)' \/ InHeap(n)'
    <3> TAKE n \in 0..seq
    <3>1. n \in Nat
      OBVIOUS
    <3>2. CASE n = seq
      BY <1>0, <1>10, <3>2
    <3>3. CASE n # seq
      <4>1. n \in 0..(seq - 1)
        BY <1>2, <3>3
      <4>2. n \in done \/ InHand(n) \/ InHeap(n)
        BY <4>1 DEF Numbered
      <4> QED
        BY <1>9, <1>11, <3>1, <4>2
    <3> QED
      BY <3>2, <3>3
  <2>5. 0..(seq' - 1) = 0..seq
    BY <1>2
  <2> QED
    BY <2>1, <2>2, <2>3, <2>4, <2>5 DEF Numbered
<1> QED
  BY <1>5, <1>7, <1>12

\* What a raiser holds goes to the heap, what it takes out of the heap to its hands.
LEMMA ShiftSound ==
  ASSUME IrqSound, NEW r \in Raiser, holds' \in [Raiser -> SUBSET Irq],
         \A k \in Raiser \ {r} : holds'[k] = holds[k],
         pending' \cup holds'[r] = pending \cup holds[r],
         pending' \cap holds'[r] = {}, \A a, b \in holds'[r] : a = b,
         IsFiniteSet(pending'), others' \in Nat, UNCHANGED <<seq, done>>
  PROVE  IrqSound'
<1> USE DEF IrqSound
<1>1. /\ seq \in Nat /\ holds \in [Raiser -> SUBSET Irq] /\ pending \subseteq Irq
  BY DEF IrqTyped
<1>2. \A k \in Raiser : \A a \in holds'[k] : a \in pending \/ (a \in holds[k] /\ (k = r \/ holds'[k] = holds[k]))
  OBVIOUS
<1>3. \A a, b \in pending \cup holds[r] : a.seq = b.seq => a = b
  BY DEF OneEach
<1>4. \A a \in pending \cup holds[r] : \A k \in Raiser \ {r} : \A b \in holds[k] : a.seq # b.seq
  BY DEF OneEach
<1>5. IrqTyped'
  BY <1>1 DEF IrqTyped
<1>6. OneEach'
  <2>1. \A k \in Raiser : \A a, b \in holds'[k] : a = b
    BY DEF OneEach
  <2>2. \A a, b \in pending' : a.seq = b.seq => a = b
    BY <1>3
  <2>3. \A k \in Raiser : \A a \in holds'[k], b \in pending' : a.seq # b.seq
    <3> TAKE k \in Raiser
    <3>1. CASE k = r
      BY <1>3, <3>1
    <3>2. CASE k # r
      BY <1>4, <3>2
    <3> QED
      BY <3>1, <3>2
  <2>4. ASSUME NEW k \in Raiser, NEW s \in Raiser, k # s, NEW a \in holds'[k], NEW b \in holds'[s]
        PROVE  a.seq # b.seq
    <3>1. CASE k = r
      <4>1. a \in pending \cup holds[r] /\ b \in holds[s] /\ s # r
        BY <2>4, <3>1
      <4> QED
        BY <1>4, <4>1
    <3>2. CASE s = r
      <4>1. b \in pending \cup holds[r] /\ a \in holds[k] /\ k # r
        BY <2>4, <3>2
      <4> QED
        BY <1>4, <4>1
    <3>3. CASE k # r /\ s # r
      BY <2>4, <3>3 DEF OneEach
    <3> QED
      BY <3>1, <3>2, <3>3
  <2> QED
    BY <2>1, <2>2, <2>3, <2>4 DEF OneEach
<1>7. \A n \in Nat : (InHand(n) \/ InHeap(n)) <=> (InHand(n)' \/ InHeap(n)')
  <2> TAKE n \in Nat
  <2>1. ASSUME InHand(n) \/ InHeap(n) PROVE InHand(n)' \/ InHeap(n)'
    <3>1. CASE InHeap(n)
      <4>1. PICK a \in pending : a.seq = n
        BY <3>1 DEF InHeap
      <4> QED
        BY <4>1 DEF InHand, InHeap
    <3>2. CASE InHand(n)
      <4>1. PICK k \in Raiser : \E a \in holds[k] : a.seq = n
        BY <3>2 DEF InHand
      <4>2. PICK a \in holds[k] : a.seq = n
        BY <4>1
      <4>3. a \in holds'[k] \/ a \in pending'
        BY <4>2
      <4> QED
        BY <4>2, <4>3 DEF InHand, InHeap
    <3> QED
      BY <2>1, <3>1, <3>2
  <2>2. ASSUME InHand(n)' \/ InHeap(n)' PROVE InHand(n) \/ InHeap(n)
    <3>1. CASE InHeap(n)'
      <4>1. PICK a \in pending' : a.seq = n
        BY <3>1 DEF InHeap
      <4> QED
        BY <4>1 DEF InHand, InHeap
    <3>2. CASE InHand(n)'
      <4>1. PICK k \in Raiser : \E a \in holds'[k] : a.seq = n
        BY <3>2 DEF InHand
      <4>2. PICK a \in holds'[k] : a.seq = n
        BY <4>1
      <4>3. a \in holds[k] \/ a \in pending
        BY <4>2
      <4> QED
        BY <4>2, <4>3 DEF InHand, InHeap
    <3> QED
      BY <2>2, <3>1, <3>2
  <2> QED
    BY <2>1, <2>2
<1>8. Numbered'
  <2>1. \A n \in done : n \in Nat /\ n < seq /\ ~InHand(n)' /\ ~InHeap(n)'
    BY <1>7 DEF Numbered, IrqTyped
  <2>2. \A k \in Raiser : \A a \in holds'[k] : a.seq < seq
    BY <1>2 DEF Numbered
  <2>3. \A a \in pending' : a.seq < seq
    BY DEF Numbered
  <2>4. \A n \in 0..(seq - 1) : n \in done \/ InHand(n)' \/ InHeap(n)'
    BY <1>7 DEF Numbered
  <2> QED
    BY <2>1, <2>2, <2>3, <2>4 DEF Numbered
<1> QED
  BY <1>5, <1>6, <1>8

LEMMA HandledSound ==
  ASSUME IrqSound, NEW r \in Raiser, Handled(r)
  PROVE  IrqSound'
<1> USE DEF IrqSound
<1>1. /\ done' = done \cup {irq.seq : irq \in holds[r]} /\ holds' = [holds EXCEPT ![r] = {}]
      /\ UNCHANGED <<pending, seq, others>>
  BY DEF Handled
<1>2. /\ seq \in Nat /\ holds \in [Raiser -> SUBSET Irq] /\ pending \subseteq Irq /\ done \subseteq Nat
  BY DEF IrqTyped
<1>3. holds'[r] = {} /\ \A k \in Raiser \ {r} : holds'[k] = holds[k]
  BY <1>1, <1>2
<1>4. IrqTyped'
  <2>1. holds' \in [Raiser -> SUBSET Irq]
    BY <1>1, <1>2
  <2>2. done' \subseteq Nat
    <3>1. \A irq \in holds[r] : irq.seq \in Nat
      BY <1>2 DEF Irq
    <3> QED
      BY <1>1, <1>2, <3>1
  <2> QED
    BY <1>1, <2>1, <2>2 DEF IrqTyped
<1>5. OneEach'
  BY <1>1, <1>3 DEF OneEach
<1>6. \A n \in Nat : InHand(n)' => InHand(n)
  BY <1>3 DEF InHand
<1>7. \A n \in Nat : InHeap(n)' <=> InHeap(n)
  BY <1>1 DEF InHeap
<1>8. Numbered'
  <2>1. \A n \in done' : n < seq /\ ~InHand(n)' /\ ~InHeap(n)'
    <3> TAKE n \in done'
    <3>1. CASE n \in done
      BY <1>2, <1>6, <1>7, <3>1 DEF Numbered
    <3>2. CASE n \notin done
      <4>1. PICK a \in holds[r] : a.seq = n
        BY <1>1, <3>2
      <4>2. n < seq /\ n \in Nat
        BY <1>2, <4>1 DEF Numbered, Irq
      <4>3. ~InHeap(n)
        BY <4>1 DEF OneEach, InHeap
      <4>4. ~InHand(n)'
        BY <1>3, <4>1 DEF OneEach, InHand
      <4> QED
        BY <1>7, <4>2, <4>3, <4>4
    <3> QED
      BY <3>1, <3>2
  <2>2. \A k \in Raiser : \A a \in holds'[k] : a.seq < seq
    BY <1>3 DEF Numbered
  <2>3. \A a \in pending' : a.seq < seq
    BY <1>1 DEF Numbered
  <2>4. \A n \in 0..(seq - 1) : n \in done' \/ InHand(n)' \/ InHeap(n)'
    <3> TAKE n \in 0..(seq - 1)
    <3>1. CASE n \in done \/ InHeap(n)
      BY <1>1, <1>7, <3>1
    <3>2. CASE InHand(n)
      <4>1. PICK k \in Raiser : \E a \in holds[k] : a.seq = n
        BY <3>2 DEF InHand
      <4>2. PICK a \in holds[k] : a.seq = n
        BY <4>1
      <4>3. CASE k = r
        BY <1>1, <4>2, <4>3
      <4>4. CASE k # r
        BY <1>3, <4>2, <4>4 DEF InHand
      <4> QED
        BY <4>3, <4>4
    <3> QED
      BY <3>1, <3>2 DEF Numbered
  <2> QED
    BY <1>1, <2>1, <2>2, <2>3, <2>4 DEF Numbered
<1> QED
  BY <1>4, <1>5, <1>8

-----------------------------------------------------------------------------
(* The interrupts and the loops that raise and handle them                 *)

LEMMA AtMostOne ==
  ASSUME NEW S, \A a, b \in S : a = b
  PROVE  IsFiniteSet(S) /\ Cardinality(S) \in 0..1 /\ (S = {} <=> Cardinality(S) = 0)
<1>1. CASE S = {}
  BY <1>1, FS_EmptySet
<1>2. CASE S # {}
  <2>1. PICK x \in S : TRUE
    BY <1>2
  <2>2. S = {x}
    BY <2>1
  <2>3. IsFiniteSet({x}) /\ Cardinality({x}) = 1
    BY FS_Singleton
  <2> QED
    BY <1>2, <2>2, <2>3
<1> QED
  BY <1>1, <1>2

LEMMA Raisers ==
  /\ 0 \in Raiser /\ 0 \notin Loop /\ Loop \subseteq Raiser
  /\ IrqInv => Cardinality(holds[0]) \in Nat /\ Cardinality(pending) \in Nat
<1>1. 0 \in Raiser /\ 0 \notin Loop /\ Loop \subseteq Raiser
  BY ClockAssumption DEF Raiser, Loop
<1>2. ASSUME IrqInv PROVE Cardinality(holds[0]) \in Nat /\ Cardinality(pending) \in Nat
  <2>1. Cardinality(holds[0]) \in 0..1
    BY <1>1, <1>2, AtMostOne DEF IrqInv, OneEach
  <2> QED
    BY <1>2, <2>1, FS_CardinalityType DEF IrqInv, IrqTyped
<1> QED
  BY <1>1, <1>2

\* A loop that has no interrupt in its hands and is not about to handle one goes anywhere.
LEMMA IrqStays ==
  ASSUME LoopInv, IrqInv, UNCHANGED <<pending, seq, holds, done, others>>,
         loop' = loop \/ \E l \in Loop : /\ loop[l].at \notin {"push", "pop", "handle"}
                                         /\ \A k \in Loop \ {l} : loop'[k] = loop[k]
  PROVE  IrqInv'
<1> USE DEF IrqInv
<1>1. IrqTyped' /\ OneEach'
  BY DEF IrqTyped, OneEach
<1>2. Numbered'
  BY DEF Numbered, InHand, InHeap
<1>3. HandsOK'
  BY DEF HandsOK
<1>4. KeptUp'
  <2>1. Popping \subseteq Popping' /\ Popping' \in SUBSET Loop
    BY DEF Popping
  <2>2. Cardinality(Popping) <= Cardinality(Popping') /\ Cardinality(Popping) \in Nat /\ Cardinality(Popping') \in Nat
    BY <2>1, Fewer
  <2>3. Cardinality(holds[0]) \in Nat /\ Cardinality(pending) \in Nat /\ others \in Nat
    BY Raisers DEF IrqTyped
  <2> QED
    BY <2>2, <2>3 DEF KeptUp
<1> QED
  BY <1>1, <1>2, <1>3, <1>4

LEMMA AnnounceIrq ==
  ASSUME LoopInv, IrqInv, NEW l \in Loop, Announce(l)
  PROVE  IrqInv'
<1> USE DEF IrqInv
<1>1. PICK at \in {"top", "push", "pop"} : Goes(l, at)
  BY DEF Announce
<1>2. loop'[l].at = at /\ loop[l].at = "dispatch" /\ \A k \in Loop \ {l} : loop'[k] = loop[k]
  BY <1>1 DEF Announce, Goes, LoopInv, LoopTyped
<1>3. CASE UNCHANGED <<seq, holds>>
  BY <1>2, <1>3, IrqStays DEF Announce
<1>4. CASE at = "push" /\ seq' = seq + 1 /\ holds' = [holds EXCEPT ![l] = {Interrupt("TIMER")}]
  <2>1. holds[l] = {} /\ l \in Raiser /\ l # 0
    BY <1>2, Raisers DEF HandsOK
  <2>2. "TIMER" \in DOMAIN Priority
    BY DEF Priority
  <2>3. UNCHANGED <<pending, done, others>> /\ others' \in Nat
    BY DEF Announce, IrqTyped
  <2>4. IrqSound'
    BY <1>4, <2>1, <2>2, <2>3, DrawSound DEF IrqSound
  <2>5. HandsOK'
    BY <1>2, <1>4, <2>1, Raisers DEF HandsOK, IrqTyped
  <2>6. Popping' = Popping
    BY <1>2, <1>4 DEF Popping
  <2>7. holds'[0] = holds[0]
    BY <1>4, <2>1, Raisers DEF IrqTyped
  <2>8. KeptUp'
    BY <2>3, <2>6, <2>7 DEF KeptUp
  <2> QED
    BY <2>4, <2>5, <2>8 DEF IrqSound
<1>5. \/ UNCHANGED <<seq, holds>>
      \/ at = "push" /\ seq' = seq + 1 /\ holds' = [holds EXCEPT ![l] = {Interrupt("TIMER")}]
  <2>1. CASE Goes(l, "push") /\ seq' = seq + 1 /\ holds' = [holds EXCEPT ![l] = {Interrupt("TIMER")}]
    <3>1. loop'[l].at = "push"
      BY <2>1 DEF Goes, LoopInv, LoopTyped
    <3> QED
      BY <1>2, <2>1, <3>1
  <2> QED
    BY <2>1 DEF Announce
<1> QED
  BY <1>3, <1>4, <1>5

\* Pushing keeps the interrupts; one more may wait.
LEMMA PushSound ==
  ASSUME IrqInv, NEW r \in Raiser, Push(r), UNCHANGED others
  PROVE  /\ IrqSound' /\ holds'[r] = {} /\ \A k \in Raiser \ {r} : holds'[k] = holds[k]
         /\ Cardinality(pending') \in Nat
         /\ Cardinality(pending') <= Cardinality(pending) + Cardinality(holds[r])
         /\ Cardinality(holds[r]) \in 0..1
<1> USE DEF IrqInv
<1>1. /\ pending' = pending \cup holds[r] /\ holds' = [holds EXCEPT ![r] = {}] /\ UNCHANGED <<seq, done>>
  BY DEF Push
<1>2. holds \in [Raiser -> SUBSET Irq] /\ IsFiniteSet(pending) /\ Cardinality(pending) \in Nat
  BY Raisers DEF IrqTyped
<1>3. holds'[r] = {} /\ holds' \in [Raiser -> SUBSET Irq] /\ \A k \in Raiser \ {r} : holds'[k] = holds[k]
  BY <1>1, <1>2
<1>4. IsFiniteSet(holds[r]) /\ Cardinality(holds[r]) \in 0..1
  BY AtMostOne DEF OneEach
<1>5. IsFiniteSet(pending')
  BY <1>1, <1>2, <1>4, FS_Union
<1>6. Cardinality(pending') <= Cardinality(pending) + Cardinality(holds[r]) /\ Cardinality(pending') \in Nat
  <2>1. Cardinality(pending') = Cardinality(pending) + Cardinality(holds[r]) - Cardinality(pending \cap holds[r])
    BY <1>1, <1>2, <1>4, FS_Union
  <2>2. Cardinality(pending \cap holds[r]) \in Nat /\ Cardinality(pending') \in Nat
    BY <1>2, <1>5, FS_Intersection, FS_CardinalityType
  <2> QED
    BY <1>2, <1>4, <2>1, <2>2
<1>7. IrqSound'
  <2>1. pending' \cup holds'[r] = pending \cup holds[r] /\ pending' \cap holds'[r] = {}
        /\ \A a, b \in holds'[r] : a = b
    BY <1>1, <1>3
  <2>2. others' \in Nat
    BY DEF IrqTyped
  <2> QED
    BY <1>1, <1>3, <1>5, <2>1, <2>2, ShiftSound DEF IrqSound
<1> QED
  BY <1>3, <1>4, <1>6, <1>7

LEMMA PushTimerIrq ==
  ASSUME LoopInv, IrqInv, NEW l \in Loop, PushTimer(l)
  PROVE  IrqInv'
<1> USE DEF IrqInv
<1>1. loop[l].at = "push" /\ Goes(l, "pop") /\ Push(l) /\ UNCHANGED others
  BY DEF PushTimer
<1>2. loop'[l].at = "pop" /\ \A k \in Loop \ {l} : loop'[k] = loop[k]
  BY <1>1 DEF Goes, LoopInv, LoopTyped
<1>3. l \in Raiser /\ l # 0 /\ 0 \in Raiser /\ Loop \subseteq Raiser
  BY Raisers
<1>4. /\ IrqSound' /\ holds'[l] = {} /\ \A k \in Raiser \ {l} : holds'[k] = holds[k]
      /\ Cardinality(pending') \in Nat
      /\ Cardinality(pending') <= Cardinality(pending) + Cardinality(holds[l])
      /\ Cardinality(holds[l]) \in 0..1
  BY <1>1, <1>3, PushSound
<1>5. HandsOK'
  BY <1>2, <1>3, <1>4 DEF HandsOK
<1>6. Popping = Popping' \ {l} /\ l \in Popping' /\ Popping' \in SUBSET Loop
  BY <1>1, <1>2 DEF Popping
<1>7. Cardinality(Popping') \in Nat /\ Cardinality(Popping) = Cardinality(Popping') - 1
  BY <1>6, OneLess
<1>8. holds'[0] = holds[0] /\ Cardinality(holds[0]) \in Nat /\ Cardinality(pending) \in Nat /\ others \in Nat
  BY <1>3, <1>4, Raisers DEF IrqTyped
<1>9. KeptUp'
  BY <1>1, <1>4, <1>7, <1>8 DEF KeptUp
<1> QED
  BY <1>4, <1>5, <1>9 DEF IrqSound

LEMMA HandleIrq ==
  ASSUME LoopInv, IrqInv, NEW l \in Loop, HandleOnTick(l)
  PROVE  IrqInv'
<1> USE DEF IrqInv
<1>1. PICK at \in {"top", "handle"} : Goes(l, at)
  BY DEF HandleOnTick
<1>2. loop'[l].at = at /\ loop[l].at = "pop" /\ \A k \in Loop \ {l} : loop'[k] = loop[k]
  BY <1>1 DEF HandleOnTick, Goes, LoopInv, LoopTyped
<1>3. l \in Raiser /\ l # 0 /\ 0 \in Raiser /\ Loop \subseteq Raiser /\ holds[l] = {}
  BY <1>2, Raisers DEF HandsOK
<1>4. Popping' = Popping \ {l} /\ l \in Popping /\ Popping \in SUBSET Loop
  BY <1>2 DEF Popping
<1>5. Cardinality(Popping) \in Nat /\ Cardinality(Popping') = Cardinality(Popping) - 1 /\ Cardinality(Popping') \in Nat
  BY <1>4, OneLess
<1>6. Cardinality(holds[0]) \in Nat /\ Cardinality(pending) \in Nat /\ others \in Nat
      /\ Cardinality(holds[0]) <= others
  BY Raisers DEF IrqTyped, KeptUp
<1>7. CASE pending = {}
  <2>1. UNCHANGED <<pending, seq, holds, done, others>>
    BY <1>7 DEF HandleOnTick, irqVars
  <2>2. IrqTyped' /\ OneEach'
    BY <2>1 DEF IrqTyped, OneEach
  <2>3. Numbered'
    BY <2>1 DEF Numbered, InHand, InHeap
  <2>4. HandsOK'
    BY <1>2, <1>3, <2>1 DEF HandsOK
  <2>5. Cardinality(pending) = 0
    BY <1>7, FS_EmptySet
  <2>6. KeptUp'
    BY <1>5, <1>6, <2>1, <2>5 DEF KeptUp
  <2> QED
    BY <2>2, <2>3, <2>4, <2>6
<1>8. CASE pending # {}
  <2>1. Goes(l, "handle") /\ Handle(l)
    BY <1>8 DEF HandleOnTick
  <2>2. PICK irq \in pending : /\ pending' = pending \ {irq} /\ holds' = [holds EXCEPT ![l] = {irq}]
                               /\ UNCHANGED <<seq, done, others>>
    BY <2>1 DEF Handle, HeapWithout
  <2>3. loop'[l].at = "handle"
    BY <2>1 DEF Goes, LoopInv, LoopTyped
  <2>4. holds'[l] = {irq} /\ holds' \in [Raiser -> SUBSET Irq] /\ \A k \in Raiser \ {l} : holds'[k] = holds[k]
    BY <1>3, <2>2 DEF IrqTyped
  <2>5. IsFiniteSet(pending') /\ Cardinality(pending') = Cardinality(pending) - 1
    BY <2>2, FS_RemoveElement DEF IrqTyped
  <2>6. IrqSound'
    <3>1. pending' \cup holds'[l] = pending \cup holds[l] /\ pending' \cap holds'[l] = {}
          /\ \A a, b \in holds'[l] : a = b
      BY <1>3, <2>2, <2>4
    <3> QED
      BY <1>3, <1>6, <2>2, <2>4, <2>5, <3>1, ShiftSound DEF IrqSound
  <2>7. HandsOK'
    BY <1>2, <1>3, <2>3, <2>4 DEF HandsOK
  <2>8. holds'[0] = holds[0]
    BY <1>3, <2>4
  <2>9. KeptUp'
    BY <1>5, <1>6, <2>2, <2>5, <2>8 DEF KeptUp
  <2> QED
    BY <2>6, <2>7, <2>9 DEF IrqSound
<1> QED
  BY <1>7, <1>8

LEMMA HandledIrq ==
  ASSUME LoopInv, IrqInv, NEW l \in Loop, HandledOnTick(l)
  PROVE  IrqInv'
<1> USE DEF IrqInv
<1>1. loop[l].at = "handle" /\ Goes(l, "top") /\ Handled(l)
  BY DEF HandledOnTick
<1>2. loop'[l].at = "top" /\ \A k \in Loop \ {l} : loop'[k] = loop[k]
  BY <1>1 DEF Goes, LoopInv, LoopTyped
<1>3. l \in Raiser /\ l # 0 /\ 0 \in Raiser /\ Loop \subseteq Raiser
  BY Raisers
<1>4. IrqSound'
  BY <1>1, <1>3, HandledSound DEF IrqSound
<1>5. holds'[l] = {} /\ (\A k \in Raiser \ {l} : holds'[k] = holds[k]) /\ UNCHANGED <<pending, others>>
  BY <1>1, <1>3 DEF Handled, IrqTyped
<1>6. HandsOK'
  BY <1>2, <1>3, <1>5 DEF HandsOK
<1>7. Popping' = Popping /\ holds'[0] = holds[0]
  BY <1>1, <1>2, <1>3, <1>5 DEF Popping
<1>8. KeptUp'
  BY <1>5, <1>7 DEF KeptUp
<1> QED
  BY <1>4, <1>6, <1>8 DEF IrqSound

LEMMA DrawIrq ==
  ASSUME LoopInv, IrqInv, NEW type \in RaisedTypes, Draw(type)
  PROVE  IrqInv'
<1> USE DEF IrqInv
<1>1. /\ holds[0] = {} /\ seq' = seq + 1 /\ others' = others + 1 /\ holds' = [holds EXCEPT ![0] = {Interrupt(type)}]
      /\ UNCHANGED <<loop, pending, done>>
  BY DEF Draw, loopVars
<1>2. type \in DOMAIN Priority /\ 0 \in Raiser /\ 0 \notin Loop /\ Loop \subseteq Raiser /\ others \in Nat
  BY ClockAssumption, Raisers DEF IrqTyped
<1>3. IrqSound'
  <2>1. others' \in Nat
    BY <1>1, <1>2
  <2>2. UNCHANGED <<pending, done>> /\ IrqSound
    BY <1>1 DEF IrqSound
  <2> QED
    BY <1>1, <1>2, <2>1, <2>2, DrawSound
<1>4. holds'[0] = {Interrupt(type)} /\ \A k \in Loop : holds'[k] = holds[k]
  BY <1>1, <1>2 DEF IrqTyped
<1>5. HandsOK'
  BY <1>1, <1>4 DEF HandsOK
<1>6. Cardinality(holds[0]) = 0 /\ Cardinality(holds'[0]) = 1
  BY <1>1, <1>4, FS_EmptySet, FS_Singleton
<1>7. Popping' = Popping
  BY <1>1 DEF Popping
<1>8. Cardinality(pending) \in Nat /\ Cardinality(Popping) \in Nat
  BY Raisers, Loops
<1>9. KeptUp'
  BY <1>1, <1>2, <1>6, <1>7, <1>8 DEF KeptUp
<1> QED
  BY <1>3, <1>5, <1>9 DEF IrqSound

LEMMA PushDrawnIrq ==
  ASSUME LoopInv, IrqInv, PushDrawn
  PROVE  IrqInv'
<1> USE DEF IrqInv
<1>1. Push(0) /\ UNCHANGED <<loop, others>>
  BY DEF PushDrawn, loopVars
<1>2. 0 \in Raiser /\ 0 \notin Loop /\ Loop \subseteq Raiser /\ others \in Nat
      /\ Cardinality(pending) \in Nat /\ Cardinality(Popping) \in Nat
  BY Raisers, Loops DEF IrqTyped
<1>3. /\ IrqSound' /\ holds'[0] = {} /\ \A k \in Raiser \ {0} : holds'[k] = holds[k]
      /\ Cardinality(pending') \in Nat
      /\ Cardinality(pending') <= Cardinality(pending) + Cardinality(holds[0])
      /\ Cardinality(holds[0]) \in 0..1
  BY <1>1, <1>2, PushSound
<1>4. HandsOK'
  BY <1>1, <1>2, <1>3 DEF HandsOK
<1>5. Popping' = Popping /\ Cardinality(holds'[0]) = 0
  BY <1>1, <1>3, FS_EmptySet DEF Popping
<1>6. KeptUp'
  BY <1>1, <1>2, <1>3, <1>5 DEF KeptUp
<1> QED
  BY <1>3, <1>4, <1>6 DEF IrqSound

LEMMA StartIrq ==
  ASSUME LoopInv, IrqInv, Start, UNCHANGED irqVars
  PROVE  IrqInv'
<1>1. thread + 1 \in Loop /\ thread + 1 > thread
  BY ClockAssumption DEF Start, LoopInv, LoopTyped, Loop
<1>2. PICK new \in Loop : new = thread + 1
  BY <1>1
<1>3. loop[new].at = "unborn" /\ \A k \in Loop \ {new} : loop'[k] = loop[k]
  BY <1>1, <1>2 DEF Start, LoopInv, LoopTyped, UnbornOK
<1> QED
  BY <1>3, IrqStays DEF irqVars

LEMMA IrqStep == LoopInv /\ IrqInv /\ [ClockNext]_clockVars => IrqInv'
<1> SUFFICES ASSUME LoopInv, IrqInv, [ClockNext]_clockVars PROVE IrqInv'
  OBVIOUS
<1>1. StartClock \/ Show => IrqInv'
  <2>1. CASE UNCHANGED <<loop, irqVars>>
    BY <2>1, IrqStays DEF irqVars
  <2> QED
    BY <2>1, StartIrq DEF StartClock, Show, Calls
<1>2. (\/ PauseClock \/ Hide \/ Resume \/ ResetStopped \/ Joined \/ UNCHANGED clockVars
       \/ \E purpose \in {"stop", "reset"} : Stop(purpose)) => UNCHANGED <<loop, irqVars>>
  BY DEF PauseClock, Hide, Pause, Resume, ResetStopped, Joined, Stop, Calls, clockVars, loopVars
<1>3. ASSUME UNCHANGED <<loop, irqVars>> \/ ListenOrNot PROVE IrqInv'
  <2>1. UNCHANGED <<loop, pending, seq, holds, done, others>>
    BY <1>3 DEF irqVars, ListenOrNot, loopVars
  <2> QED
    BY <2>1, IrqStays
<1>4. ASSUME NEW l \in Loop, Top(l) \/ Wakes(l) \/ Count(l) PROVE IrqInv'
  <2>1. loop[l].at \in {"top", "asleep", "due"} /\ UNCHANGED irqVars
    BY <1>4 DEF Top, Wakes, Count
  <2>2. \A k \in Loop \ {l} : loop'[k] = loop[k]
    BY <1>4 DEF Top, Wakes, Count, Goes, LoopInv, LoopTyped
  <2> QED
    BY <2>1, <2>2, IrqStays DEF irqVars
<1>5. ASSUME NEW l \in Loop PROVE Announce(l) \/ PushTimer(l) \/ HandleOnTick(l) \/ HandledOnTick(l) => IrqInv'
  BY AnnounceIrq, PushTimerIrq, HandleIrq, HandledIrq
<1>6. (\E type \in RaisedTypes : Draw(type)) \/ PushDrawn => IrqInv'
  BY DrawIrq, PushDrawnIrq
<1> QED
  BY <1>1, <1>2, <1>3, <1>4, <1>5, <1>6 DEF ClockNext

LEMMA InitIrq == ClockInit => IrqInv
<1> SUFFICES ASSUME ClockInit PROVE IrqInv
  OBVIOUS
<1>1. /\ pending = {} /\ seq = 0 /\ done = {} /\ others = 0 /\ holds = [r \in Raiser |-> {}]
  BY DEF ClockInit
<1>2. Cardinality({}) = 0 /\ IsFiniteSet({})
  BY FS_EmptySet
<1>3. IrqTyped /\ OneEach /\ HandsOK
  BY <1>1, <1>2, Raisers DEF IrqTyped, OneEach, HandsOK
<1>4. Numbered
  BY <1>1 DEF Numbered
<1>5. KeptUp
  <2>1. holds[0] = {} /\ Cardinality(Popping) \in Nat
    BY <1>1, Raisers, Loops
  <2> QED
    BY <1>1, <1>2, <2>1 DEF KeptUp
<1> QED
  BY <1>3, <1>4, <1>5 DEF IrqInv

LEMMA ClockInvSound == LoopInv /\ IrqInv => ClockSound
<1> SUFFICES ASSUME LoopInv, IrqInv PROVE ClockSound
  OBVIOUS
<1> USE DEF LoopInv, IrqInv
<1>1. ClockTypeOK
  <2>1. \A irq \in pending \cup UNION {holds[r] : r \in Raiser} : irq \in Irq
    BY DEF IrqTyped
  <2> QED
    BY <2>1 DEF ClockTypeOK, LoopTyped, Irq
<1>2. OneLoop
  <2>1. /\ Cardinality(Live \ {thread}) \in Nat /\ Cardinality(Live) \in Nat /\ timeouts \in Nat
        /\ Cardinality(Live \ {thread}) <= timeouts
        /\ thread \in Live => Cardinality(Live \ {thread}) = Cardinality(Live) - 1
        /\ thread \notin Live => Live \ {thread} = Live
    BY Loops, OneLess DEF OldLoops, LoopTyped
  <2>2. Cardinality(Live) <= timeouts + (IF thread \in Live THEN 1 ELSE 0)
    <3>1. CASE thread \in Live
      BY <2>1, <3>1
    <3>2. CASE thread \notin Live
      <4>1. Cardinality(Live) <= timeouts
        BY <2>1, <3>2
      <4> QED
        BY <2>1, <3>2, <4>1
    <3> QED
      BY <3>1, <3>2
  <2>3. timeouts = 0 /\ running => Live = {thread}
    BY OnlyLatest DEF RunningOK
  <2>4. timeouts = 0 /\ ~running /\ joining = "none" => Live = {}
    BY <2>1, Loops, FS_EmptySet DEF Ended
  <2> QED
    BY <2>2, <2>3, <2>4 DEF OneLoop
<1>3. PauseHolds
  <2>1. Begun = Loop \ {l \in Loop : loop[l].at = "unborn"}
    BY DEF Begun
  <2>2. Cardinality(Due) \in Nat /\ Cardinality(Begun) \in Nat /\ late \in Nat
    BY Loops, Fewer DEF LoopTyped
  <2> QED
    BY <2>1, <2>2 DEF PauseHolds, PauseOK, RunningOK
<1>4. TicksInOrder
  <2> SUFFICES ASSUME timeouts = 0, NEW l \in Live, loop[l].at = "dispatch" PROVE loop[l].tick > announced
    BY DEF TicksInOrder
  <2> QED
    BY DEF TicksOK, LoopTyped
<1>5. EachInterruptOnce
  <2>1. \A n : n \in Held <=> InHand(n)
    BY DEF Held, InHand
  <2>2. \A n : n \in Waiting <=> InHeap(n)
    BY DEF Waiting, InHeap
  <2>3. \A n \in done : n \in 0..(seq - 1) /\ n \notin Held /\ n \notin Waiting
    BY <2>1, <2>2 DEF Numbered, IrqTyped
  <2>4. \A n \in Held : n \in 0..(seq - 1) /\ n \notin Waiting
    <3> TAKE n \in Held
    <3>1. PICK r \in Raiser : \E irq \in holds[r] : irq.seq = n
      BY <2>1 DEF InHand
    <3>2. PICK irq \in holds[r] : irq.seq = n
      BY <3>1
    <3>3. n \in Nat /\ n < seq
      BY <3>2 DEF IrqTyped, Irq, Numbered
    <3>4. ~InHeap(n)
      BY <3>2 DEF OneEach, InHeap
    <3> QED
      BY <2>2, <3>3, <3>4 DEF IrqTyped
  <2>5. \A n \in Waiting : n \in 0..(seq - 1)
    BY DEF Waiting, Numbered, IrqTyped, Irq
  <2>6. \A n \in 0..(seq - 1) : n \in done \/ n \in Held \/ n \in Waiting
    BY <2>1, <2>2 DEF Numbered
  <2> QED
    BY <2>3, <2>4, <2>5, <2>6 DEF EachInterruptOnce
<1>6. TicksKeepUp
  <2>1. Popping = {l \in Live : loop[l].at = "pop"}
    BY DEF Popping, Live
  <2>2. Cardinality(holds[0]) \in Nat /\ Cardinality(pending) \in Nat /\ others \in Nat /\ Cardinality(Popping) \in Nat
    BY Raisers, Loops DEF IrqTyped
  <2> QED
    BY <2>1, <2>2 DEF TicksKeepUp, KeptUp
<1> QED
  BY <1>1, <1>2, <1>3, <1>4, <1>5, <1>6 DEF ClockSound

\* However starts, stops, pauses and joins that give up follow each other: only such a join
\* leaves a second loop, a pause lets a loop finish the tick it has begun and no more, ticks
\* are announced in order, and every interrupt is handled once and in time
\* (GovernanceClock, InterruptManager).
THEOREM ClockAlwaysSound == ClockSpec => []ClockSound
<1>1. ClockInit => LoopInv /\ IrqInv
  BY InitLoops, InitIrq
<1>2. LoopInv /\ IrqInv /\ [ClockNext]_clockVars => LoopInv' /\ IrqInv'
  BY LoopStep, IrqStep
<1>3. LoopInv /\ IrqInv => ClockSound
  BY ClockInvSound
<1> QED
  BY <1>1, <1>2, <1>3, PTL DEF ClockSpec

(* PART FOUR: the virtual file system                                      *)

\* Paths.
Path == Seq(Segment)

\* The paths the program knows.
LEMMA KnownPaths ==
  /\ <<"home">> \in Path /\ <<"home">> # Home /\ <<"home">>[1] = "home"
  /\ <<"root">> \in Path /\ <<"home", "user">> \in Path
<1> DEFINE a == "home"
           b == "user"
           c == "root"
<1>1. a \in Segment /\ b \in Segment /\ c \in Segment
  BY DEF Segment
<1> HIDE DEF a, b, c
<1>2. <<a>> \in Seq(Segment) /\ <<a>> # << >> /\ <<a>>[1] = a /\ <<c>> \in Seq(Segment)
  BY <1>1
<1>3. <<a, b>> \in Seq(Segment)
  BY <1>1
<1> QED
  BY <1>2, <1>3 DEF Path, Home, a, b, c

LEMMA TypedPaths ==
  ASSUME VfsAssumption
  PROVE  Names \subseteq Segment /\ Typed \subseteq Path
BY DEF VfsAssumption, Segment, Path

LEMMA CutPath ==
  ASSUME NEW s \in Path, NEW n \in 0..Len(s)
  PROVE  /\ SubSeq(s, 1, n) \in Path /\ Len(SubSeq(s, 1, n)) = n
         /\ \A i \in 1..n : SubSeq(s, 1, n)[i] = s[i]
<1>1. Len(s) \in Nat /\ n \in Nat /\ n <= Len(s)
  BY LenProperties DEF Path
<1>2. \A i \in 1..n : s[i] \in Segment
  <2> TAKE i \in 1..n
  <2>1. i \in 1..Len(s)
    BY <1>1
  <2> QED
    BY <2>1, ElementOfSeq DEF Path
<1>3. /\ SubSeq(s, 1, n) \in Seq(Segment) /\ Len(SubSeq(s, 1, n)) = (IF 1 <= n THEN n - 1 + 1 ELSE 0)
      /\ \A i \in 1..(n - 1 + 1) : SubSeq(s, 1, n)[i] = s[1 + i - 1]
  BY <1>1, <1>2, SubSeqProperties
<1>4. n - 1 + 1 = n /\ (~(1 <= n) => n = 0) /\ \A i \in 1..n : 1 + i - 1 = i
  BY <1>1
<1> QED
  BY <1>3, <1>4 DEF Path

LEMMA PrefixMeans ==
  ASSUME NEW s \in Path, NEW t \in Path
  PROVE  IsPrefix(s, t) <=> Len(s) <= Len(t) /\ \A i \in 1..Len(s) : s[i] = t[i]
<1>1. Len(s) \in Nat /\ Len(t) \in Nat
  BY LenProperties DEF Path
<1>2. SubSeq(s, 1, Len(s)) = s
  BY SubSeqFull DEF Path
<1>3. ASSUME Len(s) <= Len(t)
      PROVE  s = SubSeq(t, 1, Len(s)) <=> \A i \in 1..Len(s) : s[i] = t[i]
  <2>1. Len(s) \in 0..Len(t)
    BY <1>1, <1>3
  <2>2. /\ SubSeq(t, 1, Len(s)) \in Path /\ Len(SubSeq(t, 1, Len(s))) = Len(s)
        /\ \A i \in 1..Len(s) : SubSeq(t, 1, Len(s))[i] = t[i]
    BY <2>1, CutPath
  <2>3. ASSUME \A i \in 1..Len(s) : s[i] = t[i] PROVE s = SubSeq(t, 1, Len(s))
    <3>1. \A i \in 1..Len(s) : s[i] = SubSeq(t, 1, Len(s))[i]
      BY <2>2, <2>3
    <3> QED
      BY <2>2, <3>1, SeqEqual DEF Path
  <2> QED
    BY <2>2, <2>3
<1> QED
  BY <1>2, <1>3 DEF IsPrefix

LEMMA PrefixOrder ==
  ASSUME NEW s \in Path, NEW t \in Path, IsPrefix(s, t)
  PROVE  /\ Len(s) <= Len(t)
         /\ Len(s) = Len(t) => s = t
         /\ s # Home => s[1] = t[1]
         /\ \A u \in Path : IsPrefix(t, u) => IsPrefix(s, u)
<1>1. Len(s) \in Nat /\ Len(t) \in Nat /\ (s # Home => Len(s) >= 1)
  BY LenProperties, EmptySeq DEF Path, Home
<1>2. Len(s) <= Len(t) /\ \A i \in 1..Len(s) : s[i] = t[i]
  BY PrefixMeans
<1>3. Len(s) = Len(t) => s = t
  BY <1>2, SeqEqual DEF Path
<1>4. s # Home => s[1] = t[1]
  BY <1>1, <1>2
<1>5. ASSUME NEW u \in Path, IsPrefix(t, u) PROVE IsPrefix(s, u)
  <2>1. Len(t) <= Len(u) /\ (\A i \in 1..Len(t) : t[i] = u[i]) /\ Len(u) \in Nat
    BY <1>5, PrefixMeans, LenProperties DEF Path
  <2>2. \A i \in 1..Len(s) : i \in 1..Len(t)
    BY <1>1, <1>2
  <2>3. Len(s) <= Len(u) /\ \A i \in 1..Len(s) : s[i] = u[i]
    BY <1>1, <1>2, <2>1, <2>2
  <2> QED
    BY <2>3, PrefixMeans
<1> QED
  BY <1>2, <1>3, <1>4, <1>5

LEMMA FrontOf ==
  ASSUME NEW p \in Path, p # Home
  PROVE  /\ Front(p) \in Path /\ Len(Front(p)) = Len(p) - 1
         /\ Len(p) \in Nat /\ Len(p) >= 1
         /\ IsPrefix(Front(p), p)
         /\ Front(p) = Home \/ Front(p)[1] = p[1]
         /\ \A q \in Path : IsPrefix(q, p) /\ q # p => IsPrefix(q, Front(p))
<1>1. Len(p) \in Nat /\ Len(p) >= 1
  BY LenProperties, EmptySeq DEF Path, Home
<1> DEFINE m == Len(p) - 1
<1>2. m \in 0..Len(p)
  BY <1>1
<1>3. Front(p) = SubSeq(p, 1, m)
  BY DEF Front
<1>4. /\ Front(p) \in Path /\ Len(Front(p)) = m
      /\ \A i \in 1..m : Front(p)[i] = p[i]
  <2> HIDE DEF m
  <2> QED
    BY <1>2, <1>3, CutPath
<1>5. IsPrefix(Front(p), p)
  <2>1. Len(Front(p)) <= Len(p) /\ \A i \in 1..Len(Front(p)) : Front(p)[i] = p[i]
    BY <1>1, <1>4
  <2> QED
    BY <1>4, <2>1, PrefixMeans
<1>6. Front(p) = Home \/ Front(p)[1] = p[1]
  BY <1>4, <1>5, PrefixOrder
<1>7. ASSUME NEW q \in Path, IsPrefix(q, p), q # p PROVE IsPrefix(q, Front(p))
  <2>1. Len(q) <= Len(p) /\ Len(q) # Len(p) /\ Len(q) \in Nat
    BY <1>7, PrefixOrder, LenProperties DEF Path
  <2>2. Len(q) <= m /\ \A i \in 1..Len(q) : i \in 1..m
    BY <1>1, <2>1
  <2>3. \A i \in 1..Len(q) : q[i] = p[i]
    BY <1>7, PrefixMeans
  <2>4. Len(q) <= Len(Front(p)) /\ \A i \in 1..Len(q) : q[i] = Front(p)[i]
    BY <1>4, <2>2, <2>3
  <2> QED
    BY <1>4, <2>4, PrefixMeans
<1> QED
  BY <1>1, <1>4, <1>5, <1>6, <1>7

\* A name in a directory.
LEMMA NameIn ==
  ASSUME NEW p \in Path, NEW n \in Segment
  PROVE  /\ Append(p, n) \in Path \ {Home} /\ Front(Append(p, n)) = p /\ Append(p, n) # p
<1>1. /\ Append(p, n) \in Path /\ Append(p, n) # << >> /\ Len(Append(p, n)) = Len(p) + 1
      /\ \A i \in 1..Len(p) : Append(p, n)[i] = p[i]
  <2>1. p \in Seq(Segment)
    BY DEF Path
  <2>2. /\ Append(p, n) \in Seq(Segment) /\ Append(p, n) # << >> /\ Len(Append(p, n)) = Len(p) + 1
        /\ \A i \in 1..Len(p) : Append(p, n)[i] = p[i]
    <3> DEFINE S == Segment
    <3>1. p \in Seq(S) /\ n \in S
      BY <2>1
    <3> HIDE DEF S
    <3>2. Append(p, n) \in Seq(S) /\ Len(Append(p, n)) = Len(p) + 1
      BY <3>1, AppendProperties
    <3>3. \A i \in 1..Len(p) : Append(p, n)[i] = p[i]
      BY <3>1, AppendProperties
    <3>4. Append(p, n) # << >>
      BY <3>1, AppendProperties
    <3> QED
      BY <3>2, <3>3, <3>4 DEF S
  <2> QED
    BY <2>2 DEF Path
<1>2. Len(p) \in Nat
  BY LenProperties DEF Path
<1> DEFINE a == Append(p, n)
<1>3. a \in Path /\ a # Home /\ Len(a) = Len(p) + 1 /\ \A i \in 1..Len(p) : a[i] = p[i]
  BY <1>1 DEF Home
<1> HIDE DEF a
<1>4. IsPrefix(p, a) /\ p # a
  <2>1. Len(p) <= Len(a)
    BY <1>2, <1>3
  <2>2. Len(p) # Len(a)
    BY <1>2, <1>3
  <2> QED
    BY <1>3, <2>1, <2>2, PrefixMeans
<1>5. IsPrefix(p, Front(a)) /\ Front(a) \in Path /\ Len(Front(a)) = Len(p)
  BY <1>2, <1>3, <1>4, FrontOf
<1>6. Front(a) = p
  BY <1>5, PrefixOrder
<1> QED
  BY <1>3, <1>4, <1>6 DEF a

\* One path below another.
LEMMA Glued ==
  ASSUME NEW q \in Path, NEW r \in Path
  PROVE  /\ q \o r \in Path /\ IsPrefix(q, q \o r)
         /\ SubSeq(q \o r, Len(q) + 1, Len(q \o r)) = r
         /\ r = Home => q \o r = q
         /\ q # Home => q \o r # Home
         /\ r # Home => Front(q \o r) = q \o Front(r)
<1> DEFINE s == q \o r
<1>1. /\ s \in Path /\ Len(s) = Len(q) + Len(r) /\ Len(q) \in Nat /\ Len(r) \in Nat
      /\ \A i \in 1..(Len(q) + Len(r)) : s[i] = IF i <= Len(q) THEN q[i] ELSE r[i - Len(q)]
  BY ConcatProperties, LenProperties DEF Path
<1>2. r = Home => q \o r = q
  BY ConcatEmptySeq DEF Path, Home
<1> HIDE DEF s
<1>3. IsPrefix(q, s)
  <2>1. Len(q) <= Len(s) /\ \A i \in 1..Len(q) : q[i] = s[i]
    BY <1>1
  <2> QED
    BY <1>1, <2>1, PrefixMeans
<1>4. q # Home => s # Home
  <2>1. q # Home => Len(q) >= 1
    BY <1>1, EmptySeq DEF Path, Home
  <2>2. Len(Home) = 0
    BY EmptySeq DEF Home
  <2> QED
    BY <1>1, <2>1, <2>2
<1>5. SubSeq(s, Len(q) + 1, Len(s)) = r
  <2> DEFINE a == Len(q) + 1
             b == Len(s)
             u == SubSeq(s, a, b)
  <2>1. a \in Int /\ b \in Int /\ \A i \in a..b : i \in 1..Len(s)
    BY <1>1
  <2>2. \A i \in a..b : s[i] \in Segment
    BY <1>1, <2>1, ElementOfSeq DEF Path
  <2>3. /\ u \in Seq(Segment) /\ Len(u) = (IF a <= b THEN b - a + 1 ELSE 0)
        /\ \A i \in 1..(b - a + 1) : u[i] = s[a + i - 1]
    <3> HIDE DEF a, b
    <3> QED
      BY <2>1, <2>2, SubSeqProperties
  <2>4. (IF a <= b THEN b - a + 1 ELSE 0) = Len(r) /\ b - a + 1 = Len(r)
    BY <1>1
  <2>5. \A i \in 1..Len(r) : u[i] = r[i]
    <3> TAKE i \in 1..Len(r)
    <3>1. a + i - 1 \in 1..(Len(q) + Len(r)) /\ ~(a + i - 1 <= Len(q)) /\ (a + i - 1) - Len(q) = i
      BY <1>1
    <3>2. s[a + i - 1] = r[i]
      BY <1>1, <3>1
    <3>3. u[i] = s[a + i - 1]
      BY <2>3, <2>4
    <3> QED
      BY <3>2, <3>3
  <2> HIDE DEF u, a, b
  <2>6. u = r
    BY <2>3, <2>4, <2>5, SeqEqual DEF Path
  <2> QED
    BY <2>6 DEF u, a, b
<1>6. ASSUME r # Home PROVE Front(s) = q \o Front(r)
  <2>1. /\ Front(r) \in Path /\ Len(Front(r)) = Len(r) - 1 /\ Len(r) >= 1
        /\ \A i \in 1..(Len(r) - 1) : Front(r)[i] = r[i]
    <3>1. Front(r) \in Path /\ Len(Front(r)) = Len(r) - 1 /\ Len(r) >= 1 /\ IsPrefix(Front(r), r)
      BY <1>6, FrontOf
    <3> QED
      BY <3>1, PrefixMeans
  <2>2. s # Home
    <3>1. Len(s) # 0
      BY <1>1, <2>1
    <3> QED
      BY <3>1, EmptySeq DEF Home
  <2>3. /\ Front(s) \in Path /\ Len(Front(s)) = Len(s) - 1
        /\ \A i \in 1..(Len(s) - 1) : Front(s)[i] = s[i]
    <3>1. Front(s) \in Path /\ Len(Front(s)) = Len(s) - 1 /\ IsPrefix(Front(s), s)
      BY <1>1, <2>2, FrontOf
    <3>2. \A i \in 1..Len(Front(s)) : Front(s)[i] = s[i]
      BY <1>1, <3>1, PrefixMeans
    <3> QED
      BY <3>1, <3>2
  <2> DEFINE f == Front(r)
             v == q \o f
  <2>4. /\ v \in Path /\ Len(v) = Len(q) + (Len(r) - 1)
        /\ \A i \in 1..(Len(q) + (Len(r) - 1)) : v[i] = IF i <= Len(q) THEN q[i] ELSE f[i - Len(q)]
    <3>1. f \in Seq(Segment) /\ q \in Seq(Segment) /\ Len(f) = Len(r) - 1
      BY <2>1 DEF Path
    <3> HIDE DEF f
    <3>2. /\ v \in Seq(Segment) /\ Len(v) = Len(q) + Len(f)
          /\ \A i \in 1..(Len(q) + Len(f)) : v[i] = IF i <= Len(q) THEN q[i] ELSE f[i - Len(q)]
      BY <3>1, ConcatProperties
    <3> QED
      BY <3>1, <3>2 DEF Path
  <2> HIDE DEF v
  <2>5. \A i \in 1..(Len(s) - 1) : Front(s)[i] = v[i]
    <3> TAKE i \in 1..(Len(s) - 1)
    <3>1. i \in 1..(Len(q) + Len(r)) /\ i \in 1..(Len(q) + (Len(r) - 1)) /\ i \in Int
      BY <1>1, <2>1
    <3>2. CASE i <= Len(q)
      BY <1>1, <2>3, <2>4, <3>1, <3>2
    <3>3. CASE ~(i <= Len(q))
      <4>1. i - Len(q) \in 1..(Len(r) - 1)
        BY <1>1, <3>1, <3>3
      <4> QED
        BY <1>1, <2>1, <2>3, <2>4, <3>1, <3>3, <4>1
    <3> QED
      BY <3>2, <3>3
  <2>6. Len(Front(s)) = Len(v)
    BY <1>1, <2>1, <2>3, <2>4
  <2>7. Front(s) = v
    BY <2>3, <2>4, <2>5, <2>6, SeqEqual DEF Path
  <2> QED
    BY <2>7 DEF v
<1> QED
  BY <1>1, <1>2, <1>3, <1>4, <1>5, <1>6 DEF s

\* What is below a path is reached from it.
LEMMA Below ==
  ASSUME NEW p \in Path, NEW q \in Path, IsPrefix(p, q)
  PROVE  /\ SubSeq(q, Len(p) + 1, Len(q)) \in Path
         /\ p \o SubSeq(q, Len(p) + 1, Len(q)) = q
<1> DEFINE a == Len(p) + 1
           b == Len(q)
           u == SubSeq(q, a, b)
<1>1. Len(p) \in Nat /\ b \in Nat /\ Len(p) <= b /\ \A i \in 1..Len(p) : p[i] = q[i]
  BY LenProperties, PrefixMeans DEF Path
<1>2. a \in Int /\ b \in Int /\ \A i \in a..b : i \in 1..b
  BY <1>1
<1>3. \A i \in a..b : q[i] \in Segment
  BY <1>2, ElementOfSeq DEF Path
<1>4. /\ u \in Seq(Segment) /\ Len(u) = (IF a <= b THEN b - a + 1 ELSE 0)
      /\ \A i \in 1..(b - a + 1) : u[i] = q[a + i - 1]
  <2> HIDE DEF a, b
  <2> QED
    BY <1>2, <1>3, SubSeqProperties
<1>5. (IF a <= b THEN b - a + 1 ELSE 0) = b - Len(p) /\ b - a + 1 = b - Len(p)
  BY <1>1
<1> DEFINE v == p \o u
<1>6. /\ v \in Path /\ Len(v) = Len(p) + Len(u)
      /\ \A i \in 1..(Len(p) + Len(u)) : v[i] = IF i <= Len(p) THEN p[i] ELSE u[i - Len(p)]
  <2> HIDE DEF u
  <2> QED
    BY <1>4, ConcatProperties DEF Path
<1>7. Len(u) = b - Len(p)
  BY <1>4, <1>5
<1>8. Len(v) = b
  BY <1>1, <1>6, <1>7
<1> HIDE DEF u, v
<1>9. \A i \in 1..b : v[i] = q[i]
  <2> TAKE i \in 1..b
  <2>1. CASE i <= Len(p)
    <3>1. i \in 1..Len(p) /\ i \in 1..(Len(p) + Len(u))
      BY <1>1, <1>7, <2>1
    <3> QED
      BY <1>1, <1>6, <2>1, <3>1
  <2>2. CASE ~(i <= Len(p))
    <3>1. i \in 1..(Len(p) + Len(u)) /\ i - Len(p) \in 1..(b - a + 1) /\ a + (i - Len(p)) - 1 = i
      BY <1>1, <1>7, <2>2
    <3>2. u[i - Len(p)] = q[a + (i - Len(p)) - 1]
      BY <1>4, <3>1
    <3> QED
      BY <1>6, <2>2, <3>1, <3>2
  <2> QED
    BY <2>1, <2>2
<1>10. v = q
  BY <1>6, <1>8, <1>9, SeqEqual DEF Path
<1> QED
  BY <1>4, <1>10 DEF Path, u, v

\* The way to a path.
LEMMA WayTo ==
  ASSUME NEW p \in Path, NEW w
  PROVE  w \in PathTo(p) <=> w \in Path /\ w # Home /\ IsPrefix(w, p)
<1>1. Len(p) \in Nat
  BY LenProperties DEF Path
<1>2. ASSUME w \in PathTo(p) PROVE w \in Path /\ w # Home /\ IsPrefix(w, p)
  <2>1. PICK i \in 1..Len(p) : w = SubSeq(p, 1, i)
    BY <1>2 DEF PathTo
  <2>2. i \in 0..Len(p) /\ i # 0
    BY <1>1
  <2>3. w \in Path /\ Len(w) = i /\ \A j \in 1..i : w[j] = p[j]
    BY <2>1, <2>2, CutPath
  <2>4. w # Home
    BY <2>2, <2>3, EmptySeq DEF Home
  <2>5. Len(w) <= Len(p) /\ \A j \in 1..Len(w) : w[j] = p[j]
    BY <1>1, <2>2, <2>3
  <2> QED
    BY <2>3, <2>4, <2>5, PrefixMeans
<1>3. ASSUME w \in Path, w # Home, IsPrefix(w, p) PROVE w \in PathTo(p)
  <2>1. Len(w) \in Nat /\ Len(w) >= 1 /\ Len(w) <= Len(p)
    BY <1>3, LenProperties, EmptySeq, PrefixMeans DEF Path, Home
  <2>2. w = SubSeq(p, 1, Len(w))
    BY <1>3, SubSeqFull DEF IsPrefix, Path
  <2>3. Len(w) \in 1..Len(p)
    BY <1>1, <2>1
  <2> QED
    BY <2>2, <2>3 DEF PathTo
<1> QED
  BY <1>2, <1>3

\* Trees: every node has a path and hangs in a directory.
Node == [kind : {"dir", "file", "link"}, text : Nat, readable : BOOLEAN]
Hangs(t) ==
  /\ \A p \in DOMAIN t : p \in Path /\ p # Home /\ t[p] \in Node
  /\ \A p \in DOMAIN t : Directory(t, Front(p))
\* What is sealed is not readable.
Shut(t, S) == \A p \in DOMAIN t : t[p].text \in S => ~t[p].readable
\* A part of a tree, seen from its top.
Grows(sub) ==
  /\ \A r \in DOMAIN sub : r \in Path /\ sub[r] \in Node
  /\ \A r \in DOMAIN sub : r # Home => Front(r) \in DOMAIN sub /\ sub[Front(r)].kind = "dir"

LEMMA FreshNodes ==
  /\ NewDir \in Node /\ NewDir.kind = "dir" /\ NewDir.text = 0
  /\ \A n \in Nat : NewFile(n) \in Node /\ NewFile(n).text = n
BY DEF NewDir, NewFile, Node

\* A directory has a path.
LEMMA DirectoryPath ==
  ASSUME NEW t, Hangs(t), NEW p, Directory(t, p)
  PROVE  p \in Path
BY EmptySeq DEF Hangs, Directory, Path, Home

LEMMA WithoutHangs ==
  ASSUME NEW t, Hangs(t), NEW p \in Path
  PROVE  /\ Hangs(Without(t, p))
         /\ \A S : Shut(t, S) => Shut(Without(t, p), S)
<1> DEFINE u == Without(t, p)
<1>1. /\ \A q : q \in DOMAIN u <=> q \in DOMAIN t /\ ~IsPrefix(p, q)
      /\ \A q \in DOMAIN u : u[q] = t[q]
  BY DEF Without, Subtree
<1> HIDE DEF u
<1>2. \A q \in DOMAIN u : q \in Path /\ q # Home /\ u[q] \in Node
  BY <1>1 DEF Hangs
<1>3. ASSUME NEW q \in DOMAIN u PROVE Directory(u, Front(q))
  <2>1. q \in Path /\ q # Home /\ Directory(t, Front(q)) /\ ~IsPrefix(p, q)
    BY <1>1 DEF Hangs
  <2>2. Front(q) \in Path /\ IsPrefix(Front(q), q)
    BY <2>1, FrontOf
  <2>3. ~IsPrefix(p, Front(q))
    BY <2>1, <2>2, PrefixOrder
  <2> QED
    BY <1>1, <2>1, <2>3 DEF Directory
<1>4. \A S : Shut(t, S) => Shut(u, S)
  BY <1>1 DEF Shut
<1> QED
  BY <1>2, <1>3, <1>4 DEF Hangs, u

\* A name is put into a directory, in the place of no directory.
LEMMA WithHangs ==
  ASSUME NEW t, Hangs(t), NEW d, Directory(t, d), NEW n \in Segment, NEW node \in Node,
         ~Directory(t, Append(d, n))
  PROVE  /\ Hangs(With(t, Append(d, n), node))
         /\ \A S : Shut(t, S) /\ (node.text \in S => ~node.readable) => Shut(With(t, Append(d, n), node), S)
<1> DEFINE a == Append(d, n)
           u == With(t, a, node)
<1>1. /\ \A q : q \in DOMAIN u <=> q \in DOMAIN t \/ q = a
      /\ \A q \in DOMAIN u : u[q] = IF q = a THEN node ELSE t[q]
  BY DEF With
<1>2. d \in Path
  BY DirectoryPath
<1>3. a \in Path /\ a # Home /\ Front(a) = d /\ a # d
  BY <1>2, NameIn
<1> HIDE DEF u, a
<1>4. ~Directory(t, a)
  BY DEF a
<1>5. \A q \in DOMAIN u : q \in Path /\ q # Home /\ u[q] \in Node
  BY <1>1, <1>3 DEF Hangs
<1>6. ASSUME NEW q \in DOMAIN u PROVE Directory(u, Front(q))
  <2>1. CASE q = a
    BY <1>1, <1>3, <2>1 DEF Directory
  <2>2. CASE q # a
    <3>1. Directory(t, Front(q)) /\ Front(q) # a
      BY <1>1, <1>4, <2>2 DEF Hangs
    <3> QED
      BY <1>1, <3>1 DEF Directory
  <2> QED
    BY <2>1, <2>2
<1>7. \A S : Shut(t, S) /\ (node.text \in S => ~node.readable) => Shut(u, S)
  BY <1>1 DEF Shut
<1> QED
  BY <1>5, <1>6, <1>7 DEF Hangs, a, u

\* The part of a tree below one of its nodes.
LEMMA PartGrows ==
  ASSUME NEW t, Hangs(t), NEW p \in DOMAIN t
  PROVE  /\ Grows(Part(t, p))
         /\ \A S : Shut(t, S) => Shut(Part(t, p), S)
<1> DEFINE sub == Part(t, p)
           rest(q) == SubSeq(q, Len(p) + 1, Len(q))
<1>1. p \in Path /\ p # Home
  BY DEF Hangs
<1>2. /\ DOMAIN sub = {rest(q) : q \in Subtree(t, p)}
      /\ \A r \in DOMAIN sub : sub[r] = t[p \o r]
  BY DEF Part
<1>3. \A q \in DOMAIN t : q \in Path /\ q # Home /\ t[q] \in Node
  BY DEF Hangs
<1>4. ASSUME NEW q \in Subtree(t, p)
      PROVE  q \in DOMAIN t /\ IsPrefix(p, q) /\ rest(q) \in Path /\ p \o rest(q) = q
  <2>1. q \in DOMAIN t /\ IsPrefix(p, q)
    BY DEF Subtree
  <2> QED
    BY <1>1, <1>3, <2>1, Below
<1>5. ASSUME NEW r \in Path, p \o r \in DOMAIN t PROVE r \in DOMAIN sub
  <2>1. IsPrefix(p, p \o r) /\ rest(p \o r) = r
    BY <1>1, Glued
  <2>2. p \o r \in Subtree(t, p)
    BY <1>5, <2>1 DEF Subtree
  <2> QED
    BY <1>2, <2>1, <2>2
<1> HIDE DEF rest, sub
<1>6. ASSUME NEW r \in DOMAIN sub
      PROVE  r \in Path /\ p \o r \in DOMAIN t /\ sub[r] = t[p \o r]
  BY <1>2, <1>4
<1>7. \A r \in DOMAIN sub : r \in Path /\ sub[r] \in Node
  BY <1>3, <1>6
<1>8. ASSUME NEW r \in DOMAIN sub, r # Home
      PROVE  Front(r) \in DOMAIN sub /\ sub[Front(r)].kind = "dir"
  <2>1. r \in Path /\ p \o r \in DOMAIN t
    BY <1>6
  <2>2. Front(p \o r) = p \o Front(r) /\ Front(r) \in Path
    BY <1>1, <1>8, <2>1, Glued, FrontOf
  <2>3. p \o Front(r) # Home
    BY <1>1, <2>2, Glued
  <2>4. p \o Front(r) \in DOMAIN t /\ t[p \o Front(r)].kind = "dir"
    BY <2>1, <2>2, <2>3 DEF Hangs, Directory
  <2> QED
    BY <1>5, <1>6, <2>2, <2>4
<1>9. \A S : Shut(t, S) => Shut(sub, S)
  BY <1>6 DEF Shut
<1> QED
  BY <1>7, <1>8, <1>9 DEF Grows, sub

LEMMA OneGrows ==
  ASSUME NEW node \in Node
  PROVE  /\ Grows(One(node))
         /\ \A S : (node.text \in S => ~node.readable) => Shut(One(node), S)
<1>1. DOMAIN One(node) = {<< >>} /\ One(node)[<< >>] = node /\ << >> \in Path
  BY EmptySeq DEF One, Path
<1> QED
  BY <1>1 DEF Grows, Shut, Home

\* A part put into a place.
LEMMA SetNodeHangs ==
  ASSUME NEW t, Hangs(t), NEW q \in Path, q # Home, NEW sub, Grows(sub)
  PROVE  /\ Hangs(SetNode(t, q, sub))
         /\ \A S : Shut(t, S) /\ Shut(sub, S) /\ 0 \notin S => Shut(SetNode(t, q, sub), S)
<1> DEFINE way == PathTo(Front(q))
           old == {p \in DOMAIN t : ~IsPrefix(q, p) /\ ~\E w \in way : IsStrictPrefix(w, p) /\ ~Directory(t, w)}
           new == {q \o r : r \in DOMAIN sub}
           u == SetNode(t, q, sub)
           rest(p) == SubSeq(p, Len(q) + 1, Len(p))
<1>1. /\ DOMAIN u = old \cup way \cup new
      /\ \A p \in DOMAIN u : u[p] = IF p \in new THEN sub[rest(p)]
                                    ELSE IF p \in way THEN (IF Directory(t, p) THEN t[p] ELSE NewDir) ELSE t[p]
  BY DEF SetNode
<1>2. /\ Front(q) \in Path /\ Len(Front(q)) = Len(q) - 1 /\ Len(q) \in Nat
  BY FrontOf
<1>3. \A w : w \in way <=> w \in Path /\ w # Home /\ IsPrefix(w, Front(q))
  BY <1>2, WayTo
<1>4. \A r \in DOMAIN sub : r \in Path /\ sub[r] \in Node
  BY DEF Grows
<1>5. \A p \in DOMAIN t : p \in Path /\ p # Home /\ t[p] \in Node /\ Directory(t, Front(p))
  BY DEF Hangs
<1> HIDE DEF u, way, new, rest
<1>6. ASSUME NEW r \in DOMAIN sub
      PROVE  /\ q \o r \in new /\ q \o r \in Path /\ q \o r # Home /\ IsPrefix(q, q \o r)
             /\ u[q \o r] = sub[r] /\ q \o r \in DOMAIN u
  <2>1. q \o r \in new
    BY DEF new
  <2>2. q \o r \in Path /\ q \o r # Home /\ IsPrefix(q, q \o r) /\ rest(q \o r) = r
    BY <1>4, Glued DEF rest
  <2> QED
    BY <1>1, <2>1, <2>2
<1>7. ASSUME NEW p \in new PROVE \E r \in DOMAIN sub : p = q \o r
  BY DEF new
<1>8. ASSUME NEW p \in new PROVE p \in Path /\ p # Home /\ IsPrefix(q, p)
  BY <1>6, <1>7
<1>9. ASSUME NEW w \in way
      PROVE  w \notin new /\ w \in DOMAIN u /\ u[w] \in Node /\ u[w].kind = "dir"
             /\ u[w] \in {NewDir, t[w]} /\ (u[w] # NewDir => w \in DOMAIN t)
  <2>1. w \in Path /\ w # Home /\ IsPrefix(w, Front(q))
    BY <1>3
  <2>2. Len(w) <= Len(Front(q)) /\ Len(w) \in Nat
    BY <1>2, <2>1, PrefixOrder, LenProperties DEF Path
  <2>3. ~IsPrefix(q, w)
    <3>1. IsPrefix(q, w) => Len(q) <= Len(w)
      BY <2>1, PrefixOrder
    <3> QED
      BY <1>2, <2>2, <3>1
  <2>4. w \notin new /\ w \in DOMAIN u
    BY <1>1, <1>8, <2>3
  <2>5. u[w] = IF Directory(t, w) THEN t[w] ELSE NewDir
    BY <1>1, <2>4
  <2>6. CASE Directory(t, w)
    <3>1. w \in DOMAIN t /\ t[w].kind = "dir"
      BY <2>1, <2>6 DEF Directory
    <3> QED
      BY <1>5, <2>4, <2>5, <2>6, <3>1
  <2>7. CASE ~Directory(t, w)
    BY <2>4, <2>5, <2>7, FreshNodes
  <2> QED
    BY <2>6, <2>7
<1>10. ASSUME NEW p \in DOMAIN u, p \notin way, p \notin new
       PROVE  /\ p \in old /\ p \in DOMAIN t /\ ~IsPrefix(q, p) /\ u[p] = t[p]
              /\ \A w \in way : IsPrefix(w, p) /\ w # p => Directory(t, w)
  BY <1>1, <1>10 DEF IsStrictPrefix
<1>11. ASSUME NEW p \in DOMAIN t, ~IsPrefix(q, p),
              \A w \in way : IsPrefix(w, p) /\ w # p => Directory(t, w)
       PROVE  p \in DOMAIN u
  BY <1>1, <1>11 DEF IsStrictPrefix
<1> HIDE DEF old
<1>12. ASSUME NEW p \in DOMAIN u PROVE p \in Path /\ p # Home /\ u[p] \in Node
  <2>1. CASE p \in new
    BY <1>4, <1>6, <1>7, <2>1
  <2>2. CASE p \in way
    BY <1>3, <1>9, <2>2
  <2>3. CASE p \notin way /\ p \notin new
    BY <1>5, <1>10, <2>3
  <2> QED
    BY <2>1, <2>2, <2>3
<1>13. ASSUME NEW p \in DOMAIN u PROVE Directory(u, Front(p))
  <2>1. CASE p \in new
    <3>1. PICK r \in DOMAIN sub : p = q \o r
      BY <1>7, <2>1
    <3>2. CASE r = Home
      <4>1. Front(p) = Front(q)
        <5>1. r \in Path
          BY <1>4
        <5>2. p = q
          BY <3>1, <3>2, <5>1, Glued
        <5> QED
          BY <5>2
      <4>2. CASE Front(q) = Home
        BY <4>1, <4>2 DEF Directory
      <4>3. CASE Front(q) # Home
        <5>1. IsPrefix(Front(q), Front(q))
          BY <1>2, PrefixMeans, LenProperties DEF Path
        <5>2. Front(q) \in way
          BY <1>2, <1>3, <4>3, <5>1
        <5> QED
          BY <1>9, <4>1, <5>2 DEF Directory
      <4> QED
        BY <4>2, <4>3
    <3>3. CASE r # Home
      <4>1. Front(p) = q \o Front(r)
        BY <1>4, <3>1, <3>3, Glued
      <4>2. Front(r) \in DOMAIN sub /\ sub[Front(r)].kind = "dir"
        BY <3>3 DEF Grows
      <4> QED
        BY <1>6, <4>1, <4>2 DEF Directory
    <3> QED
      BY <3>2, <3>3
  <2>2. CASE p \in way
    <3>1. p \in Path /\ p # Home /\ IsPrefix(p, Front(q))
      BY <1>3, <2>2
    <3>2. Front(p) \in Path /\ IsPrefix(Front(p), p)
      BY <3>1, FrontOf
    <3>3. IsPrefix(Front(p), Front(q))
      BY <1>2, <3>1, <3>2, PrefixOrder
    <3>4. Front(p) = Home \/ Front(p) \in way
      BY <1>3, <3>2, <3>3
    <3> QED
      BY <1>9, <3>4 DEF Directory
  <2>3. CASE p \notin way /\ p \notin new
    <3>1. /\ p \in DOMAIN t /\ ~IsPrefix(q, p)
          /\ \A w \in way : IsPrefix(w, p) /\ w # p => Directory(t, w)
      BY <1>10, <2>3
    <3>2. p \in Path /\ p # Home /\ Directory(t, Front(p))
      BY <1>5, <3>1
    <3>3. Front(p) \in Path /\ IsPrefix(Front(p), p) /\ Front(p) # p
      <4>1. Front(p) \in Path /\ IsPrefix(Front(p), p) /\ Len(Front(p)) = Len(p) - 1 /\ Len(p) \in Nat
        BY <3>2, FrontOf
      <4>2. Len(Front(p)) # Len(p)
        BY <4>1
      <4> QED
        BY <4>1, <4>2
    <3>4. CASE Front(p) = Home
      BY <3>4 DEF Directory
    <3>5. CASE Front(p) \in way
      BY <1>9, <3>5 DEF Directory
    <3>6. CASE Front(p) # Home /\ Front(p) \notin way
      <4>1. ~IsPrefix(q, Front(p))
        BY <3>1, <3>2, <3>3, PrefixOrder
      <4>2. Front(p) \in DOMAIN t /\ t[Front(p)].kind = "dir"
        BY <3>2, <3>6 DEF Directory
      <4>3. ASSUME NEW w \in way, IsPrefix(w, Front(p)), w # Front(p) PROVE Directory(t, w)
        <5>1. w \in Path /\ IsPrefix(w, p)
          BY <1>3, <3>2, <3>3, <4>3, PrefixOrder
        <5>2. w # p
          <6>1. Len(w) <= Len(Front(p)) /\ Len(Front(p)) = Len(p) - 1 /\ Len(p) \in Nat /\ Len(w) \in Nat
            BY <3>2, <4>3, <5>1, PrefixOrder, FrontOf, LenProperties DEF Path
          <6>2. Len(w) # Len(p)
            BY <6>1
          <6> QED
            BY <6>2
        <5> QED
          BY <3>1, <5>1, <5>2
      <4>4. Front(p) \in DOMAIN u
        BY <1>11, <4>1, <4>2, <4>3
      <4>5. Front(p) \notin new
        BY <1>8, <4>1
      <4>6. u[Front(p)] = t[Front(p)]
        BY <1>10, <3>6, <4>4, <4>5
      <4> QED
        BY <4>2, <4>4, <4>6 DEF Directory
    <3> QED
      BY <3>4, <3>5, <3>6
  <2> QED
    BY <2>1, <2>2, <2>3
<1>14. ASSUME NEW S, Shut(t, S), Shut(sub, S), 0 \notin S, NEW p \in DOMAIN u, u[p].text \in S
       PROVE  ~u[p].readable
  <2>1. CASE p \in new
    BY <1>6, <1>7, <1>14, <2>1 DEF Shut
  <2>2. CASE p \in way
    BY <1>9, <1>14, <2>2, FreshNodes DEF Shut
  <2>3. CASE p \notin way /\ p \notin new
    BY <1>10, <1>14, <2>3 DEF Shut
  <2> QED
    BY <2>1, <2>2, <2>3
<1>15. \A S : Shut(t, S) /\ Shut(sub, S) /\ 0 \notin S => Shut(u, S)
  BY <1>14 DEF Shut
<1>16. Hangs(u)
  BY <1>12, <1>13 DEF Hangs
<1> QED
  BY <1>15, <1>16 DEF u

\* What is saved, and what a load makes of it.
LEMMA SavedHangs ==
  ASSUME NEW t, Hangs(t)
  PROVE  /\ Hangs(Saved(t))
         /\ \A S : Shut(t, S) => Shut(Saved(t), S)
<1> DEFINE u == Saved(t)
<1>1. /\ \A p : p \in DOMAIN u <=> p \in DOMAIN t /\ p[1] \notin Dynamic
      /\ \A p \in DOMAIN u : u[p] = t[p]
  BY DEF Saved
<1> HIDE DEF u
<1>2. \A p \in DOMAIN u : p \in Path /\ p # Home /\ u[p] \in Node
  BY <1>1 DEF Hangs
<1>3. ASSUME NEW p \in DOMAIN u PROVE Directory(u, Front(p))
  <2>1. p \in Path /\ p # Home /\ Directory(t, Front(p)) /\ p[1] \notin Dynamic
    BY <1>1 DEF Hangs
  <2>2. Front(p) = Home \/ Front(p)[1] = p[1]
    BY <2>1, FrontOf
  <2> QED
    BY <1>1, <2>1, <2>2 DEF Directory
<1>4. \A S : Shut(t, S) => Shut(u, S)
  BY <1>1 DEF Shut
<1> QED
  BY <1>2, <1>3, <1>4 DEF Hangs, u

LEMMA BuiltInHangs ==
  ASSUME VfsAssumption
  PROVE  Hangs(BuiltIn) /\ \A S : 0 \notin S => Shut(BuiltIn, S)
<1> DEFINE u == BuiltIn
<1>1. /\ DOMAIN u = DOMAIN Default
      /\ \A p \in DOMAIN u : u[p] = IF Default[p] THEN NewDir ELSE NewFile(0)
  BY DEF BuiltIn
<1> HIDE DEF u
<1>2. \A p \in DOMAIN Default : /\ p \in Path /\ p # Home
                                /\ Front(p) = Home \/ (Front(p) \in DOMAIN Default /\ Default[Front(p)])
  BY DEF VfsAssumption, Path
<1>3. \A p \in DOMAIN u : u[p] \in Node /\ u[p].text = 0
  BY <1>1, FreshNodes
<1>4. \A p \in DOMAIN u : Directory(u, Front(p))
  BY <1>1, <1>2, FreshNodes DEF Directory
<1> QED
  BY <1>1, <1>2, <1>3, <1>4 DEF Hangs, Shut, u

LEMMA LoadedHangs ==
  ASSUME VfsAssumption, NEW s, Hangs(s)
  PROVE  /\ Hangs(Loaded(s))
         /\ \A S : Shut(s, S) /\ 0 \notin S => Shut(Loaded(s), S)
<1> DEFINE u == Loaded(s)
           tops == {p[1] : p \in DOMAIN s}
           kept == {p \in DOMAIN BuiltIn : p[1] \notin tops}
<1>1. /\ \A p : p \in DOMAIN u <=> p \in kept \/ p \in DOMAIN s
      /\ \A p \in DOMAIN u : u[p] = IF p \in DOMAIN s THEN s[p] ELSE BuiltIn[p]
  BY DEF Loaded
<1>2. \A p : p \in kept <=> p \in DOMAIN BuiltIn /\ p[1] \notin tops
  OBVIOUS
<1>3. \A p \in DOMAIN s : p[1] \in tops
  OBVIOUS
<1>4. Hangs(BuiltIn) /\ \A S : 0 \notin S => Shut(BuiltIn, S)
  BY BuiltInHangs
<1> HIDE DEF u, kept, tops
<1>5. \A p \in DOMAIN u : p \in Path /\ p # Home /\ u[p] \in Node
  BY <1>1, <1>2, <1>4 DEF Hangs
<1>6. ASSUME NEW p \in DOMAIN u PROVE Directory(u, Front(p))
  <2>1. CASE p \in DOMAIN s
    <3>1. Directory(s, Front(p))
      BY <2>1 DEF Hangs
    <3> QED
      BY <1>1, <3>1 DEF Directory
  <2>2. CASE p \notin DOMAIN s
    <3>1. p \in DOMAIN BuiltIn /\ p[1] \notin tops /\ p \in Path /\ p # Home
      BY <1>1, <1>2, <1>5, <2>2
    <3>2. Front(p) = Home \/ Front(p)[1] = p[1]
      BY <3>1, FrontOf
    <3>3. Directory(BuiltIn, Front(p))
      BY <1>4, <3>1 DEF Hangs
    <3> QED
      BY <1>1, <1>2, <1>3, <3>1, <3>2, <3>3 DEF Directory
  <2> QED
    BY <2>1, <2>2
<1>7. \A S : Shut(s, S) /\ 0 \notin S => Shut(u, S)
  <2> TAKE S
  <2> HAVE Shut(s, S) /\ 0 \notin S
  <2>1. Shut(BuiltIn, S)
    BY <1>4
  <2> QED
    BY <1>1, <1>2, <2>1 DEF Shut
<1> QED
  BY <1>5, <1>6, <1>7 DEF Hangs, u

\* A new /proc hangs in place of the old one, shows nothing that is shut away, and none of it
\* would be saved.
LEMMA RebuiltHangs ==
  ASSUME VfsAssumption, NEW t, Hangs(t)
  PROVE  /\ Hangs(Rebuilt(t))
         /\ \A S : Shut(t, S) /\ 0 \notin S => Shut(Rebuilt(t), S)
         /\ Saved(Rebuilt(t)) = Saved(t)
<1> DEFINE u == Rebuilt(t)
           kept == {p \in DOMAIN t : p[1] # "proc"}
           built == {p \in DOMAIN BuiltIn : p[1] = "proc"}
<1>1. /\ \A p : p \in DOMAIN u <=> p \in kept \/ p \in built
      /\ \A p \in DOMAIN u : u[p] = IF p \in built THEN BuiltIn[p] ELSE t[p]
  BY DEF Rebuilt
<1>2. /\ \A p : p \in kept <=> p \in DOMAIN t /\ p[1] # "proc"
      /\ \A p : p \in built <=> p \in DOMAIN BuiltIn /\ p[1] = "proc"
  OBVIOUS
<1>3. Hangs(BuiltIn) /\ \A S : 0 \notin S => Shut(BuiltIn, S)
  BY BuiltInHangs
<1> HIDE DEF u, kept, built
<1>4. \A p \in DOMAIN u : p \in Path /\ p # Home /\ u[p] \in Node
  BY <1>1, <1>2, <1>3 DEF Hangs
<1>5. ASSUME NEW p \in DOMAIN u PROVE Directory(u, Front(p))
  <2>1. p \in Path /\ p # Home
    BY <1>4
  <2>2. Front(p) = Home \/ Front(p)[1] = p[1]
    BY <2>1, FrontOf
  <2>3. CASE p \in built
    <3>1. Directory(BuiltIn, Front(p))
      BY <1>2, <1>3, <2>3 DEF Hangs
    <3> QED
      BY <1>1, <1>2, <2>2, <2>3, <3>1 DEF Directory
  <2>4. CASE p \notin built
    <3>1. p \in kept /\ Directory(t, Front(p))
      BY <1>1, <1>2, <2>4 DEF Hangs
    <3> QED
      BY <1>1, <1>2, <2>2, <3>1 DEF Directory
  <2> QED
    BY <2>3, <2>4
<1>6. ASSUME NEW S, Shut(t, S), 0 \notin S PROVE Shut(u, S)
  <2>1. Shut(BuiltIn, S)
    BY <1>3, <1>6
  <2> QED
    BY <1>1, <1>2, <1>6, <2>1 DEF Shut
<1>7. Saved(u) = Saved(t)
  <2>1. {q \in DOMAIN u : q[1] \notin Dynamic} = {q \in DOMAIN t : q[1] \notin Dynamic}
    BY <1>1, <1>2 DEF Dynamic
  <2>2. \A q \in DOMAIN u : q[1] \notin Dynamic => u[q] = t[q]
    BY <1>1, <1>2 DEF Dynamic
  <2> QED
    BY <2>1, <2>2 DEF Saved
<1> QED
  BY <1>4, <1>5, <1>6, <1>7 DEF Hangs, u

\* A lock makes everything below /home unreadable.
LEMMA RevokedHangs ==
  ASSUME NEW t, Hangs(t)
  PROVE  /\ Hangs(Revoked(t))
         /\ DOMAIN Revoked(t) = DOMAIN t
         /\ \A p \in DOMAIN t : /\ Revoked(t)[p].text = t[p].text
                                /\ p[1] = "home" => ~Revoked(t)[p].readable
                                /\ p[1] # "home" => Revoked(t)[p].readable = t[p].readable
         /\ \A S : Shut(t, S) => Shut(Revoked(t), S)
<1> DEFINE u == Revoked(t)
<1>1. /\ DOMAIN u = DOMAIN t
      /\ \A p \in DOMAIN t : u[p] = IF p[1] = "home" THEN [t[p] EXCEPT !.readable = FALSE] ELSE t[p]
  BY DEF Revoked
<1> HIDE DEF u
<1>2. \A p \in DOMAIN t : p \in Path /\ p # Home /\ t[p] \in Node /\ Directory(t, Front(p))
  BY DEF Hangs
<1>3. ASSUME NEW p \in DOMAIN t
      PROVE  /\ u[p] \in Node /\ u[p].text = t[p].text /\ u[p].kind = t[p].kind
             /\ p[1] = "home" => ~u[p].readable
             /\ p[1] # "home" => u[p] = t[p]
  <2>1. CASE p[1] = "home"
    <3>1. u[p] = [t[p] EXCEPT !.readable = FALSE] /\ t[p] \in Node
      BY <1>1, <1>2, <2>1
    <3> QED
      BY <2>1, <3>1 DEF Node
  <2>2. CASE p[1] # "home"
    BY <1>1, <1>2, <2>2
  <2> QED
    BY <2>1, <2>2
<1>4. \A p \in DOMAIN u : Directory(u, Front(p))
  BY <1>1, <1>2, <1>3 DEF Directory
<1>5. Hangs(u)
  BY <1>1, <1>2, <1>3, <1>4 DEF Hangs
<1>6. \A S : Shut(t, S) => Shut(u, S)
  BY <1>1, <1>3 DEF Shut
<1> QED
  BY <1>1, <1>3, <1>5, <1>6 DEF u

\* A directory and those on its way are made, where no file is.
LEMMA MadeHangs ==
  ASSUME NEW t, Hangs(t), NEW p \in Path,
         {i \in 1..Len(p) - 1 : SubSeq(p, 1, i) \in DOMAIN t /\ ~Directory(t, SubSeq(p, 1, i))} = {}
  PROVE  LET made == [q \in DOMAIN t \cup PathTo(p) |-> IF q \in DOMAIN t THEN t[q] ELSE NewDir]
         IN  Hangs(made) /\ \A S : Shut(t, S) /\ 0 \notin S => Shut(made, S)
<1> DEFINE u == [q \in DOMAIN t \cup PathTo(p) |-> IF q \in DOMAIN t THEN t[q] ELSE NewDir]
<1>1. /\ \A q : q \in DOMAIN u <=> q \in DOMAIN t \/ q \in PathTo(p)
      /\ \A q \in DOMAIN u : u[q] = IF q \in DOMAIN t THEN t[q] ELSE NewDir
  OBVIOUS
<1> HIDE DEF u
<1>2. \A q \in DOMAIN t : q \in Path /\ q # Home /\ t[q] \in Node /\ Directory(t, Front(q))
  BY DEF Hangs
<1>3. \A q : q \in PathTo(p) <=> q \in Path /\ q # Home /\ IsPrefix(q, p)
  BY WayTo
<1>4. \A q \in DOMAIN u : q \in Path /\ q # Home /\ u[q] \in Node
  BY <1>1, <1>2, <1>3, FreshNodes
<1>5. ASSUME NEW q \in PathTo(p) PROVE Directory(u, Front(q))
  <2>1. q \in Path /\ q # Home /\ IsPrefix(q, p)
    BY <1>3
  <2>2. /\ Front(q) \in Path /\ IsPrefix(Front(q), q) /\ Len(Front(q)) = Len(q) - 1 /\ Len(q) \in Nat
        /\ Len(q) <= Len(p) /\ Len(p) \in Nat
    BY <2>1, FrontOf, PrefixOrder, LenProperties DEF Path
  <2>3. IsPrefix(Front(q), p)
    BY <2>1, <2>2, PrefixOrder
  <2>4. CASE Front(q) = Home
    BY <2>4 DEF Directory
  <2>5. CASE Front(q) # Home
    <3>1. Front(q) \in PathTo(p)
      BY <1>3, <2>2, <2>3, <2>5
    <3>2. CASE Front(q) \in DOMAIN t
      <4>1. Len(Front(q)) >= 1 /\ Front(q) = SubSeq(p, 1, Len(Front(q)))
        BY <2>2, <2>3, <2>5, FrontOf, SubSeqFull DEF IsPrefix, Path
      <4>2. Len(Front(q)) \in 1..Len(p) - 1
        BY <2>2, <4>1
      <4>3. Directory(t, Front(q))
        BY <3>2, <4>1, <4>2
      <4> QED
        BY <1>1, <2>5, <3>2, <4>3 DEF Directory
    <3>3. CASE Front(q) \notin DOMAIN t
      BY <1>1, <3>1, <3>3, FreshNodes DEF Directory
    <3> QED
      BY <3>2, <3>3
  <2> QED
    BY <2>4, <2>5
<1>6. ASSUME NEW q \in DOMAIN t PROVE Directory(u, Front(q))
  <2>1. Directory(t, Front(q))
    BY <1>2
  <2> QED
    BY <1>1, <2>1 DEF Directory
<1>7. Hangs(u)
  BY <1>1, <1>4, <1>5, <1>6 DEF Hangs
<1>8. \A S : Shut(t, S) /\ 0 \notin S => Shut(u, S)
  BY <1>1, FreshNodes DEF Shut
<1> QED
  BY <1>7, <1>8 DEF u

\* What the file system keeps: its trees hang together, what is sealed is shut, also in a
\* file that the next start may read; and that file, unless the last save failed or it has
\* another key, was saved from the tree, or the tree was loaded from it: but for what is never
\* saved.
VfsTyped ==
  /\ Hangs(tree)
  /\ stored = [tree |-> stored.tree, key |-> stored.key] /\ Hangs(stored.tree)
  /\ key \in {"vault", "emergency"}
  /\ cwd \in Path
Sealed ==
  /\ texts \in Nat /\ sealed \subseteq 1..texts
  /\ Shut(tree, sealed)
  /\ dirty \/ Shut(stored.tree, sealed)
Agrees == dirty \/ stored.key # key \/ stored.tree = Saved(tree)
          \/ Saved(tree) = Saved(Loaded(stored.tree))
VfsInv == VfsTyped /\ Sealed /\ Agrees

LEMMA VfsBegin ==
  ASSUME VfsAssumption, VfsInit
  PROVE  VfsInv
<1>1. Hangs(BuiltIn) /\ Shut(BuiltIn, {})
  BY BuiltInHangs
<1>2. /\ tree = BuiltIn /\ stored = [tree |-> BuiltIn, key |-> "none"] /\ key = "vault"
      /\ cwd = <<"home", "user">> /\ texts = 0 /\ sealed = {}
  BY DEF VfsInit, NoFile, UserHome
<1>3. <<"home", "user">> \in Path
  BY KnownPaths
<1>4. VfsTyped
  BY <1>1, <1>2, <1>3 DEF VfsTyped
<1>5. Sealed
  BY <1>1, <1>2 DEF Sealed
<1>6. Agrees
  BY <1>2 DEF Agrees
<1> QED
  BY <1>4, <1>5, <1>6 DEF VfsInv

\* A change of the tree, with a save that may fail.
LEMMA ChangedKeeps ==
  ASSUME VfsInv, NEW t, Changed(t), Hangs(t), Shut(t, sealed'),
         texts' \in Nat, sealed' \subseteq 1..texts', cwd' \in Path
  PROVE  VfsInv'
<1>1. tree' = t /\ key' = key
  BY DEF Changed
<1>2. \/ stored' = [tree |-> Saved(t), key |-> key] /\ dirty' = FALSE
      \/ stored' = stored /\ dirty' = TRUE
  BY DEF Changed, Notify
<1>3. Hangs(Saved(t)) /\ Shut(Saved(t), sealed')
  BY SavedHangs
<1>4. /\ key \in {"vault", "emergency"}
      /\ stored = [tree |-> stored.tree, key |-> stored.key] /\ Hangs(stored.tree)
  BY DEF VfsInv, VfsTyped
<1>5. CASE stored' = [tree |-> Saved(t), key |-> key] /\ dirty' = FALSE
  <2>1. stored'.tree = Saved(t) /\ stored'.key = key
    BY <1>5
  <2>2. VfsTyped'
    BY <1>1, <1>3, <1>4, <1>5, <2>1 DEF VfsTyped
  <2>3. Sealed'
    BY <1>1, <1>3, <2>1 DEF Sealed
  <2>4. Agrees'
    BY <1>1, <2>1 DEF Agrees
  <2> QED
    BY <2>2, <2>3, <2>4 DEF VfsInv
<1>6. CASE stored' = stored /\ dirty' = TRUE
  <2>1. VfsTyped'
    BY <1>1, <1>4, <1>6 DEF VfsTyped
  <2>2. Sealed'
    BY <1>1, <1>6 DEF Sealed
  <2>3. Agrees'
    BY <1>6 DEF Agrees
  <2> QED
    BY <2>1, <2>2, <2>3 DEF VfsInv
<1> QED
  BY <1>2, <1>5, <1>6

\* Where nothing is sealed or written, the tree alone matters.
LEMMA TreeKeeps ==
  ASSUME VfsInv, NEW t, Changed(t), Hangs(t), Shut(t, sealed), Quiet, UNCHANGED texts
  PROVE  VfsInv'
<1>1. sealed' = sealed /\ texts' = texts /\ cwd' = cwd
  BY DEF Quiet
<1>2. texts \in Nat /\ sealed \subseteq 1..texts /\ cwd \in Path
  BY DEF VfsInv, VfsTyped, Sealed
<1>3. Shut(t, sealed')
  BY <1>1
<1> QED
  BY <1>1, <1>2, <1>3, ChangedKeeps

\* Where the tree and its file stay.
LEMMA MovedKeeps ==
  ASSUME VfsInv, UNCHANGED <<tree, stored, key, history, dirty>>, cwd' \in Path
  PROVE  VfsInv'
<1>1. /\ tree' = tree /\ stored' = stored /\ key' = key /\ dirty' = dirty
      /\ texts' = texts /\ sealed' = sealed
  BY DEF history
<1>2. VfsTyped'
  BY <1>1 DEF VfsInv, VfsTyped
<1>3. Sealed'
  BY <1>1 DEF VfsInv, Sealed
<1>4. Agrees'
  BY <1>1 DEF VfsInv, Agrees
<1> QED
  BY <1>2, <1>3, <1>4 DEF VfsInv

LEMMA KnownTree ==
  ASSUME VfsInv
  PROVE  Hangs(tree) /\ Shut(tree, sealed) /\ 0 \notin sealed /\ texts \in Nat /\ texts + 1 \notin sealed
BY DEF VfsInv, VfsTyped, Sealed

\* A name in the working directory.
LEMMA NamedKeeps ==
  ASSUME VfsAssumption, VfsInv, NEW n \in Names, NEW root,
         \/ MkDir(n, root) \/ RmDir(n) \/ WriteFile(n, root) \/ Touch(n, root) \/ ChMod(n)
         \/ Rm(n, Directory(tree, Here(n)), root) \/ LnSymbolic(n, root)
  PROVE  VfsInv'
<1>1. Hangs(tree) /\ Shut(tree, sealed) /\ 0 \notin sealed /\ texts \in Nat /\ texts + 1 \notin sealed
  BY KnownTree
<1>2. n \in Segment /\ cwd \in Path
  BY TypedPaths DEF VfsInv, VfsTyped
<1>3. Here(n) = Append(cwd, n) /\ Here(n) \in Path /\ Here(n) # Home
  BY <1>2, NameIn DEF Here
<1>4. Directory(tree, Here(n)) => Here(n) \in DOMAIN tree
  BY <1>3 DEF Directory
<1>5. Hangs(Without(tree, Here(n))) /\ Shut(Without(tree, Here(n)), sealed)
  BY <1>1, <1>3, WithoutHangs
<1>6. ASSUME NEW node \in Node, node.text \in sealed => ~node.readable, Directory(tree, cwd),
             ~Directory(tree, Here(n))
      PROVE  Hangs(With(tree, Here(n), node)) /\ Shut(With(tree, Here(n), node), sealed)
  BY <1>1, <1>2, <1>3, <1>6, WithHangs
<1>7. CASE MkDir(n, root)
  <2>1. Directory(tree, cwd) /\ ~InCwd(n) /\ Changed(With(tree, Here(n), NewDir)) /\ Quiet /\ UNCHANGED texts
    BY <1>7 DEF MkDir
  <2>2. ~Directory(tree, Here(n))
    BY <1>4, <2>1 DEF InCwd
  <2>3. Hangs(With(tree, Here(n), NewDir)) /\ Shut(With(tree, Here(n), NewDir), sealed)
    BY <1>1, <1>6, <2>1, <2>2, FreshNodes
  <2> QED
    BY <2>1, <2>3, TreeKeeps
<1>8. CASE RmDir(n)
  BY <1>5, <1>8, TreeKeeps DEF RmDir
<1>9. CASE WriteFile(n, root)
  <2> DEFINE node == IF InCwd(n) THEN [tree[Here(n)] EXCEPT !.text = texts + 1] ELSE NewFile(texts + 1)
  <2>1. /\ Directory(tree, cwd) /\ ~Directory(tree, Here(n)) /\ Changed(With(tree, Here(n), node))
        /\ Quiet /\ texts' = texts + 1
    BY <1>9 DEF WriteFile, Written
  <2>2. node \in Node /\ node.text = texts + 1
    <3>1. CASE InCwd(n)
      <4>1. tree[Here(n)] \in Node
        BY <1>1, <3>1 DEF InCwd, Hangs
      <4>2. node = [tree[Here(n)] EXCEPT !.text = texts + 1] /\ texts + 1 \in Nat
        BY <1>1, <3>1
      <4> HIDE DEF node
      <4> QED
        BY <4>1, <4>2 DEF Node
    <3>2. CASE ~InCwd(n)
      <4>1. node = NewFile(texts + 1) /\ texts + 1 \in Nat
        BY <1>1, <3>2
      <4> HIDE DEF node
      <4> QED
        BY <4>1, FreshNodes
    <3> QED
      BY <3>1, <3>2
  <2> HIDE DEF node
  <2>3. Hangs(With(tree, Here(n), node)) /\ Shut(With(tree, Here(n), node), sealed)
    BY <1>1, <1>6, <2>1, <2>2
  <2>4. sealed' = sealed /\ cwd' = cwd
    BY <2>1 DEF Quiet
  <2>5. texts' \in Nat /\ sealed' \subseteq 1..texts'
    <3>1. sealed \subseteq 1..texts
      BY DEF VfsInv, Sealed
    <3> QED
      BY <1>1, <2>1, <2>4, <3>1
  <2>6. Shut(With(tree, Here(n), node), sealed') /\ cwd' \in Path
    BY <1>2, <2>3, <2>4
  <2> QED
    BY <2>1, <2>3, <2>5, <2>6, ChangedKeeps
<1>10. CASE Touch(n, root)
  <2>1. /\ Directory(tree, cwd) /\ Quiet /\ UNCHANGED texts
        /\ Changed(IF InCwd(n) THEN tree ELSE With(tree, Here(n), NewFile(0)))
    BY <1>10 DEF Touch
  <2>2. CASE InCwd(n)
    BY <1>1, <2>1, <2>2, TreeKeeps
  <2>3. CASE ~InCwd(n)
    <3>1. ~Directory(tree, Here(n))
      BY <1>4, <2>1, <2>3 DEF InCwd
    <3>2. Hangs(With(tree, Here(n), NewFile(0))) /\ Shut(With(tree, Here(n), NewFile(0)), sealed)
      BY <1>1, <1>6, <2>1, <3>1, FreshNodes
    <3>3. Changed(With(tree, Here(n), NewFile(0)))
      BY <2>1, <2>3
    <3> QED
      BY <2>1, <3>2, <3>3, TreeKeeps
  <2> QED
    BY <2>2, <2>3
<1>11. CASE ChMod(n)
  BY <1>1, <1>11, TreeKeeps DEF ChMod
<1>12. CASE Rm(n, Directory(tree, Here(n)), root)
  BY <1>5, <1>12, TreeKeeps DEF Rm
<1>13. CASE LnSymbolic(n, root)
  <2> DEFINE node == [NewFile(0) EXCEPT !.kind = "link"]
             t == SetNode(tree, Here(n), One(node))
  <2>1. Changed(t) /\ Quiet /\ UNCHANGED texts
    BY <1>13 DEF LnSymbolic
  <2>2. node \in Node /\ node.text = 0
    BY DEF NewFile, Node
  <2> HIDE DEF node
  <2>3. Grows(One(node)) /\ Shut(One(node), sealed)
    BY <1>1, <2>2, OneGrows
  <2>4. Hangs(t) /\ Shut(t, sealed)
    BY <1>1, <1>3, <2>3, SetNodeHangs
  <2> QED
    BY <2>1, <2>4, TreeKeeps
<1> QED
  BY <1>7, <1>8, <1>9, <1>10, <1>11, <1>12, <1>13

\* Copies and moves.
LEMMA PutHangs ==
  ASSUME VfsInv, NEW p, Exists(tree, p), NEW q \in Path, q # Home
  PROVE  Hangs(SetNode(tree, q, DeepCopy(tree, p))) /\ Shut(SetNode(tree, q, DeepCopy(tree, p)), sealed)
<1> DEFINE sub == DeepCopy(tree, p)
<1>1. Hangs(tree) /\ Shut(tree, sealed) /\ 0 \notin sealed
  BY KnownTree
<1>2. Grows(sub) /\ Shut(sub, sealed)
  <2>1. CASE p # Home
    <3>1. p \in DOMAIN tree /\ sub = Part(tree, p)
      BY <2>1 DEF Exists, DeepCopy
    <3> QED
      BY <1>1, <3>1, PartGrows
  <2>2. CASE p = Home
    <3>1. /\ DOMAIN sub = DOMAIN tree \cup {Home} /\ sub[Home] = NewDir
          /\ \A r \in DOMAIN tree : sub[r] = tree[r]
      <4>1. sub = With(tree, Home, NewDir) /\ Home \notin DOMAIN tree
        BY <1>1, <2>2 DEF DeepCopy, Hangs
      <4> QED
        BY <4>1 DEF With
    <3>2. NewDir \in Node /\ NewDir.kind = "dir" /\ NewDir.text = 0 /\ Home \in Path
      BY FreshNodes, EmptySeq DEF Home, Path
    <3> HIDE DEF sub
    <3>3. ASSUME NEW r \in DOMAIN sub, r # Home PROVE Front(r) \in DOMAIN sub /\ sub[Front(r)].kind = "dir"
      <4>1. Directory(tree, Front(r))
        BY <1>1, <3>1, <3>3 DEF Hangs
      <4> QED
        BY <3>1, <3>2, <4>1 DEF Directory
    <3>4. \A r \in DOMAIN sub : r \in Path /\ sub[r] \in Node
      BY <1>1, <3>1, <3>2 DEF Hangs
    <3>5. Shut(sub, sealed)
      BY <1>1, <3>1, <3>2 DEF Shut
    <3> QED
      BY <3>3, <3>4, <3>5 DEF Grows
  <2> QED
    BY <2>1, <2>2
<1> HIDE DEF sub
<1>3. Hangs(SetNode(tree, q, sub)) /\ Shut(SetNode(tree, q, sub), sealed)
  BY <1>1, <1>2, SetNodeHangs
<1> QED
  BY <1>3 DEF sub

LEMMA TargetPath ==
  ASSUME VfsInv, NEW p, Exists(tree, p), NEW q \in Path, Named(p, q)
  PROVE  Target(p, q) \in Path /\ Target(p, q) # Home
<1>0. CASE p = Home
  <2>1. ~Directory(tree, q) /\ q # Home
    BY <1>0 DEF Named, Directory
  <2> QED
    BY <2>1 DEF Target
<1> SUFFICES ASSUME p # Home PROVE Target(p, q) \in Path /\ Target(p, q) # Home
  BY <1>0
<1>1. p \in Path
  BY DEF VfsInv, VfsTyped, Hangs, Exists
<1>2. Last(p) \in Segment
  <2>1. Len(p) \in Nat /\ Len(p) >= 1
    BY <1>1, FrontOf
  <2>2. Len(p) \in 1..Len(p)
    BY <2>1
  <2> QED
    BY <1>1, <2>2, ElementOfSeq DEF Path, Last
<1>3. Append(q, Last(p)) \in Path /\ Append(q, Last(p)) # Home
  BY <1>2, NameIn
<1>4. q = Home => Directory(tree, q)
  BY DEF Directory
<1> QED
  BY <1>3, <1>4 DEF Target

LEMMA PutKeeps ==
  ASSUME VfsAssumption, VfsInv, NEW p \in Typed, NEW root,
         \/ \E n \in Names : LnHard(p, n, root)
         \/ \E q \in Typed : Mv(p, q, root) \/ Cp(p, q, Directory(tree, p), root)
  PROVE  VfsInv'
<1>1. CASE \E n \in Names : LnHard(p, n, root)
  <2>1. PICK n \in Names : LnHard(p, n, root)
    BY <1>1
  <2>2. /\ Exists(tree, p) /\ Changed(SetNode(tree, Here(n), DeepCopy(tree, p)))
        /\ Quiet /\ UNCHANGED texts
    BY <2>1 DEF LnHard
  <2>3. n \in Segment /\ cwd \in Path
    BY TypedPaths DEF VfsInv, VfsTyped
  <2>4. Here(n) \in Path /\ Here(n) # Home
    BY <2>3, NameIn DEF Here
  <2>5. /\ Hangs(SetNode(tree, Here(n), DeepCopy(tree, p)))
        /\ Shut(SetNode(tree, Here(n), DeepCopy(tree, p)), sealed)
    BY <2>2, <2>4, PutHangs
  <2> QED
    BY <2>2, <2>5, TreeKeeps
<1>2. CASE \E q \in Typed : Mv(p, q, root) \/ Cp(p, q, Directory(tree, p), root)
  <2>1. PICK q \in Typed : Mv(p, q, root) \/ Cp(p, q, Directory(tree, p), root)
    BY <1>2
  <2> DEFINE t == SetNode(tree, Target(p, q), DeepCopy(tree, p))
  <2>2. Exists(tree, p) /\ Named(p, q) /\ q \in Path
    <3>1. p \in DOMAIN tree => Exists(tree, p) /\ Named(p, q)
      BY DEF Exists, Named, VfsInv, VfsTyped, Hangs
    <3> QED
      BY <2>1, <3>1, TypedPaths DEF Mv, Cp
  <2>3. Target(p, q) \in Path /\ Target(p, q) # Home
    BY <2>2, TargetPath
  <2>4. Hangs(t) /\ Shut(t, sealed)
    BY <2>2, <2>3, PutHangs
  <2>5. CASE Mv(p, q, root)
    <3>1. Changed(Without(t, p)) /\ Quiet /\ UNCHANGED texts
      <4>1. p # Home
        BY <2>5 DEF Mv, VfsInv, VfsTyped, Hangs
      <4> QED
        BY <2>5, <4>1 DEF Mv, DeepCopy
    <3>2. p \in Path
      BY <2>5 DEF Mv, VfsInv, VfsTyped, Hangs
    <3> HIDE DEF t
    <3>3. Hangs(Without(t, p)) /\ Shut(Without(t, p), sealed)
      BY <2>4, <3>2, WithoutHangs
    <3> QED
      BY <3>1, <3>3, TreeKeeps
  <2>6. CASE Cp(p, q, Directory(tree, p), root)
    <3>1. Changed(t) /\ Quiet /\ UNCHANGED texts
      BY <2>6 DEF Cp
    <3> QED
      BY <2>4, <3>1, TreeKeeps
  <2> QED
    BY <2>1, <2>5, <2>6
<1> QED
  BY <1>1, <1>2

LEMMA ParentsKeep ==
  ASSUME VfsAssumption, VfsInv, NEW p \in Typed, NEW root, MkDirParents(p, root)
  PROVE  VfsInv'
<1> DEFINE files == {i \in 1..Len(p) - 1 : SubSeq(p, 1, i) \in DOMAIN tree /\ ~Directory(tree, SubSeq(p, 1, i))}
           made == [q \in DOMAIN tree \cup PathTo(p) |-> IF q \in DOMAIN tree THEN tree[q] ELSE NewDir]
<1>1. files = {} /\ Changed(made) /\ Quiet /\ UNCHANGED texts
  BY DEF MkDirParents
<1>2. p \in Path /\ Hangs(tree) /\ Shut(tree, sealed) /\ 0 \notin sealed
  BY KnownTree, TypedPaths
<1>3. Hangs(made) /\ Shut(made, sealed)
  BY <1>1, <1>2, MadeHangs
<1> HIDE DEF made, files
<1> QED
  BY <1>1, <1>3, TreeKeeps

LEMMA LockKeeps ==
  ASSUME VfsInv, LockAll
  PROVE  VfsInv'
<1>1. /\ Changed(Revoked(tree)) /\ cwd' = cwd /\ texts' = texts
      /\ sealed' = sealed \cup (1..texts \ {tree[p].text : p \in DOMAIN tree \ Subtree(tree, <<"home">>)})
  BY DEF LockAll
<1>2. Hangs(tree) /\ Shut(tree, sealed) /\ texts \in Nat /\ sealed \subseteq 1..texts /\ cwd \in Path
  BY DEF VfsInv, VfsTyped, Sealed
<1>3. /\ Hangs(Revoked(tree)) /\ DOMAIN Revoked(tree) = DOMAIN tree
      /\ \A p \in DOMAIN tree : /\ Revoked(tree)[p].text = tree[p].text
                                /\ p[1] = "home" => ~Revoked(tree)[p].readable
      /\ Shut(Revoked(tree), sealed)
  BY <1>2, RevokedHangs
<1>4. ASSUME NEW p \in DOMAIN tree, p[1] # "home" PROVE p \notin Subtree(tree, <<"home">>)
  <2>1. p \in Path /\ <<"home">> \in Path /\ <<"home">> # Home /\ <<"home">>[1] = "home"
    BY <1>2, KnownPaths DEF Hangs
  <2>2. ~IsPrefix(<<"home">>, p)
    BY <1>4, <2>1, PrefixOrder
  <2> QED
    BY <2>2 DEF Subtree
<1>5. Shut(Revoked(tree), sealed')
  <2> SUFFICES ASSUME NEW p \in DOMAIN tree, tree[p].text \in sealed', p[1] # "home"
               PROVE  ~Revoked(tree)[p].readable
    BY <1>3 DEF Shut
  <2>1. tree[p].text \in sealed
    BY <1>1, <1>4
  <2> QED
    BY <1>3, <2>1 DEF Shut
<1>6. texts' \in Nat /\ sealed' \subseteq 1..texts' /\ cwd' \in Path
  BY <1>1, <1>2
<1> QED
  BY <1>1, <1>3, <1>5, <1>6, ChangedKeeps

LEMMA RestartedKeeps ==
  ASSUME VfsAssumption, VfsInv, NEW torn \in BOOLEAN, Restart(torn)
  PROVE  VfsInv'
<1> DEFINE readable == stored.key = key' /\ ~torn
<1>1. /\ key' \in {"vault", "emergency"}
      /\ tree' = (IF readable THEN Loaded(stored.tree) ELSE BuiltIn)
      /\ sealed' = (IF readable /\ ~dirty THEN sealed ELSE {})
      /\ stored' = (IF torn THEN [stored EXCEPT !.key = "torn"] ELSE stored)
      /\ cwd' = <<"home", "user">> /\ texts' = texts
  BY DEF Restart, UserHome
<1>2. /\ stored = [tree |-> stored.tree, key |-> stored.key] /\ Hangs(stored.tree)
      /\ texts \in Nat /\ sealed \subseteq 1..texts /\ (dirty \/ Shut(stored.tree, sealed))
  BY DEF VfsInv, VfsTyped, Sealed
<1>3. /\ Hangs(BuiltIn) /\ \A S : 0 \notin S => Shut(BuiltIn, S)
      /\ Hangs(Loaded(stored.tree))
      /\ \A S : Shut(stored.tree, S) /\ 0 \notin S => Shut(Loaded(stored.tree), S)
  BY <1>2, BuiltInHangs, LoadedHangs
<1>4. /\ stored' = [tree |-> stored'.tree, key |-> stored'.key] /\ stored'.tree = stored.tree
      /\ stored'.key = IF torn THEN "torn" ELSE stored.key
  <2>1. CASE torn
    <3>1. stored' = [tree |-> stored.tree, key |-> "torn"]
      BY <1>1, <1>2, <2>1
    <3> QED
      BY <2>1, <3>1
  <2>2. CASE ~torn
    BY <1>1, <1>2, <2>2
  <2> QED
    BY <2>1, <2>2
<1>5. <<"home", "user">> \in Path
  BY KnownPaths
<1>6. VfsTyped'
  <2>1. Hangs(tree')
    BY <1>1, <1>3
  <2>2. Hangs(stored'.tree)
    BY <1>2, <1>4
  <2> QED
    BY <1>1, <1>4, <1>5, <2>1, <2>2 DEF VfsTyped
<1>7. Sealed'
  <2>1. sealed' \subseteq 1..texts' /\ texts' \in Nat /\ 0 \notin sealed'
    BY <1>1, <1>2
  <2>2. Shut(stored.tree, sealed')
    BY <1>1, <1>2 DEF Shut
  <2>3. Shut(tree', sealed')
    BY <1>1, <1>3, <2>1, <2>2
  <2> QED
    BY <1>4, <2>1, <2>2, <2>3 DEF Sealed
<1>8. Agrees'
  <2>1. CASE readable
    BY <1>1, <1>4, <2>1 DEF Agrees
  <2>2. CASE ~readable
    <3>1. stored'.key # key'
      BY <1>1, <1>4, <2>2
    <3> QED
      BY <3>1 DEF Agrees
  <2> QED
    BY <2>1, <2>2
<1> QED
  BY <1>6, <1>7, <1>8 DEF VfsInv

\* The explorer moves the working directory only, but to delete.
LEMMA ExplorerKeeps ==
  ASSUME VfsAssumption, VfsInv, Explorer
  PROVE  VfsInv'
<1>1. Hangs(tree) /\ Shut(tree, sealed) /\ cwd \in Path /\ texts \in Nat /\ sealed \subseteq 1..texts
  BY DEF VfsInv, VfsTyped, Sealed
<1>2. ASSUME NEW p, Probe(p), OnlyCwd PROVE VfsInv'
  <2>1. Reached(p) \in Path
    BY <1>1, DirectoryPath DEF Reached, CanCd
  <2>2. cwd' \in Path
    BY <1>1, <1>2, <2>1 DEF Probe, PutBack
  <2>3. UNCHANGED <<tree, stored, key, history, dirty>>
    BY <1>2 DEF OnlyCwd
  <2> QED
    BY <2>2, <2>3, MovedKeeps
<1>3. ASSUME NEW p, NavigateTo(p) PROVE VfsInv'
  BY <1>2, <1>3 DEF NavigateTo
<1>4. ASSUME NEW by, Step(by) PROVE VfsInv'
  BY <1>2, <1>4 DEF Step
<1>5. ASSUME NEW n \in Names, DeleteItem(n) PROVE VfsInv'
  <2> DEFINE p == Append(path, n)
             t == Without(tree, p)
  <2>1. CanCd(path) /\ p \in DOMAIN tree /\ Changed(t) /\ cwd' = PutBack(cwd, path, t)
        /\ UNCHANGED history
    BY <1>5 DEF DeleteItem
  <2>2. path \in Path
    BY <1>1, <2>1, DirectoryPath DEF CanCd
  <2>3. p \in Path
    BY <1>1, <2>1 DEF Hangs
  <2>4. Hangs(t) /\ Shut(t, sealed)
    BY <1>1, <2>3, WithoutHangs
  <2>5. cwd' \in Path
    BY <1>1, <2>1, <2>2 DEF PutBack
  <2>6. sealed' = sealed /\ texts' = texts
    BY <2>1 DEF history
  <2> HIDE DEF t
  <2>7. Shut(t, sealed') /\ texts' \in Nat /\ sealed' \subseteq 1..texts'
    BY <1>1, <2>4, <2>6
  <2> QED
    BY <2>1, <2>4, <2>5, <2>7, ChangedKeeps
<1> QED
  BY <1>3, <1>4, <1>5 DEF Explorer, GoUp, DoubleClick

\* A look into /proc puts a new one there.
LEMMA ProcKeeps ==
  ASSUME VfsAssumption, VfsInv, NEW root, ReadsProc(root)
  PROVE  VfsInv'
<1>1. /\ tree' = Rebuilt(tree) /\ cwd' = cwd /\ stored' = stored /\ key' = key /\ dirty' = dirty
      /\ texts' = texts /\ sealed' = sealed
  BY DEF ReadsProc, history
<1>2. /\ Hangs(tree) /\ Shut(tree, sealed) /\ texts \in Nat /\ sealed \subseteq 1..texts
  BY DEF VfsInv, VfsTyped, Sealed
<1>3. 0 \notin sealed
  BY <1>2
<1>4. Hangs(Rebuilt(tree)) /\ Shut(Rebuilt(tree), sealed) /\ Saved(Rebuilt(tree)) = Saved(tree)
  BY <1>2, <1>3, RebuiltHangs
<1>5. VfsTyped' /\ Sealed'
  BY <1>1, <1>2, <1>4 DEF VfsInv, VfsTyped, Sealed
<1>6. Agrees'
  BY <1>1, <1>4 DEF VfsInv, Agrees
<1> QED
  BY <1>5, <1>6 DEF VfsInv

LEMMA CommandsKeep ==
  ASSUME VfsAssumption, VfsInv, NEW root, Commands(root)
  PROVE  VfsInv'
<1>1. ASSUME NEW p \in Typed, Cd(p, root) PROVE VfsInv'
  <2>1. Directory(tree, p) /\ cwd' = p /\ UNCHANGED <<tree, stored, key, history, dirty>>
    BY <1>1 DEF Cd
  <2>2. p \in Path
    BY TypedPaths
  <2> QED
    BY <2>1, <2>2, MovedKeeps
<1>2. ASSUME CdHome(root) PROVE VfsInv'
  <2>1. cwd' \in {<<"root">>, <<"home", "user">>} /\ UNCHANGED <<tree, stored, key, history, dirty>>
    BY <1>2 DEF CdHome, UserHome
  <2>2. <<"root">> \in Path /\ <<"home", "user">> \in Path
    BY KnownPaths
  <2> QED
    BY <2>1, <2>2, MovedKeeps
<1> QED
  BY <1>1, <1>2, NamedKeeps, PutKeeps, ParentsKeep, ProcKeeps, LockKeeps, RestartedKeeps DEF Commands

LEMMA BesideKeeps ==
  ASSUME VfsAssumption, VfsInv, Beside
  PROVE  VfsInv'
<1>1. ASSUME NEW n \in Names, Rm(n, TRUE, FALSE) PROVE VfsInv'
  <2>1. Changed(Without(tree, Here(n))) /\ Quiet /\ UNCHANGED texts
    BY <1>1 DEF Rm
  <2>2. n \in Segment /\ cwd \in Path /\ Hangs(tree) /\ Shut(tree, sealed)
    BY KnownTree, TypedPaths DEF VfsInv, VfsTyped
  <2>3. Here(n) \in Path
    BY <2>2, NameIn DEF Here
  <2>4. Hangs(Without(tree, Here(n))) /\ Shut(Without(tree, Here(n)), sealed)
    BY <2>2, <2>3, WithoutHangs
  <2> QED
    BY <2>1, <2>4, TreeKeeps
<1>2. ASSUME NEW n \in Names, WriteFile(n, FALSE) PROVE VfsInv'
  BY <1>2, NamedKeeps
<1> QED
  BY <1>1, <1>2, LockKeeps DEF Beside

\* The invariant says what is promised.
LEMMA VfsInvSound ==
  ASSUME VfsAssumption, VfsInv
  PROVE  TreeHangsTogether /\ RestartKeeps /\ LockdownLasts
<1>1. Hangs(tree) /\ Shut(tree, sealed)
  BY KnownTree
<1>2. TreeHangsTogether
  BY <1>1 DEF Hangs, TreeHangsTogether
<1>3. RestartKeeps
  <2> SUFFICES ASSUME ~dirty, stored.key = key,
                      NEW p \in DOMAIN tree \cup DOMAIN Loaded(stored.tree), p[1] \notin Dynamic
               PROVE  \/ p \in DOMAIN tree /\ p \in DOMAIN Loaded(stored.tree) /\ tree[p] = Loaded(stored.tree)[p]
                      \/ p \in DOMAIN BuiltIn /\ <<p[1]>> \notin DOMAIN tree
    BY DEF RestartKeeps
  <2>1. stored.tree = Saved(tree) \/ Saved(tree) = Saved(Loaded(stored.tree))
    BY DEF VfsInv, Agrees
  <2>2. CASE stored.tree = Saved(tree)
    <3> DEFINE s == Saved(tree)
               tops == {q[1] : q \in DOMAIN s}
               kept == {q \in DOMAIN BuiltIn : q[1] \notin tops}
               u == Loaded(s)
    <3>1. /\ \A q : q \in DOMAIN u <=> q \in kept \/ q \in DOMAIN s
          /\ \A q \in DOMAIN u : u[q] = IF q \in DOMAIN s THEN s[q] ELSE BuiltIn[q]
      BY DEF Loaded
    <3>2. \A q : q \in kept <=> q \in DOMAIN BuiltIn /\ q[1] \notin tops
      OBVIOUS
    <3>3. \A q \in DOMAIN s : q[1] \in tops
      OBVIOUS
    <3>4. \A q : q \in DOMAIN s <=> q \in DOMAIN tree /\ q[1] \notin Dynamic
      BY DEF Saved
    <3>5. \A q \in DOMAIN s : s[q] = tree[q]
      BY DEF Saved
    <3> HIDE DEF s, tops, kept, u
    <3>6. CASE p \in DOMAIN tree
      <4>1. p \in DOMAIN s
        BY <3>4, <3>6
      <4>2. p \in DOMAIN u /\ u[p] = tree[p]
        BY <3>1, <3>5, <4>1
      <4> QED
        BY <2>2, <3>6, <4>2 DEF s, u
    <3>7. CASE p \notin DOMAIN tree
      <4>1. p \in DOMAIN u
        BY <2>2, <3>7 DEF s, u
      <4>2. p \in DOMAIN BuiltIn /\ p[1] \notin tops
        BY <3>1, <3>2, <3>4, <3>7, <4>1
      <4>3. ASSUME <<p[1]>> \in DOMAIN tree PROVE FALSE
        <5>1. <<p[1]>>[1] = p[1]
          OBVIOUS
        <5>2. <<p[1]>> \in DOMAIN s
          BY <3>4, <4>3, <5>1
        <5> QED
          BY <3>3, <4>2, <5>1, <5>2
      <4> QED
        BY <4>2, <4>3
    <3> QED
      BY <3>6, <3>7
  <2>3. CASE Saved(tree) = Saved(Loaded(stored.tree))
    <3> DEFINE u == Loaded(stored.tree)
    <3>1. \A t : DOMAIN Saved(t) = {q \in DOMAIN t : q[1] \notin Dynamic}
      BY DEF Saved
    <3>2. \A t : \A q \in DOMAIN Saved(t) : Saved(t)[q] = t[q]
      BY DEF Saved
    <3>3. p \in DOMAIN tree <=> p \in DOMAIN u
      BY <2>3, <3>1
    <3>4. p \in DOMAIN tree /\ p \in DOMAIN u
      BY <3>3
    <3>5. p \in DOMAIN Saved(tree) /\ p \in DOMAIN Saved(u)
      BY <3>1, <3>4
    <3>6. Saved(tree)[p] = tree[p] /\ Saved(u)[p] = u[p]
      BY <3>2, <3>5
    <3> QED
      BY <2>3, <3>4, <3>6
  <2> QED
    BY <2>1, <2>2, <2>3
<1>4. LockdownLasts
  <2>1. ASSUME NEW q \in DOMAIN tree, tree[q].readable PROVE tree[q].text \notin sealed
    BY <1>1, <2>1 DEF Shut
  <2>2. ASSUME NEW p \in Typed, Directory(tree, p)
        PROVE  (Grep(p, FALSE) \cup {tree[q].text : q \in Listed(p, FALSE)}) \cap sealed = {}
    <3>1. \A x \in Grep(p, FALSE) : x \notin sealed
      BY <2>1 DEF Grep, Subtree
    <3>2. \A q \in Listed(p, FALSE) : tree[q].text \notin sealed
      BY <2>1 DEF Listed, Children
    <3> QED
      BY <3>1, <3>2
  <2>3. ASSUME NEW n \in Names
        PROVE  (Cat(n, FALSE) \cup {node.text : node \in Stat(n, FALSE)}) \cap sealed = {}
    <3>1. \A x \in Cat(n, FALSE) : x \notin sealed
      <4>1. 0 \notin sealed
        BY DEF VfsInv, Sealed
      <4>2. Shut(AsRead(cwd), sealed)
        BY <1>1, <4>1, RebuiltHangs DEF AsRead
      <4> QED
        BY <4>2 DEF Cat, Shut
    <3>2. \A node \in Stat(n, FALSE) : node.text \notin sealed
      BY <2>1 DEF Stat, MetaForExplorer, InCwd, Here
    <3> QED
      BY <3>1, <3>2
  <2> QED
    BY <2>2, <2>3 DEF LockdownLasts
<1> QED
  BY <1>2, <1>3, <1>4

LEMMA VfsStep ==
  ASSUME VfsAssumption
  PROVE  VfsInv /\ [VfsNext]_vfsVars => VfsInv'
<1> SUFFICES ASSUME VfsInv, [VfsNext]_vfsVars PROVE VfsInv'
  OBVIOUS
<1>1. CASE VfsNext
  BY <1>1, CommandsKeep, ExplorerKeeps, BesideKeeps DEF VfsNext
<1>2. CASE UNCHANGED vfsVars
  <2>1. UNCHANGED <<tree, stored, key, history, dirty>> /\ cwd' = cwd
    BY <1>2 DEF vfsVars, fsVars
  <2>2. cwd \in Path
    BY DEF VfsInv, VfsTyped
  <2> QED
    BY <2>1, <2>2, MovedKeeps
<1> QED
  BY <1>1, <1>2

\* The virtual file system's tree hangs together, a restart that can read the file brings it
\* back, and what a lock sealed stays unseen (filesystem.py), for any built-in tree, names,
\* paths, commands and restarts.
THEOREM VfsTreeSound ==
  ASSUME VfsAssumption
  PROVE  VfsSpec => [](TreeHangsTogether /\ RestartKeeps /\ LockdownLasts)
<1>1. VfsInit => VfsInv
  BY VfsBegin
<1>2. VfsInv /\ [VfsNext]_vfsVars => VfsInv'
  BY VfsStep
<1>3. VfsInv => TreeHangsTogether /\ RestartKeeps /\ LockdownLasts
  BY VfsInvSound
<1> QED
  BY <1>1, <1>2, <1>3, PTL DEF VfsSpec

\* The explorer puts the directory back that it borrows (system/vfs.py), but for one it cannot
\* enter any more.
THEOREM DirectoryPutBack ==
  ASSUME VfsAssumption
  PROVE  VfsSpec => CwdRestored
<1>1. ASSUME [VfsNext]_vfsVars, cwd' # cwd, Explorer
      PROVE  ~Directory(tree', cwd) \/ ~CheckEnter(tree', cwd, FALSE)
  <2>1. ASSUME NEW p, Probe(p), OnlyCwd
        PROVE  ~Directory(tree', cwd) \/ ~CheckEnter(tree', cwd, FALSE)
    <3>1. tree' = tree
      BY <2>1 DEF OnlyCwd
    <3> QED
      BY <1>1, <2>1, <3>1 DEF Probe, PutBack
  <2>2. ASSUME NEW n, DeleteItem(n)
        PROVE  ~Directory(tree', cwd) \/ ~CheckEnter(tree', cwd, FALSE)
    BY <1>1, <2>2 DEF DeleteItem, PutBack, Changed
  <2> QED
    BY <1>1, <2>1, <2>2 DEF Explorer, NavigateTo, Step, GoUp, DoubleClick
<1>2. [VfsNext]_vfsVars => [caller = "explorer" /\ cwd' # cwd =>
        (Explorer => ~Directory(tree', cwd) \/ ~CheckEnter(tree', cwd, FALSE))]_vfsVars
  BY <1>1
<1> QED
  BY <1>2, PTL DEF VfsSpec, CwdRestored

=============================================================================
