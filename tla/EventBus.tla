------------------------------- MODULE EventBus -------------------------------
(* The event bus (core/event_bus.py).  An event of high priority is dispatched *)
(* by the thread that emits it; any other goes through a queue to the worker   *)
(* thread.  A dispatch takes the lock three times: to record the event and     *)
(* copy the list of subscribers, to drop the dead ones it met, and to sweep    *)
(* all dead ones every so often.  The callbacks run in between, without the    *)
(* lock, and may emit, subscribe and unsubscribe themselves.                   *)
(* Ghosts: sent numbers the emissions, wanted says who subscribed when, and    *)
(* heard which emissions an owner was called with.                             *)
EXTENDS Integers, FiniteSets, SequencesExt

CONSTANTS
  Object,        \* owners of bound methods, held by weak references
  Function,      \* plain functions, held for ever
  Window,        \* windows that are dragged
  Emitted,       \* the kinds of events that are emitted
  MaxQueueSize,  \* the history is cut when it is longer (1000 in the code)
  Kept,          \* what a cut keeps (900)
  DedupMax,      \* the drag index is cleared when it is larger (100)
  SweepEvery,    \* _CLEANUP_INTERVAL (25)
  MaxEmits, MaxSubscribes, MaxDepth              \* bounds

ASSUME BusAssumption ==
  /\ MaxQueueSize \in Nat /\ Kept \in 1..MaxQueueSize /\ SweepEvery \in Nat \ {0}
  /\ DedupMax \in Nat /\ MaxEmits \in Nat /\ MaxSubscribes \in Nat /\ MaxDepth \in Nat

Owner == Object \cup Function
Thread == {"ui", "worker"}

\* One kind for each treatment.  Of drag updates and ticks those that come too soon are
\* dropped, and a session lock is accepted from the authentication manager only.
Kind == {"window_focused", "fs_changed", "drag_update", "clock_tick", "session_locked"}
Synchronous == {"window_focused", "clock_tick"}
RateLimited == {"drag_update", "clock_tick"}
ASSUME EmittedAssumption == Emitted \subseteq Kind

Trusts(kind, source) == kind = "session_locked" => source = "AuthManager"

VARIABLES
  bus,          \* whether the application exists, and the bus with it
  subscribers,  \* kind -> subscriptions, numbered in the order they stand in its list
  alive,        \* the objects that have not been collected
  bus_history,  \* _history, the recent events
  drag_dedup,   \* window -> where in the history its drag update is
  emit_count,   \* modulo SweepEvery
  recent,       \* the rate-limited kinds emitted a moment ago
  queue,        \* _async_queue
  stack,        \* thread -> the dispatches it is in, innermost last
  sent, wanted, heard, subscribed

ghosts == <<sent, wanted, heard, subscribed>>
busVars == <<bus, subscribers, alive, bus_history, drag_dedup, emit_count, recent, queue, stack,
             ghosts>>

BusInit ==
  /\ bus = FALSE
  /\ subscribers = [k \in Kind |-> {}] /\ alive = Object
  /\ bus_history = << >> /\ drag_dedup = << >> /\ emit_count = 0 /\ recent = {}
  /\ queue = << >> /\ stack = [t \in Thread |-> << >>]
  /\ sent = << >> /\ wanted = {} /\ heard = [o \in Owner |-> << >>] /\ subscribed = 0

Lives(s) == s.owner \in Function \cup alive

\* The interface thread calls the bus whenever it likes, and both threads from a callback.
MayCall(t) == IF stack[t] = << >> THEN t = "ui" ELSE Last(stack[t]).callee # {}

\* The first use after the application exists creates the bus.  Until then the proxy drops
\* what is emitted and subscribed.
CreateBus == ~bus /\ bus' = TRUE /\ UNCHANGED <<subscribers, alive, bus_history, drag_dedup,
                                                emit_count, recent, queue, stack, ghosts>>

-----------------------------------------------------------------------------
(* Dispatching *)

\* The history once it has been cut.  The drag index is not adjusted: a position in it may
\* hold another event by now, which the next drag update then replaces.
Trimmed ==
  IF Len(bus_history) > MaxQueueSize
  THEN SubSeq(bus_history, Len(bus_history) - Kept + 1, Len(bus_history)) ELSE bus_history

Recorded(event) ==
  LET slot == IF event.window \in DOMAIN drag_dedup THEN drag_dedup[event.window] ELSE 0
      indexed == [w \in DOMAIN drag_dedup \cup {event.window} |->
                    IF w = event.window THEN Len(Trimmed) + 1 ELSE drag_dedup[w]]
  IN  IF event.kind # "drag_update"
      THEN bus_history' = Append(Trimmed, event) /\ UNCHANGED drag_dedup
      ELSE IF slot \in 1..Len(Trimmed)
           THEN bus_history' = [Trimmed EXCEPT ![slot] = event] /\ UNCHANGED drag_dedup
           ELSE /\ bus_history' = Append(Trimmed, event)
                /\ drag_dedup' = IF Cardinality(DOMAIN indexed) > DedupMax THEN << >>
                                 ELSE indexed

\* The first locked part of a dispatch: record, count, and copy the subscribers.
Begin(t, event) ==
  /\ Recorded(event)
  /\ emit_count' = (emit_count + 1) % SweepEvery
  /\ stack' = [stack EXCEPT ![t] =
                 Append(@, [event |-> event, rest |-> subscribers[event.kind],
                            dead |-> {}, callee |-> {}])]

\* The innermost dispatch of a thread goes on.
GoesOn(t, frame) == stack' = [stack EXCEPT ![t] = [@ EXCEPT ![Len(@)] = frame]]

\* The next callback of the innermost dispatch; one whose object is gone is noted.
CallNext(t) ==
  /\ stack[t] # << >>
  /\ \E s \in Last(stack[t]).rest :
       LET top == Last(stack[t])
       IN  /\ \A other \in top.rest : s.n <= other.n
           /\ GoesOn(t, [top EXCEPT !.rest = @ \ {s},
                                    !.dead = IF Lives(s) THEN @ ELSE @ \cup {s},
                                    !.callee = {s.owner} \cap (Function \cup alive)])
           /\ heard' = IF Lives(s) THEN [heard EXCEPT ![s.owner] = Append(@, top.event.n)]
                       ELSE heard
  /\ UNCHANGED <<bus, subscribers, alive, bus_history, drag_dedup, emit_count, recent, queue,
                 sent, wanted, subscribed>>

\* The second locked part: the dead are taken out of the list as it is by now.
WithoutDead(kind, dead) == subscribers[kind] \ dead

DropDead(t) ==
  /\ stack[t] # << >>
  /\ LET top == Last(stack[t])
     IN  /\ top.rest = {} /\ top.dead # {}
         /\ subscribers' = [subscribers EXCEPT
                              ![top.event.kind] = WithoutDead(top.event.kind, top.dead)]
         /\ GoesOn(t, [top EXCEPT !.dead = {}, !.callee = {}])
  /\ UNCHANGED <<bus, alive, bus_history, drag_dedup, emit_count, recent, queue, ghosts>>

\* Mutant: what is not a method of a living object counts as dead.
SweptFunctions == [k \in Kind |-> {s \in subscribers[k] : s.owner \in alive}]

\* The end of a dispatch, with the sweep when the count, read without the lock, is due.
Swept == [k \in Kind |-> {s \in subscribers[k] : Lives(s)}]

Finish(t) ==
  /\ stack[t] # << >> /\ Last(stack[t]).rest = {} /\ Last(stack[t]).dead = {}
  /\ subscribers' = IF emit_count = 0 THEN Swept ELSE subscribers
  /\ stack' = [stack EXCEPT ![t] = Front(@)]
  /\ UNCHANGED <<bus, alive, bus_history, drag_dedup, emit_count, recent, queue, ghosts>>

\* The worker takes the oldest event.
Worker ==
  /\ stack["worker"] = << >> /\ queue # << >>
  /\ queue' = Tail(queue)
  /\ Begin("worker", Head(queue))
  /\ UNCHANGED <<bus, subscribers, alive, recent, ghosts>>

-----------------------------------------------------------------------------
(* The interface of the bus *)

\* Mutant: a queued event is taken before those that wait.
QueuedNext(event) == <<event>> \o queue
Queued(event) == Append(queue, event)

\* emit: an event that comes too soon or from a source without authority does nothing.
Emit(t, kind, window, source) ==
  LET event == [kind |-> kind, window |-> window, n |-> Len(sent) + 1]
  IN  /\ bus /\ MayCall(t) /\ Len(sent) < MaxEmits /\ Len(stack[t]) < MaxDepth
      /\ kind \notin recent
      /\ recent' = recent \cup ({kind} \cap RateLimited)
      /\ Trusts(kind, source)
      /\ sent' = Append(sent, kind)
      /\ IF kind \in Synchronous
         THEN Begin(t, event) /\ UNCHANGED queue
         ELSE queue' = Queued(event) /\ UNCHANGED <<bus_history, drag_dedup, emit_count, stack>>
      /\ UNCHANGED <<bus, subscribers, alive, wanted, heard, subscribed>>

IntervalOver(kind) ==
  /\ kind \in recent /\ recent' = recent \ {kind}
  /\ UNCHANGED <<bus, subscribers, alive, bus_history, drag_dedup, emit_count, queue, stack,
                 ghosts>>

Subscribe(t, kind, owner) ==
  /\ bus /\ MayCall(t) /\ subscribed < MaxSubscribes /\ owner \in Function \cup alive
  /\ subscribed' = subscribed + 1
  /\ subscribers' = [subscribers EXCEPT ![kind] =
                       @ \cup {[owner |-> owner, n |-> subscribed + 1]}]
  /\ wanted' = wanted \cup {[kind |-> kind, owner |-> owner, since |-> Len(sent)]}
  /\ UNCHANGED <<bus, alive, bus_history, drag_dedup, emit_count, recent, queue, stack, sent,
                 heard>>

\* Every subscription of the callback to the event is dropped.
Unsubscribe(t, kind, owner) ==
  /\ bus /\ MayCall(t) /\ owner \in Function \cup alive
  /\ subscribers' = [subscribers EXCEPT ![kind] = {s \in @ : s.owner # owner}]
  /\ wanted' = {w \in wanted : w.kind # kind \/ w.owner # owner}
  /\ UNCHANGED <<bus, alive, bus_history, drag_dedup, emit_count, recent, queue, stack, sent,
                 heard, subscribed>>

\* Everything of one object, and whatever is dead.  A function is nobody's.
UnsubscribeAll(t, owner) ==
  /\ bus /\ MayCall(t) /\ owner \in alive
  /\ subscribers' = [k \in Kind |->
                       {s \in subscribers[k] : Lives(s) /\ s.owner # owner}]
  /\ wanted' = {w \in wanted : w.owner # owner}
  /\ UNCHANGED <<bus, alive, bus_history, drag_dedup, emit_count, recent, queue, stack, sent,
                 heard, subscribed>>

\* The last reference to an object goes: a running callback holds one.
Called == UNION {UNION {stack[t][i].callee : i \in DOMAIN stack[t]} : t \in Thread}
Collected(object) ==
  /\ object \in alive \ Called /\ alive' = alive \ {object}
  /\ UNCHANGED <<bus, subscribers, bus_history, drag_dedup, emit_count, recent, queue, stack,
                 ghosts>>

BusNext ==
  \/ CreateBus \/ Worker
  \/ \E t \in Thread :
       \/ CallNext(t) \/ DropDead(t) \/ Finish(t)
       \/ \E k \in Emitted :
            \E w \in IF k = "drag_update" THEN Window ELSE {"none"},
               source \in IF k = "session_locked" THEN {"AuthManager", "app"} ELSE {"app"} :
              Emit(t, k, w, source)
       \/ \E k \in Emitted, o \in Owner : Subscribe(t, k, o) \/ Unsubscribe(t, k, o)
       \/ \E o \in Object : UnsubscribeAll(t, o)
  \/ \E k \in RateLimited : IntervalOver(k)
  \/ \E o \in Object : Collected(o)

BusSpec == BusInit /\ [][BusNext]_busVars

-----------------------------------------------------------------------------
(* Properties *)

Subscription == [owner : Owner, n : 1..MaxSubscribes]

BusTypeOK ==
  /\ \A k \in Kind : subscribers[k] \subseteq Subscription
  /\ alive \subseteq Object /\ recent \subseteq RateLimited
  /\ emit_count \in 0..(SweepEvery - 1)
  /\ \A w \in DOMAIN drag_dedup : drag_dedup[w] \in 1..(MaxQueueSize + 1)

\* The history stays bounded, whatever is recorded in place and whatever is cut.
HistoryBounded == Len(bus_history) <= MaxQueueSize + 1

\* An owner hears queued events in the order of their emission, whoever emitted them.
InOrder ==
  \A o \in Owner : \A i, j \in 1..Len(heard[o]) :
    i < j /\ {sent[heard[o][i]], sent[heard[o][j]]} \cap Synchronous = {}
      => heard[o][i] <= heard[o][j]

\* Emissions still to be dispatched, or in the middle of it.
Underway ==
  {queue[i].n : i \in 1..Len(queue)}
    \cup UNION {{stack[t][i].event.n : i \in 1..Len(stack[t])} : t \in Thread}

\* A living owner that has not unsubscribed hears every event emitted since it subscribed,
\* whatever other callbacks subscribe, unsubscribe, emit or let die in the meantime.
EveryoneHears ==
  \A w \in wanted : w.owner \in Function \cup alive =>
    \A n \in (w.since + 1)..Len(sent) :
      sent[n] = w.kind /\ n \notin Underway
        => \E i \in 1..Len(heard[w.owner]) : heard[w.owner][i] = n

BusSound == BusTypeOK /\ HistoryBounded /\ InOrder /\ EveryoneHears
=============================================================================
