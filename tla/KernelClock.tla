------------------------------ MODULE KernelClock ------------------------------
(* The clock of the simulated kernel (kernel/simulation_clock.py), the         *)
(* interrupts it paces (kernel/interrupt_manager.py) and the monitor window    *)
(* that starts and pauses it (ui/shell/kernel_monitor_app.py).  A loop thread  *)
(* ticks and dispatches each tick itself; the interface thread starts, pauses  *)
(* and stops it, and waits at most two seconds for the loop to end: a loop     *)
(* that is busy dispatching for longer lives on, and starting again clears the *)
(* event that would have ended it.  Interrupts are raised by the ticks and by  *)
(* the worker of the bus.                                                      *)
(* Ghosts: timeouts counts the joins that gave up, late the ticks counted      *)
(* while paused, announced the last tick dispatched, others the interrupts not *)
(* raised by a tick.                                                           *)
EXTENDS Integers, FiniteSets

CONSTANTS
  TimerInterval,   \* _TIMER_INTERVAL (5 in the code)
  RaisedTypes,     \* the types that are raised by others than the clock
  MaxStarts, MaxTicks, MaxRaised                 \* bounds

Loop == 1..MaxStarts
Raiser == Loop \cup {0}   \* 0 is the worker of the bus

\* A lower number is more urgent.
Priority == [PAGE_FAULT |-> 1, MEMORY_FULL |-> 2, USB_DEVICE |-> 3, IO_COMPLETE |-> 4,
             TIMER |-> 5]

ASSUME ClockAssumption ==
  /\ MaxStarts \in Nat /\ MaxTicks \in Nat /\ MaxRaised \in Nat /\ TimerInterval \in Nat \ {0}
  /\ RaisedTypes \subseteq DOMAIN Priority

VARIABLES
  running, paused,  \* _running, _paused
  stop_event, go,   \* go is _pause_event: it is set while the clock is NOT paused
  tick_count,
  thread,           \* the loop that was started last, 0 before the first
  loop,             \* loop -> [at, tick]
  joining,          \* what the interface thread is waiting for: "none", "stop" or "reset"
  visible,          \* whether the monitor is shown
  hears_ticks,      \* whether the interrupt manager hears the ticks
  pending,          \* the interrupts in the heap
  seq,              \* the next sequence number
  holds,            \* raiser -> interrupts in its hands: drawn, or being handled
  done,             \* sequence numbers of the interrupts handled
  timeouts, late, announced, others

loopVars == <<running, paused, stop_event, go, tick_count, thread, loop, joining, visible,
              timeouts, late, announced>>
irqVars == <<hears_ticks, pending, seq, holds, done, others>>
clockVars == <<loopVars, irqVars>>

ClockInit ==
  /\ running = FALSE /\ paused = FALSE /\ stop_event = FALSE /\ go = TRUE
  /\ tick_count = 0 /\ thread = 0 /\ loop = [l \in Loop |-> [at |-> "unborn", tick |-> 0]]
  /\ joining = "none" /\ visible = FALSE
  /\ hears_ticks = FALSE /\ pending = {} /\ seq = 0 /\ holds = [r \in Raiser |-> {}]
  /\ done = {} /\ timeouts = 0 /\ late = 0 /\ announced = 0 /\ others = 0

Live == {l \in Loop : loop[l].at \notin {"unborn", "gone"}}

-----------------------------------------------------------------------------
(* The calls of the interface thread *)

Calls == joining = "none" /\ UNCHANGED irqVars

\* Mutant: a start leaves the pause of before in place.
StartKeepsPause == ~paused
StartGoes == TRUE

Start ==
  /\ ~running /\ thread < MaxStarts
  /\ running' = TRUE /\ paused' = FALSE /\ stop_event' = FALSE /\ go' = StartGoes
  /\ thread' = thread + 1
  /\ loop' = [loop EXCEPT ![thread + 1] = [at |-> "top", tick |-> 0]]
  /\ late' = 0
  /\ UNCHANGED <<tick_count, joining, timeouts, announced>>

Pause ==
  /\ ~paused /\ paused' = TRUE /\ go' = FALSE /\ late' = 0
  /\ UNCHANGED <<running, stop_event, tick_count, thread, loop, joining, timeouts, announced>>

StartClock == Calls /\ Start /\ UNCHANGED visible
PauseClock == Calls /\ Pause /\ UNCHANGED visible

Resume ==
  /\ Calls /\ running /\ paused
  /\ paused' = FALSE /\ go' = TRUE
  /\ UNCHANGED <<running, stop_event, tick_count, thread, loop, joining, visible, timeouts, late,
                 announced>>

\* stop, by itself or as the first half of reset: the loop is told to end, also when it is
\* suspended.
Stop(purpose) ==
  /\ Calls /\ running
  /\ running' = FALSE /\ stop_event' = TRUE /\ go' = TRUE
  /\ joining' = purpose
  /\ UNCHANGED <<paused, tick_count, thread, loop, visible, timeouts, late, announced>>

\* The rest of the call once the loop has ended or two seconds are over.
Joined ==
  /\ joining # "none" /\ joining' = "none"
  /\ \/ thread \notin Live /\ UNCHANGED timeouts
     \/ loop[thread].at \in {"dispatch", "pop", "push", "handle"} /\ timeouts' = timeouts + 1
  /\ IF joining = "reset" THEN tick_count' = 0 /\ announced' = 0
     ELSE UNCHANGED <<tick_count, announced>>
  /\ UNCHANGED <<running, paused, stop_event, go, thread, loop, visible, late, irqVars>>

ResetStopped ==
  /\ Calls /\ ~running /\ tick_count' = 0 /\ announced' = 0
  /\ UNCHANGED <<running, paused, stop_event, go, thread, loop, joining, visible, timeouts, late>>

\* The monitor starts a clock that does not run when it is shown, and pauses one that does
\* when it is hidden.  It never resumes one.
Show ==
  /\ Calls /\ ~visible /\ visible' = TRUE
  /\ IF running
     THEN UNCHANGED <<running, paused, stop_event, go, tick_count, thread, loop, joining, timeouts,
                      late, announced>>
     ELSE Start

Hide ==
  /\ Calls /\ visible /\ visible' = FALSE
  /\ IF running /\ ~paused THEN Pause
     ELSE UNCHANGED <<running, paused, stop_event, go, tick_count, thread, loop, joining,
                      timeouts, late, announced>>

-----------------------------------------------------------------------------
(* The loop *)

Goes(l, at) == loop' = [loop EXCEPT ![l].at = at]

\* The top of the loop: end, or go to sleep unless suspended.
Top(l) ==
  /\ loop[l].at = "top"
  /\ stop_event \/ go
  /\ Goes(l, IF stop_event THEN "gone" ELSE "asleep")
  /\ UNCHANGED <<running, paused, stop_event, go, tick_count, thread, joining, visible, timeouts,
                 late, announced, irqVars>>

\* The sleep ends early when the clock is stopped; a tick that is due is given up when the
\* clock has been paused meanwhile.
Wakes(l) ==
  /\ loop[l].at = "asleep"
  /\ Goes(l, IF stop_event THEN "gone" ELSE IF go THEN "due" ELSE "top")
  /\ UNCHANGED <<running, paused, stop_event, go, tick_count, thread, joining, visible, timeouts,
                 late, announced, irqVars>>

Count(l) ==
  /\ loop[l].at = "due" /\ tick_count < MaxTicks
  /\ tick_count' = tick_count + 1
  /\ loop' = [loop EXCEPT ![l] = [at |-> "dispatch", tick |-> tick_count + 1]]
  /\ late' = IF go THEN late ELSE late + 1
  /\ UNCHANGED <<running, paused, stop_event, go, thread, joining, visible, timeouts, announced,
                 irqVars>>

Interrupt(type) == [type |-> type, seq |-> seq]

Fires(tick) == tick > 0 /\ tick % TimerInterval = 0

\* The tick is announced, unless the bus finds that it comes too soon after the last one.  The
\* interrupt manager draws a number for the timer interrupt when it is due.
Announce(l) ==
  /\ loop[l].at = "dispatch"
  /\ \/ Goes(l, "top") /\ UNCHANGED <<announced, seq, holds>>
     \/ /\ announced' = loop[l].tick
        /\ IF hears_ticks /\ Fires(loop[l].tick)
           THEN /\ Goes(l, "push") /\ seq' = seq + 1
                /\ holds' = [holds EXCEPT ![l] = {Interrupt("TIMER")}]
           ELSE Goes(l, IF hears_ticks THEN "pop" ELSE "top") /\ UNCHANGED <<seq, holds>>
  /\ UNCHANGED <<running, paused, stop_event, go, tick_count, thread, joining, visible, timeouts,
                 late, hears_ticks, pending, done, others>>

\* Mutant: the handled interrupt stays in the heap.
PeekNotPop(irq) == pending
HeapWithout(irq) == pending \ {irq}

MoreUrgent(a, b) ==
  \/ Priority[a.type] < Priority[b.type]
  \/ Priority[a.type] = Priority[b.type] /\ a.seq < b.seq

Push(r) ==
  /\ pending' = pending \cup holds[r] /\ holds' = [holds EXCEPT ![r] = {}]
  /\ UNCHANGED <<hears_ticks, seq, done>>

PushTimer(l) ==
  /\ loop[l].at = "push" /\ Goes(l, "pop") /\ Push(l)
  /\ UNCHANGED <<running, paused, stop_event, go, tick_count, thread, joining, visible, timeouts,
                 late, announced, others>>

\* handle: the most urgent interrupt is taken out and handled without the lock.  Each tick
\* handles one.
Handle(r) ==
  \E irq \in pending :
    /\ \A other \in pending \ {irq} : MoreUrgent(irq, other)
    /\ pending' = HeapWithout(irq) /\ holds' = [holds EXCEPT ![r] = {irq}]
    /\ UNCHANGED <<hears_ticks, seq, done, others>>

Handled(r) ==
  /\ done' = done \cup {irq.seq : irq \in holds[r]} /\ holds' = [holds EXCEPT ![r] = {}]
  /\ UNCHANGED <<hears_ticks, pending, seq, others>>

HandleOnTick(l) ==
  /\ loop[l].at = "pop"
  /\ IF pending = {} THEN Goes(l, "top") /\ UNCHANGED irqVars
     ELSE Goes(l, "handle") /\ Handle(l)
  /\ UNCHANGED <<running, paused, stop_event, go, tick_count, thread, joining, visible, timeouts,
                 late, announced>>

HandledOnTick(l) ==
  /\ loop[l].at = "handle" /\ Goes(l, "top") /\ Handled(l)
  /\ UNCHANGED <<running, paused, stop_event, go, tick_count, thread, joining, visible, timeouts,
                 late, announced>>

-----------------------------------------------------------------------------
(* Interrupts from elsewhere: raise_interrupt and _on_memory_full *)

Draw(type) ==
  /\ holds[0] = {} /\ others < MaxRaised
  /\ type = "MEMORY_FULL" => hears_ticks
  /\ seq' = seq + 1 /\ others' = others + 1
  /\ holds' = [holds EXCEPT ![0] = {Interrupt(type)}]
  /\ UNCHANGED <<loopVars, hears_ticks, pending, done>>

PushDrawn == holds[0] # {} /\ Push(0) /\ UNCHANGED <<loopVars, others>>

\* start and stop of the interrupt manager: the second call of either does nothing.
ListenOrNot ==
  hears_ticks' = ~hears_ticks /\ UNCHANGED <<loopVars, pending, seq, holds, done, others>>

ClockNext ==
  \/ StartClock \/ PauseClock \/ Resume \/ ResetStopped \/ Joined \/ Show \/ Hide
  \/ \E purpose \in {"stop", "reset"} : Stop(purpose)
  \/ \E l \in Loop : \/ Top(l) \/ Wakes(l) \/ Count(l) \/ Announce(l)
                     \/ PushTimer(l) \/ HandleOnTick(l) \/ HandledOnTick(l)
  \/ \E type \in RaisedTypes : Draw(type)
  \/ PushDrawn \/ ListenOrNot

ClockSpec == ClockInit /\ [][ClockNext]_clockVars

-----------------------------------------------------------------------------
(* Properties *)

ClockTypeOK ==
  /\ thread \in 0..MaxStarts /\ tick_count \in 0..MaxTicks
  /\ joining \in {"none", "stop", "reset"}
  /\ \A irq \in pending \cup UNION {holds[r] : r \in Raiser} : irq.type \in DOMAIN Priority

\* Only a join that gave up leaves a second loop: there is one while the clock runs and none
\* once it has been stopped.
OneLoop ==
  /\ Cardinality(Live) <= timeouts + (IF thread \in Live THEN 1 ELSE 0)
  /\ timeouts = 0 => /\ running => Live = {thread}
                     /\ ~running /\ joining = "none" => Live = {}

\* The clock is suspended exactly while it is paused, through starts, stops and pauses in any
\* order, and a pause lets each loop finish at most the tick it had begun.
PauseHolds ==
  /\ running => (go <=> ~paused)
  /\ paused /\ running => late <= Cardinality(Loop \ {l \in Loop : loop[l].at = "unborn"})
  /\ paused /\ running /\ timeouts = 0 => late <= 1

\* A tick is announced after those counted before it.
TicksInOrder ==
  timeouts = 0 => \A l \in Live : loop[l].at = "dispatch" => loop[l].tick > announced

\* No interrupt is lost or handled twice: each number drawn is in one place.
Held == UNION {{irq.seq : irq \in holds[r]} : r \in Raiser}
Waiting == {irq.seq : irq \in pending}

EachInterruptOnce ==
  /\ done \cup Held \cup Waiting = 0..(seq - 1)
  /\ done \cap (Held \cup Waiting) = {} /\ Held \cap Waiting = {}

\* Ticks never fall behind: a tick raises at most one interrupt and handles one, so no more
\* wait than others have raised.
TicksKeepUp ==
  Cardinality(pending) <= others + Cardinality({l \in Live : loop[l].at = "pop"})

\* One loop ticks unless a join gave up, a pause holds, ticks are announced in order, and every
\* interrupt is handled once (kernel/simulation_clock.py, kernel/interrupt_manager.py).
ClockSound ==
  ClockTypeOK /\ OneLoop /\ PauseHolds /\ TicksInOrder /\ EachInterruptOnce /\ TicksKeepUp
=============================================================================
