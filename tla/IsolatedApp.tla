------------------------------ MODULE IsolatedApp ------------------------------
(***************************************************************************)
(* The life of an isolated application: the controller of                  *)
(* src/system/runtime/app_controller_isolated.py, the overlay through      *)
(* which isolated_widget.py lets the user restart it, and the engine       *)
(* process of app_runner.py.                                               *)
(*                                                                         *)
(* Every start launches an engine, a drain thread and a boot timer, which  *)
(* carry the number of that start.  The drain threads share the            *)
(* controller's fields: each reads the process and the bridge of the       *)
(* latest start.  start, stop and restart hold the lifecycle lock and are  *)
(* single steps; what the threads read without it is a step of its own.    *)
(*                                                                         *)
(* No application is ever registered with the runtime manager (nobody      *)
(* calls its register), so _update_governance returns at its first test    *)
(* and the states RUNNING, CONGESTED, THROTTLED and RECOVERING are never   *)
(* entered.  Calls, answers and events other than the handshake and the    *)
(* failure report do not touch this state.                                 *)
(***************************************************************************)
EXTENDS Naturals, Sequences, FiniteSets

CONSTANT MaxStarts      \* bound on the calls of start

ASSUME IsolatedAssumption == MaxStarts \in Nat \ {0}

Start == 1..MaxStarts

VARIABLES
  state,           \* RuntimeState as the controller has it
  running,
  handshake_done,
  current,         \* the start whose process, bridge and timer the fields hold
  engine,          \* each engine process
  inbox,           \* what an engine has sent and no drain thread has read
  drain,           \* where each drain thread is
  timer,           \* each boot timer
  reports,         \* state changes emitted by other threads, queued to the UI's
  restart_shown,   \* the overlay offers the restart button
  restarts_due,    \* single-shot timers that will call start
  closed           \* the window is gone

controller == <<state, running, handshake_done, current>>
ui == <<restart_shown, restarts_due, closed>>
vars == <<controller, engine, inbox, drain, timer, reports, ui>>

Reported == {"TERMINATED", "BOOT_FAILED"}

TypeOK ==
  /\ state \in {"BOOTING"} \cup Reported
  /\ running \in BOOLEAN /\ handshake_done \in BOOLEAN
  /\ current \in 0..MaxStarts
  /\ engine \in [Start -> {"unborn", "booting", "up", "dead"}]
  /\ inbox \in [Start -> Seq({"HANDSHAKE", "system_failure"})]
  /\ drain \in [Start -> {"none", "loop", "check", "read", "disconnected",
                          "failed", "report_last", "report", "gone"}]
  /\ timer \in [Start -> {"none", "armed", "expired", "report", "over"}]
  /\ reports \in Nat
  /\ restart_shown \in BOOLEAN /\ closed \in BOOLEAN
  /\ restarts_due \in Nat

\* The widget's constructor is about to start the first engine.
Init ==
  /\ state = "BOOTING" /\ running = FALSE /\ handshake_done = FALSE
  /\ current = 0
  /\ engine = [s \in Start |-> "unborn"]
  /\ inbox = [s \in Start |-> <<>>]
  /\ drain = [s \in Start |-> "none"]
  /\ timer = [s \in Start |-> "none"]
  /\ reports = 0
  /\ restart_shown = FALSE /\ restarts_due = 0 /\ closed = FALSE

Alive(s) == engine[s] \in {"booting", "up"}

-----------------------------------------------------------------------------
(* start and stop, under the lifecycle lock *)

\* Mutant: a start finds an old drain thread and gives it no successor.
OneThreadForAll(s) ==
  IF \E t \in Start : drain[t] \notin {"none", "gone"} THEN drain
  ELSE [drain EXCEPT ![s] = "loop"]

NewThread(s) == [drain EXCEPT ![s] = "loop"]

\* cancel has no effect on a timer that has expired.
Cancelled == [s \in Start |-> IF s = current /\ timer[s] = "armed" THEN "over" ELSE timer[s]]

\* Mutant: the new timer is cancelled instead of the old one.
TimerLost(s) == [Cancelled EXCEPT ![s] = "over"]
TimerArmed(s) == [Cancelled EXCEPT ![s] = "armed"]

\* start: nothing is done about a process that is already there, and the handshake
\* of an earlier engine still counts.
StartEngine ==
  /\ current < MaxStarts
  /\ LET s == current + 1
     IN  /\ current' = s
         /\ running' = TRUE
         /\ engine' = [engine EXCEPT ![s] = "booting"]
         /\ drain' = NewThread(s)
         /\ timer' = TimerArmed(s)
  /\ UNCHANGED <<state, handshake_done, inbox, reports>>

\* Mutant: the process is left to end by itself.
LeftRunning == engine

\* terminate, of the process the controller knows.
Terminated ==
  [s \in Start |-> IF s = current /\ Alive(s) THEN "dead" ELSE engine[s]]

\* stop_locked
Stop ==
  /\ running' = FALSE
  /\ engine' = Terminated
  /\ timer' = Cancelled
  /\ UNCHANGED <<handshake_done, current, inbox>>

-----------------------------------------------------------------------------
(* The UI thread *)

Launch ==
  /\ current = 0
  /\ StartEngine
  /\ UNCHANGED ui

\* restart, clicked on the overlay; its own signal is delivered at once and hides the
\* button.
Restart ==
  /\ restart_shown /\ ~closed
  /\ current + restarts_due < MaxStarts
  /\ Stop
  /\ state' = "BOOTING"
  /\ restart_shown' = FALSE
  /\ restarts_due' = restarts_due + 1
  /\ UNCHANGED <<drain, reports, closed>>

\* QTimer.singleShot(500): it fires although the window may have gone meanwhile.
RestartDue ==
  /\ restarts_due > 0
  /\ StartEngine
  /\ restarts_due' = restarts_due - 1
  /\ UNCHANGED <<restart_shown, closed>>

\* Mutant: only a failure to boot offers a restart.
OnlyBootFailures == state = "BOOT_FAILED"

\* show_state: both states a thread can report show the button.
OffersRestart == TRUE

\* The overlay's turn for a report queued by another thread.
DeliverReport ==
  /\ reports > 0
  /\ reports' = reports - 1
  /\ restart_shown' = (restart_shown \/ (~closed /\ OffersRestart))
  /\ UNCHANGED <<controller, engine, inbox, drain, timer, restarts_due, closed>>

\* closeEvent
CloseEvent ==
  /\ current # 0 /\ ~closed
  /\ closed' = TRUE
  /\ Stop
  /\ UNCHANGED <<state, drain, reports, restart_shown, restarts_due>>

\* OSWindow._final_close: the window deletes its children, which receive no close
\* event.
FinalClose ==
  /\ current # 0 /\ ~closed
  /\ closed' = TRUE
  /\ UNCHANGED <<controller, engine, inbox, drain, timer, reports, restart_shown, restarts_due>>

-----------------------------------------------------------------------------
(* The drain threads *)

\* while self.running
DrainLoop(t) ==
  /\ drain[t] = "loop"
  /\ drain' = [drain EXCEPT ![t] = IF running THEN "check" ELSE "gone"]
  /\ UNCHANGED <<controller, engine, inbox, timer, reports, ui>>

\* Mutant: only an engine that has introduced itself is looked after.
MissedAfterHandshake == engine[current] = "dead" /\ ~handshake_done

ProcessEnded == engine[current] = "dead"

DrainCheck(t) ==
  /\ drain[t] = "check"
  /\ drain' = [drain EXCEPT ![t] = IF ProcessEnded THEN "disconnected" ELSE "read"]
  /\ UNCHANGED <<controller, engine, inbox, timer, reports, ui>>

\* get_message and _process_packet: a message may be dropped as stale, and before the
\* handshake every other message is.  A handshake verifies: every engine is given the controller's
\* one secret and name, so the shutdown for a wrong signature is not reached by them.
DrainRead(t) ==
  /\ drain[t] = "read"
  /\ \/ /\ inbox[current] = <<>>
        /\ drain' = [drain EXCEPT ![t] = "loop"]
        /\ UNCHANGED <<inbox, handshake_done>>
     \/ /\ inbox[current] # <<>>
        /\ inbox' = [inbox EXCEPT ![current] = Tail(@)]
        /\ \/ /\ drain' = [drain EXCEPT ![t] = "loop"]      \* dropped, or ignored
              /\ UNCHANGED handshake_done
           \/ /\ Head(inbox[current]) = "HANDSHAKE"
              /\ handshake_done' = TRUE
              /\ drain' = [drain EXCEPT ![t] = "loop"]
           \/ /\ Head(inbox[current]) = "system_failure" /\ handshake_done
              /\ drain' = [drain EXCEPT ![t] = "failed"]
              /\ UNCHANGED handshake_done
  /\ UNCHANGED <<state, running, current, engine, timer, reports, ui>>

\* _handle_shutdown, first half: stop, which waits for the lifecycle lock.  After a
\* disconnection the thread leaves its loop, after a failure report it goes on.
DrainStop(t) ==
  /\ drain[t] \in {"disconnected", "failed"}
  /\ Stop
  /\ drain' = [drain EXCEPT ![t] = IF @ = "failed" THEN "report" ELSE "report_last"]
  /\ UNCHANGED <<state, reports, ui>>

Outcome(s) == s

\* _handle_shutdown, second half: after the lock is released.
DrainReport(t) ==
  /\ drain[t] \in {"report", "report_last"}
  /\ state' = Outcome("TERMINATED")
  /\ reports' = reports + 1
  /\ drain' = [drain EXCEPT ![t] = IF @ = "report" THEN "loop" ELSE "gone"]
  /\ UNCHANGED <<running, handshake_done, current, engine, inbox, timer, ui>>

Drain(t) == DrainLoop(t) \/ DrainCheck(t) \/ DrainRead(t) \/ DrainStop(t) \/ DrainReport(t)

-----------------------------------------------------------------------------
(* The boot timers *)

\* _verify_handshake, its test.
TimerExpires(s) ==
  /\ timer[s] = "armed"
  /\ timer' = [timer EXCEPT ![s] = IF ~handshake_done /\ running THEN "expired" ELSE "over"]
  /\ UNCHANGED <<controller, engine, inbox, drain, reports, ui>>

TimerStop(s) ==
  /\ timer[s] = "expired"
  /\ running' = FALSE
  /\ engine' = Terminated
  /\ timer' = [Cancelled EXCEPT ![s] = "report"]
  /\ UNCHANGED <<state, handshake_done, current, inbox, drain, reports, ui>>

TimerReport(s) ==
  /\ timer[s] = "report"
  /\ state' = Outcome("BOOT_FAILED")
  /\ reports' = reports + 1
  /\ timer' = [timer EXCEPT ![s] = "over"]
  /\ UNCHANGED <<running, handshake_done, current, engine, inbox, drain, ui>>

Timer(s) == TimerExpires(s) \/ TimerStop(s) \/ TimerReport(s)

-----------------------------------------------------------------------------
(* The engine process: it may also hang, at any point *)

EngineHandshake(s) ==
  /\ engine[s] = "booting"
  /\ engine' = [engine EXCEPT ![s] = "up"]
  /\ inbox' = [inbox EXCEPT ![s] = Append(@, "HANDSHAKE")]
  /\ UNCHANGED <<controller, drain, timer, reports, ui>>

\* An exception, at import or later: reported, then the process ends.
EngineFails(s) ==
  /\ engine[s] = "up"
  /\ engine' = [engine EXCEPT ![s] = "dead"]
  /\ inbox' = [inbox EXCEPT ![s] = Append(@, "system_failure")]
  /\ UNCHANGED <<controller, drain, timer, reports, ui>>

EngineCrashes(s) ==
  /\ Alive(s)
  /\ engine' = [engine EXCEPT ![s] = "dead"]
  /\ UNCHANGED <<controller, inbox, drain, timer, reports, ui>>

Engine(s) == EngineHandshake(s) \/ EngineFails(s) \/ EngineCrashes(s)

-----------------------------------------------------------------------------
Next ==
  \/ Launch \/ Restart \/ RestartDue \/ DeliverReport \/ CloseEvent \/ FinalClose
  \/ \E s \in Start : Drain(s) \/ Timer(s) \/ Engine(s)

\* Threads and the UI's event loop run; users and engines need not do anything.
Fairness ==
  /\ WF_vars(Launch) /\ WF_vars(RestartDue) /\ WF_vars(DeliverReport)
  /\ \A s \in Start : WF_vars(Drain(s)) /\ WF_vars(Timer(s))

Spec == Init /\ [][Next]_vars /\ Fairness

-----------------------------------------------------------------------------
(* Properties *)

\* While the controller is running somebody watches its engine, or is about to stop
\* it: a drain thread that leaves its loop never leaves a running controller behind,
\* however restarts and old threads interleave.
RunningIsWatched ==
  running => \E t \in Start : drain[t] \in {"loop", "check", "read", "disconnected", "failed", "report"}

\* A controller that is not running has no engine: whoever stopped it, and whatever
\* start the stop came from.
StoppedHasNoEngine == ~running /\ current # 0 => ~Alive(current)

\* An engine that dies under a running controller is noticed, unless a restart that
\* was already due has replaced it.
CrashNoticed ==
  \A s \in Start :
    running /\ current = s /\ engine[s] = "dead" ~> ~running \/ current # s

\* "Handshake Timeout Guard": the first engine does not hang in its boot for ever.
FirstBootGuarded == engine[1] = "booting" ~> engine[1] # "booting"

\* The user of an open window is never left with a stopped application and no way to
\* restart it: the button appears, or a restart is already under way.
NeverStranded ==
  current # 0 /\ ~running /\ ~closed ~> restart_shown \/ running \/ closed
=============================================================================
