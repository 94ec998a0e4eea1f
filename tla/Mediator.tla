------------------------------- MODULE Mediator -------------------------------
(* The program behind the hardware token: the adapter that starts, watches and *)
(* stops it, the bridge that hands it the system's events, and the dashboard.  *)
(* Every button and timer acts on the UI thread; events come on the bus's own  *)
(* thread, and a handled interrupt on the thread that handles it.  Nothing     *)
(* stops the polling but an exit: disconnect and cleanup have no caller that   *)
(* runs.  What the lock protects is one step, but for a caller of is_running   *)
(* that asks for the lock again while it holds it: that one never returns.     *)
EXTENDS Naturals, Sequences, FiniteSets

CONSTANTS MaxLaunches, MaxEvents, MaxWaiting  \* bounds: programs started, events that come, events waiting

ASSUME MediatorAssumption == MaxLaunches \in Nat /\ MaxEvents \in Nat

VARIABLES
  alive,                                 \* the mediator programs the host runs
  handle,                                \* _process: the one started last, 0 before
  running, token, vault_locked, polling,       \* _running, _token_connected, _vault_locked, _poll_timer
  hung,                                  \* the thread that waits for itself, "none"
  place, task,                           \* where each thread is, and for what
  bus_queue,                                 \* the bus: "told" is an event of the adapter itself
  posted,                                \* states signalled from other threads to the UI's
  shown,                                 \* whether the dashboard shows a mediator
  got,                                   \* the state the bus's thread is about to show
  survived, straggled,                        \* a stop that did not end it; a change without a mediator
  came

mediatorVars ==
  <<alive, handle, running, token, vault_locked, polling, hung, place, task, bus_queue, posted, shown, got,
    survived, straggled, came>>

beliefs == <<running, token, vault_locked, polling>>
ghosts == <<survived, straggled>>

Threads == {"ui", "bus", "irq"}
Tasks == {"none", "auto", "launch", "stop", "lock", "unlock", "plug", "unplug", "told"}
Places == {"idle", "asks", "launching", "records", "stopping", "leaves", "tells", "changes", "seals", "shows"}

\* Of a state the buttons read one part.
State == running
Idle(t) == place[t] = "idle"
Goes(t, p) == place' = [place EXCEPT ![t] = p]
Starts(t, p, for) == Goes(t, p) /\ task' = [task EXCEPT ![t] = for]

MediatorInit ==
  /\ alive = {} /\ handle = 0
  /\ running = FALSE /\ token = FALSE /\ vault_locked = TRUE /\ polling = FALSE
  /\ hung = "none"
  /\ place = [t \in Threads |-> "idle"] /\ task = [t \in Threads |-> "none"]
  /\ bus_queue = << >> /\ posted = << >>
  /\ shown = State /\ got = State
  /\ survived = FALSE /\ straggled = FALSE /\ came = 0

\* The mediator ends by itself.
Dies ==
  /\ \E p \in alive : alive' = alive \ {p}
  /\ UNCHANGED <<handle, beliefs, hung, place, task, bus_queue, posted, shown, got, ghosts, came>>

\* An event of the session, the token or the interrupts.  That of an interrupt never says which
\* way the plug went, and is taken for a token that was put in.
Comes ==
  /\ came < MaxEvents
  /\ came' = came + 1
  /\ \/ \E e \in {"lock", "plug", "unplug"} : bus_queue' = Append(bus_queue, e) /\ UNCHANGED <<place, task>>
     \/ Idle("irq") /\ Starts("irq", "asks", "plug") /\ UNCHANGED bus_queue
     \/ Idle("irq") /\ Starts("irq", "changes", "unlock") /\ UNCHANGED bus_queue
  /\ UNCHANGED <<alive, handle, beliefs, hung, posted, shown, got, ghosts>>

\* The bus's thread takes the next event; the dashboard listens to the adapter's own.
Takes ==
  /\ Idle("bus") /\ bus_queue # << >>
  /\ Starts("bus", IF Head(bus_queue) = "told" THEN "tells" ELSE "asks", Head(bus_queue))
  /\ bus_queue' = Tail(bus_queue)
  /\ UNCHANGED <<alive, handle, beliefs, hung, posted, shown, got, ghosts, came>>

\* The dashboard opens, or its launch button is pressed, which it is only while it shows none.
AutoLaunch == Starts("ui", "asks", "auto")
PressLaunch == ~shown /\ Starts("ui", "asks", "launch")

\* An exit the poll notices.
PollStatus ==
  /\ polling /\ handle # 0 /\ handle \notin alive /\ running
  /\ Starts("ui", "leaves", "stop")

PressStop == shown /\ running /\ handle # 0 /\ Starts("ui", "stopping", "stop")

Acts ==
  /\ Idle("ui") /\ Len(bus_queue) < MaxWaiting
  /\ AutoLaunch \/ PressLaunch \/ PollStatus \/ PressStop
  /\ UNCHANGED <<alive, handle, beliefs, hung, bus_queue, posted, shown, got, ghosts, came>>

Unnoticed == handle # 0 /\ handle \notin alive /\ running

\* Mutant: the button launches whatever the answer is.
AfterAny(t, answer) ==
  IF task[t] = "auto" THEN Starts(t, "asks", "launch")
  ELSE /\ Goes(t, IF task[t] = "launch" THEN "launching" ELSE IF answer THEN "changes" ELSE "idle")
       /\ UNCHANGED task

\* Who asked goes on with the answer.
After(t, answer) ==
  IF task[t] = "auto" /\ ~answer THEN Starts(t, "asks", "launch")
  ELSE /\ Goes(t, IF task[t] \in {"auto", "launch"} THEN IF answer THEN "idle" ELSE "launching"
                  ELSE IF answer THEN "changes" ELSE "idle")
       /\ UNCHANGED task

\* is_running: who finds an exit nobody has noticed reports it, and reporting takes the lock.
IsRunning(t) ==
  /\ place[t] = "asks" /\ hung = "none"
  /\ IF Unnoticed THEN hung' = t /\ UNCHANGED <<place, task>>
     ELSE hung' = hung /\ After(t, handle \in alive)
  /\ UNCHANGED <<alive, handle, beliefs, bus_queue, posted, shown, got, ghosts, came>>

\* No program is found, or it cannot be started: an event of its own, and no state.
LaunchFails ==
  /\ place["ui"] = "launching" /\ Goes("ui", "idle")
  /\ bus_queue' = Append(bus_queue, "told")
  /\ UNCHANGED <<alive, handle, beliefs, hung, task, posted, shown, got, ghosts, came>>

LaunchMediator ==
  /\ place["ui"] = "launching" /\ handle < MaxLaunches
  /\ alive' = alive \cup {handle + 1}
  /\ Goes("ui", "records")
  /\ UNCHANGED <<handle, beliefs, hung, task, bus_queue, posted, shown, got, ghosts, came>>

\* Mutant: the timer that polls is not started.
RecordsOnly ==
  /\ place["ui"] = "records" /\ hung = "none" /\ Goes("ui", "tells")
  /\ handle' = handle + 1 /\ running' = TRUE
  /\ bus_queue' = Append(bus_queue, "told")
  /\ UNCHANGED <<alive, token, vault_locked, polling, hung, task, posted, shown, got, ghosts, came>>

Records ==
  /\ place["ui"] = "records" /\ hung = "none" /\ Goes("ui", "tells")
  /\ handle' = handle + 1 /\ running' = TRUE /\ polling' = TRUE
  /\ bus_queue' = Append(bus_queue, "told")
  /\ UNCHANGED <<alive, token, vault_locked, hung, task, posted, shown, got, ghosts, came>>

\* terminate_mediator waits, and what it returns is not looked at.
TerminateMediator ==
  /\ place["ui"] = "stopping" /\ Goes("ui", "leaves")
  /\ \/ alive' = alive \ {handle} /\ UNCHANGED survived
     \/ handle \in alive /\ survived' = TRUE /\ UNCHANGED alive
  /\ UNCHANGED <<handle, beliefs, hung, task, bus_queue, posted, shown, got, straggled, came>>

\* Mutant: the token stays connected.
ResetBut == running' = FALSE /\ vault_locked' = TRUE /\ UNCHANGED token

Reset == running' = FALSE /\ token' = FALSE /\ vault_locked' = TRUE

HandleProcessExit ==
  /\ place["ui"] = "leaves" /\ hung = "none" /\ Goes("ui", "tells")
  /\ Reset /\ polling' = FALSE
  /\ bus_queue' = Append(bus_queue, "told")
  /\ UNCHANGED <<alive, handle, hung, task, posted, shown, got, ghosts, came>>

\* set_token_connected and set_vault_locked take no lock, and do nothing where nothing changes.
Changed(t) ==
  \/ task[t] = "plug" /\ ~token
  \/ task[t] = "unplug" /\ token
  \/ task[t] = "unlock" /\ vault_locked
  \/ task[t] \notin {"plug", "unplug", "unlock"} /\ ~vault_locked

Changes(t) ==
  /\ place[t] = "changes"
  /\ token' = (task[t] = "plug" \/ (token /\ task[t] # "unplug"))
  /\ vault_locked' = (task[t] = "lock" \/ (vault_locked /\ task[t] # "unlock"))
  /\ bus_queue' = IF Changed(t) THEN Append(bus_queue, "told") ELSE bus_queue
  /\ Goes(t, IF Changed(t) THEN "tells" ELSE IF task[t] = "unplug" THEN "seals" ELSE "idle")
  /\ straggled' = (straggled \/ (~running /\ task[t] \in {"plug", "unlock"}))
  /\ UNCHANGED <<alive, handle, running, polling, hung, task, posted, shown, got, survived, came>>

\* A token that is pulled out locks the vault too.
Seals(t) ==
  /\ place[t] = "seals" /\ Starts(t, IF vault_locked THEN "idle" ELSE "tells", "lock")
  /\ vault_locked' = TRUE
  /\ bus_queue' = IF vault_locked THEN bus_queue ELSE Append(bus_queue, "told")
  /\ UNCHANGED <<alive, handle, running, token, polling, hung, posted, shown, got, ghosts, came>>

\* A state is read under the lock, shown at once on the UI thread and sent to it from another.
Tells(t) ==
  /\ place[t] = "tells" /\ hung = "none"
  /\ IF task[t] = "told" THEN Goes(t, "shows") /\ got' = State /\ UNCHANGED <<shown, posted>>
     ELSE /\ Goes(t, IF task[t] = "unplug" THEN "seals" ELSE "idle")
          /\ IF t = "ui" THEN shown' = State /\ UNCHANGED posted
             ELSE posted' = Append(posted, State) /\ UNCHANGED shown
          /\ UNCHANGED got
  /\ UNCHANGED <<alive, handle, beliefs, hung, task, bus_queue, ghosts, came>>

\* The dashboard's handler of an event works on the widgets from the bus's thread.
Shows ==
  /\ place["bus"] = "shows" /\ Goes("bus", "idle")
  /\ shown' = got
  /\ UNCHANGED <<alive, handle, beliefs, hung, task, bus_queue, posted, got, ghosts, came>>

StatusDelivered ==
  /\ Idle("ui") /\ posted # << >>
  /\ shown' = Head(posted) /\ posted' = Tail(posted)
  /\ UNCHANGED <<alive, handle, beliefs, hung, place, task, bus_queue, got, ghosts, came>>

RefreshStatus ==
  /\ Idle("ui") /\ hung = "none"
  /\ shown' = State
  /\ UNCHANGED <<alive, handle, beliefs, hung, place, task, bus_queue, posted, got, ghosts, came>>

MediatorStep(t) == IsRunning(t) \/ Changes(t) \/ Seals(t) \/ Tells(t)

MediatorNext ==
  \/ Dies \/ Comes \/ Takes \/ Acts
  \/ \E t \in Threads : MediatorStep(t)
  \/ LaunchFails \/ LaunchMediator \/ Records \/ TerminateMediator \/ HandleProcessExit
  \/ Shows \/ StatusDelivered \/ RefreshStatus

MediatorSpec == MediatorInit /\ [][MediatorNext]_mediatorVars

\* Every thread goes on with what it can do; the rest is the user's, the host's and the token's.
MediatorLive ==
  /\ MediatorSpec
  /\ \A t \in Threads : WF_mediatorVars(MediatorStep(t))
  /\ WF_mediatorVars(Records) /\ WF_mediatorVars(TerminateMediator)
  /\ WF_mediatorVars(HandleProcessExit) /\ WF_mediatorVars(Shows)

MediatorTypeOK ==
  /\ alive \subseteq 1..MaxLaunches /\ handle \in 0..MaxLaunches
  /\ {running, token, vault_locked, polling, shown, got, survived, straggled} \subseteq BOOLEAN
  /\ hung \in Threads \cup {"none"}
  /\ place \in [Threads -> Places] /\ task \in [Threads -> Tasks]
  /\ bus_queue \in Seq(Tasks) /\ came \in 0..MaxEvents

\* There is never a second mediator: not beside one that a failed stop left behind, not by a
\* launch from two places.  A mediator the adapter does not count as running is one being
\* recorded or one a stop could not end.
OneMediator ==
  /\ Cardinality(alive) <= 1
  /\ alive # {} /\ ~running => survived \/ place["ui"] = "records"

\* A token or an open vault without a mediator is a change that was checked before the exit and
\* made after it, or asked for without a check; an exit that is reported closes both.
ClosedWithout == (token \/ ~vault_locked) /\ ~running => straggled

\* What is counted as running is polled, so only a thread that hangs keeps an exit unnoticed,
\* and a thread hangs on nothing but an exit that was not noticed yet.
ExitsAreSeen ==
  /\ running /\ place["ui"] # "leaves" => polling
  /\ hung # "none" => Unnoticed

MediatorSound == MediatorTypeOK /\ OneMediator /\ ClosedWithout /\ ExitsAreSeen

\* qvault_adapter.py:66, "Check if the mediator process is alive": a check that was begun ends,
\* and with it the event that asked.
ChecksEnd == \A t \in Threads : place[t] = "asks" ~> place[t] # "asks"
===============================================================================
