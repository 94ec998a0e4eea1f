---------------------------- MODULE Programs_proofs ----------------------------
(* Proofs about what surrounds an application: the mediator's adapter, the     *)
(* notepads and the gateway, each with state of its own.                       *)
(*                                                                             *)
(* The mediator's adapter: only the program that was started last may be       *)
(* alive, and the place of the UI thread says which one that is, whether it    *)
(* may be alive at all and whether it is counted.  A step of another thread,   *)
(* or of the UI thread outside its start and its stop, keeps all of that.      *)
(*                                                                             *)
(* The notepads: what they promise is inductive once the types are complete;   *)
(* the steps that share a part (a read, a write, a write that fails, a         *)
(* notepad that is emptied) are proved once and cited by the actions.          *)
(*                                                                             *)
(* The gateway: of a guard that two threads were never in at a time, the calls *)
(* of a second that were admitted are counted. Among those since any time that *)
(* is a second old at most for the call in the limiter, the window holds as    *)
(* many as were admitted, although it is cut and calls that are refused enter  *)
(* it as well; what that call has read of the window still is so, and it is    *)
(* admitted only when there was room. For consent, an event on its way grants  *)
(* only what the user said, and answers the interface thread only once that    *)
(* has given up.                                                               *)
EXTENDS Mediator, Editors, AppSandbox, FiniteNumbers, SequenceTheorems, FiniteSetTheorems, TLAPS

-----------------------------------------------------------------------------
(* The mediator *)

\* The type invariant, with what the signals carry.
MediatorTyped ==
  /\ alive \in SUBSET (1..MaxLaunches) /\ handle \in 0..MaxLaunches
  /\ running \in BOOLEAN /\ token \in BOOLEAN /\ vault_locked \in BOOLEAN /\ polling \in BOOLEAN
  /\ shown \in BOOLEAN /\ got \in BOOLEAN /\ survived \in BOOLEAN /\ straggled \in BOOLEAN
  /\ hung \in Threads \cup {"none"}
  /\ place \in [Threads -> Places] /\ task \in [Threads -> Tasks]
  /\ bus_queue \in Seq(Tasks) /\ posted \in Seq(BOOLEAN) /\ came \in 0..MaxEvents

\* Only the program that was started last may be alive, and where the UI thread is tells the rest.
MediatorPrograms ==
  /\ place["ui"] # "records" => alive \subseteq {handle}
  /\ place["ui"] = "records" => alive \subseteq {handle + 1} /\ handle < MaxLaunches
  /\ place["ui"] = "launching" => alive = {}
  /\ place["ui"] = "leaves" => alive = {} \/ survived
  /\ alive # {} /\ ~running => survived \/ place["ui"] = "records"
  /\ running => polling
  /\ hung # "none" => Unnoticed

MediatorInv == MediatorTyped /\ MediatorPrograms /\ ClosedWithout

\* The places at which a program is being started or counted out.
Held == {"records", "launching", "leaves"}

\* The adapter begins without a program, its flags down and the vault locked.
LEMMA MediatorBegin == MediatorInit => MediatorInv
<1> SUFFICES ASSUME MediatorInit PROVE MediatorInv
  OBVIOUS
<1>1. MediatorTyped
  <2>1. 0 \in 0..MaxLaunches /\ 0 \in 0..MaxEvents
    BY MediatorAssumption
  <2>2. place \in [Threads -> Places] /\ task \in [Threads -> Tasks]
    BY DEF MediatorInit, Places, Tasks
  <2>3. bus_queue \in Seq(Tasks) /\ posted \in Seq(BOOLEAN)
    BY EmptySeq DEF MediatorInit
  <2>4. running \in BOOLEAN /\ shown \in BOOLEAN /\ got \in BOOLEAN
    BY DEF MediatorInit, State
  <2> QED
    BY <2>1, <2>2, <2>3, <2>4 DEF MediatorInit, MediatorTyped
<1>2. MediatorPrograms
  BY DEF MediatorInit, MediatorPrograms, Threads
<1>3. ClosedWithout
  BY DEF MediatorInit, ClosedWithout
<1> QED
  BY <1>1, <1>2, <1>3 DEF MediatorInv

\* A step of a thread that neither starts, records nor stops a program keeps what is known of them.
LEMMA OtherPlace ==
  ASSUME MediatorTyped, MediatorPrograms, UNCHANGED <<handle, running, polling, hung, survived>>,
         alive' \in SUBSET alive,
         \/ place'["ui"] = place["ui"]
         \/ place["ui"] # "records" /\ place'["ui"] \notin Held
  PROVE  MediatorPrograms'
  BY DEF MediatorTyped, MediatorPrograms, Held, Unnoticed

\* Every step keeps the invariant.
LEMMA MediatorKeeps == MediatorInv /\ [MediatorNext]_mediatorVars => MediatorInv'
<1> SUFFICES ASSUME MediatorInv, [MediatorNext]_mediatorVars PROVE MediatorInv'
  OBVIOUS
<1> USE DEF beliefs, ghosts, Goes, Starts, Idle, State
<1>0. MediatorTyped /\ MediatorPrograms /\ ClosedWithout
  BY DEF MediatorInv
<1>a. /\ alive \in SUBSET (1..MaxLaunches) /\ handle \in 0..MaxLaunches
      /\ running \in BOOLEAN /\ token \in BOOLEAN /\ vault_locked \in BOOLEAN /\ polling \in BOOLEAN
      /\ shown \in BOOLEAN /\ got \in BOOLEAN /\ survived \in BOOLEAN /\ straggled \in BOOLEAN
      /\ hung \in Threads \cup {"none"}
      /\ place \in [Threads -> Places] /\ task \in [Threads -> Tasks]
      /\ bus_queue \in Seq(Tasks) /\ posted \in Seq(BOOLEAN) /\ came \in 0..MaxEvents
  BY <1>0 DEF MediatorTyped
<1>b. "ui" \in Threads /\ "bus" \in Threads /\ "irq" \in Threads /\ "told" \in Tasks /\ "lock" \in Tasks
      /\ "plug" \in Tasks /\ "unplug" \in Tasks /\ "unlock" \in Tasks /\ "auto" \in Tasks
      /\ "launch" \in Tasks /\ "stop" \in Tasks
  BY DEF Threads, Tasks
<1>p. /\ "idle" \in Places /\ "asks" \in Places /\ "launching" \in Places /\ "records" \in Places
      /\ "stopping" \in Places /\ "leaves" \in Places /\ "tells" \in Places /\ "changes" \in Places
      /\ "seals" \in Places /\ "shows" \in Places
  BY DEF Places
<1>t. \A t \in Threads, p \in Places : [place EXCEPT ![t] = p] \in [Threads -> Places]
  BY <1>a
<1>u. \A t \in Threads, k \in Tasks : [task EXCEPT ![t] = k] \in [Threads -> Tasks]
  BY <1>a
<1>q. \A k \in Tasks : Append(bus_queue, k) \in Seq(Tasks)
  BY <1>a, AppendProperties
<1>c. ASSUME ~(token' /\ ~token), ~(vault_locked /\ ~vault_locked'), straggled => straggled',
             running => running'
      PROVE  ClosedWithout'
  BY <1>0, <1>c DEF ClosedWithout
<1>1. CASE Dies
  <2>1. MediatorTyped'
    BY <1>a, <1>1 DEF Dies, MediatorTyped
  <2>2. MediatorPrograms'
    BY <1>0, <1>1, OtherPlace DEF Dies
  <2>3. ClosedWithout'
    BY <1>c, <1>1 DEF Dies
  <2> QED
    BY <2>1, <2>2, <2>3 DEF MediatorInv
<1>2. CASE Comes
  <2>1. came' \in 0..MaxEvents
    BY <1>a, <1>2, MediatorAssumption DEF Comes
  <2>2. bus_queue' \in Seq(Tasks)
    BY <1>a, <1>b, <1>q, <1>2 DEF Comes
  <2>3. place' \in [Threads -> Places] /\ task' \in [Threads -> Tasks]
    BY <1>a, <1>b, <1>p, <1>2 DEF Comes
  <2>4. MediatorTyped'
    BY <1>a, <1>2, <2>1, <2>2, <2>3 DEF Comes, MediatorTyped
  <2>5. place'["ui"] = place["ui"]
    BY <1>a, <1>b, <1>2 DEF Comes
  <2>6. MediatorPrograms'
    BY <1>0, <1>2, <2>5, OtherPlace DEF Comes
  <2>7. ClosedWithout'
    BY <1>c, <1>2 DEF Comes
  <2> QED
    BY <2>4, <2>6, <2>7 DEF MediatorInv
<1>3. CASE Takes
  <2>1. Head(bus_queue) \in Tasks /\ Tail(bus_queue) \in Seq(Tasks)
    BY <1>a, <1>3, HeadTailProperties DEF Takes
  <2>2. place' \in [Threads -> Places] /\ task' \in [Threads -> Tasks]
    BY <1>b, <1>p, <1>t, <1>u, <1>3, <2>1 DEF Takes
  <2>3. MediatorTyped'
    BY <1>a, <1>3, <2>1, <2>2 DEF Takes, MediatorTyped
  <2>4. place'["ui"] = place["ui"]
    BY <1>a, <1>b, <1>3 DEF Takes
  <2>5. MediatorPrograms'
    BY <1>0, <1>3, <2>4, OtherPlace DEF Takes
  <2>6. ClosedWithout'
    BY <1>c, <1>3 DEF Takes
  <2> QED
    BY <2>3, <2>5, <2>6 DEF MediatorInv
<1>4. CASE Acts
  <2>1. PICK p \in {"asks", "leaves", "stopping"}, k \in Tasks :
          /\ place' = [place EXCEPT !["ui"] = p] /\ task' = [task EXCEPT !["ui"] = k]
          /\ p = "leaves" => handle \notin alive
    BY <1>b, <1>4 DEF Acts, AutoLaunch, PressLaunch, PollStatus, PressStop
  <2>2. place' \in [Threads -> Places] /\ task' \in [Threads -> Tasks]
    BY <1>b, <1>p, <1>t, <1>u, <2>1
  <2>3. MediatorTyped'
    BY <1>a, <1>4, <2>2 DEF Acts, MediatorTyped
  <2>4. place["ui"] = "idle" /\ place'["ui"] = p
    BY <1>a, <1>b, <1>4, <2>1 DEF Acts
  <2>5. UNCHANGED <<alive, handle, running, polling, hung, survived>>
    BY <1>4 DEF Acts
  <2>6. MediatorPrograms'
    BY <1>0, <2>1, <2>4, <2>5 DEF MediatorPrograms, Unnoticed
  <2>7. ClosedWithout'
    BY <1>c, <1>4 DEF Acts
  <2> QED
    BY <2>3, <2>6, <2>7 DEF MediatorInv
<1>5. ASSUME NEW t \in Threads, IsRunning(t) PROVE MediatorInv'
  <2>1. CASE Unnoticed
    <3>1. /\ hung' = t
          /\ UNCHANGED <<place, task, alive, handle, running, token, vault_locked, polling, survived,
                         straggled>>
      BY <1>5, <2>1 DEF IsRunning
    <3>2. MediatorTyped'
      BY <1>a, <1>5, <3>1 DEF IsRunning, MediatorTyped
    <3>3. MediatorPrograms'
      BY <1>0, <2>1, <3>1 DEF MediatorPrograms, Unnoticed
    <3>4. ClosedWithout'
      BY <1>c, <3>1
    <3> QED
      BY <3>2, <3>3, <3>4 DEF MediatorInv
  <2>2. CASE ~Unnoticed
    <3>1. /\ After(t, handle \in alive)
          /\ UNCHANGED <<hung, alive, handle, running, token, vault_locked, polling, survived, straggled>>
      BY <1>5, <2>2 DEF IsRunning
    <3>2. PICK p \in {"idle", "asks", "launching", "changes"}, k \in {task[t], "launch"} :
            /\ place' = [place EXCEPT ![t] = p] /\ task' = [task EXCEPT ![t] = k]
            /\ p = "launching" => handle \notin alive
      <4>1. task[t] \in Tasks /\ task = [task EXCEPT ![t] = task[t]]
        BY <1>a
      <4> QED
        BY <3>1, <4>1 DEF After
    <3>3. place' \in [Threads -> Places] /\ task' \in [Threads -> Tasks]
      BY <1>a, <1>b, <1>p, <1>t, <1>u, <3>2
    <3>4. MediatorTyped'
      BY <1>a, <1>5, <3>1, <3>3 DEF IsRunning, MediatorTyped
    <3>5. MediatorPrograms'
      <4>1. CASE t = "ui"
        <5>1. place["ui"] = "asks" /\ place'["ui"] = p
          BY <1>a, <1>b, <1>5, <3>2, <4>1 DEF IsRunning
        <5> QED
          BY <1>0, <3>1, <3>2, <5>1 DEF MediatorPrograms, Unnoticed
      <4>2. CASE t # "ui"
        <5>1. place'["ui"] = place["ui"]
          BY <1>a, <1>b, <3>2, <4>2
        <5> QED
          BY <1>0, <3>1, <5>1, OtherPlace
      <4> QED
        BY <4>1, <4>2
    <3>6. ClosedWithout'
      BY <1>c, <3>1
    <3> QED
      BY <3>4, <3>5, <3>6 DEF MediatorInv
  <2> QED
    BY <2>1, <2>2
<1>6. CASE LaunchFails
  <2>1. place' \in [Threads -> Places] /\ bus_queue' \in Seq(Tasks)
    BY <1>b, <1>p, <1>t, <1>q, <1>6 DEF LaunchFails
  <2>2. MediatorTyped'
    BY <1>a, <1>6, <2>1 DEF LaunchFails, MediatorTyped
  <2>3. place["ui"] = "launching" /\ place'["ui"] = "idle"
    BY <1>a, <1>b, <1>6 DEF LaunchFails
  <2>4. MediatorPrograms'
    BY <1>0, <1>6, <2>3, OtherPlace DEF LaunchFails, Held
  <2>5. ClosedWithout'
    BY <1>c, <1>6 DEF LaunchFails
  <2> QED
    BY <2>2, <2>4, <2>5 DEF MediatorInv
<1>7. CASE LaunchMediator
  <2>1. handle + 1 \in 1..MaxLaunches /\ handle + 1 # handle
    BY <1>a, <1>7, MediatorAssumption DEF LaunchMediator
  <2>2. place' \in [Threads -> Places]
    BY <1>b, <1>p, <1>t, <1>7 DEF LaunchMediator
  <2>3. MediatorTyped'
    BY <1>a, <1>7, <2>1, <2>2 DEF LaunchMediator, MediatorTyped
  <2>4. place["ui"] = "launching" /\ place'["ui"] = "records"
    BY <1>a, <1>b, <1>7 DEF LaunchMediator
  <2>5. /\ alive' = {handle + 1} /\ handle < MaxLaunches
        /\ UNCHANGED <<handle, running, polling, hung, survived>>
    BY <1>0, <1>7, <2>4 DEF LaunchMediator, MediatorPrograms
  <2>6. MediatorPrograms'
    BY <1>0, <2>1, <2>4, <2>5 DEF MediatorPrograms, Unnoticed
  <2>7. ClosedWithout'
    BY <1>c, <1>7 DEF LaunchMediator
  <2> QED
    BY <2>3, <2>6, <2>7 DEF MediatorInv
<1>8. CASE Records
  <2>1. place["ui"] = "records" /\ place'["ui"] = "tells"
    BY <1>a, <1>b, <1>8 DEF Records
  <2>2. handle < MaxLaunches /\ alive \subseteq {handle + 1}
    BY <1>0, <2>1 DEF MediatorPrograms
  <2>3. handle' \in 0..MaxLaunches
    BY <1>a, <1>8, <2>2, MediatorAssumption DEF Records
  <2>4. place' \in [Threads -> Places] /\ bus_queue' \in Seq(Tasks)
    BY <1>b, <1>p, <1>t, <1>q, <1>8 DEF Records
  <2>5. MediatorTyped'
    BY <1>a, <1>8, <2>3, <2>4 DEF Records, MediatorTyped
  <2>6. MediatorPrograms'
    BY <1>8, <2>1, <2>2 DEF Records, MediatorPrograms
  <2>7. ClosedWithout'
    BY <1>8 DEF Records, ClosedWithout
  <2> QED
    BY <2>5, <2>6, <2>7 DEF MediatorInv
<1>9. CASE TerminateMediator
  <2>1. place["ui"] = "stopping" /\ place'["ui"] = "leaves"
    BY <1>a, <1>b, <1>9 DEF TerminateMediator
  <2>2. /\ UNCHANGED <<handle, running, polling, hung>> /\ alive' \subseteq alive
        /\ alive' = {} \/ survived'
        /\ survived => survived'
    BY <1>0, <1>9, <2>1 DEF TerminateMediator, MediatorPrograms
  <2>3. place' \in [Threads -> Places] /\ survived' \in BOOLEAN
    BY <1>a, <1>b, <1>p, <1>t, <1>9 DEF TerminateMediator
  <2>4. MediatorTyped'
    BY <1>a, <1>9, <2>2, <2>3 DEF TerminateMediator, MediatorTyped
  <2>5. MediatorPrograms'
    BY <1>0, <2>1, <2>2 DEF MediatorPrograms, Unnoticed
  <2>6. ClosedWithout'
    BY <1>c, <1>9 DEF TerminateMediator
  <2> QED
    BY <2>4, <2>5, <2>6 DEF MediatorInv
<1>10. CASE HandleProcessExit
  <2>1. place["ui"] = "leaves" /\ place'["ui"] = "tells"
    BY <1>a, <1>b, <1>10 DEF HandleProcessExit
  <2>2. place' \in [Threads -> Places] /\ bus_queue' \in Seq(Tasks)
    BY <1>b, <1>p, <1>t, <1>q, <1>10 DEF HandleProcessExit
  <2>3. MediatorTyped'
    BY <1>a, <1>10, <2>2 DEF HandleProcessExit, Reset, MediatorTyped
  <2>4. MediatorPrograms'
    BY <1>0, <1>10, <2>1 DEF HandleProcessExit, Reset, MediatorPrograms
  <2>5. ClosedWithout'
    BY <1>10 DEF HandleProcessExit, Reset, ClosedWithout
  <2> QED
    BY <2>3, <2>4, <2>5 DEF MediatorInv
<1>11. ASSUME NEW t \in Threads, Changes(t) PROVE MediatorInv'
  <2>1. PICK p \in {"tells", "seals", "idle"} : place' = [place EXCEPT ![t] = p]
    BY <1>11 DEF Changes
  <2>2. place' \in [Threads -> Places] /\ bus_queue' \in Seq(Tasks)
    BY <1>a, <1>b, <1>p, <1>t, <1>q, <1>11, <2>1 DEF Changes
  <2>3. token' \in BOOLEAN /\ vault_locked' \in BOOLEAN /\ straggled' \in BOOLEAN
    BY <1>11 DEF Changes
  <2>4. MediatorTyped'
    BY <1>a, <1>11, <2>2, <2>3 DEF Changes, MediatorTyped
  <2>5. place'["ui"] = place["ui"] \/ (place["ui"] # "records" /\ place'["ui"] \notin Held)
    BY <1>a, <1>b, <1>11, <2>1 DEF Changes, Held
  <2>6. MediatorPrograms'
    BY <1>0, <1>11, <2>5, OtherPlace DEF Changes
  <2>7. ClosedWithout'
    BY <1>0, <1>a, <1>11 DEF Changes, ClosedWithout
  <2> QED
    BY <2>4, <2>6, <2>7 DEF MediatorInv
<1>12. ASSUME NEW t \in Threads, Seals(t) PROVE MediatorInv'
  <2>1. PICK p \in {"tells", "idle"} : place' = [place EXCEPT ![t] = p]
    BY <1>12 DEF Seals
  <2>2. place' \in [Threads -> Places] /\ task' \in [Threads -> Tasks] /\ bus_queue' \in Seq(Tasks)
    BY <1>a, <1>b, <1>p, <1>t, <1>u, <1>q, <1>12, <2>1 DEF Seals
  <2>3. MediatorTyped'
    BY <1>a, <1>12, <2>2 DEF Seals, MediatorTyped
  <2>4. place'["ui"] = place["ui"] \/ (place["ui"] # "records" /\ place'["ui"] \notin Held)
    BY <1>a, <1>b, <1>12, <2>1 DEF Seals, Held
  <2>5. MediatorPrograms'
    BY <1>0, <1>12, <2>4, OtherPlace DEF Seals
  <2>6. ClosedWithout'
    BY <1>c, <1>12 DEF Seals
  <2> QED
    BY <2>3, <2>5, <2>6 DEF MediatorInv
<1>13. ASSUME NEW t \in Threads, Tells(t) PROVE MediatorInv'
  <2>1. PICK p \in {"shows", "seals", "idle"} : place' = [place EXCEPT ![t] = p]
    BY <1>13 DEF Tells
  <2>2. Append(posted, running) \in Seq(BOOLEAN)
    BY <1>a, AppendProperties
  <2>3. posted' \in Seq(BOOLEAN) /\ shown' \in BOOLEAN /\ got' \in BOOLEAN
    BY <1>a, <1>13, <2>2 DEF Tells
  <2>4. place' \in [Threads -> Places]
    BY <1>p, <1>t, <2>1
  <2>5. MediatorTyped'
    BY <1>a, <1>13, <2>3, <2>4 DEF Tells, MediatorTyped
  <2>6. place'["ui"] = place["ui"] \/ (place["ui"] # "records" /\ place'["ui"] \notin Held)
    BY <1>a, <1>b, <1>13, <2>1 DEF Tells, Held
  <2>7. MediatorPrograms'
    BY <1>0, <1>13, <2>6, OtherPlace DEF Tells
  <2>8. ClosedWithout'
    BY <1>c, <1>13 DEF Tells
  <2> QED
    BY <2>5, <2>7, <2>8 DEF MediatorInv
<1>14. CASE Shows \/ StatusDelivered \/ RefreshStatus
  <2>1. posted' \in Seq(BOOLEAN) /\ shown' \in BOOLEAN
    <3>1. ASSUME StatusDelivered PROVE posted' \in Seq(BOOLEAN) /\ shown' \in BOOLEAN
      BY <1>a, <3>1, HeadTailProperties DEF StatusDelivered
    <3>2. ASSUME Shows \/ RefreshStatus PROVE posted' \in Seq(BOOLEAN) /\ shown' \in BOOLEAN
      BY <1>a, <3>2 DEF Shows, RefreshStatus
    <3> QED
      BY <1>14, <3>1, <3>2
  <2>2. place' \in [Threads -> Places] /\ place'["ui"] = place["ui"]
    BY <1>a, <1>b, <1>p, <1>14 DEF Shows, StatusDelivered, RefreshStatus
  <2>3. UNCHANGED <<alive, handle, beliefs, hung, task, bus_queue, got, ghosts, came>>
    BY <1>14 DEF Shows, StatusDelivered, RefreshStatus
  <2>4. MediatorTyped'
    BY <1>a, <2>1, <2>2, <2>3 DEF MediatorTyped
  <2>5. MediatorPrograms'
    BY <1>0, <2>2, <2>3, OtherPlace
  <2>6. ClosedWithout'
    BY <1>c, <2>3
  <2> QED
    BY <2>4, <2>5, <2>6 DEF MediatorInv
<1>15. CASE UNCHANGED mediatorVars
  BY <1>0, <1>15 DEF mediatorVars, MediatorInv, MediatorTyped, MediatorPrograms, Unnoticed, ClosedWithout
<1> QED
  BY <1>1, <1>2, <1>3, <1>4, <1>5, <1>6, <1>7, <1>8, <1>9, <1>10, <1>11, <1>12, <1>13, <1>14, <1>15
     DEF MediatorNext, MediatorStep

\* The invariant is what the run checks, and more.
LEMMA MediatorInvSound == MediatorInv => MediatorSound
<1> SUFFICES ASSUME MediatorInv PROVE MediatorSound
  OBVIOUS
<1>1. MediatorTyped /\ MediatorPrograms /\ ClosedWithout
  BY DEF MediatorInv
<1>2. MediatorTypeOK
  BY <1>1 DEF MediatorTyped, MediatorTypeOK
<1>3. Cardinality(alive) <= 1
  <2>1. PICK p \in {handle, handle + 1} : alive \subseteq {p}
    BY <1>1 DEF MediatorPrograms
  <2>2. alive = {} \/ alive = {p}
    BY <2>1
  <2>3. Cardinality({}) = 0 /\ Cardinality({p}) = 1
    BY FS_EmptySet, FS_Singleton
  <2> QED
    BY <2>2, <2>3
<1>4. OneMediator
  BY <1>1, <1>3 DEF OneMediator, MediatorPrograms
<1>5. ExitsAreSeen
  BY <1>1 DEF ExitsAreSeen, MediatorPrograms
<1> QED
  BY <1>1, <1>2, <1>4, <1>5 DEF MediatorSound

\* However buttons, timers, events of the bus and interrupts come between the steps of each other:
\* there is never a second mediator; a token or an open vault without one is a change that was
\* checked before the exit and made after it; and an exit stays unnoticed only where a thread hangs
\* on it (qvault_adapter.py, qvault_runtime_bridge.py).
THEOREM MediatorAlwaysSound == MediatorSpec => []MediatorSound
<1> QED
  BY MediatorBegin, MediatorKeeps, MediatorInvSound, PTL DEF MediatorSpec

-----------------------------------------------------------------------------
(* The notepads *)

\* What is promised, with the types of the history and of what a title shows.
EditorsInv ==
  /\ EditorsSound /\ edits \in 0..MaxEdits
  /\ writer \in [Texts -> Notepads \cup {"host"}] /\ opening \in [Notepads -> Texts \cup {None}]
  /\ title \in [Notepads -> (Texts \cup {None}) \X BOOLEAN]

\* There is no notepad yet.
LEMMA EditorsBegin == EditorsInit => EditorsInv
<1> SUFFICES ASSUME EditorsInit PROVE EditorsInv
  OBVIOUS
<1>1. {Missing, Garbled, 0} \subseteq -2..MaxEdits /\ 0 \in -2..MaxEdits /\ 0 \in 0..MaxEdits
  BY EditorsAssumption DEF Missing, Garbled
<1>2. EditorsTypeOK
  BY <1>1 DEF EditorsInit, EditorsTypeOK
<1>3. CleanIsSaved /\ TitleTells
  BY DEF EditorsInit, CleanIsSaved, TitleTells
<1> QED
  BY <1>1, <1>2, <1>3 DEF EditorsInit, EditorsInv, EditorsSound

\* Every step keeps the invariant, whatever files the notepads share.
LEMMA EditorsStep == EditorsInv /\ [EditorsNext]_editorVars => EditorsInv'
<1> SUFFICES ASSUME EditorsInv, [EditorsNext]_editorVars PROVE EditorsInv'
  OBVIOUS
<1> USE DEF Set, Titled
<1>0. /\ content \in [Texts -> -2..MaxEdits] /\ text \in [Notepads -> -2..MaxEdits]
      /\ current_file \in [Notepads -> Texts \cup {None}] /\ dirty \in [Notepads -> BOOLEAN]
      /\ open \subseteq Notepads /\ misnamed \subseteq Notepads /\ edits \in 0..MaxEdits
      /\ writer \in [Texts -> Notepads \cup {"host"}] /\ opening \in [Notepads -> Texts \cup {None}]
      /\ title \in [Notepads -> (Texts \cup {None}) \X BOOLEAN]
      /\ CleanIsSaved /\ TitleTells
  BY DEF EditorsInv, EditorsSound, EditorsTypeOK
<1>1. "host" \notin Notepads /\ None \notin Texts /\ 0 \in -2..MaxEdits /\ 0 \in Int /\ MaxEdits \in Nat
  BY EditorsAssumption DEF None
<1>2. ASSUME NEW e \in Notepads, Start(e) PROVE EditorsInv'
  <2>1. EditorsTypeOK' /\ writer' = writer /\ edits' = edits /\ opening' \in [Notepads -> Texts \cup {None}]
    BY <1>0, <1>1, <1>2 DEF Start, EditorsTypeOK
  <2>2. title' \in [Notepads -> (Texts \cup {None}) \X BOOLEAN]
    BY <1>0, <1>2 DEF Start
  <2>3. CleanIsSaved'
    BY <1>0, <1>1, <1>2 DEF Start, CleanIsSaved
  <2>4. TitleTells'
    BY <1>0, <1>2 DEF Start, TitleTells
  <2> QED
    BY <1>0, <2>1, <2>2, <2>3, <2>4 DEF EditorsInv, EditorsSound
<1>3. ASSUME NEW e \in Notepads, Edit(e) PROVE EditorsInv'
  <2>1. edits + 1 \in -2..MaxEdits /\ edits' \in 0..MaxEdits
    BY <1>0, <1>1, <1>3 DEF Edit
  <2>2. EditorsTypeOK' /\ writer' = writer /\ opening' = opening
    BY <1>0, <1>3, <2>1 DEF Edit, EditorsTypeOK
  <2>6. <<current_file[e], TRUE>> \in (Texts \cup {None}) \X BOOLEAN
    BY <1>0
  <2>7. title' = IF dirty[e] THEN title ELSE [title EXCEPT ![e] = <<current_file[e], TRUE>>]
    BY <1>3 DEF Edit
  <2>3. title' \in [Notepads -> (Texts \cup {None}) \X BOOLEAN]
    BY <1>0, <2>6, <2>7
  <2>4. CleanIsSaved'
    BY <1>0, <1>3 DEF Edit, CleanIsSaved
  <2>5. TitleTells'
    <3>1. /\ \A d \in Notepads : dirty'[d] = IF d = e THEN TRUE ELSE dirty[d]
          /\ UNCHANGED <<open, current_file, misnamed>>
      BY <1>0, <1>3 DEF Edit
    <3>2. \A d \in open : title[d][2] = dirty[d] /\ (title[d][1] # current_file[d] => d \in misnamed)
      BY <1>0 DEF TitleTells
    <3>3. CASE dirty[e]
      <4>1. \A d \in open : dirty'[d] = dirty[d]
        <5>1. dirty[e] = TRUE
          BY <1>0, <3>3
        <5> QED
          BY <1>0, <3>1, <5>1
      <4> QED
        BY <2>7, <3>1, <3>2, <3>3, <4>1 DEF TitleTells
    <3>4. CASE ~ dirty[e]
      <4>1. \A d \in Notepads : title'[d] = IF d = e THEN <<current_file[e], TRUE>> ELSE title[d]
        BY <1>0, <2>7, <3>4
      <4>2. ASSUME NEW d \in open
            PROVE  title'[d][2] = dirty'[d] /\ (title'[d][1] # current_file[d] => d \in misnamed)
        <5>1. d \in Notepads
          BY <1>0
        <5>2. CASE d = e
          <6>1. title'[d] = <<current_file[e], TRUE>> /\ dirty'[d] = TRUE
            BY <3>1, <4>1, <5>1, <5>2
          <6>2. title'[d][2] = TRUE /\ title'[d][1] = current_file[d]
            BY <5>2, <6>1
          <6>3. dirty'[d] = TRUE
            BY <6>1, Zenon
          <6>4. title'[d][2] = dirty'[d]
            BY <6>2, <6>3, Zenon
          <6> QED
            BY <6>2, <6>4
        <5>3. CASE d # e
          <6>1. title'[d] = title[d]
            BY <4>1, <5>1, <5>3
          <6>2. dirty'[d] = dirty[d]
            BY <3>1, <5>1, <5>3
          <6>3. title[d][2] = dirty[d] /\ (title[d][1] # current_file[d] => d \in misnamed)
            BY <3>2
          <6> QED
            BY <3>1, <6>1, <6>2, <6>3
        <5> QED
          BY <5>2, <5>3
      <4> QED
        BY <3>1, <4>2 DEF TitleTells
    <3> QED
      BY <3>3, <3>4
  <2> QED
    BY <1>0, <2>1, <2>2, <2>3, <2>4, <2>5 DEF EditorsInv, EditorsSound
<1>4. ASSUME NEW e \in Notepads, NEW f \in Texts, Read(e, f), opening' \in [Notepads -> Texts \cup {None}],
             UNCHANGED <<content, writer, open, edits>>
      PROVE  EditorsInv'
  <2>1. CASE UNCHANGED <<text, current_file, dirty, title, misnamed>>
    BY <1>0, <1>4, <2>1 DEF EditorsInv, EditorsSound, EditorsTypeOK, CleanIsSaved, TitleTells
  <2>2. CASE /\ text' = [text EXCEPT ![e] = content[f]] /\ current_file' = [current_file EXCEPT ![e] = f]
             /\ dirty' = [dirty EXCEPT ![e] = FALSE] /\ title' = [title EXCEPT ![e] = <<f, FALSE>>]
             /\ misnamed' = misnamed \ {e}
    <3>1. EditorsTypeOK'
      BY <1>0, <1>4, <2>2 DEF EditorsTypeOK
    <3>2. title' \in [Notepads -> (Texts \cup {None}) \X BOOLEAN]
      BY <1>0, <2>2
    <3>3. CleanIsSaved'
      BY <1>0, <1>4, <2>2 DEF CleanIsSaved
    <3>4. TitleTells'
      BY <1>0, <1>4, <2>2 DEF TitleTells
    <3> QED
      BY <1>0, <1>4, <3>1, <3>2, <3>3, <3>4 DEF EditorsInv, EditorsSound
  <2> QED
    BY <1>4, <2>1, <2>2 DEF Read
<1>5. ASSUME NEW e \in Notepads, NEW f \in Texts, current_file' = [current_file EXCEPT ![e] = f],
             UNCHANGED <<text, open, opening, edits>>, Written(e, f)
      PROVE  EditorsInv'
  <2>1. EditorsTypeOK'
    BY <1>0, <1>5 DEF Written, EditorsTypeOK
  <2>2. title' \in [Notepads -> (Texts \cup {None}) \X BOOLEAN] /\ writer' \in [Texts -> Notepads \cup {"host"}]
    BY <1>0, <1>5 DEF Written
  <2>3. CleanIsSaved'
    BY <1>0, <1>5 DEF Written, CleanIsSaved
  <2>4. TitleTells'
    BY <1>0, <1>5 DEF Written, TitleTells
  <2> QED
    BY <1>0, <1>5, <2>1, <2>2, <2>3, <2>4 DEF EditorsInv, EditorsSound
<1>6. ASSUME NEW e \in Notepads, NEW f \in Texts, current_file' = [current_file EXCEPT ![e] = f],
             UNCHANGED <<text, open, opening, edits>>, Fails(e, f)
      PROVE  EditorsInv'
  <2>1. EditorsTypeOK'
    BY <1>0, <1>1, <1>6 DEF Fails, EditorsTypeOK
  <2>2. title' = title /\ writer' \in [Texts -> Notepads \cup {"host"}]
    BY <1>0, <1>6 DEF Fails
  <2>3. CleanIsSaved'
    BY <1>0, <1>1, <1>6 DEF Fails, CleanIsSaved
  <2>4. TitleTells'
    BY <1>0, <1>6 DEF Fails, TitleTells
  <2> QED
    BY <1>0, <1>6, <2>1, <2>2, <2>3, <2>4 DEF EditorsInv, EditorsSound
<1>7. ASSUME NEW e \in Notepads, Emptied(e), open' \subseteq open, opening' \in [Notepads -> Texts \cup {None}],
             edits' = edits,
             \/ UNCHANGED <<content, writer>>
             \/ \E f \in Texts :
                  \/ content' = [content EXCEPT ![f] = text[e]] /\ writer' = [writer EXCEPT ![f] = e]
                  \/ content' = [content EXCEPT ![f] = 0] /\ writer' = [writer EXCEPT ![f] = "host"]
      PROVE  EditorsInv'
  <2>1. EditorsTypeOK'
    BY <1>0, <1>1, <1>7 DEF Emptied, EditorsTypeOK
  <2>2. title' \in [Notepads -> (Texts \cup {None}) \X BOOLEAN] /\ writer' \in [Texts -> Notepads \cup {"host"}]
    BY <1>0, <1>7 DEF Emptied
  <2>3. CleanIsSaved'
    BY <1>0, <1>1, <1>7 DEF Emptied, CleanIsSaved
  <2>4. TitleTells'
    BY <1>0, <1>7 DEF Emptied, TitleTells
  <2> QED
    BY <1>0, <1>7, <2>1, <2>2, <2>3, <2>4 DEF EditorsInv, EditorsSound
<1>8. ASSUME NEW e \in Notepads PROVE Targets(e) \subseteq Texts
  BY <1>0, <1>8 DEF Targets
<1>9. CASE \E e \in Notepads : e \in open /\ (OpenFile(e) \/ OpenGiven(e))
  <2>1. ASSUME NEW e \in Notepads, OpenFile(e) PROVE EditorsInv'
    BY <1>0, <1>4, <2>1 DEF OpenFile
  <2>2. ASSUME NEW e \in Notepads, OpenGiven(e) PROVE EditorsInv'
    <3>1. opening[e] \in Texts /\ opening' \in [Notepads -> Texts \cup {None}]
      BY <1>0, <2>2 DEF OpenGiven
    <3> QED
      BY <1>4, <2>2, <3>1 DEF OpenGiven
  <2> QED
    BY <1>9, <2>1, <2>2
<1>10. CASE \E e \in Notepads : SaveFile(e) \/ SaveFileAs(e)
  BY <1>5, <1>6, <1>8, <1>10 DEF SaveFile, SaveFileAs
<1>11. CASE \E e \in Notepads : NewFile(e) \/ Close(e)
  <2>1. ASSUME NEW e \in Notepads, NewFile(e) PROVE EditorsInv'
    BY <1>0, <1>7, <1>8, <2>1 DEF NewFile
  <2>2. ASSUME NEW e \in Notepads, Close(e) PROVE EditorsInv'
    <3>1. opening' \in [Notepads -> Texts \cup {None}] /\ open' \subseteq open
      BY <1>0, <2>2 DEF Close
    <3> QED
      BY <1>7, <2>2, <3>1 DEF Close
  <2> QED
    BY <1>11, <2>1, <2>2
<1>12. CASE UNCHANGED editorVars
  BY <1>12 DEF editorVars, EditorsInv, EditorsSound, EditorsTypeOK, CleanIsSaved, TitleTells
<1> QED
  BY <1>2, <1>3, <1>9, <1>10, <1>11, <1>12 DEF EditorsNext

\* A notepad without the mark of unsaved text shows what its file holds, unless somebody else wrote
\* it since, and its title tells the file and the mark, whatever notepads edit, open and save
\* beside each other and however a save fails (notepad_app.py).
THEOREM EditorsAlwaysSound == EditorsSpec => []EditorsSound
<1>1. EditorsInv => EditorsSound
  BY DEF EditorsInv
<1> QED
  BY <1>1, EditorsBegin, EditorsStep, PTL DEF EditorsSpec

-----------------------------------------------------------------------------
(* The gateway and the launches *)

\* How many entries of a sequence are in a set, and the set of the times from s on.
Hits(w, S) == Cardinality({i \in DOMAIN w : w[i] \in S})
AtLeast(s) == {k \in Nat : k >= s}

\* Of a sequence the entries in a set are finitely many, and no more than the sequence is long.
LEMMA HitsType ==
  ASSUME NEW w \in Seq(Nat), NEW S
  PROVE  IsFiniteSet({i \in DOMAIN w : w[i] \in S}) /\ Hits(w, S) \in Nat /\ Hits(w, S) <= Len(w)
<1>1. DOMAIN w = 1..Len(w) /\ Len(w) \in Nat
  OBVIOUS
<1>2. IsFiniteSet(1..Len(w)) /\ Cardinality(1..Len(w)) = Len(w)
  <2>1. \A n \in Nat : IsFiniteSet(1..n) /\ Cardinality(1..n) = n
    BY FS_Interval
  <2> QED
    BY <1>1, <2>1
<1>3. {i \in DOMAIN w : w[i] \in S} \in SUBSET (1..Len(w))
  BY <1>1
<1> QED
  BY <1>2, <1>3, FS_Subset, FS_CardinalityType DEF Hits

\* A larger set has no fewer.
LEMMA HitsMonotone ==
  ASSUME NEW w \in Seq(Nat), NEW S, NEW T, S \subseteq T
  PROVE  Hits(w, S) <= Hits(w, T)
<1>1. {i \in DOMAIN w : w[i] \in S} \in SUBSET {i \in DOMAIN w : w[i] \in T}
  OBVIOUS
<1> QED
  BY <1>1, HitsType, FS_Subset DEF Hits

\* A new entry counts if it is in the set.
LEMMA HitsAppend ==
  ASSUME NEW w \in Seq(Nat), NEW x \in Nat, NEW S
  PROVE  Hits(Append(w, x), S) = Hits(w, S) + (IF x \in S THEN 1 ELSE 0)
<1> DEFINE n == Len(w)
<1> DEFINE H == {i \in DOMAIN w : w[i] \in S}
<1> DEFINE G == {i \in DOMAIN Append(w, x) : Append(w, x)[i] \in S}
<1>1. /\ n \in Nat /\ DOMAIN w = 1..n /\ DOMAIN Append(w, x) = 1..(n + 1)
      /\ \A i \in 1..n : Append(w, x)[i] = w[i]
      /\ Append(w, x)[n + 1] = x
  BY AppendProperties
<1>2. IsFiniteSet(H) /\ Cardinality(H) \in Nat
  BY HitsType, FS_CardinalityType
<1>3. n + 1 \notin H
  BY <1>1
<1>4. CASE x \in S
  <2>1. G = H \cup {n + 1}
    <3>1. ASSUME NEW i \in G PROVE i \in H \cup {n + 1}
      BY <1>1, <3>1
    <3>2. ASSUME NEW i \in H \cup {n + 1} PROVE i \in G
      BY <1>1, <1>4, <3>2
    <3> QED
      BY <3>1, <3>2
  <2>2. Cardinality(G) = Cardinality(H) + 1
    BY <1>2, <1>3, <2>1, FS_AddElement
  <2> QED
    BY <1>4, <2>2 DEF Hits
<1>5. CASE x \notin S
  <2>1. G = H
    <3>1. ASSUME NEW i \in G PROVE i \in H
      BY <1>1, <1>5, <3>1
    <3>2. ASSUME NEW i \in H PROVE i \in G
      BY <1>1, <3>2
    <3> QED
      BY <3>1, <3>2
  <2> HIDE DEF G, H
  <2>2. Cardinality(G) = Cardinality(H) + 0
    BY <1>2, <2>1
  <2> USE DEF G, H
  <2> QED
    BY <1>5, <2>2 DEF Hits
<1> QED
  BY <1>4, <1>5

\* What leaves the front of a sequence takes no entry of a set it is not in.
LEMMA TailKeeps ==
  ASSUME NEW w \in Seq(Nat), w # << >>, NEW S, Head(w) \notin S
  PROVE  Tail(w) \in Seq(Nat) /\ Len(Tail(w)) = Len(w) - 1 /\ Hits(w, S) <= Hits(Tail(w), S)
<1> DEFINE n == Len(w)
           r == Tail(w)
           H == {i \in DOMAIN w : w[i] \in S}
           G == {i \in DOMAIN r : r[i] \in S}
           f == [i \in H |-> i - 1]
<1>1. n \in Nat /\ n # 0 /\ DOMAIN w = 1..n /\ Head(w) = w[1]
  BY EmptySeq, LenProperties
<1>2. r \in Seq(Nat) /\ Len(r) = n - 1 /\ \A i \in 1..(n - 1) : r[i] = w[i + 1]
  BY HeadTailProperties
<1>3. DOMAIN r = 1..(n - 1)
  BY <1>2
<1>4. f \in [H -> G]
  <2>1. ASSUME NEW i \in H PROVE i - 1 \in G
    <3>1. i \in 1..n /\ w[i] \in S /\ i # 1
      BY <1>1
    <3>2. i - 1 \in 1..(n - 1) /\ (i - 1) + 1 = i
      BY <1>1, <3>1
    <3>3. r[i - 1] = w[i]
      BY <1>2, <3>2
    <3> QED
      BY <1>3, <3>1, <3>2, <3>3
  <2> QED
    BY <2>1
<1>5. f \in Injection(H, G)
  <2>1. ASSUME NEW a \in H, NEW b \in H, f[a] = f[b] PROVE a = b
    BY <1>1, <2>1
  <2> QED
    BY <1>4, <2>1 DEF Injection, IsInjective
<1>6. Cardinality(H) <= Cardinality(G)
  <2>1. IsFiniteSet(G)
    BY <1>2, HitsType
  <2> HIDE DEF H, G, f
  <2> QED
    BY <1>5, <2>1, FS_Injection
<1> QED
  BY <1>2, <1>6 DEF Hits

\* The state of the limiters.  No window is longer than the number of calls that are not about to
\* be put into it.
Place == {"outside", "looks", "compares", "pops", "counts", "appends", "judged"}
Locals == [at : Place, now : Nat, count : Nat]
Pending(t, g) == IF call_at[t] = g /\ limiter[t].at # "judged" THEN 1 ELSE 0
RatesTyped ==
  /\ second \in Nat /\ calls \in Nat
  /\ window \in [Limited -> Seq(Nat)] /\ admitted \in [Limited -> Seq(Nat)]
  /\ call_at \in [App -> Guard \cup {"idle", "cleared"}]
  /\ limiter \in [App -> Locals]
  /\ \A t \in App : call_at[t] \notin Limited => limiter[t] = Outside
  /\ studied \in Limited => calls <= MaxCalls
  /\ studied \notin Limited => window = [g \in Limited |-> << >>]
  /\ \A g \in Limited : Len(window[g]) + Pending("ui", g) + Pending("own", g) <= calls

\* What makes the rate of a guard hold that two threads were never in at a time: of the calls
\* that are a second old at most its window has as many as were admitted, where the age is that
\* for the thread that is in the limiter, and its own call, once it is in the window, is still
\* to come; and what that thread has read still is so.
Inside(t, g) == call_at[t] = g /\ limiter[t].at # "outside"
Own(t, s) == IF limiter[t].at = "judged" /\ limiter[t].now \in AtLeast(s) THEN 1 ELSE 0
Mine(t, g) ==
  /\ limiter[t].now <= second
  /\ \A s \in Nat : s + 1 >= limiter[t].now =>
       Hits(admitted[g], AtLeast(s)) + Own(t, s) <= Hits(window[g], AtLeast(s))
  /\ limiter[t].at = "pops" => window[g] # << >> /\ limiter[t].now > Head(window[g]) + 1
  /\ limiter[t].at = "appends" => Len(window[g]) = limiter[t].count
  /\ limiter[t].at = "judged" => Len(window[g]) = limiter[t].count + 1
Settled(g) ==
  \A s \in Nat : s + 1 >= second => Hits(admitted[g], AtLeast(s)) <= Hits(window[g], AtLeast(s))
Within(g) == \A s \in Nat : Hits(admitted[g], s..(s + 1)) <= Limit + Soft
Fair(g) ==
  /\ \A t, u \in App : Inside(t, g) /\ Inside(u, g) => t = u
  /\ \A t \in App : Inside(t, g) => Mine(t, g)
  /\ (\A t \in App : ~Inside(t, g)) => Settled(g)
  /\ Within(g)
RatesOK == RatesTyped /\ \A g \in Limited \ crossed : Fair(g)

\* A guard whose window and whose threads do not move.
LEMMA QuietGuard ==
  ASSUME RatesTyped, NEW h \in Limited, Fair(h), second' \in Nat, second' >= second,
         window'[h] = window[h], admitted'[h] = admitted[h],
         \A u \in App : Inside(u, h)' <=> Inside(u, h),
         \A u \in App : Inside(u, h) => limiter'[u] = limiter[u]
  PROVE  Fair(h)'
<1>1. second \in Nat
  BY DEF RatesTyped
<1>2. ASSUME NEW u \in App, Inside(u, h)' PROVE Mine(u, h)'
  <2>1. Inside(u, h) /\ limiter'[u] = limiter[u] /\ Mine(u, h)
    BY <1>2 DEF Fair
  <2>2. limiter[u] \in Locals
    BY DEF RatesTyped
  <2>3. limiter'[u].now <= second'
    <3>1. limiter[u].now \in Nat /\ limiter[u].now <= second
      BY <2>1, <2>2 DEF Mine, Locals
    <3> QED
      BY <1>1, <2>1, <3>1
  <2>4. \A s \in Nat : Own(u, s)' = Own(u, s)
    BY <2>1 DEF Own
  <2> QED
    BY <2>1, <2>3, <2>4 DEF Mine
<1>3. ASSUME \A u \in App : ~Inside(u, h)' PROVE Settled(h)'
  <2>1. Settled(h)
    BY <1>3 DEF Fair
  <2>2. ASSUME NEW s \in Nat, s + 1 >= second' PROVE s + 1 >= second
    BY <1>1, <2>2
  <2> QED
    BY <2>1, <2>2 DEF Settled
<1>4. Within(h)'
  BY DEF Fair, Within
<1>5. \A t, u \in App : Inside(t, h)' /\ Inside(u, h)' => t = u
  BY DEF Fair
<1> QED
  BY <1>2, <1>3, <1>4, <1>5 DEF Fair

\* A step in which no thread moves in a limiter.
LEMMA QuietRates ==
  ASSUME RatesOK, UNCHANGED <<studied, window, admitted, calls, limiter, crossed>>,
         second' \in Nat, second' >= second,
         call_at' \in [App -> Guard \cup {"idle", "cleared"}],
         \A t \in App : call_at'[t] # call_at[t] => call_at'[t] \notin Limited /\ call_at[t] \notin Limited
  PROVE  RatesOK'
<1>1. \A g \in Limited, t \in App : Pending(t, g)' = Pending(t, g)
  BY DEF Pending
<1>2. "ui" \in App /\ "own" \in App
  BY DEF App
<1>3. \A g \in Limited : Len(window'[g]) + Pending("ui", g)' + Pending("own", g)' <= calls'
  BY <1>1, <1>2 DEF RatesOK, RatesTyped
<1>4. RatesTyped'
  <2>1. \A t \in App : call_at'[t] \notin Limited => limiter'[t] = Outside
    BY DEF RatesOK, RatesTyped
  <2> QED
    BY <1>3, <2>1 DEF RatesOK, RatesTyped
<1>5. ASSUME NEW g \in Limited \ crossed' PROVE Fair(g)'
  <2>1. \A u \in App : Inside(u, g)' <=> Inside(u, g)
    BY DEF Inside
  <2>2. RatesTyped /\ Fair(g) /\ g \in Limited
    BY DEF RatesOK
  <2>3. \A u \in App : Inside(u, g) => limiter'[u] = limiter[u]
    OBVIOUS
  <2>4. window'[g] = window[g] /\ admitted'[g] = admitted[g]
    OBVIOUS
  <2> QED
    BY <2>1, <2>2, <2>3, <2>4, QuietGuard
<1> QED
  BY <1>4, <1>5 DEF RatesOK

\* A call through a guard's property.
LEMMA EnterRates ==
  ASSUME RatesOK, studied' = studied, NEW t \in App, NEW g \in Guard, NEW kept \in BOOLEAN,
         Enter(t, g, kept), (studied = g /\ g \in Limited) \/ (studied = "grants" /\ g = "fs")
  PROVE  RatesOK'
<1>1. /\ calls \in Nat /\ calls' = calls + 1
      /\ UNCHANGED <<second, window, limiter, admitted, crossed, robbed>>
      /\ call_at[t] = "idle" /\ limiter[t] = Outside
  BY DEF Enter, RatesOK, RatesTyped, limits, Limited
<1>2. PICK x \in {"idle", g} : call_at' = [call_at EXCEPT ![t] = x]
  BY DEF Enter
<1>3. /\ call_at' \in [App -> Guard \cup {"idle", "cleared"}]
      /\ \A u \in App : call_at'[u] = IF u = t THEN x ELSE call_at[u]
  BY <1>2 DEF RatesOK, RatesTyped
<1>4. studied \in Limited => calls' <= MaxCalls
  <2>1. studied \in Limited => calls < MaxCalls
    BY DEF Enter, Limited
  <2> QED
    BY <1>1, <2>1, SandboxAssumption
<1>5. ASSUME NEW h \in Limited PROVE Len(window'[h]) + Pending("ui", h)' + Pending("own", h)' <= calls'
  <2>1. Len(window[h]) + Pending("ui", h) + Pending("own", h) <= calls /\ Len(window[h]) \in Nat
    BY DEF RatesOK, RatesTyped
  <2>2. /\ Pending("ui", h) \in {0, 1} /\ Pending("own", h) \in {0, 1}
        /\ Pending("ui", h)' \in {0, 1} /\ Pending("own", h)' \in {0, 1}
    BY DEF Pending
  <2>3. \/ Pending("ui", h)' = Pending("ui", h)
        \/ Pending("own", h)' = Pending("own", h)
    BY <1>1, <1>3 DEF Pending, App
  <2>4. Pending("ui", h)' + Pending("own", h)' <= Pending("ui", h) + Pending("own", h) + 1
    BY <2>2, <2>3
  <2> QED
    BY <1>1, <2>1, <2>2, <2>4
<1>6. calls' \in Nat
  BY <1>1
<1>7. RatesTyped'
  <2>1. \A u \in App : call_at'[u] \notin Limited => limiter'[u] = Outside
    BY <1>1, <1>3 DEF RatesOK, RatesTyped
  <2> QED
    BY <1>1, <1>3, <1>4, <1>5, <1>6, <2>1 DEF RatesOK, RatesTyped
<1>8. ASSUME NEW h \in Limited \ crossed' PROVE Fair(h)'
  <2>1. \A u \in App : Inside(u, h)' <=> Inside(u, h)
    BY <1>1, <1>3 DEF Inside, Outside, Limited
  <2>2. RatesTyped /\ Fair(h) /\ h \in Limited
    BY <1>1 DEF RatesOK
  <2>3. second' \in Nat /\ second' >= second
    BY <1>1 DEF RatesOK, RatesTyped
  <2>4. \A u \in App : Inside(u, h) => limiter'[u] = limiter[u]
    BY <1>1
  <2>5. window'[h] = window[h] /\ admitted'[h] = admitted[h]
    BY <1>1
  <2> QED
    BY <2>1, <2>2, <2>3, <2>4, <2>5, QuietGuard
<1> QED
  BY <1>7, <1>8 DEF RatesOK

\* What every step of a thread in a limiter leaves alone.
Tidy(t, g) ==
  /\ UNCHANGED <<studied, second, calls>>
  /\ call_at[t] = g
  /\ call_at' \in [App -> Guard \cup {"idle", "cleared"}] /\ limiter' \in [App -> Locals]
  /\ \A u \in App \ {t} : call_at'[u] = call_at[u] /\ limiter'[u] = limiter[u]
  /\ call_at'[t] = g \/ (call_at'[t] = "idle" /\ limiter'[t] = Outside)
  /\ window' \in [Limited -> Seq(Nat)] /\ admitted' \in [Limited -> Seq(Nat)]
  /\ \A h \in Limited \ {g} : /\ window'[h] = window[h] /\ admitted'[h] = admitted[h]
                              /\ h \in crossed' => h \in crossed
  /\ crossed \subseteq crossed'
  /\ Len(window'[g]) + Pending(t, g)' <= Len(window[g]) + Pending(t, g)

\* Such a step keeps everything but the rate of its own guard.
LEMMA TidyRates ==
  ASSUME RatesOK, NEW t \in App, NEW g \in Limited, studied = g, Tidy(t, g),
         g \notin crossed' => Fair(g)'
  PROVE  RatesOK'
<1>1. \A h \in Limited, u \in App : Pending(u, h) \in {0, 1} /\ Pending(u, h)' \in {0, 1}
  BY DEF Pending
<1>2. \A h \in Limited : Len(window[h]) \in Nat /\ Len(window'[h]) \in Nat
  BY DEF RatesOK, RatesTyped, Tidy
<1>3. ASSUME NEW h \in Limited PROVE Len(window'[h]) + Pending("ui", h)' + Pending("own", h)' <= calls'
  <2>1. Len(window[h]) + Pending("ui", h) + Pending("own", h) <= calls /\ calls \in Nat /\ calls' = calls
    BY DEF RatesOK, RatesTyped, Tidy
  <2>2. \A u \in App \ {t} : Pending(u, h)' = Pending(u, h)
    BY DEF Tidy, Pending
  <2>3. Len(window'[h]) + Pending(t, h)' <= Len(window[h]) + Pending(t, h)
    <3>1. CASE h = g
      BY <3>1 DEF Tidy
    <3>2. CASE h # g
      <4>1. Pending(t, h)' = 0 /\ Pending(t, h) = 0 /\ window'[h] = window[h]
        BY <3>2 DEF Tidy, Pending, Limited
      <4> QED
        BY <1>2, <4>1
    <3> QED
      BY <3>1, <3>2
  <2>4. CASE t = "ui"
    <3>1. Pending("own", h)' = Pending("own", h)
      BY <2>2, <2>4 DEF App
    <3> QED
      BY <1>1, <1>2, <2>1, <2>3, <2>4, <3>1 DEF App
  <2>5. CASE t = "own"
    <3>1. Pending("ui", h)' = Pending("ui", h)
      BY <2>2, <2>5 DEF App
    <3> QED
      BY <1>1, <1>2, <2>1, <2>3, <2>5, <3>1 DEF App
  <2> QED
    BY <2>4, <2>5 DEF App
<1>4. \A u \in App : call_at'[u] \notin Limited => limiter'[u] = Outside
  BY DEF RatesOK, RatesTyped, Tidy
<1>5. RatesTyped'
  BY <1>3, <1>4 DEF RatesOK, RatesTyped, Tidy
<1>6. ASSUME NEW h \in Limited \ crossed' PROVE Fair(h)'
  <2>1. CASE h = g
    BY <1>6, <2>1
  <2>2. CASE h # g
    <3>1. RatesTyped /\ Fair(h)
      BY DEF RatesOK, Tidy
    <3>2. window'[h] = window[h] /\ admitted'[h] = admitted[h]
      BY <2>2 DEF Tidy
    <3>3. second' \in Nat /\ second' >= second
      BY DEF RatesOK, RatesTyped, Tidy
    <3>4. ASSUME NEW u \in App PROVE (Inside(u, h)' <=> Inside(u, h)) /\ (Inside(u, h) => limiter'[u] = limiter[u])
      BY <2>2 DEF Tidy, Inside, Limited
    <3> QED
      BY <3>1, <3>2, <3>3, <3>4, QuietGuard
  <2> QED
    BY <2>1, <2>2
<1> QED
  BY <1>5, <1>6 DEF RatesOK

\* The rate of its guard, when the thread is alone in it before the step.
LEMMA AloneFair ==
  ASSUME NEW t \in App, NEW g \in Limited, Tidy(t, g),
         \A u \in App \ {t} : ~Inside(u, g),
         Inside(t, g)' => Mine(t, g)', ~Inside(t, g)' => Settled(g)', Within(g)'
  PROVE  Fair(g)'
<1>1. \A u \in App \ {t} : ~Inside(u, g)'
  BY DEF Tidy, Inside
<1> QED
  BY <1>1 DEF Fair

\* A thread in the limiter of a guard that two were never in is alone there.
LEMMA Alone ==
  ASSUME RatesOK, NEW t \in App, NEW g \in Limited \ crossed, Inside(t, g)
  PROVE  /\ \A u \in App \ {t} : ~Inside(u, g)
         /\ Mine(t, g) /\ Within(g)
         /\ second \in Nat /\ window[g] \in Seq(Nat) /\ admitted[g] \in Seq(Nat) /\ limiter[t] \in Locals
  BY DEF RatesOK, RatesTyped, Fair

\* A step that changes neither window nor clock.
LEMMA MoveRates ==
  ASSUME RatesOK, UNCHANGED <<studied, second, calls, window, admitted, crossed>>,
         NEW t \in App, NEW g \in Limited, studied = g,
         call_at[t] = g, limiter[t].at \notin {"outside", "judged"},
         \/ /\ UNCHANGED call_at
            /\ \E k \in Locals : /\ limiter' = [limiter EXCEPT ![t] = k] /\ k.now = limiter[t].now
                                 /\ k.at \in {"looks", "compares", "pops", "counts", "appends"}
                                 /\ k.at = "pops" => window[g] # << >> /\ k.now > Head(window[g]) + 1
                                 /\ k.at = "appends" => Len(window[g]) = k.count
         \/ Leaves(t)
  PROVE  RatesOK'
<1>1. /\ limiter \in [App -> Locals] /\ window \in [Limited -> Seq(Nat)] /\ admitted \in [Limited -> Seq(Nat)]
      /\ call_at \in [App -> Guard \cup {"idle", "cleared"}] /\ Outside \in Locals
  BY DEF RatesOK, RatesTyped, Outside, Locals, Place
<1>2. Len(window[g]) \in Nat
  BY <1>1
<1>3. Pending(t, g) = 1 /\ Pending(t, g)' \in {0, 1}
  BY DEF Pending
<1>4. Tidy(t, g)
  <2>1. Len(window'[g]) + Pending(t, g)' <= Len(window[g]) + Pending(t, g)
    BY <1>2, <1>3
  <2>2. CASE Leaves(t)
    BY <1>1, <2>1, <2>2 DEF Tidy, Leaves
  <2>3. CASE UNCHANGED call_at /\ \E k \in Locals : limiter' = [limiter EXCEPT ![t] = k]
    BY <1>1, <2>1, <2>3 DEF Tidy
  <2> QED
    BY <2>2, <2>3
<1>5. ASSUME g \notin crossed' PROVE Fair(g)'
  <2>1. Inside(t, g) /\ g \in Limited \ crossed
    BY <1>5 DEF Inside
  <2>2. /\ \A u \in App \ {t} : ~Inside(u, g)
        /\ Mine(t, g) /\ Within(g) /\ second \in Nat /\ limiter[t] \in Locals
    BY <2>1, Alone
  <2>3. \A s \in Nat : Own(t, s) = 0
    BY DEF Own
  <2>4. Within(g)'
    BY <2>2 DEF Within
  <2>5. ASSUME Inside(t, g)' PROVE Mine(t, g)'
    <3>1. ~Leaves(t)
      BY <1>1, <2>5 DEF Leaves, Inside, Outside
    <3>2. PICK k \in Locals :
            /\ limiter'[t] = k /\ k.now = limiter[t].now
            /\ k.at \in {"looks", "compares", "pops", "counts", "appends"}
            /\ k.at = "pops" => window[g] # << >> /\ k.now > Head(window[g]) + 1
            /\ k.at = "appends" => Len(window[g]) = k.count
      BY <1>1, <3>1
    <3>3. \A s \in Nat : Own(t, s)' = 0
      BY <3>2 DEF Own
    <3> QED
      BY <2>2, <2>3, <3>2, <3>3 DEF Mine
  <2>6. ASSUME ~Inside(t, g)' PROVE Settled(g)'
    <3> SUFFICES ASSUME NEW s \in Nat, s + 1 >= second
                 PROVE  Hits(admitted[g], AtLeast(s)) <= Hits(window[g], AtLeast(s))
      BY DEF Settled
    <3>1. limiter[t].now \in Nat /\ limiter[t].now <= second
      BY <2>2 DEF Mine, Locals
    <3>2. s + 1 >= limiter[t].now
      BY <2>2, <3>1
    <3>3. Hits(admitted[g], AtLeast(s)) + 0 <= Hits(window[g], AtLeast(s))
      BY <2>2, <2>3, <3>2 DEF Mine
    <3>4. Hits(admitted[g], AtLeast(s)) \in Nat
      BY <1>1, HitsType
    <3> QED
      BY <3>3, <3>4
  <2> QED
    BY <1>4, <2>2, <2>4, <2>5, <2>6, AloneFair
<1> QED
  BY <1>4, <1>5, TidyRates

\* A thread reads the clock, and is in the limiter.
LEMMA ClockRates ==
  ASSUME RatesOK, studied' = studied, NEW t \in App, NEW g \in Limited, studied = g, ReadsClock(t, g)
  PROVE  RatesOK'
<1> DEFINE k == [at |-> "looks", now |-> second, count |-> 0]
<1>1. /\ call_at[t] = g /\ limiter[t].at = "outside"
      /\ limiter' = [limiter EXCEPT ![t] = k]
      /\ crossed' = IF \E u \in App : Inside(u, g) THEN crossed \cup {g} ELSE crossed
      /\ UNCHANGED <<second, calls, call_at, window, admitted>>
  BY DEF ReadsClock, At, Limiting, Checked, Inside
<1>2. /\ limiter \in [App -> Locals] /\ window \in [Limited -> Seq(Nat)] /\ admitted \in [Limited -> Seq(Nat)]
      /\ call_at \in [App -> Guard \cup {"idle", "cleared"}] /\ second \in Nat
  BY DEF RatesOK, RatesTyped
<1>3. k \in Locals /\ k.at = "looks" /\ k.now = second
  BY <1>2 DEF Locals, Place
<1> HIDE DEF k
<1>4. limiter' \in [App -> Locals] /\ limiter'[t] = k /\ \A u \in App \ {t} : limiter'[u] = limiter[u]
  BY <1>1, <1>2, <1>3
<1>5. Len(window[g]) \in Nat
  BY <1>2
<1>6. Pending(t, g)' = Pending(t, g) /\ Pending(t, g) = 1
  BY <1>1, <1>3, <1>4 DEF Pending
<1>7. Tidy(t, g)
  BY <1>1, <1>2, <1>4, <1>5, <1>6 DEF Tidy
<1>8. ASSUME g \notin crossed' PROVE Fair(g)'
  <2>1. \A u \in App : ~Inside(u, g)
    BY <1>1, <1>8
  <2>2. Fair(g)
    BY <1>1, <1>8, <2>1 DEF RatesOK
  <2>3. Settled(g) /\ Within(g)
    BY <2>1, <2>2 DEF Fair
  <2>4. Within(g)'
    BY <1>1, <2>3 DEF Within
  <2>5. Settled(g)'
    BY <1>1, <2>3 DEF Settled
  <2>6. Mine(t, g)'
    <3>1. \A s \in Nat : Own(t, s)' = 0
      BY <1>3, <1>4 DEF Own
    <3>2. ASSUME NEW s \in Nat, s + 1 >= k.now
          PROVE  Hits(admitted[g], AtLeast(s)) + 0 <= Hits(window[g], AtLeast(s))
      <4>1. Hits(admitted[g], AtLeast(s)) <= Hits(window[g], AtLeast(s))
        BY <1>3, <2>3, <3>2 DEF Settled
      <4>2. Hits(admitted[g], AtLeast(s)) \in Nat
        BY <1>2, HitsType
      <4> QED
        BY <4>1, <4>2
    <3>3. k.now <= second
      BY <1>2, <1>3
    <3> QED
      BY <1>1, <1>3, <1>4, <3>1, <3>2, <3>3 DEF Mine
  <2> QED
    BY <1>7, <2>1, <2>4, <2>5, <2>6, AloneFair
<1> QED
  BY <1>7, <1>8, TidyRates

\* A thread takes the first call out of the window.
LEMMA PopRates ==
  ASSUME RatesOK, studied' = studied, NEW t \in App, NEW g \in Limited, studied = g,
         Pops(t, g), window[g] # << >>
  PROVE  RatesOK'
<1>1. /\ call_at[t] = g /\ limiter[t].at = "pops"
      /\ limiter' = [limiter EXCEPT ![t].at = "looks"]
      /\ window' = [window EXCEPT ![g] = Tail(window[g])]
      /\ UNCHANGED <<second, calls, call_at, admitted, crossed>>
  BY DEF Pops, At, Advances, Limiting, Checked
<1>2. /\ limiter \in [App -> Locals] /\ window \in [Limited -> Seq(Nat)] /\ admitted \in [Limited -> Seq(Nat)]
      /\ call_at \in [App -> Guard \cup {"idle", "cleared"}] /\ second \in Nat
  BY DEF RatesOK, RatesTyped
<1> DEFINE k == [limiter[t] EXCEPT !.at = "looks"]
<1>3. k \in Locals /\ k.at = "looks" /\ k.now = limiter[t].now
  BY <1>2 DEF Locals, Place
<1>4. limiter' = [limiter EXCEPT ![t] = k]
  BY <1>1
<1> HIDE DEF k
<1>5. limiter' \in [App -> Locals] /\ limiter'[t] = k /\ \A u \in App \ {t} : limiter'[u] = limiter[u]
  BY <1>2, <1>3, <1>4
<1>6. Tail(window[g]) \in Seq(Nat) /\ Len(Tail(window[g])) = Len(window[g]) - 1 /\ Len(window[g]) \in Nat
  <2>1. Hits(window[g], {}) \in Nat /\ window[g] \in Seq(Nat)
    BY <1>2, HitsType
  <2>2. Head(window[g]) \notin {}
    OBVIOUS
  <2> QED
    BY <2>1, <2>2, TailKeeps, LenProperties
<1>7. /\ window' \in [Limited -> Seq(Nat)] /\ window'[g] = Tail(window[g])
      /\ \A h \in Limited \ {g} : window'[h] = window[h]
  BY <1>1, <1>2, <1>6
<1>8. Pending(t, g)' = Pending(t, g) /\ Pending(t, g) = 1
  BY <1>1, <1>3, <1>5 DEF Pending
<1>9. Tidy(t, g)
  <2>1. Len(window'[g]) + Pending(t, g)' <= Len(window[g]) + Pending(t, g)
    BY <1>6, <1>7, <1>8
  <2> QED
    BY <1>1, <1>2, <1>5, <1>7, <2>1 DEF Tidy
<1>10. ASSUME g \notin crossed' PROVE Fair(g)'
  <2>1. Inside(t, g) /\ g \in Limited \ crossed
    BY <1>1, <1>10 DEF Inside
  <2>2. /\ \A u \in App \ {t} : ~Inside(u, g)
        /\ Mine(t, g) /\ Within(g) /\ limiter[t] \in Locals
    BY <2>1, Alone
  <2>3. limiter[t].now \in Nat /\ limiter[t].now <= second /\ limiter[t].now > Head(window[g]) + 1
    BY <1>1, <2>2 DEF Mine, Locals
  <2>4. Head(window[g]) \in Nat
    BY <1>2, EmptySeq, HeadTailProperties
  <2>5. ASSUME NEW s \in Nat, s + 1 >= limiter[t].now
        PROVE  Hits(admitted[g], AtLeast(s)) + 0 <= Hits(window'[g], AtLeast(s))
    <3>1. Head(window[g]) \notin AtLeast(s)
      BY <2>3, <2>4, <2>5 DEF AtLeast
    <3>2. Hits(window[g], AtLeast(s)) <= Hits(Tail(window[g]), AtLeast(s))
      BY <1>2, <3>1, TailKeeps
    <3>3. Own(t, s) = 0
      BY <1>1 DEF Own
    <3>4. Hits(admitted[g], AtLeast(s)) + 0 <= Hits(window[g], AtLeast(s))
      BY <2>2, <2>5, <3>3 DEF Mine
    <3>5. /\ Hits(admitted[g], AtLeast(s)) \in Nat /\ Hits(window[g], AtLeast(s)) \in Nat
          /\ Hits(Tail(window[g]), AtLeast(s)) \in Nat
      BY <1>2, <1>6, HitsType
    <3> QED
      BY <1>7, <3>2, <3>4, <3>5
  <2>6. Mine(t, g)'
    <3>1. \A s \in Nat : Own(t, s)' = 0
      BY <1>3, <1>5 DEF Own
    <3> QED
      BY <1>1, <1>3, <1>5, <2>3, <2>5, <3>1 DEF Mine
  <2>7. Inside(t, g)'
    BY <1>1, <1>3, <1>5 DEF Inside
  <2>8. Within(g)'
    BY <1>1, <2>2 DEF Within
  <2> QED
    BY <1>9, <2>2, <2>6, <2>7, <2>8, AloneFair
<1> QED
  BY <1>9, <1>10, TidyRates

\* A thread puts its call into the window.
LEMMA AppendRates ==
  ASSUME RatesOK, studied' = studied, NEW t \in App, NEW g \in Limited, studied = g, AppendsCall(t, g)
  PROVE  RatesOK'
<1> DEFINE x == limiter[t].now
<1>1. /\ call_at[t] = g /\ limiter[t].at = "appends"
      /\ limiter' = [limiter EXCEPT ![t].at = "judged"]
      /\ window' = [window EXCEPT ![g] = Append(window[g], x)]
      /\ UNCHANGED <<second, calls, call_at, admitted, crossed>>
  BY DEF AppendsCall, At, Advances, Limiting, Checked
<1>2. /\ limiter \in [App -> Locals] /\ window \in [Limited -> Seq(Nat)] /\ admitted \in [Limited -> Seq(Nat)]
      /\ call_at \in [App -> Guard \cup {"idle", "cleared"}] /\ second \in Nat
  BY DEF RatesOK, RatesTyped
<1> DEFINE k == [limiter[t] EXCEPT !.at = "judged"]
<1>3. k \in Locals /\ k.at = "judged" /\ k.now = x /\ k.count = limiter[t].count /\ x \in Nat /\ k.count \in Nat
  BY <1>2 DEF Locals, Place
<1>4. limiter' = [limiter EXCEPT ![t] = k]
  BY <1>1
<1> HIDE DEF k, x
<1>5. limiter' \in [App -> Locals] /\ limiter'[t] = k /\ \A u \in App \ {t} : limiter'[u] = limiter[u]
  BY <1>2, <1>3, <1>4
<1>6. /\ Append(window[g], x) \in Seq(Nat) /\ Len(Append(window[g], x)) = Len(window[g]) + 1
      /\ Len(window[g]) \in Nat
  BY <1>2, <1>3, AppendProperties
<1>7. /\ window' \in [Limited -> Seq(Nat)] /\ window'[g] = Append(window[g], x)
      /\ \A h \in Limited \ {g} : window'[h] = window[h]
  BY <1>1, <1>2, <1>6
<1>8. Pending(t, g)' = 0 /\ Pending(t, g) = 1
  BY <1>1, <1>3, <1>5 DEF Pending
<1>9. Tidy(t, g)
  <2>1. Len(window'[g]) + Pending(t, g)' <= Len(window[g]) + Pending(t, g)
    BY <1>6, <1>7, <1>8
  <2> QED
    BY <1>1, <1>2, <1>5, <1>7, <2>1 DEF Tidy
<1>10. ASSUME g \notin crossed' PROVE Fair(g)'
  <2>1. Inside(t, g) /\ g \in Limited \ crossed
    BY <1>1, <1>10 DEF Inside
  <2>2. /\ \A u \in App \ {t} : ~Inside(u, g)
        /\ Mine(t, g) /\ Within(g)
    BY <2>1, Alone
  <2>3. x <= second /\ Len(window[g]) = k.count
    BY <1>1, <1>3, <2>2 DEF Mine, x
  <2>4. ASSUME NEW s \in Nat, s + 1 >= k.now
        PROVE  Hits(admitted[g], AtLeast(s)) + Own(t, s)' <= Hits(window'[g], AtLeast(s))
    <3>1. Own(t, s) = 0
      BY <1>1 DEF Own
    <3>2. Hits(admitted[g], AtLeast(s)) + 0 <= Hits(window[g], AtLeast(s))
      BY <1>3, <2>2, <2>4, <3>1 DEF Mine, x
    <3>3. Own(t, s)' = IF x \in AtLeast(s) THEN 1 ELSE 0
      BY <1>3, <1>5 DEF Own
    <3>4. Hits(window'[g], AtLeast(s)) = Hits(window[g], AtLeast(s)) + (IF x \in AtLeast(s) THEN 1 ELSE 0)
      BY <1>2, <1>3, <1>7, HitsAppend
    <3>5. Hits(admitted[g], AtLeast(s)) \in Nat /\ Hits(window[g], AtLeast(s)) \in Nat
      BY <1>2, HitsType
    <3> QED
      BY <3>2, <3>3, <3>4, <3>5
  <2>5. Mine(t, g)'
    <3>1. Len(window'[g]) = k.count + 1
      BY <1>6, <1>7, <2>3
    <3> QED
      BY <1>1, <1>3, <1>5, <2>3, <2>4, <3>1 DEF Mine
  <2>6. Inside(t, g)'
    BY <1>1, <1>3, <1>5 DEF Inside
  <2>7. Within(g)'
    BY <1>1, <2>2 DEF Within
  <2> QED
    BY <1>9, <2>2, <2>5, <2>6, <2>7, AloneFair
<1> QED
  BY <1>9, <1>10, TidyRates

\* A call is admitted only where fewer were counted within a second.
LEMMA JudgedRates ==
  ASSUME RatesOK, studied' = studied, NEW t \in App, NEW g \in Limited, studied = g, Judged(t, g)
  PROVE  RatesOK'
<1> DEFINE x == limiter[t].now
<1>1. /\ call_at[t] = g /\ limiter[t].at = "judged" /\ Leaves(t)
      /\ admitted' = IF Admits(t) THEN [admitted EXCEPT ![g] = Append(admitted[g], x)] ELSE admitted
      /\ UNCHANGED <<second, calls, window, crossed>>
  BY DEF Judged, At, Checked
<1>2. /\ limiter \in [App -> Locals] /\ window \in [Limited -> Seq(Nat)] /\ admitted \in [Limited -> Seq(Nat)]
      /\ call_at \in [App -> Guard \cup {"idle", "cleared"}] /\ second \in Nat
      /\ Outside \in Locals /\ Limit + Soft \in Nat
  BY SandboxAssumption DEF RatesOK, RatesTyped, Outside, Locals, Place
<1>3. x \in Nat /\ limiter[t].count \in Nat
  BY <1>2 DEF Locals
<1> HIDE DEF x
<1>4. /\ limiter' \in [App -> Locals] /\ limiter'[t] = Outside /\ \A u \in App \ {t} : limiter'[u] = limiter[u]
      /\ call_at' \in [App -> Guard \cup {"idle", "cleared"}] /\ call_at'[t] = "idle"
      /\ \A u \in App \ {t} : call_at'[u] = call_at[u]
  BY <1>1, <1>2 DEF Leaves
<1>5. /\ admitted' \in [Limited -> Seq(Nat)] /\ \A h \in Limited \ {g} : admitted'[h] = admitted[h]
      /\ admitted'[g] = IF Admits(t) THEN Append(admitted[g], x) ELSE admitted[g]
  <2>1. Append(admitted[g], x) \in Seq(Nat)
    BY <1>2, <1>3, AppendProperties
  <2> QED
    BY <1>1, <1>2, <2>1
<1>6. Pending(t, g)' = 0 /\ Pending(t, g) = 0 /\ Len(window[g]) \in Nat
  <2>1. g # "idle"
    BY DEF Limited
  <2> QED
    BY <1>1, <1>2, <1>4, <2>1 DEF Pending
<1>7. Tidy(t, g)
  BY <1>1, <1>2, <1>4, <1>5, <1>6 DEF Tidy
<1>8. ASSUME g \notin crossed' PROVE Fair(g)'
  <2>1. Inside(t, g) /\ g \in Limited \ crossed
    BY <1>1, <1>8 DEF Inside
  <2>2. /\ \A u \in App \ {t} : ~Inside(u, g)
        /\ Mine(t, g) /\ Within(g)
    BY <2>1, Alone
  <2>3. x <= second /\ Len(window[g]) = limiter[t].count + 1
    BY <1>1, <2>2 DEF Mine, x
  <2>4. ASSUME NEW s \in Nat, s + 1 >= x
        PROVE  Hits(admitted'[g], AtLeast(s)) <= Hits(window[g], AtLeast(s))
    <3> DEFINE y == IF x \in AtLeast(s) THEN 1 ELSE 0
    <3>1. Hits(admitted[g], AtLeast(s)) + y <= Hits(window[g], AtLeast(s))
      BY <1>1, <2>2, <2>4 DEF Mine, Own, x
    <3>2. \/ Hits(admitted'[g], AtLeast(s)) = Hits(admitted[g], AtLeast(s)) + y
          \/ Hits(admitted'[g], AtLeast(s)) = Hits(admitted[g], AtLeast(s))
      BY <1>2, <1>3, <1>5, HitsAppend
    <3>3. Hits(admitted[g], AtLeast(s)) \in Nat /\ Hits(window[g], AtLeast(s)) \in Nat
      BY <1>2, HitsType
    <3>4. y \in {0, 1}
      OBVIOUS
    <3> HIDE DEF y
    <3> QED
      BY <3>1, <3>2, <3>3, <3>4
  <2>5. Settled(g)'
    <3> SUFFICES ASSUME NEW s \in Nat, s + 1 >= second
                 PROVE  Hits(admitted'[g], AtLeast(s)) <= Hits(window[g], AtLeast(s))
      BY <1>1 DEF Settled
    <3>1. s + 1 >= x
      BY <1>2, <1>3, <2>3
    <3> QED
      BY <2>4, <3>1
  <2>6. Within(g)'
    <3> SUFFICES ASSUME NEW s \in Nat PROVE Hits(admitted'[g], s..(s + 1)) <= Limit + Soft
      BY DEF Within
    <3>1. Hits(admitted[g], s..(s + 1)) <= Limit + Soft /\ Hits(admitted[g], s..(s + 1)) \in Nat
      BY <1>2, <2>2, HitsType DEF Within
    <3>2. CASE Admits(t) /\ x \in s..(s + 1)
      <4>1. s..(s + 1) \subseteq AtLeast(s) /\ s + 1 >= x
        BY <1>3, <3>2 DEF AtLeast
      <4>2. Hits(admitted'[g], s..(s + 1)) <= Hits(admitted'[g], AtLeast(s))
        BY <1>5, <4>1, HitsMonotone
      <4>3. Hits(admitted'[g], AtLeast(s)) <= Hits(window[g], AtLeast(s))
        BY <2>4, <4>1
      <4>4. Hits(window[g], AtLeast(s)) <= Len(window[g])
        BY <1>2, HitsType
      <4>5. limiter[t].count < Limit + Soft
        BY <3>2 DEF Admits
      <4>6. Hits(admitted'[g], s..(s + 1)) \in Nat /\ Hits(admitted'[g], AtLeast(s)) \in Nat
        <5>1. admitted'[g] \in Seq(Nat)
          BY <1>5
        <5>2. \A S : Hits(admitted'[g], S) \in Nat
          BY <5>1, HitsType
        <5> QED
          BY <5>2
      <4>7. Hits(window[g], AtLeast(s)) \in Nat
        BY <1>2, HitsType
      <4> QED
        BY <1>2, <1>3, <2>3, <4>2, <4>3, <4>4, <4>5, <4>6, <4>7
    <3>3. CASE ~(Admits(t) /\ x \in s..(s + 1))
      <4>1. CASE Admits(t)
        <5>1. Hits(admitted'[g], s..(s + 1)) = Hits(admitted[g], s..(s + 1)) + 0
          BY <1>2, <1>3, <1>5, <3>3, <4>1, HitsAppend
        <5> QED
          BY <3>1, <5>1
      <4>2. CASE ~Admits(t)
        BY <1>5, <3>1, <4>2
      <4> QED
        BY <4>1, <4>2
    <3> QED
      BY <3>2, <3>3
  <2>7. ~Inside(t, g)'
    BY <1>4 DEF Inside, Limited
  <2> QED
    BY <1>7, <2>2, <2>5, <2>6, <2>7, AloneFair
<1> QED
  BY <1>7, <1>8, TidyRates

\* The steps of a thread in a limiter before its call is judged.
LEMMA LimiterRates ==
  ASSUME RatesOK, studied' = studied, NEW t \in App, NEW g \in Limited, studied = g,
         \/ ReadsClock(t, g) \/ Looks(t, g) \/ Compares(t, g)
         \/ Pops(t, g) \/ CountsCalls(t, g) \/ AppendsCall(t, g)
  PROVE  RatesOK'
<1>1. limiter \in [App -> Locals] /\ window[g] \in Seq(Nat)
  BY DEF RatesOK, RatesTyped
<1>2. ASSUME NEW p \in {"looks", "compares", "pops", "counts"}
      PROVE  LET k == [limiter[t] EXCEPT !.at = p]
             IN  k \in Locals /\ k.at = p /\ k.now = limiter[t].now
  BY <1>1 DEF Locals, Place
<1>3. CASE Looks(t, g)
  <2>1. PICK p \in {"compares", "counts"} : Advances(t, p)
    BY <1>3 DEF Looks
  <2> DEFINE k == [limiter[t] EXCEPT !.at = p]
  <2>2. k \in Locals /\ k.at = p /\ k.now = limiter[t].now /\ limiter' = [limiter EXCEPT ![t] = k]
    BY <1>2, <2>1 DEF Advances
  <2> HIDE DEF k
  <2>3. /\ UNCHANGED <<second, calls, window, admitted, crossed, call_at>>
        /\ call_at[t] = g /\ limiter[t].at = "looks"
    BY <1>3, <2>1 DEF Looks, At, Advances, Limiting, Checked
  <2> QED
    BY <2>1, <2>2, <2>3, MoveRates
<1>4. CASE Compares(t, g)
  <2>1. /\ UNCHANGED <<second, calls, window, admitted, crossed>>
        /\ call_at[t] = g /\ limiter[t].at = "compares"
    BY <1>4 DEF Compares, At, Limiting, Checked
  <2>2. CASE Leaves(t)
    BY <2>1, <2>2, MoveRates
  <2>3. CASE window[g] # << >> /\ Advances(t, IF Old(t, g) THEN "pops" ELSE "counts")
    <3>1. PICK p \in {"pops", "counts"} : Advances(t, p) /\ (p = "pops" => Old(t, g))
      BY <2>3
    <3> DEFINE k == [limiter[t] EXCEPT !.at = p]
    <3>2. k \in Locals /\ k.at = p /\ k.now = limiter[t].now /\ limiter' = [limiter EXCEPT ![t] = k]
      BY <1>2, <3>1 DEF Advances
    <3> HIDE DEF k
    <3>3. k.at = "pops" => window[g] # << >> /\ k.now > Head(window[g]) + 1
      BY <2>3, <3>1, <3>2 DEF Old
    <3>4. UNCHANGED call_at
      BY <3>1 DEF Advances
    <3> QED
      BY <2>1, <3>1, <3>2, <3>3, <3>4, MoveRates
  <2> QED
    BY <1>4, <2>2, <2>3 DEF Compares
<1>5. CASE Pops(t, g)
  <2>1. CASE window[g] = << >>
    <3>1. /\ UNCHANGED <<second, calls, window, admitted, crossed>>
          /\ call_at[t] = g /\ limiter[t].at = "pops" /\ Leaves(t)
      BY <1>5, <2>1 DEF Pops, At, Limiting, Checked
    <3> QED
      BY <3>1, MoveRates
  <2>2. CASE window[g] # << >>
    BY <1>5, <2>2, PopRates
  <2> QED
    BY <2>1, <2>2
<1>6. CASE CountsCalls(t, g)
  <2>1. /\ UNCHANGED <<second, calls, window, admitted, crossed, call_at>>
        /\ call_at[t] = g /\ limiter[t].at = "counts"
        /\ limiter' = [limiter EXCEPT ![t] = [at |-> "appends", now |-> @.now, count |-> Len(window[g])]]
    BY <1>6 DEF CountsCalls, At, Limiting, Checked
  <2> DEFINE k == [at |-> "appends", now |-> limiter[t].now, count |-> Len(window[g])]
  <2>2. k \in Locals /\ k.at = "appends" /\ k.now = limiter[t].now /\ k.count = Len(window[g])
    BY <1>1 DEF Locals, Place
  <2>3. limiter' = [limiter EXCEPT ![t] = k]
    BY <1>1, <2>1
  <2> HIDE DEF k
  <2> QED
    BY <2>1, <2>2, <2>3, MoveRates
<1> QED
  BY <1>3, <1>4, <1>5, <1>6, ClockRates, AppendRates

\* What is known of the launches.
LaunchOK ==
  /\ status \in {"UNVERIFIED", "AVAILABLE", "QUARANTINE"}
  /\ StatusTellsLaunches

\* What is known of the calls on files: of the manifest no more is cached than was read.
AccessOK ==
  /\ call_at \in [App -> Guard \cup {"idle", "cleared"}]
  /\ on_disk \in SUBSET Perm /\ cached \in SUBSET Perm /\ temp \in SUBSET Perm
  /\ cache_read \/ cached = {}
  /\ LockedStopsNew /\ FilesNeedGrants

\* What is known of consent.  A permission is granted in an answer only when the user said so,
\* and an answer to the interface thread is on its way only once it has given up.
WaitRecord ==
  [by : App \cup {"nobody"}, perm : Perm \cup {"none"}, since : Nat, granted : BOOLEAN,
   set : BOOLEAN, over : BOOLEAN]
Asked == {r \in Request : wait[r].by # "nobody"}
Answerable ==
  {e \in [type : {"ask", "answer"}, id : Asked, granted : BOOLEAN] :
     e.type = "answer" => /\ e.granted => e.id \in said
                          /\ wait[e.id].by = "ui" => wait[e.id].over}
Honest(r) ==
  /\ wait[r].by # "nobody" => wait[r].perm \in Perm
  /\ wait[r].set /\ wait[r].granted => r \in said
  /\ wait[r].by = "ui" /\ wait[r].set => wait[r].over
ConsentOK ==
  /\ wait \in [Request -> WaitRecord] /\ \A r \in Request : Honest(r)
  /\ events \in Seq(Answerable) /\ signals \in Seq(Asked) /\ dialogs \in Seq(Asked)
  /\ said \in SUBSET Request
  /\ ConsentIsUsers

SandboxInv == RatesOK /\ LaunchOK /\ AccessOK /\ ConsentOK

\* A sequence over a set is one over a larger set.
LEMMA LargerSeq ==
  ASSUME NEW S, NEW T, S \subseteq T, NEW s \in Seq(S)
  PROVE  s \in Seq(T)
<1>1. Len(s) \in Nat /\ s \in [1..Len(s) -> S]
  BY LenProperties, ElementOfSeq
<1>2. s \in [1..Len(s) -> T]
  BY <1>1
<1> QED
  BY <1>1, <1>2, SeqDef

\* What leaves a sequence at its end leaves a sequence, and is an element of its set.
LEMMA FrontLast ==
  ASSUME NEW S, NEW s \in Seq(S), s # << >>
  PROVE  Front(s) \in Seq(S) /\ Last(s) \in S
<1>1. Len(s) \in Nat /\ Len(s) # 0 /\ \A i \in 1..Len(s) : s[i] \in S
  BY EmptySeq, LenProperties, ElementOfSeq
<1>2. 1 \in Int /\ Len(s) - 1 \in Int /\ \A i \in 1..(Len(s) - 1) : s[i] \in S
  BY <1>1
<1>3. SubSeq(s, 1, Len(s) - 1) \in Seq(S)
  BY <1>2, SubSeqProperties
<1>4. s[Len(s)] \in S
  BY <1>1
<1> QED
  BY <1>3, <1>4 DEF Front, Last

\* At first nothing is known, asked or granted.
LEMMA SandboxBegin == SandboxInit => SandboxInv
<1> SUFFICES ASSUME SandboxInit PROVE SandboxInv
  OBVIOUS
<1> USE SandboxAssumption
<1>1. \A S : Hits(<< >>, S) = 0
  <2>1. \A S : {i \in DOMAIN << >> : << >>[i] \in S} = {}
    OBVIOUS
  <2> QED
    BY <2>1, FS_EmptySet DEF Hits
<1>2. RatesOK
  <2>1. << >> \in Seq(Nat) /\ Len(<< >>) = 0
    BY EmptySeq
  <2>2. /\ window \in [Limited -> Seq(Nat)] /\ admitted \in [Limited -> Seq(Nat)]
        /\ window = [g \in Limited |-> << >>] /\ \A g \in Limited : window[g] = << >> /\ admitted[g] = << >>
    BY <2>1 DEF SandboxInit
  <2>3. /\ second \in Nat /\ calls \in Nat /\ calls = 0 /\ 0 <= MaxCalls
        /\ call_at \in [App -> Guard \cup {"idle", "cleared"}]
    BY DEF SandboxInit
  <2>4. /\ limiter \in [App -> Locals] /\ \A t \in App : limiter[t] = Outside /\ call_at[t] = "idle"
        /\ "ui" \in App /\ "own" \in App /\ crossed = {}
    BY DEF SandboxInit, Outside, Locals, Place, App
  <2>5. \A g \in Limited : Pending("ui", g) = 0 /\ Pending("own", g) = 0 /\ \A t \in App : ~Inside(t, g)
    BY <2>4 DEF Pending, Inside, Limited
  <2>6. \A g \in Limited : Len(window[g]) + Pending("ui", g) + Pending("own", g) <= calls
    BY <2>1, <2>2, <2>3, <2>5
  <2>7. RatesTyped
    BY <2>2, <2>3, <2>4, <2>6 DEF RatesTyped
  <2>8. ASSUME NEW g \in Limited PROVE Fair(g)
    <3>1. Settled(g)
      BY <1>1, <2>2 DEF Settled
    <3>2. Within(g)
      <4>1. 0 <= Limit + Soft
        OBVIOUS
      <4> QED
        BY <1>1, <2>2, <4>1 DEF Within
    <3> QED
      BY <2>5, <3>1, <3>2 DEF Fair
  <2> QED
    BY <2>7, <2>8 DEF RatesOK
<1>3. LaunchOK
  BY DEF SandboxInit, LaunchOK, StatusTellsLaunches
<1>4. AccessOK
  <2>1. Manifests \subseteq SUBSET Perm
    BY DEF Manifests, Perm
  <2> QED
    BY <2>1 DEF SandboxInit, AccessOK, LockedStopsNew, FilesNeedGrants
<1>5. ConsentOK
  <2>1. NoWait \in WaitRecord
    BY DEF NoWait, WaitRecord
  <2>2. wait \in [Request -> WaitRecord] /\ \A r \in Request : wait[r] = NoWait
    BY <2>1 DEF SandboxInit
  <2>3. \A r \in Request : Honest(r)
    BY <2>2 DEF Honest, NoWait
  <2>4. events \in Seq(Answerable) /\ signals \in Seq(Asked) /\ dialogs \in Seq(Asked)
    BY EmptySeq DEF SandboxInit
  <2>5. ConsentIsUsers /\ said \in SUBSET Request
    BY DEF SandboxInit, ConsentIsUsers
  <2> QED
    BY <2>2, <2>3, <2>4, <2>5 DEF ConsentOK
<1> QED
  BY <1>2, <1>3, <1>4, <1>5 DEF SandboxInv

\* A step in which no call is cleared, and no permission is lost.
LEMMA AccessStays ==
  ASSUME AccessOK, UNCHANGED <<touched, locked>>,
         call_at' \in [App -> Guard \cup {"idle", "cleared"}],
         on_disk' \in SUBSET Perm, cached' \in SUBSET Perm, temp' \in SUBSET Perm,
         cached \subseteq cached', temp \subseteq temp', cache_read' \/ cached' = {},
         \A u \in App : call_at'[u] = "cleared" => call_at[u] = "cleared" /\ (u \in late' => u \in late)
  PROVE  AccessOK'
<1>1. LockedStopsNew'
  BY DEF AccessOK, LockedStopsNew
<1>2. FilesNeedGrants'
  BY DEF AccessOK, FilesNeedGrants
<1> QED
  BY <1>1, <1>2 DEF AccessOK

\* A look into the manifest adds what it grants to what is cached.
LEMMA ConsultsIs ==
  ASSUME AccessOK, NEW p, Consults(p)
  PROVE  /\ cached' \in SUBSET Perm /\ cached \subseteq cached' /\ (cache_read' \/ cached' = {})
         /\ Allowed(p) => p \in temp \cup cached'
  BY DEF AccessOK, Consults, Allowed, Manifest

\* A step that leaves the questions and their answers alone.
LEMMA ConsentStays ==
  ASSUME ConsentOK, UNCHANGED <<wait, events, signals, dialogs, said, temp>>
  PROVE  ConsentOK'
  BY DEF ConsentOK, Honest, Answerable, Asked, ConsentIsUsers

\* Whoever asked has asked, and what was answerable stays so, when no wait is forgotten and
\* the user takes nothing back.
LEMMA AnswersStay ==
  ASSUME ConsentOK, said \subseteq said', wait' \in [Request -> WaitRecord],
         \A r \in Request : wait[r].by # "nobody" =>
           wait'[r].by = wait[r].by /\ (wait[r].over => wait'[r].over)
  PROVE  Asked \subseteq Asked' /\ Answerable \subseteq Answerable'
<1>1. Asked \subseteq Asked'
  BY DEF Asked
<1>2. ASSUME NEW e \in Answerable PROVE e \in Answerable'
  <2>1. e \in [type : {"ask", "answer"}, id : Asked, granted : BOOLEAN]
    BY DEF Answerable
  <2>2. e.id \in Asked /\ e.id \in Request /\ wait[e.id].by # "nobody"
    BY <2>1 DEF Asked
  <2>3. wait'[e.id].by = wait[e.id].by /\ (wait[e.id].over => wait'[e.id].over)
    BY <2>2
  <2>4. e \in [type : {"ask", "answer"}, id : Asked', granted : BOOLEAN]
    BY <1>1, <2>1
  <2>5. e.type = "answer" => (e.granted => e.id \in said) /\ (wait[e.id].by = "ui" => wait[e.id].over)
    BY DEF Answerable
  <2>6. e.type = "answer" => (e.granted => e.id \in said') /\ (wait'[e.id].by = "ui" => wait'[e.id].over)
    BY <2>3, <2>5
  <2> QED
    BY <2>4, <2>6 DEF Answerable
<1> QED
  BY <1>1, <1>2

\* A question is put.
LEMMA AskConsent ==
  ASSUME ConsentOK, second \in Nat, NEW t \in App, NEW r \in Request, NEW p \in Perm, AskUser(t, r, p)
  PROVE  ConsentOK'
<1> DEFINE rec == [NoWait EXCEPT !.by = t, !.perm = p, !.since = second]
           e == [type |-> "ask", id |-> r, granted |-> FALSE]
<1>1. /\ wait[r] = NoWait /\ wait' = [wait EXCEPT ![r] = rec] /\ events' = Append(events, e)
      /\ UNCHANGED <<signals, dialogs, said, temp>>
  BY DEF AskUser, permissions
<1>2. rec \in WaitRecord /\ rec.by # "nobody" /\ rec.perm \in Perm /\ rec.set = FALSE
  BY DEF WaitRecord, App, NoWait
<1> HIDE DEF rec
<1>3. wait' \in [Request -> WaitRecord] /\ \A q \in Request : wait'[q] = IF q = r THEN rec ELSE wait[q]
  BY <1>1, <1>2 DEF ConsentOK
<1>4. wait[r].by = "nobody" /\ wait[r].over = FALSE
  BY <1>1 DEF NoWait
<1>5. Asked \subseteq Asked' /\ Answerable \subseteq Answerable'
  <2>1. \A q \in Request : wait[q].by # "nobody" => wait'[q] = wait[q]
    BY <1>3, <1>4
  <2> QED
    BY <1>1, <1>3, <2>1, AnswersStay
<1>6. \A q \in Request : Honest(q)'
  BY <1>1, <1>2, <1>3 DEF ConsentOK, Honest
<1>7. events' \in Seq(Answerable')
  <2>1. r \in Asked'
    BY <1>2, <1>3 DEF Asked
  <2>2. e \in Answerable'
    BY <2>1 DEF Answerable
  <2>3. events \in Seq(Answerable')
    BY <1>5, LargerSeq DEF ConsentOK
  <2> HIDE DEF e
  <2> QED
    BY <1>1, <2>2, <2>3, AppendProperties
<1>8. signals' \in Seq(Asked') /\ dialogs' \in Seq(Asked')
  <2>1. signals \in Seq(Asked') /\ dialogs \in Seq(Asked')
    BY <1>5, LargerSeq DEF ConsentOK
  <2> QED
    BY <1>1, <2>1
<1>9. ConsentIsUsers'
  <2> SUFFICES ASSUME NEW x \in temp PROVE \E q \in said : wait'[q].perm = x /\ wait'[q].over
    BY <1>1 DEF ConsentIsUsers
  <2>1. PICK q \in said : wait[q].perm = x /\ wait[q].over
    BY DEF ConsentOK, ConsentIsUsers
  <2>2. q \in Request /\ q # r
    BY <1>4, <2>1 DEF ConsentOK
  <2> QED
    BY <1>3, <2>1, <2>2
<1> QED
  BY <1>1, <1>3, <1>6, <1>7, <1>8, <1>9 DEF ConsentOK

\* The bus hands on what was queued first.
LEMMA BusConsent ==
  ASSUME ConsentOK, BusDelivers
  PROVE  ConsentOK'
<1> DEFINE e == Head(events)
<1>1. /\ events # << >> /\ events' = Tail(events) /\ UNCHANGED <<dialogs, said, temp>>
  BY DEF BusDelivers, permissions
<1>2. e \in Answerable /\ Tail(events) \in Seq(Answerable)
  BY <1>1, HeadTailProperties DEF ConsentOK
<1>3. e \in [type : {"ask", "answer"}, id : Asked, granted : BOOLEAN] /\ e.id \in Asked
  BY <1>2 DEF Answerable
<1>4. CASE e.type = "ask"
  <2>1. wait' = wait /\ signals' = IF monitor THEN Append(signals, e.id) ELSE signals
    BY <1>4 DEF BusDelivers
  <2>2. Asked' = Asked /\ Answerable' = Answerable
    BY <1>1, <2>1 DEF Asked, Answerable
  <2>3. signals' \in Seq(Asked)
    <3>1. signals \in Seq(Asked)
      BY DEF ConsentOK
    <3> HIDE DEF e
    <3> QED
      BY <1>3, <2>1, <3>1, AppendProperties
  <2> QED
    BY <1>1, <1>2, <2>1, <2>2, <2>3 DEF ConsentOK, Honest, ConsentIsUsers
<1>5. CASE e.type # "ask"
  <2> DEFINE meant(q) == wait[q].by # "nobody" /\ ~wait[q].over /\ e.id = q
             new(q) == [wait[q] EXCEPT !.set = TRUE, !.granted = e.granted]
  <2>1. /\ signals' = signals
        /\ wait' = [q \in Request |-> IF meant(q) THEN new(q) ELSE wait[q]]
    BY <1>5 DEF BusDelivers, IsAnswerTo
  <2>2. wait \in [Request -> WaitRecord] /\ e.granted \in BOOLEAN
    BY <1>3 DEF ConsentOK
  <2>3. \A q \in Request :
          /\ new(q) \in WaitRecord
          /\ new(q).by = wait[q].by /\ new(q).perm = wait[q].perm /\ new(q).over = wait[q].over
          /\ new(q).set = TRUE /\ new(q).granted = e.granted
    <3> HIDE DEF e
    <3> QED
      BY <2>2 DEF WaitRecord
  <2>4. e.granted => e.id \in said
    BY <1>2, <1>3, <1>5 DEF Answerable
  <2>5. wait[e.id].by = "ui" => wait[e.id].over
    BY <1>2, <1>3, <1>5 DEF Answerable
  <2> HIDE DEF e, new
  <2>6. /\ wait' \in [Request -> WaitRecord]
        /\ \A q \in Request : /\ wait'[q].by = wait[q].by /\ wait'[q].perm = wait[q].perm
                              /\ wait'[q].over = wait[q].over
    BY <2>1, <2>2, <2>3
  <2>7. \A q \in Request : Honest(q)'
    <3> SUFFICES ASSUME NEW q \in Request PROVE Honest(q)'
      OBVIOUS
    <3>1. Honest(q)
      BY DEF ConsentOK
    <3>2. CASE meant(q)
      <4>1. wait'[q] = new(q) /\ q = e.id /\ wait[q].by # "nobody" /\ ~wait[q].over
        BY <2>1, <3>2
      <4>2. wait'[q].perm = wait[q].perm /\ wait[q].perm \in Perm
        BY <2>6, <3>1, <4>1 DEF Honest
      <4>3. wait'[q].granted => q \in said'
        BY <1>1, <2>3, <2>4, <4>1
      <4>4. wait'[q].by # "ui"
        BY <2>5, <2>6, <4>1
      <4> QED
        BY <4>2, <4>3, <4>4 DEF Honest
    <3>3. CASE ~meant(q)
      <4>1. wait'[q] = wait[q]
        BY <2>1, <3>3
      <4> QED
        BY <1>1, <3>1, <4>1 DEF Honest
    <3> QED
      BY <3>2, <3>3
  <2>8. Asked \subseteq Asked' /\ Answerable \subseteq Answerable'
    BY <1>1, <2>6, AnswersStay
  <2>9. events' \in Seq(Answerable') /\ signals' \in Seq(Asked') /\ dialogs' \in Seq(Asked')
    BY <1>1, <1>2, <2>1, <2>8, LargerSeq DEF ConsentOK
  <2>10. ConsentIsUsers'
    <3> SUFFICES ASSUME NEW x \in temp PROVE \E q \in said : wait'[q].perm = x /\ wait'[q].over
      BY <1>1 DEF ConsentIsUsers
    <3>1. PICK q \in said : wait[q].perm = x /\ wait[q].over
      BY DEF ConsentOK, ConsentIsUsers
    <3>2. q \in Request
      BY <3>1 DEF ConsentOK
    <3> QED
      BY <2>6, <3>1, <3>2
  <2> QED
    BY <1>1, <2>6, <2>7, <2>9, <2>10 DEF ConsentOK
<1> QED
  BY <1>4, <1>5

\* A dialog opens for the question that was signalled first.
LEMMA OpenConsent ==
  ASSUME ConsentOK, DialogOpens
  PROVE  ConsentOK'
<1>1. /\ signals # << >> /\ dialogs' = Append(dialogs, Head(signals)) /\ signals' = Tail(signals)
      /\ UNCHANGED <<wait, events, said, temp>>
  BY DEF DialogOpens, permissions
<1>2. signals \in Seq(Asked) /\ dialogs \in Seq(Asked)
  BY DEF ConsentOK
<1>3. Head(signals) \in Asked /\ Tail(signals) \in Seq(Asked)
  BY <1>1, <1>2, HeadTailProperties
<1>4. Append(dialogs, Head(signals)) \in Seq(Asked)
  BY <1>2, <1>3, AppendProperties
<1>5. Asked' = Asked /\ Answerable' = Answerable
  BY <1>1 DEF Asked, Answerable
<1> QED
  BY <1>1, <1>3, <1>4, <1>5 DEF ConsentOK, Honest, ConsentIsUsers

\* The user answers the innermost dialog, while nobody waits in the interface thread.
LEMMA AnswerConsent ==
  ASSUME ConsentOK, NEW yes \in BOOLEAN, DialogAnswered(yes)
  PROVE  ConsentOK'
<1> DEFINE r == Last(dialogs)
           e == [type |-> "answer", id |-> r, granted |-> yes]
<1>1. /\ UiFree /\ dialogs # << >> /\ dialogs' = Front(dialogs) /\ events' = Append(events, e)
      /\ said' = (IF yes THEN said \cup {r} ELSE said) /\ UNCHANGED <<wait, signals, temp>>
  BY DEF DialogAnswered, permissions
<1>2. r \in Asked /\ Front(dialogs) \in Seq(Asked)
  BY <1>1, FrontLast DEF ConsentOK
<1> HIDE DEF r
<1>3. r \in Request /\ wait[r].by = "ui" => wait[r].over
  BY <1>1 DEF UiFree, Free, Waiting
<1>4. Asked' = Asked
  BY <1>1 DEF Asked
<1>5. said \subseteq said' /\ said' \in SUBSET Request /\ (yes => r \in said')
  BY <1>1, <1>2 DEF ConsentOK, Asked
<1>6. Answerable \subseteq Answerable'
  <2>1. wait' \in [Request -> WaitRecord]
    BY <1>1 DEF ConsentOK
  <2> QED
    BY <1>1, <1>5, <2>1, AnswersStay
<1>7. events' \in Seq(Answerable')
  <2>1. e \in [type : {"ask", "answer"}, id : Asked', granted : BOOLEAN]
    BY <1>2, <1>4
  <2>2. (e.granted => e.id \in said') /\ (wait'[e.id].by = "ui" => wait'[e.id].over)
    <3>1. r \in Request
      BY <1>2 DEF Asked
    <3> QED
      BY <1>1, <1>3, <1>5, <3>1
  <2>3. e \in Answerable'
    BY <2>1, <2>2 DEF Answerable
  <2>4. events \in Seq(Answerable')
    BY <1>6, LargerSeq DEF ConsentOK
  <2> HIDE DEF e
  <2> QED
    BY <1>1, <2>3, <2>4, AppendProperties
<1>8. \A q \in Request : Honest(q)'
  BY <1>1, <1>5 DEF ConsentOK, Honest
<1>9. ConsentIsUsers'
  BY <1>1, <1>5 DEF ConsentOK, ConsentIsUsers
<1>10. signals' \in Seq(Asked') /\ dialogs' \in Seq(Asked')
  BY <1>1, <1>2, <1>4 DEF ConsentOK
<1> QED
  BY <1>1, <1>5, <1>7, <1>8, <1>9, <1>10 DEF ConsentOK

\* A wait ends: what is granted is what this request was for, and its user said so.
LEMMA EndConsent ==
  ASSUME ConsentOK, NEW r \in Request, WaitEnds(r)
  PROVE  ConsentOK' /\ (temp \in SUBSET Perm => temp' \in SUBSET Perm) /\ temp \subseteq temp'
<1> DEFINE rec == [wait[r] EXCEPT !.over = TRUE]
<1>1. /\ wait[r].by # "nobody" /\ wait' = [wait EXCEPT ![r] = rec]
      /\ temp' = IF wait[r].set /\ wait[r].granted THEN temp \cup {wait[r].perm} ELSE temp
      /\ UNCHANGED <<events, signals, dialogs, said>>
  BY DEF WaitEnds
<1>2. wait \in [Request -> WaitRecord] /\ wait[r] \in WaitRecord
  BY DEF ConsentOK
<1>3. /\ rec \in WaitRecord /\ rec.over = TRUE /\ rec.by = wait[r].by /\ rec.perm = wait[r].perm
      /\ rec.set = wait[r].set /\ rec.granted = wait[r].granted
  BY <1>2 DEF WaitRecord
<1> HIDE DEF rec
<1>4. wait' \in [Request -> WaitRecord] /\ \A q \in Request : wait'[q] = IF q = r THEN rec ELSE wait[q]
  BY <1>1, <1>2, <1>3
<1>5. \A q \in Request : /\ wait'[q].by = wait[q].by /\ wait'[q].perm = wait[q].perm
                         /\ wait'[q].set = wait[q].set /\ wait'[q].granted = wait[q].granted
                         /\ (wait[q].over => wait'[q].over)
  <2> TAKE q \in Request
  <2>1. CASE q = r
    BY <1>3, <1>4, <2>1
  <2>2. CASE q # r
    BY <1>4, <2>2
  <2> QED
    BY <2>1, <2>2
<1>6. Asked \subseteq Asked' /\ Answerable \subseteq Answerable'
  BY <1>1, <1>4, <1>5, AnswersStay
<1>7. \A q \in Request : Honest(q)'
  BY <1>1, <1>5 DEF ConsentOK, Honest
<1>8. events' \in Seq(Answerable') /\ signals' \in Seq(Asked') /\ dialogs' \in Seq(Asked')
  BY <1>1, <1>6, LargerSeq DEF ConsentOK
<1>9. ConsentIsUsers'
  <2> SUFFICES ASSUME NEW x \in temp' PROVE \E q \in said : wait'[q].perm = x /\ wait'[q].over
    BY <1>1 DEF ConsentIsUsers
  <2>1. CASE x \in temp
    <3>1. PICK q \in said : wait[q].perm = x /\ wait[q].over
      BY <2>1 DEF ConsentOK, ConsentIsUsers
    <3>2. q \in Request
      BY <3>1 DEF ConsentOK
    <3> QED
      BY <1>5, <3>1, <3>2
  <2>2. CASE x \notin temp
    <3>1. x = wait[r].perm /\ wait[r].set /\ wait[r].granted
      BY <1>1, <2>2
    <3>2. r \in said
      BY <3>1 DEF ConsentOK, Honest
    <3>3. wait'[r].perm = x /\ wait'[r].over
      BY <1>3, <1>4, <3>1
    <3> QED
      BY <3>2, <3>3
  <2> QED
    BY <2>1, <2>2
<1>10. wait[r].perm \in Perm
  BY <1>1 DEF ConsentOK, Honest
<1> QED
  BY <1>1, <1>4, <1>7, <1>8, <1>9, <1>10 DEF ConsentOK

\* A step that makes no call, in the same second.
LEMMA RatesStay ==
  ASSUME RatesOK, UNCHANGED <<studied, second, limits, calls>>,
         call_at' \in [App -> Guard \cup {"idle", "cleared"}],
         \A t \in App : call_at'[t] # call_at[t] => call_at'[t] \notin Limited /\ call_at[t] \notin Limited
  PROVE  RatesOK'
<1>1. second' \in Nat /\ second' >= second
  <2>1. second \in Nat
    BY DEF RatesOK, RatesTyped
  <2> QED
    BY <2>1
<1> QED
  BY <1>1, QuietRates DEF limits

\* Steps of the launches.
LEMMA LaunchSteps ==
  ASSUME SandboxInv, studied' = studied, Launches
  PROVE  SandboxInv'
<1>1. UNCHANGED <<second, permissions, consent, gate>>
  BY DEF Launches, Launch, VerifyAll
<1>2. UNCHANGED <<second, limits, calls, call_at, locked, touched, late>>
  BY <1>1 DEF gate
<1>3. UNCHANGED <<on_disk, cache_read, cached, temp>>
  BY <1>1 DEF permissions
<1>4. UNCHANGED <<wait, events, signals, dialogs, said>>
  BY <1>1 DEF consent
<1>5. RatesOK'
  BY <1>2, RatesStay DEF SandboxInv, RatesOK, RatesTyped
<1>6. AccessOK'
  BY <1>2, <1>3, AccessStays DEF SandboxInv, AccessOK
<1>7. ConsentOK'
  BY <1>3, <1>4, ConsentStays DEF SandboxInv
<1>8. LaunchOK'
  <2>1. ASSUME NEW ends \in {"no_module", "no_class", "raised", "shown"}, Launch(ends) PROVE LaunchOK'
    BY <2>1 DEF Launch, LaunchOK, StatusTellsLaunches, Listed
  <2>2. ASSUME NEW found \in BOOLEAN, VerifyAll(found) PROVE LaunchOK'
    BY <2>2 DEF SandboxInv, VerifyAll, Verified, LaunchOK, StatusTellsLaunches, Listed
  <2> QED
    BY <2>1, <2>2 DEF Launches
<1> QED
  BY <1>5, <1>6, <1>7, <1>8 DEF SandboxInv

\* A launch is no step of the gateway.
LEMMA LaunchStays ==
  ASSUME LaunchOK, UNCHANGED registry
  PROVE  LaunchOK'
  BY DEF LaunchOK, StatusTellsLaunches, Listed, registry

\* A second passes, or the session is locked or unlocked.
LEMMA CommonSteps ==
  ASSUME SandboxInv, studied' = studied, SecondPasses \/ LockSystem \/ UnlockSystem
  PROVE  SandboxInv'
<1>1. UNCHANGED <<registry, permissions, consent, call_at, limits, calls, touched>>
  BY DEF SecondPasses, LockSystem, UnlockSystem, gate
<1>2. UNCHANGED <<wait, events, signals, dialogs, said, on_disk, cache_read, cached, temp>>
  BY <1>1 DEF permissions, consent
<1>3. second \in Nat /\ second' \in Nat /\ second' >= second
  <2>1. second \in Nat /\ (second' = second \/ second' = second + 1)
    BY DEF SandboxInv, RatesOK, RatesTyped, SecondPasses, LockSystem, UnlockSystem
  <2> QED
    BY <2>1
<1>4. RatesOK'
  BY <1>1, <1>3, QuietRates DEF SandboxInv, RatesOK, RatesTyped, limits
<1>5. ConsentOK'
  BY <1>2, ConsentStays DEF SandboxInv
<1>6. AccessOK'
  <2>1. LockedStopsNew'
    BY <1>1 DEF SandboxInv, AccessOK, LockedStopsNew, SecondPasses, LockSystem, UnlockSystem, gate
  <2>2. FilesNeedGrants'
    BY <1>1, <1>2 DEF SandboxInv, AccessOK, FilesNeedGrants
  <2> QED
    BY <1>1, <1>2, <2>1, <2>2 DEF SandboxInv, AccessOK
<1>7. LaunchOK'
  BY <1>1, LaunchStays DEF SandboxInv
<1> QED
  BY <1>4, <1>5, <1>6, <1>7 DEF SandboxInv

\* A call on a guard's property.
LEMMA EnterStep ==
  ASSUME SandboxInv, studied' = studied, NEW t \in App, NEW g \in Guard, NEW kept \in BOOLEAN,
         Enter(t, g, kept), (studied = g /\ g \in Limited) \/ (studied = "grants" /\ g = "fs")
  PROVE  SandboxInv'
<1>1. /\ UNCHANGED <<registry, permissions, consent, locked, touched>>
      /\ late' = (IF locked /\ g = "fs" THEN late \cup {t} ELSE late \ {t})
      /\ call_at' = [call_at EXCEPT ![t] = IF locked /\ ~kept THEN "idle" ELSE g]
  BY DEF Enter
<1>2. UNCHANGED <<wait, events, signals, dialogs, said, on_disk, cache_read, cached, temp>>
  BY <1>1 DEF permissions, consent
<1>3. RatesOK'
  BY EnterRates DEF SandboxInv
<1>4. AccessOK'
  <2>1. call_at' \in [App -> Guard \cup {"idle", "cleared"}]
    BY <1>1 DEF SandboxInv, AccessOK
  <2>2. ASSUME NEW u \in App, call_at'[u] = "cleared"
        PROVE  call_at[u] = "cleared" /\ (u \in late' => u \in late)
    <3>1. u # t
      BY <1>1, <2>2 DEF SandboxInv, AccessOK, Guard
    <3> QED
      BY <1>1, <2>2, <3>1 DEF SandboxInv, AccessOK
  <2> QED
    BY <1>1, <1>2, <2>1, <2>2, AccessStays DEF SandboxInv, AccessOK
<1>5. ConsentOK'
  BY <1>2, ConsentStays DEF SandboxInv
<1>6. LaunchOK'
  BY <1>1, LaunchStays DEF SandboxInv
<1> QED
  BY <1>3, <1>4, <1>5, <1>6 DEF SandboxInv

\* A step of a thread in a limiter, which may look into the manifest at its end.
LEMMA LimiterStep ==
  ASSUME SandboxInv, studied' = studied, NEW t \in App, NEW g \in Limited, studied = g,
         UNCHANGED <<registry, on_disk, temp, consent, locked, touched, late>>,
         call_at' = call_at \/ call_at' = [call_at EXCEPT ![t] = "idle"],
         RatesOK',
         UNCHANGED <<cache_read, cached>> \/ \E p \in {"system_calls", "network_access"} : Consults(p)
  PROVE  SandboxInv'
<1>1. UNCHANGED <<wait, events, signals, dialogs, said>>
  BY DEF consent
<1>2. cached' \in SUBSET Perm /\ cached \subseteq cached' /\ (cache_read' \/ cached' = {})
  <2>1. CASE UNCHANGED <<cache_read, cached>>
    BY <2>1 DEF SandboxInv, AccessOK
  <2>2. CASE \E p \in {"system_calls", "network_access"} : Consults(p)
    BY <2>2, ConsultsIs DEF SandboxInv
  <2> QED
    BY <2>1, <2>2
<1>3. AccessOK'
  <2>1. /\ call_at' \in [App -> Guard \cup {"idle", "cleared"}]
        /\ \A u \in App : call_at'[u] = "cleared" => call_at[u] = "cleared"
    BY DEF SandboxInv, AccessOK
  <2>2. on_disk' \in SUBSET Perm /\ temp' \in SUBSET Perm /\ temp \subseteq temp'
    BY DEF SandboxInv, AccessOK
  <2> QED
    BY <1>2, <2>1, <2>2, AccessStays DEF SandboxInv
<1>4. ConsentOK'
  BY <1>1, ConsentStays DEF SandboxInv
<1>5. LaunchOK'
  BY LaunchStays DEF SandboxInv
<1> QED
  BY <1>3, <1>4, <1>5 DEF SandboxInv

\* A step about the questions, in which no call moves.
LEMMA QuestionSteps ==
  ASSUME SandboxInv, studied' = studied,
         \/ BusDelivers \/ DialogOpens
         \/ \E t \in App, p \in Perm, r \in Request : AskUser(t, r, p)
         \/ \E r \in Request : WaitEnds(r)
         \/ \E b \in BOOLEAN : DialogAnswered(b)
  PROVE  SandboxInv'
<1>1. UNCHANGED <<second, registry, gate, on_disk, cache_read, cached>>
  BY DEF BusDelivers, DialogOpens, AskUser, WaitEnds, DialogAnswered, permissions
<1>2. UNCHANGED <<second, limits, calls, call_at, locked, touched, late>>
  BY <1>1 DEF gate
<1>3. second \in Nat /\ temp \in SUBSET Perm
  BY DEF SandboxInv, RatesOK, RatesTyped, AccessOK
<1>4. ConsentOK' /\ temp' \in SUBSET Perm /\ temp \subseteq temp'
  <2>1. CASE BusDelivers
    BY <1>3, <2>1, BusConsent DEF SandboxInv, BusDelivers, permissions
  <2>2. CASE DialogOpens
    BY <1>3, <2>2, OpenConsent DEF SandboxInv, DialogOpens, permissions
  <2>3. ASSUME NEW t \in App, NEW p \in Perm, NEW r \in Request, AskUser(t, r, p)
        PROVE  ConsentOK' /\ temp' = temp
    BY <1>3, <2>3, AskConsent DEF SandboxInv, AskUser, permissions
  <2>4. ASSUME NEW r \in Request, WaitEnds(r) PROVE ConsentOK' /\ temp' \in SUBSET Perm /\ temp \subseteq temp'
    BY <1>3, <2>4, EndConsent DEF SandboxInv
  <2>5. ASSUME NEW b \in BOOLEAN, DialogAnswered(b) PROVE ConsentOK' /\ temp' = temp
    BY <1>3, <2>5, AnswerConsent DEF SandboxInv, DialogAnswered, permissions
  <2> QED
    BY <1>3, <2>1, <2>2, <2>3, <2>4, <2>5
<1>5. RatesOK'
  BY <1>2, RatesStay DEF SandboxInv, RatesOK, RatesTyped
<1>6. AccessOK'
  BY <1>1, <1>2, <1>4, AccessStays DEF SandboxInv, AccessOK
<1>7. LaunchOK'
  BY <1>1, LaunchStays DEF SandboxInv
<1> QED
  BY <1>4, <1>5, <1>6, <1>7 DEF SandboxInv

\* A file's call is checked: it is cleared only without a lock, and with a permission.
LEMMA CheckStep ==
  ASSUME SandboxInv, studied' = studied, NEW t \in App, NEW inside \in BOOLEAN, FileCheck(t, inside)
  PROVE  SandboxInv'
<1>1. UNCHANGED <<second, registry, on_disk, temp, consent, locked, calls, touched, late, limits>>
  BY DEF FileCheck, Checked
<1>2. UNCHANGED <<wait, events, signals, dialogs, said>>
  BY <1>1 DEF consent
<1>3. cached' \in SUBSET Perm /\ cached \subseteq cached' /\ (cache_read' \/ cached' = {})
  <2>1. CASE locked
    BY <2>1 DEF SandboxInv, AccessOK, FileCheck
  <2>2. CASE ~locked
    BY <2>2, ConsultsIs DEF SandboxInv, FileCheck
  <2> QED
    BY <2>1, <2>2
<1>4. PICK x \in {"idle", "cleared"} :
        /\ call_at' = [call_at EXCEPT ![t] = x]
        /\ x = "cleared" => ~locked /\ "file_access" \in temp \cup cached'
  <2>1. CASE locked
    BY <2>1 DEF FileCheck
  <2>2. CASE ~locked
    <3>1. Allowed("file_access") => "file_access" \in temp \cup cached'
      BY <2>2, ConsultsIs DEF SandboxInv, FileCheck
    <3>2. call_at' = [call_at EXCEPT ![t] = IF Allowed("file_access") /\ inside THEN "cleared" ELSE "idle"]
      BY <2>2 DEF FileCheck
    <3> QED
      BY <2>2, <3>1, <3>2
  <2> QED
    BY <2>1, <2>2
<1>5. /\ call_at' \in [App -> Guard \cup {"idle", "cleared"}]
      /\ \A u \in App : call_at'[u] = IF u = t THEN x ELSE call_at[u]
  BY <1>4 DEF SandboxInv, AccessOK
<1>6. RatesOK'
  <2>1. \A u \in App : call_at'[u] # call_at[u] => call_at'[u] \notin Limited /\ call_at[u] \notin Limited
    BY <1>5 DEF Limited, FileCheck
  <2> QED
    BY <1>1, <1>5, <2>1, RatesStay DEF SandboxInv, RatesOK, RatesTyped
<1>7. AccessOK'
  <2>1. LockedStopsNew'
    BY <1>1, <1>4, <1>5 DEF SandboxInv, AccessOK, LockedStopsNew
  <2>2. FilesNeedGrants'
    <3> SUFFICES ASSUME touched \/ \E u \in App : call_at'[u] = "cleared"
                 PROVE  "file_access" \in temp \cup cached'
      BY <1>1 DEF FilesNeedGrants
    <3>1. CASE x = "cleared"
      BY <1>4, <3>1
    <3>2. CASE x # "cleared"
      <4>1. touched \/ \E u \in App : call_at[u] = "cleared"
        BY <1>5, <3>2
      <4> QED
        BY <1>3, <4>1 DEF SandboxInv, AccessOK, FilesNeedGrants
    <3> QED
      BY <3>1, <3>2
  <2> QED
    BY <1>1, <1>3, <1>5, <2>1, <2>2 DEF SandboxInv, AccessOK
<1>8. ConsentOK'
  BY <1>1, <1>2, ConsentStays DEF SandboxInv
<1>9. LaunchOK'
  BY <1>1, LaunchStays DEF SandboxInv
<1> QED
  BY <1>6, <1>7, <1>8, <1>9 DEF SandboxInv

\* A cleared call is carried out.
LEMMA DoneStep ==
  ASSUME SandboxInv, studied' = studied, NEW t \in App, FileDone(t)
  PROVE  SandboxInv'
<1>1. /\ call_at[t] = "cleared" /\ call_at' = [call_at EXCEPT ![t] = "idle"]
      /\ UNCHANGED <<second, registry, permissions, consent, locked, limits, calls, late>>
  BY DEF FileDone
<1>2. UNCHANGED <<wait, events, signals, dialogs, said, on_disk, cache_read, cached, temp>>
  BY <1>1 DEF permissions, consent
<1>3. /\ call_at' \in [App -> Guard \cup {"idle", "cleared"}]
      /\ \A u \in App : call_at'[u] = IF u = t THEN "idle" ELSE call_at[u]
  BY <1>1 DEF SandboxInv, AccessOK
<1>4. RatesOK'
  <2>1. \A u \in App : call_at'[u] # call_at[u] => call_at'[u] \notin Limited /\ call_at[u] \notin Limited
    BY <1>1, <1>3 DEF Limited
  <2> QED
    BY <1>1, <1>3, <2>1, RatesStay DEF SandboxInv, RatesOK, RatesTyped
<1>5. AccessOK'
  <2>1. "file_access" \in temp \cup cached
    BY <1>1 DEF SandboxInv, AccessOK, FilesNeedGrants
  <2>2. FilesNeedGrants'
    BY <1>2, <2>1 DEF FilesNeedGrants
  <2>3. LockedStopsNew'
    BY <1>1, <1>3 DEF SandboxInv, AccessOK, LockedStopsNew
  <2> QED
    BY <1>2, <1>3, <2>2, <2>3 DEF SandboxInv, AccessOK
<1>6. ConsentOK'
  BY <1>2, ConsentStays DEF SandboxInv
<1>7. LaunchOK'
  BY <1>1, LaunchStays DEF SandboxInv
<1> QED
  BY <1>4, <1>5, <1>6, <1>7 DEF SandboxInv

\* The manifest on the disk is replaced: what was read of it stays.
LEMMA ManifestStep ==
  ASSUME SandboxInv, studied' = studied, NEW m \in Manifests, ManifestChanges(m)
  PROVE  SandboxInv'
<1>1. /\ on_disk' = m /\ UNCHANGED <<second, registry, cache_read, cached, temp, consent, gate>>
  BY DEF ManifestChanges
<1>2. UNCHANGED <<wait, events, signals, dialogs, said>>
  BY <1>1 DEF consent
<1>3. UNCHANGED <<second, limits, calls, call_at, locked, touched, late>>
  BY <1>1 DEF gate
<1>4. RatesOK'
  BY <1>3, RatesStay DEF SandboxInv, RatesOK, RatesTyped
<1>5. AccessOK'
  <2>1. on_disk' \in SUBSET Perm
    BY <1>1 DEF Manifests, Perm
  <2> QED
    BY <1>1, <1>3, <2>1, AccessStays DEF SandboxInv, AccessOK
<1>6. ConsentOK'
  BY <1>1, <1>2, ConsentStays DEF SandboxInv
<1>7. LaunchOK'
  BY <1>1, LaunchStays DEF SandboxInv
<1> QED
  BY <1>4, <1>5, <1>6, <1>7 DEF SandboxInv

\* Every step keeps the invariant.
LEMMA SandboxKeeps == SandboxInv /\ [SandboxNext]_sandboxVars => SandboxInv'
<1> SUFFICES ASSUME SandboxInv, [SandboxNext]_sandboxVars PROVE SandboxInv'
  OBVIOUS
<1>1. CASE UNCHANGED sandboxVars
  <2>1. UNCHANGED <<studied, second, registry, permissions, consent, gate>>
    BY <1>1 DEF sandboxVars
  <2>2. UNCHANGED <<second, limits, calls, call_at, locked, touched, late>>
    BY <2>1 DEF gate
  <2>3. UNCHANGED <<wait, events, signals, dialogs, said, on_disk, cache_read, cached, temp>>
    BY <2>1 DEF permissions, consent
  <2>4. RatesOK'
    BY <2>1, <2>2, RatesStay DEF SandboxInv, RatesOK, RatesTyped
  <2>5. AccessOK'
    BY <2>2, <2>3, AccessStays DEF SandboxInv, AccessOK
  <2>6. ConsentOK'
    BY <2>3, ConsentStays DEF SandboxInv
  <2>7. LaunchOK'
    BY <2>1, LaunchStays DEF SandboxInv
  <2> QED
    BY <2>4, <2>5, <2>6, <2>7 DEF SandboxInv
<1>2. CASE SandboxNext
  <2>1. studied' = studied
    BY <1>2 DEF SandboxNext
  <2>2. CASE studied = "launches" /\ Launches
    BY <2>1, <2>2, LaunchSteps
  <2>3. CASE studied \in Limited /\ Rates(studied)
    <3>1. CASE SecondPasses \/ LockSystem \/ UnlockSystem
      BY <2>1, <3>1, CommonSteps
    <3>2. ASSUME NEW t \in App, NEW b \in BOOLEAN,
                 \/ studied = "process" /\ ProcessCall(t, b)
                 \/ studied = "network" /\ NetworkCall(t, b)
          PROVE  SandboxInv'
      <4>1. UNCHANGED <<cache_read, cached>> \/ \E p \in {"system_calls", "network_access"} : Consults(p)
        BY <3>2 DEF ProcessCall, NetworkCall
      <4>2. Judged(t, studied)
        BY <3>2 DEF ProcessCall, NetworkCall
      <4>3. RatesOK'
        BY <2>1, <2>3, <4>2, JudgedRates DEF SandboxInv
      <4>4. /\ call_at' = [call_at EXCEPT ![t] = "idle"]
            /\ UNCHANGED <<registry, on_disk, temp, consent, locked, touched, late>>
        BY <4>2 DEF Judged, Leaves, Checked
      <4> QED
        BY <2>1, <2>3, <4>1, <4>3, <4>4, LimiterStep
    <3>3. ASSUME NEW t \in App, NEW b \in BOOLEAN, Enter(t, studied, b) PROVE SandboxInv'
      <4>1. studied \in Guard
        BY <2>3 DEF Guard, Limited
      <4> QED
        BY <2>1, <2>3, <3>3, <4>1, EnterStep
    <3>4. ASSUME NEW t \in App,
                 \/ ReadsClock(t, studied) \/ Looks(t, studied) \/ Compares(t, studied)
                 \/ Pops(t, studied) \/ CountsCalls(t, studied) \/ AppendsCall(t, studied)
          PROVE  SandboxInv'
      <4>1. RatesOK'
        BY <2>1, <2>3, <3>4, LimiterRates DEF SandboxInv
      <4>2. /\ UNCHANGED <<registry, on_disk, temp, consent, locked, touched, late, cache_read, cached>>
            /\ call_at' = call_at \/ call_at' = [call_at EXCEPT ![t] = "idle"]
        BY <3>4 DEF ReadsClock, Looks, Compares, Pops, CountsCalls, AppendsCall, Advances, Leaves,
                    Limiting, Checked
      <4> QED
        BY <2>1, <2>3, <4>1, <4>2, LimiterStep
    <3> QED
      BY <2>3, <3>1, <3>2, <3>3, <3>4 DEF Rates
  <2>4. CASE studied = "grants" /\ Grants
    <3>1. CASE SecondPasses \/ LockSystem \/ UnlockSystem
      BY <2>1, <3>1, CommonSteps
    <3>2. CASE \/ BusDelivers \/ DialogOpens
               \/ \E t \in App, p \in Perm, r \in Request : AskUser(t, r, p)
               \/ \E r \in Request : WaitEnds(r)
               \/ \E b \in BOOLEAN : DialogAnswered(b)
      BY <2>1, <3>2, QuestionSteps
    <3>3. ASSUME NEW m \in Manifests, ManifestChanges(m) PROVE SandboxInv'
      BY <2>1, <3>3, ManifestStep
    <3>4. ASSUME NEW t \in App, FileDone(t) PROVE SandboxInv'
      BY <2>1, <3>4, DoneStep
    <3>5. ASSUME NEW t \in App, NEW b \in BOOLEAN, FileCheck(t, b) PROVE SandboxInv'
      BY <2>1, <3>5, CheckStep
    <3>6. ASSUME NEW t \in App, NEW b \in BOOLEAN, Enter(t, "fs", b) PROVE SandboxInv'
      <4>1. "fs" \in Guard
        BY DEF Guard
      <4> QED
        BY <2>1, <2>4, <3>6, <4>1, EnterStep
    <3>7. \/ SecondPasses \/ LockSystem \/ UnlockSystem \/ BusDelivers \/ DialogOpens
          \/ \E t \in App, p \in Perm, r \in Request : AskUser(t, r, p)
          \/ \E r \in Request : WaitEnds(r)
          \/ \E b \in BOOLEAN : DialogAnswered(b)
          \/ \E m \in Manifests : ManifestChanges(m)
          \/ \E t \in App : FileDone(t)
          \/ \E t \in App, b \in BOOLEAN : FileCheck(t, b) \/ Enter(t, "fs", b)
      BY <2>4 DEF Grants
    <3> QED
      BY <3>1, <3>2, <3>3, <3>4, <3>5, <3>6, <3>7
  <2> QED
    BY <1>2, <2>2, <2>3, <2>4 DEF SandboxNext
<1> QED
  BY <1>1, <1>2

\* The invariant says what is promised.
LEMMA SandboxInvSound == SandboxInv => SandboxSound
<1> SUFFICES ASSUME SandboxInv PROVE SandboxSound
  OBVIOUS
<1>1. SandboxTypeOK
  <2>1. \A g \in Limited : Len(window[g]) <= MaxCalls
    <3> SUFFICES ASSUME NEW g \in Limited PROVE Len(window[g]) <= MaxCalls
      OBVIOUS
    <3>1. CASE studied \in Limited
      <4>1. /\ Len(window[g]) + Pending("ui", g) + Pending("own", g) <= calls
            /\ calls <= MaxCalls /\ calls \in Nat /\ Len(window[g]) \in Nat
        BY <3>1 DEF SandboxInv, RatesOK, RatesTyped
      <4>2. Pending("ui", g) \in Nat /\ Pending("own", g) \in Nat
        BY DEF Pending
      <4> QED
        BY <4>1, <4>2, SandboxAssumption
    <3>2. CASE studied \notin Limited
      <4>1. window[g] = << >>
        BY <3>2 DEF SandboxInv, RatesOK, RatesTyped
      <4> QED
        BY <4>1, EmptySeq, SandboxAssumption
    <3> QED
      BY <3>1, <3>2
  <2> QED
    BY <2>1 DEF SandboxInv, LaunchOK, AccessOK, SandboxTypeOK
<1>2. RateHolds
  <2> SUFFICES ASSUME NEW g \in Limited \ crossed, NEW i \in DOMAIN admitted[g]
               PROVE  Hits(admitted[g], admitted[g][i]..(admitted[g][i] + 1)) <= Limit + Soft
    BY DEF RateHolds, WithinSecond, Hits
  <2>1. admitted[g] \in Seq(Nat)
    BY DEF SandboxInv, RatesOK, RatesTyped
  <2>2. admitted[g][i] \in Nat
    BY <2>1
  <2>3. Within(g)
    BY DEF SandboxInv, RatesOK, Fair
  <2> QED
    BY <2>2, <2>3 DEF Within
<1>3. InterfaceAsksInVain
  BY DEF SandboxInv, ConsentOK, Honest, InterfaceAsksInVain
<1> QED
  BY <1>1, <1>2, <1>3 DEF SandboxInv, LaunchOK, AccessOK, ConsentOK, SandboxSound

\* Whatever an application calls, asks for or is refused: while no two of its threads were in the
\* limiter of a guard at a time, no second sees more of its calls than the limit and its grace; a
\* permission is the user's, for just that, or the manifest's as it was first read; a lock stops
\* the calls that begin after it; and what could not be launched is not listed (process_guard.py,
\* network_guard.py, fs_guard.py, permissions.py, app_registry.py), for any limits and numbers of
\* requests.
THEOREM SandboxAlwaysSound == SandboxSpec => []SandboxSound
<1>1. SandboxInit => SandboxInv
  BY SandboxBegin
<1>2. SandboxInv /\ [SandboxNext]_sandboxVars => SandboxInv'
  BY SandboxKeeps
<1>3. SandboxInv => SandboxSound
  BY SandboxInvSound
<1> QED
  BY <1>1, <1>2, <1>3, PTL DEF SandboxSpec
=============================================================================
