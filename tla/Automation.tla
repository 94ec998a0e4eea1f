------------------------------ MODULE Automation ------------------------------
(***************************************************************************)
(* Plans and undo (system/orchestration_engine.py, automation_engine.py).  *)
(* The interface's thread starts a plan, aborts it when a window is closed *)
(* or the session is locked, undoes what is on the undo stack, and sleeps  *)
(* between the steps it takes back; each plan has a thread of its own,     *)
(* which does its steps, puts the plan on the undo stack and ends.         *)
(*                                                                         *)
(* _lock is not reentrant.  Nobody holds it for longer than a step here,   *)
(* but who starts a plan in place of another one; _undo_lock is held while *)
(* an undo is carried out.  A step launches an application of its own, and *)
(* is taken back by a kill.  COMMAND_EXECUTED, by which both are ordered,  *)
(* has no subscriber, so that no step raises and _handle_failure is unused.*)
(***************************************************************************)
EXTENDS Naturals, FiniteSets, SequencesExt

CONSTANTS
  Plans,       \* plans that are executed: 1 to some number, in the order of their starts
  Length,      \* steps of a plan
  MaxUndo,     \* entries of the undo stack, 10 in the code
  MaxActs      \* bound on the events from outside

ASSUME PlanAssumption ==
  Plans \subseteq Nat \ {0} /\ Length \in Nat \ {0} /\ MaxUndo \in Nat \ {0} /\ MaxActs \in Nat

VARIABLES
  active,      \* _active_plan, 0 for none
  stop,        \* _stop_event
  completed,   \* _completed_steps, which all plans share
  runner,      \* where a plan's thread is
  step,        \* the number of its step
  main,        \* what the interface's thread does
  owed,        \* the steps it has yet to take back, or Unread
  stack,       \* _undo_stack: a plan, or 0 for the restart of an application
  stats,       \* _stats: the outcomes recorded
  acts,
  ordered, reversed,  \* history: steps launched, and killed
  aborted,     \* history: plans whose abort came to its end
  overlap,     \* history: a plan was started while an earlier one's thread was alive
  earlier      \* history: plans from before the last change of the session

planVars == <<active, stop, completed, runner, step, main, owed, stack, stats, acts,
              ordered, reversed, aborted, overlap, earlier>>

\* A list that no plan has.
Unread == << <<0, 0>> >>
ThreadLives(p) == runner[p] \notin {"none", "gone"}
StepsOf(p) == {p} \X (1..Length)

PlanInit ==
  /\ active = 0 /\ stop = FALSE /\ completed = << >>
  /\ runner = [p \in Plans |-> "none"] /\ step = [p \in Plans |-> 1]
  /\ main = "idle" /\ owed = Unread /\ stack = << >>
  /\ stats = [p \in Plans |-> [success |-> 0, rollback |-> 0]] /\ acts = 0
  /\ ordered = {} /\ reversed = {} /\ aborted = {} /\ overlap = FALSE /\ earlier = {}

\* _record_outcome.
Recorded(p, outcome) == stats' = [stats EXCEPT ![p][outcome] = @ + 1]

\* Mutant: the stack is not shortened.
PushedAll(s, entry) == Append(s, entry)

\* _push_undo: the oldest entry goes.
Pushed(s, entry) ==
  LET longer == Append(s, entry) IN IF Len(longer) > MaxUndo THEN Tail(longer) ELSE longer

-----------------------------------------------------------------------------
(* A plan's thread: _run_loop                                              *)

Thread(p, from, to) == runner[p] = from /\ runner' = [runner EXCEPT ![p] = to]

\* Mutant: the event is not looked at between the steps.
NeverStops(p) == FALSE

\* _stop_event.is_set, before each step.
Stops(p) == stop

Aborts(p) ==
  /\ Stops(p) /\ Thread(p, "looking", "gone") /\ Recorded(p, "rollback")
  /\ UNCHANGED <<active, stop, completed, step, main, owed, stack, acts, ordered, reversed,
                 aborted, overlap, earlier>>

GoesOn(p) ==
  /\ ~Stops(p) /\ Thread(p, "looking", "sleeping")
  /\ UNCHANGED <<active, stop, completed, step, main, owed, stack, stats, acts, ordered,
                 reversed, aborted, overlap, earlier>>

Orders(p) ==
  /\ Thread(p, "sleeping", "listing")
  /\ ordered' = ordered \cup {<<p, step[p]>>}
  /\ UNCHANGED <<active, stop, completed, step, main, owed, stack, stats, acts, reversed,
                 aborted, overlap, earlier>>

Lists(p) ==
  /\ Thread(p, "listing", IF step[p] = Length THEN "pushing" ELSE "looking")
  /\ completed' = Append(completed, <<p, step[p]>>) /\ step' = [step EXCEPT ![p] = @ + 1]
  /\ UNCHANGED <<active, stop, main, owed, stack, stats, acts, ordered, reversed, aborted,
                 overlap, earlier>>

\* _undo_lock is the interface's while it undoes.
Pushes(p) ==
  /\ main # "undo" /\ Thread(p, "pushing", "counting")
  /\ stack' = Pushed(stack, p)
  /\ UNCHANGED <<active, stop, completed, step, main, owed, stats, acts, ordered, reversed,
                 aborted, overlap, earlier>>

Succeeds(p) ==
  /\ Thread(p, "counting", "clearing") /\ Recorded(p, "success")
  /\ UNCHANGED <<active, stop, completed, step, main, owed, stack, acts, ordered, reversed,
                 aborted, overlap, earlier>>

\* Whatever plan is the active one; not while the interface has _lock.
Clears(p) ==
  /\ main \notin {"replace", "stuck"} /\ Thread(p, "clearing", "gone")
  /\ active' = 0
  /\ UNCHANGED <<stop, completed, step, main, owed, stack, stats, acts, ordered, reversed,
                 aborted, overlap, earlier>>

-----------------------------------------------------------------------------
(* The interface's thread                                                  *)

\* Mutant: the steps of the plan before stay in the list.
ListKept(steps) == steps

\* What a plan starts with.
Emptied(steps) == << >>

\* execute_plan.
Execute(p) ==
  /\ main = "idle" /\ active = 0 /\ runner[p] = "none" /\ \A q \in Plans : q < p => runner[q] # "none"
  /\ active' = p /\ stop' = FALSE /\ completed' = Emptied(completed)
  /\ runner' = [runner EXCEPT ![p] = "looking"]
  /\ overlap' = (overlap \/ \E q \in Plans : ThreadLives(q))
  /\ UNCHANGED <<step, main, owed, stack, stats, acts, ordered, reversed, aborted, earlier>>

\* abort_current_plan, up to the file of the outcomes.
BeginsAbort(how) ==
  /\ stop' = TRUE /\ Recorded(active, "rollback")
  /\ main' = how

\* execute_plan while a plan is active aborts that one, with _lock held.
Replace(p) ==
  /\ main = "idle" /\ active # 0 /\ runner[p] = "none" /\ \A q \in Plans : q < p => runner[q] # "none"
  /\ BeginsAbort("replace")
  /\ UNCHANGED <<active, completed, runner, step, owed, stack, acts, ordered, reversed,
                 aborted, overlap, earlier>>

Acts == main = "idle" /\ acts < MaxActs /\ acts' = acts + 1

WindowClosed ==
  /\ Acts /\ active # 0 /\ BeginsAbort("abort")
  /\ UNCHANGED <<active, completed, runner, step, owed, stack, ordered, reversed, aborted,
                 overlap, earlier>>

\* _on_system_event of both engines: the stack is cleared, on a lock a plan is aborted.
SessionChanges(locks) ==
  /\ Acts /\ stack' = << >> /\ earlier' = {p \in Plans : runner[p] # "none"}
  /\ IF locks /\ active # 0 THEN BeginsAbort("abort") ELSE UNCHANGED <<stop, stats, main>>
  /\ UNCHANGED <<active, completed, runner, step, owed, ordered, reversed, aborted, overlap>>

\* After the file is written the active plan is asked for again: without one this raises.
ReadsSteps ==
  /\ main \in {"abort", "replace"} /\ owed = Unread
  /\ IF active = 0 THEN main' = "idle" /\ UNCHANGED owed
     ELSE owed' = Reverse(completed) /\ UNCHANGED main
  /\ UNCHANGED <<active, stop, completed, runner, step, stack, stats, acts, ordered, reversed,
                 aborted, overlap, earlier>>

\* _execute_rollback: a step, and a tenth of a second.
TakesBack ==
  /\ owed \notin {Unread, << >>} /\ owed' = Tail(owed)
  /\ reversed' = reversed \cup {Head(owed)}
  /\ UNCHANGED <<active, stop, completed, runner, step, main, stack, stats, acts, ordered,
                 aborted, overlap, earlier>>

\* The end of abort_current_plan takes _lock, which execute_plan has already.
Ends ==
  /\ owed = << >> /\ owed' = Unread
  /\ main' = (IF main = "replace" THEN "stuck" ELSE "idle")
  /\ IF main = "abort" THEN active' = 0 /\ aborted' = aborted \cup ({active} \ {0})
     ELSE UNCHANGED <<active, aborted>>
  /\ UNCHANGED <<stop, completed, runner, step, stack, stats, acts, ordered, reversed, overlap,
                 earlier>>

\* perform_undo: what a plan's entry takes back is what the list holds by then; a restart's
\* is valid if the application has a window.
Undo ==
  /\ main = "idle" /\ stack # << >> /\ stack' = Front(stack)
  /\ IF Last(stack) = 0 THEN UNCHANGED <<main, owed>>
     ELSE main' = "undo" /\ owed' = Reverse(completed)
  /\ UNCHANGED <<active, stop, completed, runner, step, stats, acts, ordered, reversed, aborted,
                 overlap, earlier>>

\* An application crashes, and is restarted.
AppCrashed ==
  /\ Acts /\ stack' = Pushed(stack, 0)
  /\ UNCHANGED <<active, stop, completed, runner, step, main, owed, stats, ordered, reversed,
                 aborted, overlap, earlier>>

RunLoop(p) ==
  Aborts(p) \/ GoesOn(p) \/ Orders(p) \/ Lists(p) \/ Pushes(p) \/ Succeeds(p) \/ Clears(p)

PlanNext ==
  \/ \E p \in Plans : Execute(p) \/ Replace(p) \/ RunLoop(p)
  \/ WindowClosed \/ (\E locks \in BOOLEAN : SessionChanges(locks))
  \/ ReadsSteps \/ TakesBack \/ Ends \/ Undo \/ AppCrashed

PlanSpec == PlanInit /\ [][PlanNext]_planVars

-----------------------------------------------------------------------------
(* Properties                                                              *)

Latest(p) == \A q \in Plans : q > p => runner[q] = "none"

\* An abort takes back what the plan has done, but for the one step its thread may be in:
\* until another plan is started, whose start lets an aborted one go on.
OneStepLeft ==
  \A p \in aborted : Latest(p) => Cardinality((ordered \cap StepsOf(p)) \ reversed) <= 1

\* Every plan that is over was counted; as a success exactly when it did all its steps, and
\* as rolled back by the abort, by its thread, or by both.
OutcomesCounted ==
  \A p \in Plans : runner[p] = "gone" =>
    /\ stats[p].success = (IF StepsOf(p) \subseteq ordered THEN 1 ELSE 0)
    /\ stats[p].rollback \in 0..2 /\ stats[p].success + stats[p].rollback > 0

\* A plan whose thread works can be aborted, or is being stopped: unless its predecessor's
\* thread, which makes nobody the active plan when it ends, was alive at its start.
NobodyUnstoppable ==
  ~overlap /\ main = "idle" =>
    /\ active # 0 => ThreadLives(active)
    /\ \A p \in Plans : ThreadLives(p) => active = p \/ stop

\* The undo of a plan takes back that plan's steps, if none was started after it and none
\* was alive beside it.
UndoOfItsPlan ==
  ~overlap => \A i \in DOMAIN stack : \A p \in Plans :
    stack[i] = p /\ Latest(p) => ToSet(completed) = StepsOf(p)

\* A lock or an unlock leaves nothing to undo; but the plan that was ending may still come.
FreshSession ==
  /\ Len(stack) <= MaxUndo
  /\ ~overlap => Cardinality({i \in DOMAIN stack : stack[i] \in earlier}) <= 1

\* Plans and undo keep what they promise, as far as no plan is started too early.
PlansSound ==
  OneStepLeft /\ OutcomesCounted /\ NobodyUnstoppable /\ UndoOfItsPlan /\ FreshSession
===============================================================================
