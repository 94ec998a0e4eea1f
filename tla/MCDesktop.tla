------------------------------ MODULE MCDesktop ------------------------------
(* Three parts of the desktop in one run: an isolated application with two     *)
(* starts, the first, and a restart that meets the threads of the first; the   *)
(* front end with a terminal tab; and two plans with the undo stack.  They     *)
(* share no state, so the initial state picks the one that moves.              *)
EXTENDS IsolatedApp, Terminal, Automation

CONSTANTS admin, guest, p1, p2       \* of the front end

VARIABLE part

\* An application whose window was closed and whose engine, threads and timers are gone.
Over ==
  /\ state = "TERMINATED" /\ running = FALSE /\ handshake_done = TRUE /\ current = MaxStarts
  /\ engine = [s \in Start |-> "dead"] /\ inbox = [s \in Start |-> << >>]
  /\ drain = [s \in Start |-> "gone"] /\ timer = [s \in Start |-> "over"]
  /\ reports = 0 /\ restart_shown = FALSE /\ restarts_due = 0 /\ closed = TRUE

\* A part that does not move starts in one of its states only.
MCInit ==
  /\ part \in {"apps", "front", "plans"}
  /\ IF part = "apps" THEN Init ELSE Over
  /\ TerminalInit /\ (part # "front" => core)
  /\ PlanInit

MCNext ==
  /\ part' = part
  /\ \/ part = "apps" /\ Next /\ UNCHANGED <<allVars, planVars>>
     \/ part = "front" /\ TerminalNext /\ UNCHANGED <<vars, planVars>>
     \/ part = "plans" /\ PlanNext /\ UNCHANGED <<vars, allVars>>

MCSpec ==
  /\ MCInit /\ [][MCNext]_<<part, vars, allVars, planVars>>
  /\ Fairness /\ FrontFairness
=============================================================================
