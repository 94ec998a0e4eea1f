------------------------------ MODULE MCKernel ------------------------------
(* The services of the simulated kernel in one run: the scheduler, the bus,    *)
(* the objects processes meet at, and the clock with its interrupts.  They     *)
(* meet through events only, which each module takes in any order, so the      *)
(* initial state picks the part that moves; the others stay in theirs.         *)
EXTENDS Scheduler, EventBus, KernelObjects, KernelClock

VARIABLE part

kernelVars == <<part, vars, busVars, objectVars, clockVars>>

MCInit ==
  /\ part \in {"scheduler", "bus", "objects", "clock"}
  /\ Init /\ BusInit /\ ClockInit
  /\ ObjectsInit /\ (part # "objects" => studied = "ipc")
  /\ part # "scheduler" => algorithm = CHOOSE a \in Algorithms : TRUE

MCNext ==
  /\ part' = part
  /\ \/ part = "scheduler" /\ Next /\ UNCHANGED <<busVars, objectVars, clockVars>>
     \/ part = "bus" /\ BusNext /\ UNCHANGED <<vars, objectVars, clockVars>>
     \/ part = "objects" /\ ObjectsNext /\ UNCHANGED <<vars, busVars, clockVars>>
     \/ part = "clock" /\ ClockNext /\ UNCHANGED <<vars, busVars, objectVars>>

MCSpec == MCInit /\ [][MCNext]_kernelVars
=============================================================================
