----------------------------- MODULE FifoResources -----------------------------
(***************************************************************************)
(* What the resource table promises its callers, without its counters,     *)
(* per-process tables and priorities: the units of a resource are held by  *)
(* as many different processes at most; who finds none waits in line; and  *)
(* a unit that is given up goes to the head of the line in the same step.  *)
(***************************************************************************)
EXTENDS Naturals, Sequences, FiniteSets

CONSTANTS Pid, Rid, Total

VARIABLES
  table,      \* the resources there are
  holders,    \* the processes that hold a unit of a resource
  line        \* the processes that wait for one, in order

vars == <<table, holders, line>>

InLine(p, r) == \E i \in 1..Len(line[r]) : line[r][i] = p

Init ==
  /\ table = {}
  /\ holders = [r \in Rid |-> {}]
  /\ line = [r \in Rid |-> <<>>]

Add(r) ==
  /\ r \notin table
  /\ table' = table \cup {r}
  /\ UNCHANGED <<holders, line>>

Remove(r) ==
  /\ r \in table /\ holders[r] = {} /\ line[r] = <<>>
  /\ table' = table \ {r}
  /\ UNCHANGED <<holders, line>>

Take(p, r) ==
  /\ r \in table
  /\ p \notin holders[r] /\ line[r] = <<>>
  /\ Cardinality(holders[r]) < Total[r]
  /\ holders' = [holders EXCEPT ![r] = @ \cup {p}]
  /\ UNCHANGED <<table, line>>

Join(p, r) ==
  /\ r \in table
  /\ p \notin holders[r] /\ ~InLine(p, r)
  /\ Cardinality(holders[r]) = Total[r]
  /\ line' = [line EXCEPT ![r] = Append(@, p)]
  /\ UNCHANGED <<table, holders>>

\* Who has a unit of r, and who waits for one, after p has given up its own.
HoldersWithout(p, r) ==
  (holders[r] \ {p}) \cup (IF line[r] = <<>> THEN {} ELSE {Head(line[r])})
LineAfter(r) == IF line[r] = <<>> THEN <<>> ELSE Tail(line[r])

GiveUp(p, r) ==
  /\ r \in table /\ p \in holders[r]
  /\ holders' = [holders EXCEPT ![r] = HoldersWithout(p, r)]
  /\ line' = [line EXCEPT ![r] = LineAfter(r)]
  /\ UNCHANGED table

\* p steps out of the line: the others keep their order.
LineWithout(p, r) ==
  IF InLine(p, r)
  THEN LET i == CHOOSE i \in 1..Len(line[r]) : line[r][i] = p
       IN  SubSeq(line[r], 1, i - 1) \o SubSeq(line[r], i + 1, Len(line[r]))
  ELSE line[r]

\* All that p holds and awaits, given up at once.
Leave(p) ==
  /\ holders' = [r \in Rid |-> IF p \in holders[r] THEN HoldersWithout(p, r) ELSE holders[r]]
  /\ line' = [r \in Rid |-> IF p \in holders[r] THEN LineAfter(r) ELSE LineWithout(p, r)]
  /\ UNCHANGED table

Next ==
  \/ \E r \in Rid : Add(r) \/ Remove(r)
  \/ \E p \in Pid, r \in Rid : Take(p, r) \/ Join(p, r) \/ GiveUp(p, r)
  \/ \E p \in Pid : Leave(p)

Spec == Init /\ [][Next]_vars
=============================================================================
