----------------------------- MODULE MemoryLedger -----------------------------
(***************************************************************************)
(* What the memory manager promises its callers, without blocks, starts,   *)
(* policies or compaction: how much each process has, of plain and of      *)
(* secure memory, and the four operations that may change that.            *)
(***************************************************************************)
EXTENDS Naturals, FiniteSetsExt

CONSTANTS Pid, Total, Sizes

VARIABLES
  plain,      \* units of plain memory of each process
  secure,     \* units of secure memory of each process
  locked      \* is the vault locked?

vars == <<plain, secure, locked>>

Has(p) == plain[p] + secure[p]
Used == MapThenSumSet(Has, Pid)

Init ==
  /\ plain = [p \in Pid |-> 0] /\ secure = [p \in Pid |-> 0]
  /\ locked = TRUE

\* A quarter of memory is the most a process can have.
Fits(p, size) == Has(p) + size <= Total \div 4 /\ Used + size <= Total

AllocatePlain(p, size) ==
  /\ Fits(p, size)
  /\ plain' = [plain EXCEPT ![p] = @ + size]
  /\ UNCHANGED <<secure, locked>>

AllocateSecure(p, size) ==
  /\ Fits(p, size) /\ ~locked
  /\ secure' = [secure EXCEPT ![p] = @ + size]
  /\ UNCHANGED <<plain, locked>>

Deallocate(p) ==
  /\ plain' = [plain EXCEPT ![p] = 0]
  /\ secure' = [secure EXCEPT ![p] = 0]
  /\ UNCHANGED locked

Unlock ==
  /\ locked /\ locked' = FALSE
  /\ UNCHANGED <<plain, secure>>

Lock ==
  /\ ~locked /\ locked' = TRUE
  /\ secure' = [p \in Pid |-> 0]
  /\ UNCHANGED plain

Next ==
  \/ \E p \in Pid :
       Deallocate(p) \/ \E size \in Sizes : AllocatePlain(p, size) \/ AllocateSecure(p, size)
  \/ Unlock \/ Lock

Spec == Init /\ [][Next]_vars
=============================================================================
