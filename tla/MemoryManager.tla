---------------------------- MODULE MemoryManager ----------------------------
(***************************************************************************)
(* Simulated RAM (src/system/kernel/memory_manager.py with                 *)
(* _memory_allocator.py, _memory_compactor.py and _memory_types.py): a     *)
(* list of blocks, each free or owned by a process, from which blocks are  *)
(* cut, and which is merged after every release.  A block may be secure:   *)
(* such blocks exist only while the vault is unlocked.  Every operation    *)
(* holds the manager's lock.                                               *)
(***************************************************************************)
EXTENDS Integers, Sequences, FiniteSets, SequencesExt

CONSTANTS
  Pid,
  NoPid,      \* the pid of a free block
  Total,      \* units of RAM (1024)
  Sizes,      \* the sizes callers ask for
  Policies    \* the policies set_policy is called with

\* The run's module states this as its ASSUME.
MemAssumption ==
  /\ NoPid \notin Pid
  /\ Total \in Nat \ {0} /\ Sizes \subseteq Nat \ {0}
  /\ Policies \subseteq {"FIRST_FIT", "BEST_FIT", "WORST_FIT"}

VARIABLES blocks, policy, secure_locked

vars == <<blocks, policy, secure_locked>>

Block(start, size, pid, secure) ==
  [start |-> start, size |-> size, pid |-> pid, is_secure |-> secure]

IsFree(blk) == blk.pid = NoPid

\* The sum of the sizes of the blocks that satisfy Test.
SizeOf(blks, Test(_)) ==
  FoldLeft(LAMBDA sum, blk : IF Test(blk) THEN sum + blk.size ELSE sum, 0, blks)

Held(p) == SizeOf(blocks, LAMBDA blk : blk.pid = p)

TypeOK ==
  /\ \A i \in 1..Len(blocks) :
       /\ blocks[i].start \in 0..(Total - 1) /\ blocks[i].size \in 1..Total
       /\ blocks[i].pid \in Pid \cup {NoPid} /\ blocks[i].is_secure \in BOOLEAN
  /\ policy \in Policies
  /\ secure_locked \in BOOLEAN

Init ==
  /\ blocks = <<Block(0, Total, NoPid, FALSE)>>
  /\ policy \in Policies
  /\ secure_locked = TRUE

-----------------------------------------------------------------------------
(* Allocation *)

Quota == Total \div 4

QuotaAllows(p, size) == Held(p) + size <= Quota

Candidates(size) == {i \in 1..Len(blocks) : IsFree(blocks[i]) /\ blocks[i].size >= size}

\* The index find_free_block returns: the first of the equally good ones.
Chosen(size) ==
  LET Fits(i, j) == CASE policy = "FIRST_FIT" -> i <= j
                      [] policy = "BEST_FIT"  -> blocks[i].size <= blocks[j].size
                      [] policy = "WORST_FIT" -> blocks[i].size >= blocks[j].size
      best == {i \in Candidates(size) : \A j \in Candidates(size) : Fits(i, j)}
  IN  CHOOSE i \in best : \A j \in best : i <= j

\* The block list after the request is cut from block i.
Split(i, p, size, secure) ==
  LET blk  == blocks[i]
      rest == Block(blk.start + size, blk.size - size, NoPid, FALSE)
  IN  SubSeq(blocks, 1, i - 1)
        \o <<Block(blk.start, size, p, secure)>>
        \o (IF blk.size > size THEN <<rest>> ELSE <<>>)
        \o SubSeq(blocks, i + 1, Len(blocks))

\* A request that is refused, or that finds no block, changes nothing.
Allocate(p, size, secure) ==
  /\ QuotaAllows(p, size)
  /\ ~(secure /\ secure_locked)
  /\ Candidates(size) # {}
  /\ blocks' = Split(Chosen(size), p, size, secure)
  /\ UNCHANGED <<policy, secure_locked>>

-----------------------------------------------------------------------------
(* Release *)

\* Mutant: a free block swallows whatever comes next.
SwallowsNext(blks) ==
  LET Merge(done, blk) ==
        IF done # <<>> /\ IsFree(Last(done))
        THEN Append(Front(done), [Last(done) EXCEPT !.size = @ + blk.size])
        ELSE Append(done, blk)
  IN  FoldLeft(Merge, <<>>, blks)

\* coalesce: one pass that merges each free block into the free block before it.
Coalesce(blks) ==
  LET Merge(done, blk) ==
        IF done # <<>> /\ IsFree(Last(done)) /\ IsFree(blk)
        THEN Append(Front(done), [Last(done) EXCEPT !.size = @ + blk.size])
        ELSE Append(done, blk)
  IN  FoldLeft(Merge, <<>>, blks)

\* Mutant: a freed block keeps its secure mark.
FreedStaysSecure(blk) == [blk EXCEPT !.pid = NoPid]
Freed(blk) == [blk EXCEPT !.pid = NoPid, !.is_secure = FALSE]

\* The list after the blocks that satisfy Test are freed.
Without(Test(_)) ==
  Coalesce([i \in 1..Len(blocks) |-> IF Test(blocks[i]) THEN Freed(blocks[i]) ELSE blocks[i]])

Deallocate(p) ==
  /\ Held(p) > 0
  /\ blocks' = Without(LAMBDA blk : blk.pid = p)
  /\ UNCHANGED <<policy, secure_locked>>

\* EVENT_QVAULT_UNLOCKED
UnlockSecureRegions ==
  /\ secure_locked
  /\ secure_locked' = FALSE
  /\ UNCHANGED <<blocks, policy>>

\* EVENT_QVAULT_LOCKED and EVENT_QVAULT_DISCONNECTED: the secure blocks are freed.
LockSecureRegions ==
  /\ ~secure_locked
  /\ secure_locked' = TRUE
  /\ blocks' = Without(LAMBDA blk : blk.is_secure /\ ~IsFree(blk))
  /\ UNCHANGED policy

-----------------------------------------------------------------------------
(* Compaction and policy *)

\* Mutant: blocks are moved together and keep their old starts.
PackedInPlace(blks) == SelectSeq(blks, LAMBDA blk : ~IsFree(blk))

\* The owned blocks in order, each starting where the one before ends.
Packed(blks) ==
  LET Place(done, blk) ==
        Append(done, [blk EXCEPT !.start = IF done = <<>> THEN 0
                                           ELSE Last(done).start + Last(done).size])
  IN  FoldLeft(Place, <<>>, SelectSeq(blks, LAMBDA blk : ~IsFree(blk)))

Compact ==
  /\ \E i \in 1..Len(blocks) : IsFree(blocks[i])
  /\ LET used == SizeOf(blocks, LAMBDA blk : ~IsFree(blk))
     IN  blocks' = IF used < Total
                   THEN Append(Packed(blocks), Block(used, Total - used, NoPid, FALSE))
                   ELSE Packed(blocks)
  /\ UNCHANGED <<policy, secure_locked>>

SetPolicy(p) ==
  /\ p # policy
  /\ policy' = p
  /\ UNCHANGED <<blocks, secure_locked>>

Next ==
  \/ \E p \in Pid :
       Deallocate(p) \/ \E size \in Sizes, secure \in BOOLEAN : Allocate(p, size, secure)
  \/ UnlockSecureRegions \/ LockSecureRegions
  \/ Compact \/ \E p \in Policies : SetPolicy(p)

Spec == Init /\ [][Next]_vars

-----------------------------------------------------------------------------
(* Properties *)

\* The blocks tile RAM: they start at 0, each begins where the one before ends, and
\* the last ends at the total.  No unit is lost, and none has two owners.
Tiles ==
  /\ blocks[1].start = 0
  /\ \A i \in 2..Len(blocks) : blocks[i].start = blocks[i - 1].start + blocks[i - 1].size
  /\ Last(blocks).start + Last(blocks).size = Total

\* No two free blocks touch: a request is refused for want of a block only when no
\* contiguous free space is large enough.
NoFreeNeighbours ==
  \A i \in 2..Len(blocks) : ~(IsFree(blocks[i - 1]) /\ IsFree(blocks[i]))

\* No process holds more than its quota, however its requests are spread.
WithinQuota == \A p \in Pid : Held(p) <= Quota

\* While the vault is locked there is no secure block.
LockedHasNoSecure ==
  \A i \in 1..Len(blocks) : blocks[i].is_secure => ~secure_locked /\ ~IsFree(blocks[i])

\* The block list is sound: typed, gapless, merged, within the quotas and without a secure
\* block under a lock, through every sequence of splits, releases, locks, compactions and
\* policy changes.
BlocksSound == TypeOK /\ Tiles /\ NoFreeNeighbours /\ WithinQuota /\ LockedHasNoSecure

\* The manager implements MemoryLedger: no split, merge, compaction or policy changes
\* what a process has, and an operation of one process takes nothing from another.
SizeOwned(p, secure) == SizeOf(blocks, LAMBDA blk : blk.pid = p /\ blk.is_secure = secure)
Ledger == INSTANCE MemoryLedger WITH plain  <- [p \in Pid |-> SizeOwned(p, FALSE)],
                                     secure <- [p \in Pid |-> SizeOwned(p, TRUE)],
                                     locked <- secure_locked
ImplementsLedger == Ledger!Spec
=============================================================================
