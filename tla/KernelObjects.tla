----------------------------- MODULE KernelObjects -----------------------------
(* The objects threads and processes of the simulated kernel meet at           *)
(* (kernel/thread_manager.py, kernel/ipc_manager.py): a mutex and a counting   *)
(* semaphore, whose callers are queued and never wake up by themselves; and    *)
(* shared memory, message queues and pipes, kept by name, of which a process   *)
(* that created one holds the object itself.  Every call holds the lock of its *)
(* object or table, so each is one step; the death of a process reaches the    *)
(* table later, through the bus.  Nothing in the repository calls these yet:   *)
(* any order of calls is possible.                                             *)
(* Ghosts: entered says who was told it may proceed, signals counts the V      *)
(* operations, and sent_messages and received remember the messages.           *)
EXTENDS Integers, FiniteSets, SequencesExt

CONSTANTS
  Tid, Proc, ObjectName,
  NoTid,           \* no holder
  Initial,         \* first count of the semaphore
  QueueSize,       \* maxlen of a message queue (100 in the code)
  MaxWaits, MaxObjects, MaxSent                  \* bounds

ASSUME ObjectsAssumption ==
  /\ NoTid \notin Tid /\ Initial \in Nat /\ QueueSize \in Nat \ {0}
  /\ MaxWaits \in Nat /\ MaxObjects \in Nat /\ MaxSent \in Nat

VARIABLES
  studied,         \* which of the two kinds of object this behaviour is about
  thread_state,    \* TCB.state
  holder, mutex_queue, count, sem_queue, entered, signals,
  table,           \* name -> object, a number
  objects,         \* the objects made so far, in the table or not
  pending_deaths,  \* deaths in the bus
  dead, sent_messages, received

threadVars == <<thread_state, holder, mutex_queue, count, sem_queue, entered, signals>>
ipcVars == <<table, objects, pending_deaths, dead, sent_messages, received>>
objectVars == <<studied, threadVars, ipcVars>>

ObjectsInit ==
  /\ studied \in {"locks", "ipc"}
  /\ thread_state = [t \in Tid |-> "new"]
  /\ holder = NoTid /\ mutex_queue = << >>
  /\ count = Initial /\ sem_queue = << >> /\ entered = << >> /\ signals = 0
  /\ table = << >> /\ objects = << >> /\ pending_deaths = << >> /\ dead = {}
  /\ sent_messages = << >> /\ received = << >>

-----------------------------------------------------------------------------
(* Threads, mutex and semaphore.  A thread that is terminated keeps what it holds and its *)
(* place in a queue; the holder of a mutex that asks again waits for itself.              *)

Threads == studied = "locks" /\ UNCHANGED <<studied, ipcVars>>

CreateThread(t) ==
  /\ Threads /\ thread_state[t] = "new"
  /\ thread_state' = [thread_state EXCEPT ![t] = "ready"]
  /\ UNCHANGED <<holder, mutex_queue, count, sem_queue, entered, signals>>

TerminateThread(t) ==
  /\ Threads /\ thread_state[t] = "ready"
  /\ thread_state' = [thread_state EXCEPT ![t] = "terminated"]
  /\ UNCHANGED <<holder, mutex_queue, count, sem_queue, entered, signals>>

Acquire(t) ==
  /\ Threads /\ thread_state[t] = "ready"
  /\ IF holder = NoTid
     THEN holder' = t /\ UNCHANGED mutex_queue
     ELSE /\ mutex_queue' = IF Contains(mutex_queue, t) THEN mutex_queue
                            ELSE Append(mutex_queue, t)
          /\ UNCHANGED holder
  /\ UNCHANGED <<thread_state, count, sem_queue, entered, signals>>

\* Mutant: the mutex is free until somebody asks again.
NoNextHolder == NoTid

\* The mutex passes to the longest waiting thread in the same step.
NextHolder == IF mutex_queue = << >> THEN NoTid ELSE Head(mutex_queue)

ReleaseMutex(t) ==
  /\ Threads /\ thread_state[t] = "ready" /\ holder = t
  /\ holder' = NextHolder
  /\ mutex_queue' = IF mutex_queue = << >> THEN << >> ELSE Tail(mutex_queue)
  /\ UNCHANGED <<thread_state, count, sem_queue, entered, signals>>

\* P: a thread may be in the queue more than once.
Wait(t) ==
  /\ Threads /\ thread_state[t] = "ready" /\ Len(entered) + Len(sem_queue) < MaxWaits
  /\ IF count > 0
     THEN count' = count - 1 /\ entered' = Append(entered, t) /\ UNCHANGED sem_queue
     ELSE sem_queue' = Append(sem_queue, t) /\ UNCHANGED <<count, entered>>
  /\ UNCHANGED <<thread_state, holder, mutex_queue, signals>>

\* Mutant: the count goes up for a thread that is let in as well.
CountAlways == count + 1

\* V, by anyone: a waiting thread is let in without the count going up.
CountAfterSignal == IF sem_queue = << >> THEN count + 1 ELSE count

Signal(t) ==
  /\ Threads /\ thread_state[t] = "ready" /\ signals < MaxWaits
  /\ signals' = signals + 1
  /\ count' = CountAfterSignal
  /\ IF sem_queue = << >>
     THEN UNCHANGED <<sem_queue, entered>>
     ELSE sem_queue' = Tail(sem_queue) /\ entered' = Append(entered, Head(sem_queue))
  /\ UNCHANGED <<thread_state, holder, mutex_queue>>

-----------------------------------------------------------------------------
(* Shared memory, message queues and pipes *)

IPC == studied = "ipc" /\ UNCHANGED <<studied, threadVars>>

Kinds == {"memory", "queue", "pipe"}
Key(kind, name) == <<kind, name>>

\* A second object of the same kind and name takes the place of the first in the table; who
\* holds the first goes on using it.
Create(p, kind, name) ==
  /\ IPC /\ p \notin dead /\ Len(objects) < MaxObjects
  /\ objects' = Append(objects, [key |-> Key(kind, name), kind |-> kind, owner |-> p,
                                 authorized |-> {p}, content |-> << >>])
  /\ table' = [k \in DOMAIN table \cup {Key(kind, name)} |->
                 IF k = Key(kind, name) THEN Len(objects) + 1 ELSE table[k]]
  /\ sent_messages' = Append(sent_messages, << >>) /\ received' = Append(received, << >>)
  /\ UNCHANGED <<pending_deaths, dead>>

Authorize(o, p) ==
  /\ IPC /\ p \notin objects[o].authorized
  /\ objects' = [objects EXCEPT ![o].authorized = @ \cup {p}]
  /\ UNCHANGED <<table, pending_deaths, dead, sent_messages, received>>

\* A cell is overwritten, a full queue loses its oldest message, a pipe grows.
Stored(object, m) ==
  CASE object.kind = "memory" -> <<m>>
    [] object.kind = "queue"  -> IF Len(object.content) = QueueSize
                                 THEN Append(Tail(object.content), m)
                                 ELSE Append(object.content, m)
    [] object.kind = "pipe"   -> Append(object.content, m)

Send(o, p) ==
  /\ IPC /\ p \notin dead /\ p \in objects[o].authorized /\ Len(sent_messages[o]) < MaxSent
  /\ LET m == Len(sent_messages[o]) + 1
     IN  /\ objects' = [objects EXCEPT ![o].content = Stored(objects[o], m)]
         /\ sent_messages' = [sent_messages EXCEPT ![o] = Append(@, m)]
  /\ UNCHANGED <<table, pending_deaths, dead, received>>

\* A reader gets what is in the cell, the oldest message, or the first n bytes.
Taken(object, n) ==
  CASE object.kind = "memory" -> << >>
    [] object.kind = "queue"  -> SubSeq(object.content, 1, 1)
    [] object.kind = "pipe"   -> SubSeq(object.content, 1, n)

Receive(o, p, n) ==
  /\ IPC /\ p \notin dead /\ p \in objects[o].authorized
  /\ n \in 1..Len(objects[o].content)
  /\ LET out == Taken(objects[o], n)
     IN  /\ objects' = [objects EXCEPT
                          ![o].content = SubSeq(@, Len(out) + 1, Len(@))]
         /\ received' = [received EXCEPT ![o] = @ \o out]
  /\ UNCHANGED <<table, pending_deaths, dead, sent_messages>>

\* The process ends; the table hears of it through the queue of the bus.
Die(p) ==
  /\ IPC /\ p \notin dead
  /\ dead' = dead \cup {p} /\ pending_deaths' = Append(pending_deaths, p)
  /\ UNCHANGED <<table, objects, sent_messages, received>>

\* Mutant: whatever the dead ever created is looked up by name.
ReapedByName(p) == {objects[o].key : o \in {i \in 1..Len(objects) : objects[i].owner = p}}

\* The names of the dead owner's objects; one that was replaced belongs to the new owner.
Reaped(p) == {k \in DOMAIN table : objects[table[k]].owner = p}

OnOwnerDeath ==
  /\ IPC /\ pending_deaths # << >>
  /\ pending_deaths' = Tail(pending_deaths)
  /\ table' = [k \in DOMAIN table \ Reaped(Head(pending_deaths)) |-> table[k]]
  /\ UNCHANGED <<objects, dead, sent_messages, received>>

ObjectsNext ==
  \/ \E t \in Tid : \/ CreateThread(t) \/ TerminateThread(t) \/ Acquire(t) \/ ReleaseMutex(t)
                    \/ Wait(t) \/ Signal(t)
  \/ \E p \in Proc :
       \/ Die(p)
       \/ \E kind \in Kinds, name \in ObjectName : Create(p, kind, name)
       \/ \E o \in 1..Len(objects) :
            \/ Authorize(o, p) \/ Send(o, p)
            \/ \E n \in 1..MaxSent : Receive(o, p, n)
  \/ OnOwnerDeath

ObjectsSpec == ObjectsInit /\ [][ObjectsNext]_objectVars

-----------------------------------------------------------------------------
(* Properties *)

ObjectsTypeOK ==
  /\ holder \in Tid \cup {NoTid} /\ count \in Nat
  /\ \A k \in DOMAIN table : table[k] \in 1..Len(objects) /\ k[1] = objects[table[k]].kind

\* A free mutex has no queue, nobody waits twice, and the queue of the semaphore is empty
\* while its count is positive: nobody is left waiting for what is free.
NobodyForgotten ==
  /\ holder = NoTid => mutex_queue = << >>
  /\ \A i, j \in 1..Len(mutex_queue) : i # j => mutex_queue[i] # mutex_queue[j]
  /\ count > 0 => sem_queue = << >>

\* As many have passed the semaphore as its first count and the signals allow.
SemaphoreCounts == count + Len(entered) = Initial + signals

\* A reader gets the messages in the order they were sent, none twice; a pipe loses nothing,
\* and of a queue only what was the oldest while it was full is missing.
MessagesInOrder ==
  \A o \in 1..Len(objects) :
    LET content == objects[o].content
        seen == received[o] \o content
    IN  /\ \A i, j \in 1..Len(seen) : i < j => seen[i] < seen[j]
        /\ objects[o].kind = "pipe" => seen = sent_messages[o]
        /\ objects[o].kind = "queue" =>
             \A m \in ToSet(sent_messages[o]) \ ToSet(seen) :
               Cardinality({k \in ToSet(seen) : k > m}) >= QueueSize

\* Once a death has been handled no name leads to an object of the dead, and nothing of the
\* living was taken: the last object created under a name is there while its owner lives.
Latest(o) == \A i \in (o + 1)..Len(objects) : objects[i].key # objects[o].key

DeadOwnNothing ==
  /\ \A k \in DOMAIN table : LET owner == objects[table[k]].owner
                             IN  owner \in dead => owner \in ToSet(pending_deaths)
  /\ \A o \in 1..Len(objects) :
       Latest(o) /\ objects[o].owner \notin dead
         => objects[o].key \in DOMAIN table /\ table[objects[o].key] = o

\* Nobody is left waiting for a free mutex or semaphore, messages arrive once and in order, and
\* what a dead process owned leaves the table, and only that (kernel/thread_manager.py,
\* kernel/ipc_manager.py).
ObjectsSound ==
  ObjectsTypeOK /\ NobodyForgotten /\ SemaphoreCounts /\ MessagesInOrder /\ DeadOwnNothing
=============================================================================
