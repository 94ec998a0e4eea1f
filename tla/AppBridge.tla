------------------------------ MODULE AppBridge ------------------------------
(* The bridge between the desktop and the engine of an isolated application    *)
(* (system/runtime/ipc.py), with its two users: the controller's drain thread  *)
(* (app_controller_isolated.py) and the engine process (app_runner.py).        *)
(* At each end a listener thread moves packets from the pipe to a bounded      *)
(* queue, and drops what exceeds it or the second's budget.  The user of an    *)
(* end takes packets from the queue: stale and repeated ones are dropped.      *)
(* The engine runs in the main thread of its process, between two drains of    *)
(* its queue; its methods and its own threads may call the desktop and wait.   *)
(*                                                                             *)
(* Time is counted in the five seconds that a packet and a wait last.  Both    *)
(* ends hold the secret, so every signature is right.  Nobody sends            *)
(* SYSTEM_CONGESTION, and the timer's interval only delays.                    *)
EXTENDS Naturals, FiniteSets, SequencesExt

CONSTANTS
  QueueCap,      \* of a bridge's queue (100)
  CommandCap,    \* of the engine's command queue (100)
  SendLimit,     \* the desktop calls nobody while its own queue is longer (80)
  RateLimit,     \* packets an end takes in a second (150)
  SeenCap,       \* remembered packet numbers (1000)
  NonceLife,     \* how long they are remembered (10 seconds)
  MaxSent,       \* bound on calls and repeated packets together
  MaxTime        \* bound on time

ASSUME BridgeAssumption ==
  /\ QueueCap \in Nat /\ CommandCap \in Nat /\ SendLimit \in Nat /\ RateLimit \in Nat
  /\ SeenCap \in Nat /\ NonceLife \in Nat \ {0} /\ MaxSent \in Nat /\ MaxTime \in Nat

End == {"host", "app"}
Id == (End \X (1..MaxSent)) \cup {<<"hello", 0>>}
Asker == {"main", "own"}            \* the engine's main thread, and one of its own

VARIABLES
  now,
  pipe, queue, counted, seen,       \* at each receiving end
  handshake_done,
  pending_calls,                    \* calls of the desktop whose callback waits
  commands, at, method,             \* the engine's main thread, what it has to do and what it runs
  responses,                        \* what the engine's callers wait for
  asking,                           \* asker -> the call it waits for, since when
  outcome,                          \* engine's call -> how it ended
  ran,                              \* ghost: the executions of each call
  calledback,                       \* ghost: desktop's call -> how often its callback ran
  made, repeats                     \* bounds

transport == <<pipe, queue, counted, seen>>
hostState == <<handshake_done, pending_calls, calledback>>
appState == <<commands, at, method, responses, asking, outcome>>
bridgeVars == <<now, transport, hostState, appState, ran, made, repeats>>

Packet(type, id) == [type |-> type, id |-> id, ts |-> now]
NoId == <<"none", 0>>
Nobody == [id |-> NoId, since |-> 0]

\* The engine has greeted the desktop.
BridgeInit ==
  /\ now = 0
  /\ pipe = [e \in End |-> IF e = "host" THEN <<Packet("HANDSHAKE", <<"hello", 0>>)>> ELSE << >>]
  /\ queue = [e \in End |-> << >>] /\ counted = [e \in End |-> 0]
  /\ seen = [e \in End |-> {}]
  /\ handshake_done = FALSE /\ pending_calls = {}
  /\ commands = << >> /\ at = "idle" /\ method = NoId
  /\ responses = {} /\ asking = [a \in Asker |-> Nobody]
  /\ outcome = [i \in Id |-> "none"]
  /\ ran = [i \in Id |-> 0] /\ calledback = [i \in Id |-> 0]
  /\ made = [e \in End |-> 0] /\ repeats = 0

Bounded == made["host"] + made["app"] + repeats < MaxSent

-----------------------------------------------------------------------------
(* Time *)

Tick ==
  /\ now < MaxTime /\ now' = now + 1
  /\ counted' = [e \in End |-> 0]
  /\ UNCHANGED <<pipe, queue, seen, hostState, appState, ran, made, repeats>>

\* A listener's second is over.
NewSecond(e) ==
  /\ counted[e] > 0
  /\ counted' = [counted EXCEPT ![e] = 0]
  /\ UNCHANGED <<now, pipe, queue, seen, hostState, appState, ran, made, repeats>>

-----------------------------------------------------------------------------
(* ipc.py *)

Sent(e, packet) == [pipe EXCEPT ![e] = Append(@, packet)]

\* _listen
Listen(e) ==
  /\ pipe[e] # << >>
  /\ pipe' = [pipe EXCEPT ![e] = Tail(@)]
  /\ counted' = [counted EXCEPT ![e] = IF @ > RateLimit THEN @ ELSE @ + 1]
  /\ queue' = IF counted'[e] > RateLimit \/ Len(queue[e]) >= QueueCap THEN queue
              ELSE [queue EXCEPT ![e] = Append(@, Head(pipe[e]))]
  /\ UNCHANGED <<now, seen, hostState, appState, ran, made, repeats>>

\* A peer may write a packet again, which the numbers are remembered for.
Repeat(e) ==
  /\ Bounded /\ queue[e] # << >>
  /\ repeats' = repeats + 1
  /\ pipe' = Sent(e, Head(queue[e]))
  /\ UNCHANGED <<now, queue, counted, seen, hostState, appState, ran, made>>

Fresh(packet) == now <= packet.ts + 1

\* Mutant: a number is forgotten with the packet.
ForgottenAtOnce == 0
Remembered == NonceLife

StillSeen(e) == {s \in seen[e] : now <= s.at + Remembered}

\* What get_message makes of the first packet of the queue.
Accepted(e) ==
  LET p == Head(queue[e])
  IN  /\ Fresh(p)
      /\ \A s \in StillSeen(e) : s.id # p.id
      /\ Cardinality(StillSeen(e)) < SeenCap

\* get_message: a stale packet leaves before the numbers are looked at, and a packet taken
\* is remembered.
Taken(e) ==
  /\ queue[e] # << >>
  /\ queue' = [queue EXCEPT ![e] = Tail(@)]
  /\ seen' = IF ~Fresh(Head(queue[e])) THEN seen
             ELSE [seen EXCEPT ![e] = StillSeen(e) \cup
                     IF Accepted(e) THEN {[id |-> Head(queue[e]).id, at |-> now]} ELSE {}]
  /\ UNCHANGED <<now, counted, made, repeats>>

-----------------------------------------------------------------------------
(* app_controller_isolated.py *)

\* call_remote: given up silently while the desktop's own queue is long.
CallRemote ==
  /\ Bounded /\ Len(queue["host"]) <= SendLimit
  /\ LET id == <<"host", made["host"] + 1>>
     IN  /\ made' = [made EXCEPT !["host"] = @ + 1]
         /\ pending_calls' = pending_calls \cup {id}
         /\ pipe' = Sent("app", Packet("CALL", id))
  /\ UNCHANGED <<now, queue, counted, seen, handshake_done, calledback, appState, ran, repeats>>

\* _process_packet and _dispatch_call, in the drain thread.  Before the handshake everything
\* is dropped; a method that is not allowed, or fails, is answered as well.
HostTakes ==
  /\ Taken("host")
  /\ LET p == Head(queue["host"]) IN
     IF ~Accepted("host") THEN UNCHANGED <<pipe, hostState, ran>>
     ELSE IF p.type = "HANDSHAKE"
     THEN handshake_done' = TRUE /\ UNCHANGED <<pipe, pending_calls, calledback, ran>>
     ELSE /\ UNCHANGED handshake_done
          /\ IF ~handshake_done THEN UNCHANGED <<pipe, pending_calls, calledback, ran>>
             ELSE IF p.type = "CALL"
             THEN /\ ran' = [ran EXCEPT ![p.id] = @ + 1]
                  /\ pipe' = Sent("app", Packet("RET", p.id))
                  /\ UNCHANGED <<pending_calls, calledback>>
             ELSE /\ pending_calls' = pending_calls \ {p.id}
                  /\ calledback' = IF p.id \in pending_calls
                                   THEN [calledback EXCEPT ![p.id] = @ + 1] ELSE calledback
                  /\ UNCHANGED <<pipe, ran>>
  /\ UNCHANGED appState

-----------------------------------------------------------------------------
(* app_runner.py *)

AppUnchanged == UNCHANGED <<now, counted, hostState, made, repeats>>

TimerFires ==
  /\ at = "idle" /\ at' = "draining"
  /\ UNCHANGED <<now, transport, hostState, commands, method, responses, asking, outcome, ran,
                 made, repeats>>

\* ResponseManager.deliver: nobody waits any more, or the place is taken.
Delivered(id) == {IF r.id = id THEN [r EXCEPT !.has = TRUE] ELSE r : r \in responses}

\* listener_drain: it ends at the first packet that is not accepted.  Putting a call into the
\* full command queue blocks the thread that would empty it.
DrainTakes ==
  /\ at = "draining" /\ Taken("app")
  /\ LET p == Head(queue["app"]) IN
     IF ~Accepted("app") THEN at' = "serving" /\ UNCHANGED <<responses, commands>>
     ELSE /\ UNCHANGED at
          /\ IF p.type = "RET" THEN responses' = Delivered(p.id) /\ UNCHANGED commands
             ELSE /\ Len(commands) < CommandCap
                  /\ commands' = Append(commands, p.id)
                  /\ UNCHANGED responses
  /\ UNCHANGED <<pipe, hostState, method, asking, outcome, ran>>

DrainEnds ==
  /\ at = "draining" /\ queue["app"] = << >> /\ at' = "serving"
  /\ UNCHANGED <<now, transport, hostState, commands, method, responses, asking, outcome, ran,
                 made, repeats>>

\* process_commands: the engine's method runs.
Serve ==
  /\ at = "serving"
  /\ IF commands = << >> THEN at' = "idle" /\ UNCHANGED <<commands, method, ran>>
     ELSE /\ at' = "method" /\ method' = Head(commands)
          /\ commands' = Tail(commands)
          /\ ran' = [ran EXCEPT ![Head(commands)] = @ + 1]
  /\ UNCHANGED <<now, transport, hostState, responses, asking, outcome, made, repeats>>

InMethod == at = "method" /\ asking["main"] = Nobody

\* It returns, raises or does not exist: answered in any case.
Answer ==
  /\ InMethod
  /\ pipe' = Sent("host", Packet("RET", method))
  /\ at' = "serving" /\ method' = NoId
  /\ UNCHANGED <<now, queue, counted, seen, hostState, commands, responses, asking, outcome,
                 ran, made, repeats>>

\* _sync_call: from a method of the engine, or from a thread of its own.
Ask(a) ==
  /\ IF a = "main" THEN InMethod ELSE asking["own"] = Nobody
  /\ Bounded /\ now < MaxTime
  /\ LET id == <<"app", made["app"] + 1>>
     IN  /\ made' = [made EXCEPT !["app"] = @ + 1]
         /\ responses' = responses \cup {[id |-> id, has |-> FALSE]}
         /\ asking' = [asking EXCEPT ![a] = [id |-> id, since |-> now]]
         /\ pipe' = Sent("host", Packet("CALL", id))
  /\ UNCHANGED <<now, queue, counted, seen, hostState, commands, at, method, outcome, ran, repeats>>

\* The wait ends, and its queue is thrown away.
AskEnds(a, how) ==
  LET id == asking[a].id
  IN  /\ asking' = [asking EXCEPT ![a] = Nobody]
      /\ outcome' = [outcome EXCEPT ![id] = how]
      /\ responses' = {r \in responses : r.id # id}
      /\ UNCHANGED <<now, transport, hostState, commands, at, method, ran, made, repeats>>

GetsAnswer(a) ==
  /\ asking[a] # Nobody /\ [id |-> asking[a].id, has |-> TRUE] \in responses
  /\ AskEnds(a, a)

TimesOut(a) ==
  /\ asking[a] # Nobody /\ now > asking[a].since
  /\ [id |-> asking[a].id, has |-> FALSE] \in responses
  /\ AskEnds(a, "TIMEOUT")

Main == TimerFires \/ DrainTakes \/ DrainEnds \/ Serve \/ Answer

BridgeNext ==
  \/ Tick \/ CallRemote \/ HostTakes \/ Main
  \/ \E e \in End : NewSecond(e) \/ Listen(e) \/ Repeat(e)
  \/ \E a \in Asker : Ask(a) \/ GetsAnswer(a) \/ TimesOut(a)

BridgeSpec == BridgeInit /\ [][BridgeNext]_bridgeVars

-----------------------------------------------------------------------------

BridgeTypeOK ==
  /\ now \in 0..MaxTime /\ handshake_done \in BOOLEAN /\ pending_calls \subseteq Id
  /\ \A e \in End : Len(queue[e]) <= QueueCap /\ counted[e] \in 0..(RateLimit + 1)
  /\ Len(commands) <= CommandCap
  /\ at \in {"idle", "draining", "serving", "method"} /\ (at = "method" <=> method # NoId)

\* A call is carried out once at most, although its number is forgotten in time.
AtMostOnce == \A i \in Id : ran[i] <= 1 /\ calledback[i] <= 1

\* A callback runs for a call that was carried out, and a caller gets an answer from one.
AnswersAreReal ==
  \A i \in Id : calledback[i] > 0 \/ outcome[i] \in Asker => ran[i] = 1

\* A method of the engine that asks the desktop never gets its answer: the thread that waits
\* is the one that would deliver it.
MethodsAskInVain == \A i \in Id : outcome[i] # "main"

\* The engine blocks for good, in the put of its own queue, only when more calls are open
\* than that queue holds.
BlocksOnlyWhenFlooded ==
  (at = "draining" /\ Len(commands) = CommandCap /\ queue["app"] # << >>)
    => LET p == Head(queue["app"])
       IN  Accepted("app") /\ p.type = "CALL" =>
             Cardinality({i \in Id : i[1] = "host" /\ i[2] <= made["host"] /\ ran[i] = 0}) > CommandCap

\* Nothing waits that nobody waits for.
WaitsAreOwned == \A r \in responses : \E a \in Asker : asking[a].id = r.id

BridgeSound == BridgeTypeOK /\ AtMostOnce /\ AnswersAreReal /\ MethodsAskInVain /\ WaitsAreOwned
               /\ BlocksOnlyWhenFlooded
=============================================================================
