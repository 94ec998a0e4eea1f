------------------------------ MODULE AppSandbox ------------------------------
(* What the desktop grants an application: its launch (core/app_registry.py,   *)
(* system/app_factory.py) and its gateway (system/sandbox), for one            *)
(* application with code in the interface thread and in a thread of its own.   *)
(* The gateway checks a call twice, in the property that hands out a guard and *)
(* in the guard's method; a lock may fall between them, and between the second *)
(* check and the effect.  A limiter of calls has no lock: what two threads do  *)
(* in it is taken apart into its reads and writes.                             *)
(*                                                                             *)
(* The governor of the gateway only delays.  No application is registered with *)
(* the runtime manager: penalties do nothing, nobody is quarantined there, and *)
(* every process and every request that the checks let through ends in a       *)
(* KeyError, so that only files are ever touched.                              *)
EXTENDS Naturals, FiniteSets, SequencesExt

CONSTANTS
  MaxRequests,   \* bound on the requests for a permission
  Limit,         \* calls in a second that are normal (10)
  Soft,          \* and how many more are let pass (3: none, one or two over)
  Patience,      \* seconds a request waits (60)
  MaxSeconds, MaxCalls,     \* bounds; of calls on files:
  MaxFiles

ASSUME SandboxAssumption == Limit \in Nat /\ Soft \in Nat /\ MaxCalls \in Nat

App == {"ui", "own"}               \* the threads that run the application's code
Perm == {"file_access", "network_access"}
Request == 1..MaxRequests
Guard == {"fs", "process", "network"}
Limited == {"process", "network"}

\* The manifests tried: without one, or with a broken one, nothing is granted.
Manifests == {{}, {"file_access"}}

VARIABLES
  studied,                         \* what this behaviour is about
  second,
  status, launched,                \* registry; ghost: how the last launch ended
  locked,                          \* RUNTIME_MANAGER.is_system_locked
  call_at,                              \* thread -> where its call is
  window,                          \* guard -> times of its calls
  limiter,                         \* thread -> where it is in _enforce_rate_limit, and its locals
  on_disk, cache_read, cached,     \* the manifest, and what was read of it
  temp,                            \* temporary permissions
  events,                          \* the bus's queue
  signals, dialogs,                \* the monitor's: to be shown, and open, innermost last
  wait,                            \* request -> its state
  monitor,                         \* the kernel monitor exists
  calls,                           \* bound
  admitted, said, touched, late,   \* ghosts
  crossed,                         \* ghost: guards two threads were in at a time
  robbed                           \* ghost: guards whose window lost a recent call

registry == <<status, launched>>
permissions == <<on_disk, cache_read, cached, temp>>
consent == <<events, signals, dialogs, wait, monitor, said>>
limits == <<window, limiter, admitted, crossed, robbed>>
gate == <<locked, call_at, limits, calls, touched, late>>
sandboxVars == <<studied, second, registry, permissions, consent, gate>>

NoWait == [by |-> "nobody", perm |-> "none", since |-> 0, granted |-> FALSE, set |-> FALSE,
           over |-> FALSE]

\* A thread that is in no limiter.
Outside == [at |-> "outside", now |-> 0, count |-> 0]

SandboxInit ==
  /\ studied \in {"launches", "grants"} \cup Limited
  /\ second = 0
  /\ status = "UNVERIFIED" /\ launched = "never"
  /\ locked = FALSE /\ call_at = [t \in App |-> "idle"]
  /\ window = [g \in Limited |-> << >>] /\ limiter = [t \in App |-> Outside]
  /\ crossed = {} /\ robbed = {}
  /\ on_disk \in Manifests /\ cache_read = FALSE /\ cached = {} /\ temp = {}
  /\ events = << >> /\ signals = << >> /\ dialogs = << >> /\ monitor \in BOOLEAN
  /\ studied # "grants" => monitor /\ on_disk = {}
  /\ wait = [r \in Request |-> NoWait]
  /\ calls = 0 /\ admitted = [g \in Limited |-> << >>]
  /\ said = {} /\ touched = FALSE /\ late = {}

\* request_permission holds the thread that called it.
Waiting(t) == \E r \in Request : wait[r].by = t /\ ~wait[r].over
Free(t) == ~Waiting(t)
UiFree == Free("ui") /\ call_at["ui"] = "idle"

SecondPasses ==
  /\ second < IF studied = "grants" THEN Patience ELSE MaxSeconds
  /\ second' = second + 1
  /\ UNCHANGED <<registry, permissions, consent, gate>>

-----------------------------------------------------------------------------
(* app_registry.py and app_factory.py *)

\* create_app_instance: a module or class that is missing, an import or a constructor that
\* fails; a constructor that refuses its arguments is tried with fewer, three times.
Launch(ends) ==
  /\ UiFree /\ launched' = ends
  /\ status' = IF ends = "shown" THEN "AVAILABLE" ELSE "QUARANTINE"
  /\ UNCHANGED <<second, permissions, consent, gate>>

\* Mutant: a verification that succeeds overrules a launch that failed.
VerifiedAnyway == "AVAILABLE"
Verified == IF status = "UNVERIFIED" THEN "AVAILABLE" ELSE status

\* verify_all, of one of the core applications.
VerifyAll(found) ==
  /\ UiFree
  /\ status' = IF found THEN Verified ELSE "QUARANTINE"
  /\ UNCHANGED <<second, launched, permissions, consent, gate>>

\* What a launcher lists.
Listed == status # "QUARANTINE"

-----------------------------------------------------------------------------
(* The session's lock, set and lifted in the interface thread *)

LockSystem ==
  /\ UiFree /\ ~locked /\ locked' = TRUE
  /\ late' = {}
  /\ UNCHANGED <<second, registry, permissions, consent, call_at, limits, calls, touched>>

UnlockSystem ==
  /\ UiFree /\ locked /\ locked' = FALSE
  /\ UNCHANGED <<second, registry, permissions, consent, call_at, limits, calls, touched, late>>

-----------------------------------------------------------------------------
(* secure_api.py and the guards *)

\* The property of a guard: the caller's file, the governor and the lock.  An application may
\* keep the guard it got once; the property is then not asked again.
Enter(t, g, kept) ==
  /\ Free(t) /\ call_at[t] = "idle"
  /\ calls < IF g = "fs" THEN MaxFiles ELSE MaxCalls
  /\ calls' = calls + 1
  /\ call_at' = [call_at EXCEPT ![t] = IF locked /\ ~kept THEN "idle" ELSE g]
  /\ late' = IF locked /\ g = "fs" THEN late \cup {t} ELSE late \ {t}
  /\ UNCHANGED <<second, registry, permissions, consent, locked, limits, touched>>

\* PermissionManager._load_manifest: read once.
Manifest == IF cache_read THEN cached ELSE on_disk

\* Mutant: the manager does not say no.
PassesAll(p) == TRUE

\* check, at the enforcement level of the code: anything that is not granted is blocked.
Allowed(p) == p \in temp \/ p \in Manifest

\* A temporary permission spares the look into the manifest.
Consults(p) ==
  IF p \in temp THEN UNCHANGED <<cache_read, cached>>
  ELSE cache_read' = TRUE /\ cached' = Manifest

Checked == UNCHANGED <<second, registry, on_disk, temp, consent, locked, calls, touched, late>>

\* fs_guard: open, scandir, listdir, read_file and write_file check the lock, the permission
\* and the path alike.
FileCheck(t, inside) ==
  /\ call_at[t] = "fs"
  /\ IF locked THEN call_at' = [call_at EXCEPT ![t] = "idle"] /\ UNCHANGED <<cache_read, cached>>
     ELSE /\ Consults("file_access")
          /\ call_at' = [call_at EXCEPT ![t] = IF Allowed("file_access") /\ inside THEN "cleared" ELSE "idle"]
  /\ Checked /\ UNCHANGED limits

FileDone(t) ==
  /\ call_at[t] = "cleared" /\ call_at' = [call_at EXCEPT ![t] = "idle"]
  /\ touched' = TRUE
  /\ UNCHANGED <<second, registry, permissions, consent, locked, limits, calls, late>>

-----------------------------------------------------------------------------
(* _enforce_rate_limit of either guard.  The window is a deque, of which each  *)
(* read and each write is a step.                                              *)

\* The thread is at a place of the limiter of a guard; there it goes to the next, or raises.
At(t, g, place) == call_at[t] = g /\ limiter[t].at = place
Advances(t, place) == limiter' = [limiter EXCEPT ![t].at = place] /\ UNCHANGED call_at
Leaves(t) == limiter' = [limiter EXCEPT ![t] = Outside] /\ call_at' = [call_at EXCEPT ![t] = "idle"]
Limiting == Checked /\ UNCHANGED <<cache_read, cached>>

ReadsClock(t, g) ==
  /\ At(t, g, "outside")
  /\ limiter' = [limiter EXCEPT ![t] = [at |-> "looks", now |-> second, count |-> 0]]
  /\ crossed' = IF \E u \in App : call_at[u] = g /\ limiter[u].at # "outside"
                THEN crossed \cup {g} ELSE crossed
  /\ Limiting /\ UNCHANGED <<call_at, window, admitted, robbed>>

\* Mutant: a call leaves the window a little early.
EarlyOld(t, g) == limiter[t].now >= Head(window[g]) + 1

\* The first call of the window is more than a second old.
Old(t, g) == limiter[t].now > Head(window[g]) + 1

\* The loop's condition is two reads; what was seen first may be gone at the second.
Looks(t, g) ==
  /\ At(t, g, "looks") /\ Advances(t, IF window[g] = << >> THEN "counts" ELSE "compares")
  /\ Limiting /\ UNCHANGED <<window, admitted, crossed, robbed>>

Compares(t, g) ==
  /\ At(t, g, "compares")
  /\ IF window[g] = << >> THEN Leaves(t) ELSE Advances(t, IF Old(t, g) THEN "pops" ELSE "counts")
  /\ Limiting /\ UNCHANGED <<window, admitted, crossed, robbed>>

\* popleft takes what is first by now.
Pops(t, g) ==
  /\ At(t, g, "pops")
  /\ IF window[g] = << >> THEN Leaves(t) /\ UNCHANGED <<window, robbed>>
     ELSE /\ Advances(t, "looks") /\ window' = [window EXCEPT ![g] = Tail(@)]
          /\ robbed' = IF limiter[t].now > Head(window[g]) + 1 THEN robbed ELSE robbed \cup {g}
  /\ Limiting /\ UNCHANGED <<admitted, crossed>>

CountsCalls(t, g) ==
  /\ At(t, g, "counts")
  /\ limiter' = [limiter EXCEPT ![t] = [at |-> "appends", now |-> @.now, count |-> Len(window[g])]]
  /\ Limiting /\ UNCHANGED <<call_at, window, admitted, crossed, robbed>>

\* Every call is put into the window, one that is refused as well.
AppendsCall(t, g) ==
  /\ At(t, g, "appends") /\ Advances(t, "judged")
  /\ window' = [window EXCEPT ![g] = Append(@, limiter[t].now)]
  /\ Limiting /\ UNCHANGED <<admitted, crossed, robbed>>

\* Mutant: one call more is normal.
AdmitsOneMore(t) == limiter[t].count <= Limit + Soft

\* The count that was read decides.
Admits(t) == limiter[t].count < Limit + Soft

Judged(t, g) ==
  /\ At(t, g, "judged") /\ Leaves(t)
  /\ admitted' = IF Admits(t) THEN [admitted EXCEPT ![g] = Append(@, limiter[t].now)] ELSE admitted
  /\ Checked /\ UNCHANGED <<window, crossed, robbed>>

\* process_guard: then the lock and a list of programs, whose no consults the manager; what
\* passes ends in the KeyError.
ProcessCall(t, listed) ==
  /\ Judged(t, "process")
  /\ IF Admits(t) /\ ~locked /\ ~listed THEN Consults("system_calls")
     ELSE UNCHANGED <<cache_read, cached>>

\* network_guard: then, for a request, the lock, and the permission; what passes ends in the
\* KeyError.
NetworkCall(t, request) ==
  /\ Judged(t, "network")
  /\ IF Admits(t) /\ ~(request /\ locked) THEN Consults("network_access")
     ELSE UNCHANGED <<cache_read, cached>>

-----------------------------------------------------------------------------
\* The installation's manifest changes.
ManifestChanges(m) ==
  /\ on_disk' = m /\ m # on_disk
  /\ UNCHANGED <<second, registry, cache_read, cached, temp, consent, gate>>

-----------------------------------------------------------------------------
(* request_permission, the monitor's dialog and the bus between them *)

\* The answer is subscribed to before the question is posted.
AskUser(t, r, p) ==
  /\ Free(t) /\ call_at[t] = "idle" /\ wait[r] = NoWait
  /\ \A q \in 1..(r - 1) : wait[q] # NoWait
  /\ wait' = [wait EXCEPT ![r] = [NoWait EXCEPT !.by = t, !.perm = p, !.since = second]]
  /\ events' = Append(events, [type |-> "ask", id |-> r, granted |-> FALSE])
  /\ UNCHANGED <<second, registry, permissions, signals, dialogs, monitor, said, gate>>

\* Mutant: an answer counts for whoever waits.
AnyAnswer(r, event) == TRUE

IsAnswerTo(r, event) == event.id = r

\* The bus's worker: the monitor passes a question on to the interface thread; an answer sets
\* the event of the request it names, while that is subscribed.
BusDelivers ==
  /\ events # << >> /\ events' = Tail(events)
  /\ LET e == Head(events) IN
     IF e.type = "ask"
     THEN /\ signals' = IF monitor THEN Append(signals, e.id) ELSE signals
          /\ UNCHANGED wait
     ELSE /\ wait' = [r \in Request |->
               IF wait[r].by # "nobody" /\ ~wait[r].over /\ IsAnswerTo(r, e)
               THEN [wait[r] EXCEPT !.set = TRUE, !.granted = e.granted] ELSE wait[r]]
          /\ UNCHANGED signals
  /\ UNCHANGED <<second, registry, permissions, dialogs, monitor, said, gate>>

\* _on_consent_request_safe: the dialog runs a loop of its own, in which others may open.
DialogOpens ==
  /\ UiFree /\ signals # << >>
  /\ dialogs' = Append(dialogs, Head(signals)) /\ signals' = Tail(signals)
  /\ UNCHANGED <<second, registry, permissions, events, wait, monitor, said, gate>>

DialogAnswered(yes) ==
  /\ UiFree /\ dialogs # << >>
  /\ dialogs' = Front(dialogs)
  /\ events' = Append(events, [type |-> "answer", id |-> Last(dialogs), granted |-> yes])
  /\ said' = IF yes THEN said \cup {Last(dialogs)} ELSE said
  /\ UNCHANGED <<second, registry, permissions, signals, wait, monitor, gate>>

\* The wait ends, with an answer or without.  An answer that comes while the request is being
\* unsubscribed is not looked at.
WaitEnds(r) ==
  /\ wait[r].by # "nobody" /\ ~wait[r].over
  /\ \/ wait[r].set
     \/ ~wait[r].set /\ second >= wait[r].since + Patience
  /\ wait' = [wait EXCEPT ![r].over = TRUE]
  /\ temp' = IF wait[r].set /\ wait[r].granted THEN temp \cup {wait[r].perm} ELSE temp
  /\ UNCHANGED <<second, registry, on_disk, cache_read, cached, events, signals, dialogs, monitor,
                 said, gate>>

-----------------------------------------------------------------------------
Launches ==
  \/ \E ends \in {"no_module", "no_class", "raised", "shown"} : Launch(ends)
  \/ \E found \in BOOLEAN : VerifyAll(found)

Rates(g) ==
  \/ SecondPasses \/ LockSystem \/ UnlockSystem
  \/ g = "process" /\ \E t \in App, b \in BOOLEAN : ProcessCall(t, b)
  \/ g = "network" /\ \E t \in App, b \in BOOLEAN : NetworkCall(t, b)
  \/ \E t \in App, b \in BOOLEAN : Enter(t, g, b)
  \/ \E t \in App : \/ ReadsClock(t, g) \/ Looks(t, g) \/ Compares(t, g)
                    \/ Pops(t, g) \/ CountsCalls(t, g) \/ AppendsCall(t, g)

Grants ==
  \/ SecondPasses \/ LockSystem \/ UnlockSystem \/ BusDelivers \/ DialogOpens
  \/ \E m \in Manifests : ManifestChanges(m)
  \/ \E t \in App : FileDone(t) \/ \E p \in Perm, r \in Request : AskUser(t, r, p)
  \/ \E t \in App, b \in BOOLEAN : FileCheck(t, b) \/ Enter(t, "fs", b)
  \/ \E r \in Request : WaitEnds(r) \/ \E b \in BOOLEAN : DialogAnswered(b)

\* Launches, grants and either limiter meet in nothing but the lock, so that a behaviour keeps to
\* one of them.
SandboxNext ==
  /\ studied' = studied
  /\ \/ studied = "launches" /\ Launches
     \/ studied \in Limited /\ Rates(studied)
     \/ studied = "grants" /\ Grants

SandboxSpec == SandboxInit /\ [][SandboxNext]_sandboxVars

-----------------------------------------------------------------------------
SandboxTypeOK ==
  /\ status \in {"UNVERIFIED", "AVAILABLE", "QUARANTINE"}
  /\ call_at \in [App -> Guard \cup {"idle", "cleared"}]
  /\ cached \subseteq Perm /\ temp \subseteq Perm
  /\ \A g \in Limited : Len(window[g]) <= MaxCalls

\* The most calls of a guard that were admitted within one second, wherever it begins.
WithinSecond(g, most) ==
  \A i \in DOMAIN admitted[g] :
    Cardinality({j \in DOMAIN admitted[g] : admitted[g][j] \in admitted[g][i]..(admitted[g][i] + 1)})
      <= most

\* While no two threads were in the limiter of a guard at a time, no second, wherever it begins,
\* sees more calls of it than the limit and its grace, however they are spread over the windows
\* and whatever was refused in between.
RateHolds == \A g \in Limited \ crossed : WithinSecond(g, Limit + Soft)

\* Threads that are in the limiter at a time count each other's call or not: for each thread one
\* call more may be let through, and never two, unless one took from the window, in place of the
\* old call another had just taken, one that should have stayed (process_guard.py:43-47).
OneEachAtMost == \A g \in Limited \ robbed : WithinSecond(g, Limit + Soft + Cardinality(App))

\* A temporary permission was granted by the user, to a request for just that permission.
ConsentIsUsers ==
  \A p \in temp : \E r \in said : wait[r].perm = p /\ wait[r].over

\* A request made in the interface thread is never granted: that thread, which waits, is the
\* one that would show the question.
InterfaceAsksInVain == \A r \in Request : wait[r].by = "ui" => ~(wait[r].set /\ ~wait[r].over)

\* A file is touched under a lock only by a call that had begun before.
LockedStopsNew == \A t \in App : call_at[t] = "cleared" /\ locked => t \notin late

\* A file is touched only with the user's consent or the manifest's, as it was first read.
FilesNeedGrants ==
  (touched \/ \E t \in App : call_at[t] = "cleared") => "file_access" \in temp \cup cached

\* After a launch that failed an application is listed again only when one succeeded.
StatusTellsLaunches == launched \in {"no_module", "no_class", "raised"} => ~Listed

SandboxSound ==
  /\ SandboxTypeOK /\ RateHolds /\ ConsentIsUsers /\ InterfaceAsksInVain
  /\ LockedStopsNew /\ FilesNeedGrants /\ StatusTellsLaunches
=============================================================================
