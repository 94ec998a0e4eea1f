---------------------------- MODULE AuthFrontEnd ----------------------------
(***************************************************************************)
(* Logging in, locking and unlocking: AuthManager (auth_manager.py), the   *)
(* SecurityController's login thread, SecurityAPI with its file of changed *)
(* passwords, the lock flag of RuntimeManager, the screens of AppController*)
(* and the two password forms (LoginScreen, LockdownOverlay).              *)
(*                                                                         *)
(* Everything but the login thread runs on the interface thread, one       *)
(* handler at a time; the login thread reads the file and calls the engine *)
(* while the interface goes on.  The engine is the compiled one (core) or  *)
(* MockEngine; what it does with a login is what VaultSessions models in   *)
(* detail, here with the failure counter of its user database.             *)
(***************************************************************************)
EXTENDS Naturals, Sequences, FiniteSets

CONSTANTS
  User, Admin,      \* names that can be typed; Admin is there from the start
  Password, First,  \* passwords that can be typed; Admin's first one
  NoOne, None,      \* no user; no password
  MaxSessions,      \* sessions per user in the engine (3)
  FailLimit         \* failures that lock an account (5)

ASSUME FrontAssumption ==
  /\ Admin \in User /\ First \in Password /\ NoOne \notin User /\ None \notin Password
  /\ MaxSessions \in Nat \ {0} /\ FailLimit \in Nat \ {0}

VARIABLES
  core,             \* the compiled engine, or MockEngine?
  pw,               \* the engine's password of each user (None: unknown user)
  fails,            \* failed_attempts of the user database
  live,             \* each user's engine sessions, oldest first: TRUE for the one
                    \* whose token SecurityAPI holds
  overrides,        \* identity_overrides.json: the changed passwords
  saving,           \* _save_overrides has truncated the file and is writing
  auth_state, username,  \* AuthManager._state, _username
  has_session,      \* AuthManager._session_token is not None
  token,            \* SecurityAPI._token: none, of MockEngine, or of a session
  current_user,     \* STATE.current_user
  worker,           \* the LoginWorker: how far it is, whom it tries
  thread_runs,      \* SecurityController._thread is running
  locked,           \* RUNTIME_MANAGER.is_system_locked
  overlay,          \* is the lockdown overlay shown?
  screen            \* the page of the stack: boot, login or desktop

engineVars == <<core, pw, fails, live>>
fileVars == <<overrides, saving>>
managerVars == <<auth_state, username, has_session>>
apiVars == <<token, current_user>>
threadVars == <<worker, thread_runs>>
uiVars == <<locked, overlay, screen>>
frontVars == <<engineVars, fileVars, managerVars, apiVars, threadVars, uiVars>>

IdleWorker == [step |-> "none", user |-> NoOne, pass |-> None, ok |-> FALSE]

FrontInit ==
  /\ core \in BOOLEAN
  /\ pw = [u \in User |-> IF u = Admin THEN First ELSE None]
  /\ fails = [u \in User |-> 0]
  /\ live = [u \in User |-> << >>]
  /\ overrides = [u \in User |-> None] /\ saving = FALSE
  /\ auth_state = "logged_out" /\ username = NoOne /\ has_session = FALSE
  /\ token = "none" /\ current_user = NoOne
  /\ worker = IdleWorker /\ thread_runs = FALSE
  /\ locked = FALSE /\ overlay = FALSE /\ screen = "boot"

\* The interface thread takes the next event: it is not inside a save.
Ready == ~saving

-----------------------------------------------------------------------------
(* The engine's login                                                      *)

Accepts(u, p) == pw[u] = p /\ (core => fails[u] < FailLimit)

\* A session more, at the cost of the user's oldest when there are too many.
Opened(u, held) ==
  LET forgotten == [v \in User |-> [i \in DOMAIN live[v] |-> live[v][i] /\ ~held]]
      old == forgotten[u]
      kept == IF Len(old) >= MaxSessions THEN Tail(old) ELSE old
  IN [forgotten EXCEPT ![u] = Append(kept, held)]

\* What login leaves in the engine, whoever calls it; held: SecurityAPI keeps the
\* token it returns.
EngineLogin(u, p, held) ==
  /\ UNCHANGED <<core, pw>>
  /\ IF core /\ Accepts(u, p)
     THEN live' = Opened(u, held) /\ fails' = [fails EXCEPT ![u] = 0]
     ELSE /\ fails' = IF core /\ pw[u] # None /\ fails[u] < FailLimit
                      THEN [fails EXCEPT ![u] = @ + 1] ELSE fails
          /\ UNCHANGED live

TokenLives == token = "sim" \/ \E u \in User : \E i \in DOMAIN live[u] : live[u][i]

\* Five minutes after the failure that locked the account.
CooldownOver(u) ==
  /\ fails[u] = FailLimit /\ fails' = [fails EXCEPT ![u] = 0]
  /\ UNCHANGED <<core, pw, live, fileVars, managerVars, apiVars, threadVars, uiVars>>

\* An hour after its login a session is gone.
Expire(u) ==
  /\ live[u] # << >> /\ live' = [live EXCEPT ![u] = Tail(@)]
  /\ UNCHANGED <<core, pw, fails, fileVars, managerVars, apiVars, threadVars, uiVars>>

-----------------------------------------------------------------------------
(* SecurityAPI                                                             *)

\* _load_overrides: a file that cannot be parsed counts as an empty one.
Stored(u) == IF saving THEN None ELSE overrides[u]

\* What login makes of a stored password.  When it matches, the token is
\* built with int(time.time()), and the module does not import time: the
\* NameError reaches the worker, which reports UNKNOWN_ERROR.
StoredLogin(stored, given) == FALSE

\* verify_password, on the interface thread: its answer, and its effect.
Verified(u, p) == IF Stored(u) # None THEN Stored(u) = p ELSE Accepts(u, p)
VerifyPassword(u, p) ==
  IF Stored(u) # None THEN UNCHANGED engineVars ELSE EngineLogin(u, p, FALSE)

\* A call with a token the engine no longer knows: ui_adapter clears
\* STATE.current_user and nothing else.
UseToken == current_user' = IF TokenLives THEN current_user ELSE NoOne

\* The security dashboard lists the secrets with the stored token.
ListSecrets ==
  /\ Ready /\ screen = "desktop" /\ token # "none" /\ UseToken
  /\ UNCHANGED <<engineVars, fileVars, managerVars, token, threadVars, uiVars>>

-----------------------------------------------------------------------------
(* SecurityController: one login at a time, on a thread of its own         *)

\* attempt_login: silently nothing while the previous thread has not ended.
AttemptLogin(u, p) ==
  IF thread_runs THEN UNCHANGED threadVars
  ELSE /\ worker' = [step |-> "start", user |-> u, pass |-> p, ok |-> FALSE]
       /\ thread_runs' = TRUE

\* SecurityAPI.login first looks into the file of changed passwords...
WorkerReads ==
  /\ worker.step = "start"
  /\ worker' = IF Stored(worker.user) = None
               THEN [worker EXCEPT !.step = "engine"]
               ELSE [worker EXCEPT !.step = "done",
                                   !.ok = StoredLogin(Stored(worker.user), worker.pass)]
  /\ UNCHANGED <<engineVars, fileVars, managerVars, apiVars, thread_runs, uiVars>>

\* ...then asks the engine, and keeps the token and the user of a success.
WorkerAsksEngine ==
  /\ worker.step = "engine"
  /\ LET ok == Accepts(worker.user, worker.pass)
     IN /\ worker' = [worker EXCEPT !.step = "done", !.ok = ok]
        /\ token' = IF ok THEN (IF core THEN "session" ELSE "sim") ELSE token
        /\ current_user' = IF ok THEN worker.user ELSE current_user
  /\ EngineLogin(worker.user, worker.pass, TRUE)
  /\ UNCHANGED <<fileVars, managerVars, thread_runs, uiVars>>

\* worker.finished has also queued thread.quit.
ThreadEnds ==
  /\ Ready /\ thread_runs /\ worker.step = "none" /\ thread_runs' = FALSE
  /\ UNCHANGED <<engineVars, fileVars, managerVars, apiVars, worker, uiVars>>

-----------------------------------------------------------------------------
(* AuthManager and what listens to its state                               *)

\* Mutant: a failed attempt leaves the state as it is.
RevertToNothing == auth_state

\* Mutant: a failed unlock is taken for a failed login.
RevertToLogin == "logged_out"

\* Where a failed attempt returns to: a session means that it was an unlock.
RevertTo == IF has_session THEN "locked" ELSE "logged_out"

\* AppController's reactor: the page for a state.  Locking changes no page.
PageOf(s) ==
  IF s = "logged_in" THEN "desktop" ELSE IF s = "logged_out" THEN "login" ELSE screen

RequestLogin(u, p) ==
  IF auth_state \in {"authenticating", "logged_in"}
  THEN UNCHANGED <<managerVars, threadVars>>
  ELSE /\ username' = u /\ auth_state' = "authenticating"
       /\ AttemptLogin(u, p) /\ UNCHANGED has_session

\* Mutant: an unlock request tries the name typed last, whatever it is.
RequestUnlockAs(p) ==
  \E u \in User : /\ auth_state' = "authenticating" /\ AttemptLogin(u, p)
                  /\ auth_state = "locked" /\ UNCHANGED <<username, has_session>>

RequestUnlock(p) ==
  IF auth_state # "locked"
  THEN UNCHANGED <<managerVars, threadVars>>
  ELSE /\ auth_state' = "authenticating" /\ AttemptLogin(username, p)
       /\ UNCHANGED <<username, has_session>>

\* The answer reaches the interface thread: _on_login_finished and then
\* _on_login_success (with unlock_system), or _on_login_failed.
AnswerArrives ==
  /\ Ready /\ worker.step = "done"
  /\ worker' = IdleWorker
  /\ IF worker.ok
     THEN /\ has_session' = TRUE /\ username' = worker.user
          /\ auth_state' = "logged_in" /\ locked' = FALSE
          /\ overlay' = FALSE
     ELSE /\ auth_state' = IF auth_state = "authenticating" THEN RevertTo ELSE auth_state
          /\ UNCHANGED <<username, has_session, locked, overlay>>
  /\ screen' = IF auth_state' = auth_state THEN screen ELSE PageOf(auth_state')
  /\ UNCHANGED <<engineVars, fileVars, apiVars, thread_runs>>

\* The idle timer finds five minutes without a key or a click.
CheckIdle ==
  /\ Ready /\ auth_state = "logged_in"
  /\ auth_state' = "locked" /\ locked' = TRUE
  /\ UNCHANGED <<engineVars, fileVars, username, has_session, apiVars, threadVars,
                 overlay, screen>>

-----------------------------------------------------------------------------
(* The screens                                                             *)

\* BootScreen goes through its stages and asks for the login page.
BootFinished ==
  /\ Ready /\ screen = "boot" /\ screen' = "login"
  /\ UNCHANGED <<engineVars, fileVars, managerVars, apiVars, threadVars,
                 locked, overlay>>

\* _do_login: the button, or Enter in the password field: that works also while
\* the button is disabled, from the request to a failure.
DoLogin(u, p) ==
  /\ Ready /\ screen = "login"
  /\ RequestLogin(u, p)
  /\ UNCHANGED <<engineVars, fileVars, apiVars, uiVars>>

\* The main window's pulse, once a second: the overlay follows the lock flag.
Pulse ==
  /\ Ready /\ overlay # locked /\ overlay' = locked
  /\ UNCHANGED <<engineVars, fileVars, managerVars, apiVars, threadVars,
                 locked, screen>>

\* _attempt_unlock on the overlay.
AttemptUnlock(p) ==
  /\ Ready /\ overlay
  /\ RequestUnlock(p)
  /\ UNCHANGED <<engineVars, fileVars, apiVars, uiVars>>

\* AccountSettingsDialog: the current password is verified, and the new one
\* is written over the file in place (SaveStarts, SaveEnds).
SaveStarts(old, new) ==
  /\ Ready /\ screen = "desktop" /\ username # NoOne
  /\ Verified(username, old) /\ token # "none"
  /\ saving' = TRUE
  /\ overrides' = [overrides EXCEPT ![username] = new]
  /\ IF core THEN VerifyPassword(username, old)
     ELSE /\ pw' = [pw EXCEPT ![username] = new]
          /\ UNCHANGED <<core, fails, live>>
  /\ UNCHANGED <<managerVars, apiVars, threadVars, uiVars>>

SaveEnds ==
  /\ saving /\ saving' = FALSE
  /\ UNCHANGED <<engineVars, overrides, managerVars, apiVars, threadVars, uiVars>>

\* The same dialog when the password is wrong, or when only the name is changed.
VerifyOnly(p) ==
  /\ Ready /\ screen = "desktop" /\ username # NoOne
  /\ VerifyPassword(username, p)
  /\ UNCHANGED <<fileVars, managerVars, apiVars, threadVars, uiVars>>

\* ProvisionIdentityDialog: a new user, with the stored token.
Provision(u, p) ==
  /\ Ready /\ screen = "desktop" /\ token # "none" /\ pw[u] = None
  /\ pw' = IF TokenLives THEN [pw EXCEPT ![u] = p] ELSE pw
  /\ UseToken
  /\ UNCHANGED <<core, fails, live, fileVars, managerVars, token, threadVars, uiVars>>

\* The program ends, however it ends, and is started again: users, failures and
\* a file that is whole outlive it (MockEngine's users do not).
RestartProgram ==
  /\ screen # "boot"
  /\ pw' = IF core THEN pw ELSE [u \in User |-> IF u = Admin THEN First ELSE None]
  /\ live' = [u \in User |-> << >>]
  /\ overrides' = IF saving THEN [u \in User |-> None] ELSE overrides
  /\ saving' = FALSE
  /\ auth_state' = "logged_out" /\ username' = NoOne /\ has_session' = FALSE
  /\ token' = "none" /\ current_user' = NoOne
  /\ worker' = IdleWorker /\ thread_runs' = FALSE
  /\ locked' = FALSE /\ overlay' = FALSE /\ screen' = "boot"
  /\ UNCHANGED <<core, fails>>

FrontStep ==
  \/ \E u \in User : CooldownOver(u) \/ Expire(u)
  \/ BootFinished \/ Pulse \/ CheckIdle \/ AnswerArrives \/ ThreadEnds
  \/ WorkerReads \/ WorkerAsksEngine \/ SaveEnds \/ ListSecrets
  \/ \E u \in User, p \in Password : DoLogin(u, p) \/ Provision(u, p)
  \/ \E p \in Password : AttemptUnlock(p) \/ VerifyOnly(p)
  \/ \E old, new \in Password : SaveStarts(old, new)

FrontNext == FrontStep \/ RestartProgram

\* The login thread runs and a save ends; the interface thread's queue is served
\* in order, so a queued answer is not overtaken by later clicks for ever.
FrontFairness ==
  /\ WF_frontVars(WorkerReads) /\ WF_frontVars(WorkerAsksEngine) /\ WF_frontVars(SaveEnds)
  /\ SF_frontVars(AnswerArrives)

FrontSpec == FrontInit /\ [][FrontNext]_frontVars /\ FrontFairness

-----------------------------------------------------------------------------
(* Properties                                                              *)

\* Every variable has its type, and the parts that follow AuthManager agree with
\* it: the system is locked exactly from a lock to the answer that ends it (also
\* while an unlock is tried), a session means that someone has logged in, and the
\* desktop is shown from the first login on.
FrontAgrees ==
  /\ core \in BOOLEAN /\ saving \in BOOLEAN /\ thread_runs \in BOOLEAN
  /\ pw \in [User -> Password \cup {None}] /\ overrides \in [User -> Password \cup {None}]
  /\ fails \in [User -> 0..FailLimit]
  /\ \A u \in User : Len(live[u]) <= MaxSessions
  /\ token \in {"none", "sim", "session"} /\ {username, current_user} \subseteq User \cup {NoOne}
  /\ auth_state = "locked" => locked
  /\ locked => auth_state \in {"locked", "authenticating"} /\ has_session
  /\ has_session <=> screen = "desktop"
  /\ has_session => username # NoOne /\ token # "none"
  /\ auth_state = "logged_in" => has_session
  /\ worker.step # "none" => thread_runs /\ auth_state = "authenticating"

\* While the system is locked its user stays the same, and only an accepted
\* password of that user ends the lock (or the program is started again): not a
\* failed attempt, a late answer to someone else's, or the passing of time.
LockHolds ==
  [][locked /\ screen' # "boot" =>
       /\ username' = username
       /\ ~locked' => worker.step = "done" /\ worker.ok /\ worker.user = username]_frontVars

\* A login or an unlock whose thread was started is answered: the state does not
\* stay AUTHENTICATING, in which every further request is ignored.
AnswerComes ==
  (auth_state = "authenticating" /\ worker.step # "none") ~> (auth_state # "authenticating")
=============================================================================
