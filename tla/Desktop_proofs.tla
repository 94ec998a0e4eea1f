---------------------------- MODULE Desktop_proofs ----------------------------
(***************************************************************************)
(* Proofs about three parts of the desktop.                                *)
(*                                                                         *)
(* The front end with a terminal tab over it: the parts agree (FrontSound) *)
(* and a lock is ended by an accepted password of its user only            *)
(* (LockHolds), for any users, passwords, session and failure limits.      *)
(* FrontAgrees is not inductive.  Whether a failed attempt returns to the  *)
(* lock is read off the session, so the argument needs what an attempt     *)
(* under way has to do with the user, the token and the lock: AttemptOK.   *)
(*                                                                         *)
(* Plans and undo (PlansSound), for any number of plans and steps and any  *)
(* depth of the stack.  PlanInv says of each plan how far its thread is    *)
(* and what that has left in the history, the list and the counts; Almost  *)
(* is what an abort achieves while it goes on.                             *)
(*                                                                         *)
(* Isolated applications, for any number of starts: a stopped controller   *)
(* has no engine and a running one is watched.                             *)
(***************************************************************************)
EXTENDS IsolatedApp, Terminal, Automation, SequenceTheorems, FiniteSetTheorems, TLAPS

WorkerStates ==
  [step : {"none", "start", "engine", "done"}, user : User \cup {NoOne},
   pass : Password \cup {None}, ok : BOOLEAN]

EngineOK ==
  /\ core \in BOOLEAN
  /\ pw \in [User -> Password \cup {None}]
  /\ fails \in [User -> 0..FailLimit]
  /\ live \in [User -> Seq(BOOLEAN)]
  /\ \A u \in User : Len(live[u]) <= MaxSessions

FilesOK ==
  /\ saving \in BOOLEAN
  /\ overrides \in [User -> Password \cup {None}]

ScreensOK ==
  /\ auth_state \in {"logged_out", "authenticating", "logged_in", "locked"}
  /\ screen \in {"boot", "login", "desktop"}
  /\ thread_runs \in BOOLEAN /\ has_session \in BOOLEAN /\ locked \in BOOLEAN
  /\ token \in {"none", "sim", "session"}
  /\ username \in User \cup {NoOne} /\ current_user \in User \cup {NoOne}
  /\ worker \in WorkerStates

AgreeOK ==
  /\ auth_state = "locked" => locked
  /\ locked => auth_state \in {"locked", "authenticating"} /\ has_session
  /\ has_session <=> screen = "desktop"
  /\ has_session => username # NoOne /\ token # "none"
  /\ auth_state = "logged_in" => has_session
  /\ worker.step # "none" => thread_runs /\ auth_state = "authenticating"

\* An attempt under way tries the user of the manager, holds a token once the engine
\* has accepted it, and with a session it is an unlock.
AttemptOK ==
  /\ worker.step # "none" => worker.user = username /\ username # NoOne
  /\ worker.step = "done" /\ worker.ok => token # "none"
  /\ auth_state = "authenticating" /\ has_session => locked

FrontInv == EngineOK /\ FilesOK /\ ScreensOK /\ AgreeOK /\ AttemptOK

\* The tab's own variables, and the page it is shown on.
TabOK ==
  /\ tab \in {"closed", "NORMAL", "ROOT", "AUTH_SUDO", "LOCKED", "TERMINATED"}
  /\ role \in {"user", "admin"} /\ score \in 0..Threshold /\ recent \in 0..BurstLimit
  /\ cached \in BOOLEAN /\ masked \in BOOLEAN /\ shut \in BOOLEAN
  /\ tab = "ROOT" => role = "admin"
  /\ tab = "LOCKED" => shut /\ masked
  /\ shut => tab \in {"LOCKED", "AUTH_SUDO"}

OnDesktop == tab # "closed" => screen = "desktop"

TerminalInv == FrontInv /\ TabOK /\ OnDesktop

-----------------------------------------------------------------------------
(* The engine's login                                                      *)

\* A session more is a sequence of the same kind, within the limit.
LEMMA OpenedOK ==
  ASSUME EngineOK, NEW u \in User, NEW held \in BOOLEAN
  PROVE  /\ Opened(u, held) \in [User -> Seq(BOOLEAN)]
         /\ \A v \in User : Len(Opened(u, held)[v]) <= MaxSessions
<1> USE FrontAssumption
<1> DEFINE forgotten == [v \in User |-> [i \in DOMAIN live[v] |-> live[v][i] /\ ~held]]
           old == forgotten[u]
           kept == IF Len(old) >= MaxSessions THEN Tail(old) ELSE old
<1>1. ASSUME NEW v \in User
      PROVE  forgotten[v] \in Seq(BOOLEAN) /\ Len(forgotten[v]) <= MaxSessions
  <2>1. live[v] \in Seq(BOOLEAN) /\ Len(live[v]) \in Nat /\ Len(live[v]) <= MaxSessions
    BY DEF EngineOK
  <2>2. DOMAIN live[v] = 1..Len(live[v])
    BY <2>1
  <2>3. forgotten[v] = [i \in 1..Len(live[v]) |-> live[v][i] /\ ~held]
    BY <2>2
  <2>4. forgotten[v] \in [1..Len(live[v]) -> BOOLEAN]
    BY <2>3
  <2> HIDE DEF forgotten
  <2>5. forgotten[v] \in Seq(BOOLEAN)
    BY <2>1, <2>4, IsASeq
  <2>6. Len(forgotten[v]) = Len(live[v])
    BY <2>1, <2>4, <2>5
  <2> QED
    BY <2>1, <2>5, <2>6
<1>2. old \in Seq(BOOLEAN) /\ Len(old) \in Nat /\ Len(old) <= MaxSessions
  BY <1>1
<1>3. kept \in Seq(BOOLEAN) /\ Len(kept) + 1 <= MaxSessions
  <2> HIDE DEF old
  <2>1. CASE Len(old) >= MaxSessions
    <3>1. old # << >>
      BY <1>2, <2>1
    <3>2. Tail(old) \in Seq(BOOLEAN) /\ Len(Tail(old)) = Len(old) - 1
      BY <1>2, <3>1, HeadTailProperties
    <3> QED
      BY <1>2, <2>1, <3>2
  <2>2. CASE ~(Len(old) >= MaxSessions)
    BY <1>2, <2>2
  <2> QED
    BY <2>1, <2>2
<1> HIDE DEF kept
<1>4. Append(kept, held) \in Seq(BOOLEAN) /\ Len(Append(kept, held)) = Len(kept) + 1
  BY <1>3, AppendProperties
<1>5. Opened(u, held) = [forgotten EXCEPT ![u] = Append(kept, held)]
  BY DEF Opened, kept
<1>6. forgotten \in [User -> Seq(BOOLEAN)]
  BY <1>1
<1> HIDE DEF forgotten
<1> QED
  BY <1>1, <1>3, <1>4, <1>5, <1>6

\* Whoever calls login, the engine's own state stays well formed.
LEMMA EngineLoginOK ==
  ASSUME EngineOK, NEW u \in User, NEW p, NEW held \in BOOLEAN, EngineLogin(u, p, held)
  PROVE  EngineOK'
<1> USE FrontAssumption
<1>1. core' = core /\ pw' = pw
  BY DEF EngineLogin
<1>2. fails' \in [User -> 0..FailLimit]
  <2>1. fails[u] < FailLimit => fails[u] + 1 \in 0..FailLimit
    BY DEF EngineOK
  <2> QED
    BY <2>1 DEF EngineLogin, EngineOK
<1>3. live' = live \/ live' = Opened(u, held)
  BY DEF EngineLogin
<1>4. live' \in [User -> Seq(BOOLEAN)] /\ \A v \in User : Len(live'[v]) <= MaxSessions
  <2>1. CASE live' = live
    BY <2>1 DEF EngineOK
  <2>2. CASE live' = Opened(u, held)
    BY <2>2, OpenedOK
  <2> QED
    BY <1>3, <2>1, <2>2
<1> QED
  BY <1>1, <1>2, <1>4 DEF EngineOK

LEMMA VerifyPasswordOK ==
  ASSUME EngineOK, NEW u \in User, NEW p, VerifyPassword(u, p)
  PROVE  EngineOK'
<1>1. CASE UNCHANGED engineVars
  BY <1>1 DEF engineVars, EngineOK
<1>2. CASE EngineLogin(u, p, FALSE)
  BY <1>2, EngineLoginOK
<1> QED
  BY <1>1, <1>2 DEF VerifyPassword

LEMMA EngineKept == ASSUME EngineOK, UNCHANGED engineVars PROVE EngineOK'
BY DEF EngineOK, engineVars

LEMMA FilesKept == ASSUME FilesOK, UNCHANGED fileVars PROVE FilesOK'
BY DEF FilesOK, fileVars

\* What the parts agree on reads the variables of the manager, of the token, of the
\* thread and of the screens, and nothing of the engine or the file.
LEMMA AgreementKept ==
  ASSUME ScreensOK, AgreeOK, AttemptOK, UNCHANGED <<managerVars, apiVars, threadVars, uiVars>>
  PROVE  ScreensOK' /\ AgreeOK' /\ AttemptOK'
BY DEF ScreensOK, AgreeOK, AttemptOK, managerVars, apiVars, threadVars, uiVars, WorkerStates

-----------------------------------------------------------------------------
(* The steps of the front end                                              *)

LEMMA InitInv == FrontInit => FrontInv
<1> USE FrontAssumption
<1> SUFFICES ASSUME FrontInit PROVE FrontInv
  OBVIOUS
<1>1. EngineOK
  BY DEF FrontInit, EngineOK
<1>2. FilesOK
  BY DEF FrontInit, FilesOK
<1>3. ScreensOK /\ AgreeOK /\ AttemptOK
  BY DEF FrontInit, ScreensOK, AgreeOK, AttemptOK, WorkerStates, IdleWorker
<1> QED
  BY <1>1, <1>2, <1>3 DEF FrontInv

\* The steps that touch the engine's sessions, counters and passwords only.
LEMMA EngineStepsInv ==
  ASSUME FrontInv, NEW u \in User, CooldownOver(u) \/ Expire(u)
  PROVE  FrontInv' /\ UNCHANGED <<managerVars, apiVars, threadVars, uiVars>>
<1> USE FrontAssumption DEF FrontInv
<1>1. UNCHANGED <<fileVars, managerVars, apiVars, threadVars, uiVars>>
  BY DEF CooldownOver, Expire
<1>2. CASE CooldownOver(u)
  BY <1>1, <1>2, FilesKept, AgreementKept DEF CooldownOver, EngineOK
<1>3. CASE Expire(u)
  <2>1. live[u] \in Seq(BOOLEAN) /\ live[u] # << >> /\ Len(live[u]) <= MaxSessions
    BY <1>3 DEF Expire, EngineOK
  <2>2. Tail(live[u]) \in Seq(BOOLEAN) /\ Len(Tail(live[u])) = Len(live[u]) - 1
    BY <2>1, HeadTailProperties
  <2>3. Len(Tail(live[u])) <= MaxSessions
    BY <2>1, <2>2
  <2>4. EngineOK'
    BY <1>3, <2>2, <2>3 DEF Expire, EngineOK
  <2> QED
    BY <1>1, <2>4, FilesKept, AgreementKept
<1> QED
  BY <1>2, <1>3

\* A password is verified on the interface thread.
LEMMA VerifiedInv ==
  ASSUME FrontInv, NEW u \in User, NEW p, VerifyPassword(u, p),
         UNCHANGED <<fileVars, managerVars, apiVars, threadVars, uiVars>>
  PROVE  FrontInv'
BY VerifyPasswordOK, FilesKept, AgreementKept DEF FrontInv

LEMMA ScreenStepsInv ==
  ASSUME FrontInv, BootFinished \/ Pulse \/ CheckIdle \/ ThreadEnds \/ ListSecrets \/ SaveEnds
  PROVE  FrontInv'
<1> USE DEF FrontInv
<1>1. EngineOK'
  BY EngineKept DEF BootFinished, Pulse, CheckIdle, ThreadEnds, ListSecrets, SaveEnds
<1>2. FilesOK'
  BY DEF BootFinished, Pulse, CheckIdle, ThreadEnds, ListSecrets, SaveEnds, FilesOK, fileVars
<1>3. ScreensOK' /\ AgreeOK' /\ AttemptOK'
  <2> USE DEF ScreensOK, AgreeOK, AttemptOK, managerVars, apiVars, threadVars, uiVars
  <2>1. CASE BootFinished
    BY <2>1 DEF BootFinished, WorkerStates
  <2>2. CASE Pulse
    BY <2>2 DEF Pulse, WorkerStates
  <2>3. CASE CheckIdle
    BY <2>3 DEF CheckIdle, WorkerStates
  <2>4. CASE ThreadEnds
    BY <2>4 DEF ThreadEnds, WorkerStates
  <2>5. CASE ListSecrets
    BY <2>5 DEF ListSecrets, UseToken, WorkerStates
  <2>6. CASE SaveEnds
    BY <2>6 DEF SaveEnds, WorkerStates
  <2> QED
    BY <2>1, <2>2, <2>3, <2>4, <2>5, <2>6
<1> QED
  BY <1>1, <1>2, <1>3

\* The login thread.
LEMMA WorkerStepsInv ==
  ASSUME FrontInv, WorkerReads \/ WorkerAsksEngine
  PROVE  FrontInv'
<1> USE DEF FrontInv
<1>1. CASE WorkerReads
  <2>1. EngineOK' /\ FilesOK'
    BY <1>1, EngineKept, FilesKept DEF WorkerReads
  <2>2. ScreensOK' /\ AgreeOK' /\ AttemptOK'
    BY <1>1 DEF WorkerReads, StoredLogin, ScreensOK, AgreeOK, AttemptOK, WorkerStates,
                managerVars, apiVars, uiVars
  <2> QED
    BY <2>1, <2>2
<1>2. CASE WorkerAsksEngine
  <2>1. worker.user \in User
    BY <1>2 DEF WorkerAsksEngine, ScreensOK, AttemptOK, WorkerStates
  <2>2. EngineOK' /\ FilesOK'
    BY <1>2, <2>1, EngineLoginOK, FilesKept DEF WorkerAsksEngine
  <2>3. Accepts(worker.user, worker.pass) \in BOOLEAN
    BY DEF Accepts
  <2>4. ScreensOK' /\ AgreeOK' /\ AttemptOK'
    BY <1>2, <2>1, <2>3 DEF WorkerAsksEngine, ScreensOK, AgreeOK, AttemptOK, WorkerStates,
                     managerVars, apiVars, uiVars
  <2> QED
    BY <2>2, <2>4
<1> QED
  BY <1>1, <1>2

\* A request starts the thread for the user it leaves in the manager, or finds the
\* previous thread still about; either way no attempt was under way.
LEMMA RequestOK ==
  ASSUME ScreensOK, AgreeOK, NEW u \in User, NEW p \in Password,
         worker.step = "none", has_session => locked,
         auth_state' = "authenticating", username' = u, AttemptLogin(u, p),
         UNCHANGED <<has_session, apiVars, uiVars>>
  PROVE  ScreensOK' /\ AgreeOK' /\ AttemptOK'
<1> USE FrontAssumption DEF apiVars, uiVars
<1>1. worker' \in WorkerStates
  <2>1. CASE thread_runs
    BY <2>1 DEF AttemptLogin, threadVars, ScreensOK
  <2>2. CASE ~thread_runs
    <3>1. worker' = [step |-> "start", user |-> u, pass |-> p, ok |-> FALSE]
      BY <2>2 DEF AttemptLogin
    <3> QED
      BY <3>1 DEF WorkerStates
  <2> QED
    BY <2>1, <2>2
<1>2. worker'.step # "none" => worker'.step = "start" /\ worker'.user = u /\ thread_runs'
  BY DEF AttemptLogin, threadVars
<1>3. thread_runs' \in BOOLEAN
  BY DEF AttemptLogin, threadVars, ScreensOK
<1>4. ScreensOK'
  BY <1>1, <1>3 DEF ScreensOK
<1>5. AgreeOK' /\ AttemptOK'
  BY <1>2 DEF AgreeOK, AttemptOK
<1> QED
  BY <1>4, <1>5

\* A request: a login before the first session, an unlock while locked.
LEMMA RequestInv ==
  ASSUME FrontInv, NEW u \in User, NEW p \in Password, DoLogin(u, p) \/ AttemptUnlock(p)
  PROVE  FrontInv'
<1> USE DEF FrontInv
<1>1. EngineOK' /\ FilesOK'
  BY EngineKept, FilesKept DEF DoLogin, AttemptUnlock
<1>2. CASE UNCHANGED <<managerVars, threadVars>>
  <2>1. UNCHANGED <<managerVars, apiVars, threadVars, uiVars>>
    BY <1>2 DEF DoLogin, AttemptUnlock
  <2> QED
    BY <1>1, <2>1, AgreementKept
<1>3. CASE DoLogin(u, p) /\ auth_state \notin {"authenticating", "logged_in"}
  <2>1. worker.step = "none" /\ ~has_session
    BY <1>3 DEF DoLogin, AgreeOK
  <2>2. /\ auth_state' = "authenticating" /\ username' = u /\ AttemptLogin(u, p)
        /\ UNCHANGED <<has_session, apiVars, uiVars>>
    BY <1>3 DEF DoLogin, RequestLogin
  <2> QED
    BY <1>1, <2>1, <2>2, RequestOK
<1>4. CASE AttemptUnlock(p) /\ auth_state = "locked"
  <2>1. worker.step = "none" /\ locked /\ username \in User
    BY <1>4 DEF AgreeOK, ScreensOK
  <2>2. /\ auth_state' = "authenticating" /\ username' = username /\ AttemptLogin(username, p)
        /\ UNCHANGED <<has_session, apiVars, uiVars>>
    BY <1>4 DEF AttemptUnlock, RequestUnlock
  <2> QED
    BY <1>1, <2>1, <2>2, RequestOK
<1> QED
  BY <1>2, <1>3, <1>4 DEF DoLogin, AttemptUnlock, RequestLogin, RequestUnlock

\* The answer: a success ends the lock, a failure returns to where the attempt began.
LEMMA AnswerInv == ASSUME FrontInv, AnswerArrives PROVE FrontInv'
<1> USE DEF FrontInv
<1>1. EngineOK' /\ FilesOK'
  BY EngineKept, FilesKept DEF AnswerArrives
<1>2. /\ worker' = IdleWorker /\ thread_runs' = thread_runs
      /\ token' = token /\ current_user' = current_user
  BY DEF AnswerArrives, apiVars
<1>3. worker' \in WorkerStates /\ worker'.step = "none"
  BY <1>2 DEF IdleWorker, WorkerStates
<1>4. /\ auth_state = "authenticating" /\ thread_runs
      /\ worker.user = username /\ username \in User
  BY DEF AnswerArrives, AgreeOK, AttemptOK, ScreensOK
<1>5. CASE worker.ok
  <2>1. /\ has_session' = TRUE /\ username' = username /\ auth_state' = "logged_in"
        /\ locked' = FALSE /\ screen' = "desktop"
    BY <1>4, <1>5 DEF AnswerArrives, PageOf
  <2>2. token # "none"
    BY <1>5 DEF AnswerArrives, AttemptOK
  <2>3. ScreensOK' /\ AgreeOK' /\ AttemptOK'
    BY <1>2, <1>3, <1>4, <2>1, <2>2, FrontAssumption DEF ScreensOK, AgreeOK, AttemptOK
  <2> QED
    BY <1>1, <2>3
<1>6. CASE ~worker.ok
  <2>1. /\ has_session' = has_session /\ username' = username /\ locked' = locked
        /\ auth_state' = RevertTo
        /\ screen' = IF RevertTo = "logged_out" THEN "login" ELSE screen
    BY <1>4, <1>6 DEF AnswerArrives, PageOf, RevertTo
  <2>2. ScreensOK'
    BY <1>2, <1>3, <2>1 DEF ScreensOK, RevertTo
  <2>3. AgreeOK' /\ AttemptOK'
    BY <1>2, <1>3, <1>4, <2>1 DEF ScreensOK, AgreeOK, AttemptOK, RevertTo
  <2> QED
    BY <1>1, <2>2, <2>3
<1> QED
  BY <1>5, <1>6

\* The dialogs of the desktop.
LEMMA DialogsInv ==
  ASSUME FrontInv, NEW u \in User, NEW p \in Password, NEW new \in Password,
         SaveStarts(p, new) \/ VerifyOnly(p) \/ Provision(u, p)
  PROVE  FrontInv'
<1> USE DEF FrontInv
<1>1. CASE SaveStarts(p, new)
  <2>1. username \in User
    BY <1>1 DEF SaveStarts, ScreensOK
  <2>2. EngineOK'
    <3>1. CASE core
      BY <1>1, <2>1, <3>1, VerifyPasswordOK DEF SaveStarts
    <3>2. CASE ~core
      BY <1>1, <2>1, <3>2 DEF SaveStarts, EngineOK
    <3> QED
      BY <3>1, <3>2
  <2>3. FilesOK'
    BY <1>1, <2>1 DEF SaveStarts, FilesOK
  <2>4. UNCHANGED <<managerVars, apiVars, threadVars, uiVars>>
    BY <1>1 DEF SaveStarts
  <2> QED
    BY <2>2, <2>3, <2>4, AgreementKept
<1>2. CASE VerifyOnly(p)
  BY <1>2, VerifiedInv DEF VerifyOnly, ScreensOK
<1>3. CASE Provision(u, p)
  <2>1. EngineOK' /\ FilesOK'
    BY <1>3, FilesKept DEF Provision, EngineOK
  <2>2. ScreensOK' /\ AgreeOK' /\ AttemptOK'
    BY <1>3 DEF Provision, UseToken, ScreensOK, AgreeOK, AttemptOK, WorkerStates,
                managerVars, threadVars, uiVars
  <2> QED
    BY <2>1, <2>2
<1> QED
  BY <1>1, <1>2, <1>3

LEMMA FrontStepInv == ASSUME FrontInv, FrontStep PROVE FrontInv'
BY EngineStepsInv, ScreenStepsInv, WorkerStepsInv, RequestInv, AnswerInv, DialogsInv, FrontAssumption
   DEF FrontStep

LEMMA RestartInv == ASSUME FrontInv, RestartProgram PROVE FrontInv'
<1> USE FrontAssumption DEF FrontInv
<1>a. << >> \in Seq(BOOLEAN) /\ Len(<< >>) = 0
  BY EmptySeq
<1>b. live' \in [User -> Seq(BOOLEAN)] /\ \A u \in User : Len(live'[u]) <= MaxSessions
  BY <1>a DEF RestartProgram
<1>c. pw' \in [User -> Password \cup {None}] /\ fails' = fails /\ core' = core
  BY DEF RestartProgram, EngineOK
<1>1. EngineOK' /\ FilesOK'
  BY <1>b, <1>c DEF RestartProgram, EngineOK, FilesOK
<1>2. ScreensOK' /\ AgreeOK' /\ AttemptOK'
  BY DEF RestartProgram, IdleWorker, ScreensOK, AgreeOK, AttemptOK, WorkerStates
<1> QED
  BY <1>1, <1>2

-----------------------------------------------------------------------------
(* The steps of the tab                                                    *)

\* What a tab does to the front end: a password is verified at most.
LEMMA TabStepFront ==
  ASSUME FrontInv, Open => screen = "desktop", TabStep
  PROVE  FrontInv' /\ UNCHANGED <<fileVars, managerVars, apiVars, threadVars, uiVars>>
<1> USE FrontAssumption
<1>1. ASSUME UNCHANGED frontVars PROVE FrontInv' /\ UNCHANGED <<fileVars, managerVars, apiVars, threadVars, uiVars>>
  BY <1>1, EngineKept, FilesKept, AgreementKept DEF frontVars, FrontInv
<1>2. CASE OpenTab \/ CloseTab \/ RunAsAdministrator \/ Calm \/ GrantOld
  BY <1>1, <1>2 DEF OpenTab, CloseTab, RunAsAdministrator, Calm, GrantOld
<1>3. ASSUME NEW c \in Commands, EnterCommand(c)
      PROVE  FrontInv' /\ UNCHANGED <<fileVars, managerVars, apiVars, threadVars, uiVars>>
  BY <1>1, <1>3 DEF EnterCommand
<1>4. ASSUME NEW p \in Password, OpenAsAdmin(p)
      PROVE  FrontInv' /\ UNCHANGED <<fileVars, managerVars, apiVars, threadVars, uiVars>>
  <2> DEFINE u == IF current_user = NoOne THEN Admin ELSE current_user
  <2>1. u \in User
    BY DEF FrontInv, ScreensOK
  <2>2. VerifyPassword(u, p) /\ UNCHANGED <<fileVars, managerVars, apiVars, threadVars, uiVars>>
    BY <1>4 DEF OpenAsAdmin
  <2> QED
    BY <2>1, <2>2, VerifiedInv
<1>5. ASSUME NEW p \in Password, EnterPassword(p)
      PROVE  FrontInv' /\ UNCHANGED <<fileVars, managerVars, apiVars, threadVars, uiVars>>
  <2>1. UNCHANGED <<fileVars, managerVars, apiVars, threadVars, uiVars>>
    BY <1>5 DEF EnterPassword
  <2>2. username \in User
    BY <1>5 DEF EnterPassword, AtTab, FrontInv, AgreeOK, ScreensOK
  <2>3. PICK t \in Kept(p) : VerifyPassword(username, t)
    BY <1>5, <2>2 DEF EnterPassword, AuthSudo, Unlock, SudoVerify
  <2> QED
    BY <2>1, <2>2, <2>3, VerifiedInv
<1> QED
  BY <1>2, <1>3, <1>4, <1>5 DEF TabStep

\* The audit call of a threat raises: the points are counted, the state stays.
LEMMA ThreatOK ==
  ASSUME score \in 0..Threshold, NEW points \in Nat, Threat(points)
  PROVE  score' \in 0..Threshold /\ tab' = tab
BY TabAssumption DEF Threat, AuditWorks

LEMMA TabUnchanged == ASSUME TabOK, UNCHANGED termVars PROVE TabOK'
BY DEF TabOK, termVars

LEMMA NoTabOK == ASSUME NoTab PROVE TabOK'
<1>1. 0 \in 0..Threshold /\ 0 \in 0..BurstLimit
  BY TabAssumption
<1>2. cached' \in BOOLEAN /\ masked' \in BOOLEAN /\ shut' \in BOOLEAN
  BY DEF NoTab
<1> QED
  BY <1>1, <1>2 DEF NoTab, TabOK

LEMMA ObeyTab ==
  ASSUME TabOK, tab \in {"NORMAL", "ROOT"}, NEW c \in Commands, Obey(c),
         recent' \in 0..BurstLimit
  PROVE  TabOK'
<1>1. shut = FALSE
  BY DEF TabOK
<1>2. CASE Sudo
  BY <1>1, <1>2 DEF Sudo, Elevate, TabOK
<1>3. CASE Lock
  BY <1>3 DEF Lock, TabOK
<1>4. CASE Exit
  BY <1>1, <1>3, <1>4 DEF Exit, TabOK
<1>5. CASE Dispatch(c)
  <2>1. score' \in 0..Threshold /\ tab' = tab
    BY <1>5, ThreatOK DEF Dispatch, TabOK
  <2> QED
    BY <1>5, <2>1 DEF Dispatch, TabOK
<1> QED
  BY <1>2, <1>3, <1>4, <1>5 DEF Obey

\* A command leaves the tab's state, role and echo in agreement.
LEMMA CommandTab ==
  ASSUME TabOK, NEW c \in Commands, EnterCommand(c)
  PROVE  TabOK'
<1>1. tab \in {"NORMAL", "ROOT"}
  BY DEF EnterCommand
<1>2. recent' \in 0..BurstLimit
  BY TabAssumption DEF EnterCommand, Burst, TabOK
<1>3. CASE Burst
  <2>1. Threat(20) /\ UNCHANGED <<role, cached, masked, shut>>
    BY <1>3 DEF EnterCommand
  <2>2. score' \in 0..Threshold /\ tab' = tab
    BY <2>1, ThreatOK DEF TabOK
  <2> QED
    BY <1>2, <2>1, <2>2 DEF TabOK
<1>4. CASE ~Burst
  BY <1>1, <1>2, <1>4, ObeyTab DEF EnterCommand
<1> QED
  BY <1>3, <1>4

\* A password: a grant, or the state it was asked for in; never NORMAL from a lock
\* without the user's password.
LEMMA PasswordTab ==
  ASSUME TabOK, NEW p \in Password, EnterPassword(p)
  PROVE  TabOK'
<1>1. PICK t \in Kept(p) : (tab = "AUTH_SUDO" /\ AuthSudo(t)) \/ (tab = "LOCKED" /\ Unlock(t))
  BY DEF EnterPassword
<1>2. CASE tab = "AUTH_SUDO" /\ AuthSudo(t)
  BY <1>2 DEF AuthSudo, Elevate, AuditWorks, TabOK
<1>3. CASE tab = "LOCKED" /\ Unlock(t)
  BY <1>3 DEF Unlock, AuditWorks, TabOK
<1> QED
  BY <1>1, <1>2, <1>3

LEMMA TabStepTab ==
  ASSUME TabOK, TabStep
  PROVE  TabOK'
<1>1. CASE OpenTab
  <2>1. shut = FALSE
    BY <1>1 DEF OpenTab, Open, TabOK
  <2> QED
    BY <1>1, <2>1 DEF OpenTab, TabOK
<1>2. CASE CloseTab
  BY <1>2, NoTabOK DEF CloseTab
<1>3. CASE RunAsAdministrator
  BY <1>3 DEF RunAsAdministrator, Elevate, TabOK
<1>4. CASE Calm
  <2>1. recent' \in 0..BurstLimit
    BY <1>4, TabAssumption DEF Calm
  <2> QED
    BY <1>4, <2>1 DEF Calm, TabOK
<1>5. CASE GrantOld
  BY <1>5 DEF GrantOld, TabOK
<1>6. ASSUME NEW p \in Password, OpenAsAdmin(p) PROVE TabOK'
  BY <1>6 DEF OpenAsAdmin, Elevate, TabOK
<1> QED
  BY <1>1, <1>2, <1>3, <1>4, <1>5, <1>6, CommandTab, PasswordTab DEF TabStep

\* A tab is opened on the desktop, and nothing it does changes the page.
LEMMA TabStepPage ==
  ASSUME OnDesktop, TabStep, screen' = screen
  PROVE  OnDesktop'
BY DEF OnDesktop, TabStep, OpenTab, CloseTab, NoTab, RunAsAdministrator, Calm, GrantOld,
       OpenAsAdmin, EnterPassword, EnterCommand, AtTab, Open

-----------------------------------------------------------------------------
(* The theorems                                                            *)

LEMMA TerminalInvInit == TerminalInit => TerminalInv
<1> SUFFICES ASSUME TerminalInit PROVE TerminalInv
  OBVIOUS
<1>1. FrontInv
  BY InitInv DEF TerminalInit
<1>2. 0 \in 0..Threshold /\ 0 \in 0..BurstLimit
  BY TabAssumption
<1>3. cached \in BOOLEAN /\ masked \in BOOLEAN /\ shut \in BOOLEAN
  BY DEF TerminalInit
<1>4. TabOK /\ OnDesktop
  BY <1>2, <1>3 DEF TerminalInit, TabOK, OnDesktop
<1> QED
  BY <1>1, <1>4 DEF TerminalInv

LEMMA TerminalInvStep == TerminalInv /\ [TerminalNext]_allVars => TerminalInv'
<1> SUFFICES ASSUME TerminalInv, [TerminalNext]_allVars PROVE TerminalInv'
  OBVIOUS
<1> USE DEF TerminalInv
<1>1. CASE ~Open /\ FrontStep /\ UNCHANGED termVars
  BY <1>1, FrontStepInv, TabUnchanged DEF termVars, OnDesktop, Open
<1>2. CASE (\E u \in User : CooldownOver(u) \/ Expire(u)) /\ UNCHANGED termVars
  BY <1>2, EngineStepsInv, TabUnchanged DEF termVars, OnDesktop, uiVars
<1>3. CASE (ListSecrets \/ CheckIdle) /\ UNCHANGED termVars
  <2>1. screen' = screen
    BY <1>3 DEF ListSecrets, CheckIdle, uiVars
  <2> QED
    BY <1>3, <2>1, ScreenStepsInv, TabUnchanged DEF termVars, OnDesktop
<1>4. CASE RestartProgram /\ NoTab
  BY <1>4, RestartInv, NoTabOK DEF NoTab, OnDesktop
<1>5. CASE TabStep
  BY <1>5, TabStepFront, TabStepTab, TabStepPage DEF uiVars, OnDesktop, Open
<1>6. CASE UNCHANGED allVars
  <2>1. FrontInv'
    BY <1>6, EngineKept, FilesKept, AgreementKept DEF allVars, frontVars, FrontInv
  <2> QED
    BY <1>6, <2>1, TabUnchanged DEF allVars, frontVars, uiVars, termVars, OnDesktop
<1> QED
  BY <1>1, <1>2, <1>3, <1>4, <1>5, <1>6 DEF TerminalNext

\* The strengthened invariant of the front end and its tab, for every set of users and
\* passwords and every limit.
THEOREM InvAlways == TerminalSpec => []TerminalInv
BY TerminalInvInit, TerminalInvStep, PTL DEF TerminalSpec

\* The parts of the front end agree on who is logged in and on what is locked, also
\* while an unlock is tried; a locked tab reads without echo and gives no prompt back
\* by any detour.
THEOREM FrontAlwaysSound == TerminalSpec => []FrontSound
<1>1. TerminalInv => FrontSound
  <2> SUFFICES ASSUME TerminalInv PROVE FrontSound
    OBVIOUS
  <2> USE DEF TerminalInv
  <2>1. FrontAgrees
    BY DEF FrontInv, FrontAgrees, EngineOK, FilesOK, ScreensOK, AgreeOK
  <2>2. TabAgrees /\ LockedTabStaysShut
    BY DEF TabOK, OnDesktop, TabAgrees, LockedTabStaysShut, Open
  <2> QED
    BY <2>1, <2>2 DEF FrontSound
<1> QED
  BY <1>1, InvAlways, PTL

\* While the system is locked its user stays the same, and what ends the lock is the
\* accepted answer of an attempt made with that user's name.
THEOREM OnlyTheUserUnlocks == TerminalSpec => LockHolds
<1> DEFINE Holds == locked /\ screen' # "boot" =>
             /\ username' = username
             /\ ~locked' => worker.step = "done" /\ worker.ok /\ worker.user = username
<1>1. TerminalInv /\ [TerminalNext]_allVars => [Holds]_frontVars
  <2> SUFFICES ASSUME TerminalInv, TerminalNext, locked, screen' # "boot", frontVars' # frontVars
               PROVE  /\ username' = username
                      /\ ~locked' => worker.step = "done" /\ worker.ok /\ worker.user = username
    BY DEF allVars
  <2> USE DEF TerminalInv, FrontInv, managerVars, uiVars
  <2>1. CASE FrontStep
    <3>1. screen = "desktop" /\ auth_state \in {"locked", "authenticating"} /\ screen # "login"
      BY DEF AgreeOK
    <3>2. CASE AnswerArrives
      BY <3>2 DEF AnswerArrives, AttemptOK
    <3>3. CASE CheckIdle
      BY <3>3 DEF CheckIdle
    <3>4. ASSUME NEW p \in Password, AttemptUnlock(p)
          PROVE  username' = username /\ locked' = locked
      BY <3>4 DEF AttemptUnlock, RequestUnlock
    <3> QED
      BY <2>1, <3>1, <3>2, <3>3, <3>4
         DEF FrontStep, CooldownOver, Expire, BootFinished, Pulse, ThreadEnds, WorkerReads,
             WorkerAsksEngine, SaveEnds, ListSecrets, DoLogin, Provision, VerifyOnly, SaveStarts
  <2>2. CASE (\E u \in User : CooldownOver(u) \/ Expire(u)) \/ ListSecrets
    BY <2>2 DEF CooldownOver, Expire, ListSecrets
  <2>3. CASE CheckIdle
    BY <2>3 DEF CheckIdle
  <2>4. CASE RestartProgram
    BY <2>4 DEF RestartProgram
  <2>5. CASE TabStep
    BY <2>5, TabStepFront DEF OnDesktop, Open
  <2> QED
    BY <2>1, <2>2, <2>3, <2>4, <2>5 DEF TerminalNext
<1> QED
  BY <1>1, InvAlways, PTL DEF TerminalSpec, LockHolds

-----------------------------------------------------------------------------
(* Plans and undo                                                          *)

\* The steps of all plans.
Steps == Plans \X (1..Length)

\* What the undo stack holds.
Entries == Plans \cup {0}

PlanTyped ==
  /\ active \in Plans \cup {0} /\ stop \in BOOLEAN /\ overlap \in BOOLEAN
  /\ main \in {"idle", "abort", "replace", "stuck", "undo"}
  /\ runner \in [Plans -> {"none", "looking", "sleeping", "listing", "pushing", "counting",
                           "clearing", "gone"}]
  /\ step \in [Plans -> 1..(Length + 1)]
  /\ completed \in Seq(Steps) /\ owed \in Seq(Steps) \cup {Unread}
  /\ stack \in Seq(Entries) /\ Len(stack) <= MaxUndo
  /\ stats \in [Plans -> [success : Nat, rollback : Nat]]
  /\ ordered \subseteq Steps /\ reversed \subseteq Steps
  /\ aborted \subseteq Plans /\ earlier \subseteq Plans

Started(p) == runner[p] # "none"
Finished(p) == step[p] = Length + 1

\* How far the thread of a plan is, and what it has left behind.
ProgressOK(p) ==
  /\ runner[p] \in {"none", "looking", "sleeping", "listing"} => ~Finished(p)
  /\ runner[p] \in {"pushing", "counting", "clearing"} => Finished(p)
  /\ ~Started(p) => step[p] = 1 /\ stats[p].rollback = 0 /\ p \notin aborted \cup earlier
  /\ \A n \in 1..Length :
       <<p, n>> \in ordered <=> n < step[p] \/ (n = step[p] /\ runner[p] = "listing")
  /\ stats[p].success = IF runner[p] = "clearing" \/ (runner[p] = "gone" /\ Finished(p)) THEN 1 ELSE 0

CountsOK(p) ==
  /\ stats[p].rollback \in 0..2
  /\ runner[p] # "gone" => stats[p].rollback <= 1
  /\ runner[p] = "gone" => stats[p].success + stats[p].rollback > 0

InOrder ==
  /\ \A p, q \in Plans : Started(p) /\ q < p => Started(q)
  /\ active # 0 => Started(active) /\ Latest(active)

MainOK ==
  /\ main \in {"idle", "stuck"} => owed = Unread
  /\ main = "undo" => owed # Unread
  /\ main \in {"abort", "replace", "stuck"} => stop
  /\ main \in {"idle", "undo"} /\ active # 0 =>
       ~stop /\ runner[active] # "gone" /\ stats[active].rollback = 0

ListedOK ==
  \A p \in Plans : Started(p) /\ Latest(p) =>
    /\ \A n \in 1..Length : n < step[p] => <<p, n>> \in ToSet(completed)
    /\ ~overlap => ToSet(completed) \subseteq {p} \X (1..(step[p] - 1))

\* All that p has launched has been taken back, or is among those in taken: but for one
\* step, after which the thread does not go on.
Almost(p, taken) ==
  /\ stop
  /\ runner[p] = "sleeping" => \A n \in 1..Length : <<p, n>> \in ordered => <<p, n>> \in taken
  /\ \A m, n \in 1..Length :
       <<p, m>> \in ordered \ taken /\ <<p, n>> \in ordered \ taken => m = n

AbortsOK ==
  /\ main = "abort" /\ owed # Unread /\ active # 0 => Almost(active, reversed \cup ToSet(owed))
  /\ \A p \in aborted : Latest(p) => Almost(p, reversed)

AloneOK ==
  ~overlap => \A p \in Plans : ThreadLives(p) => Latest(p) /\ (active = p \/ stop)

StackOK ==
  /\ \A i \in 1..Len(stack) : stack[i] # 0 =>
       Finished(stack[i]) /\ runner[stack[i]] # "pushing"
  /\ ~overlap =>
       /\ \A i, j \in 1..Len(stack) : stack[i] \in earlier /\ stack[j] \in earlier => i = j
       /\ \A i \in 1..Len(stack), p \in earlier :
            stack[i] \in earlier => runner[p] \in {"counting", "clearing", "gone"}

PlanInv ==
  /\ PlanTyped /\ \A p \in Plans : ProgressOK(p) /\ CountsOK(p)
  /\ InOrder /\ MainOK /\ ListedOK /\ AbortsOK /\ AloneOK /\ StackOK

-----------------------------------------------------------------------------
(* Sequences                                                               *)

\* No list of steps is the mark of an unread one, for no plan has the number 0.
LEMMA UnreadApart == Unread \notin Seq(Steps)
<1> SUFFICES ASSUME Unread \in Seq(Steps) PROVE FALSE
  OBVIOUS
<1>1. Unread[1] \in Steps
  BY ElementOfSeq DEF Unread
<1> QED
  BY <1>1, PlanAssumption DEF Unread, Steps

LEMMA MembersAppend ==
  ASSUME NEW S, NEW s \in Seq(S), NEW e \in S
  PROVE  Append(s, e) \in Seq(S) /\ ToSet(Append(s, e)) = ToSet(s) \cup {e}
<1>1. \A i \in 1..Len(s) : Append(s, e)[i] = s[i]
  OBVIOUS
<1>2. Append(s, e)[Len(s) + 1] = e /\ Len(Append(s, e)) = Len(s) + 1 /\ Len(s) \in Nat
  OBVIOUS
<1> HIDE DEF ToSet
<1>3. \A x : x \in ToSet(Append(s, e)) <=> \E i \in 1..(Len(s) + 1) : Append(s, e)[i] = x
  BY <1>2 DEF ToSet
<1>4. \A x : x \in ToSet(s) <=> \E i \in 1..Len(s) : s[i] = x
  BY DEF ToSet
<1> QED
  BY <1>1, <1>2, <1>3, <1>4

LEMMA MembersReverse ==
  ASSUME NEW S, NEW s \in Seq(S)
  PROVE  Reverse(s) \in Seq(S) /\ ToSet(Reverse(s)) = ToSet(s)
<1> DEFINE n == Len(s)
<1>1. n \in Nat /\ DOMAIN s = 1..n
  OBVIOUS
<1>2. \A i \in 1..n : (n - i) + 1 \in 1..n /\ n - ((n - i) + 1) + 1 = i
  BY <1>1
<1>3. Reverse(s) = [i \in 1..n |-> s[(n - i) + 1]]
  BY DEF Reverse
<1>4. Reverse(s) \in [1..n -> S]
  BY <1>2, <1>3
<1>5. Reverse(s) \in Seq(S) /\ DOMAIN Reverse(s) = 1..n
  BY <1>1, <1>4
<1>6. \A x \in ToSet(Reverse(s)) : x \in ToSet(s)
  BY <1>1, <1>2, <1>3, <1>5 DEF ToSet
<1>7. \A i \in 1..n : s[i] = Reverse(s)[(n - i) + 1]
  BY <1>2, <1>3
<1>8. \A x \in ToSet(s) : x \in ToSet(Reverse(s))
  BY <1>1, <1>2, <1>5, <1>7 DEF ToSet
<1> QED
  BY <1>5, <1>6, <1>8

LEMMA MembersTail ==
  ASSUME NEW S, NEW s \in Seq(S), s # << >>
  PROVE  /\ Head(s) \in S /\ Tail(s) \in Seq(S)
         /\ ToSet(s) = {Head(s)} \cup ToSet(Tail(s))
<1>1. Len(s) \in Nat /\ Len(s) > 0 /\ DOMAIN s = 1..Len(s) /\ Tail(s) \in Seq(S) /\ Head(s) \in S
  OBVIOUS
<1>2. Len(Tail(s)) = Len(s) - 1 /\ DOMAIN Tail(s) = 1..(Len(s) - 1)
  BY <1>1
<1>3. \A i \in 1..(Len(s) - 1) : Tail(s)[i] = s[i + 1]
  BY <1>1
<1>4. \A i \in 1..Len(s) : i = 1 \/ i - 1 \in 1..(Len(s) - 1)
  BY <1>1
<1>5. s[1] = Head(s)
  OBVIOUS
<1>6. \A x \in ToSet(s) : x \in {Head(s)} \cup ToSet(Tail(s))
  <2> TAKE x \in ToSet(s)
  <2>1. PICK i \in 1..Len(s) : s[i] = x
    BY <1>1 DEF ToSet
  <2>2. CASE i # 1
    <3>1. i - 1 \in 1..(Len(s) - 1) /\ Tail(s)[i - 1] = s[(i - 1) + 1] /\ (i - 1) + 1 = i
      BY <1>1, <1>3, <1>4, <2>2
    <3> QED
      BY <1>2, <2>1, <3>1 DEF ToSet
  <2> QED
    BY <1>5, <2>1, <2>2
<1>7. \A x \in ToSet(Tail(s)) : x \in ToSet(s)
  <2> TAKE x \in ToSet(Tail(s))
  <2>1. PICK i \in 1..(Len(s) - 1) : Tail(s)[i] = x
    BY <1>2 DEF ToSet
  <2>2. i + 1 \in 1..Len(s) /\ s[i + 1] = x
    BY <1>1, <1>3, <2>1
  <2> QED
    BY <1>1, <2>2 DEF ToSet
<1>8. Head(s) \in ToSet(s)
  BY <1>1, <1>5 DEF ToSet
<1> QED
  BY <1>1, <1>6, <1>7, <1>8

LEMMA FrontEntries ==
  ASSUME NEW S, NEW s \in Seq(S), s # << >>
  PROVE  /\ Front(s) \in Seq(S) /\ Len(Front(s)) = Len(s) - 1
         /\ \A i \in 1..(Len(s) - 1) : Front(s)[i] = s[i]
<1> DEFINE n == Len(s) - 1
<1>1. Len(s) \in Nat /\ n \in Nat /\ Front(s) = SubSeq(s, 1, n)
  BY DEF Front
<1>2. \A i \in 1..n : s[i] \in S /\ (1 + i) - 1 = i
  BY <1>1, ElementOfSeq
<1> HIDE DEF n
<1>3. /\ SubSeq(s, 1, n) \in Seq(S) /\ Len(SubSeq(s, 1, n)) = IF 1 <= n THEN (n - 1) + 1 ELSE 0
      /\ \A i \in 1..((n - 1) + 1) : SubSeq(s, 1, n)[i] = s[(1 + i) - 1]
  BY <1>1, <1>2, SubSeqProperties
<1>4. Len(SubSeq(s, 1, n)) = n /\ (n - 1) + 1 = n
  BY <1>1, <1>3
<1> QED
  BY <1>1, <1>2, <1>3, <1>4 DEF n

\* What is pushed is last; before it stands what stood there, but perhaps the oldest.
PushedOn(w, s, e) ==
  /\ Len(w) \in 1..MaxUndo /\ w[Len(w)] = e
  /\ \E d \in {0, 1} : Len(w) = Len(s) + 1 - d
                       /\ \A i \in 1..(Len(w) - 1) : i + d \in 1..Len(s) /\ w[i] = s[i + d]

LEMMA PushedEntries ==
  ASSUME NEW S, NEW s \in Seq(S), NEW e \in S, Len(s) <= MaxUndo
  PROVE  Pushed(s, e) \in Seq(S) /\ PushedOn(Pushed(s, e), s, e)
<1> DEFINE longer == Append(s, e)
<1>1. longer \in Seq(S) /\ Len(longer) = Len(s) + 1 /\ Len(s) \in Nat
  OBVIOUS
<1>2. longer[Len(s) + 1] = e /\ \A i \in 1..Len(s) : longer[i] = s[i]
  OBVIOUS
<1>3. CASE Len(longer) > MaxUndo
  <2>1. Pushed(s, e) = Tail(longer)
    BY <1>3 DEF Pushed
  <2> HIDE DEF longer
  <2>2. Len(Tail(longer)) = Len(s) /\ Tail(longer) \in Seq(S)
    BY <1>1
  <2>3. \A i \in 1..Len(s) : Tail(longer)[i] = longer[i + 1]
    BY <1>1, <2>2
  <2>4. Len(s) = MaxUndo /\ MaxUndo \in Nat \ {0}
    BY <1>1, <1>3, PlanAssumption
  <2>5. Tail(longer)[Len(s)] = e
    BY <1>1, <1>2, <2>3, <2>4
  <2>6. \A i \in 1..(Len(s) - 1) : i + 1 \in 1..Len(s) /\ Tail(longer)[i] = s[i + 1]
    BY <1>1, <1>2, <2>3
  <2> QED
    BY <1>1, <2>1, <2>2, <2>4, <2>5, <2>6 DEF PushedOn
<1>4. CASE ~(Len(longer) > MaxUndo)
  <2>1. Pushed(s, e) = longer
    BY <1>4 DEF Pushed
  <2> HIDE DEF longer
  <2>2. Len(longer) \in 1..MaxUndo
    BY <1>1, <1>4, PlanAssumption
  <2> QED
    BY <1>1, <1>2, <2>1, <2>2 DEF PushedOn
<1> QED
  BY <1>3, <1>4

\* One outcome is counted, of one plan.
LEMMA OutcomeCounted ==
  ASSUME stats \in [Plans -> [success : Nat, rollback : Nat]], NEW p \in Plans,
         NEW outcome \in {"success", "rollback"}, Recorded(p, outcome)
  PROVE  /\ stats' \in [Plans -> [success : Nat, rollback : Nat]]
         /\ stats'[p].success = stats[p].success + (IF outcome = "success" THEN 1 ELSE 0)
         /\ stats'[p].rollback = stats[p].rollback + (IF outcome = "rollback" THEN 1 ELSE 0)
         /\ \A q \in Plans \ {p} : stats'[q] = stats[q]
<1>1. CASE outcome = "success"
  BY <1>1 DEF Recorded
<1>2. CASE outcome = "rollback"
  BY <1>2 DEF Recorded
<1> QED
  BY <1>1, <1>2

-----------------------------------------------------------------------------
(* The thread of a plan                                                    *)

LEMMA OneLatest ==
  ASSUME NEW p \in Plans, NEW q \in Plans, Started(p), Started(q), Latest(p), Latest(q)
  PROVE  p = q
BY PlanAssumption DEF Latest, Started

\* A step that is not about q leaves q as it was.
LEMMA OtherPlans ==
  ASSUME NEW q \in Plans, ProgressOK(q), CountsOK(q),
         runner'[q] = runner[q], step'[q] = step[q], stats'[q] = stats[q],
         \A n \in 1..Length : <<q, n>> \in ordered' <=> <<q, n>> \in ordered,
         q \in aborted' \cup earlier' => Started(q)
  PROVE  ProgressOK(q)' /\ CountsOK(q)'
BY DEF ProgressOK, CountsOK, Started, Finished

LEMMA AbortsKeeps == ASSUME PlanInv, NEW p \in Plans, Aborts(p) PROVE PlanInv'
<1> USE PlanAssumption DEF PlanInv, Started, Finished, Aborts, Thread, Stops
<1>1. \A i \in 1..Len(stack) : stack[i] \in Entries
  BY ElementOfSeq DEF PlanTyped
<1>2. stats' \in [Plans -> [success : Nat, rollback : Nat]]
  BY OutcomeCounted DEF PlanTyped
<1>3. /\ stats'[p].success = stats[p].success
     /\ stats'[p].rollback = stats[p].rollback + 1
  BY OutcomeCounted DEF PlanTyped
<1>4. \A q \in Plans \ {p} : stats'[q] = stats[q]
  BY OutcomeCounted DEF PlanTyped
<1>5. PlanTyped'
  BY <1>1, <1>2, <1>3, <1>4 DEF PlanTyped
<1>6. ASSUME NEW q \in Plans PROVE ProgressOK(q)'
  <2>1. CASE q = p
    BY <2>1, <1>1, <1>2, <1>3, <1>4 DEF PlanTyped, ProgressOK
  <2>2. CASE q # p
    <3>1. runner'[q] = runner[q] /\ stats'[q] = stats[q]
      BY <2>2, <1>1, <1>2, <1>3, <1>4 DEF PlanTyped
    <3>2. q \in aborted \cup earlier => Started(q)
      BY DEF ProgressOK
    <3> QED
      BY <3>1, <3>2, OtherPlans
  <2> QED
    BY <2>1, <2>2
<1>7. ASSUME NEW q \in Plans PROVE CountsOK(q)'
  <2>1. CASE q = p
    <3>1. stats[p].rollback <= 1 /\ stats[p].rollback \in 0..2
      BY DEF PlanTyped, CountsOK
    <3>2. stats[p].success \in Nat
      BY DEF PlanTyped
    <3> QED
      BY <2>1, <3>1, <3>2, <1>3 DEF CountsOK, PlanTyped
  <2>2. CASE q # p
    <3>1. runner'[q] = runner[q] /\ stats'[q] = stats[q]
      BY <2>2, <1>1, <1>2, <1>3, <1>4 DEF PlanTyped
    <3>2. q \in aborted \cup earlier => Started(q)
      BY DEF ProgressOK
    <3> QED
      BY <3>1, <3>2, OtherPlans
  <2> QED
    BY <2>1, <2>2
<1>8. InOrder'
  BY DEF PlanTyped, InOrder, Latest
<1>9. MainOK'
  BY <1>1, <1>2, <1>3, <1>4 DEF PlanTyped, MainOK, InOrder
<1>10. ListedOK'
  BY DEF PlanTyped, ListedOK, Latest, ProgressOK
<1>11. AbortsOK'
  BY DEF PlanTyped, AbortsOK, Almost, Latest, ProgressOK, MainOK
<1>12. AloneOK'
  BY DEF PlanTyped, AloneOK, ThreadLives, Latest, InOrder, MainOK
<1>13. StackOK'
  BY <1>1, <1>2, <1>3, <1>4 DEF PlanTyped, StackOK, ProgressOK
<1> QED
  BY <1>5, <1>6, <1>7, <1>8, <1>9, <1>10, <1>11, <1>12, <1>13

LEMMA GoesOnKeeps == ASSUME PlanInv, NEW p \in Plans, GoesOn(p) PROVE PlanInv'
<1> USE PlanAssumption DEF PlanInv, Started, Finished, GoesOn, Thread, Stops
<1>1. PlanTyped'
  BY DEF PlanTyped
<1>2. ASSUME NEW q \in Plans PROVE ProgressOK(q)'
  BY DEF PlanTyped, ProgressOK
<1>3. ASSUME NEW q \in Plans PROVE CountsOK(q)'
  BY DEF PlanTyped, ProgressOK, CountsOK, MainOK
<1>4. InOrder'
  BY DEF PlanTyped, InOrder, Latest
<1>5. MainOK'
  BY DEF PlanTyped, MainOK, InOrder
<1>6. ListedOK'
  BY DEF PlanTyped, ListedOK, Latest, ProgressOK
<1>7. AbortsOK'
  BY DEF PlanTyped, AbortsOK, Almost, Latest, ProgressOK, MainOK
<1>8. AloneOK'
  BY DEF PlanTyped, AloneOK, ThreadLives, Latest, InOrder, MainOK
<1>9. StackOK'
  BY DEF PlanTyped, StackOK, ProgressOK
<1> QED
  BY <1>1, <1>2, <1>3, <1>4, <1>5, <1>6, <1>7, <1>8, <1>9

LEMMA OrdersKeeps == ASSUME PlanInv, NEW p \in Plans, Orders(p) PROVE PlanInv'
<1> USE PlanAssumption DEF PlanInv, Started, Finished, Orders, Thread
<1>1. step[p] \in 1..Length /\ <<p, step[p]>> \in Steps
  BY DEF PlanTyped, ProgressOK, Steps
<1>2. PlanTyped'
  BY <1>1 DEF PlanTyped
<1>3. ASSUME NEW q \in Plans PROVE ProgressOK(q)'
  BY <1>1 DEF PlanTyped, ProgressOK
<1>4. ASSUME NEW q \in Plans PROVE CountsOK(q)'
  BY DEF PlanTyped, ProgressOK, CountsOK, MainOK
<1>5. InOrder'
  BY DEF PlanTyped, InOrder, Latest
<1>6. MainOK'
  BY DEF PlanTyped, MainOK, InOrder
<1>7. ListedOK'
  BY DEF PlanTyped, ListedOK, Latest, ProgressOK
<1>8. AbortsOK'
  BY DEF PlanTyped, AbortsOK, Almost, Latest, ProgressOK, MainOK
<1>9. AloneOK'
  BY DEF PlanTyped, AloneOK, ThreadLives, Latest, InOrder, MainOK
<1>10. StackOK'
  BY DEF PlanTyped, StackOK, ProgressOK
<1> QED
  BY <1>2, <1>3, <1>4, <1>5, <1>6, <1>7, <1>8, <1>9, <1>10

LEMMA ListsKeeps == ASSUME PlanInv, NEW p \in Plans, Lists(p) PROVE PlanInv'
<1> USE PlanAssumption DEF PlanInv, Started, Finished, Lists, Thread
<1>1. step[p] \in 1..Length /\ <<p, step[p]>> \in Steps /\ step'[p] = step[p] + 1
  BY DEF PlanTyped, ProgressOK, Steps
<1>2. /\ completed' \in Seq(Steps)
     /\ ToSet(completed') = ToSet(completed) \cup {<<p, step[p]>>}
  <2>1. completed' = Append(completed, <<p, step[p]>>) /\ completed \in Seq(Steps)
    BY DEF PlanTyped
  <2> QED
    BY <1>1, <2>1, MembersAppend
<1>3. PlanTyped'
  <2>1. /\ runner' \in [Plans -> {"none", "looking", "sleeping", "listing", "pushing",
                                 "counting", "clearing", "gone"}]
        /\ step' \in [Plans -> 1..(Length + 1)]
    BY <1>1 DEF PlanTyped
  <2> QED
    BY <1>2, <2>1 DEF PlanTyped
<1>4. ASSUME NEW q \in Plans PROVE ProgressOK(q)'
  BY <1>1, <1>2 DEF PlanTyped, ProgressOK
<1>5. ASSUME NEW q \in Plans PROVE CountsOK(q)'
  BY DEF PlanTyped, ProgressOK, CountsOK, MainOK
<1>6. InOrder'
  BY DEF PlanTyped, InOrder, Latest
<1>7. MainOK'
  BY DEF PlanTyped, MainOK, InOrder
<1>8. ListedOK'
  <2> SUFFICES ASSUME NEW q \in Plans, Started(q), Latest(q)
               PROVE  /\ \A n \in 1..Length : n < step'[q] => <<q, n>> \in ToSet(completed')
                      /\ ~overlap => ToSet(completed') \subseteq {q} \X (1..(step'[q] - 1))
    BY DEF ListedOK, Latest, PlanTyped
  <2>1. CASE q = p
    <3>1. Started(p) /\ Latest(p) /\ step[p] \in Nat
      BY <1>1, <2>1
    <3>2. ASSUME NEW n \in 1..Length, n < step'[p] PROVE <<p, n>> \in ToSet(completed')
      <4>1. n < step[p] \/ n = step[p]
        BY <1>1, <3>2
      <4> QED
        BY <1>2, <3>1, <4>1 DEF ListedOK
    <3>3. ASSUME ~overlap PROVE ToSet(completed') \subseteq {p} \X (1..(step'[p] - 1))
      <4>1. ToSet(completed) \subseteq {p} \X (1..(step[p] - 1))
        BY <3>1, <3>3 DEF ListedOK
      <4>2. (step[p] + 1) - 1 = step[p] /\ step[p] \in 1..step[p] /\ 1..(step[p] - 1) \subseteq 1..step[p]
        BY <1>1
      <4>3. {p} \X (1..(step[p] - 1)) \subseteq {p} \X (1..step[p]) /\ <<p, step[p]>> \in {p} \X (1..step[p])
        BY <4>2
      <4> QED
        BY <1>1, <1>2, <4>1, <4>2, <4>3
    <3> QED
      BY <2>1, <3>2, <3>3
  <2>2. CASE q # p
    <3>1. overlap
      BY <2>2, OneLatest DEF AloneOK, ThreadLives
    <3> QED
      BY <1>2, <2>2, <3>1 DEF ListedOK, PlanTyped
  <2> QED
    BY <2>1, <2>2
<1>9. AbortsOK'
  BY DEF PlanTyped, AbortsOK, Almost, Latest, ProgressOK, MainOK
<1>10. AloneOK'
  BY DEF PlanTyped, AloneOK, ThreadLives, Latest, InOrder, MainOK
<1>11. StackOK'
  BY DEF PlanTyped, StackOK, ProgressOK
<1> QED
  BY <1>3, <1>4, <1>5, <1>6, <1>7, <1>8, <1>9, <1>10, <1>11

LEMMA PushesKeeps == ASSUME PlanInv, NEW p \in Plans, Pushes(p) PROVE PlanInv'
<1> USE PlanAssumption DEF PlanInv, Started, Finished, Pushes, Thread
<1>1. \A i \in 1..Len(stack) : stack[i] \in Entries
  BY ElementOfSeq DEF PlanTyped
<1>2. stack' \in Seq(Entries) /\ PushedOn(stack', stack, p)
  <2>1. stack \in Seq(Entries) /\ Len(stack) <= MaxUndo /\ p \in Entries
    BY DEF PlanTyped, Entries
  <2>2. stack' = Pushed(stack, p)
    OBVIOUS
  <2> QED
    BY <2>1, <2>2, PushedEntries
<1>3. PlanTyped'
  <2>1. /\ runner' \in [Plans -> {"none", "looking", "sleeping", "listing", "pushing",
                                 "counting", "clearing", "gone"}]
        /\ Len(stack') <= MaxUndo
    BY <1>2 DEF PlanTyped, PushedOn
  <2> QED
    BY <1>2, <2>1 DEF PlanTyped
<1>4. ASSUME NEW q \in Plans PROVE ProgressOK(q)'
  BY DEF PlanTyped, ProgressOK
<1>5. ASSUME NEW q \in Plans PROVE CountsOK(q)'
  BY DEF PlanTyped, ProgressOK, CountsOK, MainOK
<1>6. InOrder'
  BY DEF PlanTyped, InOrder, Latest
<1>7. MainOK'
  BY DEF PlanTyped, MainOK, InOrder
<1>8. ListedOK'
  BY DEF PlanTyped, ListedOK, Latest, ProgressOK
<1>9. AbortsOK'
  BY DEF PlanTyped, AbortsOK, Almost, Latest, ProgressOK, MainOK
<1>10. AloneOK'
  BY DEF PlanTyped, AloneOK, ThreadLives, Latest, InOrder, MainOK
<1>11. StackOK'
  <2>1. PICK d \in {0, 1} : \A i \in 1..(Len(stack') - 1) : i + d \in 1..Len(stack) /\ stack'[i] = stack[i + d]
    BY <1>2 DEF PushedOn
  <2>2. \A i \in 1..Len(stack') : i \in 1..(Len(stack') - 1) \/ (i = Len(stack') /\ stack'[i] = p)
    BY <1>2 DEF PushedOn
  <2>3. ASSUME NEW i \in 1..(Len(stack') - 1), NEW k \in 1..Len(stack), stack'[i] = stack[k], stack'[i] # 0
        PROVE  step'[stack'[i]] = Length + 1 /\ runner'[stack'[i]] # "pushing"
    BY <1>1, <2>3 DEF StackOK, PlanTyped, Entries
  <2>4. step'[p] = Length + 1 /\ runner'[p] # "pushing"
    BY DEF PlanTyped, ProgressOK
  <2>5. \A i \in 1..Len(stack') : stack'[i] # 0 => step'[stack'[i]] = Length + 1 /\ runner'[stack'[i]] # "pushing"
    BY <2>1, <2>2, <2>3, <2>4
  <2>6. ASSUME ~overlap, NEW i \in 1..(Len(stack') - 1), stack'[i] \in earlier PROVE p \notin earlier
    BY <2>1, <2>6 DEF StackOK
  <2>7. ASSUME ~overlap, NEW i \in 1..Len(stack'), NEW j \in 1..Len(stack'),
               stack'[i] \in earlier, stack'[j] \in earlier
        PROVE  i = j
    <3>1. CASE i \in 1..(Len(stack') - 1) /\ j \in 1..(Len(stack') - 1)
      <4>1. i + d \in 1..Len(stack) /\ j + d \in 1..Len(stack) /\ i + d = j + d
        BY <2>1, <2>7, <3>1 DEF StackOK
      <4> QED
        BY <4>1
    <3> QED
      BY <2>2, <2>6, <2>7, <3>1
  <2>8. ASSUME ~overlap, NEW i \in 1..Len(stack'), NEW q \in earlier, stack'[i] \in earlier
        PROVE  runner'[q] \in {"counting", "clearing", "gone"}
    <3>1. CASE i \in 1..(Len(stack') - 1)
      BY <2>1, <2>8, <3>1 DEF StackOK, PlanTyped
    <3>2. CASE stack'[i] = p
      <4>1. q \in Plans /\ Started(q) /\ Started(p) /\ Latest(p)
        BY <2>8 DEF AloneOK, ThreadLives, PlanTyped, ProgressOK
      <4>2. q = p \/ runner[q] = "gone"
        BY <2>8, <4>1, OneLatest DEF AloneOK, ThreadLives
      <4> QED
        BY <4>1, <4>2 DEF PlanTyped
    <3> QED
      BY <2>2, <3>1, <3>2
  <2> QED
    BY <2>5, <2>7, <2>8 DEF StackOK
<1> QED
  BY <1>3, <1>4, <1>5, <1>6, <1>7, <1>8, <1>9, <1>10, <1>11

LEMMA SucceedsKeeps == ASSUME PlanInv, NEW p \in Plans, Succeeds(p) PROVE PlanInv'
<1> USE PlanAssumption DEF PlanInv, Started, Finished, Succeeds, Thread
<1>1. \A i \in 1..Len(stack) : stack[i] \in Entries
  BY ElementOfSeq DEF PlanTyped
<1>2. stats' \in [Plans -> [success : Nat, rollback : Nat]]
  BY OutcomeCounted DEF PlanTyped
<1>3. /\ stats'[p].success = stats[p].success + 1
     /\ stats'[p].rollback = stats[p].rollback
  BY OutcomeCounted DEF PlanTyped
<1>4. \A q \in Plans \ {p} : stats'[q] = stats[q]
  BY OutcomeCounted DEF PlanTyped
<1>5. PlanTyped'
  BY <1>1, <1>2, <1>3, <1>4 DEF PlanTyped
<1>6. ASSUME NEW q \in Plans PROVE ProgressOK(q)'
  <2>1. CASE q = p
    <3>1. stats[p].success = 0 /\ Finished(p)
      BY DEF ProgressOK
    <3>2. stats'[p].success = 1
      BY <1>3, <3>1
    <3> QED
      BY <2>1, <3>1, <3>2 DEF PlanTyped, ProgressOK
  <2>2. CASE q # p
    <3>1. runner'[q] = runner[q] /\ stats'[q] = stats[q]
      BY <2>2, <1>1, <1>2, <1>3, <1>4 DEF PlanTyped
    <3>2. q \in aborted \cup earlier => Started(q)
      BY DEF ProgressOK
    <3> QED
      BY <3>1, <3>2, OtherPlans
  <2> QED
    BY <2>1, <2>2
<1>7. ASSUME NEW q \in Plans PROVE CountsOK(q)'
  <2>1. CASE q = p
    BY <2>1, <1>1, <1>2, <1>3, <1>4 DEF PlanTyped, ProgressOK, CountsOK, MainOK
  <2>2. CASE q # p
    <3>1. runner'[q] = runner[q] /\ stats'[q] = stats[q]
      BY <2>2, <1>1, <1>2, <1>3, <1>4 DEF PlanTyped
    <3>2. q \in aborted \cup earlier => Started(q)
      BY DEF ProgressOK
    <3> QED
      BY <3>1, <3>2, OtherPlans
  <2> QED
    BY <2>1, <2>2
<1>8. InOrder'
  BY DEF PlanTyped, InOrder, Latest
<1>9. MainOK'
  BY <1>1, <1>2, <1>3, <1>4 DEF PlanTyped, MainOK, InOrder
<1>10. ListedOK'
  BY DEF PlanTyped, ListedOK, Latest, ProgressOK
<1>11. AbortsOK'
  BY DEF PlanTyped, AbortsOK, Almost, Latest, ProgressOK, MainOK
<1>12. AloneOK'
  BY DEF PlanTyped, AloneOK, ThreadLives, Latest, InOrder, MainOK
<1>13. StackOK'
  BY <1>1, <1>2, <1>3, <1>4 DEF PlanTyped, StackOK, ProgressOK
<1> QED
  BY <1>5, <1>6, <1>7, <1>8, <1>9, <1>10, <1>11, <1>12, <1>13

LEMMA ClearsKeeps == ASSUME PlanInv, NEW p \in Plans, Clears(p) PROVE PlanInv'
<1> USE PlanAssumption DEF PlanInv, Started, Finished, Clears, Thread
<1>1. PlanTyped'
  BY DEF PlanTyped
<1>2. ASSUME NEW q \in Plans PROVE ProgressOK(q)'
  BY DEF PlanTyped, ProgressOK
<1>3. ASSUME NEW q \in Plans PROVE CountsOK(q)'
  BY DEF PlanTyped, ProgressOK, CountsOK, MainOK
<1>4. InOrder'
  BY DEF PlanTyped, InOrder, Latest
<1>5. MainOK'
  BY DEF PlanTyped, MainOK, InOrder
<1>6. ListedOK'
  BY DEF PlanTyped, ListedOK, Latest, ProgressOK
<1>7. AbortsOK'
  BY DEF PlanTyped, AbortsOK, Almost, Latest, ProgressOK, MainOK
<1>8. AloneOK'
  BY DEF PlanTyped, AloneOK, ThreadLives, Latest, InOrder, MainOK
<1>9. StackOK'
  BY DEF PlanTyped, StackOK, ProgressOK
<1> QED
  BY <1>1, <1>2, <1>3, <1>4, <1>5, <1>6, <1>7, <1>8, <1>9

-----------------------------------------------------------------------------
(* The thread of the interface                                             *)

LEMMA InitPlans == PlanInit => PlanInv
<1> SUFFICES ASSUME PlanInit PROVE PlanInv
  OBVIOUS
<1> USE PlanAssumption DEF PlanInit, Started, Finished
<1>1. PlanTyped
  <2>1. << >> \in Seq(Steps) /\ << >> \in Seq(Entries) /\ Len(<< >>) = 0
    OBVIOUS
  <2>2. MaxUndo >= 0 /\ Length >= 1
    OBVIOUS
  <2>3. step \in [Plans -> 1..(Length + 1)]
    BY <2>2
  <2>4. stats \in [Plans -> [success : Nat, rollback : Nat]]
    OBVIOUS
  <2>5. runner \in [Plans -> {"none", "looking", "sleeping", "listing", "pushing", "counting",
                               "clearing", "gone"}]
    OBVIOUS
  <2>6. completed \in Seq(Steps) /\ stack \in Seq(Entries) /\ Len(stack) <= MaxUndo
    BY <2>1, <2>2
  <2> QED
    BY <2>3, <2>4, <2>5, <2>6 DEF PlanTyped
<1>2. ASSUME NEW p \in Plans PROVE ProgressOK(p) /\ CountsOK(p)
  BY DEF ProgressOK, CountsOK
<1>3. InOrder /\ MainOK /\ ListedOK /\ AbortsOK /\ AloneOK /\ StackOK
  BY DEF InOrder, MainOK, ListedOK, AbortsOK, AloneOK, ThreadLives, StackOK
<1> QED
  BY <1>1, <1>2, <1>3 DEF PlanInv

\* An abort that begins leaves everything in order but perhaps the stack.
LEMMA AbortBegun ==
  ASSUME PlanInv, main = "idle", active # 0, NEW how \in {"abort", "replace"}, BeginsAbort(how),
         UNCHANGED <<active, completed, runner, step, owed, ordered, reversed, aborted, overlap>>,
         stack' \in Seq(Entries), Len(stack') <= MaxUndo,
         earlier' \subseteq {p \in Plans : Started(p)}, StackOK'
  PROVE  PlanInv'
<1> USE PlanAssumption DEF PlanInv, Started, Finished, BeginsAbort
<1>1. active \in Plans /\ Started(active) /\ runner[active] # "gone" /\ ~stop
  BY DEF PlanTyped, InOrder, MainOK
<1>2. stats' \in [Plans -> [success : Nat, rollback : Nat]]
  BY <1>1, OutcomeCounted DEF PlanTyped
<1>3. stats'[active].success = stats[active].success /\ stats'[active].rollback = stats[active].rollback + 1
  BY <1>1, OutcomeCounted DEF PlanTyped
<1>4. \A q \in Plans \ {active} : stats'[q] = stats[q]
  BY <1>1, OutcomeCounted DEF PlanTyped
<1>5. stats[active].rollback = 0
  BY DEF MainOK
<1>6. PlanTyped'
  BY <1>2 DEF PlanTyped
<1>7. ASSUME NEW q \in Plans PROVE ProgressOK(q)' /\ CountsOK(q)'
  <2>1. CASE q = active
    <3>1. ProgressOK(active)'
      BY <1>1, <1>3 DEF PlanTyped, ProgressOK
    <3>2. CountsOK(active)'
      BY <1>1, <1>3, <1>5 DEF PlanTyped, CountsOK
    <3> QED
      BY <2>1, <3>1, <3>2
  <2>2. CASE q # active
    <3>1. stats'[q] = stats[q] /\ (q \in aborted' \cup earlier' => Started(q))
      BY <1>4, <2>2 DEF ProgressOK
    <3> QED
      BY <3>1, OtherPlans
  <2> QED
    BY <2>1, <2>2
<1>8. InOrder' /\ MainOK' /\ ListedOK'
  BY DEF PlanTyped, InOrder, MainOK, ListedOK, Latest
<1>9. AbortsOK'
  BY <1>1 DEF PlanTyped, AbortsOK, Almost, Latest, MainOK
<1>10. AloneOK'
  BY DEF AloneOK, ThreadLives, Latest
<1> QED
  BY <1>6, <1>7, <1>8, <1>9, <1>10

LEMMA ExecuteKeeps == ASSUME PlanInv, NEW p \in Plans, Execute(p) PROVE PlanInv'
<1> USE PlanAssumption DEF PlanInv, Started, Finished, Execute
<1>1. completed' = << >> /\ completed' \in Seq(Steps) /\ ToSet(completed') = {}
  BY DEF Emptied, ToSet
<1>2. Latest(p)' /\ p \notin aborted \cup earlier /\ step[p] = 1 /\ \A q \in Plans \ {p} : ~(Started(q) /\ Latest(q)')
  <2>1. \A q \in Plans : q > p => ~Started(q)
    BY DEF InOrder
  <2>2. \A q \in Plans : q < p => Started(q)
    OBVIOUS
  <2>3. \A q \in Plans \ {p} : q < p \/ q > p
    OBVIOUS
  <2>4. p \notin aborted \cup earlier /\ step[p] = 1
    BY DEF ProgressOK
  <2>5. Latest(p)'
    BY <2>1 DEF Latest, PlanTyped
  <2>6. ASSUME NEW q \in Plans \ {p}, Started(q) PROVE ~Latest(q)'
    BY <2>1, <2>3, <2>6 DEF Latest, PlanTyped
  <2> QED
    BY <2>4, <2>5, <2>6
<1>3. PlanTyped'
  BY <1>1 DEF PlanTyped
<1>4. ASSUME NEW q \in Plans PROVE ProgressOK(q)' /\ CountsOK(q)'
  <2>1. CASE q = p
    <3>1. ProgressOK(p)'
      BY DEF PlanTyped, ProgressOK
    <3>2. CountsOK(p)'
      BY DEF PlanTyped, CountsOK
    <3> QED
      BY <2>1, <3>1, <3>2
  <2>2. CASE q # p
    <3>1. runner'[q] = runner[q] /\ (q \in aborted \cup earlier => Started(q))
      BY <2>2 DEF PlanTyped, ProgressOK
    <3> QED
      BY <3>1, OtherPlans
  <2> QED
    BY <2>1, <2>2
<1>5. InOrder'
  BY <1>2 DEF PlanTyped, InOrder
<1>6. MainOK'
  BY DEF PlanTyped, MainOK, ProgressOK
<1>7. ListedOK'
  <2> SUFFICES ASSUME NEW q \in Plans, Started(q)', Latest(q)'
               PROVE  /\ \A n \in 1..Length : n < step'[q] => <<q, n>> \in ToSet(completed')
                      /\ ~overlap' => ToSet(completed') \subseteq {q} \X (1..(step'[q] - 1))
    BY DEF ListedOK
  <2>1. q = p
    BY <1>2 DEF PlanTyped
  <2> QED
    BY <1>1, <1>2, <2>1
<1>8. AbortsOK'
  <2>1. \A q \in aborted : q \in Plans \ {p} /\ Started(q)
    BY <1>2 DEF ProgressOK, PlanTyped
  <2> QED
    BY <1>2, <2>1 DEF AbortsOK
<1>9. AloneOK'
  BY <1>2 DEF PlanTyped, AloneOK, ThreadLives
<1>10. StackOK'
  <2>1. \A i \in 1..Len(stack) : stack[i] # p /\ stack[i] \in Entries
    BY <1>2, ElementOfSeq DEF StackOK, PlanTyped
  <2>2. \A q \in Entries : q # p => (q # 0 => runner'[q] = runner[q])
    BY DEF PlanTyped, Entries
  <2>3. \A q \in earlier : q \in Plans \ {p}
    BY <1>2 DEF PlanTyped
  <2> QED
    BY <2>1, <2>2, <2>3 DEF StackOK, Entries
<1> QED
  BY <1>3, <1>4, <1>5, <1>6, <1>7, <1>8, <1>9, <1>10

LEMMA ReplaceKeeps == ASSUME PlanInv, NEW p \in Plans, Replace(p) PROVE PlanInv'
<1>1. StackOK'
  BY DEF Replace, PlanInv, StackOK, Finished
<1>2. stack \in Seq(Entries) /\ Len(stack) <= MaxUndo /\ earlier \subseteq {q \in Plans : Started(q)}
  BY DEF PlanInv, PlanTyped, ProgressOK
<1> QED
  BY <1>1, <1>2, AbortBegun DEF Replace

LEMMA WindowClosedKeeps == ASSUME PlanInv, WindowClosed PROVE PlanInv'
<1>1. StackOK'
  BY DEF WindowClosed, PlanInv, StackOK, Finished
<1>2. stack \in Seq(Entries) /\ Len(stack) <= MaxUndo /\ earlier \subseteq {q \in Plans : Started(q)}
  BY DEF PlanInv, PlanTyped, ProgressOK
<1> QED
  BY <1>1, <1>2, AbortBegun DEF WindowClosed, Acts

\* A change of the session empties the stack.
LEMMA SessionChangesKeeps ==
  ASSUME PlanInv, NEW locks \in BOOLEAN, SessionChanges(locks) PROVE PlanInv'
<1>1. /\ stack' \in Seq(Entries) /\ Len(stack') <= MaxUndo
      /\ earlier' \subseteq {q \in Plans : Started(q)}
  BY PlanAssumption DEF SessionChanges, Started
<1>2. StackOK'
  BY DEF SessionChanges, StackOK
<1>3. CASE locks /\ active # 0
  BY <1>1, <1>2, <1>3, AbortBegun DEF SessionChanges, Acts
<1>4. CASE ~(locks /\ active # 0)
  <2> USE PlanAssumption DEF PlanInv, Started, Finished, SessionChanges, Acts
  <2>1. UNCHANGED <<active, stop, completed, runner, step, main, owed, stats, ordered, reversed,
                    aborted, overlap>>
    BY <1>4
  <2>2. PlanTyped'
    BY <1>1, <2>1 DEF PlanTyped
  <2>3. ASSUME NEW q \in Plans PROVE ProgressOK(q)' /\ CountsOK(q)'
    <3>1. q \in aborted' \cup earlier' => Started(q)
      BY <1>1, <2>1 DEF ProgressOK
    <3> QED
      BY <2>1, <3>1, OtherPlans
  <2>4. InOrder' /\ MainOK' /\ ListedOK'
    BY <2>1 DEF InOrder, MainOK, ListedOK, Latest
  <2>5. AbortsOK' /\ AloneOK'
    BY <2>1 DEF AbortsOK, Almost, AloneOK, ThreadLives, Latest
  <2> QED
    BY <1>2, <2>2, <2>3, <2>4, <2>5
<1> QED
  BY <1>3, <1>4

\* What the interface's thread does while it takes back: the plans' threads, their counts
\* and the stack stay.
LEMMA TakingBack ==
  ASSUME PlanInv, UNCHANGED <<completed, runner, step, ordered, stats, overlap, earlier>>,
         UNCHANGED stop, aborted' \subseteq {p \in Plans : Started(p)}, active' \in {0, active}
  PROVE  /\ \A q \in Plans : ProgressOK(q)' /\ CountsOK(q)'
         /\ InOrder' /\ ListedOK'
<1> USE DEF PlanInv
<1>1. ASSUME NEW q \in Plans PROVE ProgressOK(q)' /\ CountsOK(q)'
  <2>1. q \in aborted' \cup earlier' => Started(q)
    BY DEF ProgressOK, Started
  <2> QED
    BY <2>1, OtherPlans
<1>2. InOrder' /\ ListedOK'
  BY DEF InOrder, ListedOK, Latest, Started
<1> QED
  BY <1>1, <1>2

LEMMA ReadsStepsKeeps == ASSUME PlanInv, ReadsSteps PROVE PlanInv'
<1> USE PlanAssumption DEF PlanInv, ReadsSteps
<1>1. aborted \subseteq {p \in Plans : Started(p)}
  BY DEF ProgressOK, PlanTyped
<1>2. (\A q \in Plans : ProgressOK(q)' /\ CountsOK(q)') /\ InOrder' /\ ListedOK'
  BY <1>1, TakingBack
<1>3. StackOK' /\ AloneOK'
  BY DEF StackOK, AloneOK, ThreadLives, Latest, Finished
<1>4. CASE active = 0
  <2>1. PlanTyped' /\ MainOK'
    BY <1>4 DEF PlanTyped, MainOK
  <2>2. AbortsOK'
    BY <1>4 DEF AbortsOK, Almost, Latest
  <2> QED
    BY <1>2, <1>3, <2>1, <2>2
<1>5. CASE active # 0
  <2>1. owed' \in Seq(Steps) /\ ToSet(owed') = ToSet(completed)
    BY <1>5, MembersReverse DEF PlanTyped
  <2>2. PlanTyped' /\ MainOK'
    BY <1>5, <2>1 DEF PlanTyped, MainOK
  <2>3. active \in Plans /\ Started(active) /\ Latest(active)
    BY <1>5 DEF PlanTyped, InOrder
  <2>4. \A n \in 1..Length : <<active, n>> \in ordered =>
           <<active, n>> \in ToSet(completed) \/ (n = step[active] /\ runner[active] = "listing")
    BY <2>3 DEF ListedOK, ProgressOK
  <2>5. Almost(active, reversed \cup ToSet(owed'))
    BY <2>1, <2>4 DEF Almost, MainOK
  <2>6. AbortsOK'
    BY <1>5, <2>5 DEF AbortsOK, Almost, Latest
  <2> QED
    BY <1>2, <1>3, <2>2, <2>6
<1> QED
  BY <1>4, <1>5

LEMMA TakesBackKeeps == ASSUME PlanInv, TakesBack PROVE PlanInv'
<1> USE PlanAssumption DEF PlanInv, TakesBack
<1>1. aborted \subseteq {p \in Plans : Started(p)}
  BY DEF ProgressOK, PlanTyped
<1>2. (\A q \in Plans : ProgressOK(q)' /\ CountsOK(q)') /\ InOrder' /\ ListedOK'
  BY <1>1, TakingBack
<1>3. StackOK' /\ AloneOK'
  BY DEF StackOK, AloneOK, ThreadLives, Latest, Finished
<1>4. owed' \in Seq(Steps) /\ Head(owed) \in Steps /\ ToSet(owed) = {Head(owed)} \cup ToSet(owed')
  BY MembersTail DEF PlanTyped
<1>5. PlanTyped' /\ MainOK'
  <2>1. owed' # Unread /\ main \notin {"idle", "stuck"}
    BY <1>4, UnreadApart DEF MainOK
  <2> QED
    BY <1>4, <2>1 DEF PlanTyped, MainOK
<1>6. reversed' \cup ToSet(owed') = reversed \cup ToSet(owed) /\ reversed \subseteq reversed'
  BY <1>4
<1>7. AbortsOK'
  <2>1. main = "abort" /\ active # 0 => Almost(active, reversed' \cup ToSet(owed'))
    BY <1>6 DEF AbortsOK
  <2>2. \A p \in aborted : Latest(p) => Almost(p, reversed')
    BY <1>6 DEF AbortsOK, Almost
  <2> QED
    BY <2>1, <2>2 DEF AbortsOK, Almost, Latest
<1> QED
  BY <1>2, <1>3, <1>5, <1>7

LEMMA EndsKeeps == ASSUME PlanInv, Ends PROVE PlanInv'
<1> USE PlanAssumption DEF PlanInv, Ends
<1>1. ToSet(owed) = {} /\ owed # Unread
  <2>1. << >> \in Seq(Steps) /\ DOMAIN << >> = {}
    OBVIOUS
  <2> QED
    BY <2>1, UnreadApart DEF ToSet
<1>2. aborted' \subseteq {p \in Plans : Started(p)} /\ active' \in {0, active}
  <2>1. aborted \subseteq {p \in Plans : Started(p)}
    BY DEF ProgressOK, PlanTyped
  <2>2. active # 0 => active \in {p \in Plans : Started(p)}
    BY DEF PlanTyped, InOrder
  <2>3. aborted' \subseteq aborted \cup ({active} \ {0}) /\ active' \in {0, active}
    OBVIOUS
  <2> QED
    BY <2>1, <2>2, <2>3
<1>3. (\A q \in Plans : ProgressOK(q)' /\ CountsOK(q)') /\ InOrder' /\ ListedOK'
  BY <1>2, TakingBack
<1>4. StackOK'
  BY DEF StackOK, Finished
<1>5. AloneOK'
  BY <1>1 DEF AloneOK, ThreadLives, Latest, MainOK
<1>6. PlanTyped' /\ MainOK'
  BY <1>1, <1>2 DEF PlanTyped, MainOK
<1>7. AbortsOK'
  <2>1. \A p \in aborted' : Latest(p) => Almost(p, reversed)
    <3>1. main = "abort" /\ active # 0 => Almost(active, reversed)
      BY <1>1 DEF AbortsOK
    <3> QED
      BY <3>1 DEF AbortsOK
  <2> QED
    BY <2>1 DEF AbortsOK, Almost, Latest
<1> QED
  BY <1>3, <1>4, <1>5, <1>6, <1>7

\* The undone entry leaves the stack.
LEMMA UndoKeeps == ASSUME PlanInv, Undo PROVE PlanInv'
<1> USE PlanAssumption DEF PlanInv, Undo
<1>1. aborted \subseteq {p \in Plans : Started(p)}
  BY DEF ProgressOK, PlanTyped
<1>2. (\A q \in Plans : ProgressOK(q)' /\ CountsOK(q)') /\ InOrder' /\ ListedOK'
  BY <1>1, TakingBack
<1>3. AloneOK'
  BY DEF AloneOK, ThreadLives, Latest
<1>4. /\ stack' \in Seq(Entries) /\ Len(stack') = Len(stack) - 1 /\ Len(stack) \in Nat \ {0}
      /\ \A i \in 1..Len(stack') : stack'[i] = stack[i]
  <2>1. stack \in Seq(Entries) /\ stack # << >>
    BY DEF PlanTyped
  <2>2. Len(stack) \in Nat \ {0}
    BY <2>1
  <2>3. stack' = Front(stack)
    OBVIOUS
  <2> QED
    BY <2>1, <2>2, <2>3, FrontEntries
<1>5. StackOK'
  BY <1>4 DEF StackOK, Finished
<1>6. owed' \in Seq(Steps) \cup {Unread}
  BY MembersReverse DEF PlanTyped
<1>7. PlanTyped'
  BY <1>4, <1>6 DEF PlanTyped
<1>8. MainOK'
  <2>1. CASE Last(stack) = 0
    BY <2>1 DEF MainOK
  <2>2. CASE Last(stack) # 0
    <3>1. owed' # Unread
      BY <2>2, MembersReverse, UnreadApart DEF PlanTyped
    <3> QED
      BY <2>2, <3>1 DEF MainOK
  <2> QED
    BY <2>1, <2>2
<1>9. AbortsOK'
  BY DEF AbortsOK, Almost, Latest
<1> QED
  BY <1>2, <1>3, <1>5, <1>7, <1>8, <1>9

\* A restart on the stack is of no plan.
LEMMA AppCrashedKeeps == ASSUME PlanInv, AppCrashed PROVE PlanInv'
<1> USE PlanAssumption DEF PlanInv, AppCrashed, Acts
<1>1. aborted \subseteq {p \in Plans : Started(p)}
  BY DEF ProgressOK, PlanTyped
<1>2. (\A q \in Plans : ProgressOK(q)' /\ CountsOK(q)') /\ InOrder' /\ ListedOK'
  BY <1>1, TakingBack
<1>3. AloneOK' /\ AbortsOK' /\ MainOK'
  BY DEF AloneOK, ThreadLives, Latest, AbortsOK, Almost, MainOK
<1>4. stack' \in Seq(Entries) /\ PushedOn(stack', stack, 0)
  <2>1. stack \in Seq(Entries) /\ Len(stack) <= MaxUndo /\ 0 \in Entries
    BY DEF PlanTyped, Entries
  <2>2. stack' = Pushed(stack, 0)
    OBVIOUS
  <2> QED
    BY <2>1, <2>2, PushedEntries
<1>5. PlanTyped'
  <2>1. Len(stack') <= MaxUndo
    BY <1>4 DEF PushedOn
  <2> QED
    BY <1>4, <2>1 DEF PlanTyped
<1>6. 0 \notin earlier
  BY DEF PlanTyped
<1>7. StackOK'
  <2>1. PICK d \in {0, 1} : \A i \in 1..(Len(stack') - 1) : i + d \in 1..Len(stack) /\ stack'[i] = stack[i + d]
    BY <1>4 DEF PushedOn
  <2>2. \A i \in 1..Len(stack') : i \in 1..(Len(stack') - 1) \/ stack'[i] = 0
    BY <1>4 DEF PushedOn
  <2>3. \A i \in 1..Len(stack') : stack'[i] # 0 => step'[stack'[i]] = Length + 1 /\ runner'[stack'[i]] # "pushing"
    BY <2>1, <2>2 DEF StackOK, Finished
  <2>4. ASSUME ~overlap, NEW i \in 1..Len(stack'), NEW j \in 1..Len(stack'),
               stack'[i] \in earlier, stack'[j] \in earlier
        PROVE  i = j
    <3>1. i + d \in 1..Len(stack) /\ j + d \in 1..Len(stack) /\ i + d = j + d
      BY <1>6, <2>1, <2>2, <2>4 DEF StackOK
    <3> QED
      BY <3>1
  <2>5. ASSUME ~overlap, NEW i \in 1..Len(stack'), NEW q \in earlier, stack'[i] \in earlier
        PROVE  runner'[q] \in {"counting", "clearing", "gone"}
    BY <1>6, <2>1, <2>2, <2>5 DEF StackOK
  <2> QED
    BY <2>3, <2>4, <2>5 DEF StackOK, Finished
<1> QED
  BY <1>2, <1>3, <1>5, <1>7

-----------------------------------------------------------------------------
(* Every step, and what follows from the invariant                         *)

LEMMA PlanStep == PlanInv /\ [PlanNext]_planVars => PlanInv'
<1> SUFFICES ASSUME PlanInv, [PlanNext]_planVars PROVE PlanInv'
  OBVIOUS
<1>1. ASSUME NEW p \in Plans, Execute(p) \/ Replace(p) PROVE PlanInv'
  BY <1>1, ExecuteKeeps, ReplaceKeeps
<1>2. ASSUME NEW p \in Plans, RunLoop(p) PROVE PlanInv'
  BY <1>2, AbortsKeeps, GoesOnKeeps, OrdersKeeps, ListsKeeps, PushesKeeps, SucceedsKeeps,
     ClearsKeeps DEF RunLoop
<1>3. ASSUME NEW locks \in BOOLEAN, SessionChanges(locks) PROVE PlanInv'
  BY <1>3, SessionChangesKeeps
<1>4. CASE WindowClosed \/ ReadsSteps \/ TakesBack \/ Ends \/ Undo \/ AppCrashed
  BY <1>4, WindowClosedKeeps, ReadsStepsKeeps, TakesBackKeeps, EndsKeeps, UndoKeeps,
     AppCrashedKeeps
<1>5. CASE UNCHANGED planVars
  <2> USE <1>5 DEF planVars, PlanInv
  <2>1. PlanTyped' /\ \A p \in Plans : ProgressOK(p)' /\ CountsOK(p)'
    BY DEF PlanTyped, ProgressOK, CountsOK, Started, Finished
  <2>2. InOrder' /\ MainOK' /\ ListedOK'
    BY DEF InOrder, MainOK, ListedOK, Started, Latest
  <2>3. AbortsOK' /\ AloneOK' /\ StackOK'
    BY DEF AbortsOK, Almost, AloneOK, ThreadLives, StackOK, Latest, Finished
  <2> QED
    BY <2>1, <2>2, <2>3
<1> QED
  BY <1>1, <1>2, <1>3, <1>4, <1>5 DEF PlanNext

\* A set whose elements are all equal has one at most.
LEMMA AtMostOne ==
  ASSUME NEW S, \A x, y \in S : x = y
  PROVE  Cardinality(S) <= 1
<1>1. CASE S = {}
  BY <1>1, FS_EmptySet
<1>2. CASE S # {}
  <2>1. PICK x : x \in S
    BY <1>2
  <2>2. S = {x}
    BY <2>1
  <2> QED
    BY <2>2, FS_Singleton
<1> QED
  BY <1>1, <1>2

LEMMA PlanInvStops == PlanInv => OneStepLeft /\ NobodyUnstoppable
<1> SUFFICES ASSUME PlanInv PROVE OneStepLeft /\ NobodyUnstoppable
  OBVIOUS
<1> USE PlanAssumption DEF PlanInv
<1>1. OneStepLeft
  <2> SUFFICES ASSUME NEW p \in aborted, Latest(p)
               PROVE  Cardinality((ordered \cap StepsOf(p)) \ reversed) <= 1
    BY DEF OneStepLeft
  <2> DEFINE left == (ordered \cap StepsOf(p)) \ reversed
  <2>1. \A m, n \in 1..Length :
           <<p, m>> \in ordered \ reversed /\ <<p, n>> \in ordered \ reversed => m = n
    BY DEF AbortsOK, Almost
  <2>2. \A s \in left : s \in {p} \X (1..Length) /\ s \in ordered \ reversed
    BY DEF StepsOf
  <2>3. \A s \in left : s[2] \in 1..Length /\ s = <<p, s[2]>>
    BY <2>2
  <2>4. \A s, t \in left : s = t
    BY <2>1, <2>2, <2>3
  <2> HIDE DEF left
  <2>5. Cardinality(left) <= 1
    BY <2>4, AtMostOne
  <2> QED
    BY <2>5 DEF left
<1>2. NobodyUnstoppable
  BY DEF NobodyUnstoppable, AloneOK, MainOK, InOrder, ThreadLives, PlanTyped, Started
<1> QED
  BY <1>1, <1>2

LEMMA PlanInvCounts == PlanInv => OutcomesCounted
<1> SUFFICES ASSUME PlanInv, NEW p \in Plans, runner[p] = "gone"
             PROVE  /\ stats[p].success = (IF StepsOf(p) \subseteq ordered THEN 1 ELSE 0)
                    /\ stats[p].rollback \in 0..2 /\ stats[p].success + stats[p].rollback > 0
  BY DEF OutcomesCounted
<1> USE PlanAssumption DEF PlanInv
<1>1. step[p] \in 1..(Length + 1)
  BY DEF PlanTyped
<1>2. \A n \in 1..Length : <<p, n>> \in ordered <=> n < step[p]
  BY DEF ProgressOK
<1>3. StepsOf(p) \subseteq ordered <=> \A n \in 1..Length : <<p, n>> \in ordered
  BY DEF StepsOf
<1>4. (\A n \in 1..Length : n < step[p]) <=> Finished(p)
  <2>1. Length \in 1..Length
    OBVIOUS
  <2> QED
    BY <1>1, <2>1 DEF Finished
<1>5. StepsOf(p) \subseteq ordered <=> Finished(p)
  BY <1>2, <1>3, <1>4
<1> QED
  BY <1>5 DEF ProgressOK, CountsOK

LEMMA PlanInvUndo == PlanInv => UndoOfItsPlan /\ FreshSession
<1> SUFFICES ASSUME PlanInv PROVE UndoOfItsPlan /\ FreshSession
  OBVIOUS
<1> USE PlanAssumption DEF PlanInv
<1>1. DOMAIN stack = 1..Len(stack)
  BY DEF PlanTyped
<1>2. UndoOfItsPlan
  <2> SUFFICES ASSUME ~overlap, NEW i \in 1..Len(stack), NEW p \in Plans, stack[i] = p, Latest(p)
               PROVE  ToSet(completed) = StepsOf(p)
    BY <1>1 DEF UndoOfItsPlan
  <2>1. step[p] = Length + 1
    BY DEF StackOK, Finished
  <2>2. Started(p) /\ (step[p] - 1) = Length /\ \A n \in 1..Length : n < step[p]
    BY <2>1 DEF ProgressOK
  <2>3. \A n \in 1..Length : <<p, n>> \in ToSet(completed)
    BY <2>2 DEF ListedOK
  <2>4. ToSet(completed) \subseteq {p} \X (1..Length)
    BY <2>2 DEF ListedOK
  <2> QED
    BY <2>3, <2>4 DEF StepsOf
<1>3. FreshSession
  <2>1. Len(stack) <= MaxUndo
    BY DEF PlanTyped
  <2>2. ASSUME ~overlap PROVE Cardinality({i \in DOMAIN stack : stack[i] \in earlier}) <= 1
    <3> DEFINE left == {i \in DOMAIN stack : stack[i] \in earlier}
    <3>1. \A i, j \in left : i = j
      BY <1>1, <2>2 DEF StackOK
    <3> HIDE DEF left
    <3>2. Cardinality(left) <= 1
      BY <3>1, AtMostOne
    <3> QED
      BY <3>2 DEF left
  <2> QED
    BY <2>1, <2>2 DEF FreshSession
<1> QED
  BY <1>2, <1>3

\* However many plans are executed, of however many steps, and with a stack of whatever
\* depth: an abort leaves one step, every outcome is counted, and, as far as no plan was
\* started beside another's thread, no plan runs on that cannot be stopped, an undo is of
\* its plan, and a new session has at most the entry of the plan that was ending.
THEOREM PlansAlwaysSound == PlanSpec => []PlansSound
<1>1. PlanInv => PlansSound
  BY PlanInvStops, PlanInvCounts, PlanInvUndo DEF PlansSound
<1> QED
  BY <1>1, InitPlans, PlanStep, PTL DEF PlanSpec

-----------------------------------------------------------------------------
(* Isolated applications: typing, then each of the two safety invariants,  *)
(* which is inductive with it                                              *)

EngineState == {"unborn", "booting", "up", "dead"}
DrainState  == {"none", "loop", "check", "read", "disconnected",
                "failed", "report_last", "report", "gone"}
TimerState  == {"none", "armed", "expired", "report", "over"}

\* Cancelling and terminating change one entry, or none.
LEMMA StopFunctions ==
  ASSUME TypeOK
  PROVE  Cancelled \in [Start -> TimerState] /\ Terminated \in [Start -> EngineState]
<1>1. Cancelled \in [Start -> TimerState]
  BY DEF TypeOK, Cancelled, TimerState
<1>2. Terminated \in [Start -> EngineState]
  BY DEF TypeOK, Terminated, EngineState
<1> QED BY <1>1, <1>2

LEMMA UpdateFunction ==
  ASSUME NEW S, NEW T, NEW f \in [S -> T], NEW s, NEW v \in T
  PROVE  [f EXCEPT ![s] = v] \in [S -> T]
  OBVIOUS

Message == {"HANDSHAKE", "system_failure"}

\* Reading or writing one message keeps the inboxes sequences of messages.
LEMMA InboxUpdate ==
  ASSUME NEW f \in [Start -> Seq(Message)], NEW s, NEW g, NEW m \in Message,
         \/ s \in Start /\ g = [f EXCEPT ![s] = Append(@, m)]
         \/ f[s] # <<>> /\ g = [f EXCEPT ![s] = Tail(@)]
  PROVE  g \in [Start -> Seq(Message)]
<1>1. CASE s \notin Start
  <2>1. g = f
    BY <1>1
  <2> QED BY <2>1
<1>2. CASE s \in Start
  <2>1. f[s] \in Seq(Message)
    BY <1>2
  <2>2. CASE g = [f EXCEPT ![s] = Append(@, m)]
    <3>1. Append(f[s], m) \in Seq(Message)
      BY <2>1
    <3> QED BY <1>2, <2>2, <3>1, UpdateFunction
  <2>3. CASE f[s] # <<>> /\ g = [f EXCEPT ![s] = Tail(@)]
    <3>1. Tail(f[s]) \in Seq(Message)
      BY <2>1, <2>3
    <3> QED BY <1>2, <2>3, <3>1, UpdateFunction
  <2> QED BY <2>2, <2>3
<1> QED BY <1>1, <1>2

LEMMA StartEngineType ==
  ASSUME TypeOK, StartEngine, closed' \in BOOLEAN, restart_shown' \in BOOLEAN,
         restarts_due' \in Nat
  PROVE  TypeOK'
<1> DEFINE s == current + 1
<1>1. s \in Start /\ s \in 0..MaxStarts
  BY IsolatedAssumption DEF TypeOK, StartEngine, Start
<1>2. drain' \in [Start -> DrainState] /\ engine' \in [Start -> EngineState]
  BY DEF TypeOK, StartEngine, NewThread, DrainState, EngineState
<1>3. timer' \in [Start -> TimerState]
  BY StopFunctions DEF StartEngine, TimerArmed, TimerState
<1> QED BY <1>1, <1>2, <1>3
  DEF TypeOK, StartEngine, DrainState, EngineState, TimerState, Reported

LEMMA UiType ==
  ASSUME TypeOK, Launch \/ Restart \/ RestartDue \/ DeliverReport \/ CloseEvent \/ FinalClose
  PROVE  TypeOK'
<1>1. ASSUME Launch PROVE TypeOK'
  <2>1. UNCHANGED ui
    BY <1>1 DEF Launch
  <2> QED BY <1>1, <2>1, StartEngineType DEF Launch, TypeOK, ui
<1>2. ASSUME Restart PROVE TypeOK'
  <2>1. engine' \in [Start -> EngineState] /\ timer' \in [Start -> TimerState]
    BY <1>2, StopFunctions DEF Restart, Stop
  <2>2. /\ state' \in {"BOOTING"} \cup Reported /\ running' \in BOOLEAN
        /\ restart_shown' \in BOOLEAN /\ restarts_due' \in Nat
        /\ UNCHANGED <<handshake_done, current, inbox, drain, reports, closed>>
    <3>1. state' = "BOOTING" /\ running' = FALSE /\ restart_shown' = FALSE
      BY <1>2 DEF Restart, Stop
    <3>2. restarts_due' \in Nat
      BY <1>2 DEF Restart, TypeOK
    <3>3. UNCHANGED <<handshake_done, current, inbox, drain, reports, closed>>
      BY <1>2 DEF Restart, Stop
    <3> QED BY <3>1, <3>2, <3>3
  <2> QED BY <2>1, <2>2 DEF TypeOK, EngineState, TimerState
<1>3. ASSUME RestartDue PROVE TypeOK'
  <2>1. restarts_due' \in Nat /\ UNCHANGED <<restart_shown, closed>> /\ StartEngine
    BY <1>3 DEF RestartDue, TypeOK
  <2> QED BY <2>1, StartEngineType DEF TypeOK
<1>4. ASSUME DeliverReport PROVE TypeOK'
  <2>1. reports' \in Nat /\ restart_shown' \in BOOLEAN
    BY <1>4 DEF TypeOK, DeliverReport, OffersRestart
  <2> QED BY <1>4, <2>1 DEF TypeOK, DeliverReport, controller
<1>5. ASSUME CloseEvent PROVE TypeOK'
  <2>1. engine' \in [Start -> EngineState] /\ timer' \in [Start -> TimerState]
    BY <1>5, StopFunctions DEF CloseEvent, Stop
  <2> QED BY <1>5, <2>1 DEF CloseEvent, Stop, TypeOK, EngineState, TimerState
<1>6. ASSUME FinalClose PROVE TypeOK'
  BY <1>6 DEF TypeOK, FinalClose, controller
<1> QED BY <1>1, <1>2, <1>3, <1>4, <1>5, <1>6

LEMMA DrainType == ASSUME TypeOK, NEW t \in Start, Drain(t) PROVE TypeOK'
<1>1. drain' \in [Start -> DrainState]
  <2>1. drain \in [Start -> DrainState]
    BY DEF TypeOK, DrainState
  <2>2. PICK v \in DrainState : drain' = [drain EXCEPT ![t] = v]
    <3>1. CASE DrainLoop(t)
      BY <3>1 DEF DrainLoop, DrainState
    <3>2. CASE DrainCheck(t)
      BY <3>2 DEF DrainCheck, DrainState
    <3>3. CASE DrainRead(t)
      BY <3>3 DEF DrainRead, DrainState
    <3>4. CASE DrainStop(t)
      BY <3>4, <2>1 DEF DrainStop, DrainState
    <3>5. CASE DrainReport(t)
      BY <3>5, <2>1 DEF DrainReport, DrainState
    <3> QED BY <3>1, <3>2, <3>3, <3>4, <3>5 DEF Drain
  <2> QED BY <2>1, <2>2, UpdateFunction
<1>2. inbox' \in [Start -> Seq(Message)]
  <2>1. inbox \in [Start -> Seq(Message)]
    BY DEF TypeOK, Message
  <2>2. UNCHANGED inbox \/ (inbox[current] # <<>> /\ inbox' = [inbox EXCEPT ![current] = Tail(@)])
    BY DEF Drain, DrainLoop, DrainCheck, DrainRead, DrainStop, DrainReport, Stop
  <2>3. "HANDSHAKE" \in Message
    BY DEF Message
  <2> QED BY <2>1, <2>2, <2>3, InboxUpdate
<1>3. engine' \in [Start -> EngineState] /\ timer' \in [Start -> TimerState]
  <2>1. CASE DrainStop(t)
    BY <2>1, StopFunctions DEF DrainStop, Stop
  <2>2. CASE ~DrainStop(t)
    BY <2>2 DEF Drain, DrainLoop, DrainCheck, DrainRead, DrainReport, TypeOK,
                EngineState, TimerState
  <2> QED BY <2>1, <2>2
<1>4. state' \in {"BOOTING"} \cup Reported /\ reports' \in Nat
  BY DEF TypeOK, Drain, DrainLoop, DrainCheck, DrainRead, DrainStop, DrainReport,
         Outcome, Reported, controller
<1>5. running' \in BOOLEAN /\ handshake_done' \in BOOLEAN /\ current' \in 0..MaxStarts
  BY DEF TypeOK, Drain, DrainLoop, DrainCheck, DrainRead, DrainStop, DrainReport, Stop,
         controller
<1>6. UNCHANGED ui
  BY DEF Drain, DrainLoop, DrainCheck, DrainRead, DrainStop, DrainReport
<1> QED BY <1>1, <1>2, <1>3, <1>4, <1>5, <1>6
  DEF TypeOK, DrainState, EngineState, TimerState, Message, ui

LEMMA TimerType == ASSUME TypeOK, NEW s \in Start, Timer(s) PROVE TypeOK'
<1>1. timer' \in [Start -> TimerState]
  <2>1. PICK f \in [Start -> TimerState], v \in TimerState : timer' = [f EXCEPT ![s] = v]
    <3>1. timer \in [Start -> TimerState]
      BY DEF TypeOK, TimerState
    <3>2. CASE TimerStop(s)
      BY <3>2, StopFunctions DEF TimerStop, TimerState
    <3>3. CASE TimerExpires(s)
      BY <3>3, <3>1 DEF TimerExpires, TimerState
    <3>4. CASE TimerReport(s)
      BY <3>4, <3>1 DEF TimerReport, TimerState
    <3> QED BY <3>2, <3>3, <3>4 DEF Timer
  <2> QED BY <2>1, UpdateFunction
<1>2. engine' \in [Start -> EngineState]
  <2>1. CASE TimerStop(s)
    BY <2>1, StopFunctions DEF TimerStop
  <2>2. CASE ~TimerStop(s)
    BY <2>2 DEF Timer, TimerExpires, TimerReport, TypeOK, EngineState
  <2> QED BY <2>1, <2>2
<1>3. state' \in {"BOOTING"} \cup Reported /\ reports' \in Nat
  BY DEF TypeOK, Timer, TimerExpires, TimerStop, TimerReport, Outcome, Reported, controller
<1>4. running' \in BOOLEAN /\ UNCHANGED <<handshake_done, current, inbox, drain, ui>>
  BY DEF TypeOK, Timer, TimerExpires, TimerStop, TimerReport, controller
<1> QED BY <1>1, <1>2, <1>3, <1>4 DEF TypeOK, EngineState, TimerState, ui

LEMMA EngineType == ASSUME TypeOK, NEW s \in Start, Engine(s) PROVE TypeOK'
<1>1. inbox' \in [Start -> Seq(Message)]
  <2>1. inbox \in [Start -> Seq(Message)]
    BY DEF TypeOK, Message
  <2>2. UNCHANGED inbox \/ \E m \in Message : inbox' = [inbox EXCEPT ![s] = Append(@, m)]
    BY DEF Engine, EngineHandshake, EngineFails, EngineCrashes, Message
  <2> QED BY <2>1, <2>2, InboxUpdate
<1>2. engine' \in [Start -> EngineState]
  BY DEF TypeOK, Engine, EngineHandshake, EngineFails, EngineCrashes, EngineState
<1>3. UNCHANGED <<controller, drain, timer, reports, ui>>
  BY DEF Engine, EngineHandshake, EngineFails, EngineCrashes
<1> QED BY <1>1, <1>2, <1>3 DEF TypeOK, EngineState, Message, controller, ui

LEMMA NextType == TypeOK /\ [Next]_vars => TypeOK'
<1>1. TypeOK /\ UNCHANGED vars => TypeOK'
  BY DEF TypeOK, vars, controller, ui
<1> QED BY <1>1, UiType, DrainType, TimerType, EngineType DEF Next

\* Every field of the controller, the threads and the overlay keeps its type; the
\* counters of queued reports and due restarts never go negative.
THEOREM IsolatedTyping == Spec => []TypeOK
<1>1. Init => TypeOK
  <2>1. [s \in Start |-> <<>>] \in [Start -> Seq({"HANDSHAKE", "system_failure"})]
    <3>1. <<>> \in Seq({"HANDSHAKE", "system_failure"})
      OBVIOUS
    <3> QED BY <3>1, Zenon
  <2>2. 0 \in 0..MaxStarts
    BY IsolatedAssumption
  <2>3. /\ [s \in Start |-> "unborn"] \in [Start -> EngineState]
        /\ [s \in Start |-> "none"] \in [Start -> DrainState]
        /\ [s \in Start |-> "none"] \in [Start -> TimerState]
    BY DEF EngineState, DrainState, TimerState
  <2>4. ASSUME Init PROVE TypeOK
    <3>1. /\ engine \in [Start -> EngineState] /\ drain \in [Start -> DrainState]
          /\ timer \in [Start -> TimerState]
      BY <2>3, <2>4 DEF Init
    <3>2. inbox \in [Start -> Seq({"HANDSHAKE", "system_failure"})]
      BY <2>1, <2>4 DEF Init
    <3> QED BY <2>2, <2>4, <3>1, <3>2
        DEF Init, TypeOK, EngineState, DrainState, TimerState
  <2> QED BY <2>4
<1> QED BY <1>1, NextType, PTL DEF Spec

-----------------------------------------------------------------------------
(* A stopped controller has no engine *)

\* Whoever stops, the engine the controller knows is dead afterwards.
LEMMA TerminatedIsDead ==
  ASSUME TypeOK, current # 0, engine' = Terminated, UNCHANGED current
  PROVE  ~Alive(current)'
<1>1. current \in Start
  BY DEF TypeOK, Start
<1>2. engine \in [Start -> EngineState]
  BY DEF TypeOK, EngineState
<1> QED BY <1>1, <1>2 DEF Terminated, Alive

LEMMA NextStoppedHasNoEngine ==
  TypeOK /\ StoppedHasNoEngine /\ [Next]_vars => StoppedHasNoEngine'
<1> SUFFICES ASSUME TypeOK, StoppedHasNoEngine, [Next]_vars, ~running', current' # 0
             PROVE  ~Alive(current)'
  BY DEF StoppedHasNoEngine
\* An engine that is not alive stays so, and nobody but a start replaces it.
<1>1. ASSUME UNCHANGED <<running, current, engine>> PROVE ~Alive(current)'
  BY <1>1 DEF StoppedHasNoEngine, Alive
<1>2. ASSUME StartEngine PROVE FALSE
  BY <1>2 DEF StartEngine
<1>3. ASSUME Stop PROVE ~Alive(current)'
  BY <1>3, TerminatedIsDead DEF Stop
<1>4. ASSUME UNCHANGED vars PROVE ~Alive(current)'
  BY <1>1, <1>4 DEF vars, controller
<1>5. ASSUME Launch \/ RestartDue PROVE FALSE
  BY <1>2, <1>5 DEF Launch, RestartDue
<1>6. ASSUME Restart \/ CloseEvent PROVE ~Alive(current)'
  BY <1>3, <1>6 DEF Restart, CloseEvent
<1>7. ASSUME DeliverReport \/ FinalClose PROVE ~Alive(current)'
  BY <1>1, <1>7 DEF DeliverReport, FinalClose, controller
<1>8. ASSUME NEW t \in Start, Drain(t) PROVE ~Alive(current)'
  <2>1. CASE DrainStop(t)
    BY <1>3, <2>1 DEF DrainStop
  <2>2. CASE DrainLoop(t) \/ DrainCheck(t) \/ DrainRead(t) \/ DrainReport(t)
    BY <1>1, <2>2 DEF DrainLoop, DrainCheck, DrainRead, DrainReport, controller
  <2> QED BY <1>8, <2>1, <2>2 DEF Drain
<1>9. ASSUME NEW s \in Start, Timer(s) PROVE ~Alive(current)'
  <2>1. CASE TimerStop(s)
    BY <2>1, TerminatedIsDead DEF TimerStop
  <2>2. CASE TimerExpires(s) \/ TimerReport(s)
    BY <1>1, <2>2 DEF TimerExpires, TimerReport, controller
  <2> QED BY <1>9, <2>1, <2>2 DEF Timer
<1>10. ASSUME NEW s \in Start, Engine(s) PROVE ~Alive(current)'
  <2>1. UNCHANGED <<running, current>>
    BY <1>10 DEF Engine, EngineHandshake, EngineFails, EngineCrashes, controller
  <2>2. current \in Start /\ ~Alive(current)
    BY <2>1 DEF StoppedHasNoEngine, TypeOK, Start
  <2>3. engine \in [Start -> EngineState] /\ Alive(s)
    BY <1>10 DEF TypeOK, EngineState, Alive, Engine, EngineHandshake, EngineFails, EngineCrashes
  <2>4. engine'[current] = engine[current]
    BY <1>10, <2>2, <2>3 DEF Engine, EngineHandshake, EngineFails, EngineCrashes
  <2> QED BY <2>1, <2>2, <2>4 DEF Alive
<1> QED BY <1>4, <1>5, <1>6, <1>7, <1>8, <1>9, <1>10 DEF Next

\* However stops, restarts, boot timers and drain threads of earlier starts
\* interleave, a controller that is not running has no live engine.
THEOREM NoEngineWhenStopped == Spec => []StoppedHasNoEngine
<1>1. Init => StoppedHasNoEngine
  BY DEF Init, StoppedHasNoEngine
<1> QED BY <1>1, IsolatedTyping, NextStoppedHasNoEngine, PTL DEF Spec

-----------------------------------------------------------------------------
(* A running controller is watched *)

Watching == {"loop", "check", "read", "disconnected", "failed", "report"}

LEMMA NextRunningIsWatched ==
  TypeOK /\ RunningIsWatched /\ [Next]_vars => RunningIsWatched'
<1> SUFFICES ASSUME TypeOK, RunningIsWatched, [Next]_vars, running'
             PROVE  \E t \in Start : drain'[t] \in Watching
  BY DEF RunningIsWatched, Watching
<1>0. drain \in [Start -> DrainState]
  BY DEF TypeOK, DrainState
<1>1. ASSUME UNCHANGED <<running, drain>> PROVE \E t \in Start : drain'[t] \in Watching
  BY <1>1 DEF RunningIsWatched, Watching
<1>2. ASSUME StartEngine PROVE \E t \in Start : drain'[t] \in Watching
  <2>1. current + 1 \in Start
    BY <1>2, IsolatedAssumption DEF StartEngine, TypeOK, Start
  <2>2. drain'[current + 1] = "loop"
    BY <1>0, <1>2, <2>1 DEF StartEngine, NewThread
  <2> QED BY <2>1, <2>2 DEF Watching
<1>3. ASSUME Stop PROVE FALSE
  BY <1>3 DEF Stop
<1>4. ASSUME UNCHANGED vars PROVE \E t \in Start : drain'[t] \in Watching
  BY <1>1, <1>4 DEF vars, controller
<1>5. ASSUME Launch \/ RestartDue PROVE \E t \in Start : drain'[t] \in Watching
  BY <1>2, <1>5 DEF Launch, RestartDue
<1>6. ASSUME Restart \/ CloseEvent PROVE FALSE
  BY <1>3, <1>6 DEF Restart, CloseEvent
<1>7. ASSUME DeliverReport \/ FinalClose PROVE \E t \in Start : drain'[t] \in Watching
  BY <1>1, <1>7 DEF DeliverReport, FinalClose, controller
\* A thread moves among the watching places; it leaves them only after a stop, its
\* own or one it has seen.
<1>8. ASSUME NEW t \in Start, Drain(t) PROVE \E u \in Start : drain'[u] \in Watching
  <2>1. ~DrainStop(t)
    BY <1>3 DEF DrainStop
  <2>2. UNCHANGED running
    BY <1>8, <2>1 DEF Drain, DrainLoop, DrainCheck, DrainRead, DrainReport, controller
  <2>3. PICK u \in Start : drain[u] \in Watching
    BY <2>2 DEF RunningIsWatched, Watching
  <2>4. \/ drain[t] = "report_last" /\ drain' = [drain EXCEPT ![t] = "gone"]
        \/ \E v \in Watching : drain' = [drain EXCEPT ![t] = v]
    BY <1>8, <2>1, <2>2 DEF Drain, DrainLoop, DrainCheck, DrainRead, DrainReport, Watching
  <2>5. CASE drain[t] = "report_last" /\ drain' = [drain EXCEPT ![t] = "gone"]
    BY <1>0, <2>3, <2>5 DEF Watching
  <2>6. CASE \E v \in Watching : drain' = [drain EXCEPT ![t] = v]
    BY <1>0, <2>6
  <2> QED BY <2>4, <2>5, <2>6
<1>9. ASSUME NEW s \in Start, Timer(s) PROVE \E t \in Start : drain'[t] \in Watching
  <2>1. UNCHANGED <<running, drain>>
    BY <1>9 DEF Timer, TimerExpires, TimerStop, TimerReport, controller
  <2> QED BY <1>1, <2>1
<1>10. ASSUME NEW s \in Start, Engine(s) PROVE \E t \in Start : drain'[t] \in Watching
  <2>1. UNCHANGED <<running, drain>>
    BY <1>10 DEF Engine, EngineHandshake, EngineFails, EngineCrashes, controller
  <2> QED BY <1>1, <2>1
<1> QED BY <1>4, <1>5, <1>6, <1>7, <1>8, <1>9, <1>10 DEF Next

\* For any number of starts: while the controller is running, some drain thread is
\* in its loop or about to stop the engine.
THEOREM EngineIsWatched == Spec => []RunningIsWatched
<1>1. Init => RunningIsWatched
  BY DEF Init, RunningIsWatched
<1> QED BY <1>1, IsolatedTyping, NextRunningIsWatched, PTL DEF Spec
=============================================================================
