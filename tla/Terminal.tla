------------------------------ MODULE Terminal ------------------------------
(***************************************************************************)
(* A terminal tab over the authentication front end: TerminalEngine        *)
(* (terminal_engine.py) with its states, SudoManager (_sudo_manager.py)    *)
(* and the password mode of TerminalBuffer (terminal_app.py).  Each tab    *)
(* has its own engine, so one tab is modelled; what the commands do to     *)
(* files is HostFiles.                                                     *)
(*                                                                         *)
(* AuthManager, which SudoManager delegates its audit log to, has no such  *)
(* method: the call raises AttributeError and ends the handler.            *)
(***************************************************************************)
EXTENDS AuthFrontEnd

CONSTANTS
  BurstLimit,   \* commands within two seconds that are not yet a burst (8)
  Threshold     \* the threat score that terminates a tab (100)

ASSUME TabAssumption == BurstLimit \in Nat /\ Threshold \in Nat

VARIABLES
  tab,        \* TerminalEngine.state; closed: there is no tab
  role,       \* current_role, with current_user
  cached,     \* is_sudo_cached: less than a minute since the last grant
  score,      \* threat_score, up to the threshold
  masked,     \* TerminalBuffer._is_password_mode
  recent,     \* commands of the last two seconds
  shut        \* history: locked, and no credential was given since

termVars == <<tab, role, cached, score, masked, recent, shut>>
allVars == <<frontVars, termVars>>

Commands == {"ordinary", "rm system", "sudo", "lock", "exit"}

NoTab ==
  /\ tab' = "closed" /\ role' = "user" /\ cached' = FALSE
  /\ score' = 0 /\ masked' = FALSE /\ recent' = 0
  /\ shut' = FALSE

TerminalInit ==
  /\ FrontInit
  /\ tab = "closed" /\ role = "user" /\ cached = FALSE
  /\ score = 0 /\ masked = FALSE /\ recent = 0
  /\ shut = FALSE

Open == tab # "closed"

-----------------------------------------------------------------------------
(* SudoManager                                                             *)

\* Mutant: AuthManager has the audit log that SudoManager expects.
AuditPresent == TRUE

\* log_audit, verify_audit_log: do they return, or raise?
AuditWorks == FALSE

\* AuthManager.verify_password for the user who is logged in.
SudoVerified(p) == username # NoOne /\ Verified(username, p)
SudoVerify(p) == IF username = NoOne THEN UNCHANGED engineVars ELSE VerifyPassword(username, p)

\* _increase_threat: the points are added, then the audit call is made, then the
\* score is compared with the threshold.
Threat(points) ==
  /\ score' = IF score + points > Threshold THEN Threshold ELSE score + points
  /\ tab' = IF AuditWorks /\ score' >= Threshold THEN "TERMINATED" ELSE tab

-----------------------------------------------------------------------------
(* The engine's states                                                     *)

\* _elevate_to_root
Elevate ==
  /\ tab' = "ROOT" /\ role' = "admin" /\ cached' = TRUE /\ shut' = FALSE

\* _state_auth_sudo: after a wrong password the audit call raises, so the state
\* stays AUTH_SUDO while the password mode is already off.
AuthSudo(p) ==
  /\ masked' = FALSE
  /\ SudoVerify(p)
  /\ IF SudoVerified(p) THEN Elevate /\ UNCHANGED score
     ELSE /\ IF AuditWorks
             THEN /\ score' = IF score + 25 > Threshold THEN Threshold ELSE score + 25
                  /\ tab' = "NORMAL"
             ELSE UNCHANGED <<score, tab>>
          /\ UNCHANGED <<role, cached, shut>>
  /\ UNCHANGED recent

\* _state_locked: back to NORMAL, with the role of before the lock.
Unlock(p) ==
  /\ SudoVerify(p)
  /\ IF SudoVerified(p)
     THEN tab' = "NORMAL" /\ masked' = FALSE /\ shut' = FALSE /\ UNCHANGED score
     ELSE /\ IF AuditWorks THEN Threat(15) ELSE UNCHANGED <<score, tab>>
          /\ UNCHANGED <<masked, shut>>
  /\ UNCHANGED <<role, cached, recent>>

\* _handle_sudo, with a command or without: with a fresh grant the tab turns ROOT
\* at once and stays so; the command is dropped, as a line less than 50 ms after
\* the last one (after a password it is run when checking took longer than that).
Sudo ==
  /\ IF cached THEN Elevate /\ UNCHANGED masked
     ELSE tab' = "AUTH_SUDO" /\ masked' = TRUE /\ UNCHANGED <<role, cached, shut>>
  /\ UNCHANGED score

\* Mutant: the lock screen is entered with the echo on.
LockWithEcho ==
  /\ tab' = "LOCKED" /\ masked' = FALSE /\ shut' = TRUE
  /\ UNCHANGED <<role, cached, score>>

Lock ==
  /\ tab' = "LOCKED" /\ masked' = TRUE /\ shut' = TRUE
  /\ UNCHANGED <<role, cached, score>>

\* exit: from ROOT to the plain user, else to the lock screen.
Exit ==
  IF tab = "ROOT"
  THEN /\ tab' = "NORMAL" /\ role' = "user"
       /\ UNCHANGED <<masked, shut, cached, score>>
  ELSE Lock

\* The other lines: dispatch catches what a handler raises; rm on a protected
\* name counts forty points.
Dispatch(c) ==
  /\ IF c = "rm system" THEN Threat(40) ELSE UNCHANGED <<score, tab>>
  /\ UNCHANGED <<role, cached, masked, shut>>

\* _analyze_behavior: a burst raises on its audit call, before the command is run.
Burst == recent >= BurstLimit

Obey(c) ==
  \/ c = "sudo" /\ Sudo
  \/ c = "lock" /\ Lock
  \/ c = "exit" /\ Exit
  \/ c \in {"ordinary", "rm system"} /\ Dispatch(c)

-----------------------------------------------------------------------------
(* Keys and clicks                                                         *)

\* Every change of the tab happens on the interface thread, on the desktop.
AtTab == Ready /\ Open

\* A bound: tabs are opened while nothing else of the front end is under way and
\* the users are those of the first start.
Quiet ==
  /\ ~thread_runs /\ ~locked /\ ~overlay /\ username = Admin
  /\ \A u \in User \ {Admin} :
       pw[u] = None /\ overrides[u] = None /\ fails[u] = 0 /\ live[u] = << >>

OpenTab ==
  /\ Ready /\ screen = "desktop" /\ ~Open /\ Quiet
  /\ tab' = "NORMAL"
  /\ UNCHANGED <<frontVars, role, cached, score, masked, recent, shut>>

\* DesktopIcon._launch_as_admin: the password of STATE.current_user, or of admin
\* when it is not set, opens a tab that starts as ROOT.
OpenAsAdmin(p) ==
  LET u == IF current_user = NoOne THEN Admin ELSE current_user
  IN /\ Ready /\ screen = "desktop" /\ ~Open /\ Quiet
     /\ VerifyPassword(u, p)
     /\ IF Verified(u, p) THEN Elevate ELSE UNCHANGED <<tab, role, cached, shut>>
     /\ UNCHANGED <<fileVars, managerVars, apiVars, threadVars, uiVars,
                    score, masked, recent>>

CloseTab == AtTab /\ NoTab /\ UNCHANGED frontVars

\* What is left of a password typed without echo.  A key without a character, such
\* as Shift, makes _update_suggestion read the current input, and reading it in
\* password mode empties _pass_buffer.
Kept(p) == IF masked THEN {p, None} ELSE {p}

\* Enter in a state that waits for a password.  (execute_command drops a line that
\* comes less than 50 ms after the last one; nothing changes then.)
EnterPassword(p) ==
  /\ AtTab
  /\ \E t \in Kept(p) :
       \/ tab = "AUTH_SUDO" /\ AuthSudo(t)
       \/ tab = "LOCKED" /\ Unlock(t)
  /\ UNCHANGED <<fileVars, managerVars, apiVars, threadVars, uiVars>>

EnterCommand(c) ==
  /\ AtTab /\ tab \in {"NORMAL", "ROOT"}
  /\ recent' = IF Burst THEN recent ELSE recent + 1
  /\ IF Burst THEN Threat(20) /\ (AuditWorks \/ UNCHANGED tab)
                   /\ UNCHANGED <<role, cached, masked, shut>>
     ELSE Obey(c)
  /\ UNCHANGED frontVars

\* The context menu's "Run as Administrator", in any state.  With a grant the tab
\* turns ROOT and stays without echo if it was waiting for a password.
RunAsAdministrator ==
  /\ AtTab /\ tab # "ROOT"
  /\ IF cached THEN Elevate /\ UNCHANGED masked
     ELSE tab' = "AUTH_SUDO" /\ masked' = TRUE /\ UNCHANGED <<role, cached, shut>>
  /\ UNCHANGED <<frontVars, score, recent>>

\* Time: two seconds without a command, a minute after the grant.
Calm ==
  /\ recent > 0 /\ recent' = 0
  /\ UNCHANGED <<frontVars, tab, role, cached, score, masked, shut>>
GrantOld ==
  /\ cached /\ cached' = FALSE
  /\ UNCHANGED <<frontVars, tab, role, score, masked, recent, shut>>

TabStep ==
  \/ OpenTab \/ CloseTab \/ RunAsAdministrator \/ Calm \/ GrantOld
  \/ \E p \in Password : OpenAsAdmin(p) \/ EnterPassword(p)
  \/ \E c \in Commands : EnterCommand(c)

\* The tab meets the front end in the engine's answers and in the user: while a tab
\* is open the front end takes the steps that change those, and closes it when the
\* program ends.
TerminalNext ==
  \/ ~Open /\ FrontStep /\ UNCHANGED termVars
  \/ Open /\ (\E u \in User : CooldownOver(u) \/ Expire(u)) /\ UNCHANGED termVars
  \/ Open /\ (ListSecrets \/ CheckIdle) /\ UNCHANGED termVars
  \/ RestartProgram /\ NoTab
  \/ TabStep

TerminalSpec == TerminalInit /\ [][TerminalNext]_allVars /\ FrontFairness

-----------------------------------------------------------------------------
(* Properties                                                              *)

\* The variables of the tab have their types; a ROOT tab has the admin role;
\* a LOCKED one reads without echo; tabs are open on the desktop only.
TabAgrees ==
  /\ tab \in {"closed", "NORMAL", "ROOT", "AUTH_SUDO", "LOCKED", "TERMINATED"}
  /\ role \in {"user", "admin"}
  /\ score \in 0..Threshold /\ recent \in 0..BurstLimit
  /\ {cached, masked, shut} \subseteq BOOLEAN
  /\ tab = "ROOT" => role = "admin"
  /\ tab = "LOCKED" => shut /\ masked
  /\ Open => screen = "desktop"

\* A locked tab gives no prompt back, by whatever detour, until the user's password
\* has been verified or a grant is still fresh: the right-click elevation replaces
\* LOCKED by AUTH_SUDO, and a password refused there must not end in NORMAL.
LockedTabStaysShut == shut => tab \in {"LOCKED", "AUTH_SUDO"}

\* Both together: the parts of the front end agree on who is logged in and what is
\* locked, and the tab's state, role and echo agree with them and with one another.
FrontSound == FrontAgrees /\ TabAgrees /\ LockedTabStaysShut
=============================================================================
