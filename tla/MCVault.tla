------------------------------- MODULE MCVault -------------------------------
(* The security engine's sessions, its versioned envelopes, its other files    *)
(* and its audit log in one run.  A key in memory and an envelope on disk      *)
(* share no state here (an envelope's contents do not depend on who reads it), *)
(* so the initial state picks the part that moves.                             *)
EXTENDS VaultSessions, VaultStore, Sequences

CONSTANTS alice, bob, MaxCalls, MaxLines

VARIABLES
  part,
  disk, phase, records, opened, request, todo, calls, created, kept, rotated,
  counter, saved, numbered, stage, log, backup, run, unsaved, lines, overtaken

SeedNames == <<"admin", "guest">>

\* Small sizes for the 10, 100 and 10 MB of the audit log.
Engine == INSTANCE EngineFiles WITH
  User <- {"admin", "guest", "bob"}, Seeds <- SeedNames, Guests <- {"guest"},
  Limit <- 2,
  Writers <- {"caller", "sweeper"}, PersistEvery <- 2, CheckEvery <- 2, Big <- 1,
  MaxRuns <- 2

engineVars == <<disk, phase, records, opened, request, todo, calls, created, kept, rotated>>
auditVars == <<counter, saved, numbered, stage, log, backup, run, unsaved, lines, overtaken>>

MCInit ==
  /\ part \in {"sessions", "files", "engine", "audit"}
  /\ Init /\ StoreInit /\ Engine!AuditInit /\ Engine!EngineInit
  /\ part # "engine" => disk.legacy = {}

MCNext ==
  /\ part' = part
  /\ \/ /\ part = "sessions" /\ Next
        /\ UNCHANGED <<storeVars, engineVars, auditVars>>
     \/ /\ part = "files" /\ StoreNext
        /\ UNCHANGED <<vars, engineVars, auditVars>>
     \/ /\ part = "engine" /\ Engine!EngineNext
        /\ UNCHANGED <<vars, storeVars, auditVars>>
     \/ /\ part = "audit" /\ Engine!AuditNext
        /\ UNCHANGED <<vars, storeVars, engineVars>>

MCSpec == MCInit /\ [][MCNext]_<<part, vars, storeVars, engineVars, auditVars>> /\ Fairness

\* The sessions are typed and bounded, and the engine's other files and its audit log
\* are what their modules promise: accounts and secrets survive failed writes and
\* restarts, and lines are numbered, ordered and kept (session.rs, auth.rs, vault.rs,
\* audit.rs).
EngineSound ==
  CASE part = "sessions" -> SessionsSound
    [] part = "files" -> StoreTypeOK
    [] part = "engine" -> Engine!EngineFilesSound
    [] part = "audit" -> Engine!AuditSound
=============================================================================
