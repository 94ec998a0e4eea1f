----------------------------- MODULE EngineFiles -----------------------------
(***************************************************************************)
(* A life of the security engine on disk (engine_rust/src: master_key.rs,  *)
(* auth.rs, vault.rs, lib.rs): the master key, the user database and its   *)
(* MAC, the salts and theirs, every user's vault, the copy that a key      *)
(* rotation puts aside, and the MAC file that vaults had in the old        *)
(* format.  VaultStore has the versions file, VaultSessions the sessions.  *)
(*                                                                         *)
(* A call holds Python's GIL from end to end.  It is modelled by the file  *)
(* operations it makes, in order; each of them may fail, and the process   *)
(* may die before any of them and be started again.                        *)
(***************************************************************************)
EXTENDS EngineConstants, Naturals, Sequences, SequencesExt, TLC

CONSTANTS
  Seeds,        \* the names of the default accounts, in order
  Guests,       \* accounts whose role may not use the vault
  Limit,        \* failed attempts that lock an account
  MaxCalls,     \* bound on the calls, starts of the process included

  Writers,      \* threads that log
  PersistEvery, \* the counter is saved at its multiples, 10 in the code
  CheckEvery,   \* the log's size is looked at at its multiples, 100 in the code
  Big,          \* lines of a log that is put aside, 10 MB in the code
  MaxLines,     \* bound on the lines and their numbers
  MaxRuns       \* bound on the runs of the process

VARIABLES
  disk,         \* the files
  phase,        \* the process is "down", or the engine "booting" or "up"
  records,      \* UserDB.users: failed attempts of each account in memory
  opened,       \* VaultStore.active_keys: the salt of an account's key, 0 for none
  request,      \* what the call in progress is to do when its files are written
  todo,         \* the file operations it has yet to make
  calls,        \* calls made
  created,      \* history: accounts whose creation has returned Ok
  kept,         \* history: secrets of an account whose store has returned Ok
  rotated,      \* history: whether an account's key was rotated, that was cut short,
                \*   or begun again after it was cut short

  counter,      \* LOG_COUNTER
  saved,        \* audit_counter.bin
  numbered,     \* the number of a line a thread has yet to write, 0 for none
  stage,        \* how far a thread with a number is: before the size check, about to put
                \*   the log aside, or at its line
  log, backup,  \* audit.log and audit.log.1
  run,          \* runs of the process
  unsaved,      \* history: a save of the counter failed in this run
  lines,        \* history: all the lines written
  overtaken     \* history: a log was put aside that another thread had just begun

engineVars == <<disk, phase, records, opened, request, todo, calls, created, kept, rotated>>

NoRequest == [op |-> "none", user |-> "", mark |-> 0]

\* A vault: the salt of its key, its secrets, and whether it is still in the old format.
Vault(salt, secrets, plain) == [salt |-> salt, secrets |-> secrets, plain |-> plain]
NoEnvelope == Vault(0, {}, FALSE)

\* A file operation; `on` says what its failure does to the call.
Write(files, save, on) == [to |-> files, save |-> save, on |-> on]

\* Mutant: the MAC is renamed first.
MacFirst(name, mac, content, save, on) ==
  <<Write(mac :> content, save, on), Write(name :> content, save, on)>>

\* The two renames that end write_file_with_mac and UserDB::save.
Pair(name, mac, content, save, on) ==
  <<Write(name :> content, save, on), Write(mac :> content, save, on)>>

SaveUsers(content, save, on) == Pair("users", "users_mac", content, save, on)
SaveSalts(content, on) == Pair("salts", "salts_mac", content, "salts", on)

\* A vault of the old format, with its MAC file, may be there from before.
EngineInit ==
  /\ \E old \in SUBSET {Seeds[1]} :
       /\ disk = [master |-> "none", users |-> Absent, users_mac |-> Absent,
                  salts |-> IF old = {} THEN Absent ELSE [u \in User |-> IF u \in old THEN 1 ELSE 0],
                  salts_mac |-> Absent,
                  vaults |-> [u \in User |-> IF u \in old THEN Vault(1, {0}, TRUE) ELSE NoEnvelope],
                  aside |-> [u \in User |-> NoEnvelope], legacy |-> old]
       /\ kept = [u \in User |-> IF u \in old THEN {0} ELSE {}]
  /\ phase = "down" /\ records = <<>> /\ opened = [u \in User |-> 0]
  /\ request = NoRequest /\ todo = <<>> /\ calls = 0
  /\ created = {} /\ rotated = [u \in User |-> "no"]

Begin(op, user, mark, writes) ==
  /\ calls < MaxCalls /\ calls' = calls + 1
  /\ request' = [op |-> op, user |-> user, mark |-> mark]
  /\ todo' = writes
  /\ UNCHANGED <<disk, created, kept>>

Ready == phase = "up" /\ request = NoRequest

-----------------------------------------------------------------------------
(* Starting *)

UsersReadable == Readable(disk.users, disk.users_mac)
SaltsReadable == Readable(disk.salts, disk.salts_mac)
Salts == Content(disk.salts, [u \in User |-> 0])
StoredRecords == Content(disk.users, <<>>)

\* A key that has been cut short is not replaced, it is an error.
MasterKey == IF disk.master = "none"
             THEN <<Write("master" :> "short", "master", "abort"),
                    Write("master" :> "whole", "master", "abort")>>
             ELSE <<>>

\* seed_defaults creates one account after the other; what fails is not reported.
SeedRecords(n) == [u \in {Seeds[i] : i \in 1..n} |-> 0]
Seeding == FlattenSeq([n \in 1..Len(Seeds) |-> SaveUsers(SeedRecords(n), "seed", "stop")])

\* UserDB::new: an empty database is seeded, one without a MAC saved again.
OpenUsers == CASE disk.users = Absent -> Seeding
               [] disk.users # Absent /\ disk.users_mac = Absent
                    -> SaveUsers(disk.users, "users", "abort")
               [] disk.users # Absent /\ disk.users_mac # Absent -> <<>>

Boot ==
  /\ phase = "down"
  /\ disk.master # "short" /\ UsersReadable
  /\ Begin("boot", "", 0, MasterKey \o OpenUsers)
  /\ phase' = "booting"
  /\ records' = StoredRecords
  /\ UNCHANGED <<opened, rotated>>

-----------------------------------------------------------------------------
(* Calls *)

\* Mutant: the new record replaces the others.
OnlyRecord(u) == u :> 0

WithRecord(u) == records @@ (u :> 0)

\* create_user of an administrator.
CreateUser(u) ==
  /\ Ready /\ u \notin DOMAIN records
  /\ Begin("create", u, 0, SaveUsers(WithRecord(u), "users", "abort"))
  /\ UNCHANGED <<phase, records, opened, rotated>>

\* get_or_create_salt: a salt is made once and is used when it is saved.
NewSalt == 2 * calls + 3
FreshSalt(u) == IF Salts[u] = 0 THEN 2 * calls + 2 ELSE Salts[u]
UnlockWrites(u) == IF Salts[u] # 0 THEN <<>>
                   ELSE SaveSalts([Salts EXCEPT ![u] = FreshSalt(u)], "abort")

\* login: authenticate keeps the count of failures as well as it can, then the key is
\* derived and cached.
LoginUser(u, good) ==
  /\ Ready /\ u \in DOMAIN records
  /\ \E cooled \in BOOLEAN :
       /\ records[u] = Limit => cooled
       /\ LET before == IF records[u] = Limit THEN 0 ELSE records[u]
              now == [records EXCEPT ![u] = IF good THEN 0 ELSE before + 1]
              unlocks == good /\ SaltsReadable
          IN Begin(IF unlocks THEN "login" ELSE "refused", u, IF unlocks THEN FreshSalt(u) ELSE 0,
                   SaveUsers(now, "users", "skip") \o (IF unlocks THEN UnlockWrites(u) ELSE <<>>))
  /\ UNCHANGED <<phase, records, opened, rotated>>

\* load_data with this key: no file at all is a new vault; a MAC file means the old
\* format, and an envelope is not that.
LoadsWith(u, salt) ==
  LET vault == disk.vaults[u] IN
    IF vault = NoEnvelope THEN u \notin disk.legacy
    ELSE vault.salt = salt /\ (vault.plain <=> u \in disk.legacy)

\* migrate_legacy_vault: the envelope first, then the MAC file goes, if it can.
Migration(u) ==
  IF u \notin disk.legacy THEN <<>>
  ELSE <<Write("vaults" :> [disk.vaults EXCEPT ![u].plain = FALSE], "vault", "abort"),
         Write("legacy" :> disk.legacy \ {u}, "legacy", "skip")>>

VaultWith(u, vault) == Write("vaults" :> [disk.vaults EXCEPT ![u] = vault], "vault", "abort")

\* The engine asks the role before a secret is stored or read, not before it is listed.
Allowed(u, op) == u \notin Guests \/ op = "list"

\* store_secret, get_secret and list_secrets.
Access(u, op) ==
  /\ Ready /\ opened[u] # 0
  /\ Allowed(u, op)
  /\ LoadsWith(u, opened[u])
  /\ Begin(op, u, calls + 1,
           Migration(u) \o
           (IF op = "store"
            THEN <<VaultWith(u, Vault(opened[u], disk.vaults[u].secrets \cup {calls + 1}, FALSE))>>
            ELSE <<>>))
  /\ UNCHANGED <<phase, records, opened, rotated>>

\* Mutant: the old vault is not put aside, it is destroyed.
NothingAside(u) == <<Write("vaults" :> [disk.vaults EXCEPT ![u] = NoEnvelope], "aside", "skip")>>

\* The old file is renamed, if there is one.
PutAside(u) ==
  IF disk.vaults[u] = NoEnvelope THEN <<>>
  ELSE <<Write([f \in {"vaults", "aside"} |->
                  IF f = "aside"
                  THEN [disk.aside EXCEPT ![u] = [disk.vaults[u] EXCEPT !.plain = FALSE]]
                  ELSE [disk.vaults EXCEPT ![u] = NoEnvelope]], "aside", "skip")>>

\* rotate_key: load with the old key, put the old vault aside, write the new one,
\* destroy the old, and then save the new salt.
RotateKey(u) ==
  /\ Ready /\ SaltsReadable
  /\ LoadsWith(u, FreshSalt(u))
  /\ Begin("rotate", u, 0,
           UnlockWrites(u) \o Migration(u) \o PutAside(u) \o
           <<VaultWith(u, Vault(NewSalt, disk.vaults[u].secrets, FALSE)),
             Write("aside" :> [disk.aside EXCEPT ![u] = NoEnvelope], "shred", "skip")>> \o
           SaveSalts([Salts EXCEPT ![u] = NewSalt], "abort"))
  /\ rotated' = [rotated EXCEPT ![u] = IF @ = "cut" THEN "again" ELSE @]
  /\ UNCHANGED <<phase, records, opened>>

\* The keys of the account's sessions go.
LogoutUser(u) ==
  /\ Ready /\ opened[u] # 0
  /\ opened' = [opened EXCEPT ![u] = 0]
  /\ UNCHANGED <<disk, phase, records, request, todo, calls, created, kept, rotated>>

-----------------------------------------------------------------------------
(* File operations, their failure, and the end of the process *)

\* The record is in memory before it is saved, and stays there.
Remember(write) ==
  records' = IF "users" \in DOMAIN write.to THEN write.to.users ELSE records

MakeWrite ==
  /\ todo # <<>>
  /\ disk' = Head(todo).to @@ disk
  /\ todo' = Tail(todo)
  /\ Remember(Head(todo))
  /\ UNCHANGED <<phase, opened, request, calls, created, kept, rotated>>

\* Mutant: a salt that could not be saved is used all the same.
NeverAborts(write) == write.on = "abort" /\ write.save # "salts"

Aborts(write) == write.on = "abort"

\* A rotation that began has ended, or not.
Rotation(outcome) ==
  [u \in User |-> IF request.op = "rotate" /\ u = request.user /\ rotated[u] # "again"
                  THEN outcome ELSE rotated[u]]

WriteFails ==
  /\ todo # <<>>
  /\ LET failed == Head(todo)
         others == SelectSeq(todo, LAMBDA w : w.save # failed.save)
     IN IF Aborts(failed)
        THEN /\ todo' = <<>> /\ request' = NoRequest
             /\ rotated' = Rotation("cut")
             /\ phase' = IF phase = "booting" THEN "down" ELSE phase
        ELSE /\ todo' = others
             /\ UNCHANGED <<request, rotated, phase>>
  /\ Remember(Head(todo))
  /\ UNCHANGED <<disk, opened, calls, created, kept>>

Return ==
  /\ request # NoRequest /\ todo = <<>>
  /\ request' = NoRequest
  /\ phase' = "up"
  /\ created' = IF request.op = "create" THEN created \cup {request.user} ELSE created
  /\ kept' = IF request.op = "store" THEN [kept EXCEPT ![request.user] = @ \cup {request.mark}] ELSE kept
  /\ opened' = IF request.op = "login" THEN [opened EXCEPT ![request.user] = request.mark] ELSE opened
  /\ rotated' = Rotation("done")
  /\ UNCHANGED <<disk, records, todo, calls>>

\* The process ends, by its own will or not.
Exit ==
  /\ phase # "down"
  /\ phase' = "down" /\ records' = <<>> /\ opened' = [u \in User |-> 0]
  /\ request' = NoRequest /\ todo' = <<>>
  /\ rotated' = Rotation("cut")
  /\ UNCHANGED <<disk, calls, created, kept>>

EngineNext ==
  \/ Boot
  \/ \E u \in User : \/ CreateUser(u) \/ RotateKey(u) \/ LogoutUser(u)
                      \/ \E good \in BOOLEAN : LoginUser(u, good)
                      \/ \E op \in {"store", "get", "list"} : Access(u, op)
  \/ MakeWrite \/ WriteFails \/ Return \/ Exit

-----------------------------------------------------------------------------
(* Properties *)

EngineTypeOK ==
  /\ phase \in {"down", "booting", "up"}
  /\ disk.master \in {"none", "short", "whole"}
  /\ \A u \in DOMAIN records : u \in User /\ records[u] \in 0..Limit
  /\ calls \in 0..MaxCalls /\ disk.legacy \subseteq User

\* An account that create_user reported as made is in the database as long as that can
\* be read, and in memory whenever the engine is up, through failed saves and restarts.
AccountsKept ==
  /\ UsersReadable => created \subseteq DOMAIN StoredRecords
  /\ phase = "up" => created \subseteq DOMAIN records

\* However its seeding went, an engine that is up has the first default account.
AdminThere == phase = "up" => Seeds[1] \in DOMAIN records

\* A process that dies in the first save of a pair, or in the migration that gives it
\* its MAC, leaves a pair that is accepted; only a later one can be torn.
FirstSaveHarmless ==
  /\ UsersReadable \/ Absent \notin {disk.users, disk.users_mac}
  /\ SaltsReadable \/ Absent \notin {disk.salts, disk.salts_mac}

\* The key a session holds is the one its salt on disk gives, so what it stores can be
\* read after the next login, unless the account's key was rotated meanwhile.
KeysMatchSalts ==
  \A u \in User : SaltsReadable /\ (request.op = "rotate" => u # request.user) =>
    /\ rotated[u] \in {"no", "done"} /\ disk.vaults[u] # NoEnvelope
         => disk.vaults[u].salt = Salts[u]
    /\ rotated[u] = "no" /\ opened[u] # 0 => opened[u] = Salts[u]

\* What was stored is in the user's vault or in the copy put aside, through migrations
\* and rotations cut short at any point, until the rotation is started again.
SecretsOnDisk ==
  \A u \in User : rotated[u] # "again" =>
    kept[u] \subseteq disk.vaults[u].secrets \cup disk.aside[u].secrets

EngineFilesSound ==
  /\ EngineTypeOK
  /\ AccountsKept
  /\ AdminThere
  /\ FirstSaveHarmless
  /\ KeysMatchSalts
  /\ SecretsOnDisk

-----------------------------------------------------------------------------
(* The audit log (audit.rs), beside the calls above and independent of them:   *)
(* a call takes a number under the counter's lock and appends its line without *)
(* it; the calls into the engine come one at a time, and the key sweeper       *)
(* writes from a thread of its own.  The counter is saved only now and then,   *)
(* the log is put aside when it has grown, and no I/O error ends a call.       *)

auditVars == <<counter, saved, numbered, stage, log, backup, run, unsaved, lines, overtaken>>

AuditInit ==
  /\ counter = 0 /\ saved = 0
  /\ numbered = [w \in Writers |-> 0] /\ stage = [w \in Writers |-> "check"]
  /\ log = <<>> /\ backup = <<>> /\ lines = <<>>
  /\ run = 1 /\ unsaved = FALSE /\ overtaken = FALSE

\* Mutant: the counter is saved when it has passed the multiple.
SavesLate(n) == n % PersistEvery = 1 /\ n > 1

SavesAt(n) == n % PersistEvery = 0

\* get_next_counter.
Number(w) ==
  /\ numbered[w] = 0 /\ counter < MaxLines /\ Len(lines) < MaxLines
  /\ counter' = counter + 1
  /\ numbered' = [numbered EXCEPT ![w] = counter']
  /\ \/ saved' = (IF SavesAt(counter') THEN counter' ELSE saved) /\ unsaved' = unsaved
     \/ SavesAt(counter') /\ saved' = saved /\ unsaved' = TRUE
  /\ UNCHANGED <<stage, log, backup, run, lines, overtaken>>

\* Mutant: the log is put aside whatever its size.
AlwaysRotates(n) == n % CheckEvery = 0

Rotates(n) == n % CheckEvery = 0 /\ Len(log) > Big

\* The rest of log_event, without a lock: the size check, the renaming of a log that is too
\* big, and the line at the end of the log.
ChecksSize(w) ==
  /\ numbered[w] # 0 /\ stage[w] = "check"
  /\ stage' = [stage EXCEPT ![w] = IF Rotates(numbered[w]) THEN "rename" ELSE "write"]
  /\ UNCHANGED <<counter, saved, numbered, log, backup, run, unsaved, lines, overtaken>>

\* The log may be gone meanwhile, and an error is ignored.  Whoever had seen the log that is
\* put aside here, and comes to it late, finds another.
PutsAside(w) ==
  /\ numbered[w] # 0 /\ stage[w] \in {"rename", "late"}
  /\ \/ /\ log # <<>> /\ backup' = log /\ log' = <<>>
        /\ stage' = [v \in Writers |-> IF v = w THEN "write"
                                      ELSE IF stage[v] = "rename" THEN "late" ELSE stage[v]]
        /\ overtaken' = (overtaken \/ stage[w] = "late")
     \/ stage' = [stage EXCEPT ![w] = "write"] /\ UNCHANGED <<log, backup, overtaken>>
  /\ UNCHANGED <<counter, saved, numbered, run, unsaved, lines>>

GivesUp(w) ==
  /\ numbered[w] # 0 /\ stage[w] = "write"
  /\ numbered' = [numbered EXCEPT ![w] = 0] /\ stage' = [stage EXCEPT ![w] = "check"]
  /\ UNCHANGED <<counter, saved, backup, run, unsaved, overtaken>>

AppendLine(w) ==
  LET line == [n |-> numbered[w], run |-> run, by |-> w]
  IN GivesUp(w) /\ log' = Append(log, line) /\ lines' = Append(lines, line)

\* A line that cannot be written is reported on stderr or nowhere.
Dropped(w) == GivesUp(w) /\ UNCHANGED <<log, lines>>

\* The process ends; the next one counts on from the file.
NextRun ==
  /\ run < MaxRuns
  /\ run' = run + 1
  /\ counter' = saved
  /\ numbered' = [w \in Writers |-> 0] /\ stage' = [w \in Writers |-> "check"]
  /\ unsaved' = FALSE
  /\ UNCHANGED <<saved, log, backup, lines, overtaken>>

AuditNext ==
  \/ NextRun
  \/ \E w \in Writers : Number(w) \/ ChecksSize(w) \/ PutsAside(w) \/ AppendLine(w) \/ Dropped(w)

AuditSpec == AuditInit /\ [][AuditNext]_auditVars

\* Within a run no number is used twice, and each thread's lines are in order.
NumbersAreOwn ==
  \A i, j \in DOMAIN lines :
    i < j /\ lines[i].run = lines[j].run =>
      /\ lines[i].n # lines[j].n
      /\ lines[i].by = lines[j].by => lines[i].n < lines[j].n

\* A restart repeats fewer numbers than lie between two saves of the counter, if the
\* last save was made.
FewNumbersRepeat == ~unsaved => counter - saved < PersistEvery

\* The log and its backup are the end of all that was written, and always more than
\* the size at which a log is put aside; unless a thread that had found the log too big put
\* aside, in its place, the one that another had begun.
RecentLinesKept ==
  overtaken \/
  /\ IsSuffix(backup \o log, lines)
  /\ Len(backup \o log) >= (IF Len(lines) < Big THEN Len(lines) ELSE Big)

AuditSound == NumbersAreOwn /\ FewNumbersRepeat /\ RecentLinesKept
=============================================================================
