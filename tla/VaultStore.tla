------------------------------ MODULE VaultStore ------------------------------
(***************************************************************************)
(* The files of the vault (engine_rust/src/vault.rs): one envelope per     *)
(* user, with its version and MAC in one file, and a file of the versions  *)
(* of all users, whose MAC is a file of its own.                           *)
(*                                                                         *)
(* Calls into the engine hold Python's GIL from end to end, so one store   *)
(* is in progress at a time; what interleaves with its writes is a crash   *)
(* or an I/O error.  Both leave on disk what the steps so far have put     *)
(* there, and the next call starts from that.  A backup copy of a user's   *)
(* envelope may also be put back: the case the versions are there for.     *)
(*                                                                         *)
(* A secret is the number of the call that stored it, an envelope's data   *)
(* the set of its secrets.                                                 *)
(***************************************************************************)
EXTENDS EngineConstants, Naturals, FiniteSets

CONSTANTS
  Idle,         \* no store in progress
  MaxStores     \* bound on the calls of store_secret

ASSUME StoreAssumption == MaxStores \in Nat \ {0}
ASSUME AbsentAssumption == Absent \notin [User -> Nat]

Envelopes == [version : Nat, data : SUBSET Nat]

\* A store in progress.
Calls == [user : User, secret : Nat, step : {"envelope", "versions", "mac"},
          envelope : Envelopes]

ASSUME IdleAssumption == Idle \notin Calls

VARIABLES
  vault,          \* users/<name>.vault: version and data, version 0 for no file
  versions,       \* vault_versions.json, or Absent
  versions_mac,   \* what vault_versions.json.mac authenticates, or Absent
  saving,         \* the store in progress: its user, secret, step and envelope
  backups,        \* envelopes a user's file has had
  stored,         \* calls of store_secret so far
  acked,          \* history: secrets of a user whose store has returned Ok
  interrupted,    \* history: users a store of whom did not end
  restored        \* history: users whose file was replaced by a backup

storeVars == <<vault, versions, versions_mac, saving, backups, stored, acked,
          interrupted, restored>>

\* VaultStore.load_versions: no version is known without the file.
KnownVersions == Content(versions, [u \in User |-> 0])

Envelope(version, data) == [version |-> version, data |-> data]
NoVault == Envelope(0, {})

\* No version is ahead of the calls made.
VersionMaps == [User -> 0..stored] \cup {Absent}

StoreTypeOK ==
  /\ stored \in 0..MaxStores
  /\ \A u \in User : /\ vault[u].version \in 0..stored
                     /\ vault[u].data \subseteq 1..stored
                     /\ acked[u] \subseteq 1..stored
  /\ versions \in VersionMaps /\ versions_mac \in VersionMaps
  /\ saving \in Calls \cup {Idle}
  /\ interrupted \subseteq User /\ restored \subseteq User

StoreInit ==
  /\ vault = [u \in User |-> NoVault]
  /\ versions = Absent /\ versions_mac = Absent
  /\ saving = Idle
  /\ backups = [u \in User |-> {}]
  /\ stored = 0
  /\ acked = [u \in User |-> {}]
  /\ interrupted = {} /\ restored = {}

-----------------------------------------------------------------------------
(* Loading *)

VersionsReadable == Readable(versions, versions_mac)
KnownVersion(u) == KnownVersions[u]

\* load_data: without a file the vault is new and nothing is checked; otherwise the
\* versions must be readable and the envelope's not below the known one.
NotRolledBack(u) == vault[u].version >= KnownVersion(u)

Loads(u) == vault[u] = NoVault \/ (VersionsReadable /\ NotRolledBack(u))

-----------------------------------------------------------------------------
(* Storing *)

\* Mutant: the versions are written before the envelope they describe.
VersionsFirst == [first |-> "versions", envelope |-> "done", versions |-> "mac",
                  mac |-> "envelope"]

\* The order of the renames.
Order == [first |-> "envelope", envelope |-> "versions", versions |-> "mac",
          mac |-> "done"]

\* store_secret up to the first rename: a store that cannot load, or cannot read the
\* versions to number the envelope, is refused.
StoreSecret(u) ==
  /\ saving = Idle /\ stored < MaxStores
  /\ Loads(u) /\ VersionsReadable
  /\ stored' = stored + 1
  /\ saving' = [user |-> u, secret |-> stored + 1, step |-> Order.first,
                envelope |-> Envelope(KnownVersion(u) + 1, vault[u].data \cup {stored + 1})]
  /\ UNCHANGED <<vault, versions, versions_mac, backups, acked, interrupted, restored>>

\* The step just made was the last, or names the next.
Advance ==
  IF Order[saving.step] = "done"
  THEN /\ saving' = Idle
       /\ acked' = [acked EXCEPT ![saving.user] = @ \cup {saving.secret}]
  ELSE /\ saving' = [saving EXCEPT !.step = Order[saving.step]]
       /\ UNCHANGED acked

RenameEnvelope ==
  /\ saving # Idle /\ saving.step = "envelope"
  /\ vault' = [vault EXCEPT ![saving.user] = saving.envelope]
  /\ backups' = [backups EXCEPT ![saving.user] = (@ \cup {vault[saving.user]}) \ {NoVault}]
  /\ Advance
  /\ UNCHANGED <<versions, versions_mac, stored, interrupted, restored>>

\* Mutant: the other users' versions are dropped.
OwnVersionOnly(u, version) == [w \in User |-> IF w = u THEN version ELSE 0]

\* set_vault_version: one entry of the map is replaced.
WithVersion(u, version) == [KnownVersions EXCEPT ![u] = version]

RenameVersions ==
  /\ saving # Idle /\ saving.step = "versions"
  /\ versions' = WithVersion(saving.user, saving.envelope.version)
  /\ Advance
  /\ UNCHANGED <<vault, versions_mac, backups, stored, interrupted, restored>>

RenameVersionsMac ==
  /\ saving # Idle /\ saving.step = "mac"
  /\ versions_mac' = versions
  /\ Advance
  /\ UNCHANGED <<vault, versions, backups, stored, interrupted, restored>>

\* A crash, or an I/O error that ends the call with Err.
Interrupt ==
  /\ saving # Idle
  /\ saving' = Idle
  /\ interrupted' = interrupted \cup {saving.user}
  /\ UNCHANGED <<vault, versions, versions_mac, backups, stored, acked, restored>>

-----------------------------------------------------------------------------
(* The environment *)

\* A backup of the user's envelope is put back.
Restore(u) ==
  /\ saving = Idle
  /\ \E envelope \in backups[u] :
       /\ vault' = [vault EXCEPT ![u] = envelope]
       /\ backups' = [backups EXCEPT ![u] = @ \cup {vault[u]}]
  /\ restored' = restored \cup {u}
  /\ UNCHANGED <<versions, versions_mac, saving, stored, acked, interrupted>>

StoreNext ==
  \/ \E u \in User : StoreSecret(u) \/ Restore(u)
  \/ RenameEnvelope \/ RenameVersions \/ RenameVersionsMac
  \/ Interrupt

StoreSpec == StoreInit /\ [][StoreNext]_storeVars

-----------------------------------------------------------------------------
(* Properties *)

\* No store that has returned Ok is lost: a vault that loads has every such secret,
\* through crashes and failed stores of any user, and, as long as no store of this
\* user was interrupted, through the return of an old envelope too.
AckedStoresSurvive ==
  \A u \in User : Loads(u) /\ (u \notin restored \/ u \notin interrupted)
                    => acked[u] \subseteq vault[u].data

\* The engine never takes its own crash for a rollback: while the versions can be
\* read, a vault nobody restored loads, at every point of a store.
NeverOwnRollback ==
  \A u \in User : VersionsReadable /\ u \notin restored => Loads(u)

\* "Anti-rollback - reject older versions": a vault that loads is never older than
\* a store that has returned Ok.
NoRollback == \A u \in User : Loads(u) => acked[u] \subseteq vault[u].data
=============================================================================
