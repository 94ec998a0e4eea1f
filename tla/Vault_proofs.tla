------------------------------ MODULE Vault_proofs ------------------------------
(***************************************************************************)
(* Proofs about the security engine.                                       *)
(*                                                                         *)
(* Sessions and keys, for any users, any maximum and any number of logins: *)
(* types, the bound on a user's sessions, the finality of a logout, and    *)
(* that every key in memory belongs to a session, is about to be locked,   *)
(* or was orphaned.                                                        *)
(*                                                                         *)
(* Vault files, for any users and any number of stores: the invariant says *)
(* how far each file is at every step of a store, and that the envelopes   *)
(* of a user none of whose stores was interrupted are told apart by their  *)
(* versions.                                                               *)
(*                                                                         *)
(* The audit log, for any threads, lines, runs and sizes: the numbers that *)
(* threads hold are above their own lines, the counter stays less than one *)
(* save ahead of its file, and the backup followed by the log is the end   *)
(* of the lines.                                                           *)
(***************************************************************************)
EXTENDS VaultSessions, VaultStore, EngineFiles, FiniteNumbers, SequenceTheorems

-----------------------------------------------------------------------------
(* Sessions and keys                                                       *)

\* While a login derives its key, the session it made is in the map, has not
\* expired and was not logged out: that is why the key it adds is accounted for.  And the
\* key of a session that a logout is about to take away is locked already.
LoginInProgress ==
  /\ call.step = "unlock" => made \in sessions /\ expired < made /\ made \notin ended
  /\ call.step \in {"lock", "create"} => made < MaxLogins
  /\ call.step = "invalidate" => call.token \notin keys

\* The inductive invariant.
Inv == TypeOK /\ LoginInProgress /\ LogoutIsFinal /\ KeysAccountedFor

LEMMA InitInv == Init => Inv
<1> SUFFICES ASSUME Init PROVE Inv
  OBVIOUS
<1>1. MaxLogins \in Nat /\ \E u \in User : TRUE
  BY SessionAssumption
<1>2. user_of \in [Token -> User]
  BY <1>1 DEF Init
<1>3. TypeOK
  <2>1. made \in 0..MaxLogins /\ expired \in 0..made
    BY <1>1 DEF Init
  <2>2. /\ sessions \subseteq 1..made /\ keys \subseteq 1..made
        /\ lock_next \subseteq 1..expired /\ sweep_next \subseteq 1..expired
        /\ orphaned \subseteq 1..made /\ ended \subseteq 1..made
    BY DEF Init
  <2>3. call \in {NoCall} /\ lock_next = {} /\ open \in BOOLEAN
    BY DEF Init
  <2> QED
    BY <1>2, <2>1, <2>2, <2>3 DEF TypeOK
<1>4. LoginInProgress /\ LogoutIsFinal /\ KeysAccountedFor
  BY DEF Init, LoginInProgress, LogoutIsFinal, KeysAccountedFor, NoCall
<1> QED
  BY <1>3, <1>4 DEF Inv

\* What is collected has expired.
LEMMA CollectedIsExpired == TypeOK => Lapsed \subseteq 1..expired /\ Lapsed \subseteq sessions
<1> SUFFICES ASSUME TypeOK, NEW t \in Lapsed
             PROVE  t \in 1..expired /\ t \in sessions
  OBVIOUS
<1>1. t \in sessions /\ t <= expired
  BY DEF Lapsed, Expired
<1>2. MaxLogins \in Nat /\ made \in 0..MaxLogins /\ expired \in 0..made /\ t \in 1..made
  BY <1>1, SessionAssumption DEF TypeOK
<1> QED
  BY <1>1, <1>2

LEMMA LoginCollectKeeps ==
  ASSUME Inv, NEW u \in User, LoginCollect(u)
  PROVE  Inv'
<1>1. TypeOK'
  <2>1. Lapsed \subseteq 1..expired
    BY CollectedIsExpired DEF Inv
  <2>2. call' \in [step : {"lock", "create", "unlock"}, user : User] /\ call'.step = "lock"
    BY DEF LoginCollect, Login
  <2> QED
    BY <2>1, <2>2 DEF Inv, TypeOK, LoginCollect, Collected
<1>2. LoginInProgress' /\ LogoutIsFinal' /\ KeysAccountedFor'
  BY DEF Inv, TypeOK, LoginInProgress, LogoutIsFinal, KeysAccountedFor, LoginCollect,
         Login, Collected, Lapsed, NoCall
<1> QED
  BY <1>1, <1>2 DEF Inv

LEMMA LoginLockKeeps ==
  ASSUME Inv, LoginLock
  PROVE  Inv'
<1>1. TypeOK'
  BY DEF Inv, TypeOK, LoginLock
<1>2. LoginInProgress' /\ LogoutIsFinal' /\ KeysAccountedFor'
  BY DEF Inv, TypeOK, LoginInProgress, LogoutIsFinal, KeysAccountedFor, LoginLock
<1> QED
  BY <1>1, <1>2 DEF Inv

LEMMA AuthenticateKeeps ==
  ASSUME Inv, Authenticate
  PROVE  Inv'
<1>1. CASE call' = NoCall /\ UNCHANGED <<sessions, orphaned>>
  BY <1>1 DEF Inv, TypeOK, LoginInProgress, LogoutIsFinal, KeysAccountedFor,
              Authenticate, NoCall
<1>2. CASE /\ call' = [call EXCEPT !.step = "create"]
           /\ sessions' = sessions \ Lapsed
           /\ Orphan(Lapsed)
  <2>1. call' \in [step : {"lock", "create", "unlock"}, user : User] /\ call'.step = "create"
    BY <1>2 DEF Inv, TypeOK, Authenticate, NoCall
  <2>2. TypeOK'
    BY <1>2, <2>1 DEF Inv, TypeOK, Authenticate, Orphan, Lapsed
  <2>3. LoginInProgress' /\ LogoutIsFinal' /\ KeysAccountedFor'
    BY <1>2, <2>1 DEF Inv, LoginInProgress, LogoutIsFinal, KeysAccountedFor,
                      Authenticate, Orphan, Lapsed
  <2> QED
    BY <2>2, <2>3 DEF Inv
<1> QED
  BY <1>1, <1>2 DEF Authenticate

LEMMA CreateSessionKeeps ==
  ASSUME Inv, CreateSession
  PROVE  Inv'
<1>1. call \in [step : {"lock", "create", "unlock"}, user : User]
  BY DEF Inv, TypeOK, CreateSession, NoCall
<1>2. call' \in [step : {"lock", "create", "unlock"}, user : User] /\ call'.step = "unlock"
  BY <1>1 DEF CreateSession
<1>3. Evicted(call.user) \subseteq sessions
  BY DEF Evicted, Own
<1>4. made' \in 0..MaxLogins /\ made' = made + 1
  BY SessionAssumption DEF Inv, TypeOK, LoginInProgress, CreateSession
<1>5. TypeOK'
  BY <1>1, <1>2, <1>3, <1>4, SessionAssumption
     DEF Inv, TypeOK, CreateSession, Orphan, Token
<1>6. made' \in sessions' /\ expired' < made' /\ made' \notin ended'
  BY <1>4 DEF Inv, TypeOK, CreateSession
<1>7. LogoutIsFinal' /\ KeysAccountedFor'
  BY <1>3, <1>4, <1>6 DEF Inv, TypeOK, LogoutIsFinal, KeysAccountedFor, CreateSession, Orphan
<1> QED
  BY <1>2, <1>5, <1>6, <1>7 DEF Inv, LoginInProgress

LEMMA UnlockKeeps ==
  ASSUME Inv, Unlock
  PROVE  Inv'
<1>1. made \in sessions /\ made \notin ended
  BY DEF Inv, LoginInProgress, Unlock
<1>2. TypeOK'
  BY <1>1 DEF Inv, TypeOK, Unlock, NoCall
<1>3. LoginInProgress' /\ LogoutIsFinal' /\ KeysAccountedFor'
  BY <1>1 DEF Inv, LoginInProgress, LogoutIsFinal, KeysAccountedFor, Unlock, NoCall
<1> QED
  BY <1>2, <1>3 DEF Inv

LEMMA LogoutKeeps ==
  ASSUME Inv, NEW t \in Token, Logout(t)
  PROVE  Inv'
<1>1. call' = [step |-> "forget", token |-> t] /\ call = NoCall /\ t \in 1..made
      /\ UNCHANGED <<made, user_of, keys, expired, lock_next, sweep_next, open, ended>>
  BY DEF Logout, Leaving
<1>2. \E S : sessions' = sessions \ S /\ orphaned' = orphaned \cup (S \cap keys)
  BY DEF Logout, Orphan
<1>3. TypeOK'
  BY <1>1, <1>2 DEF Inv, TypeOK, NoCall
<1>4. LoginInProgress'
  BY <1>1 DEF LoginInProgress
<1>5. LogoutIsFinal' /\ KeysAccountedFor'
  BY <1>1, <1>2 DEF Inv, LogoutIsFinal, KeysAccountedFor
<1> QED
  BY <1>3, <1>4, <1>5 DEF Inv

LEMMA LogoutLockKeeps ==
  ASSUME Inv, LogoutLock
  PROVE  Inv'
<1>1. /\ call.step = "forget" /\ keys' = keys \ {call.token}
      /\ call' = [step |-> "invalidate", token |-> call.token]
      /\ UNCHANGED <<made, user_of, sessions, expired, lock_next, sweep_next, open, orphaned, ended>>
  BY DEF LogoutLock, Leaving, KeysWithout
<1>2. call.token \in 1..made
  BY <1>1 DEF Inv, TypeOK, NoCall
<1>3. TypeOK'
  BY <1>1, <1>2 DEF Inv, TypeOK
<1>4. LoginInProgress'
  BY <1>1 DEF LoginInProgress
<1>5. LogoutIsFinal' /\ KeysAccountedFor'
  BY <1>1 DEF Inv, LogoutIsFinal, KeysAccountedFor
<1> QED
  BY <1>3, <1>4, <1>5 DEF Inv

LEMMA LogoutInvalidateKeeps ==
  ASSUME Inv, LogoutInvalidate
  PROVE  Inv'
<1>1. /\ call.step = "invalidate" /\ call' = [step |-> "none"]
      /\ sessions' = sessions \ {call.token} /\ ended' = ended \cup {call.token}
      /\ UNCHANGED <<made, user_of, keys, expired, lock_next, sweep_next, open, orphaned>>
  BY DEF LogoutInvalidate, NoCall
<1>2. call.token \in 1..made /\ call.token \notin keys
  BY <1>1 DEF Inv, TypeOK, NoCall, LoginInProgress
<1>3. TypeOK'
  BY <1>1, <1>2 DEF Inv, TypeOK, NoCall
<1>4. LoginInProgress'
  BY <1>1 DEF LoginInProgress
<1>5. LogoutIsFinal' /\ KeysAccountedFor'
  BY <1>1, <1>2 DEF Inv, LogoutIsFinal, KeysAccountedFor
<1> QED
  BY <1>3, <1>4, <1>5 DEF Inv

LEMMA GetSessionKeeps ==
  ASSUME Inv, NEW t \in Token, GetSession(t)
  PROVE  Inv'
<1>1. TypeOK'
  BY DEF Inv, TypeOK, GetSession, Orphan
<1>2. LoginInProgress' /\ LogoutIsFinal' /\ KeysAccountedFor'
  BY DEF Inv, LoginInProgress, LogoutIsFinal, KeysAccountedFor, GetSession, Orphan, NoCall
<1> QED
  BY <1>1, <1>2 DEF Inv

LEMMA DropKeeps ==
  ASSUME Inv, Drop
  PROVE  Inv'
<1>1. TypeOK'
  BY DEF Inv, TypeOK, Drop
<1>2. LoginInProgress' /\ LogoutIsFinal' /\ KeysAccountedFor'
  BY DEF Inv, LoginInProgress, LogoutIsFinal, KeysAccountedFor, Drop, NoCall
<1> QED
  BY <1>1, <1>2 DEF Inv

LEMMA SweepKeeps ==
  ASSUME Inv, SweepCollect \/ SweepLock
  PROVE  Inv'
<1>1. CASE SweepCollect
  <2>1. TypeOK'
    BY <1>1, CollectedIsExpired DEF Inv, TypeOK, SweepCollect, Collected
  <2>2. LoginInProgress'
    BY <1>1 DEF Inv, TypeOK, LoginInProgress, SweepCollect, Lapsed, Expired
  <2>3. LogoutIsFinal' /\ KeysAccountedFor'
    BY <1>1 DEF Inv, LogoutIsFinal, KeysAccountedFor, SweepCollect, Collected, Lapsed
  <2> QED
    BY <2>1, <2>2, <2>3 DEF Inv
<1>2. CASE SweepLock
  <2>1. TypeOK'
    BY <1>2 DEF Inv, TypeOK, SweepLock
  <2>2. LoginInProgress' /\ LogoutIsFinal' /\ KeysAccountedFor'
    BY <1>2 DEF Inv, LoginInProgress, LogoutIsFinal, KeysAccountedFor, SweepLock
  <2> QED
    BY <2>1, <2>2 DEF Inv
<1> QED
  BY <1>1, <1>2

LEMMA ExpireKeeps ==
  ASSUME Inv, Expire
  PROVE  Inv'
<1>1. TypeOK'
  BY SessionAssumption DEF Inv, TypeOK, Expire
<1>2. LoginInProgress' /\ LogoutIsFinal' /\ KeysAccountedFor'
  BY DEF Inv, TypeOK, LoginInProgress, LogoutIsFinal, KeysAccountedFor, Expire
<1> QED
  BY <1>1, <1>2 DEF Inv

LEMMA StepKeeps == Inv /\ [Next]_vars => Inv'
<1> SUFFICES ASSUME Inv, [Next]_vars PROVE Inv'
  OBVIOUS
<1>1. CASE \E u \in User : LoginCollect(u)
  BY <1>1, LoginCollectKeeps
<1>2. CASE LoginLock \/ Authenticate \/ CreateSession \/ Unlock
  BY <1>2, LoginLockKeeps, AuthenticateKeeps, CreateSessionKeeps, UnlockKeeps
<1>3. CASE \E t \in Token : Logout(t) \/ GetSession(t)
  BY <1>3, LogoutKeeps, GetSessionKeeps
<1>4. CASE Drop \/ SweepCollect \/ SweepLock \/ Expire
  BY <1>4, DropKeeps, SweepKeeps, ExpireKeeps
<1>5. CASE LogoutLock \/ LogoutInvalidate
  BY <1>5, LogoutLockKeeps, LogoutInvalidateKeeps
<1>6. CASE UNCHANGED vars
  BY <1>6 DEF vars, Inv, TypeOK, LoginInProgress, LogoutIsFinal, KeysAccountedFor
<1> QED
  BY <1>1, <1>2, <1>3, <1>4, <1>5, <1>6 DEF Next

LEMMA Invariance == Spec => []Inv
<1>1. Inv /\ [Next]_vars => Inv'
  BY StepKeeps
<1> QED
  BY InitInv, <1>1, PTL DEF Spec

-----------------------------------------------------------------------------

\* A set of tokens within another is no larger.
LEMMA SessionsFinite ==
  ASSUME TypeOK, NEW S \in SUBSET sessions, NEW T \in SUBSET S
  PROVE  /\ IsFiniteSet(S) /\ Cardinality(S) \in Nat
         /\ IsFiniteSet(T) /\ Cardinality(T) \in Nat /\ Cardinality(T) <= Cardinality(S)
<1>1. made \in Nat /\ IsFiniteSet(1..made) /\ S \in SUBSET (1..made)
  <2>1. made \in 0..MaxLogins /\ sessions \subseteq 1..made
    BY DEF TypeOK
  <2> QED
    BY <2>1, SessionAssumption, FS_Interval
<1>2. IsFiniteSet(S)
  BY <1>1, FS_Subset
<1> QED
  BY <1>2, FS_Subset, FS_CardinalityType

\* An eviction leaves room for one: those that stay are not older than the oldest of them,
\* and it stayed because there were less than the maximum of those.
LEMMA EvictionLeavesRoom ==
  ASSUME TypeOK, NEW u \in User
  PROVE  Cardinality(Own(u) \ Evicted(u)) <= MaxPerUser - 1
<1> DEFINE K == Own(u) \ Evicted(u)
           since(t) == {s \in Own(u) : s >= t}
<1>1. MaxPerUser \in Nat \ {0} /\ made \in Nat
  BY SessionAssumption DEF TypeOK
<1>2. Own(u) \in SUBSET sessions /\ K \in SUBSET Own(u)
  BY DEF Own
<1>3. \A t \in K : Cardinality(since(t)) \in Nat /\ IsFiniteSet(since(t))
  <2> TAKE t \in K
  <2>1. since(t) \in SUBSET Own(u)
    OBVIOUS
  <2> HIDE DEF since, K
  <2> QED
    BY <1>2, <2>1, SessionsFinite
<1>4. \A t \in K : Cardinality(since(t)) <= MaxPerUser - 1
  BY <1>1, <1>3 DEF Evicted
<1> HIDE DEF K, since
<1>5. K \subseteq Nat /\ IsFiniteSet(K)
  <2>1. IsFiniteSet(K)
    BY <1>2, SessionsFinite
  <2>2. \A k \in K : k \in 1..made
    BY <1>2 DEF TypeOK
  <2> QED
    BY <1>1, <2>1, <2>2
<1>6. CASE K = {}
  BY <1>1, <1>6, FS_EmptySet DEF K
<1>7. CASE K # {}
  <2>1. PICK t \in K : \A k \in K : t <= k
    BY <1>5, <1>7, Smallest
  <2>2. \A k \in K : k \in since(t)
    BY <1>2, <1>5, <2>1 DEF since
  <2>3. Cardinality(K) <= Cardinality(since(t)) /\ Cardinality(K) \in Nat
    BY <1>3, <1>5, <2>2, FS_Subset, FS_CardinalityType
  <2> QED
    BY <1>1, <1>3, <1>4, <2>1, <2>3 DEF K
<1> QED
  BY <1>6, <1>7

LEMMA BoundInit == Init => SessionsBounded
<1> SUFFICES ASSUME Init, NEW u \in User PROVE Cardinality(Own(u)) <= MaxPerUser
  BY DEF SessionsBounded
<1>1. Own(u) = {}
  BY DEF Init, Own
<1> QED
  BY <1>1, FS_EmptySet, SessionAssumption

\* Only create_session adds a session, and it makes room first.
LEMMA BoundKept ==
  ASSUME Inv, SessionsBounded, [Next]_vars
  PROVE  SessionsBounded'
<1>1. CASE CreateSession
  <2> SUFFICES ASSUME NEW u \in User PROVE Cardinality(Own(u)') <= MaxPerUser
    BY DEF SessionsBounded
  <2> DEFINE rest == IF u = call.user THEN Own(u) \ Evicted(u) ELSE Own(u)
  <2>1. /\ sessions \subseteq 1..made /\ made \in Nat /\ TypeOK /\ made + 1 \in Token
        /\ user_of \in [Token -> User]
    BY SessionAssumption, <1>1 DEF Inv, TypeOK, LoginInProgress, CreateSession, Token
  <2>2. \A t \in sessions : user_of'[t] = user_of[t]
    BY <1>1, <2>1 DEF CreateSession, Token
  <2>3. user_of'[made + 1] = call.user
    BY <1>1, <2>1 DEF CreateSession
  <2>4. sessions' = (sessions \ Evicted(call.user)) \cup {made + 1}
    BY <1>1 DEF CreateSession
  <2>5. rest \in SUBSET Own(u) /\ Own(u) \in SUBSET sessions
    BY DEF Own
  <2>6. IsFiniteSet(rest) /\ Cardinality(rest) \in Nat /\ Cardinality(rest) <= Cardinality(Own(u))
        /\ Cardinality(Own(u)) \in Nat
    <3> HIDE DEF rest
    <3> QED
      BY <2>1, <2>5, SessionsFinite
  <2>7. CASE u = call.user
    <3>1. Own(u)' = rest \cup {made + 1}
      BY <2>2, <2>3, <2>4, <2>7 DEF Own, Evicted
    <3>2. Cardinality(rest) <= MaxPerUser - 1
      BY <2>1, <2>7, EvictionLeavesRoom
    <3> HIDE DEF rest
    <3>3. Cardinality(rest \cup {made + 1}) <= Cardinality(rest) + 1
          /\ Cardinality(rest \cup {made + 1}) \in Nat
      <4>1. /\ IsFiniteSet(rest \cup {made + 1})
            /\ \/ Cardinality(rest \cup {made + 1}) = Cardinality(rest)
               \/ Cardinality(rest \cup {made + 1}) = Cardinality(rest) + 1
        BY <2>6, FS_AddElement
      <4> QED
        BY <2>6, <4>1
    <3> QED
      BY <2>6, <3>1, <3>2, <3>3, SessionAssumption
  <2>8. CASE u # call.user
    <3>1. \A t \in Own(u)' : t \in Own(u)
      BY <2>2, <2>3, <2>4, <2>8 DEF Own
    <3>2. Cardinality(Own(u)) <= MaxPerUser
      BY DEF SessionsBounded
    <3>3. PICK after : after = Own(u)'
      OBVIOUS
    <3>4. after \in SUBSET Own(u)
      BY <3>1, <3>3
    <3>5. Cardinality(after) <= Cardinality(Own(u)) /\ Cardinality(after) \in Nat
      BY <2>1, <2>5, <3>4, SessionsFinite
    <3> QED
      BY <2>6, <3>2, <3>3, <3>5, SessionAssumption
  <2> QED
    BY <2>7, <2>8
<1>2. ASSUME sessions' \subseteq sessions, user_of' = user_of PROVE SessionsBounded'
  <2> SUFFICES ASSUME NEW u \in User PROVE Cardinality(Own(u)') <= MaxPerUser
    BY DEF SessionsBounded
  <2>1. PICK after : after = Own(u)'
    OBVIOUS
  <2>2. after \in SUBSET Own(u) /\ Own(u) \in SUBSET sessions
    BY <1>2, <2>1 DEF Own
  <2>3. /\ Cardinality(after) <= Cardinality(Own(u))
        /\ Cardinality(after) \in Nat /\ Cardinality(Own(u)) \in Nat
    BY <2>2, SessionsFinite DEF Inv
  <2>4. Cardinality(Own(u)) <= MaxPerUser
    BY DEF SessionsBounded
  <2> QED
    BY <2>1, <2>3, <2>4, SessionAssumption
<1>3. ASSUME Next, ~CreateSession PROVE sessions' \subseteq sessions /\ user_of' = user_of
  BY <1>3 DEF Next, LoginCollect, LoginLock, Authenticate, Unlock, Logout, LogoutLock, LogoutInvalidate,
     GetSession, Drop,
     SweepCollect, SweepLock, Expire
<1>4. CASE UNCHANGED vars
  BY <1>2, <1>4 DEF vars
<1> QED
  BY <1>1, <1>2, <1>3, <1>4

-----------------------------------------------------------------------------

\* Sessions, keys and the two lists of keys to lock name only tokens that were
\* made, and only login and the sweeper hold expired ones to lock (session.rs).
THEOREM SessionTyping == Spec => []TypeOK
<1>1. Inv => TypeOK
  BY DEF Inv
<1> QED
  BY Invariance, <1>1, PTL

\* However logins, expiry, the sweeper and logouts interleave, no user ever has more than
\* the maximum of sessions: create_session evicts enough of the oldest (session.rs).
THEOREM SessionsStayBounded == Spec => []SessionsSound
<1>1. Inv /\ SessionsBounded /\ [Next]_vars => SessionsBounded'
  BY BoundKept
<1>2. Inv => TypeOK
  BY DEF Inv
<1> QED
  BY Invariance, BoundInit, <1>1, <1>2, PTL DEF Spec, SessionsSound

\* logout of lib.rs is final: no interleaving with the sweeper, no later login and
\* no expiry gives a logged out token a session or a key again.
THEOREM LogoutHolds == Spec => []LogoutIsFinal
<1>1. Inv => LogoutIsFinal
  BY DEF Inv
<1> QED
  BY Invariance, <1>1, PTL

\* A key stays in active_keys of vault.rs without a session only between the
\* collection of an expired session and its lock, or when it was orphaned.
THEOREM NoOtherKeyStays == Spec => []KeysAccountedFor
<1>1. Inv => KeysAccountedFor
  BY DEF Inv
<1> QED
  BY Invariance, <1>1, PTL

-----------------------------------------------------------------------------
(* Vault files                                                             *)

Shape ==
  /\ vault \in [User -> Envelopes]
  /\ backups \in [User -> SUBSET Envelopes]
  /\ acked \in [User -> SUBSET Nat]
  /\ stored \in Nat
  /\ versions \in [User -> Nat] \cup {Absent}
  /\ saving # Idle => saving \in Calls

\* How far the files are when a store is at each of its steps.
Underway ==
  saving # Idle =>
    /\ saving.envelope.version > 0
    /\ saving.step = "envelope" =>
         /\ saving.envelope.version = KnownVersion(saving.user) + 1
         /\ saving.envelope.data = vault[saving.user].data \cup {saving.secret}
    /\ saving.step # "envelope" =>
         /\ vault[saving.user] = saving.envelope
         /\ saving.secret \in saving.envelope.data
    /\ saving.step = "versions" => saving.envelope.version = KnownVersion(saving.user) + 1
    /\ saving.step = "mac" => saving.envelope.version = KnownVersion(saving.user)

\* A vault nobody restored is never behind its known version, and loses nothing.
Rising(u) ==
  u \notin restored => /\ vault[u].version >= KnownVersion(u)
                       /\ acked[u] \subseteq vault[u].data

At(u, step) == saving # Idle /\ saving.user = u /\ saving.step = step

\* An envelope is the latest, and complete, or below the known version.
Complete(u, envelope) ==
  /\ envelope.version <= KnownVersion(u)
  /\ envelope.version = KnownVersion(u) => acked[u] \subseteq envelope.data

Numbered(u) ==
  u \notin interrupted =>
    /\ \A e \in backups[u] : Complete(u, e)
    /\ At(u, "mac") => \A e \in backups[u] : e.version < KnownVersion(u)
    /\ ~At(u, "versions") => Complete(u, vault[u])
    /\ saving # Idle /\ saving.user = u => acked[u] \subseteq saving.envelope.data

Fresh(u) ==
  /\ vault[u].version > 0 \/ (vault[u] = NoVault /\ backups[u] = {} /\ acked[u] = {})
  /\ \A e \in backups[u] : e.version > 0

StoreInv == Shape /\ Underway /\ \A u \in User : Rising(u) /\ Numbered(u) /\ Fresh(u)

-----------------------------------------------------------------------------
(* The known versions *)

LEMMA KnownType == ASSUME Shape, NEW u \in User PROVE KnownVersion(u) \in Nat
  BY DEF Shape, KnownVersion, KnownVersions, Content

LEMMA KnownSame == ASSUME UNCHANGED versions, NEW u PROVE KnownVersion(u)' = KnownVersion(u)
  BY DEF KnownVersion, KnownVersions, Content

\* set_vault_version changes the version of one user.
LEMMA KnownAfter ==
  ASSUME Shape, NEW u \in User, NEW version \in Nat, versions' = WithVersion(u, version)
  PROVE  /\ versions' \in [User -> Nat]
         /\ KnownVersion(u)' = version
         /\ \A w \in User \ {u} : KnownVersion(w)' = KnownVersion(w)
<1> DEFINE content == KnownVersions
<1>1. content \in [User -> Nat]
  BY DEF Shape, KnownVersions, Content
<1>2. versions' = [content EXCEPT ![u] = version]
  BY DEF WithVersion
<1>3. \A w \in User : KnownVersion(w) = content[w]
  BY DEF KnownVersion
<1> HIDE DEF content
<1>4. versions' \in [User -> Nat]
  BY <1>1, <1>2
<1>5. \A w \in User : KnownVersion(w)' = versions'[w]
  BY <1>4, AbsentAssumption DEF KnownVersion, KnownVersions, Content
<1> QED BY <1>1, <1>2, <1>3, <1>4, <1>5

\* What the order of the renames comes to, step by step.
LEMMA AdvanceCases ==
  ASSUME Advance, saving # Idle
  PROVE  /\ saving.step \in {"envelope", "versions"} =>
              /\ saving' = [saving EXCEPT !.step = IF saving.step = "envelope" THEN "versions" ELSE "mac"]
              /\ UNCHANGED acked
         /\ saving.step = "mac" =>
              /\ saving' = Idle
              /\ acked' = [acked EXCEPT ![saving.user] = @ \cup {saving.secret}]
  BY DEF Advance, Order

-----------------------------------------------------------------------------
(* The steps *)

LEMMA InitStore == StoreInit => StoreInv
<1> SUFFICES ASSUME StoreInit PROVE StoreInv
  OBVIOUS
<1>1. Shape
  BY DEF StoreInit, Shape, NoVault, Envelope, Envelopes
<1>2. Underway
  BY DEF StoreInit, Underway
<1>3. ASSUME NEW u \in User PROVE Rising(u) /\ Numbered(u) /\ Fresh(u)
  <2>1. KnownVersion(u) = 0
    BY DEF StoreInit, KnownVersion, KnownVersions, Content
  <2>2. vault[u].version = 0 /\ acked[u] = {} /\ backups[u] = {} /\ vault[u] = NoVault
    BY DEF StoreInit, NoVault, Envelope
  <2> QED BY <2>1, <2>2 DEF StoreInit, Rising, Numbered, Fresh, Complete, At
<1> QED BY <1>1, <1>2, <1>3 DEF StoreInv

LEMMA StoreSecretStep ==
  ASSUME StoreInv, NEW u \in User, StoreSecret(u) PROVE StoreInv'
<1>1. Shape /\ UNCHANGED <<vault, versions, backups, acked, interrupted, restored>>
  BY DEF StoreInv, StoreSecret
<1>2. KnownVersion(u) \in Nat /\ vault[u] \in Envelopes
  BY <1>1, KnownType DEF Shape
<1> DEFINE envelope == Envelope(KnownVersion(u) + 1, vault[u].data \cup {stored + 1})
<1>3. saving' = [user |-> u, secret |-> stored + 1, step |-> "envelope", envelope |-> envelope]
  BY DEF StoreSecret, Order
<1>4. /\ envelope \in Envelopes
      /\ envelope.version = KnownVersion(u) + 1
      /\ envelope.data = vault[u].data \cup {stored + 1}
  BY <1>1, <1>2 DEF Envelope, Envelopes, Shape
<1> HIDE DEF envelope
<1>5. Shape'
  BY <1>1, <1>3, <1>4 DEF Shape, Calls, StoreSecret
<1>6. Underway'
  BY <1>1, <1>2, <1>3, <1>4, KnownSame DEF Underway
<1>7. ASSUME NEW w \in User PROVE (Rising(w) /\ Numbered(w) /\ Fresh(w))'
  <2>1. Rising(w) /\ Numbered(w) /\ Fresh(w) /\ KnownVersion(w)' = KnownVersion(w)
    BY <1>1, KnownSame DEF StoreInv
  <2>2. ~At(w, "versions") /\ ~At(w, "versions")' /\ ~At(w, "mac")'
    BY <1>3 DEF At, StoreSecret
  <2>3. ASSUME w = u, w \notin interrupted PROVE acked[w] \subseteq envelope.data
    <3>1. CASE vault[u] = NoVault
      BY <2>1, <2>3, <3>1 DEF Fresh, NoVault, Envelope
    <3>2. CASE vault[u].version >= KnownVersion(u)
      <4>1. vault[u].version = KnownVersion(u)
        BY <1>2, <2>1, <2>2, <2>3, <3>2 DEF Numbered, Complete, Envelopes
      <4> QED BY <1>4, <2>1, <2>2, <2>3, <4>1 DEF Numbered, Complete
    <3> QED BY <3>1, <3>2 DEF StoreSecret, Loads, NotRolledBack
  <2>4. saving'.user = u /\ saving'.envelope = envelope
    BY <1>3
  <2> QED BY <1>1, <2>1, <2>2, <2>3, <2>4 DEF Rising, Numbered, Fresh, Complete
<1> QED BY <1>5, <1>6, <1>7 DEF StoreInv

LEMMA RenameEnvelopeStep == ASSUME StoreInv, RenameEnvelope PROVE StoreInv'
<1> DEFINE u == saving.user
<1> DEFINE envelope == saving.envelope
<1>1. /\ Shape /\ Underway /\ saving # Idle /\ saving \in Calls /\ saving.step = "envelope"
      /\ UNCHANGED <<versions, stored, interrupted, restored, acked>>
      /\ saving' = [saving EXCEPT !.step = "versions"]
      /\ vault' = [vault EXCEPT ![u] = envelope]
      /\ backups' = [backups EXCEPT ![u] = (@ \cup {vault[u]}) \ {NoVault}]
  BY AdvanceCases DEF StoreInv, RenameEnvelope, Shape
<1>2. /\ u \in User /\ envelope \in Envelopes /\ KnownVersion(u) \in Nat
      /\ envelope.version = KnownVersion(u) + 1
      /\ envelope.data = vault[u].data \cup {saving.secret}
  BY <1>1, KnownType DEF Calls, Underway
<1>3. /\ saving' \in Calls /\ saving'.step = "versions" /\ saving'.user = u
      /\ saving'.envelope = envelope /\ saving'.secret = saving.secret
  BY <1>1 DEF Calls
<1>4. vault'[u] = envelope /\ backups'[u] = (backups[u] \cup {vault[u]}) \ {NoVault}
  BY <1>1, <1>2 DEF Shape
<1> HIDE DEF u, envelope
<1>5. Shape'
  BY <1>1, <1>2, <1>3 DEF Shape
<1>6. Underway'
  BY <1>2, <1>3, <1>4, <1>1, KnownSame DEF Underway
<1>7. ASSUME NEW w \in User PROVE (Rising(w) /\ Numbered(w) /\ Fresh(w))'
  <2>1. Rising(w) /\ Numbered(w) /\ Fresh(w) /\ KnownVersion(w)' = KnownVersion(w)
    BY <1>1, KnownSame DEF StoreInv
  <2>2. CASE w # u
    <3>1. vault'[w] = vault[w] /\ backups'[w] = backups[w]
      BY <1>1, <2>2 DEF Shape
    <3>2. ~At(w, "versions") /\ ~At(w, "versions")' /\ ~At(w, "mac")'
      BY <1>1, <1>3, <2>2 DEF At, u
    <3> QED BY <1>1, <2>1, <3>1, <3>2 DEF Rising, Numbered, Fresh, Complete
  <2>3. CASE w = u
    <3>1. At(w, "versions")' /\ ~At(w, "mac")' /\ ~At(w, "versions")
      BY <1>1, <1>3, <2>3, IdleAssumption DEF At, u
    <3>2. /\ vault'[w] = envelope /\ backups'[w] = (backups[w] \cup {vault[w]}) \ {NoVault}
          /\ envelope.version = KnownVersion(w) + 1 /\ KnownVersion(w) \in Nat
          /\ vault[w].data \subseteq envelope.data
      BY <1>2, <1>4, <2>3
    <3>3. Rising(w)'
      BY <1>1, <2>1, <3>2 DEF Rising
    <3>4. Numbered(w)'
      BY <1>1, <2>1, <3>1, <3>2 DEF Numbered, Complete
    <3>5. Fresh(w)'
      BY <1>1, <2>1, <3>2 DEF Fresh
    <3> QED BY <3>3, <3>4, <3>5
  <2> QED BY <2>2, <2>3
<1> QED BY <1>5, <1>6, <1>7 DEF StoreInv

LEMMA RenameVersionsStep == ASSUME StoreInv, RenameVersions PROVE StoreInv'
<1>1. /\ Shape /\ Underway /\ saving # Idle /\ saving \in Calls /\ saving.step = "versions"
      /\ UNCHANGED <<vault, backups, stored, interrupted, restored, acked>>
      /\ saving' = [saving EXCEPT !.step = "mac"]
      /\ versions' = WithVersion(saving.user, saving.envelope.version)
  BY AdvanceCases DEF StoreInv, RenameVersions, Shape
<1>2. PICK u \in User, envelope \in Envelopes : u = saving.user /\ envelope = saving.envelope
  BY <1>1 DEF Calls
<1>3. /\ KnownVersion(u) \in Nat /\ envelope.version = KnownVersion(u) + 1
      /\ vault[u] = envelope /\ saving.secret \in envelope.data
  BY <1>1, <1>2, KnownType DEF Underway
<1>4. /\ saving' \in Calls /\ saving'.step = "mac" /\ saving'.user = u
      /\ saving'.envelope = envelope /\ saving'.secret = saving.secret
  BY <1>1, <1>2 DEF Calls
<1>5. /\ versions' \in [User -> Nat] /\ KnownVersion(u)' = envelope.version
      /\ \A w \in User \ {u} : KnownVersion(w)' = KnownVersion(w)
  <2>1. envelope.version \in Nat /\ versions' = WithVersion(u, envelope.version)
    BY <1>1, <1>2 DEF Envelopes
  <2> QED BY <1>1, <2>1, KnownAfter
<1>6. Shape'
  BY <1>1, <1>4, <1>5 DEF Shape
<1>7. Underway'
  <2>1. KnownVersion(saving.user)' = envelope.version
    BY <1>4, <1>5 DEF KnownVersion
  <2> QED BY <1>1, <1>3, <1>4, <2>1 DEF Underway
<1>8. ASSUME NEW w \in User PROVE (Rising(w) /\ Numbered(w) /\ Fresh(w))'
  <2>1. Rising(w) /\ Numbered(w) /\ Fresh(w)
    BY DEF StoreInv
  <2>2. CASE w # u
    <3>1. ~At(w, "versions") /\ ~At(w, "versions")' /\ ~At(w, "mac")'
      BY <1>1, <1>2, <1>4, <2>2 DEF At
    <3>2. KnownVersion(w)' = KnownVersion(w)
      BY <1>5, <2>2
    <3> QED BY <1>1, <2>1, <3>1, <3>2 DEF Rising, Numbered, Fresh, Complete
  <2>3. CASE w = u
    <3>1. ~At(w, "versions")'
      BY <1>4 DEF At
    <3>2. KnownVersion(w)' = KnownVersion(w) + 1 /\ vault[w].version = KnownVersion(w) + 1
      BY <1>3, <1>5, <2>3
    <3>3. Rising(w)'
      BY <1>1, <1>3, <2>1, <2>3, <3>2 DEF Rising
    <3>4. Numbered(w)'
      <4>1. ASSUME w \notin interrupted, w \in interrupted' PROVE FALSE
        BY <1>1, <4>1
      <4>2. ASSUME w \notin interrupted, NEW e \in backups[w]
            PROVE  e.version \in Nat /\ e.version < KnownVersion(w)'
        <5>1. e.version \in Nat
          BY <1>1, <4>2 DEF Shape, Envelopes
        <5>2. e.version <= KnownVersion(w)
          BY <2>1, <4>2 DEF Numbered, Complete
        <5> QED BY <1>3, <2>3, <3>2, <5>1, <5>2
      <4>3. ASSUME w \notin interrupted PROVE acked[w] \subseteq vault[w].data
        BY <1>1, <1>2, <1>3, <2>1, <2>3, <4>3 DEF Numbered
      <4>4. saving'.envelope = vault[w] /\ UNCHANGED <<vault, acked, backups, interrupted>>
        BY <1>1, <1>3, <1>4, <2>3
      <4>5. w \notin interrupted => \A e \in backups[w] : Complete(w, e)'
        BY <1>3, <2>3, <3>2, <4>2, <4>4 DEF Complete
      <4>6. w \notin interrupted => Complete(w, vault[w])'
        BY <1>3, <2>3, <3>2, <4>3, <4>4 DEF Complete
      <4> QED BY <4>2, <4>3, <4>4, <4>5, <4>6 DEF Numbered
    <3>5. Fresh(w)'
      BY <1>1, <2>1 DEF Fresh
    <3> QED BY <3>3, <3>4, <3>5
  <2> QED BY <2>2, <2>3
<1> QED BY <1>6, <1>7, <1>8 DEF StoreInv

LEMMA RenameVersionsMacStep == ASSUME StoreInv, RenameVersionsMac PROVE StoreInv'
<1>1. /\ Shape /\ Underway /\ saving # Idle /\ saving \in Calls /\ saving.step = "mac"
      /\ UNCHANGED <<vault, versions, backups, stored, interrupted, restored>>
      /\ saving' = Idle
      /\ acked' = [acked EXCEPT ![saving.user] = @ \cup {saving.secret}]
  BY AdvanceCases DEF StoreInv, RenameVersionsMac, Shape
<1>2. PICK u \in User, secret \in Nat : u = saving.user /\ secret = saving.secret
  BY <1>1 DEF Calls
<1>3. /\ KnownVersion(u) \in Nat /\ vault[u].version = KnownVersion(u)
      /\ vault[u].version > 0 /\ secret \in vault[u].data
  BY <1>1, <1>2, KnownType DEF Underway
<1>4. /\ acked'[u] = acked[u] \cup {secret}
      /\ \A w \in User \ {u} : acked'[w] = acked[w]
  BY <1>1, <1>2 DEF Shape
<1>5. Shape'
  BY <1>1, <1>2 DEF Shape
<1>6. Underway'
  BY <1>1 DEF Underway
<1>7. ASSUME NEW w \in User PROVE (Rising(w) /\ Numbered(w) /\ Fresh(w))'
  <2>1. /\ Rising(w) /\ Numbered(w) /\ Fresh(w) /\ KnownVersion(w)' = KnownVersion(w)
        /\ ~At(w, "versions") /\ ~At(w, "versions")' /\ ~At(w, "mac")'
    BY <1>1, KnownSame DEF StoreInv, At
  <2>2. CASE w # u
    BY <1>1, <1>4, <2>1, <2>2 DEF Rising, Numbered, Fresh, Complete
  <2>3. CASE w = u
    <3>1. Rising(w)'
      BY <1>1, <1>3, <1>4, <2>1, <2>3 DEF Rising
    <3>2. Numbered(w)'
      <4>1. w \notin interrupted => \A e \in backups[w] : e.version < KnownVersion(w)
        BY <1>1, <1>2, <2>1, <2>3 DEF Numbered, At
      <4>2. \A e \in backups[w] : e.version \in Nat
        BY <1>1 DEF Shape, Envelopes
      <4>3. w \notin interrupted => \A e \in backups[w] : Complete(w, e)'
        BY <1>1, <1>3, <2>1, <2>3, <4>1, <4>2 DEF Complete
      <4>4. w \notin interrupted => Complete(w, vault[w])'
        BY <1>1, <1>3, <1>4, <2>1, <2>3 DEF Complete, Numbered
      <4> QED BY <1>1, <2>1, <4>3, <4>4 DEF Numbered
    <3>3. Fresh(w)'
      BY <1>1, <1>3, <2>1, <2>3 DEF Fresh
    <3> QED BY <3>1, <3>2, <3>3
  <2> QED BY <2>2, <2>3
<1> QED BY <1>5, <1>6, <1>7 DEF StoreInv

LEMMA InterruptStep == ASSUME StoreInv, Interrupt PROVE StoreInv'
<1>1. /\ Shape /\ saving # Idle /\ saving' = Idle
      /\ interrupted' = interrupted \cup {saving.user}
      /\ UNCHANGED <<vault, versions, backups, stored, acked, restored>>
  BY DEF StoreInv, Interrupt
<1>2. Shape' /\ Underway'
  BY <1>1 DEF Shape, Underway
<1>3. ASSUME NEW w \in User PROVE (Rising(w) /\ Numbered(w) /\ Fresh(w))'
  <2>1. /\ Rising(w) /\ Numbered(w) /\ Fresh(w) /\ KnownVersion(w)' = KnownVersion(w)
        /\ ~At(w, "versions")' /\ ~At(w, "mac")'
    BY <1>1, KnownSame DEF StoreInv, At
  <2>2. w \notin interrupted' => w \notin interrupted /\ ~At(w, "versions")
    BY <1>1 DEF At
  <2> QED BY <1>1, <2>1, <2>2 DEF Rising, Numbered, Fresh, Complete
<1> QED BY <1>2, <1>3 DEF StoreInv

LEMMA RestoreStep == ASSUME StoreInv, NEW u \in User, Restore(u) PROVE StoreInv'
<1>1. PICK envelope \in backups[u] :
        /\ vault' = [vault EXCEPT ![u] = envelope]
        /\ backups' = [backups EXCEPT ![u] = @ \cup {vault[u]}]
  BY DEF Restore
<1>2. /\ Shape /\ saving = Idle /\ restored' = restored \cup {u}
      /\ UNCHANGED <<versions, saving, stored, acked, interrupted>>
  BY DEF StoreInv, Restore
<1>3. Shape' /\ Underway'
  BY <1>1, <1>2 DEF Shape, Underway
<1>4. ASSUME NEW w \in User PROVE (Rising(w) /\ Numbered(w) /\ Fresh(w))'
  <2>1. /\ Rising(w) /\ Numbered(w) /\ Fresh(w) /\ KnownVersion(w)' = KnownVersion(w)
        /\ \A step : ~At(w, step) /\ ~At(w, step)'
    BY <1>2, KnownSame DEF StoreInv, At
  <2>2. CASE w # u
    <3>1. vault'[w] = vault[w] /\ backups'[w] = backups[w]
      BY <1>1, <1>2, <2>2 DEF Shape
    <3> QED BY <1>2, <2>1, <2>2, <3>1 DEF Rising, Numbered, Fresh, Complete
  <2>3. CASE w = u
    <3>1. vault'[w] = envelope /\ backups'[w] = backups[w] \cup {vault[w]} /\ envelope \in backups[w]
      BY <1>1, <1>2, <2>3 DEF Shape
    <3>2. Rising(w)'
      BY <1>2, <2>3 DEF Rising
    <3>3. Numbered(w)'
      BY <1>2, <2>1, <3>1 DEF Numbered, Complete
    <3>4. Fresh(w)'
      BY <1>2, <2>1, <3>1 DEF Fresh
    <3> QED BY <3>2, <3>3, <3>4
  <2> QED BY <2>2, <2>3
<1> QED BY <1>3, <1>4 DEF StoreInv

LEMMA NextStore == StoreInv /\ [StoreNext]_storeVars => StoreInv'
<1>1. ASSUME StoreInv, UNCHANGED storeVars PROVE StoreInv'
  BY <1>1, KnownSame DEF storeVars, StoreInv, Shape, Underway, Rising, Numbered, Fresh, Complete, At
<1> QED BY <1>1, StoreSecretStep, RenameEnvelopeStep, RenameVersionsStep,
           RenameVersionsMacStep, InterruptStep, RestoreStep DEF StoreNext

LEMMA StoreAlways == StoreSpec => []StoreInv
  BY InitStore, NextStore, PTL DEF StoreSpec

-----------------------------------------------------------------------------
(* What it gives *)

\* No interruption of a store makes the engine refuse a vault that nobody put back,
\* as long as the versions can be read.
THEOREM OwnCrashIsNoRollback == StoreSpec => []NeverOwnRollback
<1>1. StoreInv => NeverOwnRollback
  BY DEF StoreInv, Rising, NeverOwnRollback, Loads, NotRolledBack
<1> QED BY <1>1, StoreAlways, PTL

\* A vault that loads has every acknowledged secret of its user, through the
\* interrupted stores of anybody; and the return of an old envelope does not change
\* that while this user's own stores have all ended.
THEOREM Durability == StoreSpec => []AckedStoresSurvive
<1>1. StoreInv => AckedStoresSurvive
  <2> SUFFICES ASSUME StoreInv, NEW u \in User, Loads(u), u \notin restored \/ u \notin interrupted
               PROVE  acked[u] \subseteq vault[u].data
    BY DEF AckedStoresSurvive
  <2>1. Shape /\ Underway /\ Rising(u) /\ Numbered(u) /\ Fresh(u)
    BY DEF StoreInv
  <2>2. CASE u \notin restored
    BY <2>1, <2>2 DEF Rising
  <2>3. CASE vault[u] = NoVault
    BY <2>1, <2>3 DEF Fresh, NoVault, Envelope
  <2>4. CASE u \notin interrupted /\ vault[u].version >= KnownVersion(u)
    <3>1. CASE At(u, "versions")
      BY <2>1, <2>4, <3>1 DEF Numbered, Underway, At
    <3>2. CASE ~At(u, "versions")
      <4>1. vault[u].version \in Nat /\ KnownVersion(u) \in Nat
        BY <2>1, KnownType DEF Shape, Envelopes
      <4> QED BY <2>1, <2>4, <3>2, <4>1 DEF Numbered, Complete
    <3> QED BY <3>1, <3>2
  <2> QED BY <2>2, <2>3, <2>4 DEF Loads, NotRolledBack
<1> QED BY <1>1, StoreAlways, PTL

-----------------------------------------------------------------------------
(* The audit log                                                           *)

\* What is known of the audit log.  A number that a thread holds is above its own lines of this
\* run and unlike any other; the counter is less than one save ahead of what is saved, unless a
\* save failed; the log that a thread is about to put aside is big, unless the thread is late;
\* and if none was, the backup and the log are, one after the other, the end of the lines.
AuditLine == [n : Nat, run : Nat, by : Writers]
AuditTyped ==
  /\ counter \in Nat /\ saved \in Nat /\ run \in Nat /\ unsaved \in BOOLEAN
  /\ numbered \in [Writers -> Nat] /\ overtaken \in BOOLEAN
  /\ stage \in [Writers -> {"check", "rename", "late", "write"}]
  /\ log \in Seq(AuditLine) /\ backup \in Seq(AuditLine) /\ lines \in Seq(AuditLine)
Held ==
  /\ \A w \in Writers : numbered[w] <= counter
  /\ \A w, v \in Writers : w # v /\ numbered[w] # 0 => numbered[w] # numbered[v]
  /\ \A i \in DOMAIN lines :
       lines[i].run <= run /\ (lines[i].run = run => lines[i].n <= counter)
  /\ \A i \in DOMAIN lines, w \in Writers :
       lines[i].run = run /\ numbered[w] # 0 =>
         lines[i].n # numbered[w] /\ (lines[i].by = w => lines[i].n < numbered[w])
Counts ==
  /\ saved <= counter /\ saved % PersistEvery = 0
  /\ ~unsaved => counter < saved + PersistEvery
Ends ==
  /\ Len(backup) + Len(log) <= Len(lines)
  /\ Len(backup) + Len(log) >= Big \/ Len(backup) + Len(log) = Len(lines)
  /\ \A i \in 1..Len(log) : log[i] = lines[Len(lines) - Len(log) + i]
  /\ \A i \in 1..Len(backup) : backup[i] = lines[Len(lines) - Len(log) - Len(backup) + i]
Aside == \A w \in Writers : stage[w] = "rename" => Len(log) > Big
AuditInv == AuditTyped /\ NumbersAreOwn /\ Held /\ Counts /\ Aside /\ (overtaken \/ Ends)

\* The multiple that follows one.
LEMMA NextMultiple ==
  ASSUME NEW P \in Nat \ {0}, NEW s \in Nat, s % P = 0
  PROVE  (s + P) % P = 0
<1>1. s = P * (s \div P) + 0 /\ s \div P \in Nat
  OBVIOUS
<1> DEFINE q == s \div P
<1> HIDE DEF q
<1>2. q \in Int /\ s = P * q
  BY <1>1 DEF q
<1>3. s + P = P * (q + 1) + 0 /\ q + 1 \in Int /\ 0 \in 0..(P - 1) /\ s + P \in Nat
  BY <1>2
<1> DEFINE t == s + P
           m == q + 1
<1> HIDE DEF t, m
<1>4. t \in Nat /\ m \in Int /\ t = P * m + 0 /\ 0 \in 0..(P - 1)
  BY <1>3 DEF t, m
<1>5. t % P = 0
  BY <1>4
<1> QED
  BY <1>5 DEF t

\* At first nothing is written.
LEMMA AuditBegin ==
  ASSUME PersistEvery \in Nat \ {0}, Big \in Nat, AuditInit
  PROVE  AuditInv
<1>1. << >> \in Seq(AuditLine) /\ Len(<< >>) = 0
  BY EmptySeq
<1>2. AuditTyped
  BY <1>1 DEF AuditInit, AuditTyped
<1>3. NumbersAreOwn /\ Held
  BY DEF AuditInit, NumbersAreOwn, Held
<1>4. Counts
  BY DEF AuditInit, Counts
<1>5. Ends /\ Aside
  BY <1>1 DEF AuditInit, Ends, Aside
<1> QED
  BY <1>2, <1>3, <1>4, <1>5 DEF AuditInv

\* A thread takes the next number.
LEMMA NumberKeeps ==
  ASSUME PersistEvery \in Nat \ {0}, AuditInv, NEW w \in Writers, Number(w)
  PROVE  AuditInv'
<1>1. /\ counter' = counter + 1 /\ numbered' = [numbered EXCEPT ![w] = counter + 1]
      /\ numbered[w] = 0
      /\ UNCHANGED <<stage, log, backup, run, lines, overtaken>>
  BY DEF Number
<1>2. \/ saved' = (IF SavesAt(counter + 1) THEN counter + 1 ELSE saved) /\ unsaved' = unsaved
      \/ SavesAt(counter + 1) /\ saved' = saved /\ unsaved' = TRUE
  BY <1>1 DEF Number
<1>3. AuditTyped
  BY DEF AuditInv
<1>4. \A v \in Writers : numbered'[v] = IF v = w THEN counter + 1 ELSE numbered[v]
  BY <1>1, <1>3 DEF AuditTyped
<1>5. saved' \in Nat /\ unsaved' \in BOOLEAN
  <2>1. saved \in Nat /\ counter + 1 \in Nat
    BY <1>3 DEF AuditTyped
  <2>2. saved' \in {saved, counter + 1}
    BY <1>2
  <2>3. unsaved' \in {unsaved, TRUE}
    BY <1>2, Zenon
  <2>4. unsaved \in BOOLEAN
    BY <1>3 DEF AuditTyped
  <2>5. unsaved' \in BOOLEAN
    BY <2>3, <2>4, Zenon
  <2> QED
    BY <2>1, <2>2, <2>5
<1>6. AuditTyped'
  BY <1>1, <1>3, <1>5 DEF AuditTyped
<1>7. NumbersAreOwn'
  BY <1>1 DEF AuditInv, NumbersAreOwn
<1>8. Held'
  <2>1. \A v \in Writers : numbered'[v] <= counter'
    BY <1>1, <1>3, <1>4 DEF AuditInv, AuditTyped, Held
  <2>2. ASSUME NEW u \in Writers, NEW v \in Writers, u # v, numbered'[u] # 0 PROVE numbered'[u] # numbered'[v]
    <3>1. numbered[u] <= counter /\ numbered[v] <= counter /\ numbered[u] \in Nat /\ numbered[v] \in Nat
      BY <1>3 DEF AuditInv, AuditTyped, Held
    <3>2. counter \in Nat /\ (numbered[u] # 0 => numbered[u] # numbered[v])
      BY <1>3, <2>2 DEF AuditInv, AuditTyped, Held
    <3> QED
      BY <1>4, <2>2, <3>1, <3>2
  <2>3. ASSUME NEW i \in DOMAIN lines
        PROVE  /\ lines[i].run <= run /\ (lines[i].run = run => lines[i].n <= counter + 1)
               /\ \A v \in Writers : lines[i].run = run /\ numbered'[v] # 0 =>
                    lines[i].n # numbered'[v] /\ (lines[i].by = v => lines[i].n < numbered'[v])
    <3>1. lines[i] \in AuditLine /\ counter \in Nat
      BY <1>3 DEF AuditTyped
    <3>2. lines[i].n \in Nat
      BY <3>1 DEF AuditLine
    <3>3. lines[i].run <= run /\ (lines[i].run = run => lines[i].n <= counter)
      BY DEF AuditInv, Held
    <3>4. lines[i].run = run => lines[i].n < counter + 1
      BY <3>1, <3>2, <3>3
    <3>5. ASSUME NEW v \in Writers, lines[i].run = run, numbered'[v] # 0
          PROVE  lines[i].n # numbered'[v] /\ (lines[i].by = v => lines[i].n < numbered'[v])
      <4>1. CASE v = w
        BY <1>4, <3>1, <3>2, <3>4, <3>5, <4>1
      <4>2. CASE v # w
        BY <1>4, <3>5, <4>2 DEF AuditInv, Held
      <4> QED
        BY <4>1, <4>2
    <3>6. lines[i].run = run => lines[i].n <= counter + 1
      BY <3>1, <3>2, <3>4
    <3> QED
      BY <3>3, <3>5, <3>6
  <2> QED
    BY <1>1, <2>1, <2>2, <2>3 DEF Held
<1>9. Counts'
  <2>1. /\ saved <= counter /\ saved % PersistEvery = 0 /\ saved \in Nat /\ counter \in Nat
        /\ (~unsaved => counter < saved + PersistEvery)
    BY <1>3 DEF AuditInv, AuditTyped, Counts
  <2>2. CASE saved' = counter + 1 /\ SavesAt(counter + 1)
    <3>1. saved' % PersistEvery = 0
      BY <2>2 DEF SavesAt
    <3> QED
      BY <1>1, <2>1, <2>2, <3>1 DEF Counts
  <2>3. CASE saved' = saved /\ unsaved' = TRUE
    BY <1>1, <2>1, <2>3 DEF Counts
  <2>4. CASE saved' = saved /\ unsaved' = unsaved /\ ~SavesAt(counter + 1)
    <3>1. ASSUME ~unsaved PROVE counter + 1 < saved + PersistEvery
      <4>1. (saved + PersistEvery) % PersistEvery = 0
        BY <2>1, NextMultiple
      <4>2. counter + 1 # saved + PersistEvery
        BY <2>4, <4>1 DEF SavesAt
      <4> QED
        BY <2>1, <3>1, <4>2
    <3> QED
      BY <1>1, <2>1, <2>4, <3>1 DEF Counts
  <2> QED
    BY <1>2, <2>2, <2>3, <2>4
<1>10. Aside' /\ (overtaken \/ Ends)'
  BY <1>1 DEF AuditInv, Ends, Aside
<1> QED
  BY <1>6, <1>7, <1>8, <1>9, <1>10 DEF AuditInv

\* A thread looks at the size of the log.
LEMMA CheckKeeps ==
  ASSUME Big \in Nat, AuditInv, NEW w \in Writers, ChecksSize(w)
  PROVE  AuditInv'
<1>1. /\ stage' = [stage EXCEPT ![w] = IF Rotates(numbered[w]) THEN "rename" ELSE "write"]
      /\ UNCHANGED <<counter, saved, numbered, log, backup, run, unsaved, lines, overtaken>>
  BY DEF ChecksSize
<1>2. AuditTyped'
  BY <1>1 DEF AuditInv, AuditTyped
<1>3. Aside'
  <2>1. \A v \in Writers : stage'[v] = IF v = w THEN IF Rotates(numbered[w]) THEN "rename" ELSE "write"
                                       ELSE stage[v]
    BY <1>1 DEF AuditInv, AuditTyped
  <2> QED
    BY <1>1, <2>1 DEF AuditInv, Aside, Rotates
<1>4. NumbersAreOwn' /\ Held' /\ Counts' /\ (overtaken \/ Ends)'
  BY <1>1 DEF AuditInv, NumbersAreOwn, Held, Counts, Ends
<1> QED
  BY <1>2, <1>3, <1>4 DEF AuditInv

\* What is put aside is the end of what was written, and long enough, unless the thread is late.
LEMMA AsideKeeps ==
  ASSUME Big \in Nat, AuditInv, NEW w \in Writers, PutsAside(w)
  PROVE  AuditInv'
<1>1. UNCHANGED <<counter, saved, numbered, run, unsaved, lines>>
  BY DEF PutsAside
<1>2. AuditTyped /\ Held
  BY DEF AuditInv
<1>3. << >> \in Seq(AuditLine) /\ Len(<< >>) = 0
  BY EmptySeq
<1>4. NumbersAreOwn' /\ Held' /\ Counts'
  BY <1>1 DEF AuditInv, NumbersAreOwn, Held, Counts
<1>5. CASE stage' = [stage EXCEPT ![w] = "write"] /\ UNCHANGED <<log, backup, overtaken>>
  <2>1. AuditTyped'
    BY <1>1, <1>2, <1>5 DEF AuditTyped
  <2>2. \A v \in Writers : stage'[v] = "rename" => stage[v] = "rename"
    BY <1>2, <1>5 DEF AuditTyped
  <2>3. Aside' /\ (overtaken \/ Ends)'
    BY <1>1, <1>5, <2>2 DEF AuditInv, Aside, Ends
  <2> QED
    BY <1>4, <2>1, <2>3 DEF AuditInv
<1>6. CASE /\ backup' = log /\ log' = <<>>
           /\ stage' = [v \in Writers |-> IF v = w THEN "write"
                                         ELSE IF stage[v] = "rename" THEN "late" ELSE stage[v]]
           /\ overtaken' = (overtaken \/ stage[w] = "late")
  <2>1. /\ stage' \in [Writers -> {"check", "rename", "late", "write"}]
        /\ \A v \in Writers : stage'[v] # "rename"
    BY <1>2, <1>6 DEF AuditTyped
  <2>2. overtaken' \in BOOLEAN
    BY <1>6
  <2>3. AuditTyped'
    BY <1>1, <1>2, <1>3, <1>6, <2>1, <2>2 DEF AuditTyped
  <2>4. (overtaken \/ Ends)'
    <3> SUFFICES ASSUME ~overtaken' PROVE Ends'
      OBVIOUS
    <3>1. ~overtaken /\ stage[w] # "late"
      BY <1>6
    <3>2. stage[w] = "rename"
      BY <3>1 DEF PutsAside
    <3>3. Len(log) > Big /\ Ends
      BY <3>1, <3>2 DEF AuditInv, Aside
    <3>4. /\ Len(log) \in Nat /\ Len(backup) \in Nat /\ Len(lines) \in Nat
      BY <1>2 DEF AuditTyped
    <3>5. /\ Len(log) <= Len(lines) /\ Len(log) >= Big
          /\ \A i \in 1..Len(log) : log[i] = lines[Len(lines) - Len(log) + i]
      BY <3>3, <3>4 DEF Ends
    <3>6. /\ Len(log') = 0 /\ Len(backup') = Len(log) /\ Len(lines') = Len(lines)
          /\ Len(lines) - 0 - Len(log) = Len(lines) - Len(log)
      BY <1>1, <1>3, <1>6, <3>4
    <3>7. \A i \in 1..Len(backup') : backup'[i] = lines'[Len(lines') - Len(log') - Len(backup') + i]
      BY <1>1, <1>6, <3>4, <3>5, <3>6
    <3>8. /\ Len(backup') + Len(log') <= Len(lines')
          /\ Len(backup') + Len(log') >= Big \/ Len(backup') + Len(log') = Len(lines')
      <4> DEFINE b == Len(log)
      <4>1. b \in Nat /\ Len(lines) \in Nat /\ b <= Len(lines) /\ b >= Big
        BY <3>4, <3>5
      <4>2. Len(log') = 0 /\ Len(backup') = b /\ Len(lines') = Len(lines)
        BY <3>6
      <4> HIDE DEF b
      <4> QED
        BY <4>1, <4>2
    <3>9. \A i \in 1..Len(log') : log'[i] = lines'[Len(lines') - Len(log') + i]
      BY <3>6
    <3> QED
      BY <3>7, <3>8, <3>9 DEF Ends
  <2> QED
    BY <1>4, <2>1, <2>3, <2>4 DEF AuditInv, Aside
<1> QED
  BY <1>5, <1>6 DEF PutsAside

\* A thread gives up its number, with a line or without.
LEMMA GivenUp ==
  ASSUME AuditInv, NEW w \in Writers, numbered' = [numbered EXCEPT ![w] = 0]
  PROVE  /\ numbered' \in [Writers -> Nat]
         /\ \A v \in Writers : numbered'[v] # 0 => v # w /\ numbered'[v] = numbered[v]
         /\ \A v \in Writers : numbered'[v] <= counter
         /\ \A u, v \in Writers : u # v /\ numbered'[u] # 0 => numbered'[u] # numbered'[v]
<1>1. numbered \in [Writers -> Nat] /\ counter \in Nat /\ Held
  BY DEF AuditInv, AuditTyped
<1>2. \A v \in Writers : numbered'[v] = IF v = w THEN 0 ELSE numbered[v]
  BY <1>1
<1> QED
  BY <1>1, <1>2 DEF Held

\* Its line is dropped.
LEMMA LineDropKeeps ==
  ASSUME Big \in Nat, AuditInv, NEW w \in Writers, Dropped(w)
  PROVE  AuditInv'
<1>1. /\ numbered' = [numbered EXCEPT ![w] = 0] /\ stage' = [stage EXCEPT ![w] = "check"]
      /\ UNCHANGED <<counter, saved, backup, run, unsaved, overtaken, log, lines>>
  BY DEF Dropped, GivesUp
<1>2. AuditTyped /\ Held
  BY DEF AuditInv
<1>3. AuditTyped'
  BY <1>1, <1>2, GivenUp DEF AuditTyped
<1>4. Held'
  BY <1>1, <1>2, GivenUp DEF Held
<1>5. \A v \in Writers : stage'[v] = "rename" => stage[v] = "rename"
  BY <1>1, <1>2 DEF AuditTyped
<1>6. NumbersAreOwn' /\ Counts' /\ Aside' /\ (overtaken \/ Ends)'
  BY <1>1, <1>5 DEF AuditInv, NumbersAreOwn, Counts, Aside, Ends
<1> QED
  BY <1>3, <1>4, <1>6 DEF AuditInv

\* Its line is appended.
LEMMA AppendKeeps ==
  ASSUME Big \in Nat, AuditInv, NEW w \in Writers, AppendLine(w)
  PROVE  AuditInv'
<1> DEFINE line == [n |-> numbered[w], run |-> run, by |-> w]
           old == log
<1>1. /\ numbered[w] # 0 /\ numbered' = [numbered EXCEPT ![w] = 0]
      /\ stage' = [stage EXCEPT ![w] = "check"]
      /\ log' = Append(old, line) /\ lines' = Append(lines, line)
      /\ UNCHANGED <<counter, saved, backup, run, unsaved, overtaken>>
  BY DEF AppendLine, GivesUp
<1>2. AuditTyped /\ Held /\ NumbersAreOwn
  BY DEF AuditInv
<1>3. line \in AuditLine /\ line.n = numbered[w] /\ line.run = run /\ line.by = w
  BY <1>2 DEF AuditTyped, AuditLine
<1>4. << >> \in Seq(AuditLine) /\ Len(<< >>) = 0
  BY EmptySeq
<1>5. old \in Seq(AuditLine)
  BY <1>2, <1>4 DEF AuditTyped
<1> HIDE DEF line, old
<1> DEFINE N == Len(lines)
<1>6. /\ N \in Nat /\ lines' \in Seq(AuditLine) /\ Len(lines') = N + 1 /\ lines'[N + 1] = line
      /\ \A i \in 1..N : lines'[i] = lines[i]
      /\ DOMAIN lines = 1..N /\ DOMAIN lines' = 1..(N + 1)
  <2>1. lines \in Seq(AuditLine)
    BY <1>2 DEF AuditTyped
  <2>2. N \in Nat /\ DOMAIN lines = 1..N
    BY <2>1, LenProperties
  <2>3. Append(lines, line) \in Seq(AuditLine) /\ Len(Append(lines, line)) = N + 1
    BY <1>3, <2>1, AppendProperties
  <2>4. DOMAIN Append(lines, line) = 1..(N + 1)
    BY <2>3, LenProperties
  <2>5. Append(lines, line)[N + 1] = line /\ \A i \in 1..N : Append(lines, line)[i] = lines[i]
    BY <1>3, <2>1, AppendProperties
  <2> QED
    BY <1>1, <2>2, <2>3, <2>4, <2>5
<1>7. /\ Len(old) \in Nat /\ log' \in Seq(AuditLine) /\ Len(log') = Len(old) + 1
      /\ log'[Len(old) + 1] = line /\ \A i \in 1..Len(old) : log'[i] = old[i]
  BY <1>1, <1>3, <1>5, AppendProperties, LenProperties
<1>8. AuditTyped'
  <2>1. backup' \in Seq(AuditLine)
    BY <1>1, <1>2 DEF AuditTyped
  <2> QED
    BY <1>1, <1>2, <1>6, <1>7, <2>1, GivenUp DEF AuditTyped
<1>9. \A i \in 1..N : lines[i] \in AuditLine /\ lines[i].n \in Nat /\ lines[i].run \in Nat
  <2>1. \A i \in 1..N : lines[i] \in AuditLine
    BY <1>2, <1>6 DEF AuditTyped
  <2> QED
    BY <2>1 DEF AuditLine
<1>10. \A i \in 1..N : lines[i].run = line.run => lines[i].n # line.n /\ (lines[i].by = line.by => lines[i].n < line.n)
  BY <1>1, <1>2, <1>3, <1>6 DEF Held
<1>11. NumbersAreOwn'
  <2> SUFFICES ASSUME NEW i \in 1..(N + 1), NEW j \in 1..(N + 1), i < j, lines'[i].run = lines'[j].run
               PROVE  lines'[i].n # lines'[j].n /\ (lines'[i].by = lines'[j].by => lines'[i].n < lines'[j].n)
    BY <1>6 DEF NumbersAreOwn
  <2>1. i \in 1..N /\ lines'[i] = lines[i]
    BY <1>6
  <2>2. CASE j = N + 1
    BY <1>6, <1>10, <2>1, <2>2
  <2>3. CASE j # N + 1
    <3>1. j \in 1..N /\ lines'[j] = lines[j]
      BY <1>6, <2>3
    <3> QED
      BY <1>2, <1>6, <2>1, <3>1 DEF NumbersAreOwn
  <2> QED
    BY <2>2, <2>3
<1>12. Held'
  <2>1. /\ \A v \in Writers : numbered'[v] # 0 => v # w /\ numbered'[v] = numbered[v]
        /\ \A v \in Writers : numbered'[v] <= counter
        /\ \A u, v \in Writers : u # v /\ numbered'[u] # 0 => numbered'[u] # numbered'[v]
    BY <1>1, GivenUp
  <2>2. ASSUME NEW i \in 1..(N + 1)
        PROVE  /\ lines'[i].run <= run /\ (lines'[i].run = run => lines'[i].n <= counter)
               /\ \A v \in Writers : lines'[i].run = run /\ numbered'[v] # 0 =>
                    lines'[i].n # numbered'[v] /\ (lines'[i].by = v => lines'[i].n < numbered'[v])
    <3>1. CASE i = N + 1
      <4>1. lines'[i] = line
        BY <1>6, <3>1
      <4>2. run \in Nat /\ numbered[w] <= counter
        BY <1>2 DEF AuditTyped, Held
      <4>3. \A v \in Writers : numbered'[v] # 0 => numbered[w] # numbered'[v] /\ w # v
        BY <1>1, <1>2, <2>1 DEF Held
      <4> QED
        BY <1>3, <4>1, <4>2, <4>3
    <3>2. CASE i # N + 1
      <4>1. i \in 1..N /\ lines'[i] = lines[i]
        BY <1>6, <3>2
      <4> QED
        BY <1>2, <1>6, <2>1, <4>1 DEF Held
    <3> QED
      BY <3>1, <3>2
  <2> QED
    BY <1>1, <1>6, <2>1, <2>2 DEF Held
<1>13. Counts'
  BY <1>1 DEF AuditInv, Counts
<1>14. (overtaken \/ Ends)'
  <2> SUFFICES ASSUME ~overtaken PROVE Ends'
    BY <1>1
  <2>1. old = log /\ backup' = backup
    BY <1>1 DEF old
  <2>2. Len(log) \in Nat /\ Len(backup) \in Nat
    BY <1>2 DEF AuditTyped
  <2>3. /\ Len(backup) + Len(log) <= N
        /\ Len(backup) + Len(log) >= Big \/ Len(backup) + Len(log) = N
        /\ \A i \in 1..Len(log) : log[i] = lines[N - Len(log) + i]
        /\ \A i \in 1..Len(backup) : backup[i] = lines[N - Len(log) - Len(backup) + i]
    BY DEF AuditInv, Ends
  <2>4. \A i \in 1..Len(log') : log'[i] = lines'[Len(lines') - Len(log') + i]
    <3> SUFFICES ASSUME NEW i \in 1..(Len(log) + 1) PROVE log'[i] = lines'[Len(lines') - Len(log') + i]
      BY <1>7, <2>1
    <3>1. Len(lines') - Len(log') + i = N - Len(log) + i
      BY <1>6, <1>7, <2>1, <2>2
    <3>2. CASE i = Len(log) + 1
      <4>1. N - Len(log) + i = N + 1
        BY <1>6, <2>2, <3>2
      <4> QED
        BY <1>6, <1>7, <2>1, <3>1, <3>2, <4>1
    <3>3. CASE i # Len(log) + 1
      <4>1. i \in 1..Len(log) /\ N - Len(log) + i \in 1..N
        <5> DEFINE b == Len(log)
        <5>1. b \in Nat /\ Len(backup) \in Nat /\ N \in Nat /\ Len(backup) + b <= N
          BY <1>6, <2>2, <2>3
        <5>2. i \in 1..(b + 1) /\ i # b + 1
          BY <3>3
        <5> HIDE DEF b, N
        <5>3. i \in 1..b /\ N - b + i \in 1..N
          BY <5>1, <5>2
        <5> QED
          BY <5>3 DEF b
      <4>2. log'[i] = log[i]
        BY <1>7, <2>1, <4>1
      <4> QED
        BY <1>6, <2>3, <3>1, <4>1, <4>2
    <3> QED
      BY <3>2, <3>3
  <2>5. \A i \in 1..Len(backup') : backup'[i] = lines'[Len(lines') - Len(log') - Len(backup') + i]
    <3> SUFFICES ASSUME NEW i \in 1..Len(backup)
                 PROVE  backup[i] = lines'[Len(lines') - Len(log') - Len(backup) + i]
      BY <2>1
    <3>1. /\ Len(lines') - Len(log') - Len(backup) + i = N - Len(log) - Len(backup) + i
          /\ N - Len(log) - Len(backup) + i \in 1..N
      <4> DEFINE a == Len(backup)
                 b == Len(log)
      <4>1. a \in Nat /\ b \in Nat /\ N \in Nat /\ a + b <= N /\ i \in 1..a
        BY <1>6, <2>2, <2>3
      <4>2. Len(lines') = N + 1 /\ Len(log') = b + 1
        BY <1>6, <1>7, <2>1
      <4> HIDE DEF a, b, N
      <4>3. (N + 1) - (b + 1) - a + i = N - b - a + i /\ N - b - a + i \in 1..N
        BY <4>1
      <4> QED
        BY <4>2, <4>3 DEF a, b
    <3> QED
      BY <1>6, <2>3, <3>1
  <2>6. /\ Len(backup') + Len(log') <= Len(lines')
        /\ Len(backup') + Len(log') >= Big \/ Len(backup') + Len(log') = Len(lines')
    <3> DEFINE a == Len(backup)
               b == Len(log)
    <3>1. /\ a \in Nat /\ b \in Nat /\ N \in Nat /\ a + b <= N
          /\ a + b >= Big \/ a + b = N
      BY <1>6, <2>2, <2>3
    <3>2. Len(lines') = N + 1 /\ Len(log') = b + 1 /\ Len(backup') = a
      BY <1>6, <1>7, <2>1
    <3> HIDE DEF a, b, N
    <3>3. a + (b + 1) <= N + 1 /\ (a + (b + 1) >= Big \/ a + (b + 1) = N + 1)
      BY <3>1
    <3> QED
      BY <3>2, <3>3
  <2> QED
    BY <2>4, <2>5, <2>6 DEF Ends
<1>15. Aside'
  <2>1. \A v \in Writers : stage'[v] = "rename" => stage[v] = "rename"
    BY <1>1, <1>2 DEF AuditTyped
  <2>2. Len(log') = Len(log) + 1 /\ Len(log) \in Nat
    BY <1>2, <1>7 DEF old, AuditTyped
  <2> QED
    BY <2>1, <2>2 DEF AuditInv, Aside
<1> QED
  BY <1>8, <1>11, <1>12, <1>13, <1>14, <1>15 DEF AuditInv

\* The process ends, and the next one counts on from the file.
LEMMA RunKeeps ==
  ASSUME PersistEvery \in Nat \ {0}, AuditInv, NextRun
  PROVE  AuditInv'
<1>1. /\ run' = run + 1 /\ counter' = saved /\ numbered' = [w \in Writers |-> 0] /\ unsaved' = FALSE
      /\ stage' = [w \in Writers |-> "check"]
      /\ UNCHANGED <<saved, log, backup, lines, overtaken>>
  BY DEF NextRun
<1>2. AuditTyped /\ Held /\ Counts
  BY DEF AuditInv
<1>3. AuditTyped'
  <2>1. run' \in Nat /\ counter' \in Nat /\ saved' \in Nat
    BY <1>1, <1>2 DEF AuditTyped
  <2>2. /\ numbered' \in [Writers -> Nat] /\ unsaved' \in BOOLEAN
        /\ stage' \in [Writers -> {"check", "rename", "late", "write"}]
    BY <1>1
  <2> QED
    BY <1>1, <1>2, <2>1, <2>2 DEF AuditTyped
<1>4. \A i \in DOMAIN lines : lines[i].run <= run /\ lines[i].run \in Nat /\ run \in Nat
  <2>1. \A i \in DOMAIN lines : lines[i] \in AuditLine
    BY <1>2 DEF AuditTyped
  <2> QED
    BY <1>2, <2>1 DEF AuditTyped, AuditLine, Held
<1>5. \A i \in DOMAIN lines : lines[i].run <= run + 1 /\ lines[i].run # run + 1
  BY <1>4
<1>6. Held'
  <2>1. \A w \in Writers : numbered'[w] = 0 /\ 0 <= saved
    BY <1>1, <1>2 DEF AuditTyped
  <2> QED
    BY <1>1, <1>5, <2>1 DEF Held
<1>7. Counts'
  BY <1>1, <1>2 DEF AuditTyped, Counts
<1>8. NumbersAreOwn' /\ Aside' /\ (overtaken \/ Ends)'
  BY <1>1 DEF AuditInv, NumbersAreOwn, Aside, Ends
<1> QED
  BY <1>3, <1>6, <1>7, <1>8 DEF AuditInv

\* A sequence that ends another is its suffix.
LEMMA EndIsSuffix ==
  ASSUME NEW S, NEW s \in Seq(S), NEW t \in Seq(S), Len(s) <= Len(t),
         \A i \in 1..Len(s) : s[i] = t[Len(t) - Len(s) + i]
  PROVE  IsSuffix(s, t)
<1> DEFINE m == Len(s)
           n == Len(t)
<1>1. m \in Nat /\ n \in Nat /\ m <= n /\ \A i \in 1..m : s[i] \in S /\ \A j \in 1..n : t[j] \in S
  BY LenProperties, ElementOfSeq
<1> DEFINE rs == Reverse(s)
           rt == Reverse(t)
<1>2. rs = [i \in 1..m |-> s[(m - i) + 1]] /\ rt = [i \in 1..n |-> t[(n - i) + 1]]
  BY DEF Reverse
<1> HIDE DEF m, n, rs, rt
<1>3. rs \in [1..m -> S] /\ rt \in [1..n -> S]
  <2>1. \A i \in 1..m : (m - i) + 1 \in 1..m
    BY <1>1
  <2>2. \A i \in 1..n : (n - i) + 1 \in 1..n
    BY <1>1
  <2>3. \A j \in 1..m : s[j] \in S
    BY <1>1
  <2>4. \A j \in 1..n : t[j] \in S
    BY ElementOfSeq DEF n
  <2> QED
    BY <1>2, <2>1, <2>2, <2>3, <2>4
<1>4. rs \in Seq(S) /\ rt \in Seq(S) /\ Len(rs) = m /\ Len(rt) = n
  <2>1. rs \in UNION {[1..k -> S] : k \in Nat} /\ rt \in UNION {[1..k -> S] : k \in Nat}
    BY <1>1, <1>3
  <2>3. rs \in Seq(S) /\ rt \in Seq(S)
    BY <2>1, SeqDef
  <2>2. DOMAIN rs = 1..m /\ DOMAIN rt = 1..n
    BY <1>3
  <2> QED
    BY <1>1, <2>3, <2>2, LenProperties
<1>5. \A i \in 1..m : rs[i] = rt[i]
  <2> TAKE i \in 1..m
  <2>1. rs[i] = s[(m - i) + 1] /\ rt[i] = t[(n - i) + 1]
    BY <1>1, <1>2
  <2>2. (m - i) + 1 \in 1..m /\ n - m + ((m - i) + 1) = (n - i) + 1
    BY <1>1
  <2>3. s[(m - i) + 1] = t[n - m + ((m - i) + 1)]
    BY <2>2 DEF m, n
  <2> QED
    BY <2>1, <2>2, <2>3
<1>6. SubSeq(rs, 1, m) = SubSeq(rt, 1, m)
  <2>1. \A i \in 1..m : rs[i] \in S /\ rt[i] \in S
    BY <1>1, <1>3, <1>5
  <2>2. /\ SubSeq(rs, 1, m) \in Seq(S) /\ SubSeq(rt, 1, m) \in Seq(S)
        /\ Len(SubSeq(rs, 1, m)) = m /\ Len(SubSeq(rt, 1, m)) = m
        /\ \A i \in 1..m : SubSeq(rs, 1, m)[i] = rs[i]
        /\ \A i \in 1..m : SubSeq(rt, 1, m)[i] = rt[i]
    <3>1. 1 \in Int /\ m \in Int /\ m - 1 + 1 = m /\ \A i \in 1..m : 1 + i - 1 = i
      BY <1>1
    <3>2. /\ SubSeq(rs, 1, m) \in Seq(S) /\ Len(SubSeq(rs, 1, m)) = (IF 1 <= m THEN m - 1 + 1 ELSE 0)
          /\ \A i \in 1..(m - 1 + 1) : SubSeq(rs, 1, m)[i] = rs[1 + i - 1]
      BY <2>1, <3>1, SubSeqProperties
    <3>3. /\ SubSeq(rt, 1, m) \in Seq(S) /\ Len(SubSeq(rt, 1, m)) = (IF 1 <= m THEN m - 1 + 1 ELSE 0)
          /\ \A i \in 1..(m - 1 + 1) : SubSeq(rt, 1, m)[i] = rt[1 + i - 1]
      BY <2>1, <3>1, SubSeqProperties
    <3> QED
      BY <1>1, <3>1, <3>2, <3>3
  <2>3. \A i \in 1..m : SubSeq(rs, 1, m)[i] = SubSeq(rt, 1, m)[i]
    BY <1>5, <2>2
  <2> QED
    BY <2>2, <2>3, SeqEqual
<1> QED
  BY <1>1, <1>4, <1>6 DEF IsSuffix, IsPrefix, rs, rt

\* The invariant says what is promised.
LEMMA AuditInvSound ==
  ASSUME Big \in Nat, PersistEvery \in Nat \ {0}, AuditInv
  PROVE  AuditSound
<1>1. FewNumbersRepeat
  BY DEF AuditInv, AuditTyped, Counts, FewNumbersRepeat
<1>2. RecentLinesKept
  <2> SUFFICES ASSUME ~overtaken
               PROVE  /\ IsSuffix(backup \o log, lines)
                      /\ Len(backup \o log) >= (IF Len(lines) < Big THEN Len(lines) ELSE Big)
    BY DEF RecentLinesKept
  <2> DEFINE a == Len(backup)
             b == Len(log)
             n == Len(lines)
             both == backup \o log
  <2>1. a \in Nat /\ b \in Nat /\ n \in Nat
    BY DEF AuditInv, AuditTyped
  <2>2. /\ both \in Seq(AuditLine) /\ Len(both) = a + b /\ lines \in Seq(AuditLine)
        /\ \A i \in 1..(a + b) : both[i] = IF i <= a THEN backup[i] ELSE log[i - a]
    BY ConcatProperties DEF AuditInv, AuditTyped
  <2>3. /\ a + b <= n /\ (a + b >= Big \/ a + b = n)
        /\ \A i \in 1..b : log[i] = lines[n - b + i]
        /\ \A i \in 1..a : backup[i] = lines[n - b - a + i]
    BY DEF AuditInv, Ends
  <2> HIDE DEF a, b, n, both
  <2>4. \A i \in 1..(a + b) : both[i] = lines[n - (a + b) + i]
    <3> TAKE i \in 1..(a + b)
    <3>1. CASE i <= a
      <4>1. i \in 1..a /\ n - b - a + i = n - (a + b) + i
        BY <2>1, <3>1
      <4> QED
        BY <2>2, <2>3, <3>1, <4>1
    <3>2. CASE ~(i <= a)
      <4>1. i - a \in 1..b /\ n - b + (i - a) = n - (a + b) + i
        BY <2>1, <3>2
      <4> QED
        BY <2>2, <2>3, <3>2, <4>1
    <3> QED
      BY <3>1, <3>2
  <2>5. IsSuffix(both, lines)
    <3>1. Len(both) <= Len(lines) /\ \A i \in 1..Len(both) : both[i] = lines[Len(lines) - Len(both) + i]
      BY <2>2, <2>3, <2>4 DEF n
    <3> QED
      BY <2>2, <3>1, EndIsSuffix
  <2>6. Len(both) >= (IF n < Big THEN n ELSE Big)
    BY <2>1, <2>2, <2>3
  <2> QED
    BY <2>5, <2>6 DEF both, n
<1> QED
  BY <1>1, <1>2 DEF AuditInv, AuditSound

\* Whatever two threads interleave, lose or save too late, within a run no number is used twice
\* and each thread's lines are in order; a restart repeats fewer numbers than lie between two
\* saves unless the last failed; and the log with its backup is the end of all that was written,
\* never shorter than the size at which it is put aside, unless a thread put aside, too late, the
\* log that another had begun (audit.rs), for any sizes.
THEOREM AuditAlwaysSound ==
  ASSUME PersistEvery \in Nat \ {0}, Big \in Nat
  PROVE  AuditSpec => []AuditSound
<1>1. AuditInit => AuditInv
  BY AuditBegin
<1>2. AuditInv /\ [AuditNext]_auditVars => AuditInv'
  <2> SUFFICES ASSUME AuditInv, [AuditNext]_auditVars PROVE AuditInv'
    OBVIOUS
  <2>1. CASE AuditNext
    BY <2>1, RunKeeps, NumberKeeps, CheckKeeps, AsideKeeps, AppendKeeps, LineDropKeeps DEF AuditNext
  <2>2. CASE UNCHANGED auditVars
    BY <2>2 DEF auditVars, AuditInv, AuditTyped, NumbersAreOwn, Held, Counts, Aside, Ends
  <2> QED
    BY <2>1, <2>2
<1>3. AuditInv => AuditSound
  BY AuditInvSound
<1> QED
  BY <1>1, <1>2, <1>3, PTL DEF AuditSpec

===============================================================================
