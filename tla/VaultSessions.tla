---------------------------- MODULE VaultSessions ----------------------------
(***************************************************************************)
(* Sessions and vault keys of the security engine (engine_rust/src:        *)
(* lib.rs, session.rs and the active keys of vault.rs).                    *)
(*                                                                         *)
(* The session map and the key map have a lock each.  An engine call holds *)
(* Python's GIL from end to end, so calls do not interleave with one       *)
(* another; between their critical sections come the sweeper thread and    *)
(* the passing of time.                                                    *)
(*                                                                         *)
(* Tokens are fresh UUIDs: they are numbered in the order login makes      *)
(* them, which is created_at order.  All sessions live for one hour, so    *)
(* they expire in that order too, and `expired` is how many have.          *)
(***************************************************************************)
EXTENDS EngineConstants, Naturals, FiniteSets

CONSTANTS
  MaxPerUser,    \* sessions of a user at a time (3)
  MaxLogins      \* bound on the sessions ever made

ASSUME SessionAssumption ==
  User # {} /\ MaxPerUser \in Nat \ {0} /\ MaxLogins \in Nat

VARIABLES
  made,          \* sessions made so far: the tokens are 1..made
  user_of,       \* the user of a token
  sessions,      \* SessionManager.sessions
  keys,          \* VaultStore.active_keys
  expired,       \* tokens 1..expired are past expires_at
  call,          \* the call in progress: none, a login's user or a logout's token, and the step
  lock_next,     \* expired tokens that login has still to lock
  sweep_next,    \* expired tokens that the sweeper has still to lock
  open,          \* does the engine exist?
  orphaned,      \* history: tokens whose session was dropped without their key
  ended          \* history: tokens that were logged out

vars == <<made, user_of, sessions, keys, expired, call, lock_next, sweep_next, open,
          orphaned, ended>>

Token == 1..MaxLogins
NoCall == [step |-> "none"]
Login(u, step) == [step |-> step, user |-> u]
Leaving(t, step) == [step |-> step, token |-> t]

TypeOK ==
  /\ made \in 0..MaxLogins /\ expired \in 0..made
  /\ sessions \subseteq 1..made /\ keys \subseteq 1..made
  /\ lock_next \subseteq 1..expired /\ sweep_next \subseteq 1..expired
  /\ call \in {NoCall} \cup [step : {"lock", "create", "unlock"}, user : User]
              \cup [step : {"forget", "invalidate"}, token : 1..made]
  /\ lock_next # {} => call.step = "lock"
  /\ user_of \in [Token -> User] /\ open \in BOOLEAN
  /\ orphaned \subseteq 1..made /\ ended \subseteq 1..made

Init ==
  /\ made = 0 /\ expired = 0
  /\ user_of = [t \in Token |-> CHOOSE u \in User : TRUE]
  /\ sessions = {} /\ keys = {}
  /\ call = NoCall /\ lock_next = {} /\ sweep_next = {}
  /\ open = TRUE
  /\ orphaned = {} /\ ended = {}

Expired(t) == t <= expired

Lapsed == {t \in sessions : Expired(t)}

\* Mutant: the tokens are collected when they have already been removed.
CollectedTooLate == {}

\* What collect_expired returns of the sessions it removes.
Collected == Lapsed

\* Sessions that end while their key stays in active_keys.
Orphan(tokens) == orphaned' = orphaned \cup (tokens \cap keys)

-----------------------------------------------------------------------------
(* Login: collect the expired, lock their keys, authenticate, make a session, *)
(* derive its key                                                             *)

LoginCollect(u) ==
  /\ open /\ call = NoCall /\ made < MaxLogins
  /\ call' = Login(u, "lock")
  /\ lock_next' = Collected
  /\ sessions' = sessions \ Lapsed
  /\ UNCHANGED <<made, user_of, keys, expired, sweep_next, open, orphaned, ended>>

LoginLock ==
  /\ \E t \in lock_next : keys' = keys \ {t} /\ lock_next' = lock_next \ {t}
  /\ UNCHANGED <<made, user_of, sessions, expired, call, sweep_next, open, orphaned, ended>>

\* UserDB.authenticate accepts or not; then create_session starts with cleanup,
\* which drops the sessions that have expired since and says nothing of them.
Authenticate ==
  /\ call.step = "lock" /\ lock_next = {}
  /\ \/ call' = NoCall /\ UNCHANGED <<sessions, orphaned>>
     \/ /\ call' = [call EXCEPT !.step = "create"]
        /\ sessions' = sessions \ Lapsed
        /\ Orphan(Lapsed)
  /\ UNCHANGED <<made, user_of, keys, expired, lock_next, sweep_next, open, ended>>

Own(u) == {t \in sessions : user_of[t] = u}

\* Mutant: the oldest is evicted only beyond the maximum.
EvictedTooLate(u) ==
  {t \in Own(u) : Cardinality({s \in Own(u) : s >= t}) > MaxPerUser}

\* The oldest of the user's sessions, so that one less than the maximum stays.
Evicted(u) == {t \in Own(u) : Cardinality({s \in Own(u) : s >= t}) > MaxPerUser - 1}

CreateSession ==
  /\ call.step = "create"
  /\ made' = made + 1
  /\ user_of' = [user_of EXCEPT ![made + 1] = call.user]
  /\ sessions' = (sessions \ Evicted(call.user)) \cup {made + 1}
  /\ Orphan(Evicted(call.user))
  /\ call' = [call EXCEPT !.step = "unlock"]
  /\ UNCHANGED <<keys, expired, lock_next, sweep_next, open, ended>>

\* vault.unlock; when the salts cannot be read the session stays without a key.
Unlock ==
  /\ call.step = "unlock"
  /\ keys' \in {keys, keys \cup {made}}
  /\ call' = NoCall
  /\ UNCHANGED <<made, user_of, sessions, expired, lock_next, sweep_next, open,
                 orphaned, ended>>

-----------------------------------------------------------------------------
(* The other calls *)

\* Mutant: the key outlives the logout.
LogoutKeepsKey(t) == keys
KeysWithout(t) == keys \ {t}

Valid(t) == t \in sessions /\ ~Expired(t)

\* logout looks the session up, for the log, which drops it when it has expired; then it
\* locks the key, and then it invalidates the session.
Logout(t) ==
  /\ open /\ call = NoCall
  /\ t \in 1..made /\ t \notin ended
  /\ call' = Leaving(t, "forget")
  /\ sessions' = sessions \ (Lapsed \cap {t}) /\ Orphan(Lapsed \cap {t})
  /\ UNCHANGED <<made, user_of, keys, expired, lock_next, sweep_next, open, ended>>

LogoutLock ==
  /\ call.step = "forget"
  /\ keys' = KeysWithout(call.token)
  /\ call' = Leaving(call.token, "invalidate")
  /\ UNCHANGED <<made, user_of, sessions, expired, lock_next, sweep_next, open, orphaned, ended>>

LogoutInvalidate ==
  /\ call.step = "invalidate"
  /\ sessions' = sessions \ {call.token} /\ ended' = ended \cup {call.token}
  /\ call' = NoCall
  /\ UNCHANGED <<made, user_of, keys, expired, lock_next, sweep_next, open, orphaned>>

\* get_session, at the start of store_secret, get_secret, list_secrets and
\* create_user: a session that has expired is dropped.
GetSession(t) ==
  /\ open /\ call = NoCall
  /\ t \in sessions /\ ~Valid(t)
  /\ sessions' = sessions \ {t}
  /\ Orphan({t})
  /\ UNCHANGED <<made, user_of, keys, expired, call, lock_next, sweep_next, open, ended>>

\* Drop zeroizes all keys.
Drop ==
  /\ open /\ call = NoCall
  /\ open' = FALSE
  /\ keys' = {}
  /\ UNCHANGED <<made, user_of, sessions, expired, call, lock_next, sweep_next,
                 orphaned, ended>>

-----------------------------------------------------------------------------
(* The sweeper and time *)

SweepCollect ==
  /\ open /\ sweep_next = {} /\ Lapsed # {}
  /\ sweep_next' = Collected
  /\ sessions' = sessions \ Lapsed
  /\ UNCHANGED <<made, user_of, keys, expired, call, lock_next, open, orphaned, ended>>

SweepLock ==
  /\ \E t \in sweep_next : keys' = keys \ {t} /\ sweep_next' = sweep_next \ {t}
  /\ UNCHANGED <<made, user_of, sessions, expired, call, lock_next, open, orphaned, ended>>

\* An hour is over for the oldest session.  A login takes far less than that, so
\* the session it is making does not expire.
Expire ==
  /\ expired < made
  /\ call.step = "unlock" => expired + 1 < made
  /\ expired' = expired + 1
  /\ UNCHANGED <<made, user_of, sessions, keys, call, lock_next, sweep_next, open,
                 orphaned, ended>>

Next ==
  \/ \E u \in User : LoginCollect(u)
  \/ LoginLock \/ Authenticate \/ CreateSession \/ Unlock
  \/ \E t \in Token : Logout(t) \/ GetSession(t)
  \/ LogoutLock \/ LogoutInvalidate
  \/ Drop \/ SweepCollect \/ SweepLock \/ Expire

\* A login and a logout run to their end; the sweeper wakes every 30 seconds and locks all it
\* has collected; an hour ends.
Fairness ==
  /\ WF_vars(LoginLock) /\ WF_vars(Authenticate) /\ WF_vars(CreateSession) /\ WF_vars(Unlock)
  /\ WF_vars(LogoutLock) /\ WF_vars(LogoutInvalidate)
  /\ WF_vars(SweepCollect) /\ WF_vars(SweepLock) /\ WF_vars(Expire)

Spec == Init /\ [][Next]_vars /\ Fairness

-----------------------------------------------------------------------------
(* Properties *)

\* No user has more than the maximum of sessions, counting those that expired
\* while the login was under way.
SessionsBounded == \A u \in User : Cardinality(Own(u)) <= MaxPerUser

\* Sessions and keys name made tokens only, and no user has too many of them.
SessionsSound == TypeOK /\ SessionsBounded

\* A logged out token has neither session nor key, now and later, whatever the
\* sweeper had collected before.
LogoutIsFinal == \A t \in ended : t \notin sessions /\ t \notin keys

\* Every key belongs to a session, or to one that login or the sweeper has taken
\* out of the map and is about to lock, or was orphaned: no other way of losing a
\* session leaves its key behind.
KeysAccountedFor ==
  open => keys \subseteq sessions \cup lock_next \cup sweep_next \cup orphaned

\* The key of an expired session is zeroized in the end, unless it was orphaned.
ExpiredKeysDie ==
  \A t \in Token : Expired(t) /\ t \in keys ~> t \notin keys \/ t \in orphaned

\* "vault_key is zeroized on session close": the key does not outlive the session.
KeysDieWithSessions ==
  \A t \in Token : t \in keys /\ t \notin sessions ~> t \notin keys
=============================================================================
