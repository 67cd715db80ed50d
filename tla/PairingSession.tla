------------------------------ MODULE PairingSession ------------------------------
(***************************************************************************)
(* The session of a pairing host (pairing_host.rs, auth_state.rs,          *)
(* sso_pairing.rs): who installs it, who clears it, what is persisted, and *)
(* what the host is shown.                                                 *)
(*                                                                         *)
(* Tasks of one executor: the products' login requests, the host's         *)
(* activations of sessions it keeps itself, its logouts, the activation of *)
(* the stored session at boot, the task that follows changes of the store, *)
(* and the monitor that hears of the wallet's disconnection.  A step is    *)
(* what a task does between two awaits.  The storage, the wallet and the   *)
(* host are external: each answers when it likes, and storage may fail.    *)
(***************************************************************************)
EXTENDS Naturals

CONSTANTS Logins, Externals, Logouts,
          Boot, Sync, Peer, \* the three tasks there is one of
          Droppable,        \* bound: logins whose product may go away
          MaxChanges,       \* bound: times the host reports a changed store
          LoginCasts,            \* bound: the sets of tasks that run together
          Old,              \* the session persisted by an earlier run
          NoSession, Corrupt, Failed, NoLogin, NoTask

\* A session is named for the task that brought it.
PairingSessions  == Logins \cup Externals \cup {Old}
Readers   == {Boot, Sync}
PairingTasks     == Logins \cup Externals \cup Logouts \cup Readers \cup {Peer}

\* The kinds of tasks are apart.
ASSUME TaskAssumption ==
  /\ Logins \cap Externals = {} /\ Logouts \cap (Logins \cup Externals) = {}
  /\ {Boot, Sync, Peer} \cap (Logins \cup Externals \cup Logouts) = {}
  /\ Boot # Sync /\ Peer \notin {Boot, Sync}

ASSUME SessionAssumption ==
  /\ MaxChanges \in Nat /\ Droppable \subseteq Logins
  /\ LoginCasts \subseteq SUBSET PairingTasks
  /\ {NoSession, Corrupt, Failed} \cap PairingSessions = {}
  /\ NoLogin \notin Logins /\ NoTask \notin PairingTasks

VARIABLES
  current,    \* the session of `session_state`
  external,   \* `external_session_active`
  stored,     \* the AuthSession slot of core storage
  auth,       \* the state of AuthStateMachine, and whose it is
  cancelled,  \* logins whose cancel channel was used
  fresh,      \* the task that holds the present lifecycle epoch, if one does
  valid,      \* the login that holds the present generation, if one does
  inFlight,   \* `login_in_flight`
  at,
  seen,       \* what a reader found in the slot
  activation, \* who holds `session_store_activation`
  secrets,    \* who holds `session_secret_storage`
  ticks,      \* change notifications the store sync has not taken
  changes,    \* bound: changes the host has reported
  streak,     \* `cleared_after_read_error`
  overtaken   \* history: activations in progress when the user logged out

lifecycle  == <<current, external, fresh>>
authVars   == <<auth, cancelled>>
loginVars  == <<valid, inFlight>>
syncVars   == <<ticks, changes, streak>>
lockVars   == <<activation, secrets>>
pairingVars == <<lifecycle, stored, authVars, loginVars, at, seen, lockVars, syncVars, overtaken>>

Off == [state |-> "Disconnected", of |-> NoSession]

PairingInit ==
  /\ current = NoSession /\ external = FALSE /\ fresh = {}
  /\ stored \in {NoSession, Old, Corrupt}
  /\ auth = Off /\ cancelled = {}
  /\ valid = {} /\ inFlight = NoLogin
  /\ \E cast \in LoginCasts :
       /\ at = [t \in PairingTasks |-> IF t \in cast THEN "idle" ELSE "done"]
       /\ ticks = IF Sync \in cast THEN 1 ELSE 0
  /\ seen = [t \in Readers |-> NoSession]
  /\ activation = NoTask /\ secrets = NoTask
  /\ changes = 0 /\ streak = FALSE
  /\ overtaken = {}

GoesTo(t, phase) == at' = [at EXCEPT ![t] = phase]

-----------------------------------------------------------------------------
(* What the host is shown.                                                 *)

LoginShown == auth.state \in {"Pairing", "Authenticating"}

\* The cancel channel of the login that is shown is used up.
CancelShown == cancelled' = IF LoginShown THEN cancelled \cup {auth.of} ELSE cancelled

ShowConnected(s) ==
  /\ CancelShown
  /\ auth' = [state |-> "Connected", of |-> s]

ShowCancelled ==
  /\ CancelShown
  /\ auth' = IF LoginShown \/ auth.state = "LoginFailed" THEN Off ELSE auth

ShowStoreDisconnected == auth' = IF LoginShown THEN auth ELSE Off

LoginFailed == [state |-> "LoginFailed", of |-> NoSession]

ShowFailed == auth' = IF LoginShown THEN LoginFailed ELSE auth

ShowFailedEarly ==
  auth' = IF LoginShown \/ auth.state = "Connected" THEN auth ELSE LoginFailed

ResetAbandoned(l) == auth' = IF LoginShown /\ auth.of = l THEN Off ELSE auth

-----------------------------------------------------------------------------
(* The lifecycle epoch.  It only ever grows, and a task compares the one   *)
(* it holds with the present one: all that matters is who holds the        *)
(* present one.                                                            *)

(* Operators whose name begins with Mis are no part of the model.  Each is *)
(* a plausible mistake in the operator it precedes; PROJECT.json says      *)
(* which property has to notice it.                                        *)

Advance(holders) == fresh' = holders /\ external' = FALSE

\* The first section of clear_disconnected_session.
BeginClear ==
  /\ Advance({})
  /\ current' = NoSession

-----------------------------------------------------------------------------
(* A login requested by a product.                                         *)

MisFinish(l, ok) ==  \* waiters are told of success only
  /\ inFlight' = NoLogin
  /\ at' = [t \in PairingTasks |-> IF t = l THEN "done"
                            ELSE IF at[t] = "waiting" /\ ok THEN "woken" ELSE at[t]]

\* The login leaves `login_in_flight`; those who wait for it look at the
\* session when it went well and report the error when it did not.
Finish(l, ok) ==
  /\ inFlight' = NoLogin
  /\ at' = [t \in PairingTasks |->
              IF t = l THEN "done"
              ELSE IF at[t] # "waiting" THEN at[t]
              ELSE IF ok THEN "woken" ELSE "done"]

RequestLogin(l) ==
  /\ at[l] = "idle"
  /\ \/ /\ current # NoSession
        /\ ShowConnected(current)
        /\ GoesTo(l, "done")
        /\ UNCHANGED loginVars
     \/ /\ current = NoSession /\ inFlight # NoLogin
        /\ GoesTo(l, "waiting")
        /\ UNCHANGED <<authVars, loginVars>>
     \/ /\ current = NoSession /\ inFlight = NoLogin
        /\ inFlight' = l /\ valid' = {l}
        /\ GoesTo(l, "preparing")
        /\ UNCHANGED authVars
  /\ UNCHANGED <<lifecycle, stored, seen, lockVars, syncVars, overtaken>>

\* A waiter answers by the session there is when it runs.
WaiterWakes(l) ==
  /\ at[l] = "woken"
  /\ GoesTo(l, "done")
  /\ UNCHANGED <<lifecycle, stored, authVars, loginVars, seen, lockVars, syncVars, overtaken>>

\* The device identity and the last processed statement, three or four
\* accesses to core storage, each of which may fail.
PrepareFails(l) ==
  /\ at[l] = "preparing"
  /\ ShowFailedEarly
  /\ Finish(l, FALSE)
  /\ UNCHANGED <<lifecycle, stored, cancelled, valid, seen, lockVars, syncVars, overtaken>>

StartPairing(l) ==
  /\ at[l] = "preparing"
  /\ \/ /\ LoginShown
        /\ Finish(l, FALSE)
        /\ UNCHANGED auth
     \/ /\ ~ LoginShown
        /\ auth' = [state |-> "Pairing", of |-> l]
        /\ GoesTo(l, "pairing")
        /\ UNCHANGED inFlight
  /\ UNCHANGED <<lifecycle, stored, cancelled, valid, seen, lockVars, syncVars, overtaken>>

\* The wallet's answer on the pairing topic: pending, success or refusal.
WalletAnswers(l) ==
  /\ at[l] = "pairing"
  /\ \/ /\ auth' = IF auth = [state |-> "Pairing", of |-> l]
                   THEN [auth EXCEPT !.state = "Authenticating"] ELSE auth
        /\ \/ GoesTo(l, "resolving")
           \/ auth' # auth /\ UNCHANGED at
        /\ UNCHANGED inFlight
     \/ /\ ShowFailed
        /\ Finish(l, FALSE)
  /\ UNCHANGED <<lifecycle, stored, cancelled, valid, seen, lockVars, syncVars, overtaken>>

Resolve(l) ==
  /\ at[l] = "resolving"
  /\ GoesTo(l, "persisting")
  /\ UNCHANGED <<lifecycle, stored, authVars, loginVars, seen, lockVars, syncVars, overtaken>>

Persist(l) ==
  /\ at[l] = "persisting"
  /\ \/ /\ stored' = l
        /\ GoesTo(l, "persisted")
        /\ UNCHANGED <<auth, inFlight>>
     \/ /\ ShowFailed
        /\ Finish(l, FALSE)
        /\ UNCHANGED stored
  /\ UNCHANGED <<lifecycle, cancelled, valid, seen, lockVars, syncVars, overtaken>>

\* Cancellation is one arm of every select of the flow.
FlowCancelled(l) ==
  /\ l \in cancelled
  /\ \/ at[l] \in {"pairing", "resolving"} /\ Finish(l, TRUE)
     \/ at[l] \in {"persisting", "persisted"} /\ GoesTo(l, "unpersisting") /\ UNCHANGED inFlight
  /\ UNCHANGED <<lifecycle, stored, authVars, valid, seen, lockVars, syncVars, overtaken>>

MisSucceed(l) ==  \* the generation is not looked at
  /\ at[l] = "persisted" /\ l \notin cancelled
  /\ Advance({l}) /\ GoesTo(l, "installing")
  /\ UNCHANGED <<current, stored, authVars, loginVars, seen, lockVars, syncVars, overtaken>>

\* The last look at the cancel channel, the comparison of generations and
\* the start of set_connected_session are one turn.
Succeed(l) ==
  /\ at[l] = "persisted" /\ l \notin cancelled
  /\ IF l \in valid
     THEN Advance({l}) /\ GoesTo(l, "installing")
     ELSE GoesTo(l, "unpersisting") /\ UNCHANGED <<fresh, external>>
  /\ UNCHANGED <<current, stored, authVars, loginVars, seen, lockVars, syncVars, overtaken>>

\* A login that was cancelled takes back what it persisted, or whatever
\* is in the slot by then.
Unpersist(l) ==
  /\ at[l] = "unpersisting"
  /\ stored' \in {stored, NoSession}
  /\ Finish(l, TRUE)
  /\ UNCHANGED <<lifecycle, authVars, valid, seen, lockVars, syncVars, overtaken>>

\* The product goes away and its request is dropped at an await: the guard of
\* request_session resets what the host is shown, LoginInFlightOwner tells
\* the waiters.
AbandonLogin(l) ==
  /\ l \in Droppable
  /\ \/ /\ at[l] \in {"waiting", "woken"}
        /\ GoesTo(l, "done")
        /\ UNCHANGED <<auth, inFlight>>
     \/ /\ at[l] \in {"pairing", "resolving", "persisting", "persisted", "unpersisting"}
        /\ ResetAbandoned(l)
        /\ Finish(l, FALSE)
     \/ /\ at[l] \in {"preparing", "installing"}
        /\ Finish(l, FALSE)
        /\ UNCHANGED auth
  /\ UNCHANGED <<lifecycle, stored, cancelled, valid, seen, lockVars, syncVars, overtaken>>

CancelLogin ==
  /\ valid # {} \/ LoginShown \/ auth.state = "LoginFailed"
  /\ valid' = {}
  /\ ShowCancelled
  /\ UNCHANGED <<lifecycle, stored, inFlight, at, seen, lockVars, syncVars, overtaken>>

-----------------------------------------------------------------------------
(* Sessions the host keeps, and the one in core storage.                   *)

\* A task leaves what it does under the activation lock.
Leave(t) ==
  /\ activation' = IF activation = t THEN NoTask ELSE activation
  /\ seen' = [u \in Readers |-> IF u = t THEN NoSession ELSE seen[u]]
  /\ IF t = Sync
     THEN GoesTo(t, "idle") /\ ticks' = ticks - 1 /\ streak' = (seen[Sync] = Failed)
     ELSE GoesTo(t, "done") /\ UNCHANGED <<ticks, streak>>

MisActivate(e) ==  \* the activation lock is not taken
  /\ at[e] = "idle"
  /\ Advance({e}) /\ GoesTo(e, "resolved")
  /\ UNCHANGED <<activation, current, stored, authVars, loginVars, seen, secrets, syncVars, overtaken>>

\* activate_external_session; a blob that does not decode changes nothing.
Activate(e) ==
  /\ at[e] = "idle" /\ activation = NoTask
  /\ \/ GoesTo(e, "done") /\ UNCHANGED <<activation, fresh, external>>
     \/ activation' = e /\ Advance({e}) /\ GoesTo(e, "resolved")
  /\ UNCHANGED <<current, stored, authVars, loginVars, seen, secrets, syncVars, overtaken>>

MisReconcileStored(t) ==  \* a session of the host's own puts the tick off
  /\ at[t] = "idle" /\ activation = NoTask
  /\ t = Sync => ticks > 0 /\ ~ external
  /\ activation' = t /\ GoesTo(t, "reading")
  /\ UNCHANGED <<lifecycle, stored, authVars, loginVars, seen, secrets, syncVars, overtaken>>

\* reconcile_stored_session; only the store sync leaves a session of the
\* host's own alone.
ReconcileStored(t) ==
  /\ at[t] = "idle" /\ activation = NoTask
  /\ t = Sync => ticks > 0
  /\ IF t = Sync /\ external
     THEN Leave(t)
     ELSE /\ activation' = t /\ GoesTo(t, "reading")
          /\ UNCHANGED <<seen, ticks, streak>>
  /\ UNCHANGED <<lifecycle, stored, authVars, loginVars, secrets, changes, overtaken>>

ReadStored(t) ==
  /\ at[t] = "reading"
  /\ \E found \in {stored, Failed} : seen' = [seen EXCEPT ![t] = found]
  /\ GoesTo(t, "read")
  /\ UNCHANGED <<lifecycle, stored, authVars, loginVars, lockVars, syncVars, overtaken>>

ReadDone(t) ==
  /\ at[t] = "read"
  /\ \/ /\ seen[t] \in PairingSessions
        /\ GoesTo(t, "identifying") /\ UNCHANGED lifecycle
     \/ /\ seen[t] \in {NoSession, Failed}
        /\ BeginClear /\ GoesTo(t, "guarding")
     \/ /\ seen[t] = Corrupt
        /\ BeginClear /\ GoesTo(t, "erasing")
  /\ UNCHANGED <<stored, authVars, loginVars, seen, lockVars, syncVars, overtaken>>

\* The slot is read again once the identity is resolved.
ReadAgain(t) ==
  /\ at[t] = "identifying"
  /\ \/ GoesTo(t, IF stored = seen[t] THEN "same" ELSE "changed") /\ UNCHANGED seen
     \/ GoesTo(t, "changed") /\ seen' = [seen EXCEPT ![t] = Failed]
  /\ UNCHANGED <<lifecycle, stored, authVars, loginVars, lockVars, syncVars, overtaken>>

Changed(t) ==
  /\ at[t] = "changed"
  /\ BeginClear /\ GoesTo(t, "guarding")
  /\ UNCHANGED <<stored, authVars, loginVars, seen, lockVars, syncVars, overtaken>>

\* A session whose identity was resolved anew is written back first, which
\* is an await; set_connected_session takes an epoch of its own.
SameStored(t) ==
  /\ \/ /\ at[t] = "same"
        /\ \/ GoesTo(t, "rewriting") /\ UNCHANGED <<fresh, external>>
           \/ Advance({t}) /\ GoesTo(t, "installing")
        /\ UNCHANGED stored
     \/ /\ at[t] = "rewriting"
        /\ stored' \in {stored, seen[t]}
        /\ Advance({t}) /\ GoesTo(t, "installing")
  /\ UNCHANGED <<current, authVars, loginVars, seen, lockVars, syncVars, overtaken>>

\* The identity of an external session is resolved.
Resolved(e) ==
  /\ at[e] = "resolved"
  /\ GoesTo(e, "installing")
  /\ UNCHANGED <<lifecycle, stored, authVars, loginVars, seen, lockVars, syncVars, overtaken>>

SessionOf(t) == IF t \in Readers THEN seen[t] ELSE t

\* set_connected_session_if_current, once the secrets of another session are
\* cleared under the secret storage lock.
InstallSession(t) ==
  /\ at[t] = "installing" /\ secrets = NoTask
  /\ IF t \in fresh
     THEN /\ current' = SessionOf(t) /\ external' = (t \in Externals)
          /\ ShowConnected(SessionOf(t))
     ELSE UNCHANGED <<current, external, authVars>>
  /\ IF t \in Logins
     THEN Finish(t, TRUE) /\ UNCHANGED <<activation, ticks, streak, seen>>
     ELSE Leave(t) /\ UNCHANGED inFlight
  /\ UNCHANGED <<stored, fresh, valid, secrets, changes, overtaken>>

-----------------------------------------------------------------------------
(* The end of a session.                                                   *)

\* disconnect and reset_session_state
Logout(t) ==
  /\ at[t] = "idle"
  /\ valid' = {} /\ ShowCancelled
  /\ BeginClear
  /\ GoesTo(t, "erasing")
  /\ overtaken' = overtaken \cup
       {u \in Logins \cup Externals : at[u] \notin {"idle", "done", "waiting", "woken"}}
  /\ UNCHANGED <<stored, inFlight, seen, lockVars, syncVars>>

\* handle_signing_host_disconnected for the session there is; for another
\* session it only wakes that session's waiters.
PeerGone ==
  /\ at[Peer] = "idle" /\ current # NoSession
  /\ BeginClear
  /\ GoesTo(Peer, "erasing")
  /\ UNCHANGED <<stored, authVars, loginVars, seen, lockVars, syncVars, overtaken>>

EraseStored(t) ==
  /\ at[t] = "erasing"
  /\ stored' \in {stored, NoSession}
  /\ GoesTo(t, "guarding")
  /\ UNCHANGED <<lifecycle, authVars, loginVars, seen, lockVars, syncVars, overtaken>>

Guard(t) ==
  /\ at[t] = "guarding" /\ secrets = NoTask
  /\ secrets' = t
  /\ GoesTo(t, "wiping")
  /\ UNCHANGED <<lifecycle, stored, authVars, loginVars, seen, activation, syncVars, overtaken>>

\* The secrets are gone.  A store that could not be read is cleared too, by
\* the sync once in a row.
Wiped(t) ==
  /\ at[t] = "wiping"
  /\ secrets' = NoTask
  /\ ShowStoreDisconnected
  /\ IF t \in Readers /\ seen[t] = Failed /\ (t = Sync => ~ streak)
     THEN GoesTo(t, "erasingUnread") /\ UNCHANGED <<activation, ticks, streak, seen>>
     ELSE Leave(t)
  /\ UNCHANGED <<lifecycle, stored, cancelled, loginVars, changes, overtaken>>

EraseUnread(t) ==
  /\ at[t] = "erasingUnread"
  /\ stored' \in {stored, NoSession}
  /\ Leave(t)
  /\ UNCHANGED <<lifecycle, authVars, loginVars, secrets, changes, overtaken>>

\* The host reports a change of the slot: by another runtime, or this one.
StoreChanged ==
  /\ changes < MaxChanges
  /\ changes' = changes + 1
  /\ stored' \in {stored, NoSession, Old}
  /\ Advance({})
  /\ ticks' = IF at[Sync] = "done" THEN ticks ELSE ticks + 1
  /\ UNCHANGED <<current, authVars, loginVars, at, seen, lockVars, streak, overtaken>>

-----------------------------------------------------------------------------
LoginStep(l) ==
  \/ WaiterWakes(l) \/ PrepareFails(l) \/ StartPairing(l) \/ Resolve(l)
  \/ Persist(l) \/ FlowCancelled(l) \/ Succeed(l) \/ Unpersist(l) \/ InstallSession(l)

ReaderStep(t) ==
  \/ ReadStored(t) \/ ReadDone(t) \/ ReadAgain(t) \/ Changed(t) \/ SameStored(t)
  \/ InstallSession(t) \/ EraseUnread(t)

ClearStep(t) == EraseStored(t) \/ Guard(t) \/ Wiped(t)

SystemStep ==
  \/ \E l \in Logins : LoginStep(l)
  \/ \E e \in Externals : Resolved(e) \/ InstallSession(e)
  \/ \E t \in Readers : ReaderStep(t)
  \/ \E t \in Logouts \cup Readers \cup {Peer} : ClearStep(t)
  \/ ReconcileStored(Sync)

OutsideStep ==
  \/ \E l \in Logins : RequestLogin(l) \/ WalletAnswers(l) \/ AbandonLogin(l)
  \/ \E e \in Externals : Activate(e)
  \/ \E t \in Logouts : Logout(t)
  \/ ReconcileStored(Boot) \/ PeerGone \/ CancelLogin \/ StoreChanged

PairingNext == SystemStep \/ OutsideStep

\* The executor polls whoever is woken, and storage and chain answer; nobody
\* owes a login a wallet.
PairingFairness == WF_pairingVars(SystemStep)

PairingSpec == PairingInit /\ [][PairingNext]_pairingVars /\ PairingFairness

-----------------------------------------------------------------------------
AuthStates == {"Disconnected", "Pairing", "Authenticating", "Connected", "LoginFailed"}

AtMostOne(S) == \A x, y \in S : x = y
Away == {"idle", "done"}
LoginSteps == {"waiting", "woken", "preparing", "pairing", "resolving", "persisting", "persisted",
               "unpersisting", "installing"}
ReaderSteps == {"reading", "read", "identifying", "same", "rewriting", "changed", "erasing",
                "guarding", "wiping", "erasingUnread", "installing"}

\* A holder of a lock is where the lock is held, and whoever is there holds it
\* (the async mutexes of PairingHost).
PairingTypeOK ==
  /\ current \in PairingSessions \cup {NoSession}
  /\ stored \in PairingSessions \cup {NoSession, Corrupt}
  /\ external \in BOOLEAN /\ (external => current \in Externals)
  /\ auth \in [state : AuthStates, of : PairingSessions \cup {NoSession}]
  /\ cancelled \subseteq Logins /\ overtaken \subseteq Logins \cup Externals
  /\ fresh \subseteq PairingTasks /\ AtMostOne(fresh)
  /\ valid \subseteq Logins /\ AtMostOne(valid)
  /\ inFlight \in Logins \cup {NoLogin}
  /\ DOMAIN at = PairingTasks
  /\ \A l \in Logins : at[l] \in Away \cup LoginSteps
  /\ \A e \in Externals : at[e] \in Away \cup {"resolved", "installing"}
  /\ \A t \in Logouts \cup {Peer} : at[t] \in Away \cup {"erasing", "guarding", "wiping"}
  /\ \A t \in Readers : at[t] \in Away \cup ReaderSteps
  /\ seen \in [Readers -> PairingSessions \cup {NoSession, Corrupt, Failed}]
  /\ \A t \in PairingTasks : at[t] = "wiping" <=> secrets = t
  /\ \A t \in Readers : at[t] \notin Away <=> activation = t
  /\ \A e \in Externals : at[e] \in {"resolved", "installing"} <=> activation = e
  /\ {activation, secrets} \subseteq PairingTasks \cup {NoTask}
  /\ ticks \in Nat /\ changes \in 0 .. MaxChanges /\ streak \in BOOLEAN

\* Requests for a login share one: whoever is neither answered nor waiting is
\* the login in flight, and whoever waits has one to wait for, however that
\* one ends (login_waiter, LoginInFlightOwner).
OneLoginForAll ==
  \A l \in Logins :
    /\ at[l] \notin {"idle", "done", "waiting", "woken"} <=> inFlight = l
    /\ at[l] = "waiting" => inFlight # NoLogin

\* What was on its way to become the session when the user logged out does
\* not become it: a login by its generation and the epoch, an external session
\* by the epoch it took before its identity was looked up.
LoggedOutStaysOut ==
  [][\A t \in overtaken : at[t] # at'[t] => current' \in {current, NoSession}]_pairingVars

\* The store sync never takes away a session of the host's own that was
\* installed after the change it answers, although it decides before it reads
\* and resolves (session_store_activation, external_session_active).
SyncSparesExternal ==
  [][(at[Sync] # at'[Sync] \/ ticks' < ticks) /\ external => current' = current /\ external']_pairingVars

\* Whoever has begun comes to an end and the locks are free, but for a login
\* nobody answers with a wallet and those who wait for it.
Settled ==
  /\ \A t \in PairingTasks : at[t] \in {"idle", "done", "pairing", "waiting"}
  /\ (\E l \in Logins : at[l] = "waiting") => \E l \in Logins : at[l] = "pairing"
  /\ activation = NoTask /\ secrets = NoTask /\ ticks = 0
EverythingSettles == <>[]Settled

\* "the flow owns its own terminal transition" (auth_state.rs:158): a login
\* that is shown, as a QR code or as being completed, is in flight.
ShownLoginIsInFlight == LoginShown => inFlight = auth.of

=============================================================================
