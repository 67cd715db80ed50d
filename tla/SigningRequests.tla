----------------------------- MODULE SigningRequests -----------------------------
(***************************************************************************)
(* What a product's request goes through in a signing host before a key is *)
(* used for it: the handlers of runtime.rs, which check, ask and confirm,  *)
(* and the operations of signing_host.rs they end in, which look at the    *)
(* session and read the root entropy, each at a moment of its own, while   *)
(* the host unlocks, locks and swaps wallets and clears products.          *)
(*                                                                         *)
(* A request runs through the steps of its operation.  The steps that wait *)
(* for somebody end a turn of the executor; on native hosts, where unlock  *)
(* and lock run on the caller's thread, there are other steps between any  *)
(* two (threads).                                                          *)
(***************************************************************************)
EXTENDS Naturals, Sequences, FiniteSets

CONSTANTS Requests, Wallets, Products, NoWallet, NoSnapshot, Nothing,
          ProductOf,     \* the product each request is made by
          Casts,         \* bound: what the requests may ask for
          MaxGeneration  \* bound: times the host changes or clears something

ASSUME RequestAssumption ==
  /\ ProductOf \in [Requests -> Products]
  /\ NoWallet \notin Wallets /\ NoSnapshot \notin [wallet : Wallets, generation : Nat]
  /\ MaxGeneration \in Nat

-----------------------------------------------------------------------------
(* The operations of the account authority: "require" compares the session *)
(* with the one the request began with, "key" reads the root entropy,      *)
(* "wait" is an await on storage or a chain, "use" is what the request is  *)
(* for.                                                                    *)

(* Operators whose name begins with Mis are no part of the model.  Each is *)
(* a plausible mistake in the operator it precedes; PROJECT.json says      *)
(* which property has to notice it.                                        *)

Derive      == <<"require", "key", "use">>          \* product_subtree_public_key
Sign        == <<"require", "key", "use">>          \* sign_payload
SignBytes   == <<"key", "require", "use">>          \* sign_raw
Build       == <<"require", "key", "wait", "use">>  \* create_transaction, version 5
SignWithVrf == <<"require", "key", "autosign", "confirm", "use">>
Alias       == <<"require", "access", "require", "wait", "require", "key", "wait", "use">>
Prove       == <<"require", "wait", "require", "key", "wait", "require", "use">>
Register    == <<"require", "wait", "require", "key", "wait", "use">>
ListKeys    == <<"require", "access", "wait", "use">>
SignInRing  == <<"require", "wait", "require", "key", "use">>
Statement   == <<"require", "key", "use">>          \* sign_statement_store_product_payload
Entropy     == <<"require", "key", "use">>          \* derive_entropy
Grant       == <<"require", "require", "key", "grant">>
StatementAllowance == <<"key", "key", "wait">>
BulletinAllowance  == <<"key", "wait", "key", "wait">>

(* The handlers.  "own" is the check that the account is the product's,    *)
(* "session" takes the snapshot; "upload" and "deliver" are what the       *)
(* handler itself does with the answer of the call.                        *)

MisSignPayload == [gate |-> <<"own", "submit", "session">>, call |-> Sign]

SignPayload == [gate |-> <<"own", "submit", "session", "confirm">>, call |-> Sign]

SignRaw           == [gate |-> <<"own", "submit", "session", "confirm">>, call |-> SignBytes]
CreateTransaction == [gate |-> <<"own", "submit", "session", "confirm">>, call |-> Build]

\* classify_legacy_signer derives the product's account to compare with; the
\* requests for the identity account skip that.
Classify == <<"require", "key", "own">>
SignPayloadLegacy ==
  [gate |-> <<"session">> \o Classify \o <<"submit", "confirm">>, call |-> Sign]
SignRawLegacy ==
  [gate |-> <<"session">> \o Classify \o <<"submit", "confirm">>, call |-> SignBytes]
CreateTransactionLegacy ==
  [gate |-> <<"session">> \o Classify \o <<"submit", "confirm">>, call |-> Build]

GetAccount         == [gate |-> <<"own", "session">>, call |-> Derive]
GetOtherAccount    == [gate |-> <<"session", "access">>, call |-> Derive]
GetAccountAlias    == [gate |-> <<"session">>, call |-> Alias]
CreateAccountProof == [gate |-> <<"own", "session">>, call |-> Prove]
RegisterRingVrfKey == [gate |-> <<"session">>, call |-> Register]
ListRingVrfKeys    == [gate |-> <<"session", "own">>, call |-> ListKeys]
RingVrfSign        == [gate |-> <<"session", "own">>, call |-> SignInRing]
SignVrf            == [gate |-> <<"own", "session">>, call |-> SignWithVrf]
GetUserId          == [gate |-> <<"session", "identity", "use">>, call |-> <<>>]
DeriveEntropy      == [gate |-> <<"session">>, call |-> Entropy]
AllocateResource   == [gate |-> <<"session", "confirm">>,
                       call |-> <<"require">> \o BulletinAllowance \o <<"use">>]
AllocateAutoSigning == [gate |-> <<"session", "confirm">>, call |-> Grant]
SubmitPreimage     == [gate |-> <<"session", "preimage", "confirm">>,
                       call |-> <<"require">> \o BulletinAllowance \o <<"upload", "require">>
                                \o BulletinAllowance \o <<"upload", "deliver">>]
BroadcastTransaction == [gate |-> <<"submit", "wait", "use">>, call |-> <<>>]
NavigateTo         == [gate |-> <<"remote", "wait", "use">>, call |-> <<>>]
SubmitStatement    == [gate |-> <<"statement", "wait", "use">>, call |-> <<>>]
ProveStatement     == [gate |-> <<"own", "session", "require", "key">>, call |-> Statement]
ProveAuthorizedStatement ==
  [gate |-> <<"session">>, call |-> <<"require">> \o StatementAllowance \o <<"deliver">>]

Operation ==
  [sign_payload |-> SignPayload, sign_raw |-> SignRaw,
   create_transaction |-> CreateTransaction,
   sign_payload_legacy |-> SignPayloadLegacy, sign_raw_legacy |-> SignRawLegacy,
   create_transaction_legacy |-> CreateTransactionLegacy,
   get_account |-> GetAccount, get_other_account |-> GetOtherAccount,
   get_account_alias |-> GetAccountAlias, create_account_proof |-> CreateAccountProof,
   register_ring_vrf_key |-> RegisterRingVrfKey, list_ring_vrf_keys |-> ListRingVrfKeys,
   ring_vrf_sign |-> RingVrfSign, sign_vrf |-> SignVrf, get_user_id |-> GetUserId,
   derive_entropy |-> DeriveEntropy, allocate |-> AllocateResource,
   auto_signing |-> AllocateAutoSigning, submit_preimage |-> SubmitPreimage,
   broadcast |-> BroadcastTransaction, navigate |-> NavigateTo,
   submit_statement |-> SubmitStatement, prove_statement |-> ProveStatement,
   prove_authorized |-> ProveAuthorizedStatement]

Kinds       == DOMAIN Operation
Permissions == {"submit", "preimage", "statement", "remote", "access", "identity"}
Awaiting    == Permissions \cup {"confirm", "wait", "upload"}

ASSUME CastAssumption == Casts \subseteq [Requests -> Kinds \cup {Nothing}]

-----------------------------------------------------------------------------
VARIABLES
  threads,     \* whether other threads' steps come between the steps of a turn
  wallet,      \* whose root entropy and session there is
  generation,  \* `activation_generation`
  grants,      \* `auto_signing_grants`
  consent,     \* the decisions about the requests' permissions in core storage
  asks,        \* what each request asks for
  pc,          \* the step it is at
  snapshot,    \* the session it began with
  keys,        \* the wallets whose entropy it has read
  outcome,     \* open, late (answered, in its grace), done, refused or cancelled
  approved,    \* history: what it was let through
  unseated,    \* history: requests that used a session that had ended
  fenced       \* history: requests whose session or product was cleared since
               \* they began

hostVars    == <<wallet, generation, grants>>
requestVars == <<pc, snapshot, keys, outcome>>
history     == <<approved, unseated, fenced>>
vars == <<threads, hostVars, consent, asks, requestVars, history>>

Steps(r)   == Operation[asks[r]].gate \o Operation[asks[r]].call
Step(r)    == Steps(r)[pc[r]]
InCall(r)  == pc[r] > Len(Operation[asks[r]].gate)
Open(r)    == outcome[r] \in {"open", "late"}
Needed     == {p \in Permissions : \E r \in Requests :
                 asks[r] # Nothing /\ p \in {Steps(r)[i] : i \in DOMAIN Steps(r)}}

\* A request in the middle of a turn keeps everybody else waiting, unless
\* they run on other threads.
InTurn(r)     == Open(r) /\ pc[r] > 1 /\ Step(r) \notin Awaiting
Scheduled(r)  == threads \/ \A q \in Requests \ {r} : ~ InTurn(q)
BetweenTurns  == threads \/ \A q \in Requests : ~ InTurn(q)

Init ==
  /\ threads \in BOOLEAN
  /\ wallet \in Wallets \cup {NoWallet} /\ generation = 0 /\ grants = {}
  /\ asks \in Casts
  /\ consent = [p \in Permissions |-> "none"]
  /\ pc = [r \in Requests |-> 1]
  /\ snapshot = [r \in Requests |-> NoSnapshot]
  /\ keys = [r \in Requests |-> {}]
  /\ outcome = [r \in Requests |-> IF asks[r] = Nothing THEN "done" ELSE "open"]
  /\ approved = [r \in Requests |-> {}]
  /\ unseated = {} /\ fenced = {}

\* The snapshot is of the session there is: the same wallet, activated once
\* more, is another session.
Live(r) ==
  wallet # NoWallet /\ snapshot[r] = [wallet |-> wallet, generation |-> generation]

GoTo(r, step) ==
  /\ pc' = [pc EXCEPT ![r] = step]
  /\ outcome' = [outcome EXCEPT ![r] =
       IF step <= Len(Steps(r)) THEN @ ELSE IF @ = "open" THEN "done" ELSE "cancelled"]

Continue(r) == GoTo(r, pc[r] + 1)

End(r, how) == outcome' = [outcome EXCEPT ![r] = how] /\ UNCHANGED pc

At(r, steps) == Open(r) /\ Step(r) \in steps /\ Scheduled(r)

-----------------------------------------------------------------------------
(* The steps of a request.                                                 *)

\* is_product_account_valid_for_caller, and the other checks of the input
CheckOwn(r) ==
  /\ At(r, {"own"})
  /\ Continue(r) \/ End(r, "refused")
  /\ UNCHANGED <<threads, hostVars, consent, asks, snapshot, keys, history>>

\* current_local_session
TakeSnapshot(r) ==
  /\ At(r, {"session"})
  /\ IF wallet = NoWallet
     THEN End(r, "refused") /\ UNCHANGED snapshot
     ELSE /\ snapshot' = [snapshot EXCEPT ![r] = [wallet |-> wallet, generation |-> generation]]
          /\ Continue(r)
  /\ UNCHANGED <<threads, hostVars, consent, asks, keys, history>>

\* check_or_prompt_remote, account_access_authorization and
\* identity_disclosure_authorization: what is decided stands, else the user is
\* asked; a prompt that fails decides nothing.
Permit(r) ==
  /\ At(r, Permissions)
  /\ LET p == Step(r) IN
     \/ /\ consent[p] # "denied"
        /\ consent' = [consent EXCEPT ![p] = "granted"]
        /\ approved' = [approved EXCEPT ![r] = @ \cup {p}]
        /\ Continue(r)
     \/ /\ consent' \in IF consent[p] = "none"
                        THEN {consent, [consent EXCEPT ![p] = "denied"]} ELSE {consent}
        /\ End(r, "refused")
        /\ UNCHANGED approved
  /\ UNCHANGED <<threads, hostVars, asks, snapshot, keys, unseated, fenced>>

\* confirm_user_action
Confirm(r) ==
  /\ At(r, {"confirm"})
  /\ \/ approved' = [approved EXCEPT ![r] = @ \cup {"confirm"}] /\ Continue(r)
     \/ End(r, "refused") /\ UNCHANGED approved
  /\ UNCHANGED <<threads, hostVars, consent, asks, snapshot, keys, unseated, fenced>>

\* Storage or a chain answers, or fails.
Wait(r) ==
  /\ At(r, {"wait"})
  /\ Continue(r) \/ End(r, "refused")
  /\ UNCHANGED <<threads, hostVars, consent, asks, snapshot, keys, history>>

\* require_current_session
Require(r) ==
  /\ At(r, {"require"})
  /\ IF Live(r) THEN Continue(r) ELSE End(r, "refused")
  /\ UNCHANGED <<threads, hostVars, consent, asks, snapshot, keys, history>>

\* root_entropy, which does not know whom it is read for
ReadKey(r) ==
  /\ At(r, {"key"})
  /\ IF wallet = NoWallet
     THEN End(r, "refused") /\ UNCHANGED keys
     ELSE keys' = [keys EXCEPT ![r] = @ \cup {wallet}] /\ Continue(r)
  /\ UNCHANGED <<threads, hostVars, consent, asks, snapshot, history>>

\* has_auto_signing_grant: with a grant of this activation nobody is asked.
AutoSign(r) ==
  /\ At(r, {"autosign"})
  /\ IF /\ snapshot[r].generation = generation
        /\ \E w \in keys[r] : <<w, ProductOf[r]>> \in grants
     THEN /\ GoTo(r, pc[r] + 2)
          /\ approved' = [approved EXCEPT ![r] = @ \cup {"granted"}]
          /\ unseated' = IF Live(r) THEN unseated ELSE unseated \cup {r}
     ELSE Continue(r) /\ UNCHANGED <<approved, unseated>>
  /\ UNCHANGED <<threads, hostVars, consent, asks, snapshot, keys, fenced>>

\* The end of grant_auto_signing: the key is the session's, and the
\* generation still the one that was required.
GrantAutoSigning(r) ==
  /\ At(r, {"grant"})
  /\ IF keys[r] = {snapshot[r].wallet} /\ snapshot[r].generation = generation
     THEN grants' = grants \cup {<<snapshot[r].wallet, ProductOf[r]>>} /\ Continue(r)
     ELSE End(r, "refused") /\ UNCHANGED grants
  /\ UNCHANGED <<threads, wallet, generation, consent, asks, snapshot, keys, history>>

\* bulletin.submit_preimage: accepted, failed, or the allowance is rejected;
\* a rejected allowance is allocated anew once.
Upload(r) ==
  /\ At(r, {"upload"}) /\ outcome[r] = "open"
  /\ \/ GoTo(r, Len(Steps(r)))
     \/ End(r, "refused")
     \/ pc[r] + 1 < Len(Steps(r)) /\ Continue(r)
  /\ UNCHANGED <<threads, hostVars, consent, asks, snapshot, keys, history>>

\* A signature, a derived value, an entry of the registry, a disclosure.
Use(r) ==
  /\ At(r, {"use", "deliver"})
  /\ Step(r) = "deliver" => outcome[r] = "open"
  /\ Continue(r)
  /\ unseated' = IF snapshot[r] = NoSnapshot \/ Live(r) THEN unseated ELSE unseated \cup {r}
  /\ UNCHANGED <<threads, hostVars, consent, asks, snapshot, keys, approved, fenced>>

MisExpire(r) ==  \* the user is waited for as long as he likes
  /\ outcome[r] = "open" /\ InCall(r) /\ Step(r) \in Awaiting \ {"confirm", "access"}
  /\ Scheduled(r)
  /\ End(r, "late")
  /\ UNCHANGED <<threads, hostVars, consent, asks, snapshot, keys, history>>

\* remote_authority_call: the deadline every call of the authority gets, the
\* request's own or a default, or the request's cancellation.  The product is
\* answered; the call goes on, for a grace.
Expire(r) ==
  /\ outcome[r] = "open" /\ InCall(r) /\ Step(r) \in Awaiting /\ Scheduled(r)
  /\ End(r, "late")
  /\ UNCHANGED <<threads, hostVars, consent, asks, snapshot, keys, history>>

\* The grace is over and the call is dropped, or it returned to a handler
\* that no longer listens.
Unwind(r) ==
  /\ outcome[r] = "late" /\ Step(r) \in Awaiting \cup {"deliver"} /\ Scheduled(r)
  /\ End(r, "cancelled")
  /\ UNCHANGED <<threads, hostVars, consent, asks, snapshot, keys, history>>

-----------------------------------------------------------------------------
(* The host.                                                               *)

\* Requests that have begun with a session, this one or an earlier one.
Begun == {r \in Requests : snapshot[r] # NoSnapshot}

MisActivate(w) ==  \* the grants of the session before outlive it
  /\ BetweenTurns /\ generation < MaxGeneration
  /\ wallet' = w /\ generation' = generation + 1
  /\ fenced' = fenced \cup Begun
  /\ UNCHANGED <<threads, grants, consent, asks, requestVars, approved, unseated>>

\* activate_local_session, install_local_session
Activate(w) ==
  /\ BetweenTurns /\ generation < MaxGeneration
  /\ wallet' = w /\ generation' = generation + 1 /\ grants' = {}
  /\ fenced' = fenced \cup Begun
  /\ UNCHANGED <<threads, consent, asks, requestVars, approved, unseated>>

\* disconnect, clear_local_session
Disconnect ==
  /\ BetweenTurns /\ generation < MaxGeneration
  /\ wallet' = NoWallet /\ generation' = generation + 1 /\ grants' = {}
  /\ fenced' = fenced \cup Begun
  /\ UNCHANGED <<threads, consent, asks, requestVars, approved, unseated>>

MisClearProduct(p) ==  \* the grants go, but what is on its way is not fenced off
  /\ BetweenTurns /\ generation < MaxGeneration
  /\ grants' = {g \in grants : g[2] # p}
  /\ fenced' = fenced \cup {r \in Begun : ProductOf[r] = p}
  /\ UNCHANGED <<threads, wallet, generation, consent, asks, requestVars, approved, unseated>>

\* clear_product_state, revoke_product: every session snapshot is outdated.
ClearProduct(p) ==
  /\ BetweenTurns /\ generation < MaxGeneration
  /\ generation' = generation + 1
  /\ grants' = {g \in grants : g[2] # p}
  /\ fenced' = fenced \cup {r \in Begun : ProductOf[r] = p}
  /\ UNCHANGED <<threads, wallet, consent, asks, requestVars, approved, unseated>>

\* set_permission_authorization_status
SetConsent(p, decision) ==
  /\ BetweenTurns /\ consent[p] # decision
  /\ consent' = [consent EXCEPT ![p] = decision]
  /\ UNCHANGED <<threads, hostVars, asks, requestVars, history>>

-----------------------------------------------------------------------------
RunStep(r) ==
  \/ CheckOwn(r) \/ TakeSnapshot(r) \/ Require(r) \/ ReadKey(r) \/ AutoSign(r)
  \/ GrantAutoSigning(r) \/ Use(r)

AnswerStep(r) == Permit(r) \/ Confirm(r) \/ Wait(r) \/ Upload(r)

HostStep ==
  \/ \E w \in Wallets : Activate(w)
  \/ Disconnect
  \/ \E p \in Products : ClearProduct(p)
  \/ \E p \in Needed, decision \in {"none", "granted", "denied"} : SetConsent(p, decision)

Next ==
  \/ \E r \in Requests : RunStep(r) \/ AnswerStep(r) \/ Expire(r) \/ Unwind(r)
  \/ HostStep

\* The executor runs whoever is woken and its timers fire; the user, the
\* storage and the chains answer when they like.
Fairness == WF_vars(\E r \in Requests : RunStep(r) \/ Expire(r) \/ Unwind(r))

Spec == Init /\ [][Next]_vars /\ Fairness

-----------------------------------------------------------------------------
Decisions == {"none", "granted", "denied"}
Snapshots == [wallet : Wallets, generation : Nat]

TypeOK ==
  /\ threads \in BOOLEAN
  /\ wallet \in Wallets \cup {NoWallet} /\ generation \in Nat
  /\ grants \subseteq Wallets \X Products
  /\ consent \in [Permissions -> Decisions]
  /\ asks \in Casts
  /\ pc \in [Requests -> Nat]
  /\ snapshot \in [Requests -> Snapshots \cup {NoSnapshot}]
  /\ keys \in [Requests -> SUBSET Wallets]
  /\ outcome \in [Requests -> {"open", "late", "done", "refused", "cancelled"}]
  /\ unseated \subseteq Requests /\ fenced \subseteq Requests

\* The operations that read a key and use it with no await in between, or
\* look at the session again after the last one.
LookAgain == Kinds \ {"create_transaction", "create_transaction_legacy", "get_account_alias",
                      "register_ring_vrf_key", "list_ring_vrf_keys", "sign_vrf", "get_user_id",
                      "allocate", "submit_preimage", "prove_authorized"}

\* Where requests run on one executor, none of these uses a session that has
\* ended nor the key of a wallet other than its session's, whatever the user
\* took his time over (require_current_session).
UsesItsOwnSession ==
  ~ threads => \A r \in Requests : asks[r] \in LookAgain =>
    /\ r \notin unseated
    /\ outcome[r] = "done" /\ snapshot[r] # NoSnapshot => keys[r] \subseteq {snapshot[r].wallet}

\* Whatever the threads do, a grant of automatic signing belongs to the wallet
\* that is unlocked: it is never carried over a lock or a change of wallets
\* (advance_activation, grant_auto_signing).
GrantsAreTheWallets == \A g \in grants : g[1] = wallet

\* A request whose session ended, or whose product was cleared, after it
\* began grants nothing any more, although it was confirmed and may have
\* passed its checks (revoke_product, grant_auto_signing).
FencedWorkGrantsNothing ==
  [][\A r \in fenced : pc'[r] # pc[r] => grants' \subseteq grants]_vars

\* What the user has to let pass before a request takes effect: transactions
\* and signatures need a permission and a confirmation; broadcasts, statements,
\* preimages, navigation to external pages, the identity and other products'
\* accounts the permission of their own (require_remote_permission,
\* confirm_user_action).
Wanted(kind) ==
  CASE kind \in {"sign_payload", "sign_raw", "create_transaction", "sign_payload_legacy",
                 "sign_raw_legacy", "create_transaction_legacy"} -> {"submit", "confirm"}
    [] kind \in {"allocate", "auto_signing"} -> {"confirm"}
    [] kind = "submit_preimage" -> {"preimage", "confirm"}
    [] kind = "broadcast" -> {"submit"}
    [] kind = "submit_statement" -> {"statement"}
    [] kind = "navigate" -> {"remote"}
    [] kind = "get_user_id" -> {"identity"}
    [] kind \in {"get_other_account", "get_account_alias"} -> {"access"}
    [] OTHER -> {}

\* The request has got as far as to sign, submit, disclose, grant or deliver.
TakesEffect(r) ==
  \E i \in 1..Len(Steps(r)) : i <= pc[r] /\ Steps(r)[i] \in {"use", "grant", "upload", "deliver"}

\* The user has confirmed the grant to a request of the product that began
\* with the wallet's session, and neither was cleared since.
Vouched(w, p) ==
  \E q \in Requests :
    /\ asks[q] = "auto_signing" /\ ProductOf[q] = p /\ "confirm" \in approved[q]
    /\ snapshot[q] # NoSnapshot /\ snapshot[q].wallet = w /\ q \notin fenced

\* Nothing is signed, submitted or disclosed that the user has not let pass,
\* also by a call that goes on in its grace when the product has its answer
\* already.  A VRF signature nobody was asked about rests on a grant, and at
\* every moment there is a confirmation behind each grant that no lock, change
\* of wallets or clearing has come after (has_auto_signing_grant).
NothingUnapproved ==
  /\ \A r \in Requests : asks[r] # Nothing /\ TakesEffect(r) =>
       /\ Wanted(asks[r]) \subseteq approved[r]
       /\ asks[r] = "sign_vrf" => approved[r] \cap {"confirm", "granted"} # {}
  /\ \A g \in grants : Vouched(g[1], g[2])

\* A call of the authority comes to an end though neither the user, nor the
\* storage, nor a chain ever answers.
CallsEnd == \A r \in Requests : (asks[r] # Nothing /\ InCall(r)) ~> ~ Open(r)

\* "a snapshot taken before user confirmation must still be the current
\* authority session when the signature or derivation happens, otherwise the
\* request is rejected" (authority.rs:521).
SessionLiveWhenUsed == unseated = {}

=============================================================================
