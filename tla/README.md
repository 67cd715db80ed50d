# TLA+ models of the truapi host runtime

truapi lets a *product* (a web application in a sandbox) talk to a *host* (desktop, iOS,
Android, browser or CLI) over a framed wire protocol. The host side is one Rust crate,
`rust/crates/truapi-server`; it dispatches request and subscription frames, keeps the
subscriptions of each connection, talks to chains over JSON-RPC connections the platform
provides, and keeps the user's paired or local session. These modules model the parts of that
crate whose correctness depends on interleavings, with the product's end of the protocol where
it matters, check them with TLC on small instances, and prove the safety of each with TLAPS for
every instance.

All paths below are relative to the repository's root; file names without a path are in
`rust/crates/truapi-server/src/`.

## 1. Inventory

| component | state it keeps | operations | hard behaviour | what makes it correct |
|---|---|---|---|---|
| Subscription manager and dispatcher (`subscription.rs`, `dispatcher.rs`) | `active`: request id to slot (`Pending` with generation and `cancelled`, `Live` with generation and cancel closure); a generation counter; one oneshot per pump | `reserve`, `activate` and its pump, `cancel_reservation`, `handle_stop`, `cancel_all`; `dispatch` of `_start`, `_stop`, requests | handlers resolve in any order, ids are reused, stops arrive during a handler, pumps run on other threads | no stream that a stop cannot reach; newest `_start` wins; a stop is final; one terminating interrupt |
| Product runtime (`host_core.rs`) | `disposed`, `in_flight` (abort handles), one dispatcher | `receive_frame`, `dispose`, `SinkTransport::send` | dispose between any two steps of a frame; three embedders with different interleavings | nothing streams after dispose; dispose releases everything |
| WebSocket bridge (`ws_bridge.rs`, `native.rs`) | join handles, outbound queue and its `closed` flag per connection, `product_control` | accept, handshake, frame tasks, pump, stop | task per frame, abort at any await, full queue, cap | what the peer gets has no gap, stop stops |
| CLI frame server (`rust/crates/truapi-host-cli/src/frame_server.rs`), WASM ingress (`wasm.rs`) | the same runtime under other schedulers | read loop; JS callbacks | a handler that waits delays the loop | as the product runtime |
| Host-initiated subscriptions and chat (`subscription.rs`, `native_renderer.rs`, `runtime/chat.rs`; product's end in `js/packages/truapi/src/client.ts`) | slot table and streams on one side, routes, instances and buffered starts on the other; chat's action buffer | start, trees, stop, interrupt, close, handlers set and unset | either side ends while the other is told of something else; the buffer is full | both sides agree on what is open; the observer hears of every end |
| Host JSON-RPC client (`host_rpc_client.rs`) | `pending`, `subscriptions`, `buffered_subscription_items`, `user_handles`, `closed` | request, subscribe, unsubscribe, response loop, `close_with_error` | notifications before the acknowledgement, close against request, dropped futures | nobody waits for ever on a closed client; items in order; leases count |
| Chain runtime (`chain_runtime.rs`) | connections by genesis hash with shared attempts, follows, follow setups, operations | follow, unfollow, headers and storage calls, transaction broadcast and stop | single-flight whose driver is dropped, entries replaced while a task is under way | one connection per chain, no stale removal, requests wait for the setup of their follow |
| Pairing session and auth state (`runtime/pairing_host.rs`, `runtime/auth_state.rs`, `runtime/sso_pairing.rs`) | session, login in progress, generation, stored session, emitted state | login, cancel, disconnect, activation, store sync | store reads over awaits, replaced sessions | one login for all who ask, a logout is not undone, the sync spares the host's own sessions |
| Session secrets (same files, `runtime/pairing_host/sso_channel.rs`) | allowance keys, product subtrees, automatic-signing keys, in memory and in core storage; an epoch; a lock held across awaits | fetch, keep, look up, evict; connect, disconnect, clear a product | a secret granted for what ended meanwhile | memory is the session's, nothing is kept across the fence that removed it |
| SSO channel, remote and responder (`runtime/pairing_host/sso_channel.rs`, `runtime/sso_remote.rs`, `runtime/signing_host/sso_responder.rs`) | waiters, expiry counter; served ids | submit, wait, acknowledge, answer, cancel | statements replaced, repeated, out of order; disconnection and cancellation races | each answer is the call's, each request executed once a run, all calls end |
| Signing host (`runtime/signing_host.rs`, `runtime/authority.rs`, `runtime.rs`) | root entropy, session, generation, consents, automatic-signing grants | the requests of products; unlock, lock, swap, clear | confirmation takes as long as the user likes, native hosts unlock and lock from other threads | grants are the unlocked wallet's, nothing happens unapproved |
| Permissions (`host_logic/permissions.rs`) | one slot of core storage per permission or bundle | request, look, set | an await at every slot | what a request is told is what the user decided; one prompt |
| Statement allowances (`runtime/statement_allowance*`, `runtime/signing_host/allowance_renewal.rs`) | the ledger of promised accounts, two locks, the chain's slots | allocate, track, renew | a submission outlives the call that made it | no promise lost, no race for a slot, the promised accounts are renewed |
| Chain clients (`runtime/statement_store*.rs`, `runtime/bulletin_rpc.rs`, `runtime/identity.rs`, ...) | caches | requests over the components above | retries | - |
| JavaScript worker (`js/packages/truapi-host/src/worker-core-registry.ts`) | the cores and their tracked frames | dispatch a frame, dispose and free | a frame that borrows the core outlives dispose | the core is freed when nothing borrows it |
| Services, codecs, API, code generator, container, mobile bindings, playground | see `PROJECT.json` | | | |

How they interact. A frame enters through an embedder (bridge, WASM, CLI), goes to
`ProductRuntime::receive_frame`, to `Dispatcher::dispatch`, to the generated handler and so to
the runtime's services. A subscription handler returns a stream; `SubscriptionManager::activate`
spawns a pump that turns items into frames, which leave through `SinkTransport` and the
embedder's frame sink. Chain streams come out of `ChainRuntime`, which is a client of
`HostRpcClient`, which is a client of the platform's connection. A request that needs a key
passes the permission slots and the user, and is then served either by the local signing host or,
on a pairing host, by the wallet at the other end of the statement store, whose responder runs the
same signing host. Authentication state flows the other way, from the session to the platform's
callbacks.

`PROJECT.json` lists every component with its status, and the hazards: the places where an order
of steps nobody wrote a test for could do damage, each at its line and with the properties that
look at it.

## 2. The modules

| module | models | notes |
|---|---|---|
| `SubscriptionContract` | what a product is promised about its subscriptions | no slots, generations or locks |
| `SubscriptionManager` | `subscription.rs` with the `_start` and `_stop` branches of `dispatcher.rs` | implements the contract |
| `ProductRuntime` | `host_core.rs`, around an instance of `SubscriptionManager` | the embedder is a variable |
| `WsBridge` | `ws_bridge.rs` as `native.rs` runs it | a runtime is one subscription here |
| `HostInitiated` | the host's and the product's end of subscriptions the host opens | two sides and the connection between |
| `HostRpcClient` | `host_rpc_client.rs` | the chain is external |
| `ChainRuntime` | `chain_runtime.rs` on one chain | connection, follows, follow-bound requests |
| `ChainCallers` | transactions and the Subxt client of the same file | extends `ChainRuntime`, whose connection they share |
| `PairingSession` | sessions and logins of a pairing host | tasks of one executor |
| `SessionSecrets` | the secrets kept for a session | memory and storage |
| `SsoExchange` | a pairing host's requests to its wallet | both ends and the store |
| `SigningRequests` | what a request passes before a key is used | steps of 24 operations |
| `PermissionSlots` | the decisions in storage and the requests that read them | |
| `StatementAllowances` | allocation, ledger and renewal | the chain's slots are external |

A module `...Proofs` holds the theorems about the module it is named after (section 5). Three hold those
of neighbours as well: `ProductRuntimeProofs` also of `HostInitiated` and `WsBridge`,
`HostRpcClientProofs` also of `ChainRuntime` and `ChainCallers`, and `PairingHostProofs` is about
`SessionSecrets` and `PairingSession`. Of modules that share a proof module, all but one have their
specification under names of their own (`BridgeSpec`, `RenderSpec`, `ChainSpec`, `PairingSpec`).
`MC...` modules and `.cfg` files are the instances. Operators whose names begin with `Mis` are not
part of any model: each is a plausible mistake in the operator it precedes (a dropped check, a
forgotten reset, a swapped order), and `PROJECT.json` ("mutants") says which property notices when
it is put in that operator's place. So no property of section 3 holds by the shape of the model.

### SubscriptionManager

A member of `Calls` is one dispatch of a `_start` frame: first the dispatch future, then the pump
that `activate` spawns. An action is what one of them does between two points where another thread
may get in: a critical section of the `active` mutex, a poll, or one send.

| code | action |
|---|---|
| `reserve`: `fetch_add`, then the insert under the lock | `DrawGeneration`, `Reserve` (two actions: the code draws outside the lock) |
| handler `Ok`, `activate`'s critical section | `Activate` |
| handler `Err`, `cancel_reservation` | `CancelReservation`, then `Send` of the error |
| dispatch future dropped at its await | `DropDispatch` |
| the pump's `select`, which polls the cancellation first | `PollCancelled`, `PollStream` |
| sends of the pump | `Send` |
| the removal of the slot when the loop is over | `RemoveSlot` |
| `handle_stop` | `HandleStop` |
| `cancel_all`: drain under the lock, then each closure | `DrainSlots`, `FireDrained` |

`slots` is the map, `gen` the token of each call, `cancelled` the calls whose oneshot has fired.
`stopped`, `newest`, `late` are history variables. The payload of items is left out, and the
handler and the host's stream are nondeterministic: any result, any number of items up to
`MaxItems`, silent for ever if they like.

### ProductRuntime

Instantiates `SubscriptionManager` over its own copies of the variables and composes its actions
with `receive_frame` (check `disposed`; insert the abort handle; dispatch; take the handle out;
when disposed by then, cancel everything), `dispose` (set the flag, abort, cancel) and
`SinkTransport` (look at `disposed`, then emit: two steps). `FreeCore` is the worker's core registry
(`worker-core-registry.ts`), which disposes a core and frees it when the last tracked `receive_frame`
has settled. `ingress` is the embedder. `"spawned"`
is the WebSocket bridge, a task per frame on several threads. `"turns"` is WASM, one thread, where
nothing gets in before an await. `"sequential"` is the CLI's loop, which awaits each frame.

### WsBridge

`handle_connection`, its pump, its frame tasks and its frame sink, the accept loop with the cap,
`stop`, and the `product_control` handle of the native execution. It is about ownership: who still
holds the sending half of the outbound queue (`HasSender`), who is aborted and what an aborted task
no longer does. The frame protocol is reduced to one subscription per connection, because the order
of frames is `ProductRuntime`'s subject.

### HostRpcClient

A member of `Calls` is one `subscribe_raw`: lease, request, answer, sink, replay, stream. A plain
request is a call that ends with its answer. The response loop looks a sink up under the lock and
delivers or buffers outside it (`LookUpSink`, then `Deliver` or `Buffer`); `close_with_error` is
five steps with `closed` swapped first. `mode` is `"threads"` (native) or `"turns"` (WASM), in which
a poll that has begun goes on before anything else.

### HostInitiated

`Ask`, `Reserve`, `SendStart` are the start of a rendering, with its two critical sections and the
send between them; `Stop` the drop of the stream; `PollTree`, `PollInterrupt`, `PollEnd` the branches
of `poll_next` as `observe_renderer` drives it; `Route`, `Enqueue` the two halves of `handle_message`
(the tree is sent after the slot is unlocked); `Dispose` sets the flag, then closes. On the product's
side `OnStart`, `OnStop`, `SetHandler`, `UnsetHandler`, `Draw`, `GiveUp`, `Complete` and
`CloseWithError` are the callbacks of `client.ts`, each whole. A start that finds no handler is
buffered, and `Buffer` evicts and declines the oldest when the buffer is full.

### ChainRuntime

`ConnectionFor`, `Connect`, `ConnectAnswered`, `ConnectPublished`, `ConnectionReady` are the shared
attempt; the attempt is driven by those who wait for it (`Driven`), and its driver may be dropped. A
follow is `Check`, `RegisterFollow`, `Ensure` (the shared setup), `SendFollow`, `FollowAnswered`, a pump
that stops (`PumpStops`) or is aborted, and `Cleanup` of a stream the product dropped. A request is
`Ask` (the id is looked up: an exact follow, or an alias, `Pending`, `Claim`), `Resolve`, then a wait
for setup, `Require`, `Fetched`, and, for a call of the runtime (`RuntimeCalls`), a look at whether the
follow was made with runtime metadata (`FollowWithRuntime`). `threading` is what `mode` is in
`HostRpcClient`. Block payloads and operation ids are left out.

### ChainCallers

It extends `ChainRuntime` with more tasks of `connection_for`. A broadcast gets the provider's id
(`BroadcastAnswered`), draws its number, and enters the table, which drops its oldest entries
(`Track`). A stop takes the entry out (`TakeOperation`), then connects, asks the provider
(`StopAnswered`), and puts the entry back if that failed (`PutBack`). A user of the client joins the
build of its connection or starts one under a new generation (`JoinBuild`); those whose build failed
(`Built`) and the driver of a backend that is over (`DriverEnds`) invalidate the cache if it still has
their generation. The provider is external: its ids start anew on each connection.

### PairingSession

One executor; a step is what a task does between two awaits. `RequestLogin`, `StartPairing`,
`WalletAnswers`, `Resolve`, `Persist`, `Succeed` are `request_login` and the flow under it,
`FlowCancelled`, `CancelLogin`, `AbandonLogin`, `LoginFailed`, `Finish` its other ends; `Activate` a
session of the host's own; `Reconcile`, `ReadStored`, `ReadAgain`, `Changed`, `Resolved`, `Install`
the store sync and boot; `Logout`, `PeerGone`, `Erase`, `Guard`, `Wiped` the disconnections. The
state shown to the host is `auth`, the generation that fences logins is advanced by `Advance`.

### SessionSecrets

A task is a request that fetches, refreshes or looks up a secret, or a connect, a disconnect or a
clearing of a product by the host. `Fence` is the advance of an epoch, `Lock` the acquisition of
`session_secret_storage`, `Write`, `Remember`, `Undo` the keeping of what the wallet granted,
`Wipe...` the removals, in the order of the code and with the lock held over their awaits; `Abandon`
drops a request at any of them.

### SsoExchange

The host's end: `Begin` (the waiter, both subscriptions), `Submit`, `ReadOwn`, `ReadPeer` (the
acknowledgement and the answer, in whichever order), `Hear` of a disconnection, `Cancel`, `Fail`. A
subscription that merely ends (`StreamsEnd`) leaves the call to the other one; it gives up when both
have (`BothDone`). `Disconnect` owes the wallet a farewell, which `TakeLeave` sends or loses: nobody
waits for it and nobody repeats it. `Notice` is the monitor that finds the wallet's farewell, and
`MonitorStops` its end by a failure, after which it is not started again. The
wallet's: `Take`, `Ack`, `Answer`, `Respond`, with `served` as its bounded replay window,
`Break`, `Restart`, `WalletLeaves`. The store keeps one statement a channel, refuses one whose expiry
is not higher, and `Twice` delivers one again.

### SigningRequests

An operation is a sequence of named steps, translated from its handler in `runtime.rs` and the
authority method it calls: look at the session, take the snapshot, ask for a permission, confirm,
look again, read the key, use it. A request runs through the steps of its operation, each an action
with the guards of that step; `Expire` is its deadline, `Unwind` the grace after it. The host's
actions are `Activate`, `Disconnect`, `ClearProduct`, `SetConsent`. Keys, payloads and answers are
left out; `grants` are the automatic-signing grants in force and `unseated` is a history variable.

### PermissionSlots

`Begin` expands a request into the domains it is about, `ReadDomain` reads one slot at a time,
`ReadBundle` the slot of the set, `Prompted` is the user's answer, `Persist` writes it slot by slot,
`SetStatus` is the host's own decision, `Fail` a failing storage or a dropped request.

### StatementAllowances

A task is an allocation on demand, a call that has targets tracked, or a renewal pass; the loop is a
pass that starts again for ever. `Enter` takes `registration_lock`; `Choose` is the scan of the slot
tables and the choice of `register_statement_account_pooled`, `Rescan` the choice of the retry in
`register_statement_account`, `Submit`, `Registered` and `GiveUp` the submission and its outcomes.
`ReadLedger`, then `WriteEntry` (`track_targets`) or `WriteOwned` (`owned_targets`), are the two
read-modify-writes under `ledger_lock`. The chain is a table, the order in which the slots were taken
with the part of it that is past the cooldown, and one pending submission a slot. One scan is one
step: what lands between its reads is covered by what lands between the choice and the submission. A
task that is dropped while it watches a submission is `GiveUp`; the submission stays in the pool.

## 3. Runs

| run | instance | shows |
|---|---|---|
| `manager` | 2 calls, 2 ids, 2 items | no interleaving leaves a stream a `_stop` cannot reach, a stop is final, at most one late frame, no silent end; the manager implements `SubscriptionContract`, liveness included |
| `runtime` | 2 calls on one id, 1 `_stop`, 1 item, three embedders | nothing streams once dispose and every `receive_frame` have returned; a `_stop` works where frames are polled in order; dispose ends every pump and every `receive_frame`; the worker frees a core only when no frame borrows it, and does free it |
| `bridge` | 2 connections, room for 1, queue of 2 | no gap in what the peer receives; `stop` returns |
| `rpc_client` | 2 subscriptions of 2 items, 2 frames under way, buffer of 1 id and 2 items, both modes | close leaves nobody waiting; the last handle closes, and nothing else but a failure does; on one thread items come in order and none is lost; every waiting call settles |
| `chain` | 5 casts: 2 follows with ids of their own, one with runtime metadata, and a call of the runtime; a follow and another request, by id or by an alias; 2 broadcasts and 2 stops; users of the client; some of each; table of 1, 2 connections, both modes | the tables name exactly what is alive; a transaction's handle lasts until it was stopped; one client and one backend a connection; on one thread a follow-bound request waits for the setup of its follow; everything under way settles |
| `host_initiated` | 2 renderings, 2 trees in one of them, room for 1 start, both modes | what one side thinks open the other does, or a frame that says otherwise is under way; the observer hears of every end once; an end reaches the other side |
| `pairing` | 4 casts of up to 4 tasks out of 2 logins, an activation, logouts, boot, sync, disconnection | one flow serves all logins; a session that was logged out is not installed again by a login; the sync spares the host's own session; everything settles |
| `secrets` | 3 tasks of a fetch or refresh with a lookup, connects, a disconnect and clears, 2 sessions of 2 wallets, 2 products, storage fails once | the secrets in memory are the session's; an allowance or a key of automatic signing asked for before a disconnection or a clearing is not kept after it; no deadlock on the lock that is held across awaits |
| `sso` | 2 calls, replay window of 1, 2 runs of the wallet, 1 fault (a submission, subscription, monitor or farewell) | an answer is the call's own; a request is executed once in a run of the wallet; every call ends, and with one side the other, unless the word of it was lost |
| `requests` | 3 requests, two of one product, 2 wallets; every operation by itself, and automatic signing next to itself or a signature that could live on the grant; up to 3 changes of the wallet | the grants in force were made under the unlocked wallet; nothing happens that was not approved, by late calls neither; fenced requests grant nothing; calls end |
| `permissions` | 3 tasks over the patterns x, y and w, which covers x; storage may fail | what a request is told was decided by the user or the host, per domain; what was decided before a request is not asked again |
| `allowances` | 1 allocation, 1 tracker, the loop; 2 collections of 1 slot, 4 targets, an earlier wallet's entry, 2 locks or unlocks, 1 fault | no promise is lost by the ledger's read-modify-writes; no two calls go for one slot; the promised accounts come to hold slots and keep them |

`CHECK_DEADLOCK FALSE` everywhere: a call is made once, a bridge is started once, and a system whose
calls and connections are over rightly stops.

### Bounds, and why they are enough

Every bound is a constant of the cfg, or a definition of the `MC` module the cfg names.

- `manager`: the races are between an older and a newer user of one id, or between a call and a stop;
  slots of different ids touch only in `cancel_all`, so that two ids show it. For safety the theorems of section
  5 remove this bound and those of the other runs. Two items: one before and one after a cancel.
- `runtime`: one id, because a second only adds independent calls there; `MaxStarts = 1` (frames
  under way at once) still lets a pump, a `_stop`, a `_start` and dispose interleave.
- `bridge`: the second connection is there for the cap; a queue of two has the states empty, part
  full and full.
- `rpc_client`: the second subscription competes for the one place in the buffer and holds the client
  open; two items give an order.
- `chain`: the second follow shares the first one's connection or makes an alias ambiguous; the second
  connection is the one opened after a loss. A table of one handle is full with the first. The casts
  bound who appears together: transactions and users of the client touch the follows only through the shared
  connection, for which one cast has a follow next to a broadcast and its stop.
- `host_initiated`: the second rendering evicts the first from the buffer; two trees have an order.
- `pairing`: every pair of tasks that touch the session or the store meets in one of the casts; the
  four-task cast has a login, a sync, an activation and a logout.
- `secrets`: somebody who fetches, somebody who looks up what the first one left, and somebody who
  ends the session or clears a product, or two such.
- `sso`: two calls so that the second replaces the first's statement on its channel and pushes it out
  of the replay window; two runs for what is re-delivered after a restart; one fault, since each
  ends a call, the monitor or the word to the wallet for good.
- `requests`: requests touch each other only through the session, the consents and the grants, of the
  same product or of another; three
  generations allow lock, swap and clear between one request's first and last step.
- `permissions`: a bundle of two domains, a wildcard, and a second request or decision next to it.
- `allowances`: fewer slots than targets, so that a pass runs out; one slot in each collection, so
  that the choice between collections counts; one fault, which may be a submission that is given up
  and lands later.

No symmetry sets are used: most runs check temporal properties, for which symmetry is unsound.

### Fairness, and why the code justifies it

Weak fairness is given to what an executor, a timer or a transport must do and to nothing else: a
task that has been woken is polled, a critical section or a loop without an await runs to its end, a
blocking `stop` continues once its condition holds. None is given to handlers, host streams,
products, peers, users or wallets (`SsoExchange` apart, below), which may be silent for ever, and none to the caller of an API.

Where one executor runs all tasks (`ProductRuntime`, `ChainRuntime`, `PairingSession`,
`SessionSecrets`, `SigningRequests`) the fairness is a single WF over everything the executor may run:
some task that can go on does. In these models each task has finitely many turns, so that this is
enough and assumes nothing of the order of turns. In `ProductRuntime` the pump is excluded while its
stream has nothing to say. `WsBridge` is fair to each connection's tasks, but to the writer only when
its socket is closed (a write then fails): a peer that does not read may hold it up for ever.
`HostRpcClient`, `SsoExchange` and `HostInitiated` are fair to each call or side. `SsoExchange` is the
exception to what is said of wallets: there the store delivers and a wallet that serves answers, since
"while the wallet serves, every call ends" is about just that; a wallet may stop serving whenever it
likes, and the end of a session ends a call without its help. The caller's cancellation, which a
deadline is, is owed by nobody. `StatementAllowances` is fair to each task,
to the loop's timer, to the chain's blocks and to time (the cooldown elapses); not to allocations,
trackers, or the unlocking of the wallet.

## 4. Disagreements between the code and what it says of itself

The runs check what the code achieves. While modelling, the statements below were found not to hold;
each is defined as a property in its module with the sentence it translates, and TLC refutes it on
the instance of the run within seconds when its name is added to the run's cfg (those marked P under
PROPERTIES, the others under INVARIANTS).

1. `StopReachesStream` (`runtime`): one task per frame on a multi-threaded executor, and the task of a
   `_stop` may run before the task of its `_start` has reserved the slot that `dispatcher.rs:154-156`
   reserves early for exactly this case (`ws_bridge.rs:408`). The stream then runs on.
2. `ClosedConnectionReleased`, P (`bridge`): `handle_connection` awaits a pump that ends when the last
   sender is gone, and owns a sender itself (`ws_bridge.rs:431`; `frame_server.rs:351` has the same
   shape).
3. `StopEndsStreams`, P (`bridge`): an aborted connection task does not reach `dispose`
   (`ws_bridge.rs:298`).
4. `ItemsInOrder` (`rpc_client`): when the response loop and `subscribe` run on different threads, an
   early notification can be stranded or overtaken (`host_rpc_client.rs:350`).
5. `EarlyItemsHaveRoom`, P (`rpc_client`): items for ids nobody will subscribe keep the places of the
   early-item buffer (`host_rpc_client.rs:358`).
6. `ExactIdReachesItsFollow` (`chain`): an id whose follow is not registered yet counts as an alias and
   is bound to the one follow there is (`chain_runtime.rs:790`, 828).
7. `ShownLoginIsInFlight` (`pairing`): the guard against an abandoned login is disarmed before the
   transition that ends it, and an activation may get in: a login stays on the screen that nobody
   works on (`sso_pairing.rs:156`, `auth_state.rs:158`).
8. `KnownSubtreesDropped` (`secrets`): `clear_disconnected_session` empties the map of subtrees
   (`pairing_host.rs:867`, through `sso_channel.rs:180`) before it removes the stored slots "this run
   knows about" (1893), whose list it takes from that map (1903). It removes none, and a
   disconnection leaves the subtree of every product in core storage.
9. `SubmissionsAdvance` (`sso`): the expiry is drawn before the statement is signed and submitted, so
   that of two concurrent requests the earlier may be refused (`sso_remote.rs:33`).
10. `SessionLiveWhenUsed` (`requests`): some operations ask the user after their last look at the
    session, and use what was read before (`authority.rs:521`, `signing_host.rs:640`).
11. `BundleIsItsDomains` (`permissions`): a host's grant of a bundle stays in the slot of the set after
    the host took back the grants of its domains one by one, and the next request for the bundle is
    granted from it without a prompt (`permissions.rs:281`, against 136 and 255).
12. `LastTreeStands` (`host_initiated`): where frames are tasks, an earlier tree may be shown last
    (`native_renderer.rs:18`).
13. `AllocationsTakeNothingOver` (`allowances`): "Connecting a product must not revoke another
    product's allowance" (`sso_responder.rs:994`). `allow_eviction` decides the first choice of a slot
    only. When the submission is refused as a duplicate, because one that an earlier call gave up on
    is still pending, `register_statement_account` scans again; if that one has landed by then and
    the table is full, it takes the oldest replaceable slot over (`statement_allowance.rs:639-661`),
    for an allocation as for a renewal. In the run's instance the slot is the one just landed in, and
    its cooldown has to elapse; with a budget of two, another account's slot goes at once.
14. `OneSlotATarget` (`allowances`): "a second slot must not be claimed for the same target"
    (`statement_allowance.rs:807`). A collection that cannot be read is skipped, and so is the slot
    the target may hold there; or, with a budget of two, the retry of 13 takes another slot for the
    target whose own submission is pending.
15. `SlotsServeTheirWallet` (`allowances`, with a second wallet in `Wallets`): `renew_now` derives the
    targets' accounts from the root entropy it read first, and the slots from the wallet unlocked
    after the ledger was read (`allowance_renewal.rs:335`, 357); a swap in between spends the slots
    of one wallet on the accounts of another, what the owner in the ledger is there to prevent (65).
16. `StopsOnlyTheNamed` (`chain`): the table keeps a broadcast's chain and provider id but not its
    connection (`chain_runtime.rs:247`). After a reconnection the id may be another broadcast's, and a
    stop, which names "the broadcast to stop" (`v01/chain.rs:278`), ends that one.

Smaller observations made in the models, or while reading, about which no document says anything:

- `pairing_host.rs`: `store_disconnected` at the end of a disconnection (888) may show Disconnected for
  a session installed meanwhile; a start of pairing while connected that is then cancelled shows
  Disconnected; a stored session read before a logout can be installed after it; what
  `set_connected_session` returns is ignored and Success answered; a late disconnect's
  `clear_auto_signing` wipes the keys of a session just connected; an allocation begun after a
  connect advanced the epoch leaves an allowance of the replaced session in storage; a refetch that
  is dropped between its write and `remember` leaves memory and storage different;
  `clear_product_state` clears the persisted allowances of the current session only, and not the
  persisted subtree.
- `signing_host.rs`: on native threads `require_current_session` and `root_entropy` are two reads;
  `clear_product_state` advances the generation, so that other products' requests fail as
  disconnected; `allocate_bulletin_allowance` may take the key of one wallet and the personhood of
  another.
- `permissions.rs`: of two prompts for one domain that are open together the last write wins; a grant is
  written domain by domain (384), and storage that fails in between leaves part of it.
- `sso_channel.rs`, `sso_responder.rs`: the retry of a submission does not look at the session again;
  the wallet goes on with a cancelled call; a restarted responder executes the last kept request
  again and never sees those that were replaced meanwhile.
- `dispatcher.rs:170`: a handler that fails late sends its interrupt under an id that may be reused;
  `client.ts:318`: a consumer that throws ends its subscription without a `_stop`.
- `chain_runtime.rs`: two follow subscriptions under one id remove each other's follow. A setup that
  ends, and the pump of a follow that did, remove whatever is registered under the id (1160, 1255), and
  so does the drop of a stream (874-897), which aborts a pump that is not its own. With one id for both
  follows (`IdOf`) TLC refutes `SharedStateIsExact` within seconds; the JavaScript client uses an id once.
- `sso_channel.rs:184`: the farewell to the wallet is best effort, and a monitor that fails is not started
  again (118): the other side may then never hear of the end. `EverythingEnds` excepts both.
- `allowance_renewal.rs:335`: a pass that waits for the ledger's lock while the wallet is swapped
  prunes, as the former wallet, what the new one has just promised.

## 5. Proofs

Each module `...Proofs` states, for every value of the constants, that its component keeps its types
(`TypeCorrect`) and its inductive invariant (`Safety: Spec => []IInv`), and derives the safety
properties of the component's run from it. The bounds of section 3 are constants like any other, so
the theorems hold whatever they are. Every `IInv` was checked by TLC on its run's instance before
it was proved. No property but `OneLoginForAll` is inductive by itself; what each lacked is said below. The
step from `IInv` to `IInv'` is one lemma for each action, or for each conjunct and group of actions
that disturb it, which `InvNext` puts together by cases on `Next`.

| module | theorems for a run's properties | assumptions used |
|---|---|---|
| `SubscriptionManagerProofs` | the safety of `manager`; the steps of `KeepsContract` | `SubscriptionAssumption` |
| `ProductRuntimeProofs` | `NoStreamOutlivesDispose`, `OrderedStopReachesStream` | `IngressAssumption` |
| `ProductRuntimeProofs` | of `HostInitiated`: `SidesAgree`, `ObserversKnow` | `BoundAssumption`, `ModeAssumption` |
| `ProductRuntimeProofs` | of `WsBridge`: `PrefixDelivery` | `BridgeAssumption` |
| `HostRpcClientProofs` | `CloseReachesEverybody`, `LeaseKeepsOpen`, `ItemsInOrderInTurns` | `ClientAssumption` |
| `HostRpcClientProofs` | of `ChainCallers`, and so of `ChainRuntime`: `SharedStateIsExact`, `RequestsAwaitSetupInTurns` | `ChainAssumption`, `CallersAssumption`; the hypothesis `IdsOfTheirOwn` |
| `PairingHostProofs` | of `SessionSecrets`: `MemoryIsTheSessions`, `NothingOutlivesItsFence` | `NobodyAssumption`, `OwnerAssumption`, `CastAssumption` |
| `PairingHostProofs` | of `PairingSession`: `OneLoginForAll`, `LoggedOutStaysOut`, `SyncSparesExternal` | `TaskAssumption`, `SessionAssumption` |
| `SsoExchangeProofs` | `AnswersAreTheCalls`, `ExecutedOnceARun` | `NameAssumption`, `BoundAssumption` |
| `SigningRequestsProofs` | `GrantsAreTheWallets`, `NothingUnapproved`, `FencedWorkGrantsNothing` | `RequestAssumption`, `CastAssumption` |
| `PermissionSlotsProofs` | `DecisionsAreTheUsers`, `PromptsOnce` | `CandidateAssumption`, `AfterAssumption`, `CastAssumption`, `PlainAssumption` |
| `StatementAllowancesProofs` | `PromisesKept`, `NobodyRaces` | `BoundAssumption`, `TaskAssumption`, `KeptAssumption` |

Most assumptions say that bounds are numbers, that casts give tasks something to be, and that a name
that stands for nothing names nothing. Those that say something of the code: a pattern is among its own
candidates (`CandidateAssumption`, `remote_domain_candidates`); a permission that is no domain grant
has one slot, its own (`PlainAssumption`); the ledger an earlier run left can be decoded
(`KeptAssumption`, `read_entries`); the replay window has room for one id (`BoundAssumption` of
`SsoExchange`, `MAX_SERVED_REQUEST_IDS`). The sets of calls, ids, products, wallets and so on are
arbitrary, and may be infinite.

`IdsOfTheirOwn` is the only hypothesis: no two streams of a chain have one follow id. A follow id is the
request id of its subscription behind the prefix of its connection, and the product's client numbers
its requests (`client.ts`); the run `chain` has casts of that kind.

### SubscriptionManagerProofs

`TypeCorrect`, `Safety`, and as corollaries `NoUnstoppableStreamHolds`, `LiveSlotHasStreamHolds`,
`NewestReservationWinsHolds`, `StopIsFinalHolds`, `OneLateFrameHolds`, `NoSilentEndHolds`. `IInv` is
`TypeOK` and two groups of conjuncts. `MapInv` is about calls and the map, and mentions no frames:

- `GenerationInv`: calls that have drawn a generation have different ones, all below the counter. So
  "same generation" in the code means "same call", which is what its comparisons rely on.
- `SlotInv`: whatever a slot says is about the call that reserved its id last; a live slot holds that
  call's closure and that call is running.
- `NoUnstoppableStream`: the converse, kept as a conjunct.
- `CancelInv`: a call is cancelled or drained only while it pumps, and only because it was stopped or
  replaced. Gives `NoSilentEnd` its excuse and `OneLateFrame` the absence of a late completion.
- `StopInv`: a stopped call does not run, and while it still awaits its handler its reservation is
  revoked or gone, so that `Activate` will refuse it.
- `ReservationInv`: a call awaiting its handler that is the newest of its id and was not stopped
  still has its pending reservation, so that a handler's success or failure is never swallowed.
- `NewestInv`: a call that has not reserved is nobody's newest.

`FrameInv` (`LateInv`, `InterruptInv`, `NoSilentEnd`) says what has been sent, by phase.

`ContractStepsHold` is the refinement of `SubscriptionContract`, without its fairness:
`Spec => Contract!Init /\ [][Contract!Next]_(Contract!vars)`. Under the mapping `ContractState` every
step of the manager is one of the contract's, on the call it is about, or leaves the contract's
state alone: `Activate` is the contract's beginning of a stream, together with the end of the one it
replaces (`FireRevokes`: a closure that fires revokes the stream of the call whose slot held it, and
nobody else's); `DrainSlots` ends several at once; what the map does of its own is a stutter. Each
action has its lemma (`ActivateSimulated`, `SendSimulated`, ...), from the invariant, which says who
the slot a step looks at belongs to. The attempt showed that the mapping was not well defined: a call
that was done and had been cancelled fell under two branches of its `CASE`. TLC takes the first, which
was the one meant, and so did not notice.

### ProductRuntimeProofs

`ProductRuntime` runs a `SubscriptionManager` over its own variables, and the proof takes what is known
of the manager from `SubscriptionManagerProofs` (`M == INSTANCE`): its `MapStep` and `TypeStep` say that
any step of a manager keeps `MapInv` and the types. `FrameInv` is not used, since the runtime's sinks
swallow frames after dispose, and the split is there for that reason. What remains to be proved about
the runtime is `RuntimeInv`:

- `StartInv`: a frame that has not reached the dispatcher has not begun its call.
- `DrainedInv`: once dispose has drained the map, only a dispatch still under way can have a stream,
  and that one looks at `disposed` before it is over. `NoStreamOutlivesDispose` follows when there is
  no such dispatch left.
- `EmbedderInv`: what each embedder does not do (a loop that awaits its frames has one; nobody kills
  tasks that were not spawned).
- `OrderInv`: where frames are polled in order, a `_stop` finds its call no earlier than at the
  handler, and leaves it stopped or past its stream. `StopReachesStream` is false for `"spawned"`
  (section 4), and this is where the order is needed.

`InFlightIsExactHolds` is stated besides: `in_flight` has the dispatches under way and nothing else but
what a killed task left.

Of `HostInitiated` (`RenderInv`). Its two properties compare the host's end with the product's, and neither
is inductive, because every change of one end is known to the other only once a frame has arrived:

- `Untouched`: before its `_start` is sent a rendering is known to the host alone. This is what lets a
  first `_start` be told from everything else under way.
- `Orderly`, `OnItsWay`: a `_start` comes once, before its `_stop`, and finds nothing of its rendering in the
  product; behind it stands a slot, or a `_stop` that follows.
- `Held`: what the product has, it has once (buffered or an instance), and it is told when the slot goes.
- `Told`: an interrupt is under way, in the channel, or has been seen only of what the product declined;
  and an open stream whose product's end is gone has one coming.
- `Counted`, where frames are handled in order: the trees shown are 1, 2, 3..., those in the channel
  follow, and those on the connection follow these, which is what `ObserversKnow`
  says of the trees shown.

Of `WsBridge` (`BridgeIInv`): `LostInv`, who has lost a frame finds the sink closed and is past his check
of it, so that the gap between check and `try_send` lets at most the others through
(`PrefixDelivery` compares the queue before and after a step; the lemma `TailCount` is about the frames a pump
has taken off); `HandlesInv`, a connection that is not over is among the handles of the accept
loop, from which `CapHolds`; `SocketInv`, a pump has a connection, a connection a socket, and a pump that
is over has closed it.

### HostRpcClientProofs

- `CloseInv`: who waits has an entry in `pending` or an answer, who streams one in `subscriptions` or
  the closing error; and each stage of `close_with_error` leaves its map empty for good, because
  nobody enters a map once `closed` is set.
- `HandleInv`: `user_handles` is the number of leases, which is finite at any time though the calls
  need not be, and one for the client; and when it is zero the client is closed. `LeaseKeepsOpen` says
  both halves of it without the number: not closed too early, and not left open for nobody.
- `TurnInv`: on one thread at most one poll is under way, among subscribers, loop and close.
- `OpenInv`: until the client is closed the sinks are those of the calls that have one.
- `WireInv`, `LineInv`: the notifications of a call are, in the order they were sent, in the stream, in
  what is being replayed, in the buffer, in the hands of the loop, on the wire; and none is nowhere,
  unless it was dropped for want of room. `ItemsInOrder` speaks of the first two only, and an item
  gets there through all the others.

The second half is about `CallersSpec`, the chain runtime with all its callers. The parts of its invariant
`ChainIInv`:

- `PlacesInv`: each kind of task is at a step of its own; where no poll is interrupted at most one is in
  the middle of one.
- `LinksInv`: attempts to connect are numbered as they are made, the last one holds, and who has or
  awaits a connection names an attempt that was made. "A later attempt" can then be spoken of, and an
  entry of an earlier one is never taken for it.
- `FetchInv`, `FollowsInv`, `SetupsInv`, `PumpsInv`: a stream has at most one follow, on its own connection,
  with no remote but its own; a follow is about to be set up, being set up, or done with; and who pumps
  can be found by the remote, to be stopped, and by the stream, to be kept open. `SharedStateIsExact`
  compares tables with tasks at rest, and the setups in between are what it lacks.
- `IntentsInv`, `StartsInv`: a live stream is in the tables of what is pending; and a start fails for one
  of three reasons only, a stream that was dropped, a fetch that failed, a connection lost (`Undone`).
- `AsksInv`: whom a request waits for and what it was promised when it asked. With it
  `RequestsAwaitSetupInTurns`, which is a conjunct, is kept. A call of the runtime looks at how its follow
  was made once it has found it: that the follow is then there, or undone, is the lemma `ReachesRightly`,
  that a refusal rests on what the stream asked for `RuntimeRightly`.
- `HandlesInv`: a handle has a number from when the provider gave an operation, so that the oldest are the
  first to leave the table; `ClientsInv`: the generations of a connection's client are numbered as they
  are built, and the one in the cache is the newest whose backend may run.

`CallersSafety` gives, without the hypothesis, `OneConnection`, `HandlesLast` and `OneBackend`; with it,
`SharedStateIsExactHolds` and `RequestsAwaitSetupHolds`. Two streams with one id would replace and
remove each other's entries; of those nothing is claimed.

The proof of `RequestsAwaitSetupInTurns` failed at first, for a reason. A request is promised the one follow
there is and looks it up again once the setup is over; a follow that was claimed under an alias in the
meantime answers to no other (`resolve_local_follow_id`, `chain_runtime.rs:1043`), and the request is
refused while its follow is live. It takes two requests that ask under two aliases, one more than the
run's casts have, and TLC finds the state in such a cast. The property names this case among its
excuses since.

### PairingHostProofs

The module extends both `SessionSecrets` and `PairingSession`; its second half is about `PairingSpec`.

About `SessionSecrets`: `MemoryIsTheSessions`, one entry a secret (`Single`), and:

- `GuardInv`: who works under the guard holds it; product subtrees are looked up without it, so that
  nothing is said of those.
- `HandInv`: what a task has in hand is its own secret, of an epoch that has been.
- `FencesPassed`, `FenceInv`: a fence, which a disconnection or the clearing of a product leaves behind for
  allowances and keys of automatic signing, and nothing else does, is no later than the epoch;
  while storage has not failed, what a
  task is about to keep was asked for no earlier than what cleared its like, and what a task has begun
  to clear stays away until its fence is up. This is what `NothingOutlivesItsFence` lacks: between
  the removal from memory and the last write to storage the fence does not exist yet.

About `PairingSession` (`SessionIInv`):

- `Placed`, `Locked`: at which steps a task of each kind can be, and that a task is at a step that needs
  the activation lock or the secrets' lock exactly when it holds it.
- `SeenInv`: a reader that goes on to identify or install has read a session, and not a blob that does
  not decode.
- `SyncInv`: while the store sync works there is no session of the host's own: one that is installed
  before makes it skip the change, and none can be installed meanwhile for want of the lock.
  `SyncSparesExternal` rests on it, in both cases.
- `OvertakenInv`: what a logout overtook holds neither the epoch nor the generation, and has begun. Both
  would have to be drawn anew, which only who begins does. `LoggedOutStaysOut` follows at the one step
  that installs.
- `LoginInv`: `OneLoginForAll` and the type of the login in flight, which is inductive as it stands.

### SsoExchangeProofs

- `AnswerInv`: whatever a call might take for an answer, wherever it is on its way (in the store, in a
  subscription, pending), was executed by the wallet.
- `SenderInv`: a statement has an expiry of its own from before it is submitted, and the one that takes
  leave, if it is not lost, is the last of all.
- `WalletInv`: the wallet is delivered the requests in the order of their expiries and has gone through
  them in that order; what it is at is the last it took up. So a request whose id the replay window
  has forgotten cannot come again within a run: what the store still delivers is newer, or is the
  last one, which a window of one id remembers. `ExecutedOnceARun` therefore holds for every
  `MaxServed` above zero: it rests on the store's order, of which the window's size is no part.

### SigningRequestsProofs

- `PathInv`: `StepInv`, an open request is at one of the steps of its operation; `SessionInv`, it has a
  snapshot exactly when it has passed the step that takes one; `ApprovalInv`, whatever it asked for at
  a step behind it was let through. Each operation is a sequence, so that what is "behind" and "ahead"
  of a step has to be established once for all 24 (`OperationsAreOrderly`: a path visits a step once,
  takes the snapshot before what needs it and uses the key last).
- `GenerationInv`: a snapshot of the present generation is of the unlocked wallet, and requests that
  were fenced have snapshots of older generations. This is what makes the comparison of generations in
  `grant_auto_signing` a check of the wallet.

`NothingUnapproved` alone is not inductive: that a request at its last step was approved follows from
where it has been, which only `ApprovalInv` remembers; and that a grant is the wallet's needs
`GenerationInv` at the step that makes it. The property speaks of every request that has got as far as
its effect, a call that goes on after its deadline included, and of every grant in force, entered late or
not: `VouchedInv` keeps a confirmation behind each. The lemmas `PathMove`, `PathContinue`, `PathEnd` and
`PathStays` say what a step along, to the end of, or off the path preserves, `PathNext`,
`GenerationNext` and `GrantsNext` go through the actions.

### PermissionSlotsProofs

- `SteadyInv`: a slot decided when a request began and not cleared since is decided.
- `StoreInv`: what the slots say is what was granted, and the very sets that were refused.
- `TaskInv`: for each phase of a request, what its position in the domains and their candidates means:
  the domains behind it are noted as undecided or covered by a grant, what was found undecided is not
  steady (`Resolving`); what is left for the bundle's slot and the prompt (`Asking`); what is being
  written is the user's (`Writing`, `Setting`); who was told yes is covered (`Told`).

`PromptsOnce` compares what a request found at several reads with what was decided before its first; only
`Resolving` relates the two. The first attempt failed for requests that are no domain grants: their
single look skips the candidates, and is enough because they have none but their own slot, which is
now `PlainAssumption`.

### StatementAllowancesProofs

- `RegistrationInv`: who is between taking and leaving `registration_lock` holds it. From it
  `NobodyRaces`, in a stronger form: no two calls submit or watch at once.
- `LedgerInv`: who has read the ledger to change it holds `ledger_lock`, and what he has read is the
  ledger. From it `PromisesKept`: a write appends to, or removes another wallet's entries from, what
  is there.
- `JobsOK`, `BooksOK`: the types of what these two depend on.

`TypeOK` as a whole stays with TLC here: the choice of slots and the ages of the table are made with
operators that are recursive over sequences (`SelectSeq`, `FlattenSeq`, `Remove`), about whose results
nothing can be proved without induction over data.

### Only model-checked

- Every liveness property (`WaitingCallsSettle`, `EverythingEnds` and those like them), the fairness of `KeepsContract`, and
  `ENABLED`: out of the proof system's reach.
- `StatementAllowances.TypeOK`, for the reason above.

Every safety property of the runs is stated by a theorem. No module a theorem is about reaches a
recursive operator.

## 6. What is not modelled, and why

- The request branch of `dispatch` and the generated handlers: no state of their own. The delays that
  a waiting handler causes in a sequential embedder are not measured anywhere.
- Encodings, generated tables, types, macros and build tools: pure functions.
- Cryptography and the network code of other projects.
- Terminal interface, mobile adapters, playground, documentation: no core logic.
- The caches of the chain clients (`statement_store.rs`, `bulletin_rpc.rs`, `identity.rs`, ring VRF):
  each is one request over the JSON-RPC client with a value remembered.
- Inside the modelled files: `HostAdmin`, the chat action buffer and chat controls of `host_core.rs`;
  token check, bind errors and restart of the bridge; `send_fire_and_forget` and the rewriting of
  parameters in the JSON-RPC client; the chainSpec calls and single follow events of the chain
  runtime; the requests and subscriptions the product makes, the handshake and the providers of `client.ts`; the
  rollover of the period, Bulletin and PGAS claims of the allowances. `PROJECT.json` has the full
  list.

## 7. What is left

Modelling left, should it be taken up again: the chat action buffer, the product-made requests and
subscriptions of `client.ts`, the messages between the worker and the main thread, and the restart of
the bridge.
