----------------------------- MODULE HostRpcClient -----------------------------
(***************************************************************************)
(* The JSON-RPC client over a connection the host provides                 *)
(* (host_rpc_client.rs): request correlation, subscription routing, the    *)
(* buffer for notifications that come before their subscription is known,  *)
(* and the count of user handles that keeps the connection open.           *)
(*                                                                         *)
(* Every member of Calls is one subscribe: a request, and then the stream  *)
(* it opens.  A plain request is one whose caller takes the answer and     *)
(* goes.  Calls run on any thread, next to the response loop and whoever   *)
(* closes the client; the chain at the other end is external.              *)
(***************************************************************************)
EXTENDS Naturals, FiniteSets, Sequences, SequencesExt

CONSTANTS Calls,       \* subscribe calls, and the remote ids they are given
          MaxItems,    \* bound: notifications per subscription
          MaxWire,     \* bound: frames under way from the remote
          BufferIds,   \* MAX_BUFFERED_SUBSCRIPTIONS
          BufferItems, \* MAX_BUFFERED_ITEMS_PER_SUBSCRIPTION
          Modes        \* "threads" (native) and "turns" (WASM, one thread)

ASSUME ClientAssumption ==
  /\ MaxItems \in Nat /\ MaxWire \in Nat
  /\ BufferIds \in Nat /\ BufferItems \in Nat \ {0}
  /\ Modes \subseteq {"threads", "turns"}

VARIABLES
  mode,
  pc,        \* where each call is
  pending,   \* calls with an entry in `pending`
  answer,    \* what the oneshot of each call holds
  sinks,     \* calls with an entry in `subscriptions`
  buffered,  \* `buffered_subscription_items`, by remote id
  replay,    \* items a call has taken out of the buffer and not yet sent on
  inbox,     \* history: what has been sent into each call's channel
  early,     \* history: items buffered before the answer was handled
  dropped,   \* history: items for which the buffer had no room
  owner,     \* the client itself is alive
  handles,   \* user_handles
  closing,   \* how far close_with_error has got
  broken,    \* history: it was the response loop that closed the client
  loop,      \* the response loop
  wire,      \* frames the connection has for it
  remote,    \* external: the subscription at the other end
  emitted    \* external: notifications it has sent

callVars   == <<pc, answer, replay>>
routeVars  == <<pending, sinks, buffered>>
handleVars == <<owner, handles>>
closeVars  == <<closing, broken>>
remoteVars == <<wire, remote, emitted>>
history    == <<inbox, early, dropped>>
vars == <<mode, callVars, routeVars, handleVars, closeVars, loop, remoteVars, history>>

(* "begun": lease taken.  "registered": in `pending`, request not sent.    *)
(* "publishing": in `subscriptions`, buffer not drained.  "leaving": about *)
(* to drop the lease, after a failure or with the stream.                  *)
Polling == {"registered", "publishing", "replaying"}
InFuture == {"begun", "waiting"} \cup Polling
Leased   == InFuture \cup {"streaming", "leaving"}
Phases   == {"idle", "over"} \cup Leased

\* The steps of close_with_error, each named for what is done.
ClosingPhases == {"no", "flagged", "cut", "requests", "streams", "done"}
closed == closing # "no"

Items     == 1..MaxItems
Closed    == 0    \* the error that ends a stream
Response(c, ok) == [kind |-> "response", call |-> c, ok |-> ok]
Item(c, n)      == [kind |-> "item", call |-> c, n |-> n]
Frames == [kind : {"response"}, call : Calls, ok : BOOLEAN]
          \cup [kind : {"item"}, call : Calls, n : Items]
Idle == [st |-> "idle"]
LoopStates == [st : {"idle", "stopped"}] \cup
              [st : {"deliver", "buffer"}, call : Calls, n : Items]

Init ==
  /\ mode \in Modes
  /\ pc = [c \in Calls |-> "idle"]
  /\ pending = {}
  /\ answer = [c \in Calls |-> "none"]
  /\ sinks = {}
  /\ buffered = [c \in Calls |-> <<>>]
  /\ replay = [c \in Calls |-> <<>>]
  /\ inbox = [c \in Calls |-> <<>>]
  /\ early = [c \in Calls |-> {}]
  /\ dropped = [c \in Calls |-> {}]
  /\ owner = TRUE
  /\ handles = 1
  /\ closing = "no"
  /\ broken = FALSE
  /\ loop = Idle
  /\ wire = <<>>
  /\ remote = [c \in Calls |-> "none"]
  /\ emitted = [c \in Calls |-> 0]

Goto(c, phase) == pc' = [pc EXCEPT ![c] = phase]

-----------------------------------------------------------------------------
(* On one thread, who is in the middle of a poll goes on first.            *)

CallInTurn(c) == pc[c] \in Polling \cup {"leaving"}
LoopInTurn    == loop.st \in {"deliver", "buffer"}
CloseInTurn   == closing \in ClosingPhases \ {"no", "done"}

MayRun(calls, looping, closer) ==
  mode = "turns" =>
    /\ \A c \in Calls : CallInTurn(c) => c \in calls
    /\ LoopInTurn => looping
    /\ CloseInTurn => closer

-----------------------------------------------------------------------------
(* subscribe_raw, subscribe and the request it makes.                      *)

(* Operators whose name begins with Mis are no part of the model.  Each is *)
(* a plausible mistake in the operator it precedes; PROJECT.json says      *)
(* which property has to notice it.                                        *)

MisBegin(c) ==  \* no lease
  /\ pc[c] = "idle" /\ owner
  /\ Goto(c, "begun")
  /\ UNCHANGED <<mode, answer, replay, routeVars, handleVars, closeVars, loop, remoteVars,
                 history>>

Begin(c) ==
  /\ pc[c] = "idle" /\ owner
  /\ handles' = handles + 1
  /\ Goto(c, "begun")
  /\ UNCHANGED <<mode, answer, replay, routeVars, owner, closeVars, loop, remoteVars, history>>

MisRegister(c) ==  \* `closed` is not looked at
  /\ pc[c] = "begun"
  /\ Goto(c, "registered") /\ pending' = pending \cup {c}
  /\ UNCHANGED <<mode, answer, replay, sinks, buffered, handleVars, closeVars, loop,
                 remoteVars, history>>

\* `closed` is looked at under the lock that the entry is made under.
Register(c) ==
  /\ pc[c] = "begun"
  /\ IF closed THEN Goto(c, "leaving") /\ UNCHANGED pending
               ELSE Goto(c, "registered") /\ pending' = pending \cup {c}
  /\ UNCHANGED <<mode, answer, replay, sinks, buffered, handleVars, closeVars, loop,
                 remoteVars, history>>

\* The connection takes the request, unless it cannot be encoded.
SendRequest(c) ==
  /\ pc[c] = "registered"
  /\ \/ /\ remote' = [remote EXCEPT ![c] = IF closing \in {"no", "flagged"}
                                            THEN "asked" ELSE @]
        /\ Goto(c, "waiting")
        /\ UNCHANGED pending
     \/ /\ pending' = pending \ {c}
        /\ Goto(c, "leaving")
        /\ UNCHANGED remote
  /\ UNCHANGED <<mode, answer, replay, sinks, buffered, handleVars, closeVars, loop,
                 wire, emitted, history>>

\* The answer is there: publish the sink, under the lock and if not closed.
Publish(c) ==
  /\ pc[c] = "waiting" /\ answer[c] # "none"
  /\ IF answer[c] = "ok" /\ ~closed
       THEN Goto(c, "publishing") /\ sinks' = sinks \cup {c}
       ELSE Goto(c, "leaving") /\ UNCHANGED sinks
  /\ UNCHANGED <<mode, answer, replay, pending, buffered, handleVars, closeVars, loop,
                 remoteVars, history>>

TakeBuffered(c) ==
  /\ pc[c] = "publishing"
  /\ replay' = [replay EXCEPT ![c] = buffered[c]]
  /\ buffered' = [buffered EXCEPT ![c] = <<>>]
  /\ Goto(c, "replaying")
  /\ UNCHANGED <<mode, answer, pending, sinks, handleVars, closeVars, loop, remoteVars,
                 history>>

Into(c, x) == inbox' = [inbox EXCEPT ![c] = Append(@, x)]

MisReplay(c) ==  \* newest first
  /\ pc[c] = "replaying"
  /\ IF replay[c] = <<>>
       THEN Goto(c, "streaming") /\ UNCHANGED <<replay, inbox>>
       ELSE /\ Into(c, Last(replay[c]))
            /\ replay' = [replay EXCEPT ![c] = Front(@)]
            /\ UNCHANGED pc
  /\ UNCHANGED <<mode, answer, routeVars, handleVars, closeVars, loop, remoteVars,
                 early, dropped>>

Replay(c) ==
  /\ pc[c] = "replaying"
  /\ IF replay[c] = <<>>
       THEN Goto(c, "streaming") /\ UNCHANGED <<replay, inbox>>
       ELSE /\ Into(c, Head(replay[c]))
            /\ replay' = [replay EXCEPT ![c] = Tail(@)]
            /\ UNCHANGED pc
  /\ UNCHANGED <<mode, answer, routeVars, handleVars, closeVars, loop, remoteVars,
                 early, dropped>>

\* The caller gives up: a future that was not polled, or waits for its answer.
DropFuture(c) ==
  /\ pc[c] \in {"begun", "waiting"}
  /\ Goto(c, "leaving")
  /\ UNCHANGED <<mode, answer, replay, routeVars, handleVars, closeVars, loop,
                 remoteVars, history>>

MisUnsubscribe(c) ==  \* the lease is not given back
  /\ pc[c] = "streaming"
  /\ sinks' = sinks \ {c}
  /\ remote' = [remote EXCEPT ![c] = IF closed THEN @ ELSE "ended"]
  /\ Goto(c, "over")
  /\ UNCHANGED <<mode, answer, replay, pending, buffered, handleVars, closeVars, loop,
                 wire, emitted, history>>

\* SubscriptionStream::drop: unsubscribe, best effort.
Unsubscribe(c) ==
  /\ pc[c] = "streaming"
  /\ sinks' = sinks \ {c}
  /\ remote' = [remote EXCEPT ![c] = IF closed THEN @ ELSE "ended"]
  /\ Goto(c, "leaving")
  /\ UNCHANGED <<mode, answer, replay, pending, buffered, handleVars, closeVars, loop,
                 wire, emitted, history>>

\* release_user_handle: whoever drops the last handle closes the client.
ReleaseHandle ==
  /\ handles' = handles - 1
  /\ closing' = IF handles = 1 /\ ~closed THEN "flagged" ELSE closing

Release(c) ==
  /\ pc[c] = "leaving"
  /\ ReleaseHandle
  /\ Goto(c, "over")
  /\ UNCHANGED <<mode, answer, replay, routeVars, owner, broken, loop, remoteVars, history>>

\* The futures borrow the client: it is not dropped while one is alive.
DropClient ==
  /\ owner /\ \A c \in Calls : pc[c] \notin InFuture
  /\ owner' = FALSE
  /\ ReleaseHandle
  /\ UNCHANGED <<mode, callVars, routeVars, broken, loop, remoteVars, history>>

-----------------------------------------------------------------------------
(* close_with_error, after `closed` was swapped.                           *)

CloseConnection ==
  /\ closing = "flagged"
  /\ closing' = "cut"
  /\ UNCHANGED <<mode, callVars, routeVars, handleVars, broken, loop, remoteVars, history>>

MisFailRequests ==  \* only the streams are told
  /\ closing = "cut"
  /\ closing' = "requests"
  /\ UNCHANGED <<mode, callVars, routeVars, handleVars, broken, loop, remoteVars, history>>

FailRequests ==
  /\ closing = "cut"
  /\ answer' = [c \in Calls |-> IF c \in pending THEN "error" ELSE answer[c]]
  /\ pending' = {}
  /\ closing' = "requests"
  /\ UNCHANGED <<mode, pc, replay, sinks, buffered, handleVars, broken, loop, remoteVars,
                 history>>

FailStreams ==
  /\ closing = "requests"
  /\ inbox' = [c \in Calls |-> IF c \in sinks THEN Append(inbox[c], Closed) ELSE inbox[c]]
  /\ sinks' = {}
  /\ closing' = "streams"
  /\ UNCHANGED <<mode, callVars, pending, buffered, handleVars, broken, loop, remoteVars,
                 early, dropped>>

ClearBuffer ==
  /\ closing = "streams"
  /\ buffered' = [c \in Calls |-> <<>>]
  /\ closing' = "done"
  /\ UNCHANGED <<mode, callVars, pending, sinks, handleVars, broken, loop, remoteVars,
                 history>>

-----------------------------------------------------------------------------
(* The response loop.                                                      *)

HandleResponse ==
  /\ loop.st = "idle" /\ wire # <<>> /\ Head(wire).kind = "response"
  /\ LET c == Head(wire).call IN
       /\ pending' = pending \ {c}
       /\ answer' = [answer EXCEPT ![c] =
            IF c \notin pending THEN @ ELSE IF Head(wire).ok THEN "ok" ELSE "error"]
  /\ wire' = Tail(wire)
  /\ UNCHANGED <<mode, pc, replay, sinks, buffered, handleVars, closeVars, loop, remote,
                 emitted, history>>

\* handle_notification clones the sink, if there is one, and unlocks ...
LookUpSink ==
  /\ loop.st = "idle" /\ wire # <<>> /\ Head(wire).kind = "item"
  /\ loop' = [st |-> IF Head(wire).call \in sinks THEN "deliver" ELSE "buffer",
              call |-> Head(wire).call, n |-> Head(wire).n]
  /\ wire' = Tail(wire)
  /\ UNCHANGED <<mode, callVars, routeVars, handleVars, closeVars, remote, emitted, history>>

\* ... before it sends (to nobody, when the stream has been dropped) ...
Deliver ==
  /\ loop.st = "deliver"
  /\ IF pc[loop.call] \in {"publishing", "replaying", "streaming"}
       THEN Into(loop.call, loop.n) ELSE UNCHANGED inbox
  /\ loop' = Idle
  /\ UNCHANGED <<mode, callVars, routeVars, handleVars, closeVars, remoteVars, early, dropped>>

HasRoom(c) ==
  /\ Len(buffered[c]) < BufferItems
  /\ buffered[c] # <<>> \/ Cardinality({d \in Calls : buffered[d] # <<>>}) < BufferIds

\* ... or buffers what nobody has subscribed to yet.
Buffer ==
  /\ loop.st = "buffer"
  /\ IF HasRoom(loop.call)
       THEN /\ buffered' = [buffered EXCEPT ![loop.call] = Append(@, loop.n)]
            /\ early' = [early EXCEPT ![loop.call] =
                 IF answer[loop.call] = "none" THEN @ \cup {loop.n} ELSE @]
            /\ UNCHANGED dropped
       ELSE /\ dropped' = [dropped EXCEPT ![loop.call] = @ \cup {loop.n}]
            /\ UNCHANGED <<buffered, early>>
  /\ loop' = Idle
  /\ UNCHANGED <<mode, callVars, pending, sinks, handleVars, closeVars, remoteVars, inbox>>

\* The stream of frames has ended, or a frame was malformed.
LoopFails ==
  /\ loop.st = "idle"
  /\ loop' = [st |-> "stopped"]
  /\ IF closed THEN UNCHANGED closeVars ELSE closing' = "flagged" /\ broken' = TRUE
  /\ UNCHANGED <<mode, callVars, routeVars, handleVars, remoteVars, history>>

\* The stop signal, which select may notice frames later.
LoopStops ==
  /\ loop.st = "idle" /\ closing \notin {"no", "flagged"}
  /\ loop' = [st |-> "stopped"]
  /\ UNCHANGED <<mode, callVars, routeVars, handleVars, closeVars, remoteVars, history>>

-----------------------------------------------------------------------------
(* The chain at the other end.  Its notifications may precede its answer.  *)

Respond(c) ==
  /\ remote[c] = "asked" /\ Len(wire) < MaxWire
  /\ \/ /\ wire' = Append(wire, Response(c, TRUE))
        /\ remote' = [remote EXCEPT ![c] = "subscribed"]
     \/ /\ emitted[c] = 0
        /\ wire' = Append(wire, Response(c, FALSE))
        /\ remote' = [remote EXCEPT ![c] = "ended"]
  /\ UNCHANGED <<mode, callVars, routeVars, handleVars, closeVars, loop, emitted, history>>

Notify(c) ==
  /\ remote[c] \in {"asked", "subscribed"} /\ Len(wire) < MaxWire
  /\ emitted[c] < MaxItems
  /\ emitted' = [emitted EXCEPT ![c] = @ + 1]
  /\ wire' = Append(wire, Item(c, emitted[c] + 1))
  /\ UNCHANGED <<mode, callVars, routeVars, handleVars, closeVars, loop, remote, history>>

-----------------------------------------------------------------------------
CallStep(c) ==
  \/ Begin(c) \/ Register(c) \/ SendRequest(c) \/ Publish(c) \/ TakeBuffered(c)
  \/ Replay(c) \/ DropFuture(c) \/ Unsubscribe(c) \/ Release(c)
CloseStep == CloseConnection \/ FailRequests \/ FailStreams \/ ClearBuffer
LoopStep  == HandleResponse \/ LookUpSink \/ Deliver \/ Buffer \/ LoopFails \/ LoopStops

Next ==
  \/ \E c \in Calls : MayRun({c}, FALSE, FALSE) /\ CallStep(c)
  \/ MayRun({}, FALSE, FALSE) /\ DropClient
  \/ MayRun({}, FALSE, TRUE) /\ CloseStep
  \/ MayRun({}, TRUE, FALSE) /\ LoopStep
  \/ \E c \in Calls : Respond(c) \/ Notify(c)

(* A poll that has begun ends, a call whose answer is there is polled, and *)
(* close_with_error runs to its end.  Callers may keep their streams for   *)
(* ever, and the remote need not answer.                                   *)
Fairness ==
  /\ \A c \in Calls : WF_vars(MayRun({c}, FALSE, FALSE) /\
       (SendRequest(c) \/ Publish(c) \/ TakeBuffered(c) \/ Replay(c) \/ Release(c)))
  /\ WF_vars(MayRun({}, FALSE, TRUE) /\ CloseStep)
  /\ WF_vars(MayRun({}, TRUE, FALSE) /\ (Deliver \/ Buffer))

Spec == Init /\ [][Next]_vars /\ Fairness

-----------------------------------------------------------------------------
(* Properties.                                                             *)

TypeOK ==
  /\ mode \in Modes
  /\ pc \in [Calls -> Phases]
  /\ pending \in SUBSET Calls
  /\ answer \in [Calls -> {"none", "ok", "error"}]
  /\ sinks \in SUBSET Calls
  /\ buffered \in [Calls -> Seq(Items)]
  /\ replay \in [Calls -> Seq(Items)]
  /\ inbox \in [Calls -> Seq(Items \cup {Closed})]
  /\ early \in [Calls -> SUBSET Items]
  /\ dropped \in [Calls -> SUBSET Items]
  /\ owner \in BOOLEAN
  /\ handles \in Nat
  /\ closing \in ClosingPhases
  /\ broken \in BOOLEAN
  /\ loop \in LoopStates
  /\ wire \in Seq(Frames)
  /\ remote \in [Calls -> {"none", "asked", "subscribed", "ended"}]
  /\ emitted \in [Calls -> 0..MaxItems]

(* Closing overlooks nobody.  Whichever thread closes the client, and      *)
(* whatever calls are in the middle of: once close_with_error is through,  *)
(* no request is left without an answer, no sink is left in the map, and   *)
(* every stream has been handed the error that ends it.                    *)
CloseReachesEverybody ==
  closing = "done" =>
    /\ pending = {} /\ sinks = {}
    /\ \A c \in Calls :
         /\ pc[c] \in {"registered", "waiting"} => answer[c] # "none"
         /\ pc[c] \in {"publishing", "replaying", "streaming"} =>
              Closed \in Range(inbox[c])

(* The handle count is right.  While the client or a lease of a call or of *)
(* a stream is there only a failure closes the connection ("subscription   *)
(* stream holds connection lease until dropped"), and it is not left open  *)
(* for nobody: when the last of them has gone, whatever became of the      *)
(* others, it is closed (release_user_handle).                             *)
LeaseKeepsOpen ==
  LET used == owner \/ \E c \in Calls : pc[c] \in Leased IN
  /\ closed /\ ~broken => ~used
  /\ ~used => closed

(* What was buffered before the subscription was acknowledged is replayed: *)
(* all of it is in the channel by the time the stream is handed out.       *)
EarlyItemsReplayed ==
  \A c \in Calls : pc[c] = "streaming" /\ ~closed => early[c] \subseteq Range(inbox[c])

(* A stream yields the notifications of its subscription in the order the  *)
(* remote sent them, missing only those the full buffer refused, and the   *)
(* closing error comes last.                                               *)
InOrder(c) ==
  \A i, j \in 1..Len(inbox[c]) : i < j =>
    inbox[c][i] # Closed /\ (inbox[c][j] = Closed \/ inbox[c][i] < inbox[c][j])
NoGap(c) ==
  \A n \in Range(inbox[c]) \ {Closed} :
    \A k \in 1..n : k \in Range(inbox[c]) \cup dropped[c] \cup Range(replay[c])
ItemsInOrder == \A c \in Calls : pc[c] = "streaming" => InOrder(c) /\ NoGap(c)

(* On one thread this holds: subscribe publishes and drains in one poll,   *)
(* the loop looks up and delivers in one poll.                             *)
ItemsInOrderInTurns == mode = "turns" => ItemsInOrder

(* An early notification is refused only when the buffer is full of early   *)
(* ones: what ended subscriptions leave behind takes no place ("events     *)
(* that land before the follow ack are buffered by remote id and replayed  *)
(* once the follow is established").                                       *)
Unacknowledged == {c \in Calls : pc[c] \in {"registered", "waiting", "publishing"}}
EarlyItemsHaveRoom ==
  [][\A c \in Calls :
       (pc[c] = "waiting" /\ answer[c] = "none" /\ dropped'[c] # dropped[c]) =>
          \/ Len(buffered[c]) = BufferItems
          \/ Cardinality(Unacknowledged) > BufferIds]_vars

(* No request hangs: one that waits while the client is closed is failed.  *)
WaitingCallsSettle ==
  \A c \in Calls : (pc[c] = "waiting" /\ closed) ~> (pc[c] # "waiting")

=============================================================================
