------------------------------- MODULE WsBridge -------------------------------
(***************************************************************************)
(* The localhost WebSocket bridge (ws_bridge.rs) as a native product       *)
(* execution runs it (native.rs): an accept loop, one task per connection, *)
(* one pump task per connection that writes the outbound queue to the      *)
(* socket, one task per frame received, and the subscription streams the   *)
(* product runtime of the connection feeds its frame sink from.            *)
(*                                                                         *)
(* What a product runtime does with a frame is ProductRuntime's business.  *)
(* Here it is one subscription per connection: the frame task that starts  *)
(* it, and the stream.  What matters is who holds the sending half of the  *)
(* outbound queue, because the pump only ends once nobody does.            *)
(***************************************************************************)
EXTENDS Naturals, FiniteSets, Sequences, SequencesExt

CONSTANTS Conns,              \* connections the peers dial
          MaxConnections,     \* MAX_WS_BRIDGE_CONNECTIONS
          QueueCap,           \* OUTBOUND_QUEUE_CAP
          NoConn

ASSUME BridgeAssumption ==
  /\ MaxConnections \in Nat \ {0}
  /\ QueueCap \in Nat \ {0}
  /\ NoConn \notin Conns

VARIABLES
  bridge,    \* WsBridge::stop: "up", "stopping" (signalled, waiting), "down"
  acceptor,  \* accept_loop: "accepting", "aborting" (its handles), "exited"
  handles,   \* its JoinHandles
  socket,    \* as the peer sees it: "none", "dialing", "open", "closed"
  conn,      \* handle_connection
  pump,      \* its pump task
  outbound,  \* the outbound queue: who emitted each frame
  muted,     \* WsFrameSink::closed
  emitting,  \* who found `closed` false and has yet to try_send
  lost,      \* history: who had a frame dropped
  task,      \* the task of a `_start` frame: "none", "running", "replying"
             \*   (about to emit its handler's error), "over"
  subscription,
             \* the stream it started: "none", "running", "over"
  disposed,  \* the connection's ProductRuntime
  control    \* the connection `product_control` points to

bridgeVars == <<bridge, acceptor, handles, socket, conn, pump, outbound, muted, emitting,
                lost, task, subscription, disposed, control>>

\* "draining": reading is over, awaiting the pump.  "aborted": dropped.
ConnPhases == {"none", "handshake", "reading", "draining", "finished", "aborted"}
Over(k) == conn[k] \in {"finished", "aborted"}

\* What feeds a connection's frame sink.
Emitters == {"task", "stream"}

\* Somebody still owns an `out_tx`: handle_connection through its local
\* product_runtime, a frame task or a stream through the transport, and the
\* control handle the execution keeps.
HasSender(k) ==
  \/ conn[k] \in {"reading", "draining"}
  \/ task[k] \in {"running", "replying"}
  \/ subscription[k] = "running"
  \/ emitting[k] # {}
  \/ control = k

BridgeInit ==
  /\ bridge = "up"
  /\ acceptor = "accepting"
  /\ handles = {}
  /\ socket = [k \in Conns |-> "none"]
  /\ conn = [k \in Conns |-> "none"]
  /\ pump = [k \in Conns |-> "none"]
  /\ outbound = [k \in Conns |-> <<>>]
  /\ muted = [k \in Conns |-> FALSE]
  /\ emitting = [k \in Conns |-> {}]
  /\ lost = [k \in Conns |-> {}]
  /\ task = [k \in Conns |-> "none"]
  /\ subscription = [k \in Conns |-> "none"]
  /\ disposed = [k \in Conns |-> FALSE]
  /\ control = NoConn

executionVars == <<task, subscription, disposed>>
sinkVars == <<muted, emitting, lost>>
outboundVars == <<pump, outbound, sinkVars>>

-----------------------------------------------------------------------------
(* accept_loop.                                                            *)

Dial(k) ==
  /\ socket[k] = "none" /\ acceptor = "accepting"
  /\ socket' = [socket EXCEPT ![k] = "dialing"]
  /\ UNCHANGED <<bridge, acceptor, handles, conn, outboundVars, executionVars, control>>

Unfinished == {k \in handles : ~Over(k)}

(* Operators whose name begins with Mis are no part of the model.  Each is *)
(* a plausible mistake in the operator it precedes; PROJECT.json says      *)
(* which property has to notice it.                                        *)

Accept(k) ==
  /\ acceptor = "accepting" /\ socket[k] = "dialing"
  /\ Cardinality(Unfinished) < MaxConnections
  /\ handles' = Unfinished \cup {k}
  /\ socket' = [socket EXCEPT ![k] = "open"]
  /\ conn' = [conn EXCEPT ![k] = "handshake"]
  /\ UNCHANGED <<bridge, acceptor, outboundVars, executionVars, control>>

Refuse(k) ==
  /\ acceptor = "accepting" /\ socket[k] = "dialing"
  /\ Cardinality(Unfinished) >= MaxConnections
  /\ handles' = Unfinished
  /\ socket' = [socket EXCEPT ![k] = "closed"]
  /\ UNCHANGED <<bridge, acceptor, conn, outboundVars, executionVars, control>>

\* The shutdown signal: every connection task is aborted, then awaited.
AbortHandles ==
  /\ acceptor = "accepting" /\ bridge = "stopping"
  /\ acceptor' = "aborting"
  /\ UNCHANGED <<bridge, handles, socket, conn, outboundVars, executionVars, control>>

AcceptorExits ==
  /\ acceptor = "aborting" /\ Unfinished = {}
  /\ acceptor' = "exited"
  /\ handles' = {}
  /\ socket' = [k \in Conns |-> IF socket[k] = "dialing" THEN "closed" ELSE socket[k]]
  /\ UNCHANGED <<bridge, conn, outboundVars, executionVars, control>>

-----------------------------------------------------------------------------
(* handle_connection.                                                      *)

HandshakeFails(k) ==
  /\ conn[k] = "handshake"
  /\ conn' = [conn EXCEPT ![k] = "finished"]
  /\ socket' = [socket EXCEPT ![k] = "closed"]
  /\ UNCHANGED <<bridge, acceptor, handles, outboundVars, executionVars, control>>

\* The factory also points the execution's control handle at the new runtime.
Open(k) ==
  /\ conn[k] = "handshake" /\ socket[k] = "open"
  /\ conn' = [conn EXCEPT ![k] = "reading"]
  /\ pump' = [pump EXCEPT ![k] = "running"]
  /\ control' = k
  /\ UNCHANGED <<bridge, acceptor, handles, socket, outbound, sinkVars, executionVars>>

\* A `_start` frame is read and its task spawned.
ReadFrame(k) ==
  /\ conn[k] = "reading" /\ socket[k] = "open" /\ task[k] = "none"
  /\ task' = [task EXCEPT ![k] = "running"]
  /\ UNCHANGED <<bridge, acceptor, handles, socket, conn, outboundVars, subscription,
                 disposed, control>>

\* The socket is gone: frame tasks are aborted, the runtime is disposed,
\* which cancels its streams, and the pump is awaited.
StopReading(k) ==
  /\ conn[k] = "reading" /\ socket[k] = "closed"
  /\ conn' = [conn EXCEPT ![k] = "draining"]
  /\ task' = [task EXCEPT ![k] = IF @ = "running" THEN "over" ELSE @]
  /\ subscription' = [subscription EXCEPT ![k] = IF @ = "running" THEN "over" ELSE @]
  /\ disposed' = [disposed EXCEPT ![k] = TRUE]
  /\ UNCHANGED <<bridge, acceptor, handles, socket, outboundVars, control>>

Finish(k) ==
  /\ conn[k] = "draining" /\ pump[k] = "finished"
  /\ conn' = [conn EXCEPT ![k] = "finished"]
  /\ UNCHANGED <<bridge, acceptor, handles, socket, outboundVars, executionVars, control>>

MisAborted(k) ==  \* the tasks are awaited, not aborted
  /\ acceptor = "aborting" /\ k \in Unfinished /\ socket[k] = "closed"
  /\ conn' = [conn EXCEPT ![k] = "aborted"]
  /\ UNCHANGED <<bridge, acceptor, handles, socket, outboundVars, executionVars, control>>

\* The aborted connection task is dropped at the await it is in; its frame
\* tasks and its pump are detached, and its ProductRuntime is not disposed.
Aborted(k) ==
  /\ acceptor = "aborting" /\ k \in Unfinished
  /\ conn' = [conn EXCEPT ![k] = "aborted"]
  /\ socket' = [socket EXCEPT ![k] = IF conn[k] = "handshake" THEN "closed" ELSE @]
  /\ UNCHANGED <<bridge, acceptor, handles, outboundVars, executionVars, control>>

-----------------------------------------------------------------------------
(* Frame tasks, streams and the sink they emit into.                       *)

\* The handler resolves: the subscription is activated, was stopped in the
\* meantime, or is refused, which the task has to tell the product.
TaskEnds(k) ==
  /\ task[k] = "running"
  /\ \/ /\ task' = [task EXCEPT ![k] = "over"]
        /\ subscription' \in {subscription, [subscription EXCEPT ![k] = "running"]}
     \/ /\ task' = [task EXCEPT ![k] = "replying"]
        /\ UNCHANGED subscription
  /\ UNCHANGED <<bridge, acceptor, handles, socket, conn, outboundVars, disposed, control>>

StreamEnds(k) ==
  /\ subscription[k] = "running" /\ "stream" \notin emitting[k]
  /\ subscription' = [subscription EXCEPT ![k] = "over"]
  /\ UNCHANGED <<bridge, acceptor, handles, socket, conn, outboundVars, task,
                 disposed, control>>

Emits(k, e) == IF e = "task" THEN task[k] = "replying" ELSE subscription[k] = "running"

\* A task replies once.
Replied(k, e) == task' = [task EXCEPT ![k] = IF e = "task" THEN "over" ELSE @]

MisPassSink(k, e) ==  \* `closed` is not looked at
  /\ Emits(k, e) /\ e \notin emitting[k] /\ ~disposed[k]
  /\ emitting' = [emitting EXCEPT ![k] = @ \cup {e}]
  /\ UNCHANGED <<bridge, acceptor, handles, socket, conn, pump, outbound, muted,
                 lost, executionVars, control>>

\* SinkTransport and WsFrameSink look at `disposed` and `closed` ...
PassSink(k, e) ==
  /\ Emits(k, e) /\ e \notin emitting[k] /\ ~disposed[k] /\ ~muted[k]
  /\ emitting' = [emitting EXCEPT ![k] = @ \cup {e}]
  /\ UNCHANGED <<bridge, acceptor, handles, socket, conn, pump, outbound, muted,
                 lost, executionVars, control>>

SwallowFrame(k, e) ==
  /\ Emits(k, e) /\ e \notin emitting[k] /\ (disposed[k] \/ muted[k])
  /\ lost' = [lost EXCEPT ![k] = @ \cup {e}]
  /\ Replied(k, e)
  /\ UNCHANGED <<bridge, acceptor, handles, socket, conn, pump, outbound, muted,
                 emitting, subscription, disposed, control>>

\* ... and then enqueue: a full queue, or no pump, closes the sink for good.
\* Between the two, another emitter may have closed it.
TrySend(k, e) ==
  /\ e \in emitting[k]
  /\ emitting' = [emitting EXCEPT ![k] = @ \ {e}]
  /\ IF Len(outbound[k]) < QueueCap /\ pump[k] = "running"
       THEN outbound' = [outbound EXCEPT ![k] = Append(@, e)] /\ UNCHANGED <<muted, lost>>
       ELSE /\ muted' = [muted EXCEPT ![k] = TRUE]
            /\ lost' = [lost EXCEPT ![k] = @ \cup {e}]
            /\ UNCHANGED outbound
  /\ Replied(k, e)
  /\ UNCHANGED <<bridge, acceptor, handles, socket, conn, pump, subscription, disposed, control>>

-----------------------------------------------------------------------------
(* The pump task.                                                          *)

\* One frame is written; a write to a socket that is gone ends the pump,
\* and what is still queued is dropped with the receiver.
Write(k) ==
  /\ pump[k] = "running" /\ outbound[k] # <<>>
  /\ IF socket[k] = "open"
       THEN outbound' = [outbound EXCEPT ![k] = Tail(@)] /\ UNCHANGED pump
       ELSE outbound' = [outbound EXCEPT ![k] = <<>>] /\ pump' = [pump EXCEPT ![k] = "finished"]
  /\ UNCHANGED <<bridge, acceptor, handles, socket, conn, sinkVars, executionVars, control>>

\* No sender is left: the pump closes the socket and ends.
CloseSocket(k) ==
  /\ pump[k] = "running" /\ outbound[k] = <<>> /\ ~HasSender(k)
  /\ pump' = [pump EXCEPT ![k] = "finished"]
  /\ socket' = [socket EXCEPT ![k] = "closed"]
  /\ UNCHANGED <<bridge, acceptor, handles, conn, outbound, sinkVars, executionVars, control>>

-----------------------------------------------------------------------------
(* The peer, and the host that stops the bridge.                           *)

PeerCloses(k) ==
  /\ socket[k] = "open"
  /\ socket' = [socket EXCEPT ![k] = "closed"]
  /\ UNCHANGED <<bridge, acceptor, handles, conn, outboundVars, executionVars, control>>

StopBridge ==
  /\ bridge = "up"
  /\ bridge' = "stopping"
  /\ UNCHANGED <<acceptor, handles, socket, conn, outboundVars, executionVars, control>>

\* stop has waited for the accept loop; the execution forgets its control.
StopReturns ==
  /\ bridge = "stopping" /\ acceptor = "exited"
  /\ bridge' = "down"
  /\ control' = NoConn
  /\ UNCHANGED <<acceptor, handles, socket, conn, outboundVars, executionVars>>

-----------------------------------------------------------------------------
BridgeStep(k) ==
  \/ Accept(k) \/ Refuse(k) \/ StopReading(k) \/ Finish(k) \/ Aborted(k)
  \/ socket[k] = "closed" /\ HandshakeFails(k)
PumpStep(k) == Write(k) \/ CloseSocket(k)
SinkStep(k) == \E e \in Emitters : PassSink(k, e) \/ SwallowFrame(k, e) \/ TrySend(k, e)
ExecutionStep(k) == TaskEnds(k) \/ StreamEnds(k) \/ SinkStep(k)
PeerStep(k) == Dial(k) \/ Open(k) \/ HandshakeFails(k) \/ ReadFrame(k) \/ PeerCloses(k)

BridgeNext ==
  \/ \E k \in Conns : BridgeStep(k) \/ PumpStep(k) \/ ExecutionStep(k) \/ PeerStep(k)
  \/ AbortHandles \/ AcceptorExits \/ StopBridge \/ StopReturns

(* tokio polls every woken task again, and a send that has begun ends.     *)
(* Peers, handlers and host streams are under no obligation, and a peer    *)
(* that stops reading blocks the pump for as long as its socket is open.   *)
BridgeFairness ==
  /\ \A k \in Conns :
       /\ WF_bridgeVars(BridgeStep(k))
       /\ WF_bridgeVars((socket[k] = "closed" /\ Write(k)) \/ CloseSocket(k))
       /\ \A e \in Emitters : WF_bridgeVars(TrySend(k, e))
  /\ WF_bridgeVars(AbortHandles) /\ WF_bridgeVars(AcceptorExits) /\ WF_bridgeVars(StopReturns)

BridgeSpec == BridgeInit /\ [][BridgeNext]_bridgeVars /\ BridgeFairness

-----------------------------------------------------------------------------
(* Properties.                                                             *)

BridgeTypeOK ==
  /\ bridge \in {"up", "stopping", "down"}
  /\ acceptor \in {"accepting", "aborting", "exited"}
  /\ handles \in SUBSET Conns
  /\ socket \in [Conns -> {"none", "dialing", "open", "closed"}]
  /\ conn \in [Conns -> ConnPhases]
  /\ pump \in [Conns -> {"none", "running", "finished"}]
  /\ outbound \in [Conns -> BoundedSeq(Emitters, QueueCap)]
  /\ muted \in [Conns -> BOOLEAN]
  /\ emitting \in [Conns -> SUBSET Emitters]
  /\ lost \in [Conns -> SUBSET Emitters]
  /\ task \in [Conns -> {"none", "running", "replying", "over"}]
  /\ subscription \in [Conns -> {"none", "running", "over"}]
  /\ disposed \in [Conns -> BOOLEAN]
  /\ control \in Conns \cup {NoConn}

(* MAX_WS_BRIDGE_CONNECTIONS bounds the connection tasks alive at a time,  *)
(* however connections come, fail, close and are aborted.                  *)
CapRespected ==
  Cardinality({k \in Conns : conn[k] # "none" /\ ~Over(k)}) <= MaxConnections

\* Where frames of emitter e are in the outbound queue.
Queued(k, e) == {i \in DOMAIN outbound[k] : outbound[k][i] = e}

(* A subscription never reaches the peer with a gap: once a frame of it    *)
(* was dropped for want of room, none of its frames is queued again, also  *)
(* when another emitter is between its check of `closed` and its try_send. *)
PrefixDelivery ==
  [][\A k \in Conns : \A e \in lost[k] :
       Cardinality(Queued(k, e)') <= Cardinality(Queued(k, e))]_bridgeVars

(* A socket the bridge has opened keeps its writer: no failure, overflow   *)
(* or abort leaves the peer with an open connection nobody writes to.      *)
WriterWhileOpen ==
  \A k \in Conns : pump[k] = "finished" => socket[k] = "closed"

(* stop, which blocks the host's thread until the accept loop is over,     *)
(* does return, whatever the connections are in the middle of.             *)
StopTerminates == (bridge = "stopping") ~> (bridge = "down")

(* MAX_WS_BRIDGE_CONNECTIONS counts simultaneous connections: one whose    *)
(* socket is closed gives its place back.                                  *)
ClosedConnectionReleased ==
  \A k \in Conns : (socket[k] = "closed" /\ conn[k] # "none") ~> Over(k)

(* "Fully stopped on return": a bridge that is down ends its connections'  *)
(* subscriptions, also those the host would feed for ever.                 *)
StopEndsStreams ==
  (bridge = "down") ~> (\A k \in Conns : subscription[k] # "running")

=============================================================================
