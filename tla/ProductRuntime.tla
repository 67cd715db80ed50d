---------------------------- MODULE ProductRuntime ----------------------------
(***************************************************************************)
(* One product connection: ProductRuntime (host_core.rs) around a          *)
(* SubscriptionManager.  A client sends `_start` frames and, later, the    *)
(* `_stop` frames of those subscriptions; the embedder passes each frame   *)
(* to receive_frame and disposes the runtime when the connection is over;  *)
(* everything leaves through SinkTransport, which swallows frames once the *)
(* runtime is disposed.                                                    *)
(*                                                                         *)
(* The embedders differ in what may interleave, and `ingress` says which   *)
(* one this behaviour is about:                                            *)
(*   "spawned"     the native WebSocket bridge (ws_bridge.rs): one tokio   *)
(*                 task per frame on a multi-threaded executor; when the   *)
(*                 socket closes the tasks are aborted, then dispose runs  *)
(*   "turns"       the WASM host in its worker: one thread, frames polled  *)
(*                 in order, no other actor gets in before one awaits; the *)
(*                 worker frees a core it has disposed                     *)
(*   "sequential"  the CLI's frame server: the read loop awaits each       *)
(*                 receive_frame before it reads on, and before it         *)
(*                 disposes; pumps run on other threads                    *)
(***************************************************************************)
EXTENDS Naturals, FiniteSets

CONSTANTS Calls, Ids, MaxItems, NoCall,
          Stoppable, \* bound: the subscriptions the client may stop
          MaxStarts, \* bound: `_start` frames whose receive_frame is under way
          Ingresses  \* the embedders considered

ASSUME IngressAssumption ==
  /\ Stoppable \subseteq Calls
  /\ MaxItems \in Nat /\ NoCall \notin Calls
  /\ MaxStarts \in Nat
  /\ Ingresses \subseteq {"spawned", "turns", "sequential"}

VARIABLES
  slots, nextGeneration, pc, rid, gen, cancelled, draining,
  items, late, interrupts, stopped, newest,   \* of SubscriptionManager
  ingress,    \* which embedder
  rf,         \* where the receive_frame call of each frame is
  inFlight,   \* frames with an AbortHandle in `in_flight`
  aborted,    \* frames whose AbortHandle has been used
  killed,     \* the embedder has aborted the tasks it spawned
  disposal,   \* how far dispose has got
  gate        \* senders that found `disposed` false and have yet to emit

Subs == INSTANCE SubscriptionManager

subsVars    == <<slots, nextGeneration, pc, rid, gen, cancelled, draining,
                 items, late, interrupts, stopped, newest>>
runtimeVars == <<ingress, rf, inFlight, aborted, killed, disposal, gate>>
vars == <<subsVars, runtimeVars>>

Frames == [kind : {"start"}, call : Calls] \cup [kind : {"stop"}, call : Stoppable]
StartOf(c) == [kind |-> "start", call |-> c]
StopOf(c)  == [kind |-> "stop", call |-> c]

\* "arrived": read off the connection.  "entered": receive_frame found the
\* runtime not disposed.  "dispatching": the AbortHandle is in `in_flight`.
\* "leaving": it has been taken out again.
RfPhases == {"unsent", "arrived", "entered", "dispatching", "leaving", "returned"}

\* "flagged": disposed is set.  "aborted": in_flight is drained.
\* "drained": the subscriptions are.  "freed": the worker has let go of it.
DisposalPhases == {"none", "flagged", "aborted", "drained", "returned", "freed"}
Disposed == disposal # "none"

Init ==
  /\ Subs!Init
  /\ ingress \in Ingresses
  /\ rf = [f \in Frames |-> "unsent"]
  /\ inFlight = {}
  /\ aborted = {}
  /\ killed = FALSE
  /\ disposal = "none"
  /\ gate = {}

Advance(f, phase) == rf' = [rf EXCEPT ![f] = phase]

\* Frames whose receive_frame is called for, or running.
Unsettled == {f \in Frames : rf[f] \notin {"unsent", "returned"}}

-----------------------------------------------------------------------------
(* The embedder's read loop.                                               *)

\* A client stops only what it has started; the connection keeps the order.
Arrive(f) ==
  /\ rf[f] = "unsent" /\ ~killed /\ ~Disposed
  /\ f.kind = "stop" => rf[StartOf(f.call)] # "unsent"
  /\ f.kind = "start" => Cardinality({g \in Unsettled : g.kind = "start"}) < MaxStarts
  /\ ingress = "sequential" => Unsettled = {}
  /\ Advance(f, "arrived")
  /\ UNCHANGED <<subsVars, ingress, inFlight, aborted, killed, disposal, gate>>

\* Bridge only: the socket is gone, every task spawned for a frame is aborted.
KillTasks ==
  /\ ingress = "spawned" /\ ~killed
  /\ killed' = TRUE
  /\ UNCHANGED <<subsVars, ingress, rf, inFlight, aborted, disposal, gate>>

\* An aborted task is dropped before its first poll or at its next await,
\* and none of receive_frame's remaining lines run.
TaskDropped(f) ==
  /\ killed
  /\ \/ rf[f] = "arrived" /\ UNCHANGED subsVars
     \/ /\ rf[f] = "dispatching" /\ f.kind = "start"
        /\ Subs!DropDispatch(f.call)
  /\ Advance(f, "returned")
  /\ UNCHANGED <<ingress, inFlight, aborted, killed, disposal, gate>>

-----------------------------------------------------------------------------
(* receive_frame.                                                          *)

\* The disposed check.  Without parallel tasks frames are polled in order.
Enter(f) ==
  /\ rf[f] = "arrived"
  /\ f.kind = "stop" /\ ingress # "spawned" =>
       rf[StartOf(f.call)] # "arrived"
  /\ Advance(f, IF Disposed THEN "returned" ELSE "entered")
  /\ UNCHANGED <<subsVars, ingress, inFlight, aborted, killed, disposal, gate>>

Register(f) ==
  /\ rf[f] = "entered"
  /\ inFlight' = inFlight \cup {f}
  /\ Advance(f, "dispatching")
  /\ UNCHANGED <<subsVars, ingress, aborted, killed, disposal, gate>>

\* Abortable polls the dispatch: not once its handle has been used, except
\* for the poll that was already running then.
DispatchStart(f) ==
  /\ rf[f] = "dispatching" /\ f.kind = "start"
  /\ \/ f \notin aborted /\ Subs!DrawGeneration(f.call)
     \/ Subs!Reserve(f.call)
     \/ Subs!Activate(f.call)
     \/ Subs!CancelReservation(f.call)
  /\ UNCHANGED runtimeVars

DispatchStop(f) ==
  /\ rf[f] = "dispatching" /\ f.kind = "stop" /\ f \notin aborted
  /\ Subs!HandleStop(rid[f.call])
  /\ inFlight' = inFlight \ {f}
  /\ Advance(f, "leaving")
  /\ UNCHANGED <<ingress, aborted, killed, disposal, gate>>

\* The aborted dispatch is dropped where it is: not begun, or at its await.
Abort(f) ==
  /\ rf[f] = "dispatching" /\ f \in aborted
  /\ \/ f.kind = "stop" /\ UNCHANGED subsVars
     \/ f.kind = "start" /\ pc[f.call] = "idle" /\ UNCHANGED subsVars
     \/ f.kind = "start" /\ Subs!DropDispatch(f.call)
  /\ inFlight' = inFlight \ {f}
  /\ Advance(f, "leaving")
  /\ UNCHANGED <<ingress, aborted, killed, disposal, gate>>

\* The dispatch future is ready: activated, or its failure was sent.
DispatchReturns(f) ==
  /\ rf[f] = "dispatching" /\ f.kind = "start"
  /\ pc[f.call] \in Subs!Pumping \cup {"closing", "done"}
  /\ inFlight' = inFlight \ {f}
  /\ Advance(f, "leaving")
  /\ UNCHANGED <<subsVars, ingress, aborted, killed, disposal, gate>>

MisLeave(f) ==  \* `disposed` is not looked at again
  /\ rf[f] = "leaving"
  /\ Advance(f, "returned")
  /\ UNCHANGED <<subsVars, ingress, inFlight, aborted, killed, disposal, gate>>

\* A dispatch that outlived dispose clears what it may have left behind.
Leave(f) ==
  /\ rf[f] = "leaving"
  /\ IF Disposed THEN Subs!DrainSlots ELSE UNCHANGED subsVars
  /\ Advance(f, "returned")
  /\ UNCHANGED <<ingress, inFlight, aborted, killed, disposal, gate>>

-----------------------------------------------------------------------------
(* SinkTransport::send: the check of `disposed`, then emit_frame.          *)

PassGate(c) ==
  /\ pc[c] \in Subs!SendPhases /\ c \notin gate /\ ~Disposed
  /\ gate' = gate \cup {c}
  /\ UNCHANGED <<subsVars, ingress, rf, inFlight, aborted, killed, disposal>>

Swallow(c) ==
  /\ pc[c] \in Subs!SendPhases /\ c \notin gate /\ Disposed
  /\ Subs!Send(c, FALSE)
  /\ UNCHANGED runtimeVars

Emit(c) ==
  /\ c \in gate
  /\ Subs!Send(c, TRUE)
  /\ gate' = gate \ {c}
  /\ UNCHANGED <<ingress, rf, inFlight, aborted, killed, disposal>>

Pump(c) ==
  /\ Subs!PollCancelled(c) \/ Subs!PollStream(c) \/ Subs!RemoveSlot(c)
  /\ UNCHANGED runtimeVars

-----------------------------------------------------------------------------
(* dispose, and the closures a cancel_all runs after it drained the map.   *)

FlagDisposed ==
  /\ disposal = "none"
  /\ ingress = "spawned" => killed
  /\ ingress = "sequential" => Unsettled = {}
  /\ disposal' = "flagged"
  /\ UNCHANGED <<subsVars, ingress, rf, inFlight, aborted, killed, gate>>

MisAbortInFlight ==  \* the handles are dropped, not used
  /\ disposal = "flagged"
  /\ inFlight' = {}
  /\ disposal' = "aborted"
  /\ UNCHANGED <<subsVars, ingress, rf, aborted, killed, gate>>

AbortInFlight ==
  /\ disposal = "flagged"
  /\ aborted' = aborted \cup inFlight
  /\ inFlight' = {}
  /\ disposal' = "aborted"
  /\ UNCHANGED <<subsVars, ingress, rf, killed, gate>>

CancelSubscriptions ==
  /\ disposal = "aborted"
  /\ Subs!DrainSlots
  /\ disposal' = "drained"
  /\ UNCHANGED <<ingress, rf, inFlight, aborted, killed, gate>>

DisposeReturns ==
  /\ disposal = "drained" /\ draining = {}
  /\ disposal' = "returned"
  /\ UNCHANGED <<subsVars, ingress, rf, inFlight, aborted, killed, gate>>

MisFreeCore ==  \* in the same turn as dispose
  /\ ingress = "turns" /\ disposal = "returned"
  /\ disposal' = "freed"
  /\ UNCHANGED <<subsVars, ingress, rf, inFlight, aborted, killed, gate>>

\* disposeAwaitingFrames: a receive_frame borrows the core until its promise
\* settles; frames that come later find no core.
FreeCore ==
  /\ ingress = "turns" /\ disposal = "returned" /\ Unsettled = {}
  /\ disposal' = "freed"
  /\ UNCHANGED <<subsVars, ingress, rf, inFlight, aborted, killed, gate>>

FireDrained(c) ==
  /\ Subs!FireDrained(c)
  /\ UNCHANGED runtimeVars

-----------------------------------------------------------------------------
(* In the middle of a turn, with work to do before the next await.         *)
FrameInTurn(f) ==
  \/ rf[f] \in {"entered", "leaving"}
  \/ /\ rf[f] = "dispatching"
     /\ \/ f.kind = "stop"
        \/ pc[f.call] # "handling"
PumpInTurn(c) ==
  pc[c] \in {"sending", "interrupting", "completing", "leaving", "closing"}
DisposalInTurn ==
  disposal \in {"flagged", "aborted", "drained"} \/ draining # {}

\* On one thread a step belongs to whoever is in the middle of a turn.
MayStep(f, c, disposer) ==
  ingress = "turns" =>
    /\ \A g \in Frames : FrameInTurn(g) => g = f
    /\ \A d \in Calls : PumpInTurn(d) => d = c
    /\ DisposalInTurn => disposer

FrameStep(f) ==
  \/ Enter(f) \/ Register(f) \/ DispatchStart(f) \/ DispatchStop(f)
  \/ Abort(f) \/ DispatchReturns(f) \/ Leave(f)
SendStep(c) == PassGate(c) \/ Swallow(c) \/ Emit(c)
DisposeStep == FlagDisposed \/ AbortInFlight \/ CancelSubscriptions \/ DisposeReturns \/ FreeCore

Next ==
  \/ \E f \in Frames : Arrive(f) \/ TaskDropped(f)
  \/ KillTasks
  \/ \E f \in Frames : MayStep(f, NoCall, FALSE) /\ FrameStep(f)
  \/ \E c \in Calls :
       \/ pc[c] # "failing" /\ MayStep(NoCall, c, FALSE) /\ (Pump(c) \/ SendStep(c))
       \/ pc[c] = "failing" /\ MayStep(StartOf(c), NoCall, FALSE) /\ SendStep(c)
       \/ MayStep(NoCall, NoCall, TRUE) /\ FireDrained(c)
  \/ MayStep(NoCall, NoCall, TRUE) /\ DisposeStep

(* Fairness: while a poll has begun and not reached its next await, a pump *)
(* is woken, an aborted task has not been dropped or dispose is not at its *)
(* end, the executor runs one of them: there are finitely many such steps, *)
(* so that the order it takes them in does not matter.                     *)
(* Handlers, streams, the client and the host's decision to dispose get    *)
(* none: a handler may wait for ever, e.g. for a user who never answers.   *)
Turn(f) ==
  MayStep(f, NoCall, FALSE) /\
    \/ Enter(f) \/ Register(f) \/ DispatchStop(f) \/ Abort(f)
    \/ DispatchReturns(f) \/ Leave(f)
    \/ pc[f.call] # "handling" /\ DispatchStart(f)
PumpTurn(c) ==
  \/ /\ pc[c] # "failing" /\ MayStep(NoCall, c, FALSE)
     /\ SendStep(c) \/ ((pc[c] = "streaming" => c \in cancelled) /\ Pump(c))
  \/ pc[c] = "failing" /\ MayStep(StartOf(c), NoCall, FALSE) /\ SendStep(c)
DisposerTurn ==
  MayStep(NoCall, NoCall, TRUE) /\
    (AbortInFlight \/ CancelSubscriptions \/ DisposeReturns \/ FreeCore
      \/ \E c \in Calls : FireDrained(c))

Fairness ==
  WF_vars(\/ \E f \in Frames : Turn(f) \/ TaskDropped(f)
          \/ \E c \in Calls : PumpTurn(c)
          \/ DisposerTurn)

Spec == Init /\ [][Next]_vars /\ Fairness

-----------------------------------------------------------------------------
(* Properties.                                                             *)

TypeOK ==
  /\ Subs!TypeOK
  /\ ingress \in Ingresses
  /\ rf \in [Frames -> RfPhases]
  /\ inFlight \in SUBSET Frames
  /\ aborted \in SUBSET Frames
  /\ killed \in BOOLEAN
  /\ disposal \in DisposalPhases
  /\ gate \in SUBSET Calls

(* dispose "aborts in-flight dispatch futures, and cancels active          *)
(* subscriptions": once it and every receive_frame have returned, in       *)
(* whatever order their steps fell, nothing streams any more.  A dispatch  *)
(* that registers or activates behind dispose's back is what the last      *)
(* lines of receive_frame are for.  Nor does a core that is freed still    *)
(* run a frame: free would throw and leak it (worker-core-registry.ts).    *)
NoStreamOutlivesDispose ==
  /\ (disposal \in {"returned", "freed"} /\ Unsettled = {} /\ draining = {}) =>
       \A c \in Calls : ~Subs!Running(c)
  /\ disposal = "freed" => Unsettled = {}

(* A `_stop` the client sends after its `_start` ends the subscription:    *)
(* once the stop's receive_frame has returned, on a connection that is     *)
(* still open, the subscription it names has no running stream.            *)
StopReachesStream ==
  \A c \in Stoppable :
    (rf[StopOf(c)] = "returned" /\ ~killed /\ ~Disposed) => ~Subs!Running(c)

(* The same, for the embedders that poll frames in the order they arrive.  *)
OrderedStopReachesStream == ingress # "spawned" => StopReachesStream

(* in_flight holds exactly the dispatches under way, so that dispose finds *)
(* each of them and the map does not grow with the frames received; only a *)
(* task the embedder aborted leaves its entry behind.                      *)
InFlightIsExact ==
  \A f \in Frames :
    /\ f \in inFlight => rf[f] = "dispatching" \/ (killed /\ rf[f] = "returned")
    /\ rf[f] = "dispatching" => f \in inFlight \/ f \in aborted \/ Disposed

(* Disposal lets go of everything: every pump ends and every receive_frame *)
(* returns, even when the handlers they wait for never do; so that the     *)
(* worker, which waits for them, comes to free the core.                   *)
DisposalReleases ==
  (disposal = "returned") ~>
    /\ Unsettled = {} /\ \A c \in Calls : pc[c] \notin Subs!Pumping
    /\ ingress = "turns" => disposal = "freed"

=============================================================================
