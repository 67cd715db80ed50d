------------------------- MODULE SubscriptionManager -------------------------
(***************************************************************************)
(* The server side of product-initiated subscriptions: SubscriptionManager *)
(* (subscription.rs) driven by the `_start` and `_stop` branches of        *)
(* Dispatcher::dispatch (dispatcher.rs).                                   *)
(*                                                                         *)
(* Every member of Calls is one dispatch of a `_start` frame.  It is an    *)
(* actor for its whole life: first the dispatch future (reserve, await the *)
(* handler, activate or fail), then, once activated, the pump task that    *)
(* activate hands to the spawner.  Dispatch futures and pumps run on       *)
(* several executor threads, so one action is what one of them does        *)
(* between two points where another thread may get in: a critical section  *)
(* of the `active` mutex, a poll, or one send.                             *)
(***************************************************************************)
EXTENDS Naturals, FiniteSets

CONSTANTS Calls,     \* dispatches of `_start` frames
          Ids,       \* request ids, chosen by the product and reusable
          MaxItems,  \* bound: items one stream yields
          NoCall

ASSUME SubscriptionAssumption ==
  /\ MaxItems \in Nat
  /\ NoCall \notin Calls

VARIABLES
  slots,           \* `active`: what the mutex-guarded map holds for each id
  nextGeneration,  \* the AtomicU64 generations are drawn from
  pc,              \* where each call is
  rid,             \* the request id of each call
  gen,             \* the generation in its ReservationToken
  cancelled,       \* calls whose cancel oneshot has fired
  draining,        \* calls drained by cancel_all, cancel closure not run yet
  items,           \* items the pump has handed to the transport
  late,            \* history: frames it sent although cancel had fired
  interrupts,      \* `_interrupt` frames it has sent
  stopped,         \* history: calls under way when a `_stop` for their id, or
                   \*   a cancel_all, was handled
  newest           \* history: the last call to reserve each id

mapVars     == <<slots, draining>>
callVars    == <<nextGeneration, rid, gen>>
frameVars   == <<items, late, interrupts>>
historyVars == <<stopped, newest>>
vars == <<slots, nextGeneration, pc, rid, gen, cancelled, draining,
          items, late, interrupts, stopped, newest>>

(* Dispatch future, then pump.  "reserving": generation drawn, lock not    *)
(* taken.  "handling": awaiting the host handler.  "failing": about to     *)
(* send the handler's error.  "leaving" and "completing": the pump's loop  *)
(* is over (completed false, true).  "closing": about to send the empty    *)
(* interrupt.  "dropped": the dispatch future was dropped at its await.    *)
Dispatching == {"reserving", "handling", "failing"}
Pumping     == {"streaming", "sending", "interrupting", "completing", "leaving"}
Phases      == {"idle", "closing", "done", "dropped"} \cup Dispatching \cup Pumping

Vacant          == [st |-> "vacant", gen |-> 0, cancel |-> NoCall]
Pending(g)      == [st |-> "pending", gen |-> g, cancel |-> NoCall]
Revoked(g)      == [st |-> "revoked", gen |-> g, cancel |-> NoCall]
Live(g, c)      == [st |-> "live", gen |-> g, cancel |-> c]

Slots == [st : {"vacant", "pending", "revoked", "live"},
          gen : Nat, cancel : Calls \cup {NoCall}]

\* The slot holds this call's reservation, or this call's stream.
Reserved(c) == slots[rid[c]].st \in {"pending", "revoked"} /\ slots[rid[c]].gen = gen[c]
Owned(c)    == slots[rid[c]].st = "live" /\ slots[rid[c]].gen = gen[c]

\* The call has a reservation or a stream that a `_stop` is meant to end.
UnderWay(c) == pc[c] = "handling" \/ pc[c] \in Pumping

Init ==
  /\ slots = [i \in Ids |-> Vacant]
  /\ nextGeneration = 0
  /\ pc = [c \in Calls |-> "idle"]
  /\ rid \in [Calls -> Ids]
  /\ gen = [c \in Calls |-> 0]
  /\ cancelled = {}
  /\ draining = {}
  /\ items = [c \in Calls |-> 0]
  /\ late = [c \in Calls |-> 0]
  /\ interrupts = [c \in Calls |-> 0]
  /\ stopped = {}
  /\ newest = [i \in Ids |-> NoCall]

Goto(c, phase) == pc' = [pc EXCEPT ![c] = phase]

(* Operators whose name begins with Mis are no part of the model.  Each is *)
(* a plausible mistake in the operator it precedes; PROJECT.json says      *)
(* which property has to notice it.                                        *)

\* Run the cancel closure of a slot, if it holds one.
FireCancelOf(slot) ==
  cancelled' = cancelled \cup ({slot.cancel} \ {NoCall})

-----------------------------------------------------------------------------
(* The dispatch future.                                                    *)

\* reserve, first half: the generation is drawn before the lock is taken.
DrawGeneration(c) ==
  /\ pc[c] = "idle"
  /\ gen' = [gen EXCEPT ![c] = nextGeneration]
  /\ nextGeneration' = nextGeneration + 1
  /\ Goto(c, "reserving")
  /\ UNCHANGED <<rid, mapVars, cancelled, frameVars, historyVars>>

\* reserve, second half: replace whatever the slot holds, stopping a stream.
Reserve(c) ==
  /\ pc[c] = "reserving"
  /\ slots' = [slots EXCEPT ![rid[c]] = Pending(gen[c])]
  /\ FireCancelOf(slots[rid[c]])
  /\ newest' = [newest EXCEPT ![rid[c]] = c]
  /\ Goto(c, "handling")
  /\ UNCHANGED <<callVars, draining, frameVars, stopped>>

MisActivate(c) ==  \* the generation is not compared
  /\ pc[c] = "handling"
  /\ IF slots[rid[c]].st = "pending"
       THEN /\ slots' = [slots EXCEPT ![rid[c]] = Live(gen[c], c)]
            /\ Goto(c, "streaming")
       ELSE Goto(c, "done") /\ UNCHANGED slots
  /\ UNCHANGED <<callVars, cancelled, draining, frameVars, historyVars>>

\* The handler yields a stream: activate turns the slot live and spawns the
\* pump, unless a `_stop` or a newer reservation got there first.
Activate(c) ==
  /\ pc[c] = "handling"
  /\ \/ /\ slots[rid[c]] = Pending(gen[c])
        /\ slots' = [slots EXCEPT ![rid[c]] = Live(gen[c], c)]
        /\ Goto(c, "streaming")
     \/ /\ slots[rid[c]] = Revoked(gen[c])
        /\ slots' = [slots EXCEPT ![rid[c]] = Vacant]
        /\ Goto(c, "done")
     \/ /\ ~Reserved(c)
        /\ Goto(c, "done")
        /\ UNCHANGED slots
  /\ UNCHANGED <<callVars, cancelled, draining, frameVars, historyVars>>

MisCancelReservation(c) ==  \* the failure is not sent
  /\ pc[c] = "handling"
  /\ slots' = IF Reserved(c) THEN [slots EXCEPT ![rid[c]] = Vacant] ELSE slots
  /\ Goto(c, "done")
  /\ UNCHANGED <<callVars, cancelled, draining, frameVars, historyVars>>

\* The handler fails: cancel_reservation, and then an interrupt frame.
CancelReservation(c) ==
  /\ pc[c] = "handling"
  /\ slots' = IF Reserved(c) THEN [slots EXCEPT ![rid[c]] = Vacant] ELSE slots
  /\ Goto(c, "failing")
  /\ UNCHANGED <<callVars, cancelled, draining, frameVars, historyVars>>

\* The caller drops the dispatch future while it awaits the handler.
DropDispatch(c) ==
  /\ pc[c] = "handling"
  /\ Goto(c, "dropped")
  /\ UNCHANGED <<callVars, mapVars, cancelled, frameVars, historyVars>>

-----------------------------------------------------------------------------
(* The pump: select polls the cancel oneshot first, then the stream.       *)

PollCancelled(c) ==
  /\ pc[c] = "streaming" /\ c \in cancelled
  /\ Goto(c, "leaving")
  /\ UNCHANGED <<callVars, mapVars, cancelled, frameVars, historyVars>>

MisPollStream(c) ==  \* the stream is polled before the cancel oneshot
  /\ pc[c] = "streaming"
  /\ \/ items[c] < MaxItems /\ Goto(c, "sending")
     \/ Goto(c, "interrupting")
     \/ Goto(c, "completing")
  /\ UNCHANGED <<callVars, mapVars, cancelled, frameVars, historyVars>>

\* The oneshot is not ready, the stream yields an item, an interrupt or its
\* end.  A cancel that fires from here on does not take the output back.
PollStream(c) ==
  /\ pc[c] = "streaming" /\ c \notin cancelled
  /\ \/ items[c] < MaxItems /\ Goto(c, "sending")
     \/ Goto(c, "interrupting")
     \/ Goto(c, "completing")
  /\ UNCHANGED <<callVars, mapVars, cancelled, frameVars, historyVars>>

MisRemoveSlot(c) ==  \* whatever the slot holds by now is removed
  /\ pc[c] \in {"completing", "leaving"}
  /\ slots' = [slots EXCEPT ![rid[c]] = Vacant]
  /\ Goto(c, IF pc[c] = "completing" THEN "closing" ELSE "done")
  /\ UNCHANGED <<callVars, cancelled, draining, frameVars, historyVars>>

\* The loop is over: the slot is removed if it still holds this generation,
\* and a completed stream that removed its slot goes on to tell the product.
RemoveSlot(c) ==
  /\ pc[c] \in {"completing", "leaving"}
  /\ slots' = IF Owned(c) THEN [slots EXCEPT ![rid[c]] = Vacant] ELSE slots
  /\ Goto(c, IF pc[c] = "completing" /\ Owned(c) THEN "closing" ELSE "done")
  /\ UNCHANGED <<callVars, cancelled, draining, frameVars, historyVars>>

-----------------------------------------------------------------------------
(* transport.send, from the four places that call it.  `emitted` is FALSE  *)
(* when the transport swallows the frame.                                  *)

SendPhases == {"sending", "interrupting", "closing", "failing"}

MisAfterSend(c) ==  \* the loop goes on after an interrupt
  IF pc[c] \in {"sending", "interrupting"} THEN "streaming" ELSE "done"

AfterSend(c) == CASE pc[c] = "sending"      -> "streaming"
                  [] pc[c] = "interrupting" -> "leaving"
                  [] OTHER                  -> "done"

Send(c, emitted) ==
  /\ pc[c] \in SendPhases
  /\ Goto(c, AfterSend(c))
  /\ items' = [items EXCEPT ![c] = IF pc[c] = "sending" THEN @ + 1 ELSE @]
  /\ interrupts' =
       [interrupts EXCEPT ![c] = IF emitted /\ pc[c] # "sending" THEN @ + 1 ELSE @]
  /\ late' = [late EXCEPT ![c] = IF emitted /\ c \in cancelled THEN @ + 1 ELSE @]
  /\ UNCHANGED <<callVars, mapVars, cancelled, historyVars>>

-----------------------------------------------------------------------------
(* The other callers of the manager.                                       *)

MisHandleStop(i) ==  \* a reservation is left as it is
  /\ slots' = [slots EXCEPT ![i] = IF @.st = "live" THEN Vacant ELSE @]
  /\ FireCancelOf(slots[i])
  /\ stopped' = stopped \cup {c \in Calls : rid[c] = i /\ UnderWay(c)}
  /\ UNCHANGED <<callVars, pc, draining, frameVars, newest>>

\* handle_stop: a pending reservation is revoked, a live stream cancelled.
HandleStop(i) ==
  /\ slots' = [slots EXCEPT ![i] =
                 IF @.st \in {"pending", "revoked"} THEN Revoked(@.gen) ELSE Vacant]
  /\ FireCancelOf(slots[i])
  /\ stopped' = stopped \cup {c \in Calls : rid[c] = i /\ UnderWay(c)}
  /\ UNCHANGED <<callVars, pc, draining, frameVars, newest>>

\* cancel_all: the map is drained under the lock ...
DrainSlots ==
  /\ draining' = draining \cup {c \in Calls : \E i \in Ids :
                                  slots[i].st = "live" /\ slots[i].cancel = c}
  /\ slots' = [i \in Ids |-> Vacant]
  /\ stopped' = stopped \cup {c \in Calls : UnderWay(c)}
  /\ UNCHANGED <<callVars, pc, cancelled, frameVars, newest>>

\* ... and each closure is run after the lock is released.
FireDrained(c) ==
  /\ c \in draining
  /\ draining' = draining \ {c}
  /\ cancelled' = cancelled \cup {c}
  /\ UNCHANGED <<callVars, slots, pc, frameVars, historyVars>>

-----------------------------------------------------------------------------
PumpStep(c) == PollCancelled(c) \/ PollStream(c) \/ RemoveSlot(c) \/ Send(c, TRUE)

DispatchStep(c) == DrawGeneration(c) \/ Reserve(c) \/ Activate(c)
                   \/ CancelReservation(c) \/ DropDispatch(c)

Next ==
  \/ \E c \in Calls : DispatchStep(c) \/ PumpStep(c) \/ FireDrained(c)
  \/ \E i \in Ids : HandleStop(i)
  \/ DrainSlots

(* The executor polls every spawned pump again once it is woken, and a     *)
(* thread inside cancel_all runs to its end.  Nothing is assumed of the    *)
(* handlers or of the product: dispatch steps carry no fairness, and a     *)
(* stream may stay silent for ever.                                        *)
PumpMoves(c) == PollCancelled(c) \/ RemoveSlot(c) \/ Send(c, TRUE)

Fairness == \A c \in Calls : WF_vars(PumpMoves(c)) /\ WF_vars(FireDrained(c))

Spec     == Init /\ [][Next]_vars
FairSpec == Spec /\ Fairness

-----------------------------------------------------------------------------
(* Properties.                                                             *)

TypeOK ==
  /\ slots \in [Ids -> Slots]
  /\ nextGeneration \in Nat
  /\ pc \in [Calls -> Phases]
  /\ rid \in [Calls -> Ids]
  /\ gen \in [Calls -> Nat]
  /\ cancelled \in SUBSET Calls
  /\ draining \in SUBSET Calls
  /\ items \in [Calls -> Nat]
  /\ late \in [Calls -> Nat]
  /\ interrupts \in [Calls -> Nat]
  /\ stopped \in SUBSET Calls
  /\ newest \in [Ids -> Calls \cup {NoCall}]

\* A stream nobody has told to end: no cancel sent, none about to be sent.
Running(c) == pc[c] \in Pumping /\ c \notin cancelled /\ c \notin draining

(* No stream is unstoppable: as long as a pump has not been told to end,   *)
(* the slot of its id is live, carries its generation and holds its cancel *)
(* closure, so that a `_stop`, a re-subscribe or a cancel_all reaches it   *)
(* (the leak that Slot::Pending.cancelled is there to prevent).            *)
NoUnstoppableStream ==
  \A c \in Calls : Running(c) => slots[rid[c]] = Live(gen[c], c)

(* The converse: a live slot is never left behind by a pump that is over   *)
(* or already cancelled, so the map only holds closures that do something. *)
LiveSlotHasStream ==
  \A i \in Ids : slots[i].st = "live" =>
    /\ slots[i].cancel \in Calls
    /\ rid[slots[i].cancel] = i
    /\ Running(slots[i].cancel)

(* Re-subscribe semantics of reserve: whatever order handlers resolve in,  *)
(* only the newest reservation of an id has a running stream.              *)
NewestReservationWins ==
  \A c \in Calls : Running(c) => newest[rid[c]] = c

(* A `_stop` or a cancel_all is final: whether it finds the call awaiting  *)
(* its handler or streaming, that call has no running stream afterwards.   *)
StopIsFinal ==
  \A c \in stopped : ~Running(c)

(* Cancellation overtakes at most the one output the pump already holds:   *)
(* one frame after the cancel, and never the completion interrupt.         *)
OneLateFrame ==
  \A c \in Calls : late[c] <= 1 /\ (pc[c] = "closing" => c \notin cancelled)

(* The product is never left waiting: a call that is over sent it exactly  *)
(* one terminating `_interrupt`, unless the product (or the host's         *)
(* cancel_all) stopped it or a newer `_start` took over its id.            *)
NoSilentEnd ==
  \A c \in Calls : pc[c] = "done" =>
    \/ interrupts[c] = 1
    \/ interrupts[c] = 0 /\ (c \in stopped \/ newest[rid[c]] # c)

(* A stopped stream does end, and lets go of what the host feeds it with.  *)
StoppedStreamEnds ==
  \A c \in Calls : (c \in stopped /\ pc[c] \in Pumping) ~> (pc[c] = "done")

(* A stream the host closes is reported: once the host's stream has ended, *)
(* the interrupt follows unless the product stopped or replaced it first.  *)
EndIsReported ==
  \A c \in Calls : (pc[c] = "completing") ~>
    (interrupts[c] = 1 \/ c \in stopped \/ newest[rid[c]] # c)

-----------------------------------------------------------------------------
(* What the product is promised, in terms of the calls' phases.            *)

ContractState(c) ==
  CASE pc[c] \in {"idle", "reserving", "handling"} -> "requested"
    [] pc[c] \in {"failing", "closing"}            -> "ending"
    [] pc[c] \in {"done", "dropped", "leaving"}    -> "over"
    [] OTHER -> IF c \in cancelled THEN "revoked"
                ELSE IF c \in draining THEN "abandoned" ELSE "open"

Contract == INSTANCE SubscriptionContract WITH
              state     <- [c \in Calls |-> ContractState(c)],
              straggled <- [c \in Calls |-> late[c] > 0]

(* The manager, the dispatcher and the pumps together keep the promise of  *)
(* SubscriptionContract, liveness included: one open subscribe per id, one *)
(* straggler at most, one terminating interrupt, and an end to every       *)
(* revoked stream.                                                         *)
KeepsContract == Contract!Spec

=============================================================================
