-------------------------- MODULE ProductRuntimeProofs --------------------------
(***************************************************************************)
(* Proofs about ProductRuntime, for any calls and request ids, any number  *)
(* of frames under way and any of the three embedders.  What was proved of *)
(* the SubscriptionManager inside is taken from SubscriptionManagerProofs. *)
(* The second part is about the subscriptions the host opens through the   *)
(* same runtime, HostInitiated: for any renderings, any number of trees in *)
(* each and any capacity of the buffer.  The last part is about the bridge *)
(* that serves the runtimes, WsBridge: for any connections, cap and queue. *)
(***************************************************************************)
EXTENDS ProductRuntime, HostInitiated, WsBridge, FiniteSetTheorems, TLAPS

M == INSTANCE SubscriptionManagerProofs

-----------------------------------------------------------------------------
(* The manager.                                                            *)

LEMMA ManagerAssumption == M!SubscriptionAssumption
BY IngressAssumption DEF M!SubscriptionAssumption

\* The manager the runtime drives is the one the lemmas are about.
LEMMA SameSlots ==
  /\ Subs!Vacant = M!Vacant
  /\ \A g : Subs!Pending(g) = M!Pending(g) /\ Subs!Revoked(g) = M!Revoked(g)
  /\ \A g, c : Subs!Live(g, c) = M!Live(g, c)
  /\ \A c : /\ Subs!Reserved(c) <=> M!Reserved(c)
            /\ Subs!Owned(c) <=> M!Owned(c)
            /\ Subs!UnderWay(c) <=> M!UnderWay(c)
            /\ Subs!Running(c) <=> M!Running(c)
  /\ \A s : Subs!FireCancelOf(s) <=> M!FireCancelOf(s)
BY DEF Subs!Vacant, M!Vacant, Subs!Pending, M!Pending, Subs!Revoked, M!Revoked, Subs!Live, M!Live,
  Subs!Reserved, M!Reserved, Subs!Owned, M!Owned, Subs!UnderWay, M!UnderWay, Subs!Running, M!Running,
  Subs!Pumping, M!Pumping, Subs!FireCancelOf, M!FireCancelOf

LEMMA SameActions ==
  ASSUME NEW c \in Calls
  PROVE  /\ Subs!DrawGeneration(c) => M!DrawGeneration(c)
         /\ Subs!Reserve(c) => M!Reserve(c)
         /\ Subs!Activate(c) => M!Activate(c)
         /\ Subs!CancelReservation(c) => M!CancelReservation(c)
         /\ Subs!DropDispatch(c) => M!DropDispatch(c)
         /\ Subs!PollCancelled(c) => M!PollCancelled(c)
         /\ Subs!PollStream(c) => M!PollStream(c)
         /\ Subs!RemoveSlot(c) => M!RemoveSlot(c)
         /\ Subs!FireDrained(c) => M!FireDrained(c)
         /\ \A emitted \in BOOLEAN : Subs!Send(c, emitted) => M!Send(c, emitted)
<1> USE SameSlots DEF Subs!Goto, M!Goto, Subs!mapVars, M!mapVars, Subs!callVars, M!callVars,
          Subs!frameVars, M!frameVars, Subs!historyVars, M!historyVars
<1>1. Subs!DrawGeneration(c) => M!DrawGeneration(c) BY DEF Subs!DrawGeneration, M!DrawGeneration
<1>2. Subs!Reserve(c) => M!Reserve(c) BY DEF Subs!Reserve, M!Reserve
<1>3. Subs!Activate(c) => M!Activate(c) BY DEF Subs!Activate, M!Activate
<1>4. Subs!CancelReservation(c) => M!CancelReservation(c)
  BY DEF Subs!CancelReservation, M!CancelReservation
<1>5. Subs!DropDispatch(c) => M!DropDispatch(c) BY DEF Subs!DropDispatch, M!DropDispatch
<1>6. Subs!PollCancelled(c) => M!PollCancelled(c) BY DEF Subs!PollCancelled, M!PollCancelled
<1>7. Subs!PollStream(c) => M!PollStream(c) BY DEF Subs!PollStream, M!PollStream
<1>8. Subs!RemoveSlot(c) => M!RemoveSlot(c) BY DEF Subs!RemoveSlot, M!RemoveSlot
<1>9. Subs!FireDrained(c) => M!FireDrained(c) BY DEF Subs!FireDrained, M!FireDrained
<1>10. ASSUME NEW emitted \in BOOLEAN, Subs!Send(c, emitted) PROVE M!Send(c, emitted)
  BY <1>10 DEF Subs!Send, M!Send, Subs!SendPhases, M!SendPhases, Subs!AfterSend, M!AfterSend
<1>11. QED BY <1>1, <1>2, <1>3, <1>4, <1>5, <1>6, <1>7, <1>8, <1>9, <1>10

LEMMA SameShared ==
  /\ \A i \in Ids : Subs!HandleStop(i) => M!HandleStop(i)
  /\ Subs!DrainSlots => M!DrainSlots
<1> USE SameSlots DEF Subs!Goto, M!Goto, Subs!mapVars, M!mapVars, Subs!callVars, M!callVars,
          Subs!frameVars, M!frameVars, Subs!historyVars, M!historyVars
<1>1. ASSUME NEW i \in Ids, Subs!HandleStop(i) PROVE M!HandleStop(i)
  BY <1>1 DEF Subs!HandleStop, M!HandleStop
<1>2. Subs!DrainSlots => M!DrainSlots BY DEF Subs!DrainSlots, M!DrainSlots
<1>3. QED BY <1>1, <1>2

LEMMA SameState ==
  /\ Subs!Init => M!Init
  /\ Subs!TypeOK <=> M!TypeOK
<1>1. Subs!Init => M!Init BY SameSlots DEF Subs!Init, M!Init
<1>2. Subs!TypeOK <=> M!TypeOK
  BY DEF Subs!TypeOK, M!TypeOK, Subs!Slots, M!Slots, Subs!Phases, M!Phases, Subs!Dispatching,
    M!Dispatching, Subs!Pumping, M!Pumping
<1>3. QED BY <1>1, <1>2

-----------------------------------------------------------------------------
(* The inductive invariant.                                                *)

Waiting == {"idle", "reserving", "handling"}

\* A call is dispatched by its frame, and by nobody else.
StartInv == \A c \in Calls : rf[StartOf(c)] \in {"unsent", "arrived", "entered"} => pc[c] = "idle"

\* Once dispose has drained the map, only a dispatch that is still under way
\* can have a stream, and it looks at `disposed` before it is over.
DrainedInv ==
  disposal \in {"drained", "returned", "freed"} =>
    \A c \in Calls : Subs!Running(c) => rf[StartOf(c)] \in {"dispatching", "leaving"}

EmbedderInv ==
  /\ aborted # {} => Disposed
  /\ ingress # "spawned" => ~ killed
  /\ ingress = "sequential" => \A f, g \in Unsettled : f = g
  /\ disposal = "freed" => Unsettled = {}
  /\ \A c \in Stoppable : rf[StopOf(c)] # "unsent" => rf[StartOf(c)] # "unsent"

\* Where frames are polled in order, a `_stop` finds its call no earlier than
\* at the handler, and leaves it stopped or past its stream.
OrderInv ==
  ingress # "spawned" /\ ~ Disposed =>
    /\ \A c \in Calls : rf[StartOf(c)] \in {"leaving", "returned"} => pc[c] \notin Waiting
    /\ \A c \in Stoppable :
         /\ rf[StopOf(c)] \in {"entered", "dispatching"} => pc[c] \notin {"idle", "reserving"}
         /\ rf[StopOf(c)] \in {"leaving", "returned"} =>
              c \in stopped \/ pc[c] \notin Waiting \cup Subs!Pumping

RuntimeInv == StartInv /\ DrainedInv /\ EmbedderInv /\ OrderInv

IInv == TypeOK /\ M!MapInv /\ RuntimeInv

-----------------------------------------------------------------------------
(* What a step leaves of the calls.                                        *)

\* Whatever a call does, it gets on, and touches no other.
GetsOn(c) ==
  /\ \A d \in Calls \ {c} : pc'[d] = pc[d] /\ (Subs!Running(d)' => Subs!Running(d))
  /\ pc[c] # "idle" => pc'[c] # "idle"
  /\ pc[c] \notin {"idle", "reserving"} => pc'[c] \notin {"idle", "reserving"}
  /\ pc[c] \notin Waiting => pc'[c] \notin Waiting
  /\ pc[c] \notin Waiting \cup Subs!Pumping => pc'[c] \notin Waiting \cup Subs!Pumping
  /\ stopped' = stopped

LEMMA DispatchGetsOn ==
  ASSUME M!TypeOK, NEW c \in Calls,
         \/ M!DrawGeneration(c) \/ M!Reserve(c) \/ M!Activate(c) \/ M!CancelReservation(c)
  PROVE  GetsOn(c) /\ pc[c] \in Waiting
<1> USE DEF M!TypeOK, GetsOn, Waiting, Subs!Pumping, Subs!Running, M!Goto, M!mapVars, M!callVars,
          M!frameVars, M!historyVars
<1>1. CASE M!DrawGeneration(c) BY <1>1 DEF M!DrawGeneration
<1>2. CASE M!Reserve(c) BY <1>2 DEF M!Reserve, M!FireCancelOf
<1>3. CASE M!Activate(c) BY <1>3 DEF M!Activate
<1>4. CASE M!CancelReservation(c) BY <1>4 DEF M!CancelReservation
<1>5. QED BY <1>1, <1>2, <1>3, <1>4

LEMMA PumpGetsOn ==
  ASSUME M!TypeOK, NEW c \in Calls,
         \/ M!PollCancelled(c) \/ M!PollStream(c) \/ M!RemoveSlot(c) \/ M!FireDrained(c)
         \/ \E emitted \in BOOLEAN : M!Send(c, emitted)
  PROVE  GetsOn(c) /\ (Subs!Running(c)' => Subs!Running(c)) /\ (pc[c] = "idle" => pc'[c] = "idle")
<1> USE DEF M!TypeOK, GetsOn, Waiting, Subs!Pumping, Subs!Running, M!Goto, M!mapVars, M!callVars,
          M!frameVars, M!historyVars
<1>1. CASE M!PollCancelled(c) BY <1>1 DEF M!PollCancelled
<1>2. CASE M!PollStream(c) BY <1>2 DEF M!PollStream
<1>3. CASE M!RemoveSlot(c) BY <1>3 DEF M!RemoveSlot
<1>4. CASE M!FireDrained(c) BY <1>4 DEF M!FireDrained
<1>5. CASE \E emitted \in BOOLEAN : M!Send(c, emitted)
  BY <1>5 DEF M!Send, M!SendPhases, M!AfterSend
<1>6. QED BY <1>1, <1>2, <1>3, <1>4, <1>5

\* A step that begins nothing: at most a dispatch is dropped at its handler.
BeginsNothing ==
  /\ \A c \in Calls : /\ pc'[c] = pc[c] \/ (pc[c] = "handling" /\ pc'[c] = "dropped")
                      /\ Subs!Running(c)' => Subs!Running(c)
  /\ stopped \subseteq stopped'

LEMMA DropBeginsNothing ==
  ASSUME M!TypeOK,
         \/ \E c \in Calls : M!DropDispatch(c)
         \/ \E i \in Ids : M!HandleStop(i)
         \/ M!DrainSlots
         \/ UNCHANGED subsVars
  PROVE  BeginsNothing
<1> USE DEF M!TypeOK, BeginsNothing, Subs!Pumping, Subs!Running, M!Goto, M!mapVars, M!callVars,
          M!frameVars, M!historyVars
<1>1. CASE \E c \in Calls : M!DropDispatch(c) BY <1>1 DEF M!DropDispatch
<1>2. CASE \E i \in Ids : M!HandleStop(i) BY <1>2 DEF M!HandleStop, M!FireCancelOf
<1>3. CASE M!DrainSlots BY <1>3 DEF M!DrainSlots
<1>4. CASE UNCHANGED subsVars BY <1>4 DEF subsVars
<1>5. QED BY <1>1, <1>2, <1>3, <1>4

\* A drained map has let go of every stream.
LEMMA DrainEnds ==
  ASSUME M!TypeOK, M!MapInv, M!DrainSlots, NEW c \in Calls
  PROVE  ~ Subs!Running(c)'
<1>1. CASE M!Running(c)
  <2>1. slots[rid[c]].st = "live" /\ slots[rid[c]].cancel = c
    BY <1>1, ManagerAssumption, M!RunningIsLive
  <2>2. rid[c] \in Ids BY DEF M!TypeOK
  <2>3. c \in draining' BY <2>1, <2>2 DEF M!DrainSlots
  <2>4. QED BY <2>3 DEF Subs!Running
<1>2. CASE ~ M!Running(c)
  BY <1>2, SameSlots, DropBeginsNothing DEF BeginsNothing
<1>3. QED BY <1>1, <1>2

\* A `_stop` takes hold of a call that awaits its handler or streams.
LEMMA StopTakesHold ==
  ASSUME M!TypeOK, NEW c \in Calls, M!HandleStop(rid[c])
  PROVE  pc' = pc /\ (c \in stopped' \/ pc[c] \notin {"handling"} \cup Subs!Pumping)
BY DEF M!TypeOK, M!HandleStop, M!UnderWay, M!Pumping, Subs!Pumping

-----------------------------------------------------------------------------
(* The manager keeps its own invariant in the runtime.                     *)

LEMMA FrameNames ==
  /\ \A c \in Calls : StartOf(c) \in Frames /\ StartOf(c).kind = "start" /\ StartOf(c).call = c
  /\ \A c \in Stoppable : StopOf(c) \in Frames /\ StopOf(c).kind = "stop" /\ StopOf(c).call = c
  /\ \A f \in Frames : \/ f.call \in Calls /\ f.kind = "start" /\ f = StartOf(f.call)
                       \/ f.call \in Stoppable /\ f.kind = "stop" /\ f = StopOf(f.call)
BY DEF Frames, StartOf, StopOf

LEMMA StoppableCalls == Stoppable \subseteq Calls
BY IngressAssumption

\* Each step is a step of the manager, or leaves it alone.
LEMMA ManagerSteps ==
  ASSUME M!TypeOK, [Next]_vars PROVE M!Step \/ UNCHANGED subsVars
<1>1. ASSUME NEW f \in Frames, Arrive(f) \/ TaskDropped(f) \/ FrameStep(f)
      PROVE  M!Step \/ UNCHANGED subsVars
  <2>1. f.call \in Calls BY FrameNames, StoppableCalls
  <2>2. rid[f.call] \in Ids BY <2>1 DEF M!TypeOK
  <2>3. CASE Arrive(f) BY <2>3 DEF Arrive
  <2>4. CASE TaskDropped(f) BY <2>1, <2>4, SameActions DEF TaskDropped, M!Step
  <2>5. CASE Enter(f) BY <2>5 DEF Enter
  <2>6. CASE Register(f) BY <2>6 DEF Register
  <2>7. CASE DispatchStart(f) BY <2>1, <2>7, SameActions DEF DispatchStart, M!Step
  <2>8. CASE DispatchStop(f) BY <2>2, <2>8, SameShared DEF DispatchStop, M!Step
  <2>9. CASE Abort(f) BY <2>1, <2>9, SameActions DEF Abort, M!Step
  <2>10. CASE DispatchReturns(f) BY <2>10 DEF DispatchReturns
  <2>11. CASE Leave(f) BY <2>11, SameShared DEF Leave, M!Step
  <2>12. QED BY <1>1, <2>3, <2>4, <2>5, <2>6, <2>7, <2>8, <2>9, <2>10, <2>11 DEF FrameStep
<1>2. ASSUME NEW c \in Calls, Pump(c) \/ SendStep(c) \/ FireDrained(c)
      PROVE  M!Step \/ UNCHANGED subsVars
  <2>1. CASE Pump(c) BY <2>1, SameActions DEF Pump, M!Step
  <2>2. CASE PassGate(c) BY <2>2 DEF PassGate
  <2>3. CASE Swallow(c) BY <2>3, SameActions DEF Swallow, M!Step
  <2>4. CASE Emit(c) BY <2>4, SameActions DEF Emit, M!Step
  <2>5. CASE FireDrained(c) BY <2>5, SameActions DEF FireDrained, M!Step
  <2>6. QED BY <1>2, <2>1, <2>2, <2>3, <2>4, <2>5 DEF SendStep
<1>3. CASE KillTasks BY <1>3 DEF KillTasks
<1>4. CASE DisposeStep
  BY <1>4, SameShared DEF DisposeStep, FlagDisposed, AbortInFlight, CancelSubscriptions,
    DisposeReturns, FreeCore, M!Step
<1>5. CASE UNCHANGED vars BY <1>5 DEF vars
<1>6. QED BY <1>1, <1>2, <1>3, <1>4, <1>5 DEF Next

LEMMA ManagerKeeps ==
  ASSUME M!TypeOK, M!MapInv, [Next]_vars PROVE M!TypeOK' /\ M!MapInv'
<1>1. M!Step \/ UNCHANGED M!vars BY ManagerSteps DEF subsVars, M!vars
<1>2. QED BY <1>1, ManagerAssumption, M!TypeStep, M!MapStep

-----------------------------------------------------------------------------
(* The runtime's own part.                                                 *)

\* A call gets on; only its frame's dispatch takes it from its beginning or
\* gives it a stream.
LEMMA CallKeeps ==
  ASSUME IInv, NEW c \in Calls, GetsOn(c), UNCHANGED <<ingress, rf, aborted, killed, disposal>>,
         \/ rf[StartOf(c)] = "dispatching"
         \/ (pc[c] = "idle" => pc'[c] = "idle") /\ (Subs!Running(c)' => Subs!Running(c))
  PROVE  RuntimeInv'
<1>1. RuntimeInv BY DEF IInv
<1>2. StartInv' BY <1>1 DEF RuntimeInv, StartInv, GetsOn
<1>3. DrainedInv' BY <1>1 DEF RuntimeInv, DrainedInv, GetsOn
<1>4. EmbedderInv' BY <1>1 DEF RuntimeInv, EmbedderInv, Unsettled, Disposed
<1>5. OrderInv' BY <1>1, StoppableCalls DEF RuntimeInv, OrderInv, GetsOn, Disposed
<1>6. QED BY <1>2, <1>3, <1>4, <1>5 DEF RuntimeInv

\* A frame goes on to its next phase.
LEMMA FrameKeeps ==
  ASSUME IInv, BeginsNothing, NEW f \in Frames, NEW phase \in RfPhases \ {"unsent"},
         Advance(f, phase), UNCHANGED <<ingress, aborted, killed, disposal>>,
         rf[f] # "returned",
         rf[f] = "unsent" =>
           /\ ~ Disposed
           /\ ingress = "sequential" => Unsettled = {}
           /\ f.kind = "stop" => rf[StartOf(f.call)] # "unsent",
         f.kind = "start" =>
           /\ phase \in {"arrived", "entered"} => rf[f] \in {"unsent", "arrived", "entered"}
           /\ disposal \in {"drained", "returned", "freed"} /\ phase \notin {"dispatching", "leaving"}
                => ~ Subs!Running(f.call)'
           /\ ingress # "spawned" /\ ~ Disposed /\ phase \in {"leaving", "returned"}
                => pc'[f.call] \notin Waiting,
         f.kind = "stop" /\ ingress # "spawned" /\ ~ Disposed =>
           /\ phase \in {"entered", "dispatching"} => pc'[f.call] \notin {"idle", "reserving"}
           /\ phase \in {"leaving", "returned"} =>
                f.call \in stopped' \/ pc'[f.call] \notin Waiting \cup Subs!Pumping
  PROVE  RuntimeInv'
<1>1. RuntimeInv /\ TypeOK BY DEF IInv
<1>2. rf' = [rf EXCEPT ![f] = phase] /\ rf \in [Frames -> RfPhases] BY <1>1 DEF Advance, TypeOK
<1>3. rf'[f] = phase /\ \A g \in Frames \ {f} : rf'[g] = rf[g] BY <1>2
<1>4. StartInv'
  <2>1. SUFFICES ASSUME NEW c \in Calls, rf'[StartOf(c)] \in {"unsent", "arrived", "entered"}
                 PROVE  pc'[c] = "idle"
    BY DEF StartInv
  <2>2. rf[StartOf(c)] \in {"unsent", "arrived", "entered"} BY <1>3, <2>1, FrameNames
  <2>3. pc[c] = "idle" BY <1>1, <2>2 DEF RuntimeInv, StartInv
  <2>4. QED BY <2>3 DEF BeginsNothing
<1>5. DrainedInv'
  <2>1. SUFFICES ASSUME disposal \in {"drained", "returned", "freed"}, NEW c \in Calls,
                        Subs!Running(c)'
                 PROVE  rf'[StartOf(c)] \in {"dispatching", "leaving"}
    BY DEF DrainedInv
  <2>2. Subs!Running(c) BY <2>1 DEF BeginsNothing
  <2>3. rf[StartOf(c)] \in {"dispatching", "leaving"} BY <1>1, <2>1, <2>2 DEF RuntimeInv, DrainedInv
  <2>4. QED BY <1>3, <2>1, <2>3, FrameNames
<1>6. EmbedderInv'
  <2>1. Unsettled' \subseteq Unsettled \cup {f} BY <1>3 DEF Unsettled
  <2>2. disposal # "freed"
    <3>1. rf[f] # "unsent" => f \in Unsettled BY DEF Unsettled
    <3>2. QED BY <1>1, <3>1 DEF RuntimeInv, EmbedderInv, Disposed
  <2>3. ingress = "sequential" => \A g, h \in Unsettled' : g = h
    <3>1. rf[f] # "unsent" => f \in Unsettled BY DEF Unsettled
    <3>2. QED BY <1>1, <2>1, <3>1 DEF RuntimeInv, EmbedderInv
  <2>4. ASSUME NEW c \in Stoppable, rf'[StopOf(c)] # "unsent" PROVE rf'[StartOf(c)] # "unsent"
    <3>1. rf[StartOf(c)] # "unsent"
      BY <1>1, <1>3, <2>4, FrameNames DEF RuntimeInv, EmbedderInv
    <3>2. StartOf(c) \in Frames BY FrameNames, StoppableCalls
    <3>3. QED BY <1>3, <3>1, <3>2
  <2>5. QED BY <1>1, <2>2, <2>3, <2>4 DEF RuntimeInv, EmbedderInv, Disposed
<1>7. OrderInv'
  <2>1. SUFFICES ASSUME ingress # "spawned", ~ Disposed PROVE OrderInv' BY DEF OrderInv, Disposed
  <2>2. ASSUME NEW c \in Calls, rf'[StartOf(c)] \in {"leaving", "returned"}
        PROVE  pc'[c] \notin Waiting
    <3>1. CASE StartOf(c) = f BY <1>3, <2>1, <2>2, <3>1, FrameNames
    <3>2. CASE StartOf(c) # f
      <4>1. pc[c] \notin Waiting
        BY <1>1, <1>3, <2>1, <2>2, <3>2, FrameNames DEF RuntimeInv, OrderInv
      <4>2. QED BY <4>1 DEF BeginsNothing, Waiting
    <3>3. QED BY <3>1, <3>2
  <2>3. ASSUME NEW c \in Stoppable
        PROVE  /\ rf'[StopOf(c)] \in {"entered", "dispatching"} => pc'[c] \notin {"idle", "reserving"}
               /\ rf'[StopOf(c)] \in {"leaving", "returned"} =>
                    c \in stopped' \/ pc'[c] \notin Waiting \cup Subs!Pumping
    <3>1. c \in Calls BY StoppableCalls
    <3>2. CASE StopOf(c) = f BY <1>3, <2>1, <3>2, FrameNames
    <3>3. CASE StopOf(c) # f
      <4>1. rf'[StopOf(c)] = rf[StopOf(c)] BY <1>3, <3>3, FrameNames
      <4>2. pc'[c] = pc[c] \/ (pc[c] = "handling" /\ pc'[c] = "dropped")
        BY <3>1 DEF BeginsNothing
      <4>3. QED BY <1>1, <2>1, <4>1, <4>2 DEF RuntimeInv, OrderInv, BeginsNothing, Waiting, Subs!Pumping
    <3>4. QED BY <3>2, <3>3
  <2>4. QED BY <2>2, <2>3 DEF OrderInv
<1>8. QED BY <1>4, <1>5, <1>6, <1>7 DEF RuntimeInv

\* Dispose goes on, or the embedder aborts its tasks.
LEMMA DisposeKeeps ==
  ASSUME IInv, BeginsNothing, UNCHANGED <<ingress, rf>>,
         ingress # "spawned" => ~ killed',
         Disposed => disposal' # "none", aborted' # {} => disposal' # "none",
         disposal' = "freed" => Unsettled = {},
         disposal' \in {"drained", "returned", "freed"} /\ disposal \notin {"drained", "returned", "freed"}
           => \A c \in Calls : ~ Subs!Running(c)'
  PROVE  RuntimeInv'
<1>1. RuntimeInv BY DEF IInv
<1>2. StartInv' BY <1>1 DEF RuntimeInv, StartInv, BeginsNothing
<1>3. DrainedInv' BY <1>1 DEF RuntimeInv, DrainedInv, BeginsNothing
<1>4. EmbedderInv' BY <1>1 DEF RuntimeInv, EmbedderInv, Unsettled, Disposed
<1>5. OrderInv'
  <2>1. SUFFICES ASSUME ingress # "spawned", disposal' = "none" PROVE OrderInv'
    BY DEF OrderInv, Disposed
  <2>2. ~ Disposed BY <2>1
  <2>3. \A c \in Calls : pc'[c] = pc[c] \/ (pc[c] = "handling" /\ pc'[c] = "dropped")
    BY DEF BeginsNothing
  <2>4. QED BY <1>1, <2>1, <2>2, <2>3, StoppableCalls
          DEF RuntimeInv, OrderInv, BeginsNothing, Waiting, Subs!Pumping
<1>6. QED BY <1>2, <1>3, <1>4, <1>5 DEF RuntimeInv

-----------------------------------------------------------------------------
(* The steps of receive_frame.                                             *)

LEMMA IdleIsNotRunning == ASSUME NEW c, pc[c] \in Waiting \cup {"dropped"} PROVE ~ Subs!Running(c)
BY DEF Waiting, Subs!Running, Subs!Pumping

LEMMA ArriveKeeps == ASSUME IInv, NEW f \in Frames, Arrive(f) PROVE RuntimeInv'
<1>1. UNCHANGED subsVars BY DEF Arrive
<1>2. BeginsNothing BY <1>1, DropBeginsNothing, SameState DEF IInv, TypeOK
<1>3. QED BY <1>2, FrameKeeps DEF Arrive, RfPhases, Disposed

LEMMA TaskDroppedKeeps == ASSUME IInv, NEW f \in Frames, TaskDropped(f) PROVE RuntimeInv'
<1>1. M!TypeOK /\ RuntimeInv BY SameState DEF IInv, TypeOK
<1>2. f.call \in Calls BY FrameNames, StoppableCalls
<1>3. UNCHANGED subsVars \/ M!DropDispatch(f.call) BY <1>2, SameActions DEF TaskDropped
<1>4. BeginsNothing BY <1>1, <1>2, <1>3, DropBeginsNothing
<1>5. ingress = "spawned" BY <1>1 DEF TaskDropped, RuntimeInv, EmbedderInv
<1>6. f.kind = "start" => ~ Subs!Running(f.call)'
  <2>1. SUFFICES ASSUME f.kind = "start" PROVE ~ Subs!Running(f.call)' OBVIOUS
  <2>2. CASE rf[f] = "arrived"
    <3>1. pc[f.call] = "idle" BY <1>1, <1>2, <2>1, <2>2, FrameNames DEF RuntimeInv, StartInv
    <3>2. QED BY <1>2, <1>4, <3>1 DEF BeginsNothing, Subs!Running, Subs!Pumping
  <2>3. CASE M!DropDispatch(f.call)
    <3>1. pc[f.call] = "handling" BY <2>3 DEF M!DropDispatch
    <3>2. QED BY <1>2, <1>4, <3>1 DEF BeginsNothing, Subs!Running, Subs!Pumping
  <2>4. QED BY <1>2, <2>2, <2>3, SameActions DEF TaskDropped
<1>7. QED BY <1>4, <1>5, <1>6, FrameKeeps DEF TaskDropped, RfPhases

LEMMA EnterKeeps ==
  ASSUME IInv, NEW f \in Frames, Enter(f), MayStep(f, NoCall, FALSE) PROVE RuntimeInv'
<1>1. TypeOK /\ M!TypeOK /\ RuntimeInv BY SameState DEF IInv, TypeOK
<1>2. UNCHANGED subsVars /\ rf[f] = "arrived" BY DEF Enter
<1>3. BeginsNothing BY <1>1, <1>2, DropBeginsNothing
<1>4. pc' = pc BY <1>2 DEF subsVars
<1>5. f.kind = "start" => ~ Subs!Running(f.call)'
  <2>1. SUFFICES ASSUME f.kind = "start" PROVE ~ Subs!Running(f.call)' OBVIOUS
  <2>2. pc[f.call] = "idle" BY <1>1, <1>2, <2>1, FrameNames DEF RuntimeInv, StartInv
  <2>3. QED BY <1>4, <2>2 DEF Subs!Running, Subs!Pumping
<1>6. ASSUME f.kind = "stop", ingress # "spawned", ~ Disposed
      PROVE  pc'[f.call] \notin {"idle", "reserving"}
  <2> DEFINE start == StartOf(f.call)
  <2>1. f.call \in Stoppable /\ f.call \in Calls /\ f = StopOf(f.call)
    BY <1>6, FrameNames, StoppableCalls
  <2>2. start \in Frames /\ start.kind = "start" /\ start.call = f.call /\ start # f
    BY <1>6, <2>1, FrameNames
  <2>3. rf[start] \in RfPhases \ {"unsent", "arrived"}
    BY <1>1, <1>2, <1>6, <2>1, <2>2 DEF Enter, RuntimeInv, EmbedderInv, TypeOK
  <2>4. rf[start] = "returned" => pc[f.call] \notin Waiting
    BY <1>1, <1>6, <2>1 DEF RuntimeInv, OrderInv
  <2>5. CASE ingress = "sequential"
    <3>1. f \in Unsettled BY <1>2 DEF Unsettled
    <3>2. start \notin Unsettled BY <1>1, <2>2, <2>5, <3>1 DEF RuntimeInv, EmbedderInv
    <3>3. rf[start] = "returned" BY <2>2, <2>3, <3>2 DEF Unsettled
    <3>4. QED BY <1>4, <2>4, <3>3 DEF Waiting
  <2>6. CASE ingress = "turns"
    <3>1. ~ FrameInTurn(start) BY <2>2, <2>6 DEF MayStep
    <3>2. rf[start] = "returned" \/ pc[f.call] = "handling"
      BY <2>2, <2>3, <3>1 DEF FrameInTurn, RfPhases
    <3>3. QED BY <1>4, <2>4, <3>2 DEF Waiting
  <2>7. QED BY <1>1, <1>6, <2>5, <2>6, IngressAssumption DEF TypeOK
<1>7. QED BY <1>2, <1>3, <1>5, <1>6, FrameKeeps DEF Enter, RfPhases

LEMMA RegisterKeeps == ASSUME IInv, NEW f \in Frames, Register(f) PROVE RuntimeInv'
<1>1. M!TypeOK /\ RuntimeInv BY SameState DEF IInv, TypeOK
<1>2. UNCHANGED subsVars /\ rf[f] = "entered" BY DEF Register
<1>3. BeginsNothing BY <1>1, <1>2, DropBeginsNothing
<1>4. f.kind = "stop" /\ ingress # "spawned" /\ ~ Disposed => pc'[f.call] \notin {"idle", "reserving"}
  BY <1>1, <1>2, FrameNames DEF RuntimeInv, OrderInv, subsVars
<1>5. QED BY <1>2, <1>3, <1>4, FrameKeeps DEF Register, RfPhases

LEMMA DispatchStopKeeps == ASSUME IInv, NEW f \in Frames, DispatchStop(f) PROVE RuntimeInv'
<1>1. M!TypeOK /\ RuntimeInv BY SameState DEF IInv, TypeOK
<1>2. f.kind = "stop" /\ rf[f] = "dispatching" BY DEF DispatchStop
<1>3. f.call \in Stoppable /\ f.call \in Calls /\ f = StopOf(f.call)
  BY <1>2, FrameNames, StoppableCalls
<1>4. rid[f.call] \in Ids BY <1>1, <1>3 DEF M!TypeOK
<1>5. M!HandleStop(rid[f.call]) BY <1>4, SameShared DEF DispatchStop
<1>6. BeginsNothing BY <1>1, <1>4, <1>5, DropBeginsNothing
<1>7. pc' = pc /\ (f.call \in stopped' \/ pc[f.call] \notin {"handling"} \cup Subs!Pumping)
  BY <1>1, <1>3, <1>5, StopTakesHold
<1>8. ingress # "spawned" /\ ~ Disposed => pc[f.call] \notin {"idle", "reserving"}
  BY <1>1, <1>2, <1>3 DEF RuntimeInv, OrderInv
<1>9. QED BY <1>2, <1>6, <1>7, <1>8, FrameKeeps DEF DispatchStop, RfPhases, Waiting

LEMMA AbortKeeps == ASSUME IInv, NEW f \in Frames, Abort(f) PROVE RuntimeInv'
<1>1. M!TypeOK /\ RuntimeInv BY SameState DEF IInv, TypeOK
<1>2. f.call \in Calls BY FrameNames, StoppableCalls
<1>3. UNCHANGED subsVars \/ M!DropDispatch(f.call) BY <1>2, SameActions DEF Abort
<1>4. BeginsNothing BY <1>1, <1>2, <1>3, DropBeginsNothing
<1>5. Disposed BY <1>1 DEF Abort, RuntimeInv, EmbedderInv
<1>6. QED BY <1>4, <1>5, FrameKeeps DEF Abort, RfPhases

LEMMA DispatchReturnsKeeps == ASSUME IInv, NEW f \in Frames, DispatchReturns(f) PROVE RuntimeInv'
<1>1. M!TypeOK BY SameState DEF IInv, TypeOK
<1>2. UNCHANGED subsVars BY DEF DispatchReturns
<1>3. BeginsNothing BY <1>1, <1>2, DropBeginsNothing
<1>4. pc'[f.call] \notin Waiting BY <1>2 DEF DispatchReturns, subsVars, Waiting, Subs!Pumping
<1>5. QED BY <1>3, <1>4, FrameKeeps DEF DispatchReturns, RfPhases

LEMMA LeaveKeeps == ASSUME IInv, NEW f \in Frames, Leave(f) PROVE RuntimeInv'
<1>1. M!TypeOK /\ M!MapInv /\ RuntimeInv BY SameState DEF IInv, TypeOK
<1>2. f.call \in Calls /\ rf[f] = "leaving" BY FrameNames, StoppableCalls DEF Leave
<1>3. IF Disposed THEN M!DrainSlots ELSE UNCHANGED subsVars BY SameShared DEF Leave
<1>4. BeginsNothing BY <1>1, <1>3, DropBeginsNothing
<1>5. Disposed => ~ Subs!Running(f.call)' BY <1>1, <1>2, <1>3, DrainEnds
<1>6. ASSUME ~ Disposed PROVE pc' = pc /\ stopped' = stopped BY <1>3, <1>6 DEF subsVars
<1>7. disposal \in {"drained", "returned", "freed"} => Disposed BY DEF Disposed
<1>8. f.kind = "start" /\ ingress # "spawned" /\ ~ Disposed => pc'[f.call] \notin Waiting
  BY <1>1, <1>2, <1>6, FrameNames DEF RuntimeInv, OrderInv
<1>9. f.kind = "stop" /\ ingress # "spawned" /\ ~ Disposed =>
        f.call \in stopped' \/ pc'[f.call] \notin Waiting \cup Subs!Pumping
  BY <1>1, <1>2, <1>6, FrameNames DEF RuntimeInv, OrderInv
<1>10. QED BY <1>2, <1>4, <1>5, <1>7, <1>8, <1>9, FrameKeeps DEF Leave, RfPhases

-----------------------------------------------------------------------------
(* The steps of the calls, and of dispose.                                 *)

LEMMA DispatchStartKeeps == ASSUME IInv, NEW f \in Frames, DispatchStart(f) PROVE RuntimeInv'
<1>1. M!TypeOK BY SameState DEF IInv, TypeOK
<1>2. f.call \in Calls /\ f = StartOf(f.call) /\ rf[f] = "dispatching"
  BY FrameNames DEF DispatchStart
<1>3. GetsOn(f.call) BY <1>1, <1>2, SameActions, DispatchGetsOn DEF DispatchStart
<1>4. UNCHANGED <<ingress, rf, aborted, killed, disposal>> BY DEF DispatchStart, runtimeVars
<1>5. QED BY <1>2, <1>3, <1>4, CallKeeps

LEMMA PumpKeeps ==
  ASSUME IInv, NEW c \in Calls, Pump(c) \/ SendStep(c) \/ FireDrained(c) PROVE RuntimeInv'
<1>1. M!TypeOK BY SameState DEF IInv, TypeOK
<1>2. UNCHANGED <<ingress, rf, aborted, killed, disposal>>
  BY DEF Pump, SendStep, PassGate, Swallow, Emit, FireDrained, runtimeVars
<1>3. CASE PassGate(c)
  <2>1. UNCHANGED subsVars BY <1>3 DEF PassGate
  <2>2. GetsOn(c) /\ (Subs!Running(c)' => Subs!Running(c)) /\ pc' = pc
    BY <2>1 DEF subsVars, GetsOn, Subs!Running
  <2>3. QED BY <1>2, <2>2, CallKeeps
<1>4. CASE Pump(c) \/ Swallow(c) \/ Emit(c) \/ FireDrained(c)
  <2>1. \/ M!PollCancelled(c) \/ M!PollStream(c) \/ M!RemoveSlot(c) \/ M!FireDrained(c)
        \/ \E emitted \in BOOLEAN : M!Send(c, emitted)
    BY <1>4, SameActions DEF Pump, Swallow, Emit, FireDrained
  <2>2. QED BY <1>1, <1>2, <2>1, PumpGetsOn, CallKeeps
<1>5. QED BY <1>3, <1>4 DEF SendStep

LEMMA DisposeStepKeeps == ASSUME IInv, DisposeStep \/ KillTasks PROVE RuntimeInv'
<1>1. M!TypeOK /\ M!MapInv /\ RuntimeInv BY SameState DEF IInv, TypeOK
<1>2. UNCHANGED subsVars \/ M!DrainSlots
  BY SameShared
  DEF DisposeStep, FlagDisposed, AbortInFlight, CancelSubscriptions, DisposeReturns, FreeCore, KillTasks
<1>3. BeginsNothing BY <1>1, <1>2, DropBeginsNothing
<1>4. disposal' \in {"drained", "returned", "freed"} /\ disposal \notin {"drained", "returned", "freed"}
        => \A c \in Calls : ~ Subs!Running(c)'
  <2>1. SUFFICES ASSUME disposal' \in {"drained", "returned", "freed"},
                        disposal \notin {"drained", "returned", "freed"}
                 PROVE  M!DrainSlots
    BY <1>1, DrainEnds
  <2>2. QED BY <2>1, SameShared
    DEF DisposeStep, FlagDisposed, AbortInFlight, CancelSubscriptions, DisposeReturns, FreeCore, KillTasks
<1>5. /\ UNCHANGED <<ingress, rf>>
      /\ ingress # "spawned" => ~ killed'
      /\ Disposed => disposal' # "none"
      /\ aborted' # {} => disposal' # "none"
      /\ disposal' = "freed" => Unsettled = {}
  BY <1>1 DEF RuntimeInv, EmbedderInv, Disposed,
    DisposeStep, FlagDisposed, AbortInFlight, CancelSubscriptions, DisposeReturns, FreeCore, KillTasks
<1>6. QED BY <1>3, <1>4, <1>5, DisposeKeeps

LEMMA RuntimeKeeps == ASSUME IInv, [Next]_vars PROVE RuntimeInv'
<1>1. ASSUME NEW f \in Frames, MayStep(f, NoCall, FALSE), FrameStep(f) PROVE RuntimeInv'
  BY <1>1, EnterKeeps, RegisterKeeps, DispatchStartKeeps, DispatchStopKeeps, AbortKeeps,
     DispatchReturnsKeeps, LeaveKeeps DEF FrameStep
<1>2. CASE UNCHANGED vars
  BY <1>2
  DEF IInv, vars, subsVars, runtimeVars, RuntimeInv, StartInv, DrainedInv, EmbedderInv, OrderInv,
    Unsettled, Disposed, Subs!Running
<1>3. CASE Next BY <1>1, <1>3, ArriveKeeps, TaskDroppedKeeps, PumpKeeps, DisposeStepKeeps DEF Next
<1>4. QED BY <1>2, <1>3

-----------------------------------------------------------------------------
(* The theorems.                                                           *)

LEMMA RuntimeTypes == ASSUME TypeOK, M!TypeOK', [Next]_vars PROVE TypeOK'
<1>1. Subs!TypeOK'
  BY DEF Subs!TypeOK, M!TypeOK, Subs!Slots, M!Slots, Subs!Phases, M!Phases, Subs!Dispatching,
    M!Dispatching, Subs!Pumping, M!Pumping
<1> DEFINE Own == /\ ingress \in Ingresses /\ rf \in [Frames -> RfPhases]
                  /\ inFlight \in SUBSET Frames /\ aborted \in SUBSET Frames
                  /\ killed \in BOOLEAN /\ disposal \in DisposalPhases /\ gate \in SUBSET Calls
<1>2. Own BY DEF TypeOK
<1>3. ASSUME NEW f \in Frames, Arrive(f) \/ TaskDropped(f) \/ FrameStep(f) PROVE Own'
  <2> USE <1>2 DEF Advance, RfPhases
  <2>1. CASE Arrive(f) BY <2>1 DEF Arrive
  <2>2. CASE TaskDropped(f) BY <2>2 DEF TaskDropped
  <2>3. CASE Enter(f) BY <2>3 DEF Enter
  <2>4. CASE Register(f) BY <2>4 DEF Register
  <2>5. CASE DispatchStart(f) BY <2>5 DEF DispatchStart, runtimeVars
  <2>6. CASE DispatchStop(f) BY <2>6 DEF DispatchStop
  <2>7. CASE Abort(f) BY <2>7 DEF Abort
  <2>8. CASE DispatchReturns(f) BY <2>8 DEF DispatchReturns
  <2>9. CASE Leave(f) BY <2>9 DEF Leave
  <2>10. QED BY <1>3, <2>1, <2>2, <2>3, <2>4, <2>5, <2>6, <2>7, <2>8, <2>9 DEF FrameStep
<1>4. ASSUME NEW c \in Calls, Pump(c) \/ SendStep(c) \/ FireDrained(c) PROVE Own'
  BY <1>2, <1>4 DEF Pump, SendStep, PassGate, Swallow, Emit, FireDrained, runtimeVars
<1>5. ASSUME DisposeStep \/ KillTasks PROVE Own'
  BY <1>2, <1>5 DEF DisposeStep, FlagDisposed, AbortInFlight, CancelSubscriptions, DisposeReturns,
    FreeCore, KillTasks, DisposalPhases
<1>6. ASSUME UNCHANGED vars PROVE Own' BY <1>2, <1>6 DEF vars, runtimeVars
<1>7. Own' BY <1>3, <1>4, <1>5, <1>6 DEF Next
<1>8. QED BY <1>1, <1>7 DEF TypeOK

LEMMA InitSafe == Init => IInv
<1> SUFFICES ASSUME Init PROVE IInv OBVIOUS
<1>1. M!Init BY SameState DEF Init
<1>2. M!TypeOK /\ M!MapInv BY <1>1, ManagerAssumption, M!TypeInit, M!SafeInit DEF M!SafeInv
<1>3. TypeOK BY <1>2, SameState DEF Init, TypeOK, RfPhases, DisposalPhases
<1>4. \A f \in Frames : rf[f] = "unsent" BY DEF Init
<1>5. StartInv BY <1>1 DEF StartInv, M!Init
<1>6. DrainedInv BY DEF Init, DrainedInv
<1>7. EmbedderInv BY <1>4, FrameNames DEF Init, EmbedderInv, Unsettled
<1>8. OrderInv BY <1>4, FrameNames DEF OrderInv
<1>9. QED BY <1>2, <1>3, <1>5, <1>6, <1>7, <1>8 DEF IInv, RuntimeInv

LEMMA InvNext == IInv /\ [Next]_vars => IInv'
<1> SUFFICES ASSUME IInv, [Next]_vars PROVE IInv' OBVIOUS
<1>1. TypeOK /\ M!TypeOK /\ M!MapInv BY SameState DEF IInv, TypeOK
<1>2. M!TypeOK' /\ M!MapInv' BY <1>1, ManagerKeeps
<1>3. QED BY <1>1, <1>2, RuntimeTypes, RuntimeKeeps DEF IInv

\* The inductive invariant holds throughout, under each of the embedders.
THEOREM Safety == Spec => []IInv
BY InitSafe, InvNext, PTL DEF Spec

\* The state of the connection and of its SubscriptionManager is well formed.
THEOREM TypeCorrect == Spec => []TypeOK
<1>1. IInv => TypeOK BY DEF IInv
<1>2. QED BY Safety, <1>1, PTL

\* Once dispose and every receive_frame have returned nothing streams, and a
\* core that is freed runs no frame (ProductRuntime::dispose, the last lines
\* of receive_frame, disposeAwaitingFrames).
THEOREM NoStreamOutlivesDisposeHolds == Spec => []NoStreamOutlivesDispose
<1>1. IInv => NoStreamOutlivesDispose
  <2> SUFFICES ASSUME IInv PROVE NoStreamOutlivesDispose OBVIOUS
  <2>1. ASSUME disposal \in {"returned", "freed"}, Unsettled = {}, NEW c \in Calls, Subs!Running(c)
        PROVE  FALSE
    <3>1. rf[StartOf(c)] \in {"dispatching", "leaving"} BY <2>1 DEF IInv, RuntimeInv, DrainedInv
    <3>2. StartOf(c) \in Unsettled BY <3>1, FrameNames DEF Unsettled
    <3>3. QED BY <2>1, <3>2
  <2>2. disposal = "freed" => Unsettled = {} BY DEF IInv, RuntimeInv, EmbedderInv
  <2>3. QED BY <2>1, <2>2 DEF NoStreamOutlivesDispose
<1>2. QED BY Safety, <1>1, PTL

\* Where frames are polled in the order they arrive a `_stop` reaches the
\* subscription it names (Dispatcher::dispatch, handle_stop).
THEOREM OrderedStopReachesStreamHolds == Spec => []OrderedStopReachesStream
<1>1. IInv => OrderedStopReachesStream
  <2> SUFFICES ASSUME IInv, ingress # "spawned", NEW c \in Stoppable,
                      rf[StopOf(c)] = "returned", ~ Disposed
               PROVE  ~ Subs!Running(c)
    BY DEF OrderedStopReachesStream, StopReachesStream
  <2>1. c \in stopped \/ pc[c] \notin Waiting \cup Subs!Pumping
    BY DEF IInv, RuntimeInv, OrderInv
  <2>2. CASE c \in stopped
    <3>1. ~ M!Running(c) BY <2>2 DEF IInv, M!MapInv, M!StopInv
    <3>2. QED BY <3>1, SameSlots
  <2>3. CASE pc[c] \notin Subs!Pumping BY <2>3 DEF Subs!Running
  <2>4. QED BY <2>1, <2>2, <2>3
<1>2. QED BY Safety, <1>1, PTL

LEMMA InFlightNext == TypeOK /\ InFlightIsExact /\ [Next]_vars => InFlightIsExact'
<1> SUFFICES ASSUME TypeOK, InFlightIsExact, [Next]_vars PROVE InFlightIsExact' OBVIOUS
<1>1. rf \in [Frames -> RfPhases] BY DEF TypeOK
<1>2. ASSUME NEW f \in Frames, Arrive(f) \/ TaskDropped(f) \/ FrameStep(f) PROVE InFlightIsExact'
  <2> USE <1>1 DEF InFlightIsExact, Advance, Disposed
  <2>1. CASE Arrive(f) BY <2>1 DEF Arrive
  <2>2. CASE TaskDropped(f) BY <2>2 DEF TaskDropped
  <2>3. CASE Enter(f) BY <2>3 DEF Enter
  <2>4. CASE Register(f) BY <2>4 DEF Register
  <2>5. CASE DispatchStart(f) BY <2>5 DEF DispatchStart, runtimeVars
  <2>6. CASE DispatchStop(f) BY <2>6 DEF DispatchStop
  <2>7. CASE Abort(f) BY <2>7 DEF Abort
  <2>8. CASE DispatchReturns(f) BY <2>8 DEF DispatchReturns
  <2>9. CASE Leave(f) BY <2>9 DEF Leave
  <2>10. QED BY <1>2, <2>1, <2>2, <2>3, <2>4, <2>5, <2>6, <2>7, <2>8, <2>9 DEF FrameStep
<1>3. ASSUME NEW c \in Calls, Pump(c) \/ SendStep(c) \/ FireDrained(c) PROVE InFlightIsExact'
  <2>1. UNCHANGED <<rf, inFlight, aborted, killed, disposal>>
    BY <1>3 DEF Pump, SendStep, PassGate, Swallow, Emit, FireDrained, runtimeVars
  <2>2. QED BY <2>1 DEF InFlightIsExact, Disposed
<1>4. ASSUME DisposeStep \/ KillTasks PROVE InFlightIsExact'
  BY <1>4 DEF DisposeStep, FlagDisposed, AbortInFlight, CancelSubscriptions, DisposeReturns,
    FreeCore, KillTasks, InFlightIsExact, Disposed
<1>5. ASSUME UNCHANGED vars PROVE InFlightIsExact'
  BY <1>5 DEF vars, runtimeVars, InFlightIsExact, Disposed
<1>6. QED BY <1>2, <1>3, <1>4, <1>5 DEF Next

\* in_flight holds the dispatches under way, and no entry but an aborted
\* task's outlives its receive_frame (receive_frame, dispose).
THEOREM InFlightIsExactHolds == Spec => []InFlightIsExact
<1>1. Init => InFlightIsExact BY DEF Init, InFlightIsExact
<1>2. QED BY <1>1, InFlightNext, TypeCorrect, PTL DEF Spec

-----------------------------------------------------------------------------
(***************************************************************************)
(* Subscriptions the host opens.                                           *)
(***************************************************************************)
\* Before its `_start`, a rendering is known to the host alone.
Early == {"none", "asked", "starting"}

Starts(r) == Frame("start", r) \in ToSet(toProduct)
Stops(r)  == Frame("stop", r) \in ToSet(toProduct)

Typed ==
  /\ mode \in {"ordered", "spawned"} /\ handler \in BOOLEAN
  /\ manager \in {"open", "flagged", "closed"} /\ client \in {"open", "closed"}
  /\ active \in SUBSET Renders /\ declined \in SUBSET Renders /\ held \in SUBSET ToHost
  /\ stream \in [Renders -> Early \cup {"open", "over", "spoilt", "failed", "dropped"}]
  /\ queue \in [Renders -> Seq(Trees \cup {Interrupt})]
  /\ shown \in [Renders -> Seq(Trees)]
  /\ toProduct \in Seq(ToProduct) /\ toHost \in Seq(ToHost)
  /\ buffered \in Seq(Renders) /\ Len(buffered) <= Capacity
  /\ instances \in [Renders -> {"none", "live", "complete"}]
  /\ drawn \in [Renders -> Nat]

\* Nothing has been said of a rendering whose `_start` was not sent.
Untouched(r) ==
  /\ r \notin ToSet(buffered) /\ instances[r] = "none" /\ r \notin declined /\ drawn[r] = 0
  /\ ~ Starts(r) /\ ~ Stops(r)
  /\ \A m \in ToSet(toHost) : m.render # r
  /\ \A m \in held : m.render # r
  /\ queue[r] = << >> /\ shown[r] = << >>

\* The `_start` of a rendering comes once, and before its `_stop`.
Orderly(s) ==
  \A i, j \in DOMAIN s :
    s[i].kind = "start" /\ s[j].render = s[i].render /\ i # j => s[j].kind = "stop" /\ i < j

NoRepeats(s) == \A i, j \in DOMAIN s : s[i] = s[j] => i = j

SlotOf(r) ==
  /\ stream[r] \in Early => Untouched(r)
  /\ r \in active => stream[r] \in {"starting", "open"}
  /\ stream[r] = "starting" => r \in active \/ manager = "closed"

\* A `_start` finds nothing of its rendering in the product; a slot stands
\* behind it, or a `_stop` follows.  A `_stop` was the end of the slot.
OnItsWay(r) ==
  /\ Starts(r) => /\ r \notin ToSet(buffered) /\ instances[r] = "none" /\ r \notin declined
                  /\ manager = "open" => r \in active \/ Stops(r)
  /\ Stops(r) => r \notin active

\* What the product has, it has once, and it has not declined it; and it is
\* told when the slot goes.
Held(r) ==
  /\ r \in ToSet(buffered) => instances[r] = "none"
  /\ r \in declined => ~ Has(r)
  /\ manager = "open" /\ Has(r) => r \in active \/ Stops(r)

\* What the host has been told, or will be: by an interrupt on the connection
\* or in the channel, which only the product sends.
Told(r) ==
  /\ Says(r, Interrupt) \in ToSet(toHost) => r \in declined
  /\ Interrupt \in ToSet(queue[r]) => r \in declined /\ r \notin active
  /\ manager = "open" /\ client = "open" /\ r \in active /\ stream[r] = "open" =>
       Has(r) \/ Starts(r) \/ Says(r, Interrupt) \in ToSet(toHost)
  /\ stream[r] = "open" /\ r \notin active => manager = "closed" \/ Interrupt \in ToSet(queue[r])
  /\ stream[r] = "failed" => r \in declined
  /\ stream[r] = "over" => manager = "closed"

\* The trees that have come as far as the channel, the frames that hold one,
\* and what makes them arrive as 1, 2, 3...: those under way follow, none is
\* missing, and none is out of order.
Reached(r) == Len(shown[r]) + Len(queue[r])
IsTree(r, m) == m.render = r /\ m.value # Interrupt

Counted(r) ==
  /\ shown[r] = [i \in 1 .. Len(shown[r]) |-> i]
  /\ stream[r] = "open" => \A i \in DOMAIN queue[r] :
       queue[r][i] # Interrupt => queue[r][i] = Len(shown[r]) + i
  /\ \A i \in DOMAIN toHost : IsTree(r, toHost[i]) => toHost[i].value <= drawn[r]
  /\ \A i, j \in DOMAIN toHost :
       IsTree(r, toHost[i]) /\ IsTree(r, toHost[j]) /\ i < j => toHost[i].value < toHost[j].value
  /\ r \in active /\ manager = "open" =>
       /\ Reached(r) <= drawn[r]
       /\ \A i \in DOMAIN toHost : IsTree(r, toHost[i]) => toHost[i].value > Reached(r)
       /\ \A v \in Reached(r) + 1 .. drawn[r] : Says(r, v) \in ToSet(toHost)

SideOf(r) == SlotOf(r) /\ OnItsWay(r) /\ Held(r) /\ Told(r)

Sides ==
  /\ Orderly(toProduct) /\ NoRepeats(buffered)
  /\ \A h \in held : h.value # Interrupt
  /\ \A r \in Renders : SideOf(r)

InOrder == mode = "ordered" => held = {} /\ \A r \in Renders : Counted(r)

RenderInv == Typed /\ Sides /\ InOrder

-----------------------------------------------------------------------------
(* Sequences.                                                              *)

LEMMA SetOfAppended ==
  ASSUME NEW S, NEW s \in Seq(S), NEW e \in S
  PROVE  Append(s, e) \in Seq(S) /\ ToSet(Append(s, e)) = ToSet(s) \cup {e}
<1>1. Append(s, e) \in Seq(S) /\ Len(Append(s, e)) = Len(s) + 1 OBVIOUS
<1>2. DOMAIN Append(s, e) = DOMAIN s \cup {Len(s) + 1} OBVIOUS
<1>3. \A i \in DOMAIN s : Append(s, e)[i] = s[i] OBVIOUS
<1>4. Append(s, e)[Len(s) + 1] = e OBVIOUS
<1>5. QED BY <1>1, <1>2, <1>3, <1>4 DEF ToSet

LEMMA HeadAndTail ==
  ASSUME NEW S, NEW s \in Seq(S), s # << >>
  PROVE  /\ Head(s) \in S /\ Tail(s) \in Seq(S) /\ Len(Tail(s)) = Len(s) - 1 /\ Len(s) > 0
         /\ Head(s) = s[1] /\ \A i \in DOMAIN Tail(s) : Tail(s)[i] = s[i + 1] /\ i + 1 \in DOMAIN s
         /\ DOMAIN s = 1 .. Len(s) /\ DOMAIN Tail(s) = 1 .. Len(s) - 1
         /\ ToSet(s) = ToSet(Tail(s)) \cup {Head(s)}
<1>1. Head(s) \in S /\ Tail(s) \in Seq(S) /\ Len(Tail(s)) = Len(s) - 1 /\ Len(s) > 0 OBVIOUS
<1>2. Head(s) = s[1] /\ \A i \in DOMAIN Tail(s) : Tail(s)[i] = s[i + 1] /\ i + 1 \in DOMAIN s OBVIOUS
<1>3. DOMAIN s = 1 .. Len(s) /\ DOMAIN Tail(s) = 1 .. Len(s) - 1 OBVIOUS
<1>4. ASSUME NEW i \in DOMAIN s, i # 1 PROVE i - 1 \in DOMAIN Tail(s) /\ s[i] = Tail(s)[i - 1]
  <2>1. i - 1 \in DOMAIN Tail(s) /\ (i - 1) + 1 = i BY <1>1, <1>3, <1>4
  <2>2. QED BY <2>1, <1>2
<1>5. ASSUME NEW x \in ToSet(s) PROVE x \in ToSet(Tail(s)) \cup {Head(s)}
  <2>1. PICK i \in DOMAIN s : s[i] = x BY DEF ToSet
  <2>2. CASE i = 1 BY <1>2, <2>1, <2>2
  <2>3. CASE i # 1
    <3>1. i - 1 \in DOMAIN Tail(s) /\ x = Tail(s)[i - 1] BY <1>4, <2>1, <2>3
    <3>2. QED BY ONLY <3>1 DEF ToSet
  <2>4. QED BY <2>2, <2>3
<1>6. ToSet(Tail(s)) \cup {Head(s)} \subseteq ToSet(s) BY <1>1, <1>2, <1>3 DEF ToSet
<1>7. QED BY <1>1, <1>2, <1>3, <1>5, <1>6

LEMMA Concatenated ==
  ASSUME NEW S, NEW s \in Seq(S), NEW t \in Seq(S)
  PROVE  /\ s \o t \in Seq(S) /\ ToSet(s \o t) = ToSet(s) \cup ToSet(t)
         /\ DOMAIN (s \o t) = 1 .. Len(s) + Len(t)
         /\ \A i \in DOMAIN s : (s \o t)[i] = s[i] /\ i \in DOMAIN (s \o t)
         /\ \A i \in DOMAIN (s \o t) : i \notin DOMAIN s => (s \o t)[i] = t[i - Len(s)] /\ i - Len(s) \in DOMAIN t
<1>1. s \o t \in Seq(S) /\ Len(s \o t) = Len(s) + Len(t) OBVIOUS
<1>2. DOMAIN s = 1 .. Len(s) /\ DOMAIN t = 1 .. Len(t) /\ Len(s) \in Nat /\ Len(t) \in Nat OBVIOUS
<1>3. DOMAIN (s \o t) = 1 .. Len(s) + Len(t) BY <1>1
<1>4. \A i \in DOMAIN s : (s \o t)[i] = s[i] /\ i \in DOMAIN (s \o t) BY <1>2, <1>3
<1>5. \A i \in DOMAIN (s \o t) : i \notin DOMAIN s => (s \o t)[i] = t[i - Len(s)] /\ i - Len(s) \in DOMAIN t
  BY <1>2, <1>3
<1>6. \A i \in DOMAIN t : Len(s) + i \in DOMAIN (s \o t) /\ (s \o t)[Len(s) + i] = t[i] BY <1>2, <1>3
<1>7. ToSet(s \o t) \subseteq ToSet(s) \cup ToSet(t) BY <1>4, <1>5 DEF ToSet
<1>8. ToSet(s) \cup ToSet(t) \subseteq ToSet(s \o t) BY <1>4, <1>6 DEF ToSet
<1>9. QED BY <1>1, <1>3, <1>4, <1>5, <1>7, <1>8

\* Without the element at i, the others stay in order.
LEMMA Removed ==
  ASSUME NEW S, NEW s \in Seq(S), NEW i \in DOMAIN s
  PROVE  /\ RemoveAt(s, i) \in Seq(S) /\ Len(RemoveAt(s, i)) = Len(s) - 1
         /\ \A j \in DOMAIN RemoveAt(s, i) :
              /\ RemoveAt(s, i)[j] = s[IF j < i THEN j ELSE j + 1]
              /\ (IF j < i THEN j ELSE j + 1) \in DOMAIN s \ {i}
         /\ ToSet(s) = ToSet(RemoveAt(s, i)) \cup {s[i]}
<1> DEFINE a == SubSeq(s, 1, i - 1)
           b == SubSeq(s, i + 1, Len(s))
<1>0. i \in 1 .. Len(s) /\ Len(s) \in Nat OBVIOUS
<1>1. a \in Seq(S) /\ Len(a) = i - 1 /\ \A j \in 1 .. i - 1 : a[j] = s[j] BY <1>0
<1>2. b \in Seq(S) /\ Len(b) = Len(s) - i /\ \A j \in 1 .. Len(s) - i : b[j] = s[j + i] BY <1>0
<1>3. RemoveAt(s, i) = a \o b BY DEF RemoveAt
<1> HIDE DEF a, b
<1>4. RemoveAt(s, i) \in Seq(S) /\ Len(RemoveAt(s, i)) = Len(s) - 1 BY <1>0, <1>1, <1>2, <1>3
<1>5. DOMAIN RemoveAt(s, i) = 1 .. Len(s) - 1 BY <1>4
<1>6. ASSUME NEW j \in 1 .. Len(s) - 1
      PROVE  /\ RemoveAt(s, i)[j] = s[IF j < i THEN j ELSE j + 1]
             /\ (IF j < i THEN j ELSE j + 1) \in DOMAIN s \ {i}
  <2>1. j < i => RemoveAt(s, i)[j] = a[j] BY <1>0, <1>1, <1>2, <1>3
  <2>2. ~ (j < i) => RemoveAt(s, i)[j] = b[j - (i - 1)]
    <3>1. a \in Seq(S) /\ b \in Seq(S) /\ j \in 1 .. Len(a) + Len(b) BY <1>0, <1>1, <1>2
    <3>2. j \in DOMAIN (a \o b) BY <3>1, Concatenated
    <3>3. DOMAIN a = 1 .. i - 1 BY <1>1
    <3>4. j \notin DOMAIN a => (a \o b)[j] = b[j - Len(a)] BY <3>1, <3>2, Concatenated
    <3>5. ~ (j < i) => j \notin DOMAIN a BY <3>3, <1>0
    <3>6. Len(a) = i - 1 BY <1>1
    <3>7. QED BY <3>4, <3>5, <3>6, <1>3, Zenon
  <2>3. ~ (j < i) => b[j - (i - 1)] = s[j + 1] BY <1>0, <1>2
  <2>4. QED BY <2>1, <2>2, <2>3, <1>0, <1>1
<1>7. ASSUME NEW k \in DOMAIN s, k # i PROVE \E j \in 1 .. Len(s) - 1 : s[k] = RemoveAt(s, i)[j]
  <2>1. CASE k < i BY <2>1, <1>0, <1>6
  <2>2. CASE k > i
    <3>1. k - 1 \in 1 .. Len(s) - 1 /\ ~ (k - 1 < i) /\ (k - 1) + 1 = k BY <2>2, <1>0
    <3>2. QED BY <3>1, <1>6
  <2>3. QED BY <2>1, <2>2, <1>0, <1>7
<1>8. ToSet(s) \subseteq ToSet(RemoveAt(s, i)) \cup {s[i]} BY <1>5, <1>7 DEF ToSet
<1>9. ToSet(RemoveAt(s, i)) \cup {s[i]} \subseteq ToSet(s) BY <1>5, <1>6 DEF ToSet
<1>10. QED BY <1>4, <1>5, <1>6, <1>8, <1>9

LEMMA PartOf ==
  ASSUME NEW S, NEW s \in Seq(S), NEW p \in Subsequences(s)
  PROVE  p \in Seq(S) /\ ToSet(p) \subseteq ToSet(s)
<1>0. PICK n \in 0 .. Len(s) : \E f \in Increasing(n, Len(s)) : p = [i \in 1 .. n |-> s[f[i]]]
  BY DEF Subsequences
<1>1. PICK f \in Increasing(n, Len(s)) : p = [i \in 1 .. n |-> s[f[i]]] BY <1>0
<1>2. f \in [1 .. n -> 1 .. Len(s)] BY DEF Increasing
<1>3. n \in Nat /\ Len(s) \in Nat /\ DOMAIN s = 1 .. Len(s) OBVIOUS
<1>4. p \in [1 .. n -> S] BY <1>1, <1>2, <1>3
<1>5. p \in Seq(S) /\ DOMAIN p = 1 .. n BY <1>3, <1>4
<1>6. ToSet(p) \subseteq ToSet(s) BY <1>1, <1>2, <1>3, <1>5 DEF ToSet
<1>7. QED BY <1>5, <1>6

LEMMA FramesAre ==
  /\ \A kind \in {"start", "stop"}, r \in Renders : Frame(kind, r) \in ToProduct
  /\ \A kind, other, r, q : Frame(kind, r) = Frame(other, q) <=> kind = other /\ r = q
  /\ \A f \in ToProduct : f.kind \in {"start", "stop"} /\ f.render \in Renders /\ f = Frame(f.kind, f.render)
  /\ \A kind, r : Frame(kind, r).kind = kind /\ Frame(kind, r).render = r
BY DEF Frame, ToProduct

LEMMA WordsAre ==
  /\ \A r \in Renders, value \in Trees \cup {Interrupt} : Says(r, value) \in ToHost
  /\ \A r, q, value, other : Says(r, value) = Says(q, other) <=> r = q /\ value = other
  /\ \A m \in ToHost : m.render \in Renders /\ m.value \in Trees \cup {Interrupt} /\ m = Says(m.render, m.value)
  /\ \A r, value : Says(r, value).render = r /\ Says(r, value).value = value
BY DEF Says, ToHost

LEMMA TreesAre == Trees \subseteq Nat \ {Interrupt}
BY BoundAssumption DEF Trees, Interrupt

\* A `_start` that is the first of its rendering, a `_stop` at the end, and
\* the loss of the oldest frame leave the frames in order.
LEMMA OrderKept ==
  ASSUME NEW s \in Seq(ToProduct), Orderly(s)
  PROVE  /\ \A r \in Renders : Orderly(Append(s, Frame("stop", r)))
         /\ \A r \in Renders : Frame("start", r) \notin ToSet(s) /\ Frame("stop", r) \notin ToSet(s)
                                 => Orderly(Append(s, Frame("start", r)))
         /\ s # << >> => Orderly(Tail(s))
<1> DEFINE t(f) == Append(s, f)
<1>1. ASSUME NEW f \in ToProduct
      PROVE  /\ DOMAIN t(f) = 1 .. Len(s) + 1 /\ t(f)[Len(s) + 1] = f
             /\ \A i \in 1 .. Len(s) : t(f)[i] = s[i]
             /\ DOMAIN s = 1 .. Len(s) /\ Len(s) \in Nat
             /\ \A i \in 1 .. Len(s) : s[i] \in ToProduct /\ s[i] \in ToSet(s)
  BY DEF ToSet
<1>2. ASSUME NEW f \in ToProduct, NEW i \in 1 .. Len(s) + 1, i # Len(s) + 1 PROVE i \in 1 .. Len(s) BY <1>1, <1>2
<1> HIDE DEF t
<1>3. ASSUME NEW r \in Renders PROVE Orderly(t(Frame("stop", r)))
  BY <1>1, <1>2, FramesAre DEF Orderly
<1>4. ASSUME NEW r \in Renders, Frame("start", r) \notin ToSet(s), Frame("stop", r) \notin ToSet(s)
      PROVE  Orderly(t(Frame("start", r)))
  <2>1. \A i \in 1 .. Len(s) : s[i].render # r BY <1>1, <1>4, FramesAre
  <2>2. QED BY <1>1, <1>2, <2>1, FramesAre DEF Orderly
<1>5. ASSUME s # << >> PROVE Orderly(Tail(s))
  <2>1. /\ DOMAIN s = 1 .. Len(s) /\ DOMAIN Tail(s) = 1 .. Len(s) - 1
        /\ \A i \in DOMAIN Tail(s) : Tail(s)[i] = s[i + 1] /\ i + 1 \in DOMAIN s
    BY <1>5, HeadAndTail
  <2>2. SUFFICES ASSUME NEW i \in DOMAIN Tail(s), NEW j \in DOMAIN Tail(s), i # j,
                        Tail(s)[i].kind = "start", Tail(s)[j].render = Tail(s)[i].render
                 PROVE  Tail(s)[j].kind = "stop" /\ i < j
    BY DEF Orderly
  <2>3. i \in Int /\ j \in Int /\ i + 1 # j + 1 BY <2>1, <2>2
  <2>4. s[j + 1].kind = "stop" /\ i + 1 < j + 1 BY <2>1, <2>2, <2>3 DEF Orderly
  <2>5. QED BY <2>1, <2>3, <2>4
<1>6. QED BY <1>3, <1>4, <1>5 DEF t

\* The oldest frame was the last of its kind for its rendering, and after a
\* `_stop` no `_start` follows.
LEMMA OldestFrame ==
  ASSUME NEW s \in Seq(ToProduct), s # << >>, Orderly(s)
  PROVE  /\ Frame("start", Head(s).render) \notin ToSet(Tail(s))
         /\ Tail(s) \in Seq(ToProduct) /\ Head(s) \in ToProduct
         /\ ToSet(s) = ToSet(Tail(s)) \cup {Head(s)} /\ Orderly(Tail(s))
<1>1. ASSUME Frame("start", Head(s).render) \in ToSet(Tail(s)) PROVE FALSE
  <2>1. PICK i \in DOMAIN Tail(s) : Tail(s)[i] = Frame("start", Head(s).render) BY <1>1 DEF ToSet
  <2>2. s[i + 1] = Frame("start", s[1].render) /\ i + 1 \in DOMAIN s /\ 1 \in DOMAIN s /\ i + 1 # 1 /\ ~ (i + 1 < 1)
    BY <2>1, HeadAndTail
  <2>3. QED BY <2>2, FramesAre DEF Orderly
<1>2. QED BY <1>1, HeadAndTail, OrderKept

LEMMA RepeatsKept ==
  ASSUME NEW S, NEW s \in Seq(S), NoRepeats(s)
  PROVE  /\ \A e \in S : e \notin ToSet(s) => NoRepeats(Append(s, e))
         /\ s # << >> => NoRepeats(Tail(s)) /\ Head(s) \notin ToSet(Tail(s))
         /\ \A i \in DOMAIN s : NoRepeats(RemoveAt(s, i)) /\ s[i] \notin ToSet(RemoveAt(s, i))
<1>1. ASSUME NEW e \in S, e \notin ToSet(s) PROVE NoRepeats(Append(s, e))
  <2> DEFINE t == Append(s, e)
  <2>1. /\ DOMAIN t = 1 .. Len(s) + 1 /\ t[Len(s) + 1] = e
        /\ \A i \in 1 .. Len(s) : t[i] = s[i]
        /\ DOMAIN s = 1 .. Len(s) /\ Len(s) \in Nat
    OBVIOUS
  <2>2. \A i \in 1 .. Len(s) : t[i] # e BY <2>1, <1>1 DEF ToSet
  <2>3. \A i \in 1 .. Len(s) + 1 : i # Len(s) + 1 => i \in 1 .. Len(s) BY <2>1
  <2> HIDE DEF t
  <2>4. NoRepeats(t) BY <2>1, <2>2, <2>3 DEF NoRepeats
  <2>5. QED BY <2>4 DEF t
<1>2. ASSUME s # << >> PROVE NoRepeats(Tail(s)) /\ Head(s) \notin ToSet(Tail(s))
  <2>1. NoRepeats(Tail(s)) BY <1>2, HeadAndTail DEF NoRepeats
  <2>2. \A i \in DOMAIN Tail(s) : i + 1 # 1 /\ 1 \in DOMAIN s BY <1>2, HeadAndTail
  <2>3. \A i \in DOMAIN Tail(s) : Tail(s)[i] # Head(s) BY <1>2, <2>2, HeadAndTail DEF NoRepeats
  <2>4. QED BY <2>1, <2>3 DEF ToSet
<1>3. ASSUME NEW i \in DOMAIN s PROVE NoRepeats(RemoveAt(s, i)) /\ s[i] \notin ToSet(RemoveAt(s, i))
  <2> DEFINE t == RemoveAt(s, i)
             At(j) == IF j < i THEN j ELSE j + 1
  <2>1. DOMAIN t \subseteq Nat /\ i \in Nat
    <3>1. t \in Seq(S) BY Removed
    <3>2. QED BY <3>1
  <2>2. \A j \in DOMAIN t : t[j] = s[At(j)] /\ At(j) \in DOMAIN s \ {i} BY Removed
  <2>3. \A j, k \in DOMAIN t : At(j) = At(k) => j = k BY <2>1
  <2> HIDE DEF t, At
  <2>4. NoRepeats(t) BY <2>2, <2>3 DEF NoRepeats
  <2>5. s[i] \notin ToSet(t) BY <2>2 DEF NoRepeats, ToSet
  <2>6. QED BY <2>4, <2>5 DEF t
<1>4. QED BY <1>1, <1>2, <1>3

-----------------------------------------------------------------------------
(* What the steps do to the sequences.                                     *)

LEMMA Sending ==
  ASSUME Typed, NEW f \in ToProduct, Send(f)
  PROVE  /\ toProduct' \in Seq(ToProduct)
         /\ manager = "open" => toProduct' = Append(toProduct, f) /\ ToSet(toProduct') = ToSet(toProduct) \cup {f}
         /\ manager # "open" => toProduct' = toProduct
BY SetOfAppended DEF Send, Typed

LEMMA Stopping ==
  ASSUME Typed, Orderly(toProduct), NEW r \in Renders, Stop(r)
  PROVE  /\ active' = active \ {r} /\ toProduct' \in Seq(ToProduct) /\ Orderly(toProduct')
         /\ ToSet(toProduct') = IF r \in active /\ manager = "open" THEN ToSet(toProduct) \cup {Frame("stop", r)}
                                ELSE ToSet(toProduct)
<1>1. CASE r \in active
  <2>1. Send(Frame("stop", r)) /\ active' = active \ {r} BY <1>1 DEF Stop
  <2>2. Frame("stop", r) \in ToProduct BY FramesAre
  <2>3. toProduct \in Seq(ToProduct) BY DEF Typed
  <2>4. QED BY <1>1, <2>1, <2>2, <2>3, Sending, OrderKept
<1>2. CASE r \notin active BY <1>2 DEF Stop, Typed
<1>3. QED BY <1>1, <1>2

LEMMA Declining ==
  ASSUME Typed, NEW rs \in Seq(Renders), Decline(rs)
  PROVE  /\ toHost' \in Seq(ToHost) /\ declined' = declined \cup ToSet(rs) /\ declined' \in SUBSET Renders
         /\ ToSet(toHost') = ToSet(toHost) \cup {Says(r, Interrupt) : r \in ToSet(rs)}
         /\ \A i \in DOMAIN toHost : i \in DOMAIN toHost' /\ toHost'[i] = toHost[i]
         /\ \A i \in DOMAIN toHost' : i \notin DOMAIN toHost => toHost'[i].value = Interrupt
<1> DEFINE t == [i \in DOMAIN rs |-> Says(rs[i], Interrupt)]
<1>1. DOMAIN rs = 1 .. Len(rs) /\ Len(rs) \in Nat /\ \A i \in DOMAIN rs : rs[i] \in Renders OBVIOUS
<1>2. t \in [1 .. Len(rs) -> ToHost] BY <1>1, WordsAre
<1>3. t \in Seq(ToHost) /\ DOMAIN t = DOMAIN rs BY <1>1, <1>2
<1>4. ToSet(t) = {Says(r, Interrupt) : r \in ToSet(rs)} BY <1>3 DEF ToSet
<1>5. \A i \in DOMAIN t : t[i].value = Interrupt BY <1>3, WordsAre
<1>6. ToSet(rs) \subseteq Renders BY <1>1 DEF ToSet
<1>7. toHost' = toHost \o t /\ declined' = declined \cup ToSet(rs) BY DEF Decline
<1>8. toHost \in Seq(ToHost) /\ declined \in SUBSET Renders BY DEF Typed
<1> HIDE DEF t
<1>9. QED BY <1>3, <1>4, <1>5, <1>6, <1>7, <1>8, Concatenated

\* The buffer with one more start, and what it no longer holds.
LEMMA Buffering ==
  ASSUME Typed, NoRepeats(buffered), NEW r \in Renders, r \notin ToSet(buffered), Buffer(r)
  PROVE  \E out \in Seq(Renders) :
           /\ buffered' \in Seq(Renders) /\ Len(buffered') <= Capacity /\ NoRepeats(buffered')
           /\ Decline(out) \/ (out = << >> /\ UNCHANGED <<toHost, declined>>)
           /\ ToSet(out) \subseteq ToSet(buffered)
           /\ ToSet(buffered') = (ToSet(buffered) \ ToSet(out)) \cup {r}
<1>1. buffered \in Seq(Renders) /\ Len(buffered) <= Capacity BY DEF Typed
<1>2. Capacity \in Nat \ {0} BY BoundAssumption
<1>3. ToSet(<< >>) = {} BY DEF ToSet
<1>4. CASE Len(buffered) # Capacity
  <2>1. buffered' = Append(buffered, r) /\ UNCHANGED <<toHost, declined>> BY <1>4 DEF Buffer
  <2>2. Len(buffered') <= Capacity BY <2>1, <1>1, <1>2, <1>4
  <2>3. << >> \in Seq(Renders) OBVIOUS
  <2>4. /\ buffered' \in Seq(Renders) /\ NoRepeats(buffered')
        /\ ToSet(buffered') = (ToSet(buffered) \ ToSet(<< >>)) \cup {r}
    BY <1>1, <1>3, <2>1, SetOfAppended, RepeatsKept
  <2> WITNESS << >> \in Seq(Renders)
  <2>5. QED BY <1>3, <2>1, <2>2, <2>4
<1>5. CASE Len(buffered) = Capacity
  <2>1. buffered # << >> BY <1>1, <1>2, <1>5
  <2>2. buffered' = Append(Tail(buffered), r) /\ Decline(<<Head(buffered)>>) BY <1>5 DEF Buffer
  <2>3. /\ Tail(buffered) \in Seq(Renders) /\ Head(buffered) \in Renders
        /\ ToSet(buffered) = ToSet(Tail(buffered)) \cup {Head(buffered)}
        /\ Len(Tail(buffered)) = Len(buffered) - 1
    BY <1>1, <2>1, HeadAndTail
  <2>4. NoRepeats(Tail(buffered)) /\ Head(buffered) \notin ToSet(Tail(buffered)) BY <1>1, <2>1, RepeatsKept
  <2>5. PICK rest \in Seq(Renders) : rest = Tail(buffered) BY <2>3
  <2>6. buffered' = Append(rest, r) /\ r \notin ToSet(rest) /\ NoRepeats(rest) BY <2>2, <2>3, <2>4, <2>5
  <2>7. Len(buffered') <= Capacity BY <2>3, <2>5, <2>6, <1>1, <1>2
  <2>c. Append(rest, r) \in Seq(Renders) /\ ToSet(Append(rest, r)) = ToSet(rest) \cup {r}
    <3>1. rest \in Seq(Renders) /\ r \in Renders BY <2>5
    <3>2. QED BY ONLY <3>1, SetOfAppended
  <2>d. NoRepeats(Append(rest, r)) BY <2>5, <2>6, RepeatsKept
  <2>8. buffered' \in Seq(Renders) /\ NoRepeats(buffered') /\ ToSet(buffered') = ToSet(rest) \cup {r}
    BY ONLY <2>6, <2>c, <2>d
  <2>a. <<Head(buffered)>> \in Seq(Renders) BY <2>3
  <2>9. PICK out \in Seq(Renders) : out = <<Head(buffered)>> BY ONLY <2>a
  <2>b. Decline(out) BY <2>2, <2>9, Zenon
  <2>10. ToSet(out) = {Head(buffered)} BY <2>9 DEF ToSet
  <2>11. ToSet(buffered') = (ToSet(buffered) \ ToSet(out)) \cup {r} BY <2>3, <2>4, <2>5, <2>8, <2>10
  <2>12. ToSet(out) \subseteq ToSet(buffered) BY <2>3, <2>10
  <2> WITNESS out \in Seq(Renders)
  <2>13. QED BY <2>b, <2>7, <2>8, <2>11, <2>12
<1>6. QED BY <1>4, <1>5

LEMMA Starting ==
  ASSUME Typed, NEW rs \in Seq(Renders), StartAll(rs)
  PROVE  \E refused \in Seq(Renders) :
           /\ ToSet(refused) \subseteq ToSet(rs) /\ Decline(refused)
           /\ instances' = [r \in Renders |->
                 IF r \in ToSet(rs) \ ToSet(refused) THEN "live" ELSE instances[r]]
BY PartOf DEF StartAll

-----------------------------------------------------------------------------
(* Types.                                                                  *)

LEMMA AskReserveTyped ==
  ASSUME Typed, NEW r \in Renders, Ask(r) \/ Reserve(r) PROVE Typed'
BY DEF Typed, Ask, Reserve, productVars, Early

LEMMA SendStartTyped ==
  ASSUME Typed, NEW r \in Renders, SendStart(r) PROVE Typed'
BY Sending, FramesAre DEF Typed, SendStart, productVars, Early

LEMMA PollTyped ==
  ASSUME Typed, Sides, NEW r \in Renders, Poll(r) PROVE Typed'
<1>1. CASE PollTree(r)
  <2>1. /\ Head(queue[r]) \in Trees /\ Tail(queue[r]) \in Seq(Trees \cup {Interrupt})
        /\ queue' = [queue EXCEPT ![r] = Tail(queue[r])]
    BY <1>1, HeadAndTail DEF Typed, PollTree
  <2>2. CASE shown' = [shown EXCEPT ![r] = Append(@, Head(queue[r]))] /\ UNCHANGED <<active, stream, toProduct>>
    <3>1. Append(shown[r], Head(queue[r])) \in Seq(Trees) BY <2>1, SetOfAppended DEF Typed
    <3>2. QED BY <1>1, <2>1, <2>2, <3>1 DEF PollTree, Typed, productVars
  <2>3. CASE stream' = [stream EXCEPT ![r] = "spoilt"] /\ Stop(r) /\ UNCHANGED shown
    <3>1. active' = active \ {r} /\ toProduct' \in Seq(ToProduct) BY <2>3, Stopping DEF Sides
    <3>2. QED BY <1>1, <2>1, <2>3, <3>1 DEF PollTree, Typed, productVars
  <2>4. QED BY <1>1, <2>2, <2>3 DEF PollTree
<1>2. CASE PollInterrupt(r)
  <2>1. Tail(queue[r]) \in Seq(Trees \cup {Interrupt}) BY <1>2, HeadAndTail DEF Typed, PollInterrupt
  <2>2. QED BY <1>2, <2>1 DEF PollInterrupt, Typed, productVars
<1>3. CASE PollEnd(r) BY <1>3 DEF PollEnd, Typed, productVars
<1>4. QED BY <1>1, <1>2, <1>3 DEF Poll

LEMMA CancelTyped ==
  ASSUME Typed, Sides, NEW r \in Renders, Cancel(r) PROVE Typed'
<1>1. active' = active \ {r} /\ toProduct' \in Seq(ToProduct) BY Stopping DEF Sides, Cancel
<1>2. QED BY <1>1 DEF Cancel, Typed, productVars

LEMMA HandleTyped ==
  ASSUME Typed, HandleMessage PROVE Typed'
<1>1. PICK i \in DOMAIN toHost : Route(toHost[i]) /\ toHost' = RemoveAt(toHost, i) BY DEF HandleMessage
<1>2. toHost' \in Seq(ToHost) /\ toHost[i] \in ToHost BY <1>1, Removed DEF Typed
<1>3. toHost[i].render \in Renders /\ toHost[i].value \in Trees \cup {Interrupt} BY <1>2, WordsAre
<1>4. active' \in SUBSET Renders /\ held' \in SUBSET ToHost
  BY <1>1, <1>2 DEF Route, Typed
<1>5. queue' \in [Renders -> Seq(Trees \cup {Interrupt})]
  <2>1. Append(queue[toHost[i].render], toHost[i].value) \in Seq(Trees \cup {Interrupt})
    BY <1>3, SetOfAppended DEF Typed
  <2>2. \/ UNCHANGED queue
        \/ queue' = [queue EXCEPT ![toHost[i].render] = Append(@, toHost[i].value)]
    BY <1>1 DEF Route
  <2>3. QED BY <2>1, <2>2, <1>3 DEF Typed
<1>6. QED BY <1>2, <1>4, <1>5 DEF HandleMessage, Typed, productVars

LEMMA EnqueueTyped ==
  ASSUME Typed, NEW h \in held, Enqueue(h) PROVE Typed'
<1>1. h \in ToHost /\ h.render \in Renders /\ h.value \in Trees \cup {Interrupt} BY WordsAre DEF Typed
<1>2. Append(queue[h.render], h.value) \in Seq(Trees \cup {Interrupt}) BY <1>1, SetOfAppended DEF Typed
<1>3. QED BY <1>1, <1>2 DEF Enqueue, Typed, productVars

LEMMA DisposeTyped == ASSUME Typed, Dispose PROVE Typed'
BY DEF Dispose, Typed, productVars

LEMMA OnStartTyped ==
  ASSUME Typed, Sides, OnStart PROVE Typed'
<1> DEFINE r == Head(toProduct).render
<1>1. /\ toProduct # << >> /\ Head(toProduct).kind = "start" /\ toProduct' = Tail(toProduct)
      /\ UNCHANGED <<mode, hostVars, client, handler, drawn>>
  BY DEF OnStart
<1>2. toProduct' \in Seq(ToProduct) /\ Head(toProduct) \in ToProduct /\ Head(toProduct) \in ToSet(toProduct)
  BY <1>1, HeadAndTail DEF Typed
<1>3. r \in Renders /\ Starts(r) BY <1>1, <1>2, FramesAre DEF Starts
<1>4. CASE handler
  <2>1. StartAll(<<r>>) /\ UNCHANGED buffered BY <1>4 DEF OnStart
  <2>2. <<r>> \in Seq(Renders) BY <1>3
  <2> HIDE DEF r
  <2>3. PICK refused \in Seq(Renders) : Decline(refused) /\ instances' = [q \in Renders |->
           IF q \in ToSet(<<r>>) \ ToSet(refused) THEN "live" ELSE instances[q]]
    BY <2>1, <2>2, Starting
  <2>4. QED BY <1>1, <1>2, <2>1, <2>3, Declining DEF Typed, hostVars
<1>5. CASE ~ handler
  <2>1. Buffer(r) /\ UNCHANGED instances BY <1>5 DEF OnStart
  <2>2. r \notin ToSet(buffered) /\ NoRepeats(buffered) BY <1>3 DEF Sides, SideOf, OnItsWay
  <2> HIDE DEF r
  <2>3. PICK out \in Seq(Renders) :
           /\ buffered' \in Seq(Renders) /\ Len(buffered') <= Capacity
           /\ Decline(out) \/ (out = << >> /\ UNCHANGED <<toHost, declined>>)
    BY <1>3, <2>1, <2>2, Buffering
  <2>4. toHost' \in Seq(ToHost) /\ declined' \in SUBSET Renders BY <2>3, Declining DEF Typed
  <2>5. QED BY <1>1, <1>2, <2>1, <2>3, <2>4 DEF Typed, hostVars
<1>6. QED BY <1>4, <1>5 DEF Typed

LEMMA OnStopTyped ==
  ASSUME Typed, OnStop PROVE Typed'
<1>1. toProduct' \in Seq(ToProduct) BY HeadAndTail DEF OnStop, Typed
<1>2. buffered' \in Seq(Renders) /\ Len(buffered') <= Capacity
  BY Removed, BoundAssumption DEF OnStop, Typed
<1>3. instances' \in [Renders -> {"none", "live", "complete"}] BY DEF OnStop, Typed
<1>4. QED BY <1>1, <1>2, <1>3 DEF OnStop, Typed, hostVars

LEMMA SetHandlerTyped ==
  ASSUME Typed, SetHandler PROVE Typed'
<1>1. PICK refused \in Seq(Renders) : Decline(refused) /\ instances' = [q \in Renders |->
           IF q \in ToSet(buffered) \ ToSet(refused) THEN "live" ELSE instances[q]]
  BY Starting DEF SetHandler, Typed
<1>2. QED BY <1>1, Declining, BoundAssumption DEF SetHandler, Typed, hostVars

LEMMA DrawTyped ==
  ASSUME Typed, NEW r \in Renders, Draw(r) PROVE Typed'
<1>1. MaxTrees[r] \in Nat /\ drawn[r] \in Nat BY BoundAssumption DEF Typed
<1>2. drawn[r] + 1 \in 1 .. MaxTrees[r] BY <1>1 DEF Draw
<1>3. drawn[r] + 1 \in Trees BY <1>2 DEF Trees
<1>4. Says(r, drawn[r] + 1) \in ToHost BY <1>3, WordsAre
<1>5. QED BY <1>1, <1>4, SetOfAppended DEF Draw, Typed, hostVars

LEMMA GiveUpTyped ==
  ASSUME Typed, NEW r \in Renders, GiveUp(r) PROVE Typed'
<1>1. <<r>> \in Seq(Renders) OBVIOUS
<1>2. QED BY <1>1, Declining DEF GiveUp, Typed, hostVars

LEMMA RestTyped ==
  ASSUME Typed, UnsetHandler \/ CloseWithError \/ (\E r \in Renders : Complete(r)) PROVE Typed'
<1>1. CASE UnsetHandler BY <1>1 DEF UnsetHandler, Typed, hostVars
<1>2. CASE CloseWithError
  <2>1. << >> \in Seq(Renders) /\ Len(<< >>) <= Capacity BY BoundAssumption
  <2>2. QED BY <1>2, <2>1 DEF CloseWithError, Typed, hostVars
<1>3. CASE \E r \in Renders : Complete(r) BY <1>3 DEF Complete, Typed, hostVars
<1>4. QED BY <1>1, <1>2, <1>3

-----------------------------------------------------------------------------
(* The two sides.                                                          *)

LEMMA AskSides == ASSUME Typed, Sides, NEW r \in Renders, Ask(r) PROVE Sides'
<1>1. ASSUME NEW q \in Renders PROVE SideOf(q)'
  BY DEF Sides, Ask, Typed, productVars, SideOf, SlotOf, Untouched, OnItsWay, Held, Told, Has,
    Starts, Stops, Early
<1>2. QED BY <1>1 DEF Sides, Ask, productVars

LEMMA ReserveSides == ASSUME Typed, Sides, NEW r \in Renders, Reserve(r) PROVE Sides'
<1>1. ASSUME NEW q \in Renders PROVE SideOf(q)'
  BY DEF Sides, Reserve, Typed, productVars, SideOf, SlotOf, Untouched, OnItsWay, Held, Told, Has,
    Starts, Stops, Early
<1>2. QED BY <1>1 DEF Sides, Reserve, productVars

LEMMA SendStartSides == ASSUME Typed, Sides, NEW r \in Renders, SendStart(r) PROVE Sides'
<1>1. Frame("start", r) \in ToProduct BY FramesAre
<1>2. /\ manager = "open" => toProduct' = Append(toProduct, Frame("start", r))
                             /\ ToSet(toProduct') = ToSet(toProduct) \cup {Frame("start", r)}
      /\ manager # "open" => toProduct' = toProduct
  BY <1>1, Sending DEF SendStart
<1>3. Untouched(r) /\ (r \in active \/ manager = "closed")
  BY DEF Sides, SendStart, SideOf, SlotOf, Early
<1>4. Orderly(toProduct')
  <2>1. toProduct \in Seq(ToProduct) /\ Orderly(toProduct) BY DEF Typed, Sides
  <2>2. Frame("start", r) \notin ToSet(toProduct) /\ Frame("stop", r) \notin ToSet(toProduct)
    BY <1>3 DEF Untouched, Starts, Stops
  <2>3. Orderly(Append(toProduct, Frame("start", r))) BY <2>1, <2>2, OrderKept
  <2>4. QED BY <2>1, <2>3, <1>2
<1>5. ASSUME NEW q \in Renders PROVE SideOf(q)'
  <2>1. Starts(q)' <=> Starts(q) \/ (q = r /\ manager = "open") BY <1>2, FramesAre DEF Starts
  <2>2. Stops(q)' <=> Stops(q) BY <1>2, FramesAre DEF Stops
  <2> HIDE DEF Starts, Stops
  <2>3. QED
    BY <1>3, <2>1, <2>2
    DEF Sides, SendStart, Typed, productVars, SideOf, SlotOf, Untouched, OnItsWay, Held, Told,
      Has, Early
<1>6. QED BY <1>4, <1>5 DEF Sides, SendStart, productVars

LEMMA StopSides ==
  ASSUME Typed, Sides, NEW r \in Renders, Stop(r), stream[r] = "open",
         NEW phase \in {"spoilt", "dropped"}, stream' = [stream EXCEPT ![r] = phase],
         queue' \in [Renders -> Seq(Trees \cup {Interrupt})],
         \A q \in Renders \ {r} : queue'[q] = queue[q],
         Interrupt \in ToSet(queue'[r]) => Interrupt \in ToSet(queue[r]),
         UNCHANGED <<mode, manager, held, shown, productVars, toHost>>
  PROVE  Sides'
<1>1. /\ active' = active \ {r} /\ Orderly(toProduct')
      /\ ToSet(toProduct') = IF r \in active /\ manager = "open" THEN ToSet(toProduct) \cup {Frame("stop", r)}
                                ELSE ToSet(toProduct)
  BY Stopping DEF Sides
<1>2. ASSUME NEW q \in Renders PROVE SideOf(q)'
  <2>1. Starts(q)' <=> Starts(q) BY <1>1, FramesAre DEF Starts
  <2>2. Stops(q)' <=> Stops(q) \/ (q = r /\ r \in active /\ manager = "open") BY <1>1, FramesAre DEF Stops
  <2>3. QED
    BY <1>1, <2>1, <2>2
    DEF Sides, Typed, productVars, SideOf, SlotOf, Untouched, OnItsWay, Held, Told, Has, Early
<1>3. QED BY <1>1, <1>2 DEF Sides, productVars

LEMMA PollSides == ASSUME Typed, Sides, NEW r \in Renders, Poll(r) PROVE Sides'
<1>1. ASSUME PollTree(r) \/ PollInterrupt(r)
      PROVE  /\ queue' \in [Renders -> Seq(Trees \cup {Interrupt})]
             /\ \A q \in Renders \ {r} : queue'[q] = queue[q]
             /\ ToSet(queue[r]) = ToSet(queue'[r]) \cup {Head(queue[r])}
             /\ stream[r] = "open" /\ queue[r] # << >>
  <2>1. queue' = [queue EXCEPT ![r] = Tail(@)] /\ queue[r] # << >> /\ stream[r] = "open"
    BY <1>1 DEF PollTree, PollInterrupt
  <2>2. queue[r] \in Seq(Trees \cup {Interrupt}) BY DEF Typed
  <2>3. ToSet(queue[r]) = ToSet(Tail(queue[r])) \cup {Head(queue[r])} /\ Tail(queue[r]) \in Seq(Trees \cup {Interrupt})
    BY <2>1, <2>2, HeadAndTail
  <2>4. QED BY <2>1, <2>3 DEF Typed
<1>2. CASE PollTree(r)
  <2>1. Head(queue[r]) # Interrupt BY <1>2 DEF PollTree
  <2>2. CASE shown' = [shown EXCEPT ![r] = Append(@, Head(queue[r]))] /\ UNCHANGED <<active, stream, toProduct>>
    <3>1. ASSUME NEW q \in Renders PROVE SideOf(q)'
      <4>1. stream[r] \notin Early /\ (q = r \/ (queue'[q] = queue[q] /\ shown'[q] = shown[q]))
        BY <1>1, <1>2, <2>2 DEF Early
      <4>2. UNCHANGED <<mode, manager, held, productVars, toHost, active, stream, toProduct>>
        BY <1>2, <2>2 DEF PollTree
      <4>3. Interrupt \in ToSet(queue'[q]) <=> Interrupt \in ToSet(queue[q]) BY <1>1, <1>2, <2>1, <4>1
      <4>4. SideOf(q) BY DEF Sides
      <4>5. QED
        BY <4>1, <4>2, <4>3, <4>4
        DEF productVars, SideOf, SlotOf, Untouched, OnItsWay, Held, Told, Has, Starts, Stops
    <3>2. QED BY <1>2, <2>2, <3>1 DEF Sides, PollTree, productVars
  <2>3. CASE stream' = [stream EXCEPT ![r] = "spoilt"] /\ Stop(r) /\ UNCHANGED shown
    <3>1. UNCHANGED <<mode, manager, held, productVars, toHost>> BY <1>2 DEF PollTree
    <3>2. Interrupt \in ToSet(queue'[r]) => Interrupt \in ToSet(queue[r]) BY <1>1, <1>2
    <3>3. QED BY <1>1, <1>2, <2>3, <3>1, <3>2, StopSides
  <2>4. QED BY <1>2, <2>2, <2>3 DEF PollTree
<1>3. CASE PollInterrupt(r)
  <2>1. Head(queue[r]) = Interrupt BY <1>3 DEF PollInterrupt
  <2>2. ASSUME NEW q \in Renders PROVE SideOf(q)'
    BY <1>1, <1>3, <2>1
    DEF Sides, PollInterrupt, Typed, productVars, SideOf, SlotOf, Untouched, OnItsWay, Held, Told,
      Has, Starts, Stops, Early
  <2>3. QED BY <1>3, <2>2 DEF Sides, PollInterrupt, productVars
<1>4. CASE PollEnd(r)
  <2>1. ToSet(<< >>) = {} BY DEF ToSet
  <2>2. ASSUME NEW q \in Renders PROVE SideOf(q)'
    BY <1>4, <2>1
    DEF Sides, PollEnd, Typed, productVars, SideOf, SlotOf, Untouched, OnItsWay, Held, Told, Has,
      Starts, Stops, Early
  <2>3. QED BY <1>4, <2>2 DEF Sides, PollEnd, productVars
<1>5. QED BY <1>2, <1>3, <1>4 DEF Poll

LEMMA CancelSides == ASSUME Typed, Sides, NEW r \in Renders, Cancel(r) PROVE Sides'
<1>1. queue' \in [Renders -> Seq(Trees \cup {Interrupt})] BY DEF Typed, Cancel
<1>2. QED BY <1>1, StopSides DEF Cancel

LEMMA DisposeSides == ASSUME Typed, Sides, Dispose PROVE Sides'
<1>1. ASSUME NEW q \in Renders PROVE SideOf(q)'
  BY DEF Sides, Dispose, Typed, productVars, SideOf, SlotOf, Untouched, OnItsWay, Held, Told, Has,
    Starts, Stops, Early
<1>2. QED BY <1>1 DEF Sides, Dispose, productVars

LEMMA HandleSides == ASSUME Typed, Sides, HandleMessage PROVE Sides'
<1>1. PICK i \in DOMAIN toHost : Route(toHost[i]) /\ toHost' = RemoveAt(toHost, i) BY DEF HandleMessage
<1> DEFINE f == toHost[i]
           r == f.render
<1>2. f \in ToHost /\ ToSet(toHost) = ToSet(toHost') \cup {f} BY <1>1, Removed DEF Typed
<1>3. r \in Renders /\ f.value \in Trees \cup {Interrupt} /\ f = Says(r, f.value) BY <1>2, WordsAre
<1>4. UNCHANGED <<mode, manager, stream, shown, productVars, toProduct>> BY DEF HandleMessage
<1>5. stream[r] \notin Early /\ f \in ToSet(toHost) BY <1>2, <1>3 DEF Sides, SideOf, SlotOf, Untouched
<1>6. \A q, value : Says(q, value) = f => q = r /\ value = f.value BY <1>3, WordsAre
<1>7. \A e \in Trees \cup {Interrupt} : ToSet(Append(queue[r], e)) = ToSet(queue[r]) \cup {e}
  <2>1. queue[r] \in Seq(Trees \cup {Interrupt}) BY <1>3 DEF Typed
  <2>2. QED BY <2>1, SetOfAppended
<1> HIDE DEF f, r
<1>8. CASE manager # "open" \/ r \notin active
  <2>1. UNCHANGED <<active, queue, held>> BY <1>1, <1>8 DEF Route, f, r
  <2>2. ASSUME NEW q \in Renders PROVE SideOf(q)'
    BY <1>2, <1>3, <1>4, <1>5, <1>6, <1>8, <2>1
    DEF Sides, Typed, productVars, SideOf, SlotOf, Untouched, OnItsWay, Held, Told, Has, Starts,
      Stops, Early
  <2>3. QED BY <1>4, <2>1, <2>2 DEF Sides, productVars
<1>9. CASE manager = "open" /\ r \in active /\ f.value = Interrupt
  <2>1. queue' = [queue EXCEPT ![r] = Append(@, Interrupt)] /\ active' = active \ {r} /\ held' = held
    BY <1>1, <1>9 DEF Route, f, r
  <2>2. r \in declined /\ ~ Has(r) /\ ~ Starts(r) BY <1>3, <1>5, <1>9 DEF Sides, SideOf, Told, Held, OnItsWay
  <2>3. ToSet(toHost') \subseteq ToSet(toHost) BY <1>2
  <2>4. ASSUME NEW q \in Renders, q # r PROVE SideOf(q)'
    <3>1. queue'[q] = queue[q] /\ (q \in active' <=> q \in active) BY <2>1, <2>4 DEF Typed
    <3>2. Says(q, Interrupt) \in ToSet(toHost') <=> Says(q, Interrupt) \in ToSet(toHost)
      BY <1>2, <1>6, <2>4
    <3>3. SideOf(q) BY DEF Sides
    <3>4. QED
      BY <1>4, <2>1, <2>3, <3>1, <3>2, <3>3
      DEF productVars, SideOf, SlotOf, Untouched, OnItsWay, Held, Told, Has, Starts, Stops, Early
  <2>5. ASSUME NEW q \in Renders, q = r PROVE SideOf(q)'
    <3>1. q \notin active' /\ Interrupt \in ToSet(queue'[q]) /\ manager' = "open"
      BY <1>3, <1>4, <1>7, <1>9, <2>1, <2>5 DEF Typed
    <3>2. SideOf(q) /\ stream'[q] \notin Early /\ stream'[q] = stream[q]
      BY <1>4, <1>5, <2>5 DEF Sides
    <3>3. q \in declined /\ ~ Has(q) /\ ~ Starts(q) BY <2>2, <2>5
    <3>4. SlotOf(q)' BY <3>1, <3>2 DEF SlotOf, Early
    <3>5. OnItsWay(q)' /\ Held(q)'
      BY <1>4, <3>1, <3>3 DEF productVars, OnItsWay, Held, Has, Starts, Stops
    <3>6. Told(q)'
      BY <1>4, <3>1, <3>2, <3>3 DEF productVars, SideOf, Told
    <3>7. QED BY <3>4, <3>5, <3>6 DEF SideOf
  <2>6. \A h \in held : h.value # Interrupt BY DEF Sides
  <2>7. \A q \in Renders : SideOf(q)' BY <2>4, <2>5
  <2>8. QED BY <1>4, <2>1, <2>6, <2>7 DEF Sides, productVars
<1>10. CASE manager = "open" /\ r \in active /\ f.value # Interrupt
  <2>1. /\ active' = active
        /\ \/ held' = held \cup {f} /\ queue' = queue
           \/ queue' = [queue EXCEPT ![r] = Append(@, f.value)] /\ held' = held
    BY <1>1, <1>10 DEF Route, f, r
  <2>2. ASSUME NEW q \in Renders PROVE SideOf(q)'
    <3>1. CASE held' = held \cup {f} /\ queue' = queue
      BY <1>2, <1>3, <1>4, <1>5, <1>6, <1>10, <2>1, <3>1
      DEF Sides, Typed, productVars, r, SideOf, SlotOf, Untouched, OnItsWay, Held, Told, Has,
        Starts, Stops, Early
    <3>2. CASE queue' = [queue EXCEPT ![r] = Append(@, f.value)] /\ held' = held
      <4>1. Interrupt \in ToSet(queue'[q]) <=> Interrupt \in ToSet(queue[q])
        BY <1>3, <1>7, <1>10, <3>2 DEF Typed
      <4>2. queue'[q] = queue[q] \/ q = r BY <3>2 DEF Typed
      <4>3. Says(q, Interrupt) \in ToSet(toHost) => Says(q, Interrupt) \in ToSet(toHost')
        BY <1>2, <1>6, <1>10
      <4>4. ToSet(toHost') \subseteq ToSet(toHost) BY <1>2
      <4>5. QED
        BY <1>4, <1>5, <2>1, <3>2, <4>1, <4>2, <4>3, <4>4
        DEF Sides, productVars, SideOf, SlotOf, Untouched, OnItsWay, Held, Told, Has, Starts,
          Stops, Early
    <3>3. QED BY <2>1, <3>1, <3>2
  <2>3. QED BY <1>4, <1>10, <2>1, <2>2 DEF Sides, productVars
<1>11. QED BY <1>8, <1>9, <1>10

LEMMA EnqueueSides == ASSUME Typed, Sides, NEW h \in held, Enqueue(h) PROVE Sides'
<1> DEFINE r == h.render
<1>1. r \in Renders /\ h.value \in Trees \cup {Interrupt} BY WordsAre DEF Typed
<1>2. stream[r] \notin Early BY <1>1 DEF Sides, SideOf, SlotOf, Untouched
<1>3. ToSet(Append(queue[r], h.value)) = ToSet(queue[r]) \cup {h.value}
  <2>1. queue[r] \in Seq(Trees \cup {Interrupt}) BY <1>1 DEF Typed
  <2>2. QED BY <1>1, <2>1, SetOfAppended
<1>4. queue' = [queue EXCEPT ![r] = Append(@, h.value)] /\ held' = held \ {h}
      /\ UNCHANGED <<mode, manager, active, stream, shown, productVars, toProduct, toHost>>
  BY DEF Enqueue
<1> HIDE DEF r
<1>5. ASSUME NEW q \in Renders PROVE SideOf(q)'
  BY <1>1, <1>2, <1>3, <1>4
  DEF Sides, Typed, productVars, SideOf, SlotOf, Untouched, OnItsWay, Held, Told, Has, Starts,
    Stops, Early
<1>6. QED BY <1>4, <1>5 DEF Sides, productVars

\* What a product that declines leaves of a rendering.
LEMMA Declined ==
  ASSUME Typed, NEW rs \in Seq(Renders), Decline(rs)
  PROVE  /\ \A q \in Renders : q \in declined' <=> q \in declined \/ q \in ToSet(rs)
         /\ \A q \in Renders : Says(q, Interrupt) \in ToSet(toHost')
                               <=> Says(q, Interrupt) \in ToSet(toHost) \/ q \in ToSet(rs)
         /\ \A q \in Renders : q \notin ToSet(rs) /\ (\A m \in ToSet(toHost) : m.render # q)
                               => \A m \in ToSet(toHost') : m.render # q
<1>1. /\ declined' = declined \cup ToSet(rs)
      /\ ToSet(toHost') = ToSet(toHost) \cup {Says(r, Interrupt) : r \in ToSet(rs)}
  BY Declining
<1>2. QED BY <1>1, WordsAre

LEMMA OnStartSides == ASSUME Typed, Sides, OnStart PROVE Sides'
<1> DEFINE r == Head(toProduct).render
<1>1. /\ toProduct # << >> /\ Head(toProduct).kind = "start" /\ toProduct' = Tail(toProduct)
      /\ UNCHANGED <<mode, hostVars, client, handler, drawn>>
  BY DEF OnStart
<1>2. /\ ~ (Frame("start", r) \in ToSet(toProduct')) /\ Head(toProduct) \in ToProduct
      /\ ToSet(toProduct) = ToSet(toProduct') \cup {Head(toProduct)} /\ Orderly(toProduct')
  BY <1>1, OldestFrame DEF Typed, Sides
<1>3. r \in Renders /\ Head(toProduct) = Frame("start", r) BY <1>1, <1>2, FramesAre
<1>4. /\ \A q \in Renders : Starts(q)' <=> Starts(q) /\ q # r
      /\ \A q \in Renders : Stops(q)' <=> Stops(q)
      /\ Starts(r)
  BY <1>2, <1>3, FramesAre DEF Starts, Stops
<1>5. r \notin ToSet(buffered) /\ NoRepeats(buffered) /\ instances[r] = "none" /\ stream[r] \notin Early
  BY <1>3, <1>4 DEF Sides, SideOf, OnItsWay, SlotOf, Untouched
<1> HIDE DEF r
<1>6. CASE handler
  <2>1. StartAll(<<r>>) /\ UNCHANGED buffered BY <1>6 DEF OnStart, r
  <2>2. <<r>> \in Seq(Renders) /\ ToSet(<<r>>) = {r} BY <1>3 DEF ToSet
  <2>3. PICK refused \in Seq(Renders) :
          /\ ToSet(refused) \subseteq ToSet(<<r>>) /\ Decline(refused)
          /\ instances' = [q \in Renders |->
               IF q \in ToSet(<<r>>) \ ToSet(refused) THEN "live" ELSE instances[q]]
    BY <2>1, <2>2, Starting
  <2>4. ASSUME NEW q \in Renders PROVE SideOf(q)'
    <3>1. (Starts(q)' <=> Starts(q) /\ q # r) /\ (Stops(q)' <=> Stops(q)) BY <1>4
    <3>2. /\ instances'[q] = IF q = r /\ r \notin ToSet(refused) THEN "live" ELSE instances[q]
          /\ q \in ToSet(refused) => q = r
      BY <2>2, <2>3
    <3>3. /\ q \in declined' <=> q \in declined \/ q \in ToSet(refused)
          /\ Says(q, Interrupt) \in ToSet(toHost') <=> Says(q, Interrupt) \in ToSet(toHost) \/ q \in ToSet(refused)
          /\ q \notin ToSet(refused) /\ (\A m \in ToSet(toHost) : m.render # q)
               => \A m \in ToSet(toHost') : m.render # q
      BY <2>3, Declined
    <3>4. QED
      BY <1>1, <1>4, <1>5, <2>1, <3>1, <3>2, <3>3
      DEF Sides, hostVars, SideOf, SlotOf, Untouched, OnItsWay, Held, Told, Has, Early
  <2>5. QED BY <1>1, <1>2, <1>5, <2>1, <2>4 DEF Sides, hostVars
<1>7. CASE ~ handler
  <2>1. Buffer(r) /\ UNCHANGED instances BY <1>7 DEF OnStart, r
  <2>2. PICK out \in Seq(Renders) :
           /\ NoRepeats(buffered')
           /\ Decline(out) \/ (out = << >> /\ UNCHANGED <<toHost, declined>>)
           /\ ToSet(out) \subseteq ToSet(buffered)
           /\ ToSet(buffered') = (ToSet(buffered) \ ToSet(out)) \cup {r}
    BY <1>3, <1>5, <2>1, Buffering
  <2>3. ToSet(<< >>) = {} BY DEF ToSet
  <2>4. /\ \A q \in Renders : q \in declined' <=> q \in declined \/ q \in ToSet(out)
        /\ \A q \in Renders : Says(q, Interrupt) \in ToSet(toHost')
                               <=> Says(q, Interrupt) \in ToSet(toHost) \/ q \in ToSet(out)
        /\ \A q \in Renders : q \notin ToSet(out) /\ (\A m \in ToSet(toHost) : m.render # q)
                               => \A m \in ToSet(toHost') : m.render # q
    BY <2>2, <2>3, Declined
  <2>5. ASSUME NEW q \in Renders PROVE SideOf(q)'
    <3>1. (Starts(q)' <=> Starts(q) /\ q # r) /\ (Stops(q)' <=> Stops(q)) BY <1>4
    <3>2. /\ q \in ToSet(buffered') <=> (q \in ToSet(buffered) /\ q \notin ToSet(out)) \/ q = r
          /\ q \in ToSet(out) => q \in ToSet(buffered)
      BY <2>2
    <3>3. /\ q \in declined' <=> q \in declined \/ q \in ToSet(out)
          /\ Says(q, Interrupt) \in ToSet(toHost') <=> Says(q, Interrupt) \in ToSet(toHost) \/ q \in ToSet(out)
          /\ q \notin ToSet(out) /\ (\A m \in ToSet(toHost) : m.render # q)
               => \A m \in ToSet(toHost') : m.render # q
      BY <2>4
    <3>4. QED
      BY <1>1, <1>4, <1>5, <2>1, <3>1, <3>2, <3>3
      DEF Sides, hostVars, SideOf, SlotOf, Untouched, OnItsWay, Held, Told, Has, Early
  <2>6. QED BY <1>1, <1>2, <2>2, <2>5 DEF Sides, hostVars
<1>8. QED BY <1>6, <1>7

LEMMA OnStopSides == ASSUME Typed, Sides, OnStop PROVE Sides'
<1> DEFINE r == Head(toProduct).render
<1>1. /\ toProduct # << >> /\ Head(toProduct).kind = "stop" /\ toProduct' = Tail(toProduct)
      /\ UNCHANGED <<mode, hostVars, client, handler, drawn, declined, toHost>>
      /\ instances' = [instances EXCEPT ![r] = "none"]
  BY DEF OnStop
<1>2. /\ ~ (Frame("start", r) \in ToSet(toProduct')) /\ Head(toProduct) \in ToProduct
      /\ ToSet(toProduct) = ToSet(toProduct') \cup {Head(toProduct)} /\ Orderly(toProduct')
  BY <1>1, OldestFrame DEF Typed, Sides
<1>3. r \in Renders /\ Head(toProduct) = Frame("stop", r) BY <1>1, <1>2, FramesAre
<1>4. /\ \A q \in Renders : Starts(q)' <=> Starts(q)
      /\ \A q \in Renders \ {r} : Stops(q)' <=> Stops(q)
      /\ Stops(r) /\ ~ Starts(r) /\ (Stops(r)' => Stops(r))
  BY <1>2, <1>3, FramesAre DEF Starts, Stops
<1>5. NoRepeats(buffered') /\ ToSet(buffered') = ToSet(buffered) \ {r}
  <2>1. \/ r \notin ToSet(buffered) /\ UNCHANGED buffered
        \/ \E i \in DOMAIN buffered : buffered[i] = r /\ buffered' = RemoveAt(buffered, i)
    BY DEF OnStop
  <2>2. buffered \in Seq(Renders) /\ NoRepeats(buffered) BY DEF Typed, Sides
  <2>3. QED BY <2>1, <2>2, Removed, RepeatsKept
<1> HIDE DEF r
<1>6. ASSUME NEW q \in Renders PROVE SideOf(q)'
  <2>1. (Starts(q)' <=> Starts(q)) /\ (q # r => (Stops(q)' <=> Stops(q))) /\ (Stops(q)' => Stops(q)) BY <1>4
  <2>2. instances'[q] = IF q = r THEN "none" ELSE instances[q] BY <1>1 DEF Typed
  <2>3. q \in ToSet(buffered') <=> q \in ToSet(buffered) /\ q # r BY <1>5
  <2>4. QED
    BY <1>1, <1>4, <2>1, <2>2, <2>3
    DEF Sides, hostVars, SideOf, SlotOf, Untouched, OnItsWay, Held, Told, Has, Early
<1>7. QED BY <1>1, <1>2, <1>5, <1>6 DEF Sides, hostVars

LEMMA SetHandlerSides == ASSUME Typed, Sides, SetHandler PROVE Sides'
<1>1. PICK refused \in Seq(Renders) :
        /\ ToSet(refused) \subseteq ToSet(buffered) /\ Decline(refused)
        /\ instances' = [q \in Renders |->
             IF q \in ToSet(buffered) \ ToSet(refused) THEN "live" ELSE instances[q]]
  BY Starting DEF SetHandler, Typed
<1>2. buffered' = << >> /\ ToSet(<< >>) = {} /\ NoRepeats(<< >>)
      /\ UNCHANGED <<mode, hostVars, client, drawn, toProduct>>
  BY DEF SetHandler, ToSet, NoRepeats
<1>3. \A q \in Renders : (Starts(q)' <=> Starts(q)) /\ (Stops(q)' <=> Stops(q)) BY <1>2 DEF Starts, Stops
<1>4. ASSUME NEW q \in Renders PROVE SideOf(q)'
  BY <1>1, <1>2, <1>3, Declined
  DEF Sides, Typed, hostVars, SideOf, SlotOf, Untouched, OnItsWay, Held, Told, Has, Early
<1>5. QED BY <1>2, <1>4 DEF Sides, hostVars

LEMMA DrawSides == ASSUME Typed, Sides, NEW r \in Renders, Draw(r) PROVE Sides'
<1>1. drawn[r] \in Nat BY DEF Typed
<1>2. drawn[r] + 1 \in 1 .. MaxTrees[r] /\ drawn[r] + 1 # Interrupt BY <1>1, BoundAssumption DEF Draw, Interrupt
<1>3. Says(r, drawn[r] + 1) \in ToHost BY <1>2, WordsAre DEF Trees
<1>4. ToSet(toHost') = ToSet(toHost) \cup {Says(r, drawn[r] + 1)} BY <1>3, SetOfAppended DEF Draw, Typed
<1>5. \A q \in Renders : Says(q, Interrupt) # Says(r, drawn[r] + 1) BY <1>2, WordsAre
<1>6. Says(r, drawn[r] + 1).render = r BY WordsAre
<1>7. ASSUME NEW q \in Renders PROVE SideOf(q)'
  BY <1>4, <1>5, <1>6
  DEF Sides, Draw, Typed, hostVars, SideOf, SlotOf, Untouched, OnItsWay, Held, Told, Has, Starts,
    Stops, Early
<1>8. QED BY <1>7 DEF Sides, Draw, hostVars

LEMMA GiveUpSides == ASSUME Typed, Sides, NEW r \in Renders, GiveUp(r) PROVE Sides'
<1>1. <<r>> \in Seq(Renders) /\ ToSet(<<r>>) = {r} BY DEF ToSet
<1>2. instances[r] = "live" /\ Decline(<<r>>) /\ instances' = [instances EXCEPT ![r] = "none"]
      /\ UNCHANGED <<mode, hostVars, client, handler, buffered, drawn, toProduct>>
  BY DEF GiveUp
<1>3. ASSUME NEW q \in Renders PROVE SideOf(q)'
  <2>1. (Starts(q)' <=> Starts(q)) /\ (Stops(q)' <=> Stops(q)) BY <1>2 DEF Starts, Stops
  <2>2. instances'[q] = IF q = r THEN "none" ELSE instances[q] BY <1>2 DEF Typed
  <2>3. /\ q \in declined' <=> q \in declined \/ q = r
        /\ Says(q, Interrupt) \in ToSet(toHost') <=> Says(q, Interrupt) \in ToSet(toHost) \/ q = r
        /\ q # r /\ (\A m \in ToSet(toHost) : m.render # q) => \A m \in ToSet(toHost') : m.render # q
    BY <1>1, <1>2, Declined
  <2>4. QED
    BY <1>2, <2>1, <2>2, <2>3
    DEF Sides, hostVars, SideOf, SlotOf, Untouched, OnItsWay, Held, Told, Has, Early
<1>4. QED BY <1>2, <1>3 DEF Sides, hostVars

LEMMA RestSides ==
  ASSUME Typed, Sides, UnsetHandler \/ CloseWithError \/ (\E r \in Renders : Complete(r)) PROVE Sides'
<1>1. ToSet(<< >>) = {} /\ NoRepeats(<< >>) BY DEF ToSet, NoRepeats
<1>2. ASSUME NEW q \in Renders PROVE SideOf(q)'
  <2>1. CASE UnsetHandler
    BY <2>1
    DEF Sides, UnsetHandler, Typed, hostVars, SideOf, SlotOf, Untouched, OnItsWay, Held, Told, Has,
      Starts, Stops, Early
  <2>2. CASE CloseWithError
    BY <1>1, <2>2
    DEF Sides, CloseWithError, Typed, hostVars, SideOf, SlotOf, Untouched, OnItsWay, Held, Told, Has,
      Starts, Stops, Early
  <2>3. CASE \E r \in Renders : Complete(r)
    BY <2>3
    DEF Sides, Complete, Typed, hostVars, SideOf, SlotOf, Untouched, OnItsWay, Held, Told, Has,
      Starts, Stops, Early
  <2>4. QED BY <2>1, <2>2, <2>3
<1>3. QED BY <1>1, <1>2 DEF Sides, UnsetHandler, CloseWithError, Complete, hostVars

-----------------------------------------------------------------------------
(* The order of the trees.                                                 *)

LEMMA Sums == \A m, n \in Nat : m + n \in Nat /\ m + (n + 1) = (m + n) + 1
OBVIOUS

LEMMA Lengths ==
  ASSUME Typed
  PROVE  /\ \A q \in Renders : Len(shown[q]) \in Nat /\ Len(queue[q]) \in Nat /\ drawn[q] \in Nat /\ Reached(q) \in Nat
         /\ \A q \in Renders : DOMAIN shown[q] = 1 .. Len(shown[q]) /\ DOMAIN queue[q] = 1 .. Len(queue[q])
         /\ DOMAIN toHost = 1 .. Len(toHost) /\ Len(toHost) \in Nat
         /\ \A i \in DOMAIN toHost : toHost[i] \in ToHost /\ toHost[i] \in ToSet(toHost) /\ toHost[i].value \in Nat
<1>1. \A q \in Renders : shown[q] \in Seq(Trees) /\ queue[q] \in Seq(Trees \cup {Interrupt}) /\ drawn[q] \in Nat
  BY DEF Typed
<1>2. toHost \in Seq(ToHost) BY DEF Typed
<1>3. \A m \in ToHost : m.value \in Nat
  <2>1. Trees \cup {Interrupt} \subseteq Nat BY TreesAre DEF Interrupt
  <2>2. QED BY <2>1, WordsAre
<1>a. \A q \in Renders : Len(shown[q]) \in Nat /\ Len(queue[q]) \in Nat BY <1>1
<1>4. \A q \in Renders : Len(shown[q]) \in Nat /\ Len(queue[q]) \in Nat /\ Reached(q) \in Nat
  BY <1>a, Sums, Zenon DEF Reached
<1>5. \A i \in DOMAIN toHost : toHost[i] \in ToHost /\ toHost[i] \in ToSet(toHost) BY <1>2 DEF ToSet
<1>6. \A q \in Renders : DOMAIN shown[q] = 1 .. Len(shown[q]) /\ DOMAIN queue[q] = 1 .. Len(queue[q]) BY <1>1
<1>7. DOMAIN toHost = 1 .. Len(toHost) /\ Len(toHost) \in Nat BY <1>2
<1>8. QED BY <1>1, <1>3, <1>4, <1>5, <1>6, <1>7

\* Steps that leave what was drawn where it is.
LEMMA CalmOrder ==
  ASSUME Typed, Sides, InOrder, UNCHANGED <<mode, held, shown, queue, toHost, drawn>>,
         \A q \in Renders : q \in active' => q \in active \/ Untouched(q),
         manager' = "open" => manager = "open",
         \A q \in Renders : stream'[q] = "open" => stream[q] = "open" \/ Untouched(q)
  PROVE  InOrder'
<1>1. SUFFICES ASSUME mode = "ordered", NEW q \in Renders PROVE Counted(q)'
  BY DEF InOrder
<1>2. Counted(q) BY <1>1 DEF InOrder
<1>3. CASE Untouched(q)
  <2>1. queue[q] = << >> /\ shown[q] = << >> /\ drawn[q] = 0 /\ \A m \in ToSet(toHost) : m.render # q
    BY <1>3 DEF Untouched
  <2>2. \A i \in DOMAIN toHost : ~ IsTree(q, toHost[i]) BY <2>1, Lengths DEF IsTree
  <2>3. Reached(q) = 0 BY <2>1 DEF Reached
  <2>4. Reached(q)' = 0 BY <2>1 DEF Reached
  <2>5. QED BY <1>2, <2>1, <2>2, <2>3, <2>4 DEF Counted, IsTree
<1>4. CASE ~ Untouched(q)
  <2>1. Reached(q)' = Reached(q) BY DEF Reached
  <2>2. QED BY <1>2, <1>4, <2>1 DEF Counted, IsTree
<1>5. QED BY <1>3, <1>4

LEMMA DecliningOrder ==
  ASSUME Typed, InOrder, NEW rs \in Seq(Renders), Decline(rs), UNCHANGED <<mode, hostVars, drawn>>
  PROVE  InOrder'
<1>1. SUFFICES ASSUME mode = "ordered", NEW q \in Renders PROVE Counted(q)'
  BY DEF InOrder, hostVars
<1>2. Counted(q) BY <1>1 DEF InOrder
<1>3. /\ \A i \in DOMAIN toHost : i \in DOMAIN toHost' /\ toHost'[i] = toHost[i]
      /\ \A i \in DOMAIN toHost' : i \notin DOMAIN toHost => toHost'[i].value = Interrupt
      /\ ToSet(toHost) \subseteq ToSet(toHost')
  BY Declining
<1>4. \A i \in DOMAIN toHost' : IsTree(q, toHost'[i]) => i \in DOMAIN toHost /\ toHost'[i] = toHost[i]
  BY <1>3 DEF IsTree
<1>5. Reached(q)' = Reached(q) BY DEF Reached, hostVars
<1>6. QED BY <1>2, <1>3, <1>4, <1>5 DEF Counted, IsTree, hostVars

LEMMA DrawOrder ==
  ASSUME Typed, InOrder, NEW r \in Renders, Draw(r)
  PROVE  InOrder'
<1>1. SUFFICES ASSUME mode = "ordered", NEW q \in Renders PROVE Counted(q)'
  BY DEF InOrder, Draw, hostVars
<1>2. Counted(q) BY <1>1 DEF InOrder
<1> DEFINE d == drawn[r] + 1
           last == Len(toHost) + 1
<1>3. drawn[r] \in Nat /\ d \in 1 .. MaxTrees[r]
  <2>1. drawn[r] \in Nat /\ MaxTrees[r] \in Nat /\ drawn[r] < MaxTrees[r] BY BoundAssumption DEF Draw, Typed
  <2>2. QED BY <2>1
<1>4. Says(r, d) \in ToHost /\ Says(r, d).render = r /\ Says(r, d).value = d BY <1>3, WordsAre DEF Trees
<1>5. toHost' = Append(toHost, Says(r, d)) /\ drawn' = [drawn EXCEPT ![r] = d] /\ UNCHANGED hostVars BY DEF Draw
<1> HIDE DEF d
<1>6. /\ ToSet(toHost') = ToSet(toHost) \cup {Says(r, d)}
      /\ DOMAIN toHost' = DOMAIN toHost \cup {last} /\ toHost'[last] = Says(r, d)
      /\ \A i \in DOMAIN toHost : toHost'[i] = toHost[i] /\ i < last
      /\ last \in Nat /\ \A i \in DOMAIN toHost : i \in Nat
  <2>1. toHost \in Seq(ToHost) BY DEF Typed
  <2>2. DOMAIN toHost' = DOMAIN toHost \cup {last} /\ toHost'[last] = Says(r, d) BY <1>4, <1>5, <2>1
  <2>3. \A i \in DOMAIN toHost : toHost'[i] = toHost[i] /\ i < last BY <1>4, <1>5, <2>1
  <2>4. QED BY <1>4, <1>5, <2>1, <2>2, <2>3, SetOfAppended
<1>7. Reached(q)' = Reached(q) BY <1>5 DEF Reached, hostVars
<1> HIDE DEF last
<1>8. CASE q # r
  <2>1. drawn'[q] = drawn[q] BY <1>5, <1>8 DEF Typed
  <2>2. \A i \in DOMAIN toHost' : IsTree(q, toHost'[i]) => i \in DOMAIN toHost /\ toHost'[i] = toHost[i]
    BY <1>4, <1>6, <1>8 DEF IsTree
  <2>3. QED BY <1>2, <1>5, <1>6, <1>7, <2>1, <2>2 DEF Counted, IsTree, hostVars
<1>9. CASE q = r
  <2>1. drawn'[q] = d /\ d = drawn[q] + 1 BY <1>5, <1>9 DEF Typed, d
  <2>2. \A i \in DOMAIN toHost : toHost[i].value \in Nat BY Lengths
  <2>3. \A i \in DOMAIN toHost' : IsTree(q, toHost'[i]) => toHost'[i].value <= drawn'[q]
    BY <1>2, <1>3, <1>4, <1>6, <1>9, <2>1, <2>2 DEF Counted, IsTree
  <2>4. ASSUME NEW i \in DOMAIN toHost', NEW j \in DOMAIN toHost',
               IsTree(q, toHost'[i]), IsTree(q, toHost'[j]), i < j
        PROVE  toHost'[i].value < toHost'[j].value
    <3>1. i \in DOMAIN toHost BY <1>6, <2>4
    <3>2. CASE j = last
      <4>1. toHost'[i] = toHost[i] /\ toHost[i].value <= drawn[q] BY <1>2, <1>6, <2>4, <3>1 DEF Counted
      <4>2. toHost'[j].value = drawn[q] + 1 BY <1>4, <1>6, <2>1, <3>2
      <4>3. QED BY <4>1, <4>2, <2>2, <3>1, <1>3, <1>9
    <3>3. CASE j \in DOMAIN toHost BY <1>2, <1>6, <2>4, <3>1, <3>3 DEF Counted
    <3>4. QED BY <1>6, <3>2, <3>3
  <2>5. ASSUME q \in active', manager' = "open"
        PROVE  /\ Reached(q)' <= drawn'[q]
               /\ \A i \in DOMAIN toHost' : IsTree(q, toHost'[i]) => toHost'[i].value > Reached(q)'
               /\ \A v \in Reached(q)' + 1 .. drawn'[q] : Says(q, v) \in ToSet(toHost')
    <3>1. /\ Reached(q) <= drawn[q]
          /\ \A i \in DOMAIN toHost : IsTree(q, toHost[i]) => toHost[i].value > Reached(q)
          /\ \A v \in Reached(q) + 1 .. drawn[q] : Says(q, v) \in ToSet(toHost)
      BY <1>2, <1>5, <2>5 DEF Counted, hostVars
    <3>2. Reached(q) \in Nat BY Lengths
    <3>3. \A v \in Reached(q) + 1 .. d : v = d \/ v \in Reached(q) + 1 .. drawn[q] BY <2>1, <3>2, <1>3, <1>9
    <3>4. \A i \in DOMAIN toHost' : IsTree(q, toHost'[i]) => toHost'[i].value > Reached(q)
      BY <1>3, <1>4, <1>6, <1>9, <2>1, <3>1, <3>2 DEF IsTree
    <3>5. \A v \in Reached(q) + 1 .. d : Says(q, v) \in ToSet(toHost') BY <1>6, <1>9, <3>1, <3>3
    <3>6. Reached(q) <= d BY <2>1, <3>1, <3>2, <1>3, <1>9
    <3>7. QED BY <1>7, <2>1, <3>4, <3>5, <3>6
  <2>6. shown'[q] = shown[q] /\ queue'[q] = queue[q] /\ stream'[q] = stream[q] BY <1>5 DEF hostVars
  <2>7. QED BY <1>2, <2>3, <2>4, <2>5, <2>6 DEF Counted
<1>10. QED BY <1>8, <1>9

LEMMA NextTree ==
  ASSUME Typed, NEW r \in Renders, Counted(r), r \in active, manager = "open", toHost # << >>, IsTree(r, toHost[1])
  PROVE  toHost[1].value = Reached(r) + 1
<1>1. 1 \in DOMAIN toHost /\ \A i \in DOMAIN toHost : i = 1 \/ 1 < i BY DEF Typed
<1>2. toHost[1].value > Reached(r) /\ toHost[1].value <= drawn[r] BY <1>1 DEF Counted
<1>3. Reached(r) \in Nat /\ toHost[1].value \in Nat /\ drawn[r] \in Nat BY <1>1, Lengths
<1>4. Reached(r) + 1 \in Reached(r) + 1 .. drawn[r] BY <1>2, <1>3
<1>5. Says(r, Reached(r) + 1) \in ToSet(toHost) BY <1>4 DEF Counted
<1>6. PICK j \in DOMAIN toHost : toHost[j] = Says(r, Reached(r) + 1) BY <1>5 DEF ToSet
<1>7. toHost[j].value = Reached(r) + 1 /\ IsTree(r, toHost[j])
  BY <1>3, <1>6, WordsAre DEF IsTree, Interrupt
<1>8. j # 1 => toHost[1].value < toHost[j].value BY <1>1, <1>7 DEF Counted
<1>9. QED BY <1>2, <1>3, <1>7, <1>8

LEMMA HandleOrder == ASSUME Typed, Sides, InOrder, HandleMessage PROVE InOrder'
<1>1. SUFFICES ASSUME mode = "ordered" PROVE held' = {} /\ \A q \in Renders : Counted(q)'
  BY DEF InOrder, HandleMessage
<1>2. PICK i \in DOMAIN toHost : i = 1 /\ Route(toHost[i]) /\ toHost' = RemoveAt(toHost, i) BY <1>1 DEF HandleMessage
<1> DEFINE f == toHost[1]
           r == f.render
<1>3. Route(f) /\ toHost' = RemoveAt(toHost, 1) /\ 1 \in DOMAIN toHost BY <1>2
<1>4. /\ toHost # << >> /\ f \in ToHost /\ ToSet(toHost) = ToSet(toHost') \cup {f}
      /\ \A j \in DOMAIN toHost' : toHost'[j] = toHost[j + 1] /\ j + 1 \in DOMAIN toHost /\ j \in Nat /\ 1 < j + 1
  <2>1. toHost \in Seq(ToHost) BY DEF Typed
  <2>2. /\ RemoveAt(toHost, 1) \in Seq(ToHost)
        /\ \A j \in DOMAIN RemoveAt(toHost, 1) :
             /\ RemoveAt(toHost, 1)[j] = toHost[IF j < 1 THEN j ELSE j + 1]
             /\ (IF j < 1 THEN j ELSE j + 1) \in DOMAIN toHost \ {1}
        /\ ToSet(toHost) = ToSet(RemoveAt(toHost, 1)) \cup {f}
    BY <1>3, <2>1, Removed
  <2>3. \A j \in DOMAIN RemoveAt(toHost, 1) : j \in Nat /\ ~ (j < 1) BY <2>2
  <2>4. QED BY <1>3, <2>1, <2>2, <2>3
<1>5. r \in Renders /\ f.value \in Trees \cup {Interrupt} /\ f = Says(r, f.value) BY <1>4, WordsAre
<1>6. UNCHANGED <<mode, manager, stream, shown, productVars, toProduct>> BY DEF HandleMessage
<1>7. \A q \in Renders : Counted(q) BY <1>1 DEF InOrder
<1>8. held = {} BY <1>1 DEF InOrder
<1>9. \A q, value : Says(q, value) = f => q = r /\ value = f.value BY <1>5, WordsAre
<1>10. f.value = Interrupt \/ IsTree(r, f) BY DEF IsTree
<1>11. IsTree(r, f) /\ r \in active /\ manager = "open" => f.value = Reached(r) + 1 BY <1>4, <1>5, <1>7, NextTree
<1> HIDE DEF f, r
\* What holds of the frames that are left, whatever became of the first.
<1>12. ASSUME NEW q \in Renders
       PROVE  /\ \A j \in DOMAIN toHost' : IsTree(q, toHost'[j]) => toHost'[j].value <= drawn[q]
              /\ \A j, k \in DOMAIN toHost' :
                   IsTree(q, toHost'[j]) /\ IsTree(q, toHost'[k]) /\ j < k => toHost'[j].value < toHost'[k].value
              /\ q \in active /\ manager = "open" =>
                   \A j \in DOMAIN toHost' : IsTree(q, toHost'[j]) => toHost'[j].value > Reached(q)
  <2>1. \A j, k \in DOMAIN toHost' : j < k => j + 1 < k + 1 BY <1>4
  <2>2. Counted(q) BY <1>7
  <2>3. \A j \in DOMAIN toHost' : IsTree(q, toHost'[j]) =>
          /\ toHost'[j].value <= drawn[q]
          /\ q \in active /\ manager = "open" => toHost'[j].value > Reached(q)
    BY <1>4, <2>2 DEF Counted
  <2>4. \A j, k \in DOMAIN toHost' :
          IsTree(q, toHost'[j]) /\ IsTree(q, toHost'[k]) /\ j < k => toHost'[j].value < toHost'[k].value
    BY <1>4, <2>1, <2>2 DEF Counted
  <2>5. QED BY <2>3, <2>4
<1>13. CASE manager # "open" \/ r \notin active
  <2>1. UNCHANGED <<active, queue, held>> BY <1>3, <1>13 DEF Route, f, r
  <2>2. ASSUME NEW q \in Renders PROVE Counted(q)'
    <3>1. Reached(q)' = Reached(q) BY <1>6, <2>1 DEF Reached
    <3>2. q \in active /\ manager = "open" => \A v : Says(q, v) \in ToSet(toHost) => Says(q, v) \in ToSet(toHost')
      BY <1>4, <1>9, <1>13
    <3>3. Counted(q) /\ drawn'[q] = drawn[q] /\ stream' = stream /\ shown' = shown /\ manager' = manager
      BY <1>6, <1>7 DEF productVars
    <3>4. QED BY <1>12, <2>1, <3>1, <3>2, <3>3 DEF Counted, IsTree
  <2>3. QED BY <1>8, <2>1, <2>2
<1>14. CASE manager = "open" /\ r \in active /\ f.value = Interrupt
  <2>1. queue' = [queue EXCEPT ![r] = Append(@, Interrupt)] /\ active' = active \ {r} /\ held' = held
    BY <1>3, <1>14 DEF Route, f, r
  <2>2. ASSUME NEW q \in Renders PROVE Counted(q)'
    <3>1. Counted(q) /\ drawn'[q] = drawn[q] /\ stream' = stream /\ shown' = shown /\ manager' = manager
      BY <1>6, <1>7 DEF productVars
    <3>2. CASE q = r
      <4>1. r \notin active' BY <2>1
      <4>2. queue'[r] = Append(queue[r], Interrupt) /\ queue[r] \in Seq(Trees \cup {Interrupt})
        BY <1>5, <2>1 DEF Typed
      <4>3. \A j \in DOMAIN queue'[r] : queue'[r][j] # Interrupt => j \in DOMAIN queue[r] /\ queue'[r][j] = queue[r][j]
        BY <4>2
      <4>4. QED BY <1>12, <3>1, <3>2, <4>1, <4>3 DEF Counted, IsTree
    <3>3. CASE q # r
      <4>1. queue'[q] = queue[q] /\ (q \in active' <=> q \in active) BY <2>1, <3>3 DEF Typed
      <4>2. Reached(q)' = Reached(q) BY <3>1, <4>1 DEF Reached
      <4>3. \A v : Says(q, v) \in ToSet(toHost) => Says(q, v) \in ToSet(toHost') BY <1>4, <1>9, <3>3
      <4>4. QED BY <1>12, <3>1, <4>1, <4>2, <4>3 DEF Counted, IsTree
    <3>4. QED BY <3>2, <3>3
  <2>3. QED BY <1>8, <2>1, <2>2
<1>15. CASE manager = "open" /\ r \in active /\ f.value # Interrupt
  <2>1. active' = active /\ queue' = [queue EXCEPT ![r] = Append(@, f.value)] /\ held' = held
    BY <1>1, <1>3, <1>15 DEF Route, f, r
  <2>2. f.value = Reached(r) + 1 /\ IsTree(r, f) BY <1>10, <1>11, <1>15
  <2>3. ASSUME NEW q \in Renders PROVE Counted(q)'
    <3>1. Counted(q) /\ drawn'[q] = drawn[q] /\ stream' = stream /\ shown' = shown /\ manager' = manager
      BY <1>6, <1>7 DEF productVars
    <3>2. CASE q = r
      <4>1. /\ queue'[r] = Append(queue[r], f.value) /\ queue[r] \in Seq(Trees \cup {Interrupt})
            /\ f.value \in Trees \cup {Interrupt}
        BY <1>5, <2>1 DEF Typed
      <4>2. Len(queue[r]) \in Nat /\ Len(shown[r]) \in Nat /\ Reached(r) \in Nat /\ drawn[r] \in Nat BY <1>5, Lengths
      <4>3. /\ Len(queue'[r]) = Len(queue[r]) + 1 /\ DOMAIN queue'[r] = DOMAIN queue[r] \cup {Len(queue[r]) + 1}
            /\ queue'[r][Len(queue[r]) + 1] = f.value /\ \A j \in DOMAIN queue[r] : queue'[r][j] = queue[r][j]
        BY <4>1
      <4>4. f.value = Len(shown[r]) + (Len(queue[r]) + 1) BY <2>2, <4>2, Sums, Zenon DEF Reached
      <4>5. Reached(q)' = Reached(q) + 1
        <5>1. Reached(q)' = Len(shown[q]) + Len(queue'[q]) BY <3>1 DEF Reached
        <5>2. Len(queue'[q]) = Len(queue[q]) + 1 BY <3>2, <4>3
        <5>3. Reached(q) = Len(shown[q]) + Len(queue[q]) BY DEF Reached
        <5>4. Len(shown[q]) + (Len(queue[q]) + 1) = (Len(shown[q]) + Len(queue[q])) + 1 BY <3>2, <4>2, Sums
        <5>5. QED BY <5>1, <5>2, <5>3, <5>4, Zenon
      <4>6. f.value <= drawn[r] BY <1>3, <1>7, <1>5, <2>2 DEF Counted, f
      <4>7. \A j \in DOMAIN toHost' : IsTree(r, toHost'[j]) => toHost'[j].value > f.value
        BY <1>3, <1>4, <1>7, <1>5, <2>2 DEF Counted, f
      <4>8. \A v \in Reached(r) + 1 .. drawn[r] : Says(r, v) \in ToSet(toHost) BY <1>7, <1>5, <1>15 DEF Counted
      <4>9. \A v \in Reached(r) + 2 .. drawn[r] : v \in Reached(r) + 1 .. drawn[r] /\ v # f.value
        BY <2>2, <4>2
      <4>10. \A v \in Reached(r) + 2 .. drawn[r] : Says(r, v) \in ToSet(toHost') BY <1>4, <1>9, <4>8, <4>9
      <4>11. stream[q] = "open" => \A j \in DOMAIN queue'[q] :
               queue'[q][j] # Interrupt => queue'[q][j] = Len(shown[q]) + j
        BY <3>1, <3>2, <4>3, <4>4 DEF Counted
      <4>12. (Reached(r) + 1) + 1 = Reached(r) + 2 BY <4>2
      <4>13. /\ Reached(q)' <= drawn[q]
             /\ \A j \in DOMAIN toHost' : IsTree(q, toHost'[j]) => toHost'[j].value > Reached(q)'
             /\ \A v \in Reached(q)' + 1 .. drawn[q] : Says(q, v) \in ToSet(toHost')
        BY <2>2, <3>2, <4>5, <4>6, <4>7, <4>10, <4>12
      <4>14. shown[q] = [j \in 1 .. Len(shown[q]) |-> j] BY <3>1 DEF Counted
      <4>15. QED BY <1>12, <3>1, <4>11, <4>13, <4>14 DEF Counted, IsTree
    <3>3. CASE q # r
      <4>1. queue'[q] = queue[q] /\ active' = active BY <2>1, <3>3 DEF Typed
      <4>2. Reached(q)' = Reached(q) BY <3>1, <4>1 DEF Reached
      <4>3. \A v : Says(q, v) \in ToSet(toHost) => Says(q, v) \in ToSet(toHost') BY <1>4, <1>9, <3>3
      <4>4. QED BY <1>12, <3>1, <4>1, <4>2, <4>3 DEF Counted, IsTree
    <3>4. QED BY <3>2, <3>3
  <2>4. QED BY <1>8, <2>1, <2>3
<1>16. QED BY <1>13, <1>14, <1>15

LEMMA PollOrder == ASSUME Typed, Sides, InOrder, NEW r \in Renders, Poll(r) PROVE InOrder'
<1>1. CASE PollEnd(r)
  <2>1. \A q \in Renders : stream'[q] = "open" => stream[q] = "open" BY <1>1 DEF PollEnd, Typed
  <2>2. QED BY <1>1, <2>1, CalmOrder DEF PollEnd, productVars
<1>2. CASE PollTree(r) \/ PollInterrupt(r)
  <2>1. SUFFICES ASSUME mode = "ordered", NEW q \in Renders PROVE Counted(q)'
    BY <1>2 DEF InOrder, PollTree, PollInterrupt
  <2>2. Counted(q) BY <2>1 DEF InOrder
  <2>3. /\ queue' = [queue EXCEPT ![r] = Tail(@)] /\ queue[r] # << >> /\ stream[r] = "open"
        /\ UNCHANGED <<mode, manager, held, drawn, toHost>>
    BY <1>2 DEF PollTree, PollInterrupt, productVars
  <2>4. CASE q # r
    <3>1. /\ queue'[q] = queue[q] /\ shown'[q] = shown[q] /\ (stream'[q] = "open" => stream[q] = "open")
          /\ q \in active' => q \in active
      BY <1>2, <2>3, <2>4 DEF PollTree, PollInterrupt, Stop, Typed
    <3>2. Reached(q)' = Reached(q) BY <3>1 DEF Reached
    <3>3. QED BY <2>2, <2>3, <3>1, <3>2 DEF Counted, IsTree
  <2>5. CASE q = r /\ q \notin active' /\ stream'[q] # "open" /\ shown'[q] = shown[q]
    BY <2>2, <2>3, <2>5 DEF Counted, IsTree
  <2>6. CASE q = r /\ ~ (q \notin active' /\ stream'[q] # "open" /\ shown'[q] = shown[q])
    <3>1. /\ shown' = [shown EXCEPT ![r] = Append(@, Head(queue[r]))] /\ UNCHANGED <<active, stream, toProduct>>
          /\ Head(queue[r]) # Interrupt
      <4>1. CASE PollInterrupt(r)
        <5>1. r \notin active
          <6>1. Interrupt \in ToSet(queue[r])
            <7>1. queue[r] \in Seq(Trees \cup {Interrupt}) BY DEF Typed
            <7>2. QED BY <2>3, <4>1, <7>1, HeadAndTail DEF PollInterrupt
          <6>2. QED BY <6>1 DEF Sides, SideOf, Told
        <5>2. QED BY <2>6, <4>1, <5>1 DEF PollInterrupt, Typed
      <4>2. CASE PollTree(r) BY <2>6, <4>2 DEF PollTree, Stop, Typed
      <4>3. QED BY <1>2, <4>1, <4>2
    <3>2. queue[r] \in Seq(Trees \cup {Interrupt}) /\ shown[r] \in Seq(Trees) BY DEF Typed
    <3>3. /\ Head(queue[r]) = queue[r][1] /\ 1 \in DOMAIN queue[r] /\ Head(queue[r]) \in Trees \cup {Interrupt}
          /\ Len(Tail(queue[r])) = Len(queue[r]) - 1
          /\ \A i \in DOMAIN Tail(queue[r]) : Tail(queue[r])[i] = queue[r][i + 1] /\ i + 1 \in DOMAIN queue[r] /\ i \in Nat
      BY <2>3, <3>2, HeadAndTail
    <3>4. Head(queue[r]) = Len(shown[r]) + 1 BY <2>2, <2>3, <2>6, <3>1, <3>3 DEF Counted
    <3>5. queue'[q] = Tail(queue[r]) /\ shown'[q] = Append(shown[r], Len(shown[r]) + 1)
      BY <2>3, <2>6, <3>1, <3>4 DEF Typed
    <3>6. Len(shown[r]) \in Nat /\ Len(queue[r]) \in Nat BY Lengths
    <3>7. Len(shown'[q]) = Len(shown[r]) + 1
      <4>1. Len(shown[r]) + 1 \in Trees BY <3>1, <3>3, <3>4
      <4>2. QED BY <3>2, <3>5, <4>1
    <3>8. shown'[q] = [i \in 1 .. Len(shown'[q]) |-> i]
      <4>1. shown[r] = [i \in 1 .. Len(shown[r]) |-> i] BY <2>2, <2>6 DEF Counted
      <4>2. Len(shown[r]) + 1 \in Trees BY <3>1, <3>3, <3>4
      <4>3. DOMAIN shown'[q] = 1 .. Len(shown[r]) + 1 /\ shown'[q] \in Seq(Trees) BY <3>2, <3>5, <4>2
      <4>4. shown'[q][Len(shown[r]) + 1] = Len(shown[r]) + 1 BY <3>2, <3>5, <4>2
      <4>5. \A i \in 1 .. Len(shown[r]) : shown'[q][i] = shown[r][i] BY <3>2, <3>5, <4>2
      <4>6. \A i \in 1 .. Len(shown[r]) : shown[r][i] = i BY <4>1
      <4>7. \A i \in 1 .. Len(shown[r]) + 1 : shown'[q][i] = i BY <3>6, <4>4, <4>5, <4>6
      <4>8. shown'[q] = [i \in DOMAIN shown'[q] |-> shown'[q][i]] BY <4>3
      <4>9. QED BY <3>7, <4>3, <4>7, <4>8
    <3>9. Reached(q)' = Reached(q)
      <4>1. Reached(q)' = Len(shown'[q]) + Len(queue'[q]) BY DEF Reached
      <4>2. Len(queue'[q]) = Len(queue[r]) - 1 BY <3>3, <3>5
      <4>3. \A m, n \in Nat : (m + 1) + (n - 1) = m + n OBVIOUS
      <4>4. (Len(shown[r]) + 1) + (Len(queue[r]) - 1) = Len(shown[r]) + Len(queue[r]) BY <3>6, <4>3
      <4>5. Reached(q) = Len(shown[r]) + Len(queue[r]) BY <2>6 DEF Reached
      <4>6. QED BY <3>7, <4>1, <4>2, <4>4, <4>5, Zenon
    <3>10. stream[r] = "open" => \A i \in DOMAIN queue'[q] :
             queue'[q][i] # Interrupt => queue'[q][i] = Len(shown'[q]) + i
      <4>1. ASSUME NEW i \in DOMAIN queue'[q], queue'[q][i] # Interrupt PROVE queue'[q][i] = Len(shown'[q]) + i
        <5>1. queue'[q][i] = queue[r][i + 1] /\ i + 1 \in DOMAIN queue[r] /\ i \in Nat BY <3>3, <3>5
        <5>2. queue[r][i + 1] = Len(shown[r]) + (i + 1) BY <2>2, <2>3, <2>6, <4>1, <5>1 DEF Counted
        <5>3. \A m, n \in Nat : m + (n + 1) = (m + 1) + n OBVIOUS
        <5>4. Len(shown[r]) + (i + 1) = (Len(shown[r]) + 1) + i BY <3>6, <5>1, <5>3
        <5>5. QED BY <3>7, <5>1, <5>2, <5>4, Zenon
      <4>2. QED BY <4>1
    <3>11. QED BY <2>2, <2>3, <2>6, <3>1, <3>8, <3>9, <3>10 DEF Counted, IsTree
  <2>7. QED BY <2>4, <2>5, <2>6
<1>3. QED BY <1>1, <1>2 DEF Poll

\* The other steps of the host.
LEMMA HostOrder ==
  ASSUME Typed, Sides, InOrder, NEW r \in Renders, Ask(r) \/ Reserve(r) \/ SendStart(r) \/ Cancel(r) \/ Dispose
  PROVE  InOrder'
<1>1. UNCHANGED <<mode, held, shown, queue, toHost, drawn>>
  BY DEF Ask, Reserve, SendStart, Cancel, Dispose, productVars
<1>2. \A q \in Renders : q \in active' => q \in active \/ Untouched(q)
  BY DEF Ask, Reserve, SendStart, Cancel, Stop, Dispose, Sides, SideOf, SlotOf, Early
<1>3. manager' = "open" => manager = "open"
  BY DEF Ask, Reserve, SendStart, Cancel, Dispose
<1>4. \A q \in Renders : stream'[q] = "open" => stream[q] = "open" \/ Untouched(q)
  BY DEF Ask, Reserve, SendStart, Cancel, Dispose, Sides, SideOf, SlotOf, Early, Typed
<1>5. QED BY <1>1, <1>2, <1>3, <1>4, CalmOrder

LEMMA EnqueueOrder == ASSUME Typed, InOrder, NEW h \in held, Enqueue(h) PROVE InOrder'
BY DEF InOrder, Enqueue

LEMMA ProductOrder ==
  ASSUME Typed, Sides, InOrder,
         OnStart \/ OnStop \/ SetHandler \/ UnsetHandler \/ CloseWithError \/ \E r \in Renders : GiveUp(r) \/ Complete(r)
  PROVE  InOrder'
<1>1. UNCHANGED <<mode, hostVars, drawn>>
  BY DEF OnStart, OnStop, SetHandler, UnsetHandler, CloseWithError, GiveUp, Complete
<1>2. \/ toHost' = toHost
      \/ \E rs \in Seq(Renders) : Decline(rs)
  <2>1. CASE OnStart
    <3> DEFINE r == Head(toProduct).render
    <3>1. Head(toProduct) \in ToProduct /\ Head(toProduct) \in ToSet(toProduct) /\ Head(toProduct).kind = "start"
      BY <2>1, HeadAndTail DEF OnStart, Typed
    <3>2. r \in Renders /\ Starts(r) BY <3>1, FramesAre DEF Starts
    <3>3. r \notin ToSet(buffered) /\ NoRepeats(buffered) BY <3>2 DEF Sides, SideOf, OnItsWay
    <3>4. <<r>> \in Seq(Renders) BY <3>2
    <3>5. StartAll(<<r>>) \/ Buffer(r) BY <2>1 DEF OnStart
    <3> HIDE DEF r
    <3>6. QED BY <3>2, <3>3, <3>4, <3>5, Starting, Buffering
  <2>2. CASE SetHandler BY <2>2, Starting DEF SetHandler, Typed
  <2>3. CASE \E r \in Renders : GiveUp(r)
    <3>1. PICK r \in Renders : Decline(<<r>>) BY <2>3 DEF GiveUp
    <3>2. <<r>> \in Seq(Renders) OBVIOUS
    <3>3. QED BY <3>1, <3>2
  <2>4. CASE OnStop \/ UnsetHandler \/ CloseWithError \/ \E r \in Renders : Complete(r)
    BY <2>4 DEF OnStop, UnsetHandler, CloseWithError, Complete
  <2>5. QED BY <2>1, <2>2, <2>3, <2>4
<1>3. CASE toHost' = toHost
  <2>1. UNCHANGED <<mode, held, shown, queue, toHost, drawn, active, stream, manager>> BY <1>1, <1>3 DEF hostVars
  <2>2. QED BY <2>1, CalmOrder
<1>4. CASE \E rs \in Seq(Renders) : Decline(rs) BY <1>1, <1>4, DecliningOrder
<1>5. QED BY <1>2, <1>3, <1>4

-----------------------------------------------------------------------------
(* The invariant, and what follows from it.                                *)

LEMMA RenderInvInit == RenderInit => RenderInv
<1> SUFFICES ASSUME RenderInit PROVE RenderInv
  OBVIOUS
<1>1. ToSet(<< >>) = {} BY DEF ToSet
<1>2. \A S : << >> \in Seq(S) OBVIOUS
<1>3. Len(<< >>) = 0 /\ DOMAIN << >> = {} OBVIOUS
<1>4. Capacity \in Nat \ {0} BY BoundAssumption
<1>5. Typed
  <2>1. mode \in {"ordered", "spawned"} BY ModeAssumption DEF RenderInit
  <2>2. queue \in [Renders -> Seq(Trees \cup {Interrupt})] /\ shown \in [Renders -> Seq(Trees)]
    BY <1>2 DEF RenderInit
  <2>3. toProduct \in Seq(ToProduct) /\ toHost \in Seq(ToHost) /\ buffered \in Seq(Renders)
    BY <1>2 DEF RenderInit
  <2>4. Len(buffered) <= Capacity BY <1>3, <1>4 DEF RenderInit
  <2>5. drawn \in [Renders -> Nat] BY DEF RenderInit
  <2>6. QED BY <2>1, <2>2, <2>3, <2>4, <2>5 DEF RenderInit, Typed, Early
<1>6. Sides
  BY <1>1, <1>3
  DEF RenderInit, Sides, Orderly, NoRepeats, SideOf, SlotOf, Untouched, OnItsWay, Held, Told, Has,
                    Starts, Stops, Early
<1>7. \A r \in Renders : Counted(r)
  <2>1. \A r \in Renders : shown[r] = << >> /\ queue[r] = << >> /\ toHost = << >> /\ r \notin active BY DEF RenderInit
  <2>2. [i \in 1 .. 0 |-> i] = << >> OBVIOUS
  <2>3. QED BY <1>3, <2>1, <2>2 DEF Counted
<1>8. held = {} BY DEF RenderInit
<1>9. QED BY <1>5, <1>6, <1>7, <1>8 DEF RenderInv, InOrder

LEMMA RenderInvNext == RenderInv /\ [RenderNext]_renderVars => RenderInv'
<1> SUFFICES ASSUME Typed, Sides, InOrder, [RenderNext]_renderVars PROVE Typed' /\ Sides' /\ InOrder'
  BY DEF RenderInv
<1>1. ASSUME NEW r \in Renders, Ask(r) PROVE Typed' /\ Sides' /\ InOrder'
  BY <1>1, AskReserveTyped, AskSides, HostOrder
<1>2. ASSUME NEW r \in Renders, Reserve(r) PROVE Typed' /\ Sides' /\ InOrder'
  BY <1>2, AskReserveTyped, ReserveSides, HostOrder
<1>3. ASSUME NEW r \in Renders, SendStart(r) PROVE Typed' /\ Sides' /\ InOrder'
  BY <1>3, SendStartTyped, SendStartSides, HostOrder
<1>4. ASSUME NEW r \in Renders, Poll(r) PROVE Typed' /\ Sides' /\ InOrder'
  BY <1>4, PollTyped, PollSides, PollOrder
<1>5. ASSUME NEW r \in Renders, Cancel(r) PROVE Typed' /\ Sides' /\ InOrder'
  BY <1>5, CancelTyped, CancelSides, HostOrder
<1>6. CASE HandleMessage BY <1>6, HandleTyped, HandleSides, HandleOrder
<1>7. ASSUME NEW h \in held, Enqueue(h) PROVE Typed' /\ Sides' /\ InOrder'
  BY <1>7, EnqueueTyped, EnqueueSides, EnqueueOrder
<1>8. CASE Dispose
  <2>1. CASE Renders = {} BY <1>8, <2>1, DisposeTyped, DisposeSides DEF InOrder, Dispose
  <2>2. CASE \E r : r \in Renders BY <1>8, <2>2, DisposeTyped, DisposeSides, HostOrder
  <2>3. QED BY <2>1, <2>2
<1>9. CASE OnStart BY <1>9, OnStartTyped, OnStartSides, ProductOrder
<1>10. CASE OnStop BY <1>10, OnStopTyped, OnStopSides, ProductOrder
<1>11. CASE SetHandler BY <1>11, SetHandlerTyped, SetHandlerSides, ProductOrder
<1>12. CASE UnsetHandler \/ CloseWithError BY <1>12, RestTyped, RestSides, ProductOrder
<1>13. ASSUME NEW r \in Renders, Draw(r) PROVE Typed' /\ Sides' /\ InOrder'
  BY <1>13, DrawTyped, DrawSides, DrawOrder
<1>14. ASSUME NEW r \in Renders, GiveUp(r) PROVE Typed' /\ Sides' /\ InOrder'
  BY <1>14, GiveUpTyped, GiveUpSides, ProductOrder
<1>15. ASSUME NEW r \in Renders, Complete(r) PROVE Typed' /\ Sides' /\ InOrder'
  BY <1>15, RestTyped, RestSides, ProductOrder
<1>16. CASE UNCHANGED renderVars
  <2>1. Typed' BY <1>16 DEF Typed, renderVars, hostVars, productVars
  <2>2. Sides'
    BY <1>16
    DEF Sides, renderVars, hostVars, productVars, SideOf, SlotOf, Untouched, OnItsWay, Held, Told,
      Has,
                 Starts, Stops, Early
  <2>3. InOrder' BY <1>16 DEF InOrder, Counted, Reached, IsTree, renderVars, hostVars, productVars
  <2>4. QED BY <2>1, <2>2, <2>3
<1>17. QED
  BY <1>1, <1>2, <1>3, <1>4, <1>5, <1>6, <1>7, <1>8, <1>9, <1>10, <1>11, <1>12, <1>13, <1>14, <1>15, <1>16
  DEF RenderNext, HostStep, ProductStep

\* What the invariant says of the state is true throughout.
THEOREM RenderSafety == RenderSpec => []RenderInv
BY RenderInvInit, RenderInvNext, PTL DEF RenderSpec

\* The slots, channels, frames and instances are what they are declared to
\* be, and the buffer never outgrows its capacity.
THEOREM RenderTypesCorrect == RenderSpec => []RenderTypeOK
<1>1. RenderInv => RenderTypeOK BY DEF RenderInv, Typed, RenderTypeOK
<1>2. QED BY <1>1, RenderSafety, PTL

\* While the connection is open, neither side has a rendering the other has
\* ended without being about to hear of it (HostInitiatedSubscription::stop,
\* interruptHostSubscription).
THEOREM SidesAgreeHolds == RenderSpec => []SidesAgree
<1>1. RenderInv => SidesAgree
  BY DEF RenderInv, Sides, SideOf, OnItsWay, Held, Told, Starts, Stops, SidesAgree
<1>2. QED BY <1>1, RenderSafety, PTL

\* on_error is the product's doing, on_complete the host's own, and where
\* frames are handled in order the observer sees the trees 1, 2, 3...
THEOREM ObserversKnowHolds == RenderSpec => []ObserversKnow
<1>1. RenderInv => ObserversKnow
  BY DEF RenderInv, Sides, SideOf, Told, InOrder, Counted, ObserversKnow
<1>2. QED BY <1>1, RenderSafety, PTL

-----------------------------------------------------------------------------
(* The bridge that serves such runtimes.                                   *)

\* Who lost a frame finds the sink closed, and is past its check of it.
LostInv ==
  \A k \in Conns : \A e \in lost[k] : e \notin emitting[k] /\ (disposed[k] \/ muted[k])

\* A connection that is not over has its place among the handles, and the
\* handles are those of connections.
HandlesInv ==
  /\ \A k \in handles : conn[k] # "none"
  /\ \A k \in Conns : conn[k] # "none" /\ ~Over(k) => k \in handles
  /\ IsFiniteSet(handles) /\ Cardinality(handles) <= MaxConnections

\* A pump has a connection, and a connection a socket.
SocketInv ==
  /\ \A k \in Conns : pump[k] # "none" => conn[k] # "none"
  /\ \A k \in Conns : conn[k] # "none" => socket[k] \in {"open", "closed"}
  /\ WriterWhileOpen

BridgeIInv == BridgeTypeOK /\ LostInv /\ HandlesInv /\ SocketInv

\* A queue of at most n frames is a sequence no longer than that.
LEMMA BoundedQueue ==
  ASSUME NEW S, NEW n \in Nat, NEW s
  PROVE  s \in BoundedSeq(S, n) <=> s \in Seq(S) /\ Len(s) <= n
<1>1. ASSUME s \in BoundedSeq(S, n) PROVE s \in Seq(S) /\ Len(s) <= n
  <2>1. PICK m \in 0..n : s \in [1..m -> S] BY <1>1 DEF BoundedSeq, SeqOf
  <2>2. QED BY <2>1
<1>2. ASSUME s \in Seq(S), Len(s) <= n PROVE s \in BoundedSeq(S, n)
  <2>1. s \in [1..Len(s) -> S] /\ Len(s) \in 0..n BY <1>2
  <2>2. QED BY <2>1 DEF BoundedSeq, SeqOf
<1>3. QED BY <1>1, <1>2

\* What a step may do to an outbound queue without making it too long.
LEMMA QueueBounds ==
  ASSUME BridgeTypeOK, NEW k \in Conns
  PROVE  /\ outbound[k] \in Seq(Emitters)
         /\ <<>> \in BoundedSeq(Emitters, QueueCap)
         /\ outbound[k] # <<>> => Tail(outbound[k]) \in BoundedSeq(Emitters, QueueCap)
         /\ \A e \in Emitters : Len(outbound[k]) < QueueCap =>
              Append(outbound[k], e) \in BoundedSeq(Emitters, QueueCap)
<1>1. QueueCap \in Nat BY BridgeAssumption
<1>2. outbound[k] \in BoundedSeq(Emitters, QueueCap) BY DEF BridgeTypeOK
<1>3. outbound[k] \in Seq(Emitters) /\ Len(outbound[k]) <= QueueCap BY <1>1, <1>2, BoundedQueue
<1>4. <<>> \in BoundedSeq(Emitters, QueueCap)
  <2>1. <<>> \in Seq(Emitters) /\ Len(<<>>) <= QueueCap BY <1>1
  <2>2. QED BY ONLY <1>1, <2>1, BoundedQueue
<1>5. ASSUME outbound[k] # <<>> PROVE Tail(outbound[k]) \in BoundedSeq(Emitters, QueueCap)
  <2>1. Tail(outbound[k]) \in Seq(Emitters) /\ Len(Tail(outbound[k])) <= QueueCap
    BY <1>1, <1>3, <1>5
  <2>2. QED BY ONLY <1>1, <2>1, BoundedQueue
<1>6. ASSUME NEW e \in Emitters, Len(outbound[k]) < QueueCap
      PROVE  Append(outbound[k], e) \in BoundedSeq(Emitters, QueueCap)
  <2>1. Append(outbound[k], e) \in Seq(Emitters) /\ Len(Append(outbound[k], e)) <= QueueCap
    BY <1>1, <1>3, <1>6
  <2>2. QED BY ONLY <1>1, <2>1, BoundedQueue
<1>7. QED BY <1>3, <1>4, <1>5, <1>6

\* Every variable of the bridge has its type at first, and each step keeps it.
LEMMA BridgeInitTypes == BridgeInit => BridgeTypeOK
<1>1. SUFFICES ASSUME BridgeInit PROVE BridgeTypeOK OBVIOUS
<1>2. QueueCap \in Nat /\ <<>> \in Seq(Emitters) /\ Len(<<>>) <= QueueCap BY BridgeAssumption
<1>3. <<>> \in BoundedSeq(Emitters, QueueCap) BY ONLY <1>2, BoundedQueue
<1>4. outbound \in [Conns -> BoundedSeq(Emitters, QueueCap)] BY <1>1, <1>3 DEF BridgeInit
<1>5. {} \in SUBSET Emitters /\ "none" \in ConnPhases BY DEF ConnPhases
<1>6. emitting \in [Conns -> SUBSET Emitters] /\ lost \in [Conns -> SUBSET Emitters]
  BY <1>1, <1>5 DEF BridgeInit
<1>7. QED BY <1>1, <1>4, <1>5, <1>6 DEF BridgeInit, BridgeTypeOK

LEMMA BridgeNextTypes == BridgeTypeOK /\ [BridgeNext]_bridgeVars => BridgeTypeOK'
<1> SUFFICES ASSUME BridgeTypeOK, [BridgeNext]_bridgeVars PROVE BridgeTypeOK' OBVIOUS
<1> USE DEF BridgeTypeOK, ConnPhases, sinkVars, outboundVars, executionVars, Unfinished
<1>1. ASSUME NEW k \in Conns, BridgeStep(k) PROVE BridgeTypeOK'
  <2>1. CASE Accept(k) BY <2>1 DEF Accept
  <2>2. CASE Refuse(k) BY <2>2 DEF Refuse
  <2>3. CASE StopReading(k) BY <2>3 DEF StopReading
  <2>4. CASE Finish(k) BY <2>4 DEF Finish
  <2>5. CASE Aborted(k) BY <2>5 DEF Aborted
  <2>6. CASE HandshakeFails(k) BY <2>6 DEF HandshakeFails
  <2>7. QED BY <1>1, <2>1, <2>2, <2>3, <2>4, <2>5, <2>6 DEF BridgeStep
<1>2. ASSUME NEW k \in Conns, PumpStep(k) PROVE BridgeTypeOK'
  <2>1. CASE Write(k)
    <3>1. outbound' \in [Conns -> BoundedSeq(Emitters, QueueCap)] BY <2>1, QueueBounds DEF Write
    <3>2. pump' \in [Conns -> {"none", "running", "finished"}] BY <2>1 DEF Write
    <3>3. QED BY <2>1, <3>1, <3>2 DEF Write
  <2>2. CASE CloseSocket(k) BY <2>2 DEF CloseSocket
  <2>3. QED BY <1>2, <2>1, <2>2 DEF PumpStep
<1>3. ASSUME NEW k \in Conns, ExecutionStep(k) PROVE BridgeTypeOK'
  <2>1. CASE TaskEnds(k)
    <3>1. subscription' \in [Conns -> {"none", "running", "over"}] BY <2>1 DEF TaskEnds
    <3>2. task' \in [Conns -> {"none", "running", "replying", "over"}] BY <2>1 DEF TaskEnds
    <3>3. QED BY <2>1, <3>1, <3>2 DEF TaskEnds
  <2>2. CASE StreamEnds(k) BY <2>2 DEF StreamEnds
  <2>3. ASSUME NEW e \in Emitters, PassSink(k, e) PROVE BridgeTypeOK' BY <2>3 DEF PassSink
  <2>4. ASSUME NEW e \in Emitters, SwallowFrame(k, e) PROVE BridgeTypeOK'
    BY <2>4 DEF SwallowFrame, Replied
  <2>5. ASSUME NEW e \in Emitters, TrySend(k, e) PROVE BridgeTypeOK'
    <3>1. /\ outbound' \in [Conns -> BoundedSeq(Emitters, QueueCap)]
          /\ muted' \in [Conns -> BOOLEAN] /\ lost' \in [Conns -> SUBSET Emitters]
      <4>1. CASE Len(outbound[k]) < QueueCap /\ pump[k] = "running"
        <5>1. Append(outbound[k], e) \in BoundedSeq(Emitters, QueueCap) BY <4>1, QueueBounds
        <5>2. outbound' = [outbound EXCEPT ![k] = Append(outbound[k], e)] /\ UNCHANGED <<muted, lost>>
          BY <2>5, <4>1 DEF TrySend
        <5>3. QED BY <5>1, <5>2
      <4>2. CASE ~ (Len(outbound[k]) < QueueCap /\ pump[k] = "running")
        <5>1. /\ muted' = [muted EXCEPT ![k] = TRUE]
              /\ lost' = [lost EXCEPT ![k] = @ \cup {e}]
              /\ outbound' = outbound
          BY <2>5, <4>2 DEF TrySend
        <5>2. QED BY <5>1
      <4>3. QED BY <4>1, <4>2
    <3>2. task' \in [Conns -> {"none", "running", "replying", "over"}] BY <2>5 DEF TrySend, Replied
    <3>3. QED BY <2>5, <3>1, <3>2 DEF TrySend
  <2>6. QED BY <1>3, <2>1, <2>2, <2>3, <2>4, <2>5 DEF ExecutionStep, SinkStep
<1>4. ASSUME NEW k \in Conns, PeerStep(k) PROVE BridgeTypeOK'
  BY <1>4 DEF PeerStep, Dial, Open, HandshakeFails, ReadFrame, PeerCloses
<1>5. CASE AbortHandles BY <1>5 DEF AbortHandles
<1>6. CASE AcceptorExits BY <1>6 DEF AcceptorExits
<1>7. CASE StopBridge BY <1>7 DEF StopBridge
<1>8. CASE StopReturns BY <1>8 DEF StopReturns
<1>9. CASE UNCHANGED bridgeVars BY <1>9 DEF bridgeVars
<1>10. QED BY <1>1, <1>2, <1>3, <1>4, <1>5, <1>6, <1>7, <1>8, <1>9 DEF BridgeNext

\* Nobody passes the check of a sink that is closed, and none opens again.
LEMMA LostNext == BridgeTypeOK /\ LostInv /\ [BridgeNext]_bridgeVars => LostInv'
<1> SUFFICES ASSUME BridgeTypeOK, LostInv, [BridgeNext]_bridgeVars PROVE LostInv' OBVIOUS
<1> USE DEF LostInv, sinkVars, outboundVars, executionVars
<1>0. disposed \in [Conns -> BOOLEAN] /\ muted \in [Conns -> BOOLEAN]
      /\ emitting \in [Conns -> SUBSET Emitters] /\ lost \in [Conns -> SUBSET Emitters]
  BY DEF BridgeTypeOK
<1>1. ASSUME NEW k \in Conns, BridgeStep(k) PROVE LostInv'
  BY <1>0, <1>1 DEF BridgeStep, Accept, Refuse, StopReading, Finish, Aborted, HandshakeFails
<1>2. ASSUME NEW k \in Conns, PumpStep(k) PROVE LostInv' BY <1>2 DEF PumpStep, Write, CloseSocket
<1>3. ASSUME NEW k \in Conns, ExecutionStep(k) PROVE LostInv'
  <2>1. CASE TaskEnds(k) \/ StreamEnds(k) BY <2>1 DEF TaskEnds, StreamEnds
  <2>2. ASSUME NEW e \in Emitters, PassSink(k, e) PROVE LostInv' BY <1>0, <2>2 DEF PassSink
  <2>3. ASSUME NEW e \in Emitters, SwallowFrame(k, e) PROVE LostInv'
    BY <1>0, <2>3 DEF SwallowFrame
  <2>4. ASSUME NEW e \in Emitters, TrySend(k, e) PROVE LostInv' BY <1>0, <2>4 DEF TrySend
  <2>5. QED BY <1>3, <2>1, <2>2, <2>3, <2>4 DEF ExecutionStep, SinkStep
<1>4. ASSUME NEW k \in Conns, PeerStep(k) PROVE LostInv'
  BY <1>4 DEF PeerStep, Dial, Open, HandshakeFails, ReadFrame, PeerCloses
<1>5. CASE AbortHandles \/ AcceptorExits \/ StopBridge \/ StopReturns
  BY <1>5 DEF AbortHandles, AcceptorExits, StopBridge, StopReturns
<1>6. CASE UNCHANGED bridgeVars BY <1>6 DEF bridgeVars
<1>7. QED BY <1>1, <1>2, <1>3, <1>4, <1>5, <1>6 DEF BridgeNext

\* A place is only taken under the cap, and given back when a task is over.
LEMMA HandlesNext == BridgeTypeOK /\ HandlesInv /\ [BridgeNext]_bridgeVars => HandlesInv'
<1> SUFFICES ASSUME BridgeTypeOK, HandlesInv, [BridgeNext]_bridgeVars PROVE HandlesInv' OBVIOUS
<1>0. conn \in [Conns -> ConnPhases] /\ handles \subseteq Conns BY DEF BridgeTypeOK
<1>a. /\ Unfinished \subseteq handles /\ IsFiniteSet(Unfinished)
      /\ Cardinality(Unfinished) <= MaxConnections
  <2>1. Unfinished \in SUBSET handles BY DEF Unfinished
  <2>2. IsFiniteSet(Unfinished) /\ Cardinality(Unfinished) <= Cardinality(handles)
    BY ONLY <2>1, FS_Subset, HandlesInv DEF HandlesInv
  <2>3. Cardinality(Unfinished) \in Nat /\ Cardinality(handles) \in Nat
    BY <2>2, FS_CardinalityType DEF HandlesInv
  <2>4. QED BY <2>1, <2>2, <2>3, BridgeAssumption DEF HandlesInv
<1>b. ASSUME handles' = handles,
             \A k \in Conns : conn'[k] # "none" /\ ~Over(k)' => conn[k] # "none" /\ ~Over(k),
             \A k \in Conns : conn[k] # "none" => conn'[k] # "none"
      PROVE  HandlesInv'
  BY <1>b, <1>0 DEF HandlesInv
<1> USE DEF Over
<1>1. ASSUME NEW k \in Conns, Accept(k) PROVE HandlesInv'
  <2>1. Cardinality(Unfinished) < MaxConnections /\ handles' = Unfinished \cup {k} BY <1>1 DEF Accept
  <2>2. Cardinality(Unfinished) \in Nat BY <1>a, FS_CardinalityType
  <2>3. IsFiniteSet(handles') /\ Cardinality(handles') <= MaxConnections
    <3>1. /\ IsFiniteSet(Unfinished \cup {k})
          /\ Cardinality(Unfinished \cup {k}) =
               IF k \in Unfinished THEN Cardinality(Unfinished) ELSE Cardinality(Unfinished) + 1
      BY ONLY <1>a, FS_AddElement
    <3>2. QED BY <2>1, <2>2, <3>1, BridgeAssumption
  <2>4. ASSUME NEW j \in Conns, conn'[j] # "none", ~Over(j)' PROVE j \in handles'
    <3>1. j = k \/ conn'[j] = conn[j] BY <1>0, <1>1 DEF Accept
    <3>2. QED BY <2>1, <2>4, <3>1 DEF HandlesInv, Unfinished
  <2>5. ASSUME NEW j \in handles' PROVE conn'[j] # "none"
    <3>1. j = k \/ (j \in handles /\ j \in Conns) BY <1>0, <1>a, <2>1
    <3>2. conn' = [conn EXCEPT ![k] = "handshake"] BY <1>1 DEF Accept
    <3>3. QED BY <1>0, <3>1, <3>2 DEF HandlesInv
  <2>6. QED BY <2>3, <2>4, <2>5 DEF HandlesInv
<1>2. ASSUME NEW k \in Conns, Refuse(k) PROVE HandlesInv'
  BY <1>2, <1>a DEF Refuse, HandlesInv, Unfinished
<1>3. ASSUME NEW k \in Conns,
             \/ StopReading(k) \/ Finish(k) \/ Aborted(k) \/ HandshakeFails(k)
             \/ ExecutionStep(k) \/ PumpStep(k)
             \/ Dial(k) \/ Open(k) \/ ReadFrame(k) \/ PeerCloses(k)
      PROVE  HandlesInv'
  BY <1>0, <1>3, <1>b DEF StopReading, Finish, Aborted, HandshakeFails, ExecutionStep, SinkStep,
    TaskEnds, StreamEnds, PassSink, SwallowFrame, TrySend, PumpStep, Write, CloseSocket, Dial, Open,
    ReadFrame, PeerCloses
<1>4. CASE AcceptorExits
  <2>1. Unfinished = {} /\ handles' = {} /\ conn' = conn BY <1>4 DEF AcceptorExits
  <2>2. IsFiniteSet({}) /\ Cardinality({}) = 0 BY FS_EmptySet
  <2>3. QED BY <2>1, <2>2, BridgeAssumption DEF HandlesInv, Unfinished
<1>5. CASE AbortHandles \/ StopBridge \/ StopReturns \/ UNCHANGED bridgeVars
  BY <1>5, <1>b DEF AbortHandles, StopBridge, StopReturns, bridgeVars
<1>6. QED BY <1>1, <1>2, <1>3, <1>4, <1>5 DEF BridgeNext, BridgeStep, PeerStep

\* Sockets that are open or closed are never anything else again, and a pump
\* ends with its socket.
LEMMA SocketNext == BridgeTypeOK /\ HandlesInv /\ SocketInv /\ [BridgeNext]_bridgeVars => SocketInv'
<1> SUFFICES ASSUME BridgeTypeOK, HandlesInv, SocketInv, [BridgeNext]_bridgeVars PROVE SocketInv' OBVIOUS
<1> USE DEF SocketInv, WriterWhileOpen, sinkVars, outboundVars, executionVars
<1>0. /\ conn \in [Conns -> ConnPhases] /\ pump \in [Conns -> {"none", "running", "finished"}]
      /\ socket \in [Conns -> {"none", "dialing", "open", "closed"}]
  BY DEF BridgeTypeOK
<1>1. ASSUME NEW k \in Conns, BridgeStep(k) PROVE SocketInv'
  <2>1. CASE Accept(k) \/ Refuse(k)
    <3>1. conn[k] = "none" /\ pump[k] = "none" BY <1>0, <2>1 DEF Accept, Refuse
    <3>2. QED BY <1>0, <2>1, <3>1 DEF Accept, Refuse
  <2>2. CASE StopReading(k) \/ Finish(k) \/ HandshakeFails(k)
    BY <1>0, <2>2 DEF StopReading, Finish, HandshakeFails
  <2>3. CASE Aborted(k)
    <3>1. socket[k] \in {"open", "closed"} BY <2>3 DEF Aborted, Unfinished, HandlesInv
    <3>2. conn' = [conn EXCEPT ![k] = "aborted"] /\ pump' = pump BY <2>3 DEF Aborted
    <3>3. socket' = socket \/ socket' = [socket EXCEPT ![k] = "closed"] BY <1>0, <2>3 DEF Aborted
    <3>4. QED BY <1>0, <3>1, <3>2, <3>3
  <2>4. QED BY <1>1, <2>1, <2>2, <2>3 DEF BridgeStep
<1>2. ASSUME NEW k \in Conns, PumpStep(k) PROVE SocketInv'
  BY <1>0, <1>2 DEF PumpStep, Write, CloseSocket
<1>3. ASSUME NEW k \in Conns, ExecutionStep(k) PROVE SocketInv'
  BY <1>3 DEF ExecutionStep, SinkStep, TaskEnds, StreamEnds, PassSink, SwallowFrame, TrySend
<1>4. ASSUME NEW k \in Conns, PeerStep(k) PROVE SocketInv'
  BY <1>0, <1>4 DEF PeerStep, Dial, Open, HandshakeFails, ReadFrame, PeerCloses
<1>5. CASE AcceptorExits BY <1>0, <1>5 DEF AcceptorExits
<1>6. CASE AbortHandles \/ StopBridge \/ StopReturns \/ UNCHANGED bridgeVars
  BY <1>6 DEF AbortHandles, StopBridge, StopReturns, bridgeVars
<1>7. QED BY <1>1, <1>2, <1>3, <1>4, <1>5, <1>6 DEF BridgeNext

\* A dropped head leaves no more frames of an emitter in the queue: each of
\* those left was one place further back.
LEMMA TailCount ==
  ASSUME NEW q \in Seq(Emitters), q # <<>>, NEW e
  PROVE  Cardinality({i \in DOMAIN Tail(q) : Tail(q)[i] = e}) <= Cardinality({i \in DOMAIN q : q[i] = e})
<1> DEFINE Left == {i \in DOMAIN Tail(q) : Tail(q)[i] = e}
           Were == {i \in DOMAIN q : q[i] = e}
           back == [i \in Left |-> i + 1]
<1>1. /\ DOMAIN Tail(q) = 1..(Len(q) - 1) /\ DOMAIN q = 1..Len(q) /\ Len(q) \in Nat
      /\ \A i \in 1..(Len(q) - 1) : Tail(q)[i] = q[i + 1]
  OBVIOUS
<1>2. back \in Injection(Left, Were)
  <2>1. \A i \in Left : i \in Int /\ i + 1 \in Were BY <1>1
  <2>2. back \in [Left -> Were] BY <2>1
  <2>3. \A i, j \in Left : back[i] = back[j] => i = j BY <2>1
  <2>4. QED BY <2>2, <2>3 DEF Injection, IsInjective
<1>3. IsFiniteSet(Were)
  <2>1. IsFiniteSet(1..Len(q)) BY <1>1, FS_Interval
  <2>2. Were \in SUBSET (1..Len(q)) BY <1>1
  <2>3. QED BY ONLY <2>1, <2>2, FS_Subset
<1> HIDE DEF Left, Were, back
<1>4. Cardinality(Left) <= Cardinality(Were) BY ONLY <1>2, <1>3, FS_Injection
<1>5. QED BY <1>4 DEF Left, Were

\* A step of the bridge queues no frame of somebody who lost one.
LEMMA LostStayOut ==
  ASSUME BridgeTypeOK, LostInv, [BridgeNext]_bridgeVars, NEW k \in Conns, NEW e \in lost[k]
  PROVE  Cardinality(Queued(k, e)') <= Cardinality(Queued(k, e))
<1>1. outbound \in [Conns -> BoundedSeq(Emitters, QueueCap)] /\ outbound[k] \in Seq(Emitters)
  BY QueueBounds DEF BridgeTypeOK
<1>2. IsFiniteSet(Queued(k, e)) /\ Cardinality(Queued(k, e)) \in Nat
  <2>1. Len(outbound[k]) \in Nat /\ DOMAIN outbound[k] = 1..Len(outbound[k]) BY <1>1
  <2>2. IsFiniteSet(1..Len(outbound[k])) BY <2>1, FS_Interval
  <2>3. Queued(k, e) \in SUBSET (1..Len(outbound[k])) BY <2>1 DEF Queued
  <2>4. IsFiniteSet(Queued(k, e)) BY ONLY <2>2, <2>3, FS_Subset
  <2>5. QED BY ONLY <2>4, FS_CardinalityType
<1>3. CASE outbound'[k] = outbound[k]
  <2>1. Queued(k, e)' = Queued(k, e) BY <1>3 DEF Queued
  <2>2. QED BY <2>1, <1>2
<1>4. CASE outbound'[k] = <<>>
  <2>1. Queued(k, e)' = {} BY <1>4 DEF Queued
  <2>2. QED BY <2>1, <1>2, FS_EmptySet
<1>5. CASE outbound[k] # <<>> /\ outbound'[k] = Tail(outbound[k])
  BY <1>1, <1>5, TailCount DEF Queued
<1>6. ASSUME NEW x \in Emitters, x # e, outbound'[k] = Append(outbound[k], x)
      PROVE  Cardinality(Queued(k, e)') <= Cardinality(Queued(k, e))
  <2>1. Queued(k, e)' = Queued(k, e) BY <1>1, <1>6 DEF Queued
  <2>2. QED BY <2>1, <1>2
<1>7. \/ outbound'[k] = outbound[k]
      \/ outbound'[k] = <<>>
      \/ outbound[k] # <<>> /\ outbound'[k] = Tail(outbound[k])
      \/ \E x \in Emitters : x # e /\ outbound'[k] = Append(outbound[k], x)
  <2>1. CASE outbound' = outbound BY <2>1
  <2>2. ASSUME NEW j \in Conns, Write(j) PROVE <1>7 BY <1>1, <2>2 DEF Write
  <2>3. ASSUME NEW j \in Conns, NEW x \in Emitters, TrySend(j, x) PROVE <1>7
    <3>1. CASE j = k BY <1>1, <2>3, <3>1 DEF TrySend, LostInv
    <3>2. CASE j # k BY <1>1, <2>3, <3>2 DEF TrySend
    <3>3. QED BY <3>1, <3>2
  <2>4. \/ outbound' = outbound
        \/ \E j \in Conns : Write(j) \/ (\E x \in Emitters : TrySend(j, x))
    BY DEF BridgeNext, bridgeVars, BridgeStep, PumpStep, ExecutionStep, SinkStep, PeerStep, Accept, Refuse,
      StopReading, Finish, Aborted, HandshakeFails, CloseSocket, TaskEnds, StreamEnds, PassSink,
      SwallowFrame, Dial, Open, ReadFrame, PeerCloses, AbortHandles, AcceptorExits, StopBridge,
      StopReturns, outboundVars
  <2>5. QED BY <2>1, <2>2, <2>3, <2>4
<1>8. QED BY <1>3, <1>4, <1>5, <1>6, <1>7

\* A bridge that has just started has no connections.
LEMMA BridgeInitInv == BridgeInit => BridgeIInv
<1> SUFFICES ASSUME BridgeInit PROVE BridgeIInv OBVIOUS
<1>1. IsFiniteSet({}) /\ Cardinality({}) = 0 BY FS_EmptySet
<1>2. HandlesInv BY <1>1, BridgeAssumption DEF BridgeInit, HandlesInv
<1>3. LostInv /\ SocketInv BY DEF BridgeInit, LostInv, SocketInv, WriterWhileOpen
<1>4. QED BY <1>2, <1>3, BridgeInitTypes DEF BridgeIInv

(* The types of the bridge, its invariant, and that a socket it opened     *)
(* keeps its writer, for any connections, cap and queue.                   *)
THEOREM BridgeSafety == BridgeSpec => []BridgeIInv
<1>1. BridgeIInv /\ [BridgeNext]_bridgeVars => BridgeIInv'
  BY BridgeNextTypes, LostNext, HandlesNext, SocketNext DEF BridgeIInv
<1>2. QED BY BridgeInitInv, <1>1, PTL DEF BridgeSpec

(* No more than MAX_WS_BRIDGE_CONNECTIONS connection tasks are alive.      *)
THEOREM CapHolds == BridgeSpec => []CapRespected
<1>1. BridgeIInv => CapRespected
  <2> SUFFICES ASSUME BridgeIInv PROVE CapRespected OBVIOUS
  <2> DEFINE Alive == {k \in Conns : conn[k] # "none" /\ ~Over(k)}
  <2>1. Alive \in SUBSET handles /\ IsFiniteSet(handles) /\ Cardinality(handles) <= MaxConnections
    BY DEF BridgeIInv, HandlesInv
  <2> HIDE DEF Alive
  <2>2. IsFiniteSet(Alive) /\ Cardinality(Alive) <= Cardinality(handles) BY ONLY <2>1, FS_Subset
  <2>3. Cardinality(Alive) \in Nat /\ Cardinality(handles) \in Nat BY <2>1, <2>2, FS_CardinalityType
  <2>4. Cardinality(Alive) <= MaxConnections BY <2>1, <2>2, <2>3, BridgeAssumption
  <2>5. QED BY <2>4 DEF Alive, CapRespected
<1>2. QED BY BridgeSafety, <1>1, PTL

(* What the peer receives of a subscription has no gap.                    *)
THEOREM PrefixDeliveryHolds == BridgeSpec => PrefixDelivery
<1>1. BridgeIInv /\ [BridgeNext]_bridgeVars =>
        \A k \in Conns : \A e \in lost[k] : Cardinality(Queued(k, e)') <= Cardinality(Queued(k, e))
  BY LostStayOut DEF BridgeIInv
<1>2. QED BY BridgeSafety, <1>1, PTL DEF BridgeSpec, PrefixDelivery

=============================================================================
