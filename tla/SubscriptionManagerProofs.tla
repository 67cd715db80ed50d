---------------------- MODULE SubscriptionManagerProofs ----------------------
(***************************************************************************)
(* Proofs about SubscriptionManager, for any set of calls and request ids  *)
(* and any number of items.                                                *)
(***************************************************************************)
EXTENDS SubscriptionManager, TLAPS

(* Generations identify calls.                                             *)
GenerationInv ==
  /\ \A c \in Calls : pc[c] # "idle" => gen[c] < nextGeneration
  /\ \A c, d \in Calls :
       (c # d /\ pc[c] # "idle" /\ pc[d] # "idle") => gen[c] # gen[d]

(* What a slot says is true of the call that reserved its id last.         *)
SlotInv ==
  \A i \in Ids :
    /\ slots[i].st # "vacant" =>
         /\ newest[i] \in Calls
         /\ rid[newest[i]] = i
         /\ gen[newest[i]] = slots[i].gen
         /\ pc[newest[i]] \notin {"idle", "reserving"}
    /\ slots[i].st = "live" => slots[i].cancel = newest[i] /\ Running(newest[i])
    /\ slots[i].st # "live" => slots[i].cancel = NoCall

(* Only a call that got as far as streaming is ever cancelled, and then    *)
(* for a reason; one that goes on to "closing" never is.                   *)
CancelInv ==
  \A c \in Calls : (c \in cancelled \/ c \in draining) =>
    /\ pc[c] \in Pumping \cup {"done"}
    /\ c \in stopped \/ newest[rid[c]] # c

StopInv ==
  \A c \in stopped :
    /\ pc[c] \notin {"idle", "reserving"}
    /\ ~Running(c)
    /\ pc[c] = "handling" => slots[rid[c]] # Pending(gen[c])

(* An undisturbed reservation is still there when the handler resolves.    *)
ReservationInv ==
  \A c \in Calls : (pc[c] = "handling" /\ newest[rid[c]] = c /\ c \notin stopped) =>
    slots[rid[c]] = Pending(gen[c])

NewestInv ==
  \A c \in Calls : pc[c] \in {"idle", "reserving"} => newest[rid[c]] # c

(* A frame that was late came from a pump that has seen its last item.     *)
LateInv ==
  \A c \in Calls :
    /\ late[c] <= 1
    /\ late[c] > 0 => c \in cancelled /\ pc[c] \in {"streaming", "leaving", "done"}

InterruptInv ==
  \A c \in Calls :
    /\ interrupts[c] = 0 \/ (interrupts[c] = 1 /\ pc[c] \in {"leaving", "done"})
    /\ (pc[c] = "leaving" /\ interrupts[c] = 0) => c \in cancelled

(* What holds of the map, the calls and their cancellations, whatever      *)
(* becomes of the frames; and what holds of the frames when the transport  *)
(* takes them all.                                                         *)
MapInv ==
  /\ GenerationInv /\ SlotInv /\ NoUnstoppableStream /\ CancelInv /\ StopInv
  /\ ReservationInv /\ NewestInv

FrameInv == LateInv /\ InterruptInv /\ NoSilentEnd

SafeInv == MapInv /\ FrameInv

IInv == TypeOK /\ SafeInv

(* A step of the manager, whether or not the transport swallows the frame. *)
Step ==
  \/ \E c \in Calls : \/ DrawGeneration(c) \/ Reserve(c) \/ Activate(c)
                      \/ CancelReservation(c) \/ DropDispatch(c)
                      \/ PollCancelled(c) \/ PollStream(c) \/ RemoveSlot(c)
                      \/ FireDrained(c) \/ \E emitted \in BOOLEAN : Send(c, emitted)
  \/ \E i \in Ids : HandleStop(i)
  \/ DrainSlots

-----------------------------------------------------------------------------
(* Every variable keeps its type.                                          *)

LEMMA NoCallIsNoCall == NoCall \notin Calls
  BY SubscriptionAssumption

LEMMA SlotTypes ==
  /\ Vacant \in Slots
  /\ \A g \in Nat : Pending(g) \in Slots /\ Revoked(g) \in Slots
  /\ \A g \in Nat, c \in Calls : Live(g, c) \in Slots
  BY DEF Slots, Vacant, Pending, Revoked, Live

(* The specification's steps are among them.                               *)
LEMMA NextSteps == Next => Step
  BY DEF Next, DispatchStep, PumpStep, Step

LEMMA TypeInit == Init => TypeOK
  BY SlotTypes, SubscriptionAssumption DEF Init, TypeOK, Phases

LEMMA TypeStep == ASSUME TypeOK, Step \/ UNCHANGED vars PROVE TypeOK'
<1> USE DEF TypeOK, Goto, mapVars, callVars, frameVars, historyVars
<1>1. ASSUME NEW c \in Calls, DrawGeneration(c) PROVE TypeOK'
  BY <1>1 DEF DrawGeneration, Phases, Dispatching
<1>2. ASSUME NEW c \in Calls, Reserve(c) PROVE TypeOK'
  BY <1>2, SlotTypes DEF Reserve, FireCancelOf, Slots, Phases, Dispatching
<1>3. ASSUME NEW c \in Calls, Activate(c) PROVE TypeOK'
  BY <1>3, SlotTypes DEF Activate, Phases, Pumping
<1>4. ASSUME NEW c \in Calls, CancelReservation(c) PROVE TypeOK'
  BY <1>4, SlotTypes DEF CancelReservation, Phases, Dispatching
<1>5. ASSUME NEW c \in Calls, DropDispatch(c) PROVE TypeOK'
  BY <1>5 DEF DropDispatch, Phases
<1>6. ASSUME NEW c \in Calls, PollCancelled(c) PROVE TypeOK'
  BY <1>6 DEF PollCancelled, Phases, Pumping
<1>7. ASSUME NEW c \in Calls, PollStream(c) PROVE TypeOK'
  BY <1>7 DEF PollStream, Phases, Pumping
<1>8. ASSUME NEW c \in Calls, RemoveSlot(c) PROVE TypeOK'
  BY <1>8, SlotTypes DEF RemoveSlot, Phases
<1>9. ASSUME NEW c \in Calls, NEW emitted \in BOOLEAN, Send(c, emitted) PROVE TypeOK'
  BY <1>9, SubscriptionAssumption
     DEF Send, AfterSend, SendPhases, Phases, Pumping
<1>10. ASSUME NEW c \in Calls, FireDrained(c) PROVE TypeOK'
  BY <1>10 DEF FireDrained
<1>11. ASSUME NEW i \in Ids, HandleStop(i) PROVE TypeOK'
  BY <1>11, SlotTypes DEF HandleStop, FireCancelOf, Slots, Revoked
<1>12. CASE DrainSlots
  BY <1>12, SlotTypes DEF DrainSlots
<1>13. CASE UNCHANGED vars
  BY <1>13 DEF vars
<1> QED
  BY <1>1, <1>2, <1>3, <1>4, <1>5, <1>6, <1>7, <1>8, <1>9, <1>10, <1>11, <1>12,
     <1>13 DEF Step

(* Type correctness of the manager, dispatches and pumps.                  *)
THEOREM TypeCorrect == Spec => []TypeOK
<1>1. Init => TypeOK
  BY TypeInit
<1>2. TypeOK /\ [Next]_vars => TypeOK'
  BY TypeStep, NextSteps
<1> QED
  BY <1>1, <1>2, PTL DEF Spec

-----------------------------------------------------------------------------
(* Each action keeps the safety invariant, conjunct by conjunct.           *)

(* A running stream is what its slot says it is.                           *)
LEMMA RunningIsLive ==
  ASSUME MapInv, NEW c \in Calls, Running(c)
  PROVE  /\ slots[rid[c]].st = "live"
         /\ slots[rid[c]].gen = gen[c]
         /\ slots[rid[c]].cancel = c
<1>1. slots[rid[c]] = Live(gen[c], c)
  BY DEF MapInv, NoUnstoppableStream
<1> QED
  BY <1>1 DEF Live

LEMMA DrawGenerationMap ==
  ASSUME TypeOK, MapInv, NEW c \in Calls, DrawGeneration(c)
  PROVE  MapInv'
<1> USE DEF TypeOK, MapInv, DrawGeneration, Goto, mapVars, callVars,
            frameVars, historyVars
<1>1. GenerationInv'
  BY DEF GenerationInv
<1>2. SlotInv'
  BY DEF Running, SlotInv
<1>3. NoUnstoppableStream'
  BY DEF Pumping, Running, NoUnstoppableStream
<1>4. CancelInv'
  BY DEF Pumping, Running, CancelInv
<1>5. StopInv'
  <2> SUFFICES ASSUME NEW d \in stopped'
               PROVE  /\ pc'[d] \notin {"idle", "reserving"}
                      /\ ~Running(d)'
                      /\ pc'[d] = "handling" => slots'[rid'[d]] # Pending(gen[d])'
    BY DEF StopInv
  <2>1. d \in Calls /\ d # c
    BY DEF StopInv
  <2> QED
    BY <2>1 DEF Running, StopInv
<1>6. ReservationInv'
  BY DEF ReservationInv
<1>7. NewestInv'
  BY DEF NewestInv
<1> QED
  BY <1>1, <1>2, <1>3, <1>4, <1>5, <1>6, <1>7

LEMMA DrawGenerationFrames ==
  ASSUME TypeOK, SafeInv, NEW c \in Calls, DrawGeneration(c)
  PROVE  FrameInv'
<1> USE DEF TypeOK, SafeInv, MapInv, FrameInv, DrawGeneration, Goto, mapVars, callVars,
            frameVars, historyVars
<1>1. LateInv'
  BY DEF LateInv
<1>2. InterruptInv'
  BY DEF InterruptInv
<1>3. NoSilentEnd'
  BY DEF NoSilentEnd
<1> QED
  BY <1>1, <1>2, <1>3

LEMMA ReserveMap ==
  ASSUME TypeOK, MapInv, NEW c \in Calls, Reserve(c)
  PROVE  MapInv'
<1> USE DEF TypeOK, MapInv, Reserve, FireCancelOf, Goto, mapVars, callVars,
            frameVars, historyVars
<1>1. GenerationInv'
  BY DEF GenerationInv
<1>2. SlotInv'
  BY DEF Running, SlotInv, Live, Pending, Revoked, Vacant
<1>3. NoUnstoppableStream'
  <2> SUFFICES ASSUME NEW d \in Calls, Running(d)'
               PROVE  slots'[rid'[d]] = Live(gen'[d], d)
    BY DEF NoUnstoppableStream
  <2>1. d # c /\ Running(d)
    BY DEF Running, Pumping
  <2>2. slots[rid[d]] = Live(gen[d], d)
    BY <2>1 DEF NoUnstoppableStream
  <2>3. rid[d] # rid[c]
    BY <2>2, NoCallIsNoCall DEF Running, Live
  <2> QED
    BY <2>2, <2>3
<1>4. CancelInv'
  <2> SUFFICES ASSUME NEW d \in Calls, d \in cancelled' \/ d \in draining'
               PROVE  /\ pc'[d] \in Pumping \cup {"done"}
                      /\ d \in stopped' \/ newest'[rid'[d]] # d
    BY DEF CancelInv
  <2>1. d # c /\ pc[d] \in Pumping \cup {"done"}
    <3>1. CASE d \in cancelled \/ d \in draining
      BY <3>1 DEF Pumping, CancelInv
    <3>2. CASE d = slots[rid[c]].cancel
      BY <3>2, NoCallIsNoCall DEF Running, SlotInv
    <3> QED
      BY <3>1, <3>2
  <2>2. rid[d] # rid[c] => d \in stopped \/ newest[rid[d]] # d
    <3>1. CASE d \in cancelled \/ d \in draining
      BY <3>1 DEF CancelInv
    <3>2. CASE d = slots[rid[c]].cancel
      BY <3>2, NoCallIsNoCall DEF SlotInv
    <3> QED
      BY <3>1, <3>2
  <2> QED
    BY <2>1, <2>2
<1>5. StopInv'
  BY DEF Running, StopInv, GenerationInv, Live, Pending, Revoked, Vacant
<1>6. ReservationInv'
  BY DEF ReservationInv
<1>7. NewestInv'
  BY DEF NewestInv
<1> QED
  BY <1>1, <1>2, <1>3, <1>4, <1>5, <1>6, <1>7

LEMMA ReserveFrames ==
  ASSUME TypeOK, SafeInv, NEW c \in Calls, Reserve(c)
  PROVE  FrameInv'
<1> USE DEF TypeOK, SafeInv, MapInv, FrameInv, Reserve, FireCancelOf, Goto, mapVars, callVars,
            frameVars, historyVars
<1>1. LateInv'
  BY DEF LateInv
<1>2. InterruptInv'
  BY DEF InterruptInv
<1>3. NoSilentEnd'
  BY DEF NoSilentEnd
<1> QED
  BY <1>1, <1>2, <1>3

LEMMA ActivateMap ==
  ASSUME TypeOK, MapInv, NEW c \in Calls, Activate(c)
  PROVE  MapInv'
<1> USE DEF TypeOK, MapInv, Activate, Reserved, Goto, mapVars, callVars,
            frameVars, historyVars
<1>1. GenerationInv'
  <2>1. PICK phase \in {"streaming", "done"} : pc' = [pc EXCEPT ![c] = phase]
    OBVIOUS
  <2>2. \A d \in Calls : pc'[d] # "idle" => pc[d] # "idle"
    BY <2>1
  <2>3. gen' = gen /\ nextGeneration' = nextGeneration
    OBVIOUS
  <2> QED
    BY <2>2, <2>3 DEF GenerationInv
<1>2. SlotInv'
  BY DEF Pumping, Running, CancelInv, SlotInv, GenerationInv, Live, Pending,
       Vacant
<1>3. NoUnstoppableStream'
  BY DEF Pumping, Running, Live, Pending, Revoked, NoUnstoppableStream
<1>4. CancelInv'
  <2> SUFFICES ASSUME NEW d \in Calls, d \in cancelled \/ d \in draining
               PROVE  /\ pc'[d] \in Pumping \cup {"done"}
                      /\ d \in stopped \/ newest[rid[d]] # d
    BY DEF CancelInv
  <2>1. pc[d] \in Pumping \cup {"done"} /\ (d \in stopped \/ newest[rid[d]] # d)
    BY DEF CancelInv
  <2>2. d # c
    BY <2>1 DEF Pumping
  <2>3. pc'[d] = pc[d]
    BY <2>2
  <2> QED
    BY <2>1, <2>3
<1>5. StopInv'
  BY DEF Pumping, Running, StopInv, Live, Pending, Vacant
<1>6. ReservationInv'
  BY DEF ReservationInv, GenerationInv, Pending, Revoked
<1>7. NewestInv'
  BY DEF NewestInv
<1> QED
  BY <1>1, <1>2, <1>3, <1>4, <1>5, <1>6, <1>7

LEMMA ActivateFrames ==
  ASSUME TypeOK, SafeInv, NEW c \in Calls, Activate(c)
  PROVE  FrameInv'
<1> USE DEF TypeOK, SafeInv, MapInv, FrameInv, Activate, Reserved, Goto, mapVars, callVars,
            frameVars, historyVars
<1>1. LateInv'
  BY DEF LateInv
<1>2. InterruptInv'
  BY DEF InterruptInv
<1>3. NoSilentEnd'
  BY DEF InterruptInv, ReservationInv, Pending, Revoked, NoSilentEnd
<1> QED
  BY <1>1, <1>2, <1>3

LEMMA CancelReservationMap ==
  ASSUME TypeOK, MapInv, NEW c \in Calls, CancelReservation(c)
  PROVE  MapInv'
<1> USE DEF TypeOK, MapInv, CancelReservation, Reserved, Goto, mapVars,
            callVars, frameVars, historyVars
<1>1. GenerationInv'
  BY DEF GenerationInv
<1>2. SlotInv'
  BY DEF Pumping, Running, SlotInv, Live, Pending, Revoked, Vacant
<1>3. NoUnstoppableStream'
  BY DEF Pumping, Running, Live, NoUnstoppableStream
<1>4. CancelInv'
  BY DEF Pumping, Running, CancelInv
<1>5. StopInv'
  BY DEF Pumping, Running, StopInv, Live, Pending, Revoked, Vacant
<1>6. ReservationInv'
  BY DEF ReservationInv, SlotInv, GenerationInv
<1>7. NewestInv'
  BY DEF NewestInv
<1> QED
  BY <1>1, <1>2, <1>3, <1>4, <1>5, <1>6, <1>7

LEMMA CancelReservationFrames ==
  ASSUME TypeOK, SafeInv, NEW c \in Calls, CancelReservation(c)
  PROVE  FrameInv'
<1> USE DEF TypeOK, SafeInv, MapInv, FrameInv, CancelReservation, Reserved, Goto, mapVars,
            callVars, frameVars, historyVars
<1>1. LateInv'
  BY DEF LateInv
<1>2. InterruptInv'
  BY DEF InterruptInv
<1>3. NoSilentEnd'
  BY DEF NoSilentEnd
<1> QED
  BY <1>1, <1>2, <1>3

LEMMA DropDispatchMap ==
  ASSUME TypeOK, MapInv, NEW c \in Calls, DropDispatch(c)
  PROVE  MapInv'
<1> USE DEF TypeOK, MapInv, DropDispatch, Goto, mapVars, callVars, frameVars,
            historyVars
<1>1. GenerationInv'
  BY DEF GenerationInv
<1>2. SlotInv'
  BY DEF Pumping, Running, SlotInv
<1>3. NoUnstoppableStream'
  BY DEF Pumping, Running, NoUnstoppableStream
<1>4. CancelInv'
  BY DEF Pumping, Running, CancelInv
<1>5. StopInv'
  BY DEF Pumping, Running, StopInv
<1>6. ReservationInv'
  BY DEF ReservationInv
<1>7. NewestInv'
  BY DEF NewestInv
<1> QED
  BY <1>1, <1>2, <1>3, <1>4, <1>5, <1>6, <1>7

LEMMA DropDispatchFrames ==
  ASSUME TypeOK, SafeInv, NEW c \in Calls, DropDispatch(c)
  PROVE  FrameInv'
<1> USE DEF TypeOK, SafeInv, MapInv, FrameInv, DropDispatch, Goto, mapVars, callVars, frameVars,
            historyVars
<1>1. LateInv'
  BY DEF LateInv
<1>2. InterruptInv'
  BY DEF InterruptInv
<1>3. NoSilentEnd'
  BY DEF NoSilentEnd
<1> QED
  BY <1>1, <1>2, <1>3

LEMMA PollCancelledMap ==
  ASSUME TypeOK, MapInv, NEW c \in Calls, PollCancelled(c)
  PROVE  MapInv'
<1> USE DEF TypeOK, MapInv, PollCancelled, Goto, mapVars, callVars, frameVars,
            historyVars
<1>1. GenerationInv'
  BY DEF GenerationInv
<1>2. SlotInv'
  BY DEF Running, SlotInv
<1>3. NoUnstoppableStream'
  BY DEF Running, NoUnstoppableStream
<1>4. CancelInv'
  BY DEF Pumping, Running, CancelInv
<1>5. StopInv'
  BY DEF Running, StopInv
<1>6. ReservationInv'
  BY DEF ReservationInv
<1>7. NewestInv'
  BY DEF NewestInv
<1> QED
  BY <1>1, <1>2, <1>3, <1>4, <1>5, <1>6, <1>7

LEMMA PollCancelledFrames ==
  ASSUME TypeOK, SafeInv, NEW c \in Calls, PollCancelled(c)
  PROVE  FrameInv'
<1> USE DEF TypeOK, SafeInv, MapInv, FrameInv, PollCancelled, Goto, mapVars, callVars, frameVars,
            historyVars
<1>1. LateInv'
  BY DEF LateInv
<1>2. InterruptInv'
  BY DEF InterruptInv
<1>3. NoSilentEnd'
  BY DEF NoSilentEnd
<1> QED
  BY <1>1, <1>2, <1>3

LEMMA PollStreamMap ==
  ASSUME TypeOK, MapInv, NEW c \in Calls, PollStream(c)
  PROVE  MapInv'
<1> USE DEF TypeOK, MapInv, PollStream, Goto, mapVars, callVars, frameVars,
            historyVars
<1>1. GenerationInv'
  <2>1. PICK phase \in {"sending", "interrupting", "completing"} : pc' = [pc EXCEPT ![c] = phase]
    OBVIOUS
  <2>2. \A d \in Calls : pc'[d] # "idle" => pc[d] # "idle"
    BY <2>1
  <2>3. gen' = gen /\ nextGeneration' = nextGeneration
    OBVIOUS
  <2> QED
    BY <2>2, <2>3 DEF GenerationInv
<1>2. SlotInv'
  BY DEF Pumping, Running, SlotInv
<1>3. NoUnstoppableStream'
  BY DEF Pumping, Running, NoUnstoppableStream
<1>4. CancelInv'
  BY DEF Pumping, Running, CancelInv
<1>5. StopInv'
  BY DEF Pumping, Running, StopInv
<1>6. ReservationInv'
  BY DEF ReservationInv
<1>7. NewestInv'
  BY DEF NewestInv
<1> QED
  BY <1>1, <1>2, <1>3, <1>4, <1>5, <1>6, <1>7

LEMMA PollStreamFrames ==
  ASSUME TypeOK, SafeInv, NEW c \in Calls, PollStream(c)
  PROVE  FrameInv'
<1> USE DEF TypeOK, SafeInv, MapInv, FrameInv, PollStream, Goto, mapVars, callVars, frameVars,
            historyVars
<1>1. LateInv'
  BY DEF LateInv
<1>2. InterruptInv'
  BY DEF InterruptInv
<1>3. NoSilentEnd'
  BY DEF NoSilentEnd
<1> QED
  BY <1>1, <1>2, <1>3

LEMMA RemoveSlotMap ==
  ASSUME TypeOK, MapInv, NEW c \in Calls, RemoveSlot(c)
  PROVE  MapInv'
<1> USE DEF TypeOK, MapInv, RemoveSlot, Owned, Goto, mapVars, callVars,
            frameVars, historyVars
<1>1. GenerationInv'
  BY DEF GenerationInv
<1>2. SlotInv'
  BY DEF Running, SlotInv, Live, Pending, Revoked, Vacant
<1>3. NoUnstoppableStream'
  BY DEF Pumping, Running, GenerationInv, Live, NoUnstoppableStream
<1>4. CancelInv'
  BY DEF Running, CancelInv, SlotInv, GenerationInv
<1>5. StopInv'
  BY DEF Pumping, Running, StopInv, Live, Pending, Revoked, Vacant
<1>6. ReservationInv'
  BY DEF ReservationInv, Pending
<1>7. NewestInv'
  BY DEF NewestInv
<1> QED
  BY <1>1, <1>2, <1>3, <1>4, <1>5, <1>6, <1>7

LEMMA RemoveSlotFrames ==
  ASSUME TypeOK, SafeInv, NEW c \in Calls, RemoveSlot(c)
  PROVE  FrameInv'
<1> USE DEF TypeOK, SafeInv, MapInv, FrameInv, RemoveSlot, Owned, Goto, mapVars, callVars,
            frameVars, historyVars
<1>1. LateInv'
  BY DEF LateInv
<1>2. InterruptInv'
  BY DEF InterruptInv
<1>3. NoSilentEnd'
  <2> SUFFICES ASSUME NEW d \in Calls, pc'[d] = "done"
               PROVE  \/ interrupts'[d] = 1
                      \/ interrupts'[d] = 0 /\ (d \in stopped' \/ newest'[rid'[d]] # d)
    BY DEF NoSilentEnd
  <2>1. CASE d # c
    BY <2>1 DEF NoSilentEnd
  <2>2. CASE d = c /\ pc[c] = "leaving"
    BY <2>2 DEF InterruptInv, CancelInv
  <2>3. CASE d = c /\ pc[c] = "completing"
    <3>1. ~Owned(c)
      BY <2>3 DEF Phases
    <3>2. ~Running(c)
      BY <3>1, RunningIsLive
    <3> QED
      BY <2>3, <3>2 DEF Pumping, Running, InterruptInv, CancelInv
  <2> QED
    BY <2>1, <2>2, <2>3
<1> QED
  BY <1>1, <1>2, <1>3

LEMMA SendMap ==
  ASSUME TypeOK, MapInv, NEW c \in Calls, NEW emitted \in BOOLEAN, Send(c, emitted)
  PROVE  MapInv'
<1> USE DEF TypeOK, MapInv, Send, AfterSend, SendPhases, Goto, mapVars,
            callVars, frameVars, historyVars
<1>1. GenerationInv'
  BY DEF GenerationInv
<1>2. SlotInv'
  BY DEF Pumping, Running, SlotInv
<1>3. NoUnstoppableStream'
  BY DEF Pumping, Running, NoUnstoppableStream
<1>4. CancelInv'
  BY DEF Pumping, Running, CancelInv
<1>5. StopInv'
  BY DEF Pumping, Running, StopInv
<1>6. ReservationInv'
  BY DEF ReservationInv
<1>7. NewestInv'
  BY DEF NewestInv
<1> QED
  BY <1>1, <1>2, <1>3, <1>4, <1>5, <1>6, <1>7

LEMMA SendFrames ==
  ASSUME TypeOK, SafeInv, NEW c \in Calls, Send(c, TRUE)
  PROVE  FrameInv'
<1> USE DEF TypeOK, SafeInv, MapInv, FrameInv, Send, AfterSend, SendPhases, Goto, mapVars,
            callVars, frameVars, historyVars
<1>1. LateInv'
  BY DEF LateInv
<1>2. InterruptInv'
  BY DEF InterruptInv
<1>3. NoSilentEnd'
  BY DEF InterruptInv, Revoked, Vacant, NoSilentEnd
<1> QED
  BY <1>1, <1>2, <1>3

LEMMA FireDrainedMap ==
  ASSUME TypeOK, MapInv, NEW c \in Calls, FireDrained(c)
  PROVE  MapInv'
<1> USE DEF TypeOK, MapInv, FireDrained, Goto, mapVars, callVars, frameVars,
            historyVars
<1>1. GenerationInv'
  BY DEF GenerationInv
<1>2. SlotInv'
  BY DEF Running, SlotInv
<1>3. NoUnstoppableStream'
  BY DEF Running, NoUnstoppableStream
<1>4. CancelInv'
  BY DEF CancelInv
<1>5. StopInv'
  BY DEF Running, StopInv
<1>6. ReservationInv'
  BY DEF ReservationInv
<1>7. NewestInv'
  BY DEF NewestInv
<1> QED
  BY <1>1, <1>2, <1>3, <1>4, <1>5, <1>6, <1>7

LEMMA FireDrainedFrames ==
  ASSUME TypeOK, SafeInv, NEW c \in Calls, FireDrained(c)
  PROVE  FrameInv'
<1> USE DEF TypeOK, SafeInv, MapInv, FrameInv, FireDrained, Goto, mapVars, callVars, frameVars,
            historyVars
<1>1. LateInv'
  BY DEF LateInv
<1>2. InterruptInv'
  BY DEF InterruptInv
<1>3. NoSilentEnd'
  BY DEF NoSilentEnd
<1> QED
  BY <1>1, <1>2, <1>3

LEMMA HandleStopMap ==
  ASSUME TypeOK, MapInv, NEW i \in Ids, HandleStop(i)
  PROVE  MapInv'
<1> USE DEF TypeOK, MapInv, HandleStop, FireCancelOf, UnderWay, Goto, mapVars,
            callVars, frameVars, historyVars
<1>1. GenerationInv'
  BY DEF GenerationInv
<1>2. SlotInv'
  BY DEF Running, SlotInv, Live, Pending, Revoked, Vacant
<1>3. NoUnstoppableStream'
  <2> SUFFICES ASSUME NEW d \in Calls, Running(d)'
               PROVE  slots'[rid'[d]] = Live(gen'[d], d)
    BY DEF NoUnstoppableStream
  <2>1. Running(d)
    BY DEF Running
  <2>2. slots[rid[d]] = Live(gen[d], d)
    BY <2>1 DEF NoUnstoppableStream
  <2>3. rid[d] # i
    BY <2>2, NoCallIsNoCall DEF Running, Live
  <2> QED
    BY <2>2, <2>3
<1>4. CancelInv'
  BY DEF Running, CancelInv, SlotInv
<1>5. StopInv'
  <2> SUFFICES ASSUME NEW d \in stopped'
               PROVE  /\ pc'[d] \notin {"idle", "reserving"}
                      /\ ~Running(d)'
                      /\ pc'[d] = "handling" => slots'[rid'[d]] # Pending(gen[d])'
    BY DEF StopInv
  <2>1. CASE d \in stopped
    <3>1. d \in Calls /\ ~Running(d)' /\ pc[d] \notin {"idle", "reserving"}
      BY <2>1 DEF Running, StopInv
    <3>2. ASSUME pc[d] = "handling" PROVE slots'[rid[d]] # Pending(gen[d])
      BY <2>1, <3>1, <3>2 DEF StopInv, Pending, Revoked, Vacant
    <3> QED
      BY <3>1, <3>2
  <2>2. CASE d \in Calls /\ rid[d] = i /\ UnderWay(d)
    <3>1. slots'[i] # Pending(gen[d])
      BY <2>2 DEF Pending, Revoked, Vacant
    <3>2. CASE Running(d)
      <4>1. slots[i].cancel = d
        BY <2>2, <3>2, RunningIsLive
      <4>2. d \in cancelled'
        BY <2>2, <4>1, NoCallIsNoCall
      <4> QED
        BY <2>2, <3>1, <3>2, <4>2 DEF Pumping, Running
    <3>3. CASE ~Running(d)
      BY <2>2, <3>1, <3>3 DEF Pumping, Running
    <3> QED
      BY <3>2, <3>3
  <2> QED
    BY <2>1, <2>2
<1>6. ReservationInv'
  BY DEF ReservationInv
<1>7. NewestInv'
  BY DEF NewestInv
<1> QED
  BY <1>1, <1>2, <1>3, <1>4, <1>5, <1>6, <1>7

LEMMA HandleStopFrames ==
  ASSUME TypeOK, SafeInv, NEW i \in Ids, HandleStop(i)
  PROVE  FrameInv'
<1> USE DEF TypeOK, SafeInv, MapInv, FrameInv, HandleStop, FireCancelOf, UnderWay, Goto, mapVars,
            callVars, frameVars, historyVars
<1>1. LateInv'
  BY DEF LateInv
<1>2. InterruptInv'
  BY DEF InterruptInv
<1>3. NoSilentEnd'
  BY DEF NoSilentEnd
<1> QED
  BY <1>1, <1>2, <1>3

LEMMA DrainSlotsMap ==
  ASSUME TypeOK, MapInv, DrainSlots
  PROVE  MapInv'
<1> USE DEF TypeOK, MapInv, DrainSlots, UnderWay, Goto, mapVars, callVars,
            frameVars, historyVars
<1>1. GenerationInv'
  BY DEF GenerationInv
<1>2. SlotInv'
  BY DEF SlotInv, Live, Pending, Revoked, Vacant
<1>3. NoUnstoppableStream'
  BY DEF Running, Live, NoUnstoppableStream
<1>4. CancelInv'
  BY DEF Running, CancelInv, SlotInv
<1>5. StopInv'
  <2> SUFFICES ASSUME NEW d \in stopped'
               PROVE  /\ pc'[d] \notin {"idle", "reserving"}
                      /\ ~Running(d)'
                      /\ pc'[d] = "handling" => slots'[rid'[d]] # Pending(gen[d])'
    BY DEF StopInv
  <2>1. d \in Calls /\ pc[d] \notin {"idle", "reserving"}
    BY DEF StopInv, Pumping
  <2>2. slots'[rid[d]] # Pending(gen[d])
    BY <2>1 DEF Pending, Vacant
  <2>3. CASE Running(d)
    <3>1. slots[rid[d]].st = "live" /\ slots[rid[d]].cancel = d
      BY <2>1, <2>3, RunningIsLive
    <3>2. d \in draining'
      BY <2>1, <3>1
    <3> QED
      BY <2>1, <2>2, <3>2 DEF Running
  <2>4. CASE ~Running(d)
    BY <2>1, <2>2, <2>4 DEF Running
  <2> QED
    BY <2>3, <2>4
<1>6. ReservationInv'
  BY DEF ReservationInv
<1>7. NewestInv'
  BY DEF NewestInv
<1> QED
  BY <1>1, <1>2, <1>3, <1>4, <1>5, <1>6, <1>7

LEMMA DrainSlotsFrames ==
  ASSUME TypeOK, SafeInv, DrainSlots
  PROVE  FrameInv'
<1> USE DEF TypeOK, SafeInv, MapInv, FrameInv, DrainSlots, UnderWay, Goto, mapVars, callVars,
            frameVars, historyVars
<1>1. LateInv'
  BY DEF LateInv
<1>2. InterruptInv'
  BY DEF InterruptInv
<1>3. NoSilentEnd'
  BY DEF NoSilentEnd
<1> QED
  BY <1>1, <1>2, <1>3


-----------------------------------------------------------------------------
(* The invariant, and what follows from it.                                *)

LEMMA SafeInit == Init => SafeInv
<1> SUFFICES ASSUME Init PROVE SafeInv
  OBVIOUS
<1> USE DEF Init
<1>1. GenerationInv
  BY DEF GenerationInv
<1>2. SlotInv
  BY DEF SlotInv, Vacant
<1>3. NoUnstoppableStream /\ CancelInv /\ StopInv /\ ReservationInv
  BY DEF NoUnstoppableStream, CancelInv, StopInv, ReservationInv, Running, Pumping
<1>4. NewestInv
  BY NoCallIsNoCall DEF NewestInv
<1>5. FrameInv
  BY DEF FrameInv, LateInv, InterruptInv, NoSilentEnd
<1> QED
  BY <1>1, <1>2, <1>3, <1>4, <1>5 DEF SafeInv, MapInv

(* Whoever drives the manager, and whatever its transport does, the map    *)
(* stays what it should be.                                                *)
LEMMA MapStep ==
  ASSUME TypeOK, MapInv, Step \/ UNCHANGED vars
  PROVE  MapInv'
<1>1. ASSUME NEW c \in Calls,
             \/ DrawGeneration(c) \/ Reserve(c) \/ Activate(c)
             \/ CancelReservation(c) \/ DropDispatch(c)
             \/ PollCancelled(c) \/ PollStream(c) \/ RemoveSlot(c) \/ FireDrained(c)
      PROVE  MapInv'
  BY <1>1, DrawGenerationMap, ReserveMap, ActivateMap, CancelReservationMap,
     DropDispatchMap, PollCancelledMap, PollStreamMap, RemoveSlotMap, FireDrainedMap
<1>2. ASSUME NEW c \in Calls, NEW emitted \in BOOLEAN, Send(c, emitted) PROVE MapInv'
  BY <1>2, SendMap
<1>3. ASSUME NEW i \in Ids, HandleStop(i) PROVE MapInv'
  BY <1>3, HandleStopMap
<1>4. ASSUME DrainSlots PROVE MapInv'
  BY <1>4, DrainSlotsMap
<1>5. ASSUME UNCHANGED vars PROVE MapInv'
  BY <1>5 DEF vars, MapInv, GenerationInv, SlotInv, NoUnstoppableStream, CancelInv,
              StopInv, ReservationInv, NewestInv, Running
<1> QED
  BY <1>1, <1>2, <1>3, <1>4, <1>5 DEF Step

LEMMA InvNext == IInv /\ [Next]_vars => IInv'
<1> SUFFICES ASSUME IInv, [Next]_vars PROVE IInv'
  OBVIOUS
<1>1. TypeOK /\ SafeInv
  BY DEF IInv
<1>2. TypeOK' /\ MapInv'
  BY <1>1, TypeStep, MapStep, NextSteps DEF SafeInv
<1>3. ASSUME NEW c \in Calls,
             \/ DrawGeneration(c) \/ Reserve(c) \/ Activate(c)
             \/ CancelReservation(c) \/ DropDispatch(c)
             \/ PollCancelled(c) \/ PollStream(c) \/ RemoveSlot(c)
             \/ Send(c, TRUE) \/ FireDrained(c)
      PROVE  FrameInv'
  BY <1>1, <1>3, DrawGenerationFrames, ReserveFrames, ActivateFrames,
     CancelReservationFrames, DropDispatchFrames, PollCancelledFrames,
     PollStreamFrames, RemoveSlotFrames, SendFrames, FireDrainedFrames
<1>4. ASSUME NEW i \in Ids, HandleStop(i) PROVE FrameInv'
  BY <1>1, <1>4, HandleStopFrames
<1>5. ASSUME DrainSlots PROVE FrameInv'
  BY <1>1, <1>5, DrainSlotsFrames
<1>6. ASSUME UNCHANGED vars PROVE FrameInv'
  BY <1>1, <1>6 DEF vars, SafeInv, FrameInv, LateInv, InterruptInv, NoSilentEnd
<1>7. FrameInv'
  BY <1>3, <1>4, <1>5, <1>6 DEF Next, DispatchStep, PumpStep
<1> QED
  BY <1>2, <1>7 DEF IInv, SafeInv

(* The inductive invariant holds in every state the manager reaches,       *)
(* however dispatches, pumps, stops and cancel_all interleave.             *)
THEOREM Safety == Spec => []IInv
<1>1. Init => IInv
  BY TypeInit, SafeInit DEF IInv
<1>2. IInv /\ [Next]_vars => IInv'
  BY InvNext
<1> QED
  BY <1>1, <1>2, PTL DEF Spec

(* No stream is unstoppable: a pump nobody has told to end sits behind the *)
(* live slot of its id, where handle_stop, reserve and cancel_all find it. *)
THEOREM NoUnstoppableStreamHolds == Spec => []NoUnstoppableStream
<1>1. IInv => NoUnstoppableStream
  BY DEF IInv, SafeInv, MapInv, FrameInv
<1> QED
  BY <1>1, Safety, PTL

(* The `active` map holds no live slot whose pump is over or cancelled.    *)
THEOREM LiveSlotHasStreamHolds == Spec => []LiveSlotHasStream
<1>1. IInv => LiveSlotHasStream
  <2> SUFFICES ASSUME IInv, NEW i \in Ids, slots[i].st = "live"
               PROVE  /\ slots[i].cancel \in Calls
                      /\ rid[slots[i].cancel] = i
                      /\ Running(slots[i].cancel)
    BY DEF LiveSlotHasStream
  <2> QED
    BY DEF IInv, SafeInv, MapInv, SlotInv
<1> QED
  BY <1>1, Safety, PTL

(* A re-subscribe wins: only the newest reservation of an id has a running *)
(* stream, in whatever order the handlers resolve.                         *)
THEOREM NewestReservationWinsHolds == Spec => []NewestReservationWins
<1>1. IInv => NewestReservationWins
  <2> SUFFICES ASSUME IInv, NEW c \in Calls, Running(c)
               PROVE  newest[rid[c]] = c
    BY DEF NewestReservationWins
  <2>1. MapInv /\ rid[c] \in Ids
    BY DEF IInv, SafeInv, TypeOK
  <2>2. slots[rid[c]].st = "live" /\ slots[rid[c]].cancel = c
    BY <2>1, RunningIsLive
  <2> QED
    BY <2>1, <2>2 DEF MapInv, SlotInv
<1> QED
  BY <1>1, Safety, PTL

(* A `_stop` or a cancel_all is final for every call it found under way.   *)
THEOREM StopIsFinalHolds == Spec => []StopIsFinal
<1>1. IInv => StopIsFinal
  BY DEF IInv, SafeInv, MapInv, StopInv, StopIsFinal
<1> QED
  BY <1>1, Safety, PTL

(* A cancelled pump sends at most the one frame it already holds, and a    *)
(* pump about to send the completion interrupt was never cancelled.        *)
THEOREM OneLateFrameHolds == Spec => []OneLateFrame
<1>1. IInv => OneLateFrame
  <2> SUFFICES ASSUME IInv, NEW c \in Calls
               PROVE  late[c] <= 1 /\ (pc[c] = "closing" => c \notin cancelled)
    BY DEF OneLateFrame
  <2>1. late[c] <= 1
    BY DEF IInv, SafeInv, FrameInv, LateInv
  <2>2. pc[c] = "closing" => c \notin cancelled
    BY DEF IInv, SafeInv, MapInv, CancelInv, Pumping
  <2> QED
    BY <2>1, <2>2
<1> QED
  BY <1>1, Safety, PTL

(* A call that is over sent exactly one terminating `_interrupt`, unless   *)
(* it was stopped or a newer `_start` took over its id.                    *)
THEOREM NoSilentEndHolds == Spec => []NoSilentEnd
<1>1. IInv => NoSilentEnd
  BY DEF IInv, SafeInv, MapInv, FrameInv
<1> QED
  BY <1>1, Safety, PTL

-----------------------------------------------------------------------------
(* The manager implements the safety part of SubscriptionContract: initial *)
(* states map to initial states, and each step of a dispatch, a pump, a    *)
(* stop or a cancel_all to a step of the contract or to none.              *)

(* The states of the contract, told apart by phase.                        *)
LEMMA StateOf ==
  ASSUME TypeOK, NEW c \in Calls
  PROVE  /\ pc[c] \in {"idle", "reserving", "handling"} => ContractState(c) = "requested"
         /\ pc[c] \in {"failing", "closing"} => ContractState(c) = "ending"
         /\ pc[c] \in {"done", "dropped", "leaving"} => ContractState(c) = "over"
         /\ pc[c] \in Pumping \ {"leaving"} =>
              ContractState(c) = IF c \in cancelled THEN "revoked"
                                 ELSE IF c \in draining THEN "abandoned" ELSE "open"
BY DEF ContractState, Pumping

(* An open subscribe is one that runs.                                     *)
LEMMA OpenRuns ==
  ASSUME TypeOK, NEW c \in Calls, ContractState(c) = "open"
  PROVE  Running(c) /\ pc[c] \in Pumping \ {"leaving"}
BY DEF ContractState, Running, TypeOK, Phases, Dispatching, Pumping

(* One subscribe changes its state and the others keep theirs, or nobody's *)
(* changes.                                                                *)
LEMMA OneBecomes ==
  ASSUME NEW c \in Calls, NEW s, ContractState(c)' = s,
         \A d \in Calls : d # c => ContractState(d)' = ContractState(d)
  PROVE  Contract!Become(c, s)
BY DEF Contract!Become

LEMMA NobodyMoves ==
  ASSUME \A d \in Calls : ContractState(d)' = ContractState(d),
         UNCHANGED <<rid, items, interrupts, late>>
  PROVE  UNCHANGED Contract!vars
BY DEF Contract!vars

LEMMA InitSimulated == Init => Contract!Init
<1> SUFFICES ASSUME Init PROVE Contract!Init
  OBVIOUS
<1>1. \A c \in Calls : ContractState(c) = "requested"
  BY DEF Init, ContractState
<1>2. [c \in Calls |-> late[c] > 0] = [c \in Calls |-> FALSE]
  <2>1. \A c \in Calls : (late[c] > 0) = FALSE
    BY DEF Init
  <2> QED
    BY <2>1, Zenon
<1> QED
  BY <1>1, <1>2 DEF Init, Contract!Init

(* Whatever fires the cancel closure of a live slot revokes its stream.    *)
LEMMA FireRevokes ==
  ASSUME TypeOK, TypeOK', MapInv, NEW i \in Ids, FireCancelOf(slots[i]),
         UNCHANGED <<draining, rid, items, interrupts, late>>,
         \A d \in Calls : \/ pc'[d] = pc[d]
                          \/ {pc[d], pc'[d]} \subseteq {"reserving", "handling"}
  PROVE  [Contract!Next]_(Contract!vars)
<1>0. PICK d : d = slots[i].cancel
  OBVIOUS
<1>1. \A e \in Calls : e # d => ContractState(e)' = ContractState(e)
  BY <1>0 DEF FireCancelOf, ContractState, Pumping, TypeOK
<1>2. CASE d = NoCall \/ d \notin Calls
  BY <1>1, <1>2, NobodyMoves, NoCallIsNoCall
<1>3. CASE d \in Calls /\ d # NoCall
  <2>1. slots[i].st = "live" /\ Running(d)
    BY <1>0, <1>3 DEF MapInv, SlotInv
  <2>2. pc'[d] = pc[d] /\ d \in cancelled' /\ rid' = rid
    BY <1>0, <1>3, <2>1 DEF Running, Pumping, FireCancelOf
  <2>3. CASE pc[d] = "leaving"
    <3>1. ContractState(d)' = ContractState(d)
      BY <2>2, <2>3 DEF ContractState
    <3> QED
      BY <1>1, <3>1, NobodyMoves
  <2>4. CASE pc[d] # "leaving"
    <3>1. ContractState(d) = "open" /\ ContractState(d)' = "revoked"
      BY <1>3, <2>1, <2>2, <2>4 DEF ContractState, Running, Pumping
    <3>2. Contract!Become(d, "revoked")
      BY <1>1, <1>3, <3>1, OneBecomes
    <3>3. Contract!Revoke(d)
      BY <1>3, <3>1, <3>2 DEF Contract!Revoke
    <3> QED
      BY <1>3, <3>3 DEF Contract!Next
  <2> QED
    BY <2>3, <2>4
<1> QED
  BY <1>2, <1>3

LEMMA ActivateSimulated ==
  ASSUME TypeOK, TypeOK', MapInv, NEW c \in Calls, Activate(c)
  PROVE  [Contract!Next]_(Contract!vars)
<1> USE DEF Activate, Goto, mapVars, callVars, frameVars, historyVars
<1>1. ContractState(c) = "requested"
  BY DEF ContractState
<1>2. c \notin cancelled /\ c \notin draining
  BY DEF MapInv, CancelInv, Pumping
<1>3. \A d \in Calls : d # c => ContractState(d)' = ContractState(d)
  BY DEF ContractState, TypeOK
<1>4. UNCHANGED <<rid, items, interrupts, late>>
  OBVIOUS
<1>5. CASE slots[rid[c]] = Pending(gen[c]) /\ pc' = [pc EXCEPT ![c] = "streaming"]
  <2>1. ContractState(c)' = "open"
    BY <1>2, <1>5 DEF ContractState, TypeOK
  <2>2. Contract!Become(c, "open")
    BY <1>3, <2>1, OneBecomes
  <2>3. ASSUME NEW d \in Calls, ContractState(d) = "open" PROVE rid[d] # rid[c]
    <3>1. slots[rid[d]].st = "live"
      BY <2>3, OpenRuns, RunningIsLive
    <3> QED
      BY <1>5, <3>1 DEF Pending
  <2>4. Contract!Open(c)
    BY <1>1, <1>4, <2>2, <2>3 DEF Contract!Open
  <2> QED
    BY <2>4 DEF Contract!Next
<1>6. CASE pc' = [pc EXCEPT ![c] = "done"]
  <2>1. ContractState(c)' = "over"
    BY <1>6 DEF ContractState, TypeOK
  <2>2. Contract!Become(c, "over")
    BY <1>3, <2>1, OneBecomes
  <2>3. Contract!Forget(c)
    BY <1>1, <1>4, <2>2 DEF Contract!Forget
  <2> QED
    BY <2>3 DEF Contract!Next
<1> QED
  BY <1>5, <1>6

\* The handler failed, the future was dropped, or a cancelled pump noticed.
LEMMA LeaveSimulated ==
  ASSUME TypeOK, TypeOK', MapInv, NEW c \in Calls,
         CancelReservation(c) \/ DropDispatch(c) \/ PollCancelled(c)
  PROVE  [Contract!Next]_(Contract!vars)
<1> USE DEF CancelReservation, DropDispatch, PollCancelled, Goto, mapVars, callVars,
            frameVars, historyVars
<1>1. \A d \in Calls : d # c => ContractState(d)' = ContractState(d)
  BY DEF ContractState, TypeOK
<1>2. UNCHANGED <<rid, items, interrupts, late>>
  OBVIOUS
<1>3. CASE CancelReservation(c)
  <2>1. ContractState(c) = "requested" /\ ContractState(c)' = "ending"
    BY <1>3 DEF ContractState, TypeOK
  <2>2. Contract!End(c)
    BY <1>1, <1>2, <2>1, OneBecomes DEF Contract!End
  <2> QED
    BY <2>2 DEF Contract!Next
<1>4. CASE DropDispatch(c)
  <2>1. ContractState(c) = "requested" /\ ContractState(c)' = "over"
    BY <1>4 DEF ContractState, TypeOK
  <2>2. Contract!Forget(c)
    BY <1>1, <1>2, <2>1, OneBecomes DEF Contract!Forget
  <2> QED
    BY <2>2 DEF Contract!Next
<1>5. CASE PollCancelled(c)
  <2>1. ContractState(c) = "revoked" /\ ContractState(c)' = "over"
    BY <1>5 DEF ContractState, TypeOK
  <2>2. Contract!Finish(c)
    BY <1>1, <1>2, <2>1, OneBecomes DEF Contract!Finish
  <2> QED
    BY <2>2 DEF Contract!Next
<1> QED
  BY <1>3, <1>4, <1>5

\* A finished stream is still open exactly when its slot is still its own.
LEMMA RemoveSlotSimulated ==
  ASSUME TypeOK, TypeOK', MapInv, NEW c \in Calls, RemoveSlot(c)
  PROVE  [Contract!Next]_(Contract!vars)
<1> USE DEF RemoveSlot, Goto, mapVars, callVars, frameVars, historyVars
<1>1. \A d \in Calls : d # c => ContractState(d)' = ContractState(d)
  BY DEF ContractState, TypeOK
<1>2. UNCHANGED <<rid, items, interrupts, late>>
  OBVIOUS
<1>3. CASE pc[c] = "leaving"
  <2>1. ContractState(c)' = ContractState(c)
    BY <1>3 DEF ContractState, TypeOK
  <2> QED
    BY <1>1, <1>2, <2>1, NobodyMoves
<1>4. CASE pc[c] = "completing" /\ Owned(c)
  <2>1. Running(c)
    <3>1. newest[rid[c]] = c
      BY <1>4 DEF Owned, MapInv, SlotInv, GenerationInv, TypeOK
    <3> QED
      BY <1>4, <3>1 DEF Owned, MapInv, SlotInv, TypeOK
  <2>2. ContractState(c) = "open" /\ ContractState(c)' = "ending"
    BY <1>4, <2>1 DEF ContractState, Running, TypeOK
  <2>3. Contract!End(c)
    BY <1>1, <1>2, <2>2, OneBecomes DEF Contract!End
  <2> QED
    BY <2>3 DEF Contract!Next
<1>5. CASE pc[c] = "completing" /\ ~Owned(c)
  <2>1. ~Running(c)
    BY <1>5, RunningIsLive DEF Owned
  <2>2. ContractState(c) \in {"revoked", "abandoned"} /\ ContractState(c)' = "over"
    BY <1>5, <2>1 DEF ContractState, Running, Pumping, TypeOK
  <2>3. Contract!Finish(c)
    BY <1>1, <1>2, <2>2, OneBecomes DEF Contract!Finish
  <2> QED
    BY <2>3 DEF Contract!Next
<1> QED
  BY <1>3, <1>4, <1>5

\* A straggler is sent by a pump that has sent none since it was cancelled.
LEMMA SendSimulated ==
  ASSUME TypeOK, TypeOK', SafeInv, NEW c \in Calls, Send(c, TRUE)
  PROVE  [Contract!Next]_(Contract!vars)
<1> USE DEF Send, AfterSend, SendPhases, Goto, mapVars, callVars, historyVars
<1>1. \A d \in Calls : d # c => ContractState(d)' = ContractState(d)
  BY DEF ContractState, TypeOK
<1>2. rid' = rid
  OBVIOUS
<1>3. c \notin cancelled => late' = late
  BY DEF TypeOK
<1>4. pc[c] = "sending" => Contract!Yield(c) /\ interrupts' = interrupts
  BY DEF Contract!Yield, TypeOK
<1>5. pc[c] # "sending" => Contract!Tell(c) /\ items' = items
  BY DEF Contract!Tell, TypeOK
<1>6. c \in cancelled /\ pc[c] \in {"sending", "interrupting"} =>
        /\ ~(late[c] > 0)
        /\ [d \in Calls |-> late'[d] > 0] = [[d \in Calls |-> late[d] > 0] EXCEPT ![c] = TRUE]
  <2> SUFFICES ASSUME c \in cancelled, pc[c] \in {"sending", "interrupting"}
               PROVE  /\ ~(late[c] > 0)
                      /\ [d \in Calls |-> late'[d] > 0] =
                           [[d \in Calls |-> late[d] > 0] EXCEPT ![c] = TRUE]
    OBVIOUS
  <2>1. ~(late[c] > 0)
    BY DEF SafeInv, FrameInv, LateInv
  <2>2. late[c] = 0 /\ late' = [late EXCEPT ![c] = late[c] + 1]
    BY <2>1 DEF TypeOK
  <2>3. \A d \in Calls : (late'[d] > 0) = IF d = c THEN TRUE ELSE late[d] > 0
    <3>1. (late'[c] > 0) = TRUE
      BY <2>2 DEF TypeOK
    <3>2. ASSUME NEW d \in Calls, d # c PROVE (late'[d] > 0) = (late[d] > 0)
      <4>1. late'[d] = late[d]
        BY <2>2, <3>2 DEF TypeOK
      <4> QED
        BY <4>1
    <3> QED
      BY <3>1, <3>2
  <2> QED
    BY <2>1, <2>3, Zenon
<1>7. CASE pc[c] \in {"closing", "failing"}
  <2>1. c \notin cancelled
    BY <1>7 DEF SafeInv, MapInv, CancelInv, Pumping
  <2>2. ContractState(c) = "ending" /\ ContractState(c)' = "over"
    BY <1>7 DEF ContractState, TypeOK
  <2>3. Contract!Report(c)
    BY <1>1, <1>2, <1>3, <1>5, <1>7, <2>1, <2>2, OneBecomes DEF Contract!Report
  <2> QED
    BY <2>3 DEF Contract!Next
<1>8. CASE pc[c] = "sending"
  <2>1. ContractState(c) = IF c \in cancelled THEN "revoked"
                           ELSE IF c \in draining THEN "abandoned" ELSE "open"
    BY <1>8 DEF ContractState
  <2>2. ContractState(c)' = ContractState(c)
    BY <1>8 DEF ContractState, TypeOK
  <2>3. [d \in Calls |-> ContractState(d)'] = [d \in Calls |-> ContractState(d)]
    BY <1>1, <2>2
  <2>4. CASE c \in cancelled
    <3>1. Contract!Straggle(c)
      BY <1>2, <1>4, <1>6, <1>8, <2>1, <2>3, <2>4 DEF Contract!Straggle
    <3> QED
      BY <3>1 DEF Contract!Next
  <2>5. CASE c \notin cancelled
    <3>1. Contract!Item(c)
      BY <1>2, <1>3, <1>4, <1>8, <2>1, <2>3, <2>5 DEF Contract!Item
    <3> QED
      BY <3>1 DEF Contract!Next
  <2> QED
    BY <2>4, <2>5
<1>9. CASE pc[c] = "interrupting"
  <2>1. ContractState(c) = IF c \in cancelled THEN "revoked"
                           ELSE IF c \in draining THEN "abandoned" ELSE "open"
    BY <1>9 DEF ContractState
  <2>2. ContractState(c)' = "over"
    BY <1>9 DEF ContractState, TypeOK
  <2>3. Contract!Become(c, "over")
    BY <1>1, <2>2, OneBecomes
  <2>4. CASE c \in cancelled
    <3>1. Contract!Straggle(c)
      BY <1>2, <1>5, <1>6, <1>9, <2>1, <2>3, <2>4 DEF Contract!Straggle
    <3> QED
      BY <3>1 DEF Contract!Next
  <2>5. CASE c \notin cancelled
    <3>1. Contract!Interrupt(c)
      BY <1>2, <1>3, <1>5, <1>9, <2>1, <2>3, <2>5 DEF Contract!Interrupt
    <3> QED
      BY <3>1 DEF Contract!Next
  <2> QED
    BY <2>4, <2>5
<1> QED
  BY <1>7, <1>8, <1>9

LEMMA FireDrainedSimulated ==
  ASSUME TypeOK, TypeOK', MapInv, NEW c \in Calls, FireDrained(c)
  PROVE  [Contract!Next]_(Contract!vars)
<1> USE DEF FireDrained, callVars, frameVars, historyVars
<1>1. \A d \in Calls : d # c => ContractState(d)' = ContractState(d)
  BY DEF ContractState, TypeOK
<1>2. UNCHANGED <<rid, items, interrupts, late>>
  OBVIOUS
<1>3. CASE c \in cancelled \/ pc[c] \in {"leaving", "done"}
  <2>1. ContractState(c)' = ContractState(c)
    BY <1>3 DEF ContractState
  <2> QED
    BY <1>1, <1>2, <2>1, NobodyMoves
<1>4. CASE c \notin cancelled /\ pc[c] \notin {"leaving", "done"}
  <2>1. pc[c] \in Pumping \ {"leaving"}
    BY <1>4 DEF MapInv, CancelInv
  <2>2. ContractState(c) = "abandoned" /\ ContractState(c)' = "revoked"
    BY <1>4, <2>1 DEF ContractState, Pumping
  <2>3. Contract!Revoke(c)
    BY <1>1, <1>2, <2>2, OneBecomes DEF Contract!Revoke
  <2> QED
    BY <2>3 DEF Contract!Next
<1> QED
  BY <1>3, <1>4

LEMMA DrainSlotsSimulated ==
  ASSUME TypeOK, TypeOK', MapInv, DrainSlots
  PROVE  [Contract!Next]_(Contract!vars)
<1> USE DEF DrainSlots, callVars, frameVars
<1>1. ASSUME NEW c \in Calls, ContractState(c) = "open"
      PROVE  ContractState(c)' = "abandoned"
  <2>1. Running(c) /\ pc[c] \in Pumping \ {"leaving"}
    BY <1>1, OpenRuns
  <2>2. slots[rid[c]].st = "live" /\ slots[rid[c]].cancel = c /\ rid[c] \in Ids
    BY <2>1, RunningIsLive DEF TypeOK
  <2>3. c \in draining' /\ c \notin cancelled' /\ pc'[c] = pc[c]
    BY <2>1, <2>2 DEF Running
  <2> QED
    BY <2>1, <2>3 DEF ContractState, Pumping
<1>2. ASSUME NEW c \in Calls, ContractState(c) # "open"
      PROVE  ContractState(c)' = ContractState(c)
  <2>1. pc' = pc /\ cancelled' = cancelled
    OBVIOUS
  <2>2. CASE c \in draining
    BY <2>1, <2>2 DEF ContractState
  <2>3. CASE c \notin draining
    <3>1. pc[c] \notin Pumping \ {"leaving"} \/ c \in cancelled
      BY <1>2, <2>3 DEF ContractState, Pumping
    <3>2. CASE c \in draining'
      <4>1. Running(c)
        BY <2>3, <3>2 DEF MapInv, SlotInv
      <4> QED
        BY <2>1, <3>1, <4>1 DEF Running, ContractState, Pumping
    <3>3. CASE c \notin draining'
      BY <2>1, <2>3, <3>3 DEF ContractState
    <3> QED
      BY <3>2, <3>3
  <2> QED
    BY <2>2, <2>3
<1>3. Contract!Abandon
  BY <1>1, <1>2 DEF Contract!Abandon
<1> QED
  BY <1>3 DEF Contract!Next

LEMMA NextSimulated == IInv /\ [Next]_vars => [Contract!Next]_(Contract!vars)
<1> SUFFICES ASSUME IInv, [Next]_vars PROVE [Contract!Next]_(Contract!vars)
  OBVIOUS
<1>1. TypeOK /\ TypeOK' /\ SafeInv /\ MapInv
  BY TypeStep, NextSteps DEF IInv, SafeInv
<1>2. ASSUME NEW c \in Calls, DrawGeneration(c) \/ PollStream(c)
      PROVE  [Contract!Next]_(Contract!vars)
  <2>1. \A d \in Calls : ContractState(d)' = ContractState(d)
    BY <1>1, <1>2 DEF DrawGeneration, PollStream, Goto, ContractState, TypeOK, mapVars
  <2>2. UNCHANGED <<rid, items, interrupts, late>>
    BY <1>2 DEF DrawGeneration, PollStream, callVars, frameVars
  <2> QED
    BY <2>1, <2>2, NobodyMoves
<1>3. ASSUME NEW c \in Calls, Reserve(c) PROVE [Contract!Next]_(Contract!vars)
  <2>1. rid[c] \in Ids /\ FireCancelOf(slots[rid[c]])
    BY <1>1, <1>3 DEF Reserve, TypeOK
  <2>2. UNCHANGED <<draining, rid, items, interrupts, late>>
    BY <1>3 DEF Reserve, callVars, frameVars
  <2>3. \A d \in Calls : \/ pc'[d] = pc[d]
                         \/ {pc[d], pc'[d]} \subseteq {"reserving", "handling"}
    BY <1>1, <1>3 DEF Reserve, Goto, TypeOK
  <2> QED
    BY <1>1, <2>1, <2>2, <2>3, FireRevokes
<1>4. ASSUME NEW i \in Ids, HandleStop(i) PROVE [Contract!Next]_(Contract!vars)
  BY <1>1, <1>4, FireRevokes DEF HandleStop, callVars, frameVars
<1>5. ASSUME NEW c \in Calls,
             \/ Activate(c) \/ CancelReservation(c) \/ DropDispatch(c) \/ PollCancelled(c)
             \/ RemoveSlot(c) \/ Send(c, TRUE) \/ FireDrained(c)
      PROVE  [Contract!Next]_(Contract!vars)
  BY <1>1, <1>5, ActivateSimulated, LeaveSimulated, RemoveSlotSimulated, SendSimulated,
     FireDrainedSimulated
<1>6. ASSUME DrainSlots PROVE [Contract!Next]_(Contract!vars)
  BY <1>1, <1>6, DrainSlotsSimulated
<1>7. ASSUME UNCHANGED vars PROVE [Contract!Next]_(Contract!vars)
  <2>1. \A d \in Calls : ContractState(d)' = ContractState(d)
    BY <1>7 DEF vars, ContractState
  <2> QED
    BY <1>7, <2>1, NobodyMoves DEF vars
<1> QED
  BY <1>2, <1>3, <1>4, <1>5, <1>6, <1>7 DEF Next, DispatchStep, PumpStep

(* The manager, its dispatches and its pumps do only what the contract     *)
(* allows: one open subscribe per id, items while it is open and at most   *)
(* one after it was revoked, one terminating interrupt and nothing after   *)
(* it.  (That a revoked one gets over is a matter of fairness, for TLC.)   *)
THEOREM ContractStepsHold == Spec => Contract!Init /\ [][Contract!Next]_(Contract!vars)
<1>1. Init => Contract!Init
  BY InitSimulated
<1>2. IInv /\ [Next]_vars => [Contract!Next]_(Contract!vars)
  BY NextSimulated
<1> QED
  BY <1>1, <1>2, Safety, PTL DEF Spec

=============================================================================
