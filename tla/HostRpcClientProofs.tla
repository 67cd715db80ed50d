---------------------------- MODULE HostRpcClientProofs ----------------------------
(***************************************************************************)
(* Proofs about the two sides of a chain connection.  The first half is    *)
(* about HostRpcClient, for any number of calls (infinitely many over the  *)
(* life of the client), items and buffers of any size, on one thread and   *)
(* on several.  The second half is about the chain runtime that uses such  *)
(* a client, ChainRuntime and ChainCallers.                                *)
(***************************************************************************)
EXTENDS HostRpcClient, ChainCallers, FiniteSetTheorems, TLAPS

-----------------------------------------------------------------------------
(* The inductive invariant.                                                *)

(* Who waits has an entry in `pending` or an answer, who streams has an    *)
(* entry in `subscriptions` or was sent the closing error; and each stage  *)
(* of close_with_error leaves its map empty, for nobody enters one then.   *)
Entered(c) ==
  /\ pc[c] \in {"registered", "waiting"} => c \in pending \/ answer[c] # "none"
  /\ pc[c] \in {"publishing", "replaying", "streaming"} =>
       c \in sinks \/ Closed \in Range(inbox[c])
CloseInv ==
  /\ \A c \in Calls : Entered(c)
  /\ closing \in {"requests", "streams", "done"} => pending = {}
  /\ closing \in {"streams", "done"} => sinks = {}

(* user_handles counts the client and the leases.                          *)
Leases == {c \in Calls : pc[c] \in Leased}
HandleInv ==
  /\ IsFiniteSet(Leases)
  /\ handles = Cardinality(Leases) + (IF owner THEN 1 ELSE 0)
  /\ closed /\ ~broken => handles = 0
  /\ handles = 0 => closed

(* On one thread at most one poll is under way.                            *)
TurnInv == mode = "turns" =>
  /\ \A c, d \in Calls : CallInTurn(c) /\ CallInTurn(d) => c = d
  /\ \A c \in Calls : CallInTurn(c) => ~LoopInTurn /\ ~CloseInTurn
  /\ ~(LoopInTurn /\ CloseInTurn)
  /\ \A c \in Calls : pc[c] \in {"publishing", "replaying"} => closing = "no"
  /\ loop.st = "deliver" => closing = "no" /\ pc[loop.call] = "streaming"
  /\ loop.st = "buffer" /\ closing = "no" => loop.call \notin sinks

(* Until the client is closed the sinks are those of the calls that have   *)
(* one, and no stream has ended.                                           *)
Subscribed(c) == pc[c] \in {"publishing", "replaying", "streaming"}
OpenInv ==
  /\ closing = "no" => \A c \in Calls : c \in sinks <=> Subscribed(c)
  /\ closing \in {"no", "flagged", "cut", "requests"} =>
       \A c \in Calls : Closed \notin Range(inbox[c])

(* Where the notifications of a call are: behind its stream, in the hands  *)
(* of the loop, on the wire.                                               *)
InHand(c)  == IF LoopInTurn /\ loop.call = c THEN {loop.n} ELSE {}
Kept(c)    == Range(inbox[c]) \cup Range(replay[c]) \cup Range(buffered[c])
OnWire(c)  == {n \in Items : \E i \in 1..Len(wire) : wire[i] = Item(c, n)}

Increasing(s) == \A i, j \in 1..Len(s) : i < j => s[i] < s[j]
Below(S, T)   == \A m \in S, n \in T : m < n

WireInv ==
  /\ \A i, j \in 1..Len(wire), c \in Calls, m, n \in Items :
       i < j /\ wire[i] = Item(c, m) /\ wire[j] = Item(c, n) => m < n
  /\ \A c \in Calls : OnWire(c) \subseteq 1..emitted[c]

(* On one thread and before the client is closed, the notifications of a   *)
(* call are in the order they were sent, wherever they are, and none is    *)
(* nowhere.                                                                *)
Line(c) ==
  /\ Increasing(inbox[c]) /\ Increasing(replay[c]) /\ Increasing(buffered[c])
  /\ Below(Range(inbox[c]), Range(replay[c]))
  /\ Below(Kept(c), InHand(c)) /\ Below(Kept(c) \cup InHand(c), OnWire(c))
  /\ Kept(c) \cup InHand(c) \cup OnWire(c) \subseteq 1..emitted[c]
  /\ 1..emitted[c] \subseteq Kept(c) \cup InHand(c) \cup OnWire(c) \cup dropped[c]
  /\ pc[c] \in {"replaying", "streaming"} => buffered[c] = <<>>
  /\ pc[c] = "streaming" => replay[c] = <<>>
  /\ pc[c] \in {"idle", "begun", "registered", "waiting", "publishing"} =>
       inbox[c] = <<>> /\ replay[c] = <<>>
LineInv == mode = "turns" /\ closing = "no" => \A c \in Calls : Line(c)

IInv ==
  /\ TypeOK /\ CloseInv /\ HandleInv /\ TurnInv /\ OpenInv /\ WireInv /\ LineInv
  /\ ItemsInOrderInTurns

-----------------------------------------------------------------------------
(* Sequences.                                                              *)

LEMMA RangeOfAppend ==
  ASSUME NEW S, NEW s \in Seq(S), NEW x \in S
  PROVE  Range(Append(s, x)) = Range(s) \cup {x}
<1> DEFINE t == Append(s, x)
<1>1. t \in Seq(S) /\ Len(t) = Len(s) + 1 /\ Len(s) \in Nat /\ t[Len(s) + 1] = x
      /\ \A i \in 1 .. Len(s) : t[i] = s[i]
  OBVIOUS
<1>2. DOMAIN s = 1 .. Len(s) /\ DOMAIN t = 1 .. Len(s) + 1
  BY <1>1
<1> HIDE DEF t
<1>3. Range(t) = Range(s) \cup {x}
  BY <1>1, <1>2 DEF Range
<1> QED
  BY <1>3 DEF t

LEMMA RangeOfTail ==
  ASSUME NEW S, NEW s \in Seq(S), s # <<>>
  PROVE  Range(s) = {Head(s)} \cup Range(Tail(s))
<1> DEFINE t == Tail(s)
<1>1. t \in Seq(S) /\ Len(t) = Len(s) - 1 /\ Len(s) \in Nat \ {0} /\ s[1] = Head(s)
      /\ \A i \in 1 .. Len(t) : t[i] = s[i + 1]
  OBVIOUS
<1>2. DOMAIN s = 1 .. Len(s) /\ DOMAIN t = 1 .. Len(t)
  BY <1>1
<1> HIDE DEF t
<1>3. Range(s) = {Head(s)} \cup Range(t)
  <2>1. ASSUME NEW i \in 1 .. Len(s), i # 1 PROVE i - 1 \in 1 .. Len(t) /\ t[i - 1] = s[i]
    BY <1>1, <2>1
  <2>2. ASSUME NEW i \in 1 .. Len(t) PROVE i + 1 \in 1 .. Len(s) /\ t[i] = s[i + 1]
    BY <1>1
  <2>3. ASSUME NEW x \in Range(s) PROVE x \in {Head(s)} \cup Range(t)
    <3>1. PICK i \in 1 .. Len(s) : s[i] = x
      BY <1>2 DEF Range
    <3>2. CASE i = 1
      BY <1>1, <3>1, <3>2
    <3>3. CASE i # 1
      BY <1>2, <2>1, <3>1, <3>3 DEF Range
    <3> QED
      BY <3>2, <3>3
  <2>4. {Head(s)} \cup Range(t) \subseteq Range(s)
    BY <1>1, <1>2, <2>2 DEF Range
  <2> QED
    BY <2>3, <2>4
<1> QED
  BY <1>3 DEF t

LEMMA IncreasingAppend ==
  ASSUME NEW s \in Seq(Nat), NEW n \in Nat, Increasing(s), \A m \in Range(s) : m < n
  PROVE  Increasing(Append(s, n))
<1>1. \A i \in 1 .. Len(s) : s[i] \in Range(s)
  BY DEF Range
<1> QED
  BY <1>1 DEF Increasing

LEMMA IncreasingTail ==
  ASSUME NEW s \in Seq(Nat), s # <<>>, Increasing(s)
  PROVE  Increasing(Tail(s)) /\ \A m \in Range(Tail(s)) : Head(s) < m
<1> DEFINE t == Tail(s)
<1>1. t \in Seq(Nat) /\ Len(t) = Len(s) - 1 /\ Len(s) \in Nat \ {0} /\ s[1] = Head(s)
      /\ \A i \in 1 .. Len(t) : t[i] = s[i + 1]
  OBVIOUS
<1>2. DOMAIN t = 1 .. Len(t)
  BY <1>1
<1> HIDE DEF t
<1>3. \A i \in 1 .. Len(t) : i + 1 \in 1 .. Len(s) /\ 1 < i + 1
  BY <1>1
<1>a. \A i, j \in 1 .. Len(s) : i < j => s[i] < s[j]
  BY DEF Increasing
<1>4. Increasing(t)
  <2>1. SUFFICES ASSUME NEW i \in 1 .. Len(t), NEW j \in 1 .. Len(t), i < j PROVE t[i] < t[j]
    BY DEF Increasing
  <2>2. i + 1 < j + 1
    BY <2>1
  <2> QED
    BY <1>1, <1>3, <1>a, <2>2
<1>5. ASSUME NEW m \in Range(t) PROVE Head(s) < m
  <2>1. PICK i \in 1 .. Len(t) : m = t[i]
    BY <1>2 DEF Range
  <2> QED
    BY <1>1, <1>3, <1>a, <2>1, 1 \in 1 .. Len(s)
<1> QED
  BY <1>4, <1>5 DEF t

\* A frame goes onto the wire, or comes off it.
LEMMA OnWireAppend ==
  ASSUME TypeOK, NEW f \in Frames, wire' = Append(wire, f), NEW c \in Calls, NEW n \in Items
  PROVE  n \in OnWire(c)' <=> n \in OnWire(c) \/ f = Item(c, n)
<1>1. /\ Len(wire') = Len(wire) + 1 /\ Len(wire) \in Nat /\ wire'[Len(wire) + 1] = f
      /\ \A i \in 1 .. Len(wire) : wire'[i] = wire[i]
  BY DEF TypeOK
<1>2. Items' = Items /\ Item(c, n)' = Item(c, n)
  BY DEF Items, Item
<1>3. n \in OnWire(c)' <=> \E i \in 1 .. Len(wire') : wire'[i] = Item(c, n)
  BY <1>2 DEF OnWire
<1>4. n \in OnWire(c) <=> \E i \in 1 .. Len(wire) : wire[i] = Item(c, n)
  BY DEF OnWire
<1> QED
  BY <1>1, <1>3, <1>4

LEMMA OnWireTail ==
  ASSUME TypeOK, wire # <<>>, wire' = Tail(wire), NEW c \in Calls, NEW n \in Items
  PROVE  /\ n \in OnWire(c) <=> n \in OnWire(c)' \/ Head(wire) = Item(c, n)
         /\ WireInv /\ Head(wire) = Item(c, n) => \A m \in OnWire(c)' : n < m
<1>1. /\ Len(wire') = Len(wire) - 1 /\ Len(wire) \in Nat \ {0} /\ wire[1] = Head(wire)
      /\ \A i \in 1 .. Len(wire') : wire'[i] = wire[i + 1]
  BY DEF TypeOK
<1>2. Items' = Items /\ \A m : Item(c, m)' = Item(c, m)
  BY DEF Items, Item
<1>3. \A m \in Items : m \in OnWire(c)' <=> \E i \in 1 .. Len(wire') : wire'[i] = Item(c, m)
  BY <1>2 DEF OnWire
<1>4. n \in OnWire(c) <=> \E i \in 1 .. Len(wire) : wire[i] = Item(c, n)
  BY DEF OnWire
<1>5. \A i \in 1 .. Len(wire) : i = 1 \/ (i - 1 \in 1 .. Len(wire') /\ wire'[i - 1] = wire[i])
  BY <1>1
<1>6. \A i \in 1 .. Len(wire') : i + 1 \in 1 .. Len(wire) /\ 1 < i + 1
  BY <1>1
<1>7. n \in OnWire(c) <=> n \in OnWire(c)' \/ Head(wire) = Item(c, n)
  <2>1. ASSUME NEW i \in 1 .. Len(wire), wire[i] = Item(c, n)
        PROVE  n \in OnWire(c)' \/ Head(wire) = Item(c, n)
    <3>1. CASE i = 1
      BY <1>1, <2>1, <3>1
    <3>2. CASE i # 1
      BY <1>3, <1>5, <2>1, <3>2
    <3> QED
      BY <3>1, <3>2
  <2>2. n \in OnWire(c)' => n \in OnWire(c)
    BY <1>1, <1>3, <1>4, <1>6
  <2>3. Head(wire) = Item(c, n) => n \in OnWire(c)
    BY <1>1, <1>4
  <2> QED
    BY <1>4, <2>1, <2>2, <2>3
<1>8. ASSUME WireInv, Head(wire) = Item(c, n), NEW m \in OnWire(c)' PROVE n < m
  <2>1. m \in Items
    BY <1>2, <1>8 DEF OnWire
  <2>2. PICK i \in 1 .. Len(wire') : wire'[i] = Item(c, m)
    BY <1>3, <1>8, <2>1
  <2> QED
    BY <1>1, <1>6, <1>8, <2>1, <2>2 DEF WireInv
<1> QED
  BY <1>7, <1>8

-----------------------------------------------------------------------------
(* The steps, and the types.                                               *)

(* One step of the client or of the chain, whichever it is.                *)
LEMMA NextCases ==
  ASSUME Next
  PROVE  \/ \E c \in Calls : MayRun({c}, FALSE, FALSE) /\
              \/ Begin(c) \/ Register(c) \/ SendRequest(c) \/ Publish(c) \/ TakeBuffered(c)
              \/ Replay(c) \/ DropFuture(c) \/ Unsubscribe(c) \/ Release(c)
         \/ MayRun({}, FALSE, FALSE) /\ DropClient
         \/ MayRun({}, FALSE, TRUE) /\
              (CloseConnection \/ FailRequests \/ FailStreams \/ ClearBuffer)
         \/ MayRun({}, TRUE, FALSE) /\
              (HandleResponse \/ LookUpSink \/ Deliver \/ Buffer \/ LoopFails \/ LoopStops)
         \/ \E c \in Calls : Respond(c) \/ Notify(c)
  BY DEF Next, CallStep, CloseStep, LoopStep

LEMMA TypeNext == TypeOK /\ HandleInv /\ [Next]_vars => TypeOK'
<1> SUFFICES ASSUME TypeOK, HandleInv, [Next]_vars PROVE TypeOK'
  OBVIOUS
<1> USE ClientAssumption DEF TypeOK, callVars, routeVars, handleVars, closeVars, remoteVars, history
<1>1. ASSUME NEW c \in Calls, NEW stage \in Phases, Goto(c, stage)
      PROVE  pc' \in [Calls -> Phases]
  BY <1>1 DEF Goto
<1>b. ASSUME NEW c \in Calls, NEW n \in Items, Into(c, n)
      PROVE  inbox' \in [Calls -> Seq(Items \cup {Closed})]
  <2>1. Append(inbox[c], n) \in Seq(Items \cup {Closed})
    OBVIOUS
  <2> QED
    BY <1>b, <2>1 DEF Into
<1>2. ASSUME NEW c \in Calls, Begin(c) PROVE TypeOK'
  BY <1>2 DEF Begin, Goto, Phases, Leased, InFuture
<1>3. ASSUME NEW c \in Calls, Register(c) PROVE TypeOK'
  BY <1>3 DEF Register, Goto, Phases, Leased, InFuture, Polling
<1>4. ASSUME NEW c \in Calls, SendRequest(c) PROVE TypeOK'
  BY <1>4 DEF SendRequest, Goto, Phases, Leased, InFuture
<1>5. ASSUME NEW c \in Calls, Publish(c) PROVE TypeOK'
  BY <1>5 DEF Publish, Goto, Phases, Leased, InFuture, Polling
<1>6. ASSUME NEW c \in Calls, TakeBuffered(c) PROVE TypeOK'
  BY <1>6 DEF TakeBuffered, Goto, Phases, Leased, InFuture, Polling
<1>7. ASSUME NEW c \in Calls, Replay(c) PROVE TypeOK'
  <2>1. CASE replay[c] = <<>>
    BY <1>7, <2>1 DEF Replay, Goto, Phases, Leased
  <2>2. CASE replay[c] # <<>>
    <3>1. /\ Head(replay[c]) \in Items /\ Tail(replay[c]) \in Seq(Items)
      BY <2>2
    <3>2. inbox' \in [Calls -> Seq(Items \cup {Closed})]
      BY <1>7, <1>b, <2>2, <3>1 DEF Replay
    <3>3. replay' = [replay EXCEPT ![c] = Tail(@)] /\ UNCHANGED pc
      BY <1>7, <2>2 DEF Replay
    <3>4. replay' \in [Calls -> Seq(Items)]
      BY <3>1, <3>3
    <3> QED
      BY <1>7, <3>2, <3>3, <3>4 DEF Replay
  <2> QED
    BY <2>1, <2>2
<1>8. ASSUME NEW c \in Calls, DropFuture(c) PROVE TypeOK'
  BY <1>8 DEF DropFuture, Goto, Phases, Leased
<1>9. ASSUME NEW c \in Calls, Unsubscribe(c) PROVE TypeOK'
  BY <1>9 DEF Unsubscribe, Goto, Phases, Leased
<1>10. ASSUME ReleaseHandle, owner \/ \E c \in Calls : pc[c] \in Leased
       PROVE  handles' \in Nat /\ closing' \in ClosingPhases
  <2>1. Cardinality(Leases) \in Nat /\ (Leases # {} => Cardinality(Leases) > 0)
    BY FS_CardinalityType, FS_EmptySet DEF HandleInv
  <2> QED
    BY <1>10, <2>1 DEF ReleaseHandle, HandleInv, Leases, ClosingPhases
<1>11. ASSUME NEW c \in Calls, Release(c) PROVE TypeOK'
  BY <1>10, <1>11 DEF Release, Goto, Phases, Leased
<1>12. ASSUME DropClient PROVE TypeOK'
  BY <1>10, <1>12 DEF DropClient
<1>13. ASSUME CloseConnection PROVE TypeOK'
  BY <1>13 DEF CloseConnection, ClosingPhases
<1>14. ASSUME FailRequests PROVE TypeOK'
  BY <1>14 DEF FailRequests, ClosingPhases
<1>15. ASSUME FailStreams PROVE TypeOK'
  BY <1>15 DEF FailStreams, ClosingPhases
<1>16. ASSUME ClearBuffer PROVE TypeOK'
  BY <1>16 DEF ClearBuffer, ClosingPhases
<1>a. ASSUME wire # <<>>
      PROVE  Head(wire) \in Frames /\ Tail(wire) \in Seq(Frames)
  BY <1>a
<1>17. ASSUME HandleResponse PROVE TypeOK'
  BY <1>a, <1>17 DEF HandleResponse
<1>18. ASSUME LookUpSink PROVE TypeOK'
  BY <1>a, <1>18 DEF LookUpSink, Frames, LoopStates
<1>19. ASSUME Deliver PROVE TypeOK'
  <2>1. loop.call \in Calls /\ loop.n \in Items
    BY <1>19 DEF Deliver, LoopStates
  <2>3. Idle \in LoopStates
    BY DEF Idle, LoopStates
  <2> QED
    BY <1>19, <1>b, <2>1, <2>3 DEF Deliver
<1>20. ASSUME Buffer PROVE TypeOK'
  <2>1. loop.call \in Calls /\ loop.n \in Items
    BY <1>20 DEF Buffer, LoopStates
  <2>3. Idle \in LoopStates
    BY DEF Idle, LoopStates
  <2>2. buffered' \in [Calls -> Seq(Items)]
    <3>1. Append(buffered[loop.call], loop.n) \in Seq(Items)
      BY <2>1
    <3> QED
      BY <1>20, <3>1 DEF Buffer
  <2>4. dropped' \in [Calls -> SUBSET Items]
    <3>1. CASE dropped' = dropped
      BY <3>1
    <3>2. CASE dropped' = [dropped EXCEPT ![loop.call] = @ \cup {loop.n}]
      BY <2>1, <3>2
    <3> QED
      BY <1>20, <3>1, <3>2 DEF Buffer
  <2>5. early' \in [Calls -> SUBSET Items]
    <3>1. CASE early' = early
      BY <3>1
    <3>2. CASE early' = [early EXCEPT ![loop.call] = @ \cup {loop.n}]
      BY <2>1, <3>2
    <3>3. CASE early' = [early EXCEPT ![loop.call] = @]
      BY <2>1, <3>3
    <3> QED
      BY <1>20, <3>1, <3>2, <3>3 DEF Buffer
  <2> QED
    BY <1>20, <2>2, <2>3, <2>4, <2>5 DEF Buffer
<1>21. ASSUME LoopFails PROVE TypeOK'
  BY <1>21 DEF LoopFails, LoopStates, ClosingPhases
<1>22. ASSUME LoopStops PROVE TypeOK'
  BY <1>22 DEF LoopStops, LoopStates
<1>23. ASSUME NEW c \in Calls, Respond(c) PROVE TypeOK'
  <2>1. Response(c, TRUE) \in Frames /\ Response(c, FALSE) \in Frames
    BY DEF Response, Frames
  <2>2. /\ Append(wire, Response(c, TRUE)) \in Seq(Frames)
        /\ Append(wire, Response(c, FALSE)) \in Seq(Frames)
    <3>1. ASSUME NEW r \in Frames PROVE Append(wire, r) \in Seq(Frames)
      OBVIOUS
    <3> QED
      BY <2>1, <3>1
  <2> QED
    BY <1>23, <2>2 DEF Respond
<1>24. ASSUME NEW c \in Calls, Notify(c) PROVE TypeOK'
  <2>1. emitted[c] + 1 \in Items /\ emitted[c] + 1 \in 0 .. MaxItems
    BY <1>24 DEF Notify, Items
  <2> QED
    BY <1>24, <2>1 DEF Notify, Item, Frames
<1>25. CASE UNCHANGED vars
  BY <1>25 DEF vars
<1> QED
  BY <1>2, <1>3, <1>4, <1>5, <1>6, <1>7, <1>8, <1>9, <1>11, <1>12, <1>13, <1>14, <1>15,
     <1>16, <1>17, <1>18, <1>19, <1>20, <1>21, <1>22, <1>23, <1>24, <1>25, NextCases

-----------------------------------------------------------------------------
(* Closing.                                                                *)

LEMMA CloseNext == TypeOK /\ CloseInv /\ [Next]_vars => CloseInv'
<1> SUFFICES ASSUME TypeOK, CloseInv, [Next]_vars PROVE CloseInv'
  OBVIOUS
<1> USE DEF CloseInv, callVars, routeVars, handleVars, closeVars, remoteVars, history
<1>a. ASSUME NEW c \in Calls, NEW x \in Items \cup {Closed}
      PROVE  Range(Append(inbox[c], x)) = Range(inbox[c]) \cup {x}
  <2>1. inbox[c] \in Seq(Items \cup {Closed})
    BY DEF TypeOK
  <2> QED
    BY <2>1, RangeOfAppend
<1>b. ASSUME NEW c \in Calls, NEW n \in Items, Into(c, n)
      PROVE  \A d \in Calls : Range(inbox[d]) \subseteq Range(inbox'[d])
  BY <1>a, <1>b DEF Into, TypeOK
<1> USE DEF Entered, Goto, TypeOK
<1>1. ASSUME NEW c \in Calls, Begin(c) PROVE CloseInv'
  BY <1>1 DEF Begin
<1>2. ASSUME NEW c \in Calls, Register(c) PROVE CloseInv'
  BY <1>2 DEF Register, closed
<1>3. ASSUME NEW c \in Calls, SendRequest(c) PROVE CloseInv'
  BY <1>3 DEF SendRequest
<1>4. ASSUME NEW c \in Calls, Publish(c) PROVE CloseInv'
  BY <1>4 DEF Publish, closed
<1>5. ASSUME NEW c \in Calls, TakeBuffered(c) PROVE CloseInv'
  BY <1>5 DEF TakeBuffered
<1>6. ASSUME NEW c \in Calls, Replay(c) PROVE CloseInv'
  <2>1. CASE replay[c] = <<>>
    BY <1>6, <2>1 DEF Replay
  <2>2. CASE replay[c] # <<>>
    <3>1. Head(replay[c]) \in Items
      BY <2>2
    <3>2. \A d \in Calls : Range(inbox[d]) \subseteq Range(inbox'[d])
      BY <1>6, <1>b, <2>2, <3>1 DEF Replay
    <3>3. UNCHANGED <<pc, pending, answer, sinks, closing>>
      BY <1>6, <2>2 DEF Replay
    <3> QED
      BY <3>2, <3>3
  <2> QED
    BY <2>1, <2>2
<1>7. ASSUME NEW c \in Calls, DropFuture(c) PROVE CloseInv'
  BY <1>7 DEF DropFuture
<1>8. ASSUME NEW c \in Calls, Unsubscribe(c) PROVE CloseInv'
  BY <1>8 DEF Unsubscribe
<1>9. ASSUME NEW c \in Calls, Release(c) PROVE CloseInv'
  BY <1>9 DEF Release, ReleaseHandle, closed
<1>10. ASSUME DropClient PROVE CloseInv'
  BY <1>10 DEF DropClient, ReleaseHandle, closed
<1>11. ASSUME CloseConnection PROVE CloseInv'
  BY <1>11 DEF CloseConnection
<1>12. ASSUME FailRequests PROVE CloseInv'
  BY <1>12 DEF FailRequests
<1>13. ASSUME FailStreams PROVE CloseInv'
  <2>1. \A d \in Calls : /\ Range(inbox[d]) \subseteq Range(inbox'[d])
                         /\ d \in sinks => Closed \in Range(inbox'[d])
    BY <1>13, <1>a DEF FailStreams
  <2>2. /\ UNCHANGED <<pc, pending, answer>> /\ sinks' = {}
        /\ closing = "requests" /\ closing' = "streams"
    BY <1>13 DEF FailStreams
  <2>3. ASSUME NEW d \in Calls PROVE Entered(d)'
    BY <2>1, <2>2 DEF Closed
  <2> QED
    BY <2>2, <2>3
<1>14. ASSUME ClearBuffer PROVE CloseInv'
  BY <1>14 DEF ClearBuffer
<1>15. ASSUME HandleResponse PROVE CloseInv'
  BY <1>15 DEF HandleResponse
<1>16. ASSUME LookUpSink PROVE CloseInv'
  BY <1>16 DEF LookUpSink
<1>17. ASSUME Deliver PROVE CloseInv'
  <2>1. loop.call \in Calls /\ loop.n \in Items
    BY <1>17 DEF Deliver, LoopStates
  <2>2. \A d \in Calls : Range(inbox[d]) \subseteq Range(inbox'[d])
    BY <1>17, <1>b, <2>1 DEF Deliver
  <2>3. UNCHANGED <<pc, pending, answer, sinks, closing>>
    BY <1>17 DEF Deliver
  <2> QED
    BY <2>2, <2>3
<1>18. ASSUME Buffer PROVE CloseInv'
  BY <1>18 DEF Buffer
<1>19. ASSUME LoopFails PROVE CloseInv'
  BY <1>19 DEF LoopFails, closed
<1>20. ASSUME LoopStops PROVE CloseInv'
  BY <1>20 DEF LoopStops
<1>21. ASSUME NEW c \in Calls, Respond(c) \/ Notify(c) PROVE CloseInv'
  BY <1>21 DEF Respond, Notify
<1>22. CASE UNCHANGED vars
  BY <1>22 DEF vars
<1> QED
  BY <1>1, <1>2, <1>3, <1>4, <1>5, <1>6, <1>7, <1>8, <1>9, <1>10, <1>11, <1>12, <1>13, <1>14,
     <1>15, <1>16, <1>17, <1>18, <1>19, <1>20, <1>21, <1>22, NextCases

-----------------------------------------------------------------------------
(* The handles.                                                            *)

\* Steps that are neither the first nor the last of a lease, nor close the client
LEMMA HandlesStay ==
  ASSUME TypeOK, HandleInv, UNCHANGED handleVars, closed' /\ ~broken' => closed /\ ~broken,
         closed => closed',
         \A c \in Calls : pc'[c] \in Leased <=> pc[c] \in Leased
  PROVE  HandleInv'
<1>1. Leases' = Leases
  BY DEF Leases
<1> QED
  BY <1>1 DEF HandleInv, handleVars

LEMMA HandleNext == TypeOK /\ HandleInv /\ [Next]_vars => HandleInv'
<1> SUFFICES ASSUME TypeOK, HandleInv, [Next]_vars PROVE HandleInv'
  OBVIOUS
<1> USE DEF callVars, routeVars, handleVars, closeVars, remoteVars, history
<1>a. /\ IsFiniteSet(Leases) /\ Cardinality(Leases) \in Nat
      /\ Cardinality(Leases) = 0 <=> Leases = {}
  BY FS_CardinalityType, FS_EmptySet DEF HandleInv
<1>b. ASSUME NEW c \in Calls, NEW stage, Goto(c, stage), pc[c] \in Leased <=> stage \in Leased
      PROVE  \A d \in Calls : pc'[d] \in Leased <=> pc[d] \in Leased
  BY <1>b DEF Goto, TypeOK
<1>1. ASSUME NEW c \in Calls, Begin(c) PROVE HandleInv'
  <2>1. Leases' = Leases \cup {c} /\ c \notin Leases
    BY <1>1 DEF Begin, Goto, Leases, Leased, InFuture, Polling, TypeOK
  <2>2. IsFiniteSet(Leases') /\ Cardinality(Leases') = Cardinality(Leases) + 1
    BY <1>a, <2>1, FS_AddElement
  <2>3. handles # 0 /\ handles' = handles + 1 /\ owner /\ UNCHANGED <<owner, closing, broken>>
    BY <1>1, <1>a DEF Begin, HandleInv
  <2> QED
    BY <1>a, <2>2, <2>3 DEF HandleInv, closed
<1>2. ASSUME NEW c \in Calls,
             \/ Register(c) \/ SendRequest(c) \/ Publish(c) \/ TakeBuffered(c) \/ DropFuture(c)
             \/ Unsubscribe(c)
      PROVE  HandleInv'
  <2>1. UNCHANGED <<owner, handles, closing, broken>>
    BY <1>2 DEF Register, SendRequest, Publish, TakeBuffered, DropFuture, Unsubscribe
  <2>2. pc[c] \in Leased /\ \E stage \in Leased : Goto(c, stage)
    BY <1>2 DEF Register, SendRequest, Publish, TakeBuffered, DropFuture, Unsubscribe,
                Leased, InFuture, Polling
  <2> QED
    BY <1>b, <2>1, <2>2, HandlesStay DEF closed
<1>3. ASSUME NEW c \in Calls, Replay(c) PROVE HandleInv'
  <2>1. pc[c] \in Leased /\ "streaming" \in Leased /\ UNCHANGED <<owner, handles, closing, broken>>
    BY <1>3 DEF Replay, Leased, InFuture, Polling
  <2> QED
    BY <1>3, <1>b, <2>1, HandlesStay DEF Replay, closed
<1>4. ASSUME NEW c \in Calls, Release(c) PROVE HandleInv'
  <2>1. Leases' = Leases \ {c} /\ c \in Leases
    BY <1>4 DEF Release, Goto, Leases, Leased, InFuture, Polling, TypeOK
  <2>2. IsFiniteSet(Leases') /\ Cardinality(Leases') = Cardinality(Leases) - 1
    BY <1>a, <2>1, FS_RemoveElement
  <2>3. handles # 0 /\ UNCHANGED <<owner, broken>>
    BY <1>4, <1>a, <2>1 DEF Release, HandleInv
  <2>4. /\ handles = Cardinality(Leases) + (IF owner THEN 1 ELSE 0) /\ handles' = handles - 1
        /\ closing' = IF handles = 1 /\ ~closed THEN "flagged" ELSE closing
    BY <1>4 DEF Release, ReleaseHandle, HandleInv
  <2>5. handles' = Cardinality(Leases') + (IF owner' THEN 1 ELSE 0)
    BY <1>a, <2>2, <2>3, <2>4
  <2>6. ASSUME closed', ~broken' PROVE handles' = 0
    <3>1. CASE handles = 1
      BY <2>4, <3>1
    <3>2. CASE handles # 1
      BY <2>3, <2>4, <2>6, <3>2 DEF closed, HandleInv
    <3> QED
      BY <3>1, <3>2
  <2>7. handles' = 0 => closed'
    BY <2>3, <2>4 DEF closed
  <2> QED
    BY <2>2, <2>5, <2>6, <2>7 DEF HandleInv
<1>5. ASSUME DropClient PROVE HandleInv'
  <2>1. Leases' = Leases
    BY <1>5 DEF DropClient, Leases
  <2>2. handles # 0 /\ UNCHANGED broken /\ owner /\ ~owner'
    BY <1>5, <1>a DEF DropClient, HandleInv
  <2> QED
    BY <1>5, <1>a, <2>1, <2>2 DEF DropClient, ReleaseHandle, HandleInv, closed, TypeOK
<1>6. ASSUME CloseConnection \/ FailRequests \/ FailStreams \/ ClearBuffer PROVE HandleInv'
  <2>1. UNCHANGED <<owner, handles, pc, broken>> /\ closed /\ closed'
    BY <1>6 DEF CloseConnection, FailRequests, FailStreams, ClearBuffer, closed
  <2> QED
    BY <2>1, HandlesStay
<1>7. ASSUME HandleResponse \/ LookUpSink \/ Deliver \/ Buffer \/ LoopStops PROVE HandleInv'
  <2>1. UNCHANGED <<owner, handles, pc, closing, broken>>
    BY <1>7 DEF HandleResponse, LookUpSink, Deliver, Buffer, LoopStops
  <2> QED
    BY <2>1, HandlesStay DEF closed
<1>8. ASSUME LoopFails PROVE HandleInv'
  <2>1. /\ UNCHANGED <<owner, handles, pc>> /\ (closed' /\ ~broken' => closed /\ ~broken)
        /\ closed => closed'
    BY <1>8 DEF LoopFails, closed
  <2> QED
    BY <2>1, HandlesStay
<1>9. ASSUME NEW c \in Calls, Respond(c) \/ Notify(c) PROVE HandleInv'
  <2>1. UNCHANGED <<owner, handles, pc, closing, broken>>
    BY <1>9 DEF Respond, Notify
  <2> QED
    BY <2>1, HandlesStay DEF closed
<1>10. CASE UNCHANGED vars
  BY <1>10, HandlesStay DEF vars, closed
<1> QED
  BY <1>1, <1>2, <1>3, <1>4, <1>5, <1>6, <1>7, <1>8, <1>9, <1>10, NextCases

-----------------------------------------------------------------------------
(* Turns.                                                                  *)

\* A step of a call that begins and ends in one poll, on one thread
LEMMA TurnOfCall ==
  ASSUME mode = "turns", NEW c \in Calls, MayRun({c}, FALSE, FALSE)
  PROVE  ~LoopInTurn /\ ~CloseInTurn /\ \A d \in Calls : CallInTurn(d) => d = c
  BY DEF MayRun

LEMMA TurnOfOthers ==
  ASSUME mode = "turns", NEW looping \in BOOLEAN, NEW closer \in BOOLEAN,
         MayRun({}, looping, closer)
  PROVE  /\ LoopInTurn => looping
         /\ CloseInTurn => closer
         /\ \A d \in Calls : ~CallInTurn(d)
  BY DEF MayRun

LEMMA TurnNext == TypeOK /\ CloseInv /\ OpenInv /\ TurnInv /\ [Next]_vars => TurnInv'
<1> SUFFICES ASSUME TypeOK, CloseInv, OpenInv, TurnInv, [Next]_vars, mode' = "turns"
             PROVE  TurnInv'
  BY DEF TurnInv
<1> USE DEF callVars, routeVars, handleVars, closeVars, remoteVars, history
<1>m. mode = "turns"
  BY NextCases DEF vars, Begin, Register, SendRequest, Publish, TakeBuffered, Replay, DropFuture,
     Unsubscribe, Release, DropClient, CloseConnection, FailRequests, FailStreams, ClearBuffer,
     HandleResponse, LookUpSink, Deliver, Buffer, LoopFails, LoopStops, Respond, Notify
<1>1. ASSUME NEW c \in Calls, MayRun({c}, FALSE, FALSE),
             \/ Begin(c) \/ Register(c) \/ SendRequest(c) \/ Publish(c) \/ TakeBuffered(c)
             \/ Replay(c) \/ DropFuture(c) \/ Unsubscribe(c)
      PROVE  TurnInv'
  <2>1. ~LoopInTurn /\ ~CloseInTurn /\ \A d \in Calls : CallInTurn(d) => d = c
    BY <1>1, <1>m, TurnOfCall
  <2>2. /\ UNCHANGED <<loop, closing>>
        /\ \A d \in Calls \ {c} : pc'[d] = pc[d]
        /\ pc'[c] \in {"publishing", "replaying"} => closing = "no"
    BY <1>1, <1>m DEF Begin, Register, SendRequest, Publish, TakeBuffered, Replay, DropFuture,
       Unsubscribe, Goto, TypeOK, TurnInv, closed
  <2>3. ~LoopInTurn' /\ ~CloseInTurn' /\ \A d \in Calls : CallInTurn(d)' => d = c
    BY <2>1, <2>2 DEF LoopInTurn, CloseInTurn, CallInTurn, ClosingPhases
  <2>4. loop.st \notin {"deliver", "buffer"}
    BY <2>1 DEF LoopInTurn
  <2> QED
    BY <1>m, <2>2, <2>3, <2>4 DEF TurnInv
<1>2. ASSUME NEW c \in Calls, MayRun({c}, FALSE, FALSE), Release(c) PROVE TurnInv'
  <2>1. ~LoopInTurn /\ ~CloseInTurn /\ \A d \in Calls : CallInTurn(d) => d = c
    BY <1>2, <1>m, TurnOfCall
  <2>2. loop' = loop /\ pc'[c] = "over" /\ \A d \in Calls \ {c} : pc'[d] = pc[d]
    BY <1>2 DEF Release, Goto, TypeOK
  <2>3. ~LoopInTurn' /\ \A d \in Calls : ~CallInTurn(d)'
    BY <2>1, <2>2 DEF LoopInTurn, CallInTurn, Polling
  <2>4. loop.st \notin {"deliver", "buffer"}
    BY <2>1 DEF LoopInTurn
  <2> QED
    BY <1>m, <2>2, <2>3, <2>4 DEF TurnInv, CallInTurn, Polling
<1>3. ASSUME MayRun({}, FALSE, FALSE), DropClient PROVE TurnInv'
  <2>1. ~LoopInTurn /\ ~CloseInTurn /\ \A d \in Calls : ~CallInTurn(d)
    BY <1>3, <1>m, TurnOfOthers
  <2>2. UNCHANGED <<loop, pc>>
    BY <1>3 DEF DropClient
  <2> QED
    BY <2>1, <2>2 DEF TurnInv, LoopInTurn, CallInTurn, Polling
<1>4. ASSUME MayRun({}, FALSE, TRUE),
             CloseConnection \/ FailRequests \/ FailStreams \/ ClearBuffer
      PROVE  TurnInv'
  <2>1. ~LoopInTurn /\ \A d \in Calls : ~CallInTurn(d)
    BY <1>4, <1>m, TurnOfOthers
  <2>2. UNCHANGED <<loop, pc>>
    BY <1>4 DEF CloseConnection, FailRequests, FailStreams, ClearBuffer
  <2> QED
    BY <2>1, <2>2 DEF TurnInv, LoopInTurn, CallInTurn, Polling
<1>5. ASSUME MayRun({}, TRUE, FALSE),
             HandleResponse \/ Deliver \/ Buffer \/ LoopFails \/ LoopStops
      PROVE  TurnInv'
  <2>1. ~CloseInTurn /\ \A d \in Calls : ~CallInTurn(d)
    BY <1>5, <1>m, TurnOfOthers
  <2>2. pc' = pc /\ loop'.st \notin {"deliver", "buffer"}
    BY <1>5 DEF HandleResponse, Deliver, Buffer, LoopFails, LoopStops, Idle
  <2> QED
    BY <2>1, <2>2 DEF TurnInv, LoopInTurn, CallInTurn, Polling
<1>6. ASSUME MayRun({}, TRUE, FALSE), LookUpSink PROVE TurnInv'
  <2>1. ~CloseInTurn /\ \A d \in Calls : ~CallInTurn(d)
    BY <1>6, <1>m, TurnOfOthers
  <2>2. /\ UNCHANGED <<pc, sinks, closing>> /\ Head(wire) \in Frames
        /\ loop'.st = IF Head(wire).call \in sinks THEN "deliver" ELSE "buffer"
        /\ loop'.call = Head(wire).call
    BY <1>6 DEF LookUpSink, TypeOK
  <2>3. Head(wire).call \in Calls
    BY <2>2 DEF Frames
  <2>4. closing \in {"no", "done"}
    BY <2>1 DEF CloseInTurn, TypeOK
  <2>5. loop'.st = "deliver" => closing = "no" /\ pc[loop'.call] = "streaming"
    BY <2>1, <2>2, <2>3, <2>4 DEF CloseInv, OpenInv, Subscribed, CallInTurn, Polling
  <2> QED
    BY <2>1, <2>2, <2>5 DEF TurnInv, LoopInTurn, CallInTurn, CloseInTurn, Polling
<1>7. ASSUME NEW c \in Calls, Respond(c) \/ Notify(c) PROVE TurnInv'
  <2>1. UNCHANGED <<pc, sinks, closing, loop, mode>>
    BY <1>7 DEF Respond, Notify
  <2> QED
    BY <2>1 DEF TurnInv, LoopInTurn, CallInTurn, CloseInTurn
<1>8. CASE UNCHANGED vars
  BY <1>8 DEF vars, TurnInv, LoopInTurn, CallInTurn, CloseInTurn
<1> QED
  BY <1>1, <1>2, <1>3, <1>4, <1>5, <1>6, <1>7, <1>8, NextCases

-----------------------------------------------------------------------------
(* The order of notifications.                                             *)

LEMMA OpenNext == TypeOK /\ OpenInv /\ [Next]_vars => OpenInv'
<1> SUFFICES ASSUME TypeOK, OpenInv, [Next]_vars PROVE OpenInv'
  OBVIOUS
<1> USE DEF OpenInv, Subscribed, callVars, routeVars, handleVars, closeVars, remoteVars, history
<1>a. ASSUME NEW c \in Calls, NEW n \in Items, Into(c, n)
      PROVE  \A d \in Calls : Closed \in Range(inbox'[d]) => Closed \in Range(inbox[d])
  <2>1. inbox[c] \in Seq(Items \cup {Closed}) /\ n # Closed
    BY ClientAssumption DEF TypeOK, Items, Closed
  <2>2. Range(Append(inbox[c], n)) = Range(inbox[c]) \cup {n}
    BY <2>1, RangeOfAppend
  <2> QED
    BY <1>a, <2>1, <2>2 DEF Into, TypeOK
<1> USE DEF Goto, closed
<1>1. ASSUME NEW c \in Calls,
             \/ Begin(c) \/ Register(c) \/ SendRequest(c) \/ Publish(c) \/ TakeBuffered(c)
             \/ DropFuture(c) \/ Unsubscribe(c)
      PROVE  OpenInv'
  <2>1. UNCHANGED <<closing, inbox>> /\ Closed' = Closed
    BY <1>1 DEF Begin, Register, SendRequest, Publish, TakeBuffered, DropFuture, Unsubscribe, Closed
  <2>2. closing = "no" => \A d \in Calls : d \in sinks' <=> Subscribed(d)'
    BY <1>1 DEF Begin, Register, SendRequest, Publish, TakeBuffered, DropFuture, Unsubscribe, TypeOK
  <2> QED
    BY <2>1, <2>2
<1>2. ASSUME NEW c \in Calls, Replay(c) PROVE OpenInv'
  <2>1. UNCHANGED <<closing, sinks>> /\ Closed' = Closed
    BY <1>2 DEF Replay, Closed
  <2>2. \A d \in Calls : Subscribed(d)' <=> Subscribed(d)
    BY <1>2 DEF Replay, TypeOK
  <2>3. \A d \in Calls : Closed \in Range(inbox'[d]) => Closed \in Range(inbox[d])
    <3>1. CASE replay[c] = <<>>
      BY <1>2, <3>1 DEF Replay
    <3>2. CASE replay[c] # <<>>
      <4>1. Head(replay[c]) \in Items
        BY <3>2 DEF TypeOK
      <4> QED
        BY <1>2, <1>a, <3>2, <4>1 DEF Replay
    <3> QED
      BY <3>1, <3>2
  <2> QED
    BY <2>1, <2>2, <2>3
<1>3. ASSUME NEW c \in Calls, Release(c) PROVE OpenInv'
  BY <1>3 DEF Release, ReleaseHandle, TypeOK, Closed
<1>4. ASSUME DropClient PROVE OpenInv'
  BY <1>4 DEF DropClient, ReleaseHandle, Closed
<1>5. ASSUME CloseConnection \/ FailRequests \/ ClearBuffer PROVE OpenInv'
  BY <1>5 DEF CloseConnection, FailRequests, ClearBuffer, Closed
<1>6. ASSUME FailStreams PROVE OpenInv'
  BY <1>6 DEF FailStreams
<1>7. ASSUME Deliver PROVE OpenInv'
  <2>1. loop.call \in Calls /\ loop.n \in Items
    BY <1>7 DEF Deliver, LoopStates, TypeOK
  <2>2. \A d \in Calls : Closed \in Range(inbox'[d]) => Closed \in Range(inbox[d])
    BY <1>7, <1>a, <2>1 DEF Deliver
  <2>3. UNCHANGED <<pc, sinks, closing>> /\ Closed' = Closed
    BY <1>7 DEF Deliver, Closed
  <2> QED
    BY <2>2, <2>3
<1>8. ASSUME HandleResponse \/ LookUpSink \/ Buffer \/ LoopFails \/ LoopStops PROVE OpenInv'
  BY <1>8 DEF HandleResponse, LookUpSink, Buffer, LoopFails, LoopStops, Closed
<1>9. ASSUME NEW c \in Calls, Respond(c) \/ Notify(c) PROVE OpenInv'
  BY <1>9 DEF Respond, Notify, Closed
<1>10. CASE UNCHANGED vars
  BY <1>10 DEF vars, Closed
<1> QED
  BY <1>1, <1>2, <1>3, <1>4, <1>5, <1>6, <1>7, <1>8, <1>9, <1>10, NextCases

\* Most steps leave the wire alone.
LEMMA WireStays ==
  ASSUME UNCHANGED <<wire, emitted>>
  PROVE  /\ WireInv => WireInv'
         /\ \A c \in Calls : OnWire(c)' = OnWire(c)
<1>1. Items' = Items /\ \A c \in Calls, n \in Items : Item(c, n)' = Item(c, n)
  BY DEF Items, Item
<1>2. \A c \in Calls : OnWire(c)' = OnWire(c)
  BY <1>1 DEF OnWire
<1> QED
  BY <1>1, <1>2 DEF WireInv

\* The loop takes a frame.
LEMMA WireTaken ==
  ASSUME TypeOK, WireInv, wire # <<>>, wire' = Tail(wire), emitted' = emitted
  PROVE  WireInv'
<1>1. Items' = Items /\ \A c \in Calls, n \in Items : Item(c, n)' = Item(c, n)
  BY DEF Items, Item
<1>2. /\ Len(wire') = Len(wire) - 1 /\ Len(wire) \in Nat \ {0}
      /\ \A i \in 1 .. Len(wire') : i + 1 \in 1 .. Len(wire) /\ wire'[i] = wire[i + 1]
  BY DEF TypeOK
<1>3. ASSUME NEW i \in 1 .. Len(wire'), NEW j \in 1 .. Len(wire'), NEW c \in Calls,
             NEW m \in Items, NEW n \in Items,
             i < j, wire'[i] = Item(c, m), wire'[j] = Item(c, n)
      PROVE  m < n
  <2>1. i + 1 < j + 1
    BY <1>3
  <2> QED
    BY <1>2, <1>3, <2>1 DEF WireInv
<1>4. ASSUME NEW c \in Calls, NEW n \in OnWire(c)' PROVE n \in 1 .. emitted[c]
  <2>1. n \in Items
    BY <1>1 DEF OnWire
  <2>2. n \in OnWire(c)
    BY <2>1, OnWireTail
  <2> QED
    BY <2>2 DEF WireInv
<1> QED
  BY <1>1, <1>3, <1>4 DEF WireInv

\* The chain sends an answer, or the next notification.
LEMMA WireExtended ==
  ASSUME TypeOK, WireInv, NEW c \in Calls, Respond(c) \/ Notify(c)
  PROVE  /\ WireInv'
         /\ \A d \in Calls \ {c} : emitted'[d] = emitted[d] /\ OnWire(d)' = OnWire(d)
         /\ \/ emitted'[c] = emitted[c] /\ OnWire(c)' = OnWire(c)
            \/ /\ emitted[c] + 1 \in Items
               /\ emitted'[c] = emitted[c] + 1 /\ OnWire(c)' = OnWire(c) \cup {emitted[c] + 1}
<1>1. Items' = Items /\ \A d \in Calls, n \in Items : Item(d, n)' = Item(d, n)
  BY DEF Items, Item
<1>2. /\ \A d \in Calls : OnWire(d) \subseteq Items /\ OnWire(d)' \subseteq Items'
      /\ \A d \in Calls : emitted[d] \in Nat
  BY ClientAssumption DEF OnWire, TypeOK
<1>3. CASE Respond(c)
  <2>1. PICK ok \in BOOLEAN : wire' = Append(wire, Response(c, ok))
    BY <1>3 DEF Respond
  <2>2. emitted' = emitted
    BY <1>3 DEF Respond
  <2>3. Response(c, ok) \in Frames /\ \A d \in Calls, n \in Items : Response(c, ok) # Item(d, n)
    BY DEF Response, Item, Frames
  <2>4. \A d \in Calls : OnWire(d)' = OnWire(d)
    <3>1. ASSUME NEW d \in Calls, NEW n \in Items PROVE n \in OnWire(d)' <=> n \in OnWire(d)
      BY <2>1, <2>3, OnWireAppend
    <3> QED
      BY <1>1, <1>2, <3>1
  <2>5. ASSUME NEW i \in 1 .. Len(wire'), NEW j \in 1 .. Len(wire'), NEW d \in Calls,
               NEW m \in Items, NEW n \in Items,
               i < j, wire'[i] = Item(d, m), wire'[j] = Item(d, n)
        PROVE  m < n
    <3>1. /\ Len(wire') = Len(wire) + 1 /\ Len(wire) \in Nat
          /\ wire'[Len(wire) + 1] = Response(c, ok)
          /\ \A k \in 1 .. Len(wire) : wire'[k] = wire[k]
      BY <2>1, <2>3 DEF TypeOK
    <3>2. i \in 1 .. Len(wire) /\ j \in 1 .. Len(wire)
      BY <2>3, <2>5, <3>1
    <3> QED
      BY <2>5, <3>1, <3>2 DEF WireInv
  <2> QED
    BY <1>1, <2>2, <2>4, <2>5 DEF WireInv
<1>4. CASE Notify(c)
  <2> DEFINE e == emitted[c] + 1
  <2>1. /\ wire' = Append(wire, Item(c, e)) /\ e \in Items
        /\ emitted'[c] = e /\ \A d \in Calls \ {c} : emitted'[d] = emitted[d]
    BY <1>2, <1>4, ClientAssumption DEF Notify, TypeOK, Items
  <2>2. /\ Item(c, e) \in Frames
        /\ \A d \in Calls, n \in Items : Item(c, e) = Item(d, n) <=> d = c /\ n = e
    BY <2>1 DEF Item, Frames
  <2> HIDE DEF e
  <2>3. /\ \A d \in Calls \ {c} : OnWire(d)' = OnWire(d)
        /\ OnWire(c)' = OnWire(c) \cup {e}
    <3>1. ASSUME NEW d \in Calls, NEW n \in Items
          PROVE  n \in OnWire(d)' <=> n \in OnWire(d) \/ (d = c /\ n = e)
      BY <2>1, <2>2, OnWireAppend
    <3> QED
      BY <1>1, <1>2, <2>1, <3>1
  <2>4. ASSUME NEW i \in 1 .. Len(wire'), NEW j \in 1 .. Len(wire'), NEW d \in Calls,
               NEW m \in Items, NEW n \in Items,
               i < j, wire'[i] = Item(d, m), wire'[j] = Item(d, n)
        PROVE  m < n
    <3>1. /\ Len(wire') = Len(wire) + 1 /\ Len(wire) \in Nat
          /\ wire'[Len(wire) + 1] = Item(c, e)
          /\ \A k \in 1 .. Len(wire) : wire'[k] = wire[k]
      BY <2>1, <2>2 DEF TypeOK
    <3>2. i \in 1 .. Len(wire)
      BY <2>4, <3>1
    <3>3. CASE j \in 1 .. Len(wire)
      BY <2>4, <3>1, <3>2, <3>3 DEF WireInv
    <3>4. CASE j = Len(wire) + 1
      <4>1. d = c /\ n = e
        BY <2>2, <2>4, <3>1, <3>4
      <4>2. m \in OnWire(c)
        BY <2>4, <3>1, <3>2, <4>1 DEF OnWire
      <4>3. m <= emitted[c]
        BY <1>2, <4>2 DEF WireInv
      <4> QED
        BY <1>2, <4>1, <4>3 DEF e, Items
    <3> QED
      BY <3>1, <3>3, <3>4
  <2>5. \A d \in Calls : OnWire(d)' \subseteq 1 .. emitted'[d]
    <3>1. 1 .. emitted[c] \cup {e} \subseteq 1 .. e
      BY <1>2 DEF e
    <3> QED
      BY <2>1, <2>3, <3>1 DEF WireInv
  <2>6. WireInv'
    BY <1>1, <2>4, <2>5 DEF WireInv
  <2> QED
    BY <2>1, <2>3, <2>6 DEF e
<1> QED
  BY <1>3, <1>4

\* Steps that take nothing out of one place and put it into another
LEMMA LineStays ==
  ASSUME TypeOK, NEW c \in Calls, Line(c),
         inbox'[c] = inbox[c], replay'[c] = replay[c], buffered'[c] = buffered[c],
         dropped'[c] = dropped[c], emitted'[c] = emitted[c],
         InHand(c)' = InHand(c), OnWire(c)' = OnWire(c),
         pc'[c] \in {"replaying", "streaming"} => pc[c] = pc'[c],
         pc'[c] \in {"idle", "begun", "registered", "waiting", "publishing"} =>
           pc[c] \in {"idle", "begun", "registered", "waiting", "publishing"}
  PROVE  Line(c)'
<1>1. Kept(c)' = Kept(c)
  BY DEF Kept
<1> QED
  BY <1>1 DEF Line, Increasing, Below

\* The numbers a call's notifications have.
LEMMA LineTypes ==
  ASSUME TypeOK, NEW c \in Calls
  PROVE  /\ inbox[c] \in Seq(Nat) /\ replay[c] \in Seq(Nat) /\ buffered[c] \in Seq(Nat)
         /\ emitted[c] \in Nat
         /\ Kept(c) \subseteq Nat /\ InHand(c) \subseteq Nat /\ OnWire(c) \subseteq Items
<1>1. Items \subseteq Nat /\ Closed \in Nat
  BY ClientAssumption DEF Items, Closed
<1>2. /\ inbox[c] \in Seq(Items \cup {Closed}) /\ replay[c] \in Seq(Items)
      /\ buffered[c] \in Seq(Items) /\ emitted[c] \in Nat
  BY ClientAssumption DEF TypeOK
<1>3. inbox[c] \in Seq(Nat) /\ replay[c] \in Seq(Nat) /\ buffered[c] \in Seq(Nat)
  <2>1. ASSUME NEW S, NEW T, S \subseteq T, NEW s \in Seq(S) PROVE s \in Seq(T)
    BY <2>1
  <2>2. Items \cup {Closed} \subseteq Nat
    BY <1>1
  <2> QED
    BY <1>1, <1>2, <2>1, <2>2
<1>4. ASSUME NEW s \in Seq(Nat) PROVE Range(s) \subseteq Nat
  BY <1>4 DEF Range
<1>5. Kept(c) \subseteq Nat
  BY <1>3, <1>4 DEF Kept
<1>6. InHand(c) \subseteq Nat
  BY <1>1 DEF InHand, LoopInTurn, LoopStates, TypeOK
<1>7. OnWire(c) \subseteq Items
  BY DEF OnWire
<1> QED
  BY <1>2, <1>3, <1>5, <1>6, <1>7

LEMMA LineNext ==
  TypeOK /\ TurnInv /\ OpenInv /\ WireInv /\ LineInv /\ [Next]_vars => WireInv' /\ LineInv'
<1> SUFFICES ASSUME TypeOK, TurnInv, OpenInv, WireInv, LineInv, [Next]_vars
             PROVE  WireInv' /\ LineInv'
  OBVIOUS
<1> USE DEF callVars, routeVars, handleVars, closeVars, remoteVars, history
<1>c. ASSUME NEW c \in Calls, pc[c] \in {"publishing", "replaying"}, mode = "turns",
             MayRun({c}, FALSE, FALSE)
      PROVE  InHand(c) = {}
  BY <1>c, TurnOfCall DEF InHand
<1>s. ASSUME wire' = wire, emitted' = emitted, loop' = loop
      PROVE  WireInv' /\ \A c \in Calls : OnWire(c)' = OnWire(c) /\ InHand(c)' = InHand(c)
  BY <1>s, WireStays DEF InHand, LoopInTurn
<1>1. ASSUME NEW c \in Calls,
             \/ Begin(c) \/ Register(c) \/ SendRequest(c) \/ Publish(c) \/ DropFuture(c)
             \/ Unsubscribe(c) \/ Release(c)
      PROVE  WireInv' /\ LineInv'
  <2>1. /\ UNCHANGED <<mode, wire, emitted, loop, inbox, replay, buffered, dropped>>
        /\ closing' = "no" => closing = "no"
    BY <1>1 DEF Begin, Register, SendRequest, Publish, DropFuture, Unsubscribe, Release,
                ReleaseHandle
  <2>2. \A d \in Calls :
          /\ pc'[d] \in {"replaying", "streaming"} => pc[d] = pc'[d]
          /\ pc'[d] \in {"idle", "begun", "registered", "waiting", "publishing"} =>
               pc[d] \in {"idle", "begun", "registered", "waiting", "publishing"}
    BY <1>1 DEF Begin, Register, SendRequest, Publish, DropFuture, Unsubscribe, Release,
                Goto, TypeOK
  <2>3. WireInv' /\ \A d \in Calls : OnWire(d)' = OnWire(d) /\ InHand(d)' = InHand(d)
    BY <1>s, <2>1
  <2> QED
    BY <2>1, <2>2, <2>3, LineStays DEF LineInv
<1>2. ASSUME NEW c \in Calls, MayRun({c}, FALSE, FALSE), TakeBuffered(c)
      PROVE  WireInv' /\ LineInv'
  <2>1. /\ UNCHANGED <<mode, wire, emitted, loop, inbox, dropped, closing>>
        /\ pc[c] = "publishing" /\ pc'[c] = "replaying"
        /\ replay'[c] = buffered[c] /\ buffered'[c] = <<>>
        /\ \A d \in Calls \ {c} :
             pc'[d] = pc[d] /\ replay'[d] = replay[d] /\ buffered'[d] = buffered[d]
    BY <1>2 DEF TakeBuffered, Goto, TypeOK
  <2>2. WireInv' /\ \A d \in Calls : OnWire(d)' = OnWire(d) /\ InHand(d)' = InHand(d)
    BY <1>s, <2>1
  <2>3. SUFFICES ASSUME mode = "turns", closing = "no" PROVE Line(c)'
    BY <2>1, <2>2, LineStays DEF LineInv
  <2>4. Line(c) /\ inbox[c] = <<>> /\ replay[c] = <<>> /\ InHand(c) = {}
    BY <1>2, <1>c, <2>1, <2>3 DEF LineInv, Line
  <2>5. Range(<<>>) = {}
    BY DEF Range
  <2>6. Kept(c)' = Kept(c) /\ Range(inbox'[c]) = {}
    BY <2>1, <2>4, <2>5 DEF Kept
  <2>7. Increasing(<<>>)
    BY DEF Increasing
  <2> QED
    BY <2>1, <2>2, <2>4, <2>6, <2>7 DEF Line, Below
<1>3. ASSUME NEW c \in Calls, MayRun({c}, FALSE, FALSE), Replay(c)
      PROVE  WireInv' /\ LineInv'
  <2>1. /\ UNCHANGED <<mode, wire, emitted, loop, buffered, dropped, closing>>
        /\ pc[c] = "replaying" /\ pc'[c] \in {"replaying", "streaming"}
        /\ \A d \in Calls \ {c} :
             pc'[d] = pc[d] /\ replay'[d] = replay[d] /\ inbox'[d] = inbox[d]
    BY <1>3 DEF Replay, Into, Goto, TypeOK
  <2>2. WireInv' /\ \A d \in Calls : OnWire(d)' = OnWire(d) /\ InHand(d)' = InHand(d)
    BY <1>s, <2>1
  <2>3. SUFFICES ASSUME mode = "turns", closing = "no" PROVE Line(c)'
    BY <2>1, <2>2, LineStays DEF LineInv
  <2>4. Line(c)
    BY <2>1, <2>3 DEF LineInv
  <2>5. CASE replay[c] = <<>>
    <3>1. UNCHANGED <<replay, inbox>> /\ Kept(c)' = Kept(c)
      BY <1>3, <2>1, <2>5 DEF Replay, Kept
    <3> QED
      BY <2>1, <2>2, <2>4, <2>5, <3>1 DEF Line, Below, Increasing
  <2>6. CASE replay[c] # <<>>
    <3> DEFINE n == Head(replay[c])
    <3>1. /\ inbox'[c] = Append(inbox[c], n) /\ replay'[c] = Tail(replay[c]) /\ pc'[c] = "replaying"
          /\ inbox[c] \in Seq(Nat) /\ replay[c] \in Seq(Nat) /\ n \in Nat
      <4>1. inbox[c] \in Seq(Nat) /\ replay[c] \in Seq(Nat) /\ n \in Nat
        BY <2>6, LineTypes
      <4>2. /\ inbox' = [inbox EXCEPT ![c] = Append(@, n)]
            /\ replay' = [replay EXCEPT ![c] = Tail(@)] /\ UNCHANGED pc
        BY <1>3, <2>6 DEF Replay, Into
      <4> QED
        BY <2>1, <4>1, <4>2 DEF TypeOK
    <3> HIDE DEF n
    <3>2. /\ Range(inbox'[c]) = Range(inbox[c]) \cup {n}
          /\ Range(replay[c]) = {n} \cup Range(replay'[c])
      BY <2>6, <3>1, RangeOfAppend, RangeOfTail DEF n
    <3>3. Increasing(inbox'[c])
      BY <2>4, <3>1, <3>2, IncreasingAppend DEF Line, Below
    <3>4. Increasing(replay'[c]) /\ \A m \in Range(replay'[c]) : n < m
      BY <2>4, <2>6, <3>1, IncreasingTail DEF Line, n
    <3>5. Kept(c)' = Kept(c)
      BY <2>1, <3>2 DEF Kept
    <3>6. Below(Range(inbox'[c]), Range(replay'[c]))
      BY <2>4, <3>2, <3>4 DEF Line, Below
    <3>7. Increasing(buffered'[c])
      BY <2>1, <2>4 DEF Line
    <3> QED
      BY <2>1, <2>2, <2>4, <3>1, <3>3, <3>4, <3>5, <3>6, <3>7 DEF Line, Below
  <2> QED
    BY <2>5, <2>6
<1>4. ASSUME DropClient PROVE WireInv' /\ LineInv'
  <2>1. /\ UNCHANGED <<mode, pc, wire, emitted, loop, inbox, replay, buffered, dropped>>
        /\ closing' = "no" => closing = "no"
    BY <1>4 DEF DropClient, ReleaseHandle
  <2>2. WireInv' /\ \A d \in Calls : OnWire(d)' = OnWire(d) /\ InHand(d)' = InHand(d)
    BY <1>s, <2>1
  <2> QED
    BY <2>1, <2>2, LineStays DEF LineInv
<1>5. ASSUME CloseConnection \/ FailRequests \/ FailStreams \/ ClearBuffer \/ LoopFails \/ LoopStops
      PROVE  WireInv' /\ LineInv'
  <2>1. UNCHANGED <<wire, emitted>> /\ closing' # "no"
    BY <1>5 DEF CloseConnection, FailRequests, FailStreams, ClearBuffer, LoopFails, LoopStops, closed
  <2> QED
    BY <2>1, WireStays DEF LineInv
<1>6. ASSUME HandleResponse PROVE WireInv' /\ LineInv'
  <2>1. /\ UNCHANGED <<mode, pc, emitted, loop, inbox, replay, buffered, dropped, closing>>
        /\ wire # <<>> /\ wire' = Tail(wire) /\ Head(wire).kind = "response"
    BY <1>6 DEF HandleResponse
  <2>2. \A d \in Calls, n \in Items : Head(wire) # Item(d, n)
    BY <2>1 DEF Item
  <2>3. \A d \in Calls : OnWire(d)' = OnWire(d)
    <3>1. ASSUME NEW d \in Calls, NEW n \in Items PROVE n \in OnWire(d)' <=> n \in OnWire(d)
      BY <2>1, <2>2, OnWireTail
    <3>2. Items' = Items
      BY DEF Items
    <3>3. \A d \in Calls : OnWire(d) \subseteq Items /\ OnWire(d)' \subseteq Items
      BY <3>2 DEF OnWire
    <3> QED
      BY <3>1, <3>3
  <2>4. \A d \in Calls : InHand(d)' = InHand(d)
    BY <2>1 DEF InHand, LoopInTurn
  <2> QED
    BY <2>1, <2>3, <2>4, WireTaken, LineStays DEF LineInv
<1>7. ASSUME MayRun({}, TRUE, FALSE), LookUpSink PROVE WireInv' /\ LineInv'
  <2>1. /\ UNCHANGED <<mode, pc, emitted, inbox, replay, buffered, dropped, closing>>
        /\ wire # <<>> /\ wire' = Tail(wire) /\ Head(wire).kind = "item" /\ loop.st = "idle"
        /\ Head(wire) \in Frames
        /\ loop' = [st |-> IF Head(wire).call \in sinks THEN "deliver" ELSE "buffer",
                    call |-> Head(wire).call, n |-> Head(wire).n]
    BY <1>7 DEF LookUpSink, TypeOK
  <2>2. PICK c \in Calls, n \in Items :
          Head(wire).call = c /\ Head(wire).n = n /\ Head(wire) = Item(c, n)
    BY <2>1 DEF Frames, Item
  <2>3. /\ \A d \in Calls : InHand(d) = {} /\ InHand(d)' = IF d = c THEN {n} ELSE {}
    BY <2>1, <2>2 DEF InHand, LoopInTurn
  <2>4. \A d \in Calls, m \in Items : Head(wire) = Item(d, m) <=> d = c /\ m = n
    BY <2>2 DEF Item
  <2>5. /\ \A d \in Calls \ {c} : OnWire(d)' = OnWire(d)
        /\ OnWire(c) = OnWire(c)' \cup {n} /\ \A m \in OnWire(c)' : n < m
    <3>1. ASSUME NEW d \in Calls, NEW m \in Items
          PROVE  m \in OnWire(d) <=> m \in OnWire(d)' \/ (d = c /\ m = n)
      BY <2>1, <2>4, OnWireTail
    <3>2. Items' = Items
      BY DEF Items
    <3>3. \A d \in Calls : OnWire(d) \subseteq Items /\ OnWire(d)' \subseteq Items
      BY <3>2 DEF OnWire
    <3>4. \A m \in OnWire(c)' : n < m
      BY <2>1, <2>2, OnWireTail
    <3> QED
      BY <2>2, <3>1, <3>3, <3>4
  <2>6. WireInv'
    BY <2>1, WireTaken
  <2>7. SUFFICES ASSUME mode = "turns", closing = "no" PROVE Line(c)'
    BY <2>1, <2>3, <2>5, <2>6, LineStays DEF LineInv
  <2>8. Line(c) /\ Kept(c)' = Kept(c)
    BY <2>1, <2>2, <2>7 DEF LineInv, Kept
  <2>9. /\ Below(Kept(c), {n}) /\ Below(Kept(c) \cup {n}, OnWire(c)')
    BY <2>5, <2>8 DEF Line, Below
  <2> QED
    BY <2>1, <2>2, <2>3, <2>5, <2>8, <2>9 DEF Line, Below, Increasing
<1>8. ASSUME MayRun({}, TRUE, FALSE), Deliver PROVE WireInv' /\ LineInv'
  <2>0. PICK c \in Calls, n \in Items : loop.call = c /\ loop.n = n /\ loop.st = "deliver"
    BY <1>8 DEF Deliver, LoopStates, TypeOK
  <2>1. /\ UNCHANGED <<mode, pc, emitted, wire, replay, buffered, dropped, closing>>
        /\ loop' = Idle
        /\ pc[c] = "streaming" => Into(c, n)
    BY <1>8, <2>0 DEF Deliver
  <2>2. InHand(c) = {n} /\ \A d \in Calls \ {c} : InHand(d) = {}
    BY <2>0 DEF InHand, LoopInTurn
  <2>3. \A d \in Calls : InHand(d)' = {}
    BY <2>1 DEF InHand, LoopInTurn, Idle
  <2>4. WireInv' /\ \A d \in Calls : OnWire(d)' = OnWire(d)
    BY <2>1, WireStays
  <2>5. SUFFICES ASSUME mode = "turns", closing = "no" PROVE \A d \in Calls : Line(d)'
    BY <2>1, <2>4 DEF LineInv
  <2>6. pc[c] = "streaming" /\ Line(c) /\ replay[c] = <<>>
    BY <2>0, <2>5 DEF TurnInv, LineInv, Line
  <2>7. inbox'[c] = Append(inbox[c], n) /\ \A d \in Calls \ {c} : inbox'[d] = inbox[d]
    BY <2>1, <2>6 DEF Into, TypeOK
  <2>8. \A d \in Calls \ {c} : Line(d)'
    BY <2>1, <2>2, <2>3, <2>4, <2>5, <2>7, LineStays DEF LineInv
  <2>9. inbox[c] \in Seq(Nat) /\ n \in Nat
    BY <2>1, LineTypes, ClientAssumption DEF Items
  <2>10. Range(inbox'[c]) = Range(inbox[c]) \cup {n}
    BY <2>7, <2>9, RangeOfAppend
  <2>11. Kept(c)' = Kept(c) \cup {n}
    BY <2>1, <2>10 DEF Kept
  <2>12. \A m \in Kept(c) : m < n
    BY <2>2, <2>6 DEF Line, Below
  <2>13. Increasing(inbox'[c])
    BY <2>6, <2>7, <2>9, <2>12, IncreasingAppend DEF Line, Kept
  <2>14. Range(<<>>) = {}
    BY DEF Range
  <2>15. Below(Range(inbox'[c]), Range(replay'[c]))
    BY <2>1, <2>6, <2>14 DEF Below
  <2>16. Line(c)'
    BY <2>1, <2>2, <2>3, <2>4, <2>6, <2>11, <2>13, <2>15 DEF Line, Below
  <2> QED
    BY <2>8, <2>16
<1>9. ASSUME MayRun({}, TRUE, FALSE), Buffer PROVE WireInv' /\ LineInv'
  <2>0. PICK c \in Calls, n \in Items : loop.call = c /\ loop.n = n /\ loop.st = "buffer"
    BY <1>9 DEF Buffer, LoopStates, TypeOK
  <2>1. /\ UNCHANGED <<mode, pc, emitted, wire, replay, inbox, closing>>
        /\ loop' = Idle
    BY <1>9, <2>0 DEF Buffer
  <2>2. InHand(c) = {n} /\ \A d \in Calls \ {c} : InHand(d) = {}
    BY <2>0 DEF InHand, LoopInTurn
  <2>3. \A d \in Calls : InHand(d)' = {}
    BY <2>1 DEF InHand, LoopInTurn, Idle
  <2>4. WireInv' /\ \A d \in Calls : OnWire(d)' = OnWire(d)
    BY <2>1, WireStays
  <2>5. SUFFICES ASSUME mode = "turns", closing = "no" PROVE \A d \in Calls : Line(d)'
    BY <2>1, <2>4 DEF LineInv
  <2>6. c \notin sinks /\ pc[c] \notin {"publishing", "replaying", "streaming"} /\ Line(c)
    BY <2>0, <2>5 DEF TurnInv, OpenInv, Subscribed, LineInv
  <2>7. /\ \A d \in Calls \ {c} : buffered'[d] = buffered[d] /\ dropped'[d] = dropped[d]
        /\ \/ buffered'[c] = Append(buffered[c], n) /\ dropped'[c] = dropped[c]
           \/ buffered'[c] = buffered[c] /\ dropped'[c] = dropped[c] \cup {n}
    BY <1>9, <2>0 DEF Buffer, TypeOK
  <2>8. \A d \in Calls \ {c} : Line(d)'
    BY <2>1, <2>2, <2>3, <2>4, <2>5, <2>7, LineStays DEF LineInv
  <2>9. buffered[c] \in Seq(Nat) /\ n \in Nat
    BY <2>1, LineTypes, ClientAssumption DEF Items
  <2>10. \A m \in Kept(c) : m < n
    BY <2>2, <2>6 DEF Line, Below
  <2>11. CASE buffered'[c] = Append(buffered[c], n) /\ dropped'[c] = dropped[c]
    <3>1. Range(buffered'[c]) = Range(buffered[c]) \cup {n}
      BY <2>9, <2>11, RangeOfAppend
    <3>2. Kept(c)' = Kept(c) \cup {n}
      BY <2>1, <3>1 DEF Kept
    <3>3. Increasing(buffered'[c])
      BY <2>6, <2>9, <2>10, <2>11, IncreasingAppend DEF Line, Kept
    <3> QED
      <4>1. /\ Below(Kept(c) \cup {n}, OnWire(c))
            /\ Kept(c) \cup {n} \cup OnWire(c) \subseteq 1 .. emitted[c]
            /\ 1 .. emitted[c] \subseteq Kept(c) \cup {n} \cup OnWire(c) \cup dropped[c]
        BY <2>2, <2>6 DEF Line
      <4>2. Below((Kept(c) \cup {n}) \cup {}, OnWire(c)) /\ Below(Kept(c) \cup {n}, {})
        BY <4>1 DEF Below
      <4>3. Line(c)'
        BY <2>1, <2>3, <2>4, <2>6, <2>11, <3>2, <3>3, <4>1, <4>2 DEF Line, Below
      <4> QED
        BY <2>8, <4>3
  <2>12. CASE buffered'[c] = buffered[c] /\ dropped'[c] = dropped[c] \cup {n}
    <3>1. Kept(c)' = Kept(c)
      BY <2>1, <2>12 DEF Kept
    <3> QED
      BY <2>1, <2>2, <2>3, <2>4, <2>6, <2>8, <2>12, <3>1 DEF Line, Below
  <2> QED
    BY <2>7, <2>11, <2>12
<1>10. ASSUME NEW c \in Calls, Respond(c) \/ Notify(c) PROVE WireInv' /\ LineInv'
  <2>1. UNCHANGED <<mode, pc, loop, inbox, replay, buffered, dropped, closing>>
    BY <1>10 DEF Respond, Notify
  <2>2. \A d \in Calls : InHand(d)' = InHand(d) /\ Kept(d)' = Kept(d)
    BY <2>1 DEF InHand, LoopInTurn, Kept
  <2>3. /\ WireInv'
        /\ \A d \in Calls \ {c} : emitted'[d] = emitted[d] /\ OnWire(d)' = OnWire(d)
        /\ \/ emitted'[c] = emitted[c] /\ OnWire(c)' = OnWire(c)
           \/ /\ emitted[c] + 1 \in Items
              /\ emitted'[c] = emitted[c] + 1 /\ OnWire(c)' = OnWire(c) \cup {emitted[c] + 1}
    BY <1>10, WireExtended
  <2>4. SUFFICES ASSUME mode = "turns", closing = "no" PROVE Line(c)'
    BY <2>1, <2>2, <2>3, LineStays DEF LineInv
  <2>5. CASE emitted'[c] = emitted[c] /\ OnWire(c)' = OnWire(c)
    BY <2>1, <2>2, <2>4, <2>5, LineStays DEF LineInv
  <2>6. CASE /\ emitted'[c] = emitted[c] + 1 /\ OnWire(c)' = OnWire(c) \cup {emitted[c] + 1}
    <3>1. Line(c) /\ emitted[c] \in Nat
      BY <2>4, LineTypes DEF LineInv
    <3> DEFINE e == emitted[c]
    <3>2. e \in Nat /\ emitted'[c] = e + 1 /\ OnWire(c)' = OnWire(c) \cup {e + 1}
      BY <2>6, <3>1
    <3>3. /\ Kept(c) \cup InHand(c) \cup OnWire(c) \subseteq 1 .. e
          /\ 1 .. e \subseteq Kept(c) \cup InHand(c) \cup OnWire(c) \cup dropped[c]
          /\ Below(Kept(c) \cup InHand(c), OnWire(c))
      BY <3>1 DEF Line
    <3> HIDE DEF e
    <3>4. 1 .. e + 1 = 1 .. e \cup {e + 1} /\ \A m \in 1 .. e : m < e + 1
      BY <3>2
    <3>5. Below(Kept(c) \cup InHand(c), OnWire(c) \cup {e + 1})
      BY <3>3, <3>4 DEF Below
    <3>6. /\ Kept(c) \cup InHand(c) \cup OnWire(c)' \subseteq 1 .. e + 1
          /\ 1 .. e + 1 \subseteq Kept(c) \cup InHand(c) \cup OnWire(c)' \cup dropped[c]
      BY <3>2, <3>3, <3>4
    <3> QED
      BY <2>1, <2>2, <3>1, <3>2, <3>5, <3>6 DEF Line, Below, Increasing
  <2> QED
    BY <2>3, <2>5, <2>6
<1>11. CASE UNCHANGED vars
  <2>1. /\ UNCHANGED <<mode, pc, wire, emitted, loop, inbox, replay, buffered, dropped, closing>>
    BY <1>11 DEF vars
  <2>2. WireInv' /\ \A d \in Calls : OnWire(d)' = OnWire(d) /\ InHand(d)' = InHand(d)
    BY <1>s, <2>1
  <2> QED
    BY <2>1, <2>2, LineStays DEF LineInv
<1> QED
  BY <1>1, <1>2, <1>3, <1>4, <1>5, <1>6, <1>7, <1>8, <1>9, <1>10, <1>11, NextCases

-----------------------------------------------------------------------------
(* The theorems.                                                           *)

\* A stream's notifications are in order while the line is, and stay so.
LEMMA OrderNext ==
  TypeOK /\ TurnInv /\ OpenInv /\ ItemsInOrderInTurns /\ [Next]_vars /\ TypeOK' /\ OpenInv' /\ LineInv'
    => ItemsInOrderInTurns'
<1> SUFFICES ASSUME TypeOK, TurnInv, OpenInv, ItemsInOrderInTurns, [Next]_vars,
                    TypeOK', OpenInv', LineInv', mode' = "turns",
                    NEW c \in Calls, pc'[c] = "streaming"
             PROVE  InOrder(c)' /\ NoGap(c)'
  BY DEF ItemsInOrderInTurns, ItemsInOrder
<1> USE DEF callVars, routeVars, handleVars, closeVars, remoteVars, history
<1>0. Closed' = Closed
  BY DEF Closed
<1>1. CASE closing' = "no"
  <2>1. Line(c)' /\ Closed \notin Range(inbox'[c]) /\ replay'[c] = <<>> /\ buffered'[c] = <<>>
    BY <1>0, <1>1 DEF LineInv, OpenInv, Line
  <2>2. InOrder(c)'
    <3>1. inbox'[c] \in Seq(Items' \cup {Closed'})
      BY DEF TypeOK
    <3>2. \A i \in 1 .. Len(inbox'[c]) : inbox'[c][i] \in Range(inbox'[c])
      BY <3>1 DEF Range
    <3> QED
      BY <1>0, <2>1, <3>2 DEF Line, Increasing, InOrder
  <2>3. NoGap(c)'
    <3>1. SUFFICES ASSUME NEW n \in Range(inbox'[c]), NEW k \in 1 .. n
                   PROVE  k \in Range(inbox'[c]) \cup dropped'[c] \cup Range(replay'[c])
      BY DEF NoGap
    <3>2. Kept(c)' = Range(inbox'[c])
      <4>1. Range(<<>>) = {}
        BY DEF Range
      <4> QED
        BY <2>1, <4>1 DEF Kept
    <3>3. n \in 1 .. emitted'[c] /\ emitted'[c] \in Nat
      BY <2>1, <3>2, ClientAssumption DEF Line, TypeOK
    <3>4. k \in 1 .. emitted'[c] /\ ~(n < k)
      BY <3>1, <3>3
    <3>5. k \in Kept(c)' \cup InHand(c)' \cup OnWire(c)' \cup dropped'[c]
      BY <2>1, <3>4 DEF Line
    <3>6. k \notin InHand(c)' /\ k \notin OnWire(c)'
      BY <2>1, <3>1, <3>2, <3>4 DEF Line, Below
    <3> QED
      BY <3>2, <3>5, <3>6
  <2> QED
    BY <2>2, <2>3
<1>2. CASE closing' # "no"
  <2>1. /\ mode = "turns" /\ pc[c] = "streaming" /\ replay'[c] = replay[c]
        /\ dropped[c] \subseteq dropped'[c]
        /\ \/ inbox'[c] = inbox[c]
           \/ closing = "requests" /\ inbox'[c] = Append(inbox[c], Closed)
    <3>1. ASSUME NEW d \in Calls,
                 \/ Begin(d) \/ Register(d) \/ SendRequest(d) \/ Publish(d)
                 \/ DropFuture(d) \/ Unsubscribe(d) \/ Release(d)
          PROVE  /\ UNCHANGED <<mode, replay, dropped, inbox>>
                 /\ pc'[c] = "streaming" => pc[c] = "streaming"
      <4>1. \E stage \in Phases \ {"streaming"} : Goto(d, stage)
        BY <3>1 DEF Begin, Register, SendRequest, Publish, DropFuture, Unsubscribe, Release, Phases,
          Leased, InFuture, Polling
      <4>2. pc'[c] = "streaming" => pc[c] = "streaming"
        BY <4>1 DEF Goto, TypeOK
      <4>3. UNCHANGED <<mode, replay, dropped, inbox>>
        BY <3>1 DEF Begin, Register, SendRequest, Publish, DropFuture, Unsubscribe, Release
      <4> QED
        BY <4>2, <4>3
    <3>2. ASSUME NEW d \in Calls, TakeBuffered(d) \/ Replay(d) PROVE FALSE
      <4>1. UNCHANGED <<mode, closing>> /\ pc[d] \in {"publishing", "replaying"}
        BY <3>2 DEF TakeBuffered, Replay
      <4> QED
        BY <1>2, <4>1 DEF TurnInv
    <3>3. ASSUME Deliver PROVE FALSE
      <4>1. UNCHANGED <<mode, closing>> /\ loop.st = "deliver"
        BY <3>3 DEF Deliver
      <4> QED
        BY <1>2, <4>1 DEF TurnInv
    <3>4. ASSUME Buffer
          PROVE  UNCHANGED <<mode, pc, replay, inbox>> /\ dropped[c] \subseteq dropped'[c]
      <4>1. dropped' = dropped \/ dropped' = [dropped EXCEPT ![loop.call] = @ \cup {loop.n}]
        BY <3>4 DEF Buffer
      <4>2. ASSUME dropped' = [dropped EXCEPT ![loop.call] = @ \cup {loop.n}]
            PROVE  dropped[c] \subseteq dropped'[c]
        BY <4>2 DEF TypeOK
      <4> QED
        BY <3>4, <4>1, <4>2 DEF Buffer
    <3>5. ASSUME FailStreams
          PROVE  /\ UNCHANGED <<mode, pc, replay, dropped>> /\ closing = "requests"
                 /\ inbox'[c] = inbox[c] \/ inbox'[c] = Append(inbox[c], Closed)
      BY <3>5 DEF FailStreams
    <3>6. ASSUME \/ DropClient \/ CloseConnection \/ FailRequests \/ ClearBuffer
                 \/ HandleResponse \/ LookUpSink \/ LoopFails \/ LoopStops
                 \/ \E d \in Calls : Respond(d) \/ Notify(d)
                 \/ UNCHANGED vars
          PROVE  UNCHANGED <<mode, pc, replay, inbox, dropped>>
      BY <3>6 DEF DropClient, CloseConnection, FailRequests, ClearBuffer, HandleResponse,
                  LookUpSink, LoopFails, LoopStops, Respond, Notify, vars
    <3> QED
      BY <3>1, <3>2, <3>3, <3>4, <3>5, <3>6, NextCases
  <2>2. InOrder(c) /\ NoGap(c)
    BY <2>1 DEF ItemsInOrderInTurns, ItemsInOrder
  <2>3. CASE inbox'[c] = inbox[c]
    BY <1>0, <2>1, <2>2, <2>3 DEF InOrder, NoGap
  <2>4. CASE closing = "requests" /\ inbox'[c] = Append(inbox[c], Closed)
    <3>1. Closed \notin Range(inbox[c]) /\ inbox[c] \in Seq(Items \cup {Closed})
      BY <2>4 DEF OpenInv, TypeOK
    <3>2. Range(inbox'[c]) = Range(inbox[c]) \cup {Closed}
      BY <2>4, <3>1, RangeOfAppend
    <3>3. \A i \in 1 .. Len(inbox[c]) : inbox[c][i] \in Range(inbox[c])
      BY <3>1 DEF Range
    <3>4. /\ Len(inbox'[c]) = Len(inbox[c]) + 1 /\ Len(inbox[c]) \in Nat
          /\ inbox'[c][Len(inbox[c]) + 1] = Closed
          /\ \A i \in 1 .. Len(inbox[c]) : inbox'[c][i] = inbox[c][i]
      BY <2>4, <3>1
    <3>5. InOrder(c)'
      <4>1. SUFFICES ASSUME NEW i \in 1 .. Len(inbox[c]) + 1, NEW j \in 1 .. Len(inbox[c]) + 1, i < j
                     PROVE  /\ inbox'[c][i] # Closed
                            /\ inbox'[c][j] = Closed \/ inbox'[c][i] < inbox'[c][j]
        BY <1>0, <3>4 DEF InOrder
      <4>2. i \in 1 .. Len(inbox[c]) /\ (j = Len(inbox[c]) + 1 \/ j \in 1 .. Len(inbox[c]))
        BY <3>4, <4>1
      <4>3. inbox'[c][i] = inbox[c][i] /\ inbox[c][i] # Closed
        BY <3>1, <3>3, <3>4, <4>2
      <4>4. CASE j = Len(inbox[c]) + 1
        BY <3>4, <4>3, <4>4
      <4>5. CASE j \in 1 .. Len(inbox[c])
        BY <2>2, <3>4, <4>1, <4>2, <4>3, <4>5 DEF InOrder
      <4> QED
        BY <4>2, <4>3, <4>4, <4>5
    <3>6. NoGap(c)'
      BY <1>0, <2>1, <2>2, <3>2 DEF NoGap
    <3> QED
      BY <3>5, <3>6
  <2> QED
    BY <2>1, <2>3, <2>4
<1> QED
  BY <1>1, <1>2

LEMMA InitSafe == Init => IInv
<1> SUFFICES ASSUME Init PROVE IInv
  OBVIOUS
<1>1. TypeOK
  <2>1. /\ mode \in Modes /\ closing \in ClosingPhases /\ handles \in Nat
        /\ owner \in BOOLEAN /\ broken \in BOOLEAN
    BY DEF Init, ClosingPhases
  <2>2. /\ pc \in [Calls -> Phases] /\ answer \in [Calls -> {"none", "ok", "error"}]
        /\ remote \in [Calls -> {"none", "asked", "subscribed", "ended"}]
        /\ pending \in SUBSET Calls /\ sinks \in SUBSET Calls
        /\ early \in [Calls -> SUBSET Items] /\ dropped \in [Calls -> SUBSET Items]
    BY DEF Init, Phases
  <2>3. ASSUME NEW S PROVE <<>> \in Seq(S) /\ [c \in Calls |-> <<>>] \in [Calls -> Seq(S)]
    OBVIOUS
  <2>4. /\ buffered \in [Calls -> Seq(Items)] /\ replay \in [Calls -> Seq(Items)]
        /\ inbox \in [Calls -> Seq(Items \cup {Closed})] /\ wire \in Seq(Frames)
    BY <2>3 DEF Init
  <2>5. loop \in LoopStates /\ emitted \in [Calls -> 0 .. MaxItems]
    BY ClientAssumption DEF Init, LoopStates, Idle
  <2> QED
    BY <2>1, <2>2, <2>4, <2>5 DEF TypeOK
<1>2. CloseInv /\ OpenInv
  BY DEF Init, CloseInv, Entered, OpenInv, Subscribed, Range
<1>3. HandleInv
  <2>1. Leases = {}
    BY DEF Init, Leases, Leased, InFuture, Polling
  <2> QED
    BY <2>1, FS_EmptySet DEF Init, HandleInv, closed
<1>4. TurnInv
  BY DEF Init, TurnInv, CallInTurn, LoopInTurn, CloseInTurn, Polling, Idle
<1>5. \A c \in Calls : OnWire(c) = {} /\ InHand(c) = {} /\ Kept(c) = {}
  BY DEF Init, OnWire, InHand, Kept, LoopInTurn, Idle, Range
<1>6. WireInv
  BY <1>5 DEF Init, WireInv
<1>7. LineInv
  <2>1. SUFFICES ASSUME NEW c \in Calls PROVE Line(c)
    BY DEF LineInv
  <2>2. /\ inbox[c] = <<>> /\ replay[c] = <<>> /\ buffered[c] = <<>> /\ emitted[c] = 0
        /\ pc[c] = "idle"
    BY DEF Init
  <2>3. 1 .. 0 = {}
    OBVIOUS
  <2> QED
    BY <1>5, <2>2, <2>3 DEF Line, Increasing, Below, Range
<1>8. ItemsInOrderInTurns
  BY DEF Init, ItemsInOrderInTurns, ItemsInOrder
<1> QED
  BY <1>1, <1>2, <1>3, <1>4, <1>6, <1>7, <1>8 DEF IInv

LEMMA InvNext == IInv /\ [Next]_vars => IInv'
<1> SUFFICES ASSUME IInv, [Next]_vars PROVE IInv'
  OBVIOUS
<1>1. TypeOK' /\ CloseInv' /\ HandleInv' /\ TurnInv' /\ OpenInv'
  BY TypeNext, CloseNext, HandleNext, TurnNext, OpenNext DEF IInv
<1>2. WireInv' /\ LineInv'
  BY LineNext DEF IInv
<1>3. ItemsInOrderInTurns'
  BY <1>1, <1>2, OrderNext DEF IInv
<1> QED
  BY <1>1, <1>2, <1>3 DEF IInv

(* The inductive invariant holds, whatever the callers, the connection and *)
(* the chain do.                                                           *)
THEOREM Safety == Spec => []IInv
<1>1. Init => IInv
  BY InitSafe
<1>2. IInv /\ [Next]_vars => IInv'
  BY InvNext
<1> QED
  BY <1>1, <1>2, PTL DEF Spec

(* Type correctness of the JSON-RPC client.                                *)
THEOREM TypeCorrect == Spec => []TypeOK
<1>1. IInv => TypeOK
  BY DEF IInv
<1> QED
  BY <1>1, Safety, PTL

(* Once close_with_error is through, nobody waits and every stream has     *)
(* been handed the error, whichever calls were in the middle of what.      *)
THEOREM CloseReachesEverybodyHolds == Spec => []CloseReachesEverybody
<1>1. IInv => CloseReachesEverybody
  BY DEF IInv, CloseInv, Entered, CloseReachesEverybody
<1> QED
  BY <1>1, Safety, PTL

(* user_handles never reaches zero under the client, a call or a stream,   *)
(* and does when the last of them has gone; the connection is then closed  *)
(* (release_user_handle).                                                  *)
THEOREM LeaseKeepsOpenHolds == Spec => []LeaseKeepsOpen
<1>1. IInv => LeaseKeepsOpen
  <2> DEFINE used == owner \/ \E c \in Calls : pc[c] \in Leased
  <2> SUFFICES ASSUME HandleInv
               PROVE  (closed /\ ~broken => ~used) /\ (~used => closed)
    BY DEF IInv, LeaseKeepsOpen
  <2>1. Cardinality(Leases) \in Nat /\ (Cardinality(Leases) = 0 <=> Leases = {})
    BY FS_CardinalityType, FS_EmptySet DEF HandleInv
  <2>2. Leases = {} <=> \A c \in Calls : pc[c] \notin Leased
    BY DEF Leases
  <2>3. handles = 0 <=> ~used
    BY <2>1, <2>2 DEF HandleInv
  <2> QED
    BY <2>3 DEF HandleInv
<1> QED
  BY <1>1, Safety, PTL

(* On one thread a stream yields its notifications in order and without a  *)
(* gap (subscribe_raw, handle_notification).                               *)
THEOREM ItemsInOrderInTurnsHolds == Spec => []ItemsInOrderInTurns
<1>1. IInv => ItemsInOrderInTurns
  BY DEF IInv
<1> QED
  BY <1>1, Safety, PTL

-----------------------------------------------------------------------------
(***************************************************************************)
(* The chain runtime and its callers (ChainCallers, and with it            *)
(* ChainRuntime): any number of streams, requests, broadcasts, stops and   *)
(* users of the client, any number of connections, any aliases, on one     *)
(* thread and on several.                                                  *)
(***************************************************************************)

(* What the follows are proved under: a follow id is the request id of its *)
(* subscription behind the connection's prefix, and the JavaScript client  *)
(* gives every subscription an id of its own.                              *)
IdsOfTheirOwn == \A s, t \in Streams : IdOf[s] = IdOf[t] => s = t

LinkStates  == {"none", "connecting", "open", "failed", "closed"}
FetchStates == {"none", "fresh", "asked", "pumping", "over", "failed"}

\* A start task before it has registered its follow; all there is of one, of
\* a request, and of the other callers.
Early      == {"idle", "spawned", "waiting", "connected", "checked"}
StartSteps == Early \cup {"registered", "joined", "following", "failing", "failed"}
AskSteps   == {"idle", "spawned", "waiting", "connected", "awaiting", "settled", "resolved",
               "joined", "required", "sent", "refused", "dropped"}
BroadcastSteps == {"idle", "spawned", "waiting", "connected", "drawn", "tracked", "failing",
                   "refused", "dropped"}
StopSteps  == {"idle", "asked", "taken", "waiting", "connected", "failing", "stopped",
               "refused", "dropped"}
UserSteps  == {"idle", "spawned", "waiting", "connected", "building", "used", "failing",
               "refused", "dropped"}
Linked     == {"waiting", "connected", "checked", "registered", "joined", "following",
               "awaiting", "settled", "resolved", "required", "building"}

(* Everybody is at a step of his own; where no poll is interrupted, at     *)
(* most one task is in the middle of one.                                  *)
PlacesInv ==
  /\ DOMAIN phase = Tasks /\ DOMAIN waits = Tasks
  /\ \A s \in Streams : phase[s] \in StartSteps
  /\ \A q \in Requests : phase[q] \in AskSteps
  /\ \A b \in Broadcasts : phase[b] \in BroadcastSteps
  /\ \A x \in Stops : phase[x] \in StopSteps
  /\ \A u \in Users : phase[u] \in UserSteps
  /\ threading = "turns" =>
       \A t, u \in Tasks : phase[t] \in MidPoll /\ phase[u] \in MidPoll => t = u

(* Attempts are numbered as they are made, the last one holds, and who has *)
(* a connection, or waits for one, names an attempt that was made.         *)
Made(n) == \A k \in Conns : link[k] # "none" <=> k <= n
LinksInv ==
  /\ conn \in 0..MaxConns /\ setup \in 0..MaxConns
  /\ link \in [Conns -> LinkStates] /\ at \in [Tasks -> 0..MaxConns]
  /\ OneConnection
  /\ setup # 0 => link[setup] # "none"
  /\ \E n \in 0..MaxConns : Made(n)
  /\ link[MaxConns] \notin {"failed", "closed"}
  /\ \A t \in Tasks : at[t] # 0 => link[at[t]] # "none"
  /\ \A t \in Tasks : phase[t] \in Linked => at[t] # 0

(* A stream's own setup is the one it waits for, and it fetches nothing    *)
(* before it has registered its follow.                                    *)
FetchInv ==
  /\ fetch \in [Streams -> FetchStates]
  /\ \A s \in Streams :
       /\ phase[s] \in Early \cup {"registered"} => fetch[s] = "none"
       /\ phase[s] = "joined" => waits[s] = s /\ fetch[s] # "none"
       /\ phase[s] = "following" => waits[s] = s /\ fetch[s] \in {"pumping", "over"}
       /\ phase[s] \in {"failing", "failed"} => fetch[s] \in {"none", "failed"}

(* A stream has at most one follow, on its own connection, from when it    *)
(* registered it; a follow has no remote but its stream's, and was made    *)
(* the way its stream asked for.                                           *)
FollowsInv ==
  /\ follows \subseteq FollowStates
  /\ \A f \in follows :
       /\ f.conn = at[f.owner] /\ phase[f.owner] \notin Early
       /\ f.remote \in {NoStream, f.owner}
       /\ f.remote # NoStream => fetch[f.owner] # "none"
       /\ f.runtime <=> f.owner \in WithRuntime
  /\ \A f, g \in follows : f.owner = g.owner => f = g

(* A follow is about to be set up, is being set up, or is done with.       *)
SetupsInv ==
  /\ setups \subseteq Streams
  /\ \A x \in setups : fetch[x] # "none"
  /\ \A f \in follows : f.owner \in setups \/ phase[f.owner] = "registered"
                        \/ fetch[f.owner] \in {"over", "failed"}

(* Who pumps can be found: by the remote, to be stopped, and by the        *)
(* stream, to be kept open.                                                *)
PumpsInv ==
  /\ cancelled \subseteq Streams
  /\ \A x \in Streams : fetch[x] = "pumping" =>
       (\E f \in follows : f.remote = x) \/ x \in aborted \/ link[at[x]] = "closed"
  /\ \A x \in Streams : fetch[x] = "pumping" =>
       (\E f \in follows : f.owner = x) \/ x \in cancelled

(* A live stream is in the tables of what is pending, and nobody else is.  *)
IntentsInv ==
  /\ starts \subseteq Streams
  /\ \A i \in intents : \E s \in Streams : i = IdOf[s] /\ phase[s] # "idle"
  /\ \A s \in Streams : phase[s] \notin {"idle", "failed"} /\ s \notin cancelled =>
       s \in starts /\ IdOf[s] \in intents

Broken == \E k \in Conns : link[k] \in {"failed", "closed"}

\* A start that fails does so for one of three reasons.
Undone(s) == s \in cancelled \/ fetch[s] \in {"failed", "over"} \/ Broken
StartsInv == \A s \in Streams :
  /\ phase[s] = "registered" => Undone(s) \/ \E f \in follows : f.owner = s
  /\ phase[s] \in {"failing", "failed"} => Undone(s)

\* Whom a request waits for, and what it was promised.
AskInv(q) ==
  /\ promised[q] # NoStream =>
       /\ promised[q] \in Streams /\ phase[promised[q]] # "idle"
       /\ name[q] \in Aliases \/ name[q] = IdOf[promised[q]]
  /\ phase[q] = "idle" => promised[q] = NoStream
  /\ phase[q] \in {"idle", "spawned", "waiting", "connected"} => waits[q] = NoStream
  /\ phase[q] \in {"awaiting", "settled", "resolved", "joined", "required"} => waits[q] \in Streams
  /\ phase[q] = "settled" => phase[waits[q]] = "following"
  /\ phase[q] = "required" => q \in RuntimeCalls
  /\ phase[q] \in {"resolved", "required"} =>
       Undone(waits[q]) \/ \E f \in follows : f.owner = waits[q] /\ f.conn = at[q]

AsksInv ==
  /\ DOMAIN promised = Requests /\ name \in [Requests -> Names \cup {NoName}]
  /\ \A q \in Requests : AskInv(q)

(* A handle has its number from when the provider gave an operation.       *)
HandlesInv ==
  /\ sequence \in [Broadcasts -> Nat] /\ DOMAIN target = Stops /\ ops \subseteq Broadcasts
  /\ \A x \in Stops : phase[x] # "idle" => target[x] \in Broadcasts
  /\ \A b \in Broadcasts : phase[b] \in {"idle", "spawned", "waiting", "connected"} => sequence[b] = 0
  /\ HandlesLast

(* The generations of a connection's client are numbered as they are       *)
(* built; the one in the cache is the newest whose backend may run.        *)
ClientsInv ==
  /\ slot \in [Conns -> Nat] /\ newest \in [Conns -> Nat] /\ joined \in [Users -> Nat]
  /\ build \in [Bundles -> {"none", "asked", "built", "failed"}]
  /\ driven \subseteq Conns \X Nat
  /\ \A k \in Conns : slot[k] <= newest[k] /\ (slot[k] # 0 => <<k, slot[k]>> \in driven)
  /\ \A k \in Conns, g \in Nat : <<k, g>> \in driven => g <= newest[k]
  /\ \A k \in Conns, g \in Generations :
       /\ g > newest[k] => build[<<k, g>>] = "none"
       /\ build[<<k, g>>] \in {"asked", "built"} /\ <<k, g>> \in driven => slot[k] = g
       /\ slot[k] = g => build[<<k, g>>] # "none"
  /\ \A u \in Users : phase[u] = "building" => joined[u] <= newest[at[u]] /\ joined[u] # 0
  /\ \A u \in Users : phase[u] = "building" /\ joined[u] \in Generations => build[<<at[u], joined[u]>>] # "none"

(* The inductive invariant.                                                *)
FollowsIInv == FetchInv /\ FollowsInv /\ SetupsInv /\ PumpsInv
ChainIInv ==
  /\ PlacesInv /\ LinksInv /\ FollowsIInv /\ IntentsInv /\ StartsInv /\ AsksInv
  /\ RequestsAwaitSetupInTurns /\ HandlesInv /\ ClientsInv

-----------------------------------------------------------------------------
\* The kinds of callers have nobody in common.
LEMMA CallersApart ==
  /\ Streams \cap Requests = {} /\ Streams \cap Others = {} /\ Requests \cap Others = {}
  /\ Streams \subseteq Tasks /\ Requests \subseteq Tasks /\ Others \subseteq Tasks
  /\ Broadcasts \subseteq Others /\ Stops \subseteq Others /\ Users \subseteq Others
  /\ Broadcasts \cap Stops = {} /\ Broadcasts \cap Users = {} /\ Stops \cap Users = {}
  /\ \A t \in Tasks : t \in Streams \/ t \in Requests \/ t \in Broadcasts \/ t \in Stops \/ t \in Users
BY ChainAssumption, CallersAssumption DEF Tasks

\* A connection is numbered when there is one.
LEMMA Numbered ==
  /\ MaxConns \in Nat \ {0}
  /\ \A n \in 0..MaxConns : n # 0 => n \in Conns
  /\ Conns \subseteq 0..MaxConns /\ 0 \notin Conns /\ MaxConns \in Conns
BY ChainAssumption DEF Conns

\* Attempts are numbered as they are made.
LEMMA NewestIsLast ==
  ASSUME NEW n \in 0..MaxConns, Made(n)
  PROVE  NewestConn = n
<1>1. {k \in Conns : link[k] # "none"} = 1..n
  BY Numbered DEF Made, Conns
<1>2. Cardinality(1..n) = n
  BY FS_Interval, Numbered
<1> QED
  BY <1>1, <1>2 DEF NewestConn

\* A poll that is not interrupted is the only one.
LEMMA OnePoll ==
  ASSUME PlacesInv, NEW t \in Tasks, NEW x, phase' = [phase EXCEPT ![t] = x],
         threading' = threading, x \in MidPoll => MayPoll({t})
  PROVE  (threading = "turns" =>
            \A r, u \in Tasks : phase[r] \in MidPoll /\ phase[u] \in MidPoll => r = u)'
<1> SUFFICES ASSUME threading = "turns", NEW r \in Tasks, NEW u \in Tasks,
                    phase'[r] \in MidPoll, phase'[u] \in MidPoll
             PROVE  r = u
  OBVIOUS
<1>1. CASE x \in MidPoll
  <2>1. \A v \in Tasks : phase[v] \in MidPoll => v = t
    BY <1>1 DEF MayPoll
  <2> QED
    BY <2>1 DEF PlacesInv
<1>2. CASE x \notin MidPoll
  BY <1>2 DEF PlacesInv
<1> QED
  BY <1>1, <1>2

-----------------------------------------------------------------------------
(* connection_for                                                          *)

\* connection_for gives the caller the connection that is open, or lets it wait
\* for the attempt under way or for one more, and no attempt begins beside another.
LEMMA ConnectionForPart ==
  ASSUME LinksInv, NEW t \in Tasks, ConnectionFor(t), DOMAIN phase = Tasks
  PROVE  /\ LinksInv'
         /\ phase' = [phase EXCEPT ![t] = phase'[t]] /\ phase'[t] \in {"connected", "waiting"}
         /\ \A u \in Tasks \ {t} : at'[u] = at[u]
         /\ at'[t] # 0
         /\ \A k \in Conns : link[k] \in {"failed", "closed"} => link'[k] = link[k]
<1> DEFINE live == conn # 0 /\ link[conn] = "open"
           next == IF setup # 0 THEN setup ELSE NewestConn + 1
<1>0. /\ GoesTo(t, IF live THEN "connected" ELSE "waiting")
      /\ at' = [at EXCEPT ![t] = IF live THEN conn ELSE next]
      /\ IF live THEN UNCHANGED connVars
         ELSE /\ conn' = 0 /\ setup' = next
              /\ link' = [link EXCEPT ![next] = IF @ = "none" THEN "connecting" ELSE @]
  BY DEF ConnectionFor
<1>1. PICK n \in 0..MaxConns : Made(n)
  BY DEF LinksInv
<1>2. NewestConn = n
  BY <1>1, NewestIsLast
<1>3. /\ phase' = [phase EXCEPT ![t] = phase'[t]] /\ phase'[t] \in {"connected", "waiting"}
  BY <1>0 DEF GoesTo
<1>4. CASE live
  <2>1. conn' = conn /\ setup' = setup /\ link' = link
    BY <1>0, <1>4 DEF connVars
  <2>2. at' = [at EXCEPT ![t] = conn]
    BY <1>0, <1>4
  <2>3. Made(n)'
    BY <1>1, <2>1 DEF Made
  <2> QED
    BY <1>3, <1>4, <2>1, <2>2, <2>3, Numbered DEF LinksInv, OneConnection
<1>5. CASE ~ live
  <2>1. \A k \in Conns : link[k] # "open"
    BY <1>5, Numbered DEF LinksInv, OneConnection
  <2>2. setup = 0 => n < MaxConns
    BY <1>1, <2>1, Numbered DEF LinksInv, OneConnection, Made, LinkStates, Conns
  <2>3. next \in Conns
    BY <1>2, <2>2, Numbered DEF LinksInv, Conns
  <2>4. /\ conn' = 0 /\ setup' = next /\ at' = [at EXCEPT ![t] = next]
        /\ link' = [link EXCEPT ![next] = IF link[next] = "none" THEN "connecting" ELSE link[next]]
    BY <1>0, <1>5
  <2>5. setup # 0 => next = setup /\ link' = link
    BY <2>3, <2>4 DEF LinksInv
  <2>6. setup = 0 => link[next] = "none" /\ \A k \in Conns : link[k] # "connecting"
    BY <1>1, <1>2, <2>3, Numbered DEF LinksInv, OneConnection, Made, Conns
  <2> HIDE DEF next
  <2>7. OneConnection'
    BY <2>1, <2>3, <2>4, <2>5, <2>6 DEF LinksInv, OneConnection
  <2>8. \E m \in 0..MaxConns : Made(m)'
    <3>1. CASE setup # 0
      BY <1>1, <2>5, <3>1 DEF Made
    <3>2. CASE setup = 0
      <4>1. n + 1 \in 0..MaxConns /\ next = n + 1
        BY <1>2, <2>2, <3>2, Numbered DEF next
      <4>2. Made(n + 1)'
        BY <1>1, <2>3, <2>4, <2>6, <3>2, <4>1, Numbered DEF Made, Conns, LinksInv
      <4> QED
        BY <4>1, <4>2
    <3> QED
      BY <3>1, <3>2
  <2>9. /\ link' \in [Conns -> LinkStates] /\ link'[MaxConns] \notin {"failed", "closed"}
        /\ \A k \in Conns : link[k] # "none" => link'[k] # "none"
        /\ link'[next] # "none"
        /\ \A k \in Conns : link[k] \in {"failed", "closed"} => link'[k] = link[k]
    BY <2>3, <2>4, <2>5, <2>6, Numbered DEF LinksInv, LinkStates
  <2>10. next # 0 /\ next \in 0..MaxConns
    BY <2>3, Numbered
  <2> QED
    BY <1>3, <2>4, <2>7, <2>8, <2>9, <2>10, Numbered DEF LinksInv
<1> QED
  BY <1>4, <1>5

-----------------------------------------------------------------------------
(* What a step does to the places of the tasks and to the connection       *)

\* A task goes to one of the steps S and leaves the connection alone.
Moved(t, S) ==
  /\ phase' = [phase EXCEPT ![t] = phase'[t]] /\ phase'[t] \in S
  /\ phase'[t] \in MidPoll => MayPoll({t})
  /\ threading' = threading /\ DOMAIN waits' = DOMAIN waits
LinksKept == UNCHANGED <<conn, setup, link, at>>
Unlinked(t) == LinksKept /\ (phase'[t] \in Linked => phase[t] \in Linked)

\* A broken connection stays broken.
LinksGrow == \A k \in Conns : link[k] \in {"failed", "closed"} => link'[k] = link[k]

\* Who goes to a step of his own kind
LEMMA MovedPlaces ==
  ASSUME PlacesInv, NEW t \in Tasks, NEW S, Moved(t, S),
         t \in Streams => S \subseteq StartSteps, t \in Requests => S \subseteq AskSteps,
         t \in Broadcasts => S \subseteq BroadcastSteps, t \in Stops => S \subseteq StopSteps,
         t \in Users => S \subseteq UserSteps
  PROVE  PlacesInv'
<1>1. (threading = "turns" =>
            \A r, u \in Tasks : phase[r] \in MidPoll /\ phase[u] \in MidPoll => r = u)'
  BY OnePoll DEF Moved
<1>2. \A u \in Tasks : phase'[u] = IF u = t THEN phase'[t] ELSE phase[u]
  BY DEF Moved, PlacesInv
<1>3. DOMAIN phase' = Tasks /\ DOMAIN waits' = Tasks
  BY DEF Moved, PlacesInv
<1> QED
  BY <1>1, <1>2, <1>3, CallersApart DEF Moved, PlacesInv

\* Who keeps the connection he has, or gives it up
LEMMA UnlinkedLinks ==
  ASSUME PlacesInv, LinksInv, NEW t \in Tasks, NEW S, Moved(t, S), Unlinked(t)
  PROVE  LinksInv' /\ LinksGrow
<1>1. \A u \in Tasks : phase'[u] \in Linked => phase[u] \in Linked
  BY DEF Moved, Unlinked, PlacesInv
<1> QED
  BY <1>1 DEF LinksInv, Made, OneConnection, Unlinked, LinksKept, LinksGrow

\* The steps of a stream's start task, of a request and of the other callers
LEMMA StreamMoves ==
  ASSUME PlacesInv, NEW s \in Streams,
         \/ Subscribe(s) \/ ConnectionReady(s) \/ Check(s) \/ RegisterFollow(s)
         \/ Ensure(s) \/ Joined(s) \/ GiveUp(s)
  PROVE  Moved(s, StartSteps) /\ Unlinked(s)
<1> USE CallersApart DEF PlacesInv, Moved, Unlinked, LinksKept, StartSteps, Early, Linked,
  connVars, taskVars, MayPoll, MidPoll, GoesTo, Refuse
<1>1. CASE Subscribe(s)
  BY <1>1 DEF Subscribe
<1>2. CASE ConnectionReady(s)
  BY <1>2 DEF ConnectionReady
<1>3. CASE Check(s)
  BY <1>3 DEF Check
<1>4. CASE RegisterFollow(s)
  BY <1>4 DEF RegisterFollow
<1>5. CASE Ensure(s)
  BY <1>5 DEF Ensure
<1>6. CASE Joined(s)
  BY <1>6 DEF Joined
<1>7. CASE GiveUp(s)
  BY <1>7 DEF GiveUp
<1> QED
  BY <1>1, <1>2, <1>3, <1>4, <1>5, <1>6, <1>7

LEMMA RequestMoves ==
  ASSUME PlacesInv, NEW q \in Requests,
         \/ \E n \in Asked : Ask(q, n)
         \/ ConnectionReady(q) \/ Resolve(q) \/ StartSettled(q) \/ Require(q)
         \/ Fetched(q) \/ FollowWithRuntime(q) \/ DropRequest(q)
  PROVE  Moved(q, AskSteps) /\ Unlinked(q)
<1> USE CallersApart DEF PlacesInv, Moved, Unlinked, LinksKept, AskSteps, Linked,
  connVars, taskVars, MayPoll, MidPoll, GoesTo, Refuse
<1>1. CASE \E n \in Asked : Ask(q, n)
  BY <1>1 DEF Ask
<1>2. CASE ConnectionReady(q)
  BY <1>2 DEF ConnectionReady
<1>3. CASE Resolve(q)
  BY <1>3 DEF Resolve
<1>4. CASE StartSettled(q)
  BY <1>4 DEF StartSettled
<1>5. CASE Require(q)
  BY <1>5 DEF Require, Reached
<1>6. CASE Fetched(q)
  BY <1>6 DEF Fetched, Reached
<1>7. CASE FollowWithRuntime(q)
  BY <1>7 DEF FollowWithRuntime
<1>8. CASE DropRequest(q)
  BY <1>8 DEF DropRequest
<1> QED
  BY <1>1, <1>2, <1>3, <1>4, <1>5, <1>6, <1>7, <1>8

\* A caller leaves everything else as it is.
SharedKept == UNCHANGED <<threading, cast, waits, intents, starts, cancelled, follows, setups, aborted,
                    fetch, name, promised>>

LEMMA BroadcastMoves ==
  ASSUME PlacesInv, NEW b \in Broadcasts,
         \/ Broadcast(b) \/ ConnectionReady(b) \/ BroadcastAnswered(b) \/ Track(b)
         \/ FailCaller(b) \/ DropCaller(b)
  PROVE  Moved(b, BroadcastSteps) /\ Unlinked(b) /\ SharedKept
<1> USE CallersApart DEF PlacesInv, Moved, Unlinked, LinksKept, BroadcastSteps, Linked, SharedKept,
  connVars, taskVars, intentVars, tableVars, askVars, MayPoll, MidPoll, GoesTo, Refuse, Moves,
  MayCall
<1>1. CASE Broadcast(b) \/ ConnectionReady(b)
  BY <1>1 DEF Broadcast, ConnectionReady
<1>2. CASE BroadcastAnswered(b) \/ Track(b)
  BY <1>2 DEF BroadcastAnswered, Track
<1>3. CASE FailCaller(b) \/ DropCaller(b)
  BY <1>3 DEF FailCaller, DropCaller
<1> QED
  BY <1>1, <1>2, <1>3

LEMMA StopMoves ==
  ASSUME PlacesInv, NEW x \in Stops,
         \/ \E b \in Broadcasts : Stop(x, b)
         \/ ConnectionReady(x) \/ TakeOperation(x) \/ StopAnswered(x) \/ PutBack(x)
         \/ DropCaller(x)
  PROVE  Moved(x, StopSteps) /\ Unlinked(x) /\ SharedKept
<1> USE CallersApart DEF PlacesInv, Moved, Unlinked, LinksKept, StopSteps, Linked, SharedKept,
  connVars, taskVars, intentVars, tableVars, askVars, MayPoll, MidPoll, GoesTo, Refuse, Moves,
  MayCall
<1>1. CASE (\E b \in Broadcasts : Stop(x, b)) \/ ConnectionReady(x)
  BY <1>1 DEF Stop, ConnectionReady
<1>2. CASE TakeOperation(x) \/ StopAnswered(x)
  BY <1>2 DEF TakeOperation, StopAnswered
<1>3. CASE PutBack(x) \/ DropCaller(x)
  BY <1>3 DEF PutBack, DropCaller
<1> QED
  BY <1>1, <1>2, <1>3

LEMMA UserMoves ==
  ASSUME PlacesInv, NEW u \in Users,
         \/ Use(u) \/ ConnectionReady(u) \/ JoinBuild(u) \/ Built(u)
         \/ FailCaller(u) \/ DropCaller(u)
  PROVE  Moved(u, UserSteps) /\ Unlinked(u) /\ SharedKept
<1> USE CallersApart DEF PlacesInv, Moved, Unlinked, LinksKept, UserSteps, Linked, SharedKept,
  connVars, taskVars, intentVars, tableVars, askVars, MayPoll, MidPoll, GoesTo, Refuse, Moves,
  MayCall
<1>1. CASE Use(u) \/ ConnectionReady(u)
  BY <1>1 DEF Use, ConnectionReady
<1>2. CASE JoinBuild(u)
  BY <1>2 DEF JoinBuild
<1>3. CASE Built(u)
  BY <1>3 DEF Built
<1>4. CASE FailCaller(u) \/ DropCaller(u)
  BY <1>4 DEF FailCaller, DropCaller
<1> QED
  BY <1>1, <1>2, <1>3, <1>4

\* The steps that lead to a connection
LEMMA ConnectMoves ==
  ASSUME PlacesInv, LinksInv, NEW t \in Tasks, Connect(t)
  PROVE  /\ LinksInv' /\ LinksGrow /\ SharedKept
         /\ phase[t] = "spawned" /\ MayPoll({})
         /\ \/ t \in cancelled /\ Moved(t, {IF t \in Requests THEN "refused" ELSE "failing"})
            \/ Moved(t, {"connected", "waiting"})
         /\ \A u \in Tasks \ {t} : at'[u] = at[u]
<1> USE DEF Connect
<1>1. phase[t] = "spawned" /\ MayPoll({}) /\ SharedKept
  BY DEF SharedKept, taskVars, intentVars, tableVars, askVars
<1>2. CASE t \in cancelled
  <2>1. Moved(t, {IF t \in Requests THEN "refused" ELSE "failing"}) /\ Unlinked(t)
    BY <1>1, <1>2 DEF Moved, Unlinked, LinksKept, Linked, MayPoll, MidPoll, connVars, Refuse,
       GoesTo, PlacesInv, SharedKept
  <2> QED
    BY <1>1, <1>2, <2>1, UnlinkedLinks DEF Unlinked, LinksKept
<1>3. CASE t \notin cancelled
  <2>1. ConnectionFor(t)
    BY <1>3
  <2>2. Moved(t, {"connected", "waiting"})
    BY <1>1, <2>1, ConnectionForPart DEF Moved, MidPoll, PlacesInv, SharedKept
  <2> QED
    BY <1>1, <2>1, <2>2, ConnectionForPart DEF PlacesInv, LinksGrow
<1> QED
  BY <1>2, <1>3

LEMMA ConnectStopMoves ==
  ASSUME PlacesInv, LinksInv, NEW x \in Stops, ConnectStop(x)
  PROVE  /\ LinksInv' /\ LinksGrow /\ SharedKept
         /\ phase[x] = "taken" /\ Moved(x, {"connected", "waiting"})
         /\ at'[x] # 0 /\ \A u \in Tasks \ {x} : at'[u] = at[u]
<1>1. ConnectionFor(x) /\ phase[x] = "taken" /\ SharedKept
  BY DEF ConnectStop, SharedKept, taskVars, intentVars, tableVars, askVars
<1>2. x \in Tasks
  BY CallersApart
<1>3. Moved(x, {"connected", "waiting"})
  BY <1>1, <1>2, ConnectionForPart DEF Moved, MidPoll, PlacesInv, SharedKept
<1> QED
  BY <1>1, <1>2, <1>3, ConnectionForPart DEF PlacesInv, LinksGrow

\* The attempt of the provider, and the loss of a connection
LEMMA LinkMoves ==
  ASSUME LinksInv,
         \/ ConnectPublished \/ \E ok \in BOOLEAN : ConnectAnswered(ok)
         \/ \E k \in Conns : LoseConnection(k)
  PROVE  LinksInv' /\ LinksGrow /\ SharedKept /\ phase' = phase /\ at' = at
<1> USE Numbered DEF LinksInv, SharedKept, taskVars, intentVars, tableVars, askVars, LinksGrow
<1>1. CASE ConnectPublished
  BY <1>1 DEF ConnectPublished, OneConnection, Made
<1>2. ASSUME NEW ok \in BOOLEAN, ConnectAnswered(ok)
      PROVE  LinksInv' /\ LinksGrow /\ SharedKept /\ phase' = phase /\ at' = at
  <2> USE <1>2 DEF ConnectAnswered
  <2>1. setup \in Conns /\ link[setup] = "connecting" /\ (~ ok => setup < MaxConns)
    OBVIOUS
  <2>2. link' = [link EXCEPT ![setup] = IF ok THEN "open" ELSE "failed"]
    OBVIOUS
  <2>3. conn' = (IF ok THEN setup ELSE conn) /\ setup' = setup
    OBVIOUS
  <2>4. \A k \in Conns : link'[k] # "none" <=> link[k] # "none"
    BY <2>1, <2>2
  <2>5. OneConnection'
    BY <2>1, <2>2, <2>3 DEF OneConnection
  <2>6. \E n \in 0..MaxConns : Made(n)'
    BY <2>4 DEF Made
  <2>7. link' \in [Conns -> LinkStates] /\ link'[MaxConns] \notin {"failed", "closed"}
    BY <2>1, <2>2 DEF LinkStates
  <2> QED
    BY <2>1, <2>2, <2>3, <2>4, <2>5, <2>6, <2>7
<1>3. ASSUME NEW k \in Conns, LoseConnection(k)
      PROVE  LinksInv' /\ LinksGrow /\ SharedKept /\ phase' = phase /\ at' = at
  <2> USE <1>3 DEF LoseConnection
  <2>1. \A c \in Conns : link'[c] # "none" <=> link[c] # "none"
    OBVIOUS
  <2>2. OneConnection'
    BY DEF OneConnection
  <2>3. \E n \in 0..MaxConns : Made(n)'
    BY <2>1 DEF Made
  <2> QED
    BY <2>1, <2>2, <2>3 DEF LinkStates, Conns
<1> QED
  BY <1>1, <1>2, <1>3

\* What happens to the follows behind the tasks
LEMMA PumpMoves ==
  ASSUME NEW s \in Streams,
         \/ DropStream(s) \/ SendFollow(s) \/ PumpStops(s) \/ PumpAborted(s)
         \/ \E ok \in BOOLEAN : FollowAnswered(s, ok)
  PROVE  LinksKept /\ UNCHANGED <<threading, cast, phase, waits, name, promised>> /\ MayPoll({})
BY DEF DropStream, SendFollow, PumpStops, PumpAborted, FollowAnswered, LinksKept, connVars,
   taskVars, askVars

\* Everybody is at a step of his own, at most one in the middle of a poll
\* that is not interrupted; and attempts are made one after another.
LEMMA ConnectMovesPlaces ==
  ASSUME PlacesInv, LinksInv, NEW t \in Tasks, Connect(t)
  PROVE  PlacesInv'
<1>1. CASE Moved(t, {"connected", "waiting"})
  <2>1. t \notin Stops
    BY ConnectMoves DEF PlacesInv, StopSteps
  <2> QED
    BY <1>1, <2>1, MovedPlaces, CallersApart
       DEF StartSteps, Early, AskSteps, BroadcastSteps, UserSteps
<1>2. CASE Moved(t, {IF t \in Requests THEN "refused" ELSE "failing"})
  <2>1. {IF t \in Requests THEN "refused" ELSE "failing"} \subseteq
          IF t \in Requests THEN AskSteps ELSE {"failing"}
    BY DEF AskSteps
  <2> QED
    BY <1>2, <2>1, MovedPlaces, CallersApart
       DEF StartSteps, Early, AskSteps, BroadcastSteps, UserSteps, StopSteps
<1> QED
  BY <1>1, <1>2, ConnectMoves

\* Everybody stays at a step of his own, attempts stay numbered and at most one
\* connection is open.
LEMMA PlacesNext ==
  ASSUME PlacesInv, LinksInv, [CallersNext]_allVars
  PROVE  PlacesInv' /\ LinksInv' /\ LinksGrow
<1> USE CallersApart
<1>1. ASSUME NEW s \in Streams,
             \/ Subscribe(s) \/ ConnectionReady(s) \/ Check(s) \/ RegisterFollow(s)
             \/ Ensure(s) \/ Joined(s) \/ GiveUp(s)
      PROVE  PlacesInv' /\ LinksInv' /\ LinksGrow
  <2>1. Moved(s, StartSteps) /\ Unlinked(s)
    BY <1>1, StreamMoves
  <2> QED
    BY <2>1, MovedPlaces, UnlinkedLinks
<1>2. ASSUME NEW q \in Requests,
             \/ \E n \in Asked : Ask(q, n)
             \/ ConnectionReady(q) \/ Resolve(q) \/ StartSettled(q) \/ Require(q)
             \/ Fetched(q) \/ FollowWithRuntime(q) \/ DropRequest(q)
      PROVE  PlacesInv' /\ LinksInv' /\ LinksGrow
  <2>1. Moved(q, AskSteps) /\ Unlinked(q)
    BY <1>2, RequestMoves
  <2> QED
    BY <2>1, MovedPlaces, UnlinkedLinks
<1>3. ASSUME NEW b \in Broadcasts,
             \/ Broadcast(b) \/ ConnectionReady(b) \/ BroadcastAnswered(b) \/ Track(b)
             \/ FailCaller(b) \/ DropCaller(b)
      PROVE  PlacesInv' /\ LinksInv' /\ LinksGrow
  <2>1. Moved(b, BroadcastSteps) /\ Unlinked(b)
    BY <1>3, BroadcastMoves
  <2> QED
    BY <2>1, MovedPlaces, UnlinkedLinks
<1>4. ASSUME NEW x \in Stops,
             \/ \E b \in Broadcasts : Stop(x, b)
             \/ ConnectionReady(x) \/ TakeOperation(x) \/ StopAnswered(x) \/ PutBack(x)
             \/ DropCaller(x)
      PROVE  PlacesInv' /\ LinksInv' /\ LinksGrow
  <2>1. Moved(x, StopSteps) /\ Unlinked(x)
    BY <1>4, StopMoves
  <2> QED
    BY <2>1, MovedPlaces, UnlinkedLinks
<1>5. ASSUME NEW u \in Users,
             \/ Use(u) \/ ConnectionReady(u) \/ JoinBuild(u) \/ Built(u)
             \/ FailCaller(u) \/ DropCaller(u)
      PROVE  PlacesInv' /\ LinksInv' /\ LinksGrow
  <2>1. Moved(u, UserSteps) /\ Unlinked(u)
    BY <1>5, UserMoves
  <2> QED
    BY <2>1, MovedPlaces, UnlinkedLinks
<1>6. ASSUME NEW t \in Tasks, Connect(t)
      PROVE  PlacesInv' /\ LinksInv' /\ LinksGrow
  BY <1>6, ConnectMoves, ConnectMovesPlaces
<1>7. ASSUME NEW x \in Stops, ConnectStop(x)
      PROVE  PlacesInv' /\ LinksInv' /\ LinksGrow
  <2>1. Moved(x, {"connected", "waiting"})
    BY <1>7, ConnectStopMoves
  <2>2. PlacesInv'
    BY <2>1, MovedPlaces DEF StopSteps
  <2> QED
    BY <1>7, <2>2, ConnectStopMoves
<1>8. ASSUME \/ ConnectPublished \/ \E ok \in BOOLEAN : ConnectAnswered(ok)
             \/ \E k \in Conns : LoseConnection(k)
      PROVE  PlacesInv' /\ LinksInv' /\ LinksGrow
  BY <1>8, LinkMoves DEF PlacesInv, SharedKept
<1>9. ASSUME UNCHANGED <<threading, phase, waits>>, LinksKept
      PROVE  PlacesInv' /\ LinksInv' /\ LinksGrow
  BY <1>9 DEF PlacesInv, LinksInv, OneConnection, Made, LinksKept, LinksGrow
<1>10. ASSUME NEW s \in Streams,
              \/ DropStream(s) \/ SendFollow(s) \/ PumpStops(s) \/ PumpAborted(s)
              \/ \E ok \in BOOLEAN : FollowAnswered(s, ok)
       PROVE  PlacesInv' /\ LinksInv' /\ LinksGrow
  BY <1>9, <1>10, PumpMoves
<1>11. CASE SystemStep
  BY <1>1, <1>2, <1>6, <1>8, <1>10, <1>11 DEF SystemStep, StartStep, SetupStep, PumpCut,
     RequestStep, ConnectStep
<1>12. CASE OutsideStep
  BY <1>1, <1>2, <1>8, <1>10, <1>12 DEF OutsideStep
<1>13. ASSUME UNCHANGED chainVars
       PROVE  PlacesInv' /\ LinksInv' /\ LinksGrow
  BY <1>9, <1>13 DEF chainVars, connVars, taskVars, LinksKept
<1>14. ASSUME NEW t \in Others, Reach(t)
       PROVE  PlacesInv' /\ LinksInv' /\ LinksGrow
  BY <1>3, <1>4, <1>5, <1>6, <1>14, CallersAssumption DEF Reach
<1>15. ASSUME NEW t \in Others, DropCaller(t)
       PROVE  PlacesInv' /\ LinksInv' /\ LinksGrow
  BY <1>3, <1>4, <1>5, <1>15, CallersAssumption
<1>16. ASSUME NEW k, NEW g, DriverEnds(k, g) \/ \E ok \in BOOLEAN : BuildAnswered(k, g, ok)
       PROVE  PlacesInv' /\ LinksInv' /\ LinksGrow
  BY <1>13, <1>16 DEF DriverEnds, BuildAnswered
<1>17. CASE CallerStep
  BY <1>3, <1>4, <1>5, <1>7, <1>11, <1>14, <1>16, <1>17 DEF CallerStep
<1> QED
  BY <1>3, <1>4, <1>5, <1>12, <1>13, <1>15, <1>16, <1>17 DEF CallersNext, allVars

-----------------------------------------------------------------------------
(* Handles and clients                                                     *)

\* What concerns the follows leaves the other callers where they are.
LEMMA OthersStay ==
  ASSUME PlacesInv, LinksInv, SystemStep \/ OutsideStep
  PROVE  \A t \in Others : phase'[t] = phase[t] /\ at'[t] = at[t]
<1> USE CallersApart
<1>1. ASSUME NEW s \in Streams,
             \/ Subscribe(s) \/ ConnectionReady(s) \/ Check(s) \/ RegisterFollow(s)
             \/ Ensure(s) \/ Joined(s) \/ GiveUp(s)
      PROVE  \A t \in Others : phase'[t] = phase[t] /\ at'[t] = at[t]
  <2>1. Moved(s, StartSteps) /\ Unlinked(s)
    BY <1>1, StreamMoves
  <2> QED
    BY <2>1 DEF Moved, Unlinked, LinksKept, PlacesInv
<1>2. ASSUME NEW q \in Requests,
             \/ \E n \in Asked : Ask(q, n)
             \/ ConnectionReady(q) \/ Resolve(q) \/ StartSettled(q) \/ Require(q)
             \/ Fetched(q) \/ FollowWithRuntime(q) \/ DropRequest(q)
      PROVE  \A t \in Others : phase'[t] = phase[t] /\ at'[t] = at[t]
  <2>1. Moved(q, AskSteps) /\ Unlinked(q)
    BY <1>2, RequestMoves
  <2> QED
    BY <2>1 DEF Moved, Unlinked, LinksKept, PlacesInv
<1>3. ASSUME NEW u \in Streams \cup Requests, Connect(u)
      PROVE  \A t \in Others : phase'[t] = phase[t] /\ at'[t] = at[t]
  BY <1>3, ConnectMoves DEF Moved, PlacesInv
<1>4. ASSUME \/ ConnectPublished \/ \E ok \in BOOLEAN : ConnectAnswered(ok)
             \/ \E k \in Conns : LoseConnection(k)
      PROVE  \A t \in Others : phase'[t] = phase[t] /\ at'[t] = at[t]
  BY <1>4, LinkMoves
<1>5. ASSUME NEW s \in Streams,
             \/ DropStream(s) \/ SendFollow(s) \/ PumpStops(s) \/ PumpAborted(s)
             \/ \E ok \in BOOLEAN : FollowAnswered(s, ok)
      PROVE  \A t \in Others : phase'[t] = phase[t] /\ at'[t] = at[t]
  BY <1>5, PumpMoves DEF LinksKept
<1>6. CASE SystemStep
  BY <1>1, <1>2, <1>3, <1>4, <1>5, <1>6 DEF SystemStep, StartStep, SetupStep, PumpCut,
     RequestStep, ConnectStep
<1>7. CASE OutsideStep
  BY <1>1, <1>2, <1>4, <1>5, <1>7 DEF OutsideStep
<1> QED
  BY <1>6, <1>7

\* A stop that has taken the entry of its target, or took it
Holding(x) ==
  \/ phase[x] \in {"taken", "waiting", "connected", "failing", "stopped"}
  \/ phase[x] = "dropped" /\ at[x] # 0
Newer(b) == {o \in Broadcasts : sequence[o] > sequence[b]}
Lost(b) == phase[b] = "tracked" /\ b \notin ops
Fresh == {"idle", "spawned", "waiting", "connected"}

\* A part of the broadcasts has no more members than the whole.
LEMMA Counted ==
  ASSUME NEW A, NEW B, A \subseteq B, B \subseteq Broadcasts
  PROVE  /\ Cardinality(A) \in Nat /\ Cardinality(B) \in Nat
         /\ Cardinality(A) <= Cardinality(B)
<1>1. IsFiniteSet(B)
  BY CallersAssumption, CallersApart, FS_Subset
<1> QED
  BY <1>1, FS_Subset, FS_CardinalityType

\* A handle that is lost is lost to a stop under way or to newer handles.
LEMMA HandlesSame ==
  ASSUME HandlesInv, UNCHANGED <<sequence, target>>, ops' \subseteq Broadcasts,
         \A b \in Broadcasts : Lost(b)' => Lost(b)
                               \/ (\E x \in Stops : target[x] = b /\ Holding(x)')
                               \/ Cardinality(Newer(b)) >= MaxTracked,
         \A b \in Broadcasts : phase'[b] \in Fresh => phase[b] \in Fresh,
         \A x \in Stops : phase[x] = "idle" => phase'[x] = "idle",
         \A x \in Stops : Holding(x) => Holding(x)' \/ target[x] \in ops'
  PROVE  HandlesInv'
<1>1. \A b \in Broadcasts : Lost(b) =>
        (\E x \in Stops : target[x] = b /\ Holding(x)) \/ Cardinality(Newer(b)) >= MaxTracked
  BY DEF HandlesInv, HandlesLast, Lost, Newer, Holding
<1>2. \A b \in Broadcasts : Newer(b)' = Newer(b)
  BY DEF Newer
<1>3. \A b \in Broadcasts : Lost(b)' =>
        (\E x \in Stops : target[x] = b /\ Holding(x)') \/ Cardinality(Newer(b)) >= MaxTracked
  BY <1>1 DEF Lost
<1>4. HandlesLast'
  BY <1>2, <1>3 DEF HandlesLast, Lost, Newer, Holding
<1>5. \A x \in Stops : phase'[x] # "idle" => target'[x] \in Broadcasts
  BY DEF HandlesInv
<1> QED
  BY <1>4, <1>5 DEF HandlesInv, Fresh

\* In every step
LEMMA HandlesNext ==
  ASSUME PlacesInv, LinksInv, HandlesInv, [CallersNext]_allVars
  PROVE  HandlesInv'
<1> USE CallersApart
\* The handles and who has them stay.
<1>1. ASSUME UNCHANGED txVars,
             \A b \in Broadcasts : /\ phase'[b] = "tracked" => phase[b] = "tracked"
                                   /\ phase'[b] \in Fresh => phase[b] \in Fresh,
             \A x \in Stops : /\ phase[x] = "idle" => phase'[x] = "idle"
                              /\ Holding(x) => Holding(x)'
      PROVE  HandlesInv'
  BY <1>1, HandlesSame DEF HandlesInv, txVars, Lost
<1>2. CASE (SystemStep \/ OutsideStep) /\ UNCHANGED <<txVars, subxtVars>>
  BY <1>1, <1>2, OthersStay DEF Holding
<1>3. ASSUME NEW b \in Broadcasts, Broadcast(b) \/ FailCaller(b) \/ DropCaller(b)
      PROVE  HandlesInv'
  BY <1>1, <1>3 DEF Broadcast, FailCaller, DropCaller, Moves, GoesTo, MayCall, Holding,
     PlacesInv, Fresh
<1>4. ASSUME NEW b \in Broadcasts, BroadcastAnswered(b)
      PROVE  HandlesInv'
  <2> USE <1>4 DEF BroadcastAnswered, Moves, GoesTo, PlacesInv, Holding
  <2>1. CASE UNCHANGED sequence
    BY <1>1, <2>1, HandlesSame DEF HandlesInv, Lost, Fresh
  <2>2. CASE sequence' # sequence
    <3> DEFINE n == 1 + Cardinality({o \in Broadcasts : sequence[o] > 0})
    <3>1. /\ sequence' = [sequence EXCEPT ![b] = n] /\ phase' = [phase EXCEPT ![b] = "drawn"]
          /\ ops' = ops /\ target' = target /\ at' = at
      BY <2>2
    <3>2. n \in Nat
      BY Counted
    <3> HIDE DEF n
    <3>3. sequence' \in [Broadcasts -> Nat]
      BY <3>1, <3>2 DEF HandlesInv
    <3>4. sequence[b] = 0
      BY DEF HandlesInv
    <3>5. ASSUME NEW c \in Broadcasts, Lost(c)'
          PROVE  \/ \E x \in Stops : target'[x] = c /\ Holding(x)'
                 \/ Cardinality(Newer(c)') >= MaxTracked
      <4>1. c # b /\ Lost(c)
        BY <3>1, <3>5 DEF Lost
      <4>2. \A o \in Newer(c) : o \in Broadcasts /\ sequence[o] > sequence[c]
        BY DEF Newer
      <4>3. Newer(c) \subseteq Newer(c)' /\ Newer(c)' \subseteq Broadcasts
        BY <3>1, <3>3, <3>4, <4>1 DEF Newer, HandlesInv
      <4>4. Cardinality(Newer(c)) >= MaxTracked => Cardinality(Newer(c)') >= MaxTracked
        BY <4>3, Counted, CallersAssumption
      <4>5. (\E x \in Stops : target[x] = c /\ Holding(x)) \/ Cardinality(Newer(c)) >= MaxTracked
        BY <4>1 DEF HandlesInv, HandlesLast, Lost, Newer
      <4>6. \A x \in Stops : Holding(x) => Holding(x)'
        BY <3>1
      <4> QED
        BY <3>1, <4>4, <4>5, <4>6
    <3>6. HandlesLast'
      BY <3>5 DEF HandlesLast, Lost, Newer
    <3> QED
      BY <3>1, <3>3, <3>6 DEF HandlesInv
  <2> QED
    BY <2>1, <2>2
<1>5. ASSUME NEW b \in Broadcasts, Track(b)
      PROVE  HandlesInv'
  <2> USE <1>5 DEF Track, Moves, GoesTo, PlacesInv, Holding
  <2>1. ops' \subseteq Broadcasts
    BY DEF Newest, HandlesInv
  <2>2. ASSUME NEW c \in ops \cup {b}, c \notin ops'
        PROVE  Cardinality(Newer(c)) >= MaxTracked
    <3>1. ~ Cardinality({o \in ops \cup {b} : sequence[o] > sequence[c]}) < MaxTracked
      BY <2>2 DEF Newest
    <3>2. {o \in ops \cup {b} : sequence[o] > sequence[c]} \subseteq Newer(c)
      BY DEF Newer, HandlesInv
    <3>3. Newer(c) \subseteq Broadcasts
      BY DEF Newer
    <3> QED
      BY <3>1, <3>2, <3>3, Counted, CallersAssumption
  <2>3. \A c \in Broadcasts : Lost(c)' => Lost(c) \/ Cardinality(Newer(c)) >= MaxTracked
    BY <2>2 DEF Lost
  <2> QED
    BY <2>1, <2>3, HandlesSame DEF Fresh
<1>6. ASSUME NEW x \in Stops, NEW b \in Broadcasts, Stop(x, b)
      PROVE  HandlesInv'
  <2> USE <1>6 DEF Stop, MayCall, Moves, GoesTo, PlacesInv
  <2>1. /\ phase[x] = "idle" /\ phase' = [phase EXCEPT ![x] = "asked"] /\ at' = at
        /\ target' = [target EXCEPT ![x] = b] /\ ops' = ops /\ sequence' = sequence
    OBVIOUS
  <2>2. \A y \in Stops : Holding(y) => Holding(y)' /\ target'[y] = target[y]
    BY <2>1 DEF Holding, HandlesInv
  <2>3. \A c \in Broadcasts : Lost(c)' <=> Lost(c)
    BY <2>1 DEF Lost
  <2>4. \A c \in Broadcasts : Newer(c)' = Newer(c)
    BY <2>1 DEF Newer
  <2>5. HandlesLast'
    <3> SUFFICES ASSUME NEW c \in Broadcasts, Lost(c)'
                 PROVE  \/ \E y \in Stops : target'[y] = c /\ Holding(y)'
                        \/ Cardinality(Newer(c)') >= MaxTracked
      BY DEF HandlesLast, Lost, Holding, Newer
    <3>1. (\E y \in Stops : target[y] = c /\ Holding(y)) \/ Cardinality(Newer(c)) >= MaxTracked
      BY <2>3 DEF HandlesInv, HandlesLast, Lost, Newer, Holding
    <3> QED
      BY <2>2, <2>4, <3>1
  <2> QED
    BY <2>1, <2>5 DEF HandlesInv
<1>7. ASSUME NEW x \in Stops, TakeOperation(x)
      PROVE  HandlesInv'
  BY <1>7, HandlesSame DEF TakeOperation, Moves, GoesTo, PlacesInv, Holding, Lost, HandlesInv, Fresh
<1>8. ASSUME NEW x \in Stops, StopAnswered(x) \/ DropCaller(x)
      PROVE  HandlesInv'
  <2>1. phase[x] \in {"waiting", "connected"} => at[x] # 0
    BY DEF LinksInv, Linked
  <2> QED
    BY <1>8, <2>1, HandlesSame DEF StopAnswered, DropCaller, Moves, GoesTo, PlacesInv, Holding,
       Lost, HandlesInv, Fresh, txVars
<1>9. ASSUME NEW x \in Stops, PutBack(x)
      PROVE  HandlesInv'
  <2>1. target[x] \in Broadcasts
    BY <1>9 DEF PutBack, HandlesInv
  <2> QED
    BY <1>9, <2>1, HandlesSame DEF PutBack, Moves, GoesTo, PlacesInv, Holding, Lost,
       HandlesInv, Fresh
<1>10. ASSUME NEW x \in Stops, ConnectStop(x)
       PROVE  HandlesInv'
  <2>1. /\ phase[x] = "taken" /\ phase' = [phase EXCEPT ![x] = phase'[x]]
        /\ phase'[x] \in {"connected", "waiting"} /\ \A u \in Tasks \ {x} : at'[u] = at[u]
        /\ UNCHANGED txVars
    BY <1>10, ConnectStopMoves DEF Moved, ConnectStop
  <2>2. \A u \in Tasks \ {x} : phase'[u] = phase[u]
    BY <2>1 DEF PlacesInv
  <2>3. \A y \in Stops : Holding(y) => Holding(y)'
    BY <2>1, <2>2 DEF Holding
  <2> QED
    BY <1>1, <2>1, <2>2, <2>3
<1>11. ASSUME NEW t \in Others, Reach(t)
       PROVE  HandlesInv'
  <2>1. CASE Connect(t)
    <3>1. /\ phase[t] = "spawned" /\ phase' = [phase EXCEPT ![t] = phase'[t]]
          /\ phase'[t] \in {"connected", "waiting", "refused", "failing"}
          /\ \A u \in Tasks \ {t} : at'[u] = at[u]
      BY <2>1, ConnectMoves DEF Moved
    <3>2. t \notin Stops
      BY <3>1 DEF PlacesInv, StopSteps
    <3>3. \A u \in Tasks \ {t} : phase'[u] = phase[u]
      BY <3>1 DEF PlacesInv
    <3>4. \A y \in Stops : Holding(y) => Holding(y)'
      BY <3>1, <3>2, <3>3 DEF Holding
    <3>5. UNCHANGED txVars
      BY <1>11 DEF Reach
    <3> QED
      BY <1>1, <3>1, <3>2, <3>3, <3>4, <3>5 DEF Fresh
  <2>2. CASE ConnectionReady(t)
    BY <1>1, <1>11, <2>2 DEF Reach, ConnectionReady, Refuse, GoesTo, PlacesInv, Holding, Fresh
  <2> QED
    BY <1>11, <2>1, <2>2 DEF Reach
<1>12. ASSUME NEW u \in Users,
              Use(u) \/ JoinBuild(u) \/ Built(u) \/ FailCaller(u) \/ DropCaller(u)
       PROVE  HandlesInv'
  <2>1. UNCHANGED txVars
    BY <1>12 DEF Use, JoinBuild, Built, FailCaller, DropCaller
  <2>2. Moved(u, UserSteps) /\ Unlinked(u)
    BY <1>12, UserMoves
  <2>3. \A t \in Tasks \ {u} : phase'[t] = phase[t] /\ at'[t] = at[t]
    BY <2>2 DEF Moved, Unlinked, LinksKept, PlacesInv
  <2> QED
    BY <1>1, <2>1, <2>3 DEF Holding
<1>13. ASSUME UNCHANGED <<chainVars, txVars>>
       PROVE  HandlesInv'
  BY <1>1, <1>13 DEF chainVars, taskVars, Holding
<1>14. ASSUME NEW k, NEW g, DriverEnds(k, g) \/ \E ok \in BOOLEAN : BuildAnswered(k, g, ok)
       PROVE  HandlesInv'
  BY <1>13, <1>14 DEF DriverEnds, BuildAnswered
<1>15. CASE CallerStep
  BY <1>2, <1>3, <1>4, <1>5, <1>7, <1>8, <1>9, <1>10, <1>11, <1>12, <1>14, <1>15 DEF CallerStep
<1>16. ASSUME NEW t \in Others, DropCaller(t)
       PROVE  HandlesInv'
  BY <1>3, <1>8, <1>12, <1>16, CallersAssumption
<1> QED
  BY <1>2, <1>3, <1>6, <1>12, <1>13, <1>14, <1>15, <1>16 DEF CallersNext, allVars

\* A client is known by its connection and its generation.
LEMMA Bundled ==
  /\ \A k \in Conns, g \in Generations : <<k, g>> \in Bundles
  /\ \A d \in Bundles : d = <<d[1], d[2]>> /\ d[1] \in Conns /\ d[2] \in Generations
  /\ \A g \in Generations : g \in Nat /\ g # 0
BY CallersAssumption, CallersApart, FS_Subset, FS_CardinalityType DEF Bundles, Generations

\* Steps that leave the clients alone
LEMMA ClientsSame ==
  ASSUME ClientsInv, UNCHANGED <<slot, newest, build, driven, joined>>,
         \A u \in Users : phase'[u] = "building" => phase[u] = "building" /\ at'[u] = at[u]
  PROVE  ClientsInv'
<1>1. \A u \in Users : phase'[u] = "building" =>
        /\ joined[u] <= newest[at'[u]] /\ joined[u] # 0
        /\ joined[u] \in Generations => build[<<at'[u], joined[u]>>] # "none"
  BY DEF ClientsInv
<1>2. /\ slot \in [Conns -> Nat] /\ newest \in [Conns -> Nat] /\ joined \in [Users -> Nat]
      /\ build \in [Bundles -> {"none", "asked", "built", "failed"}]
      /\ driven \subseteq Conns \X Nat
      /\ \A k \in Conns : slot[k] <= newest[k] /\ (slot[k] # 0 => <<k, slot[k]>> \in driven)
      /\ \A k \in Conns, g \in Nat : <<k, g>> \in driven => g <= newest[k]
      /\ \A k \in Conns, g \in Generations :
           /\ g > newest[k] => build[<<k, g>>] = "none"
           /\ build[<<k, g>>] \in {"asked", "built"} /\ <<k, g>> \in driven => slot[k] = g
           /\ slot[k] = g => build[<<k, g>>] # "none"
  BY ONLY ClientsInv DEF ClientsInv
<1> QED
  BY ONLY <1>1, <1>2, UNCHANGED <<slot, newest, build, driven, joined>> DEF ClientsInv

\* A generation is given up.
LEMMA InvalidatePart ==
  ASSUME ClientsInv, NEW k \in Conns, NEW g \in Nat, Invalidate(k, g),
         UNCHANGED <<newest, build, joined>>,
         driven' \subseteq driven,
         \A d \in driven \ driven' : d = <<k, g>>,
         <<k, g>> \in driven' /\ g \in Generations => build[<<k, g>>] = "failed",
         \A u \in Users : phase'[u] = "building" => phase[u] = "building" /\ at'[u] = at[u]
  PROVE  ClientsInv'
<1>1. slot' = [slot EXCEPT ![k] = IF slot[k] = g THEN 0 ELSE slot[k]]
  BY DEF Invalidate
<1>2. slot' \in [Conns -> Nat] /\ \A c \in Conns : slot'[c] = slot[c] \/ (c = k /\ slot[k] = g /\ slot'[c] = 0)
  BY <1>1 DEF ClientsInv
<1>3. \A c \in Conns : slot'[c] <= newest[c] /\ (slot'[c] # 0 => <<c, slot'[c]>> \in driven')
  <2> SUFFICES ASSUME NEW c \in Conns
               PROVE  slot'[c] <= newest[c] /\ (slot'[c] # 0 => <<c, slot'[c]>> \in driven')
    OBVIOUS
  <2>1. slot'[c] # 0 => slot'[c] = slot[c] /\ <<c, slot[c]>> \in driven /\ (c = k => slot[c] # g)
    BY <1>1, <1>2 DEF ClientsInv
  <2>2. slot'[c] # 0 => <<c, slot[c]>> # <<k, g>>
    BY <2>1
  <2> QED
    BY <1>2, <2>1, <2>2 DEF ClientsInv
<1>4. ASSUME NEW c \in Conns, NEW h \in Generations, <<c, h>> \in driven',
             build[<<c, h>>] \in {"asked", "built"}
      PROVE  slot'[c] = h
  <2>1. slot[c] = h
    BY <1>4 DEF ClientsInv
  <2>2. ~ (c = k /\ h = g)
    BY <1>4
  <2> QED
    BY <1>2, <2>1, <2>2
<1>5. \A c \in Conns, h \in Generations : slot'[c] = h => slot[c] = h
  BY <1>2, Bundled
<1>6. driven' \subseteq Conns \X Nat /\ \A c \in Conns, h \in Nat : <<c, h>> \in driven' => h <= newest[c]
  BY DEF ClientsInv
<1>7. \A u \in Users : phase'[u] = "building" =>
        /\ joined[u] <= newest[at'[u]] /\ joined[u] # 0
        /\ joined[u] \in Generations => build[<<at'[u], joined[u]>>] # "none"
  BY DEF ClientsInv
<1>8. \A c \in Conns, h \in Generations :
        /\ h > newest[c] => build[<<c, h>>] = "none"
        /\ slot'[c] = h => build[<<c, h>>] # "none"
  <2>1. \A c \in Conns, h \in Generations :
          /\ h > newest[c] => build[<<c, h>>] = "none"
          /\ slot[c] = h => build[<<c, h>>] # "none"
    BY ONLY ClientsInv DEF ClientsInv
  <2> QED
    BY ONLY <1>5, <2>1
<1>9. /\ newest \in [Conns -> Nat] /\ joined \in [Users -> Nat]
      /\ build \in [Bundles -> {"none", "asked", "built", "failed"}]
  BY DEF ClientsInv
<1> QED
  BY ONLY <1>2, <1>3, <1>4, <1>6, <1>7, <1>8, <1>9, UNCHANGED <<newest, build, joined>> DEF ClientsInv

\* A user joins the build in the cache or begins the next generation.
LEMMA JoinBuildPart ==
  ASSUME PlacesInv, LinksInv, ClientsInv, NEW u \in Users, JoinBuild(u)
  PROVE  ClientsInv'
<1> DEFINE k == at[u]
           g == IF slot[k] # 0 THEN slot[k] ELSE newest[k] + 1
<1>1. /\ phase[u] = "connected" /\ phase' = [phase EXCEPT ![u] = "building"] /\ at' = at
      /\ joined' = [joined EXCEPT ![u] = g]
      /\ IF slot[k] # 0 THEN UNCHANGED <<slot, newest, build, driven>>
         ELSE /\ slot' = [slot EXCEPT ![k] = g] /\ newest' = [newest EXCEPT ![k] = g]
              /\ build' = [build EXCEPT ![<<k, g>>] = "asked"]
              /\ driven' = driven \cup {<<k, g>>}
  BY DEF JoinBuild, Moves, GoesTo
<1>2. k \in Conns
  BY <1>1, CallersApart, Numbered DEF LinksInv, Linked
<1>3. g \in Nat /\ g # 0 /\ joined' \in [Users -> Nat]
  BY <1>1, <1>2 DEF ClientsInv
<1>4. \A v \in Users \ {u} : joined'[v] = joined[v] /\ phase'[v] = phase[v]
  BY <1>1, CallersApart DEF ClientsInv, PlacesInv
<1>5. joined'[u] = g
  BY <1>1 DEF ClientsInv
<1>6. CASE slot[k] # 0
  <2>1. g = slot[k] /\ UNCHANGED <<slot, newest, build, driven>>
    BY <1>1, <1>6
  <2>2. g <= newest[k] /\ <<k, g>> \in driven
    BY <1>2, <1>6, <2>1 DEF ClientsInv
  <2>3. g \in Generations => build[<<k, g>>] # "none"
    BY <1>2, <1>6, <2>1 DEF ClientsInv
  <2> QED
    BY <1>1, <1>2, <1>3, <1>4, <1>5, <2>1, <2>2, <2>3 DEF ClientsInv
<1>7. CASE slot[k] = 0
  <2>1. /\ g = newest[k] + 1
        /\ slot' = [slot EXCEPT ![k] = g] /\ newest' = [newest EXCEPT ![k] = g]
        /\ build' = [build EXCEPT ![<<k, g>>] = "asked"]
        /\ driven' = driven \cup {<<k, g>>}
    BY <1>1, <1>7
  <2> HIDE DEF g, k
  <2>2. /\ slot' \in [Conns -> Nat] /\ newest' \in [Conns -> Nat]
        /\ build' \in [Bundles -> {"none", "asked", "built", "failed"}]
        /\ driven' \subseteq Conns \X Nat
    <3>1. <<k, g>> \in Conns \X Nat
      BY <1>2, <1>3
    <3>2. slot \in [Conns -> Nat] /\ newest \in [Conns -> Nat] /\ driven \subseteq Conns \X Nat
          /\ build \in [Bundles -> {"none", "asked", "built", "failed"}]
      BY DEF ClientsInv
    <3> QED
      BY <1>2, <1>3, <2>1, <3>1, <3>2
  <2>3. slot'[k] = g /\ newest'[k] = g
        /\ \A c \in Conns \ {k} : slot'[c] = slot[c] /\ newest'[c] = newest[c]
    BY <1>2, <2>1 DEF ClientsInv
  <2>4. \A c \in Conns, h \in Generations :
          build'[<<c, h>>] = IF c = k /\ h = g THEN "asked" ELSE build[<<c, h>>]
    BY <1>2, <2>1, Bundled DEF ClientsInv
  <2>5. \A c \in Conns, h \in Nat : <<c, h>> \in driven' <=> <<c, h>> \in driven \/ (c = k /\ h = g)
    BY <2>1
  <2>6. \A c \in Conns : newest[c] <= newest'[c] /\ newest[c] \in Nat /\ newest'[c] \in Nat
    BY <1>2, <1>3, <2>1, <2>3 DEF ClientsInv
  <2>7. \A c \in Conns : slot'[c] <= newest'[c] /\ (slot'[c] # 0 => <<c, slot'[c]>> \in driven')
    BY <1>3, <2>2, <2>3, <2>5, <2>6 DEF ClientsInv
  <2>8. \A c \in Conns, h \in Nat : <<c, h>> \in driven' => h <= newest'[c]
    BY <1>2, <1>3, <2>3, <2>5, <2>6 DEF ClientsInv
  <2>9. \A c \in Conns, h \in Generations : h > newest'[c] => build'[<<c, h>>] = "none"
    <3> SUFFICES ASSUME NEW c \in Conns, NEW h \in Generations, h > newest'[c]
                 PROVE  build'[<<c, h>>] = "none"
      OBVIOUS
    <3>1. h \in Int
      BY DEF Generations
    <3>2. h > newest[c] /\ ~ (c = k /\ h = g)
      BY <1>3, <2>3, <2>6, <3>1
    <3> QED
      BY <2>4, <3>2 DEF ClientsInv
  <2>10. ASSUME NEW c \in Conns, NEW h \in Generations, <<c, h>> \in driven',
                build'[<<c, h>>] \in {"asked", "built"}
         PROVE  slot'[c] = h
    <3>1. CASE c = k /\ h = g
      BY <2>3, <3>1
    <3>2. CASE ~ (c = k /\ h = g)
      <4>1. h \in Nat
        BY CallersAssumption, FS_CardinalityType DEF Generations
      <4>2. slot[c] = h
        BY <2>4, <2>5, <2>10, <3>2, <4>1 DEF ClientsInv
      <4>3. h # 0
        BY DEF Generations
      <4> QED
        BY <1>7, <2>3, <4>2, <4>3 DEF k
    <3> QED
      BY <3>1, <3>2
  <2>11. ASSUME NEW v \in Users, phase'[v] = "building"
         PROVE  /\ joined'[v] <= newest'[at'[v]] /\ joined'[v] # 0
                /\ joined'[v] \in Generations => build'[<<at'[v], joined'[v]>>] # "none"
    <3>1. CASE v = u
      BY <1>1, <1>2, <1>3, <1>5, <2>3, <2>4, <3>1 DEF k
    <3>2. CASE v # u
      <4>1. /\ joined[v] <= newest[at[v]] /\ joined[v] # 0
            /\ joined[v] \in Generations => build[<<at[v], joined[v]>>] # "none"
        BY <1>4, <2>11, <3>2 DEF ClientsInv
      <4>2. at[v] \in Conns
        BY <1>4, <2>11, <3>2, CallersApart, Numbered DEF LinksInv, Linked
      <4> QED
        BY <1>1, <1>3, <1>4, <2>4, <2>6, <3>2, <4>1, <4>2
    <3> QED
      BY <3>1, <3>2
  <2>12. \A c \in Conns, h \in Generations : slot'[c] = h => build'[<<c, h>>] # "none"
    BY <2>3, <2>4 DEF ClientsInv
  <2> QED
    BY <1>3, <2>2, <2>7, <2>8, <2>9, <2>10, <2>11, <2>12 DEF ClientsInv
<1> QED
  BY <1>6, <1>7

\* In every step the client in the cache is the one whose backend runs.
LEMMA ClientsNext ==
  ASSUME PlacesInv, LinksInv, ClientsInv, [CallersNext]_allVars
  PROVE  ClientsInv'
<1> USE CallersApart
<1>1. ASSUME NEW t \in Tasks, NEW S, Moved(t, S), Unlinked(t), "building" \notin S,
             UNCHANGED subxtVars
      PROVE  ClientsInv'
  BY <1>1, ClientsSame DEF Moved, Unlinked, LinksKept, PlacesInv, subxtVars
<1>2. CASE (SystemStep \/ OutsideStep) /\ UNCHANGED <<txVars, subxtVars>>
  BY <1>2, OthersStay, ClientsSame DEF subxtVars
<1>3. ASSUME NEW b \in Broadcasts,
             Broadcast(b) \/ BroadcastAnswered(b) \/ Track(b) \/ FailCaller(b) \/ DropCaller(b)
      PROVE  ClientsInv'
  <2>1. UNCHANGED subxtVars
    BY <1>3 DEF Broadcast, BroadcastAnswered, Track, FailCaller, DropCaller
  <2> QED
    BY <1>1, <1>3, <2>1, BroadcastMoves DEF BroadcastSteps
<1>4. ASSUME NEW x \in Stops,
             \/ \E b \in Broadcasts : Stop(x, b)
             \/ TakeOperation(x) \/ StopAnswered(x) \/ PutBack(x) \/ DropCaller(x)
      PROVE  ClientsInv'
  <2>1. UNCHANGED subxtVars
    BY <1>4 DEF Stop, TakeOperation, StopAnswered, PutBack, DropCaller
  <2> QED
    BY <1>1, <1>4, <2>1, StopMoves DEF StopSteps
<1>5. ASSUME NEW t \in Tasks, phase' = [phase EXCEPT ![t] = phase'[t]],
             \A u \in Tasks \ {t} : at'[u] = at[u], phase'[t] # "building",
             UNCHANGED subxtVars
      PROVE  ClientsInv'
  BY <1>5, ClientsSame DEF PlacesInv, subxtVars
<1>6. ASSUME NEW x \in Stops, ConnectStop(x)
      PROVE  ClientsInv'
  <2>1. UNCHANGED subxtVars
    BY <1>6 DEF ConnectStop
  <2> QED
    BY <1>5, <1>6, <2>1, ConnectStopMoves DEF Moved
<1>7. ASSUME NEW t \in Others, Reach(t)
      PROVE  ClientsInv'
  <2>1. UNCHANGED subxtVars
    BY <1>7 DEF Reach
  <2>2. CASE Connect(t)
    BY <1>5, <2>1, <2>2, ConnectMoves DEF Moved
  <2>3. CASE ConnectionReady(t)
    BY <1>5, <2>1, <2>3 DEF ConnectionReady, Refuse, GoesTo, PlacesInv
  <2> QED
    BY <1>7, <2>2, <2>3 DEF Reach
<1>8. ASSUME NEW u \in Users, Use(u) \/ FailCaller(u) \/ DropCaller(u)
      PROVE  ClientsInv'
  BY <1>5, <1>8 DEF Use, FailCaller, DropCaller, Moves, GoesTo, PlacesInv
<1>9. ASSUME NEW u \in Users, Built(u)
      PROVE  ClientsInv'
  <2> DEFINE k == at[u]
             g == joined[u]
  <2>1. /\ phase[u] = "building" /\ build[<<k, g>>] # "asked"
        /\ \/ build[<<k, g>>] = "built" /\ phase' = [phase EXCEPT ![u] = "used"] /\ slot' = slot
           \/ build[<<k, g>>] # "built" /\ phase' = [phase EXCEPT ![u] = "refused"]
              /\ Invalidate(k, g)
        /\ at' = at /\ UNCHANGED <<newest, build, driven, joined>>
    BY <1>9 DEF Built, Moves, GoesTo
  <2>2. k \in Conns /\ g \in Nat
    BY <2>1, Numbered DEF LinksInv, Linked, ClientsInv
  <2>3. \A v \in Users : phase'[v] = "building" => phase[v] = "building" /\ at'[v] = at[v]
    BY <2>1 DEF PlacesInv
  <2>4. CASE build[<<k, g>>] = "built"
    BY <2>1, <2>3, <2>4, ClientsSame
  <2>5. CASE build[<<k, g>>] # "built"
    <3>1. g \in Generations => <<k, g>> \in Bundles
      BY <2>2 DEF Bundles
    <3>2. g \in Generations => build[<<k, g>>] = "failed"
      BY <2>1, <2>5, <3>1 DEF ClientsInv
    <3> HIDE DEF k, g
    <3> QED
      BY <2>1, <2>2, <2>3, <2>5, <3>2, InvalidatePart
  <2> QED
    BY <2>4, <2>5
<1>10. ASSUME NEW d \in driven, DriverEnds(d[1], d[2])
       PROVE  ClientsInv'
  <2>1. d[1] \in Conns /\ d[2] \in Nat
    BY DEF ClientsInv
  <2>2. /\ driven' = driven \ {<<d[1], d[2]>>} /\ Invalidate(d[1], d[2])
        /\ UNCHANGED <<newest, build, joined, phase, at>>
    BY <1>10 DEF DriverEnds, chainVars, taskVars
  <2>3. driven' \subseteq driven /\ \A e \in driven \ driven' : e = <<d[1], d[2]>>
    BY <2>2
  <2>4. <<d[1], d[2]>> \notin driven'
    BY <2>2
  <2> QED
    BY <2>1, <2>2, <2>3, <2>4, InvalidatePart
<1>11. ASSUME NEW k \in Conns, NEW g \in Generations, NEW ok \in BOOLEAN, BuildAnswered(k, g, ok)
       PROVE  ClientsInv'
  <2>1. /\ build[<<k, g>>] = "asked"
        /\ build' = [build EXCEPT ![<<k, g>>] = IF ok THEN "built" ELSE "failed"]
        /\ UNCHANGED <<slot, newest, driven, joined, phase, at>>
    BY <1>11 DEF BuildAnswered, chainVars, taskVars
  <2>2. build' \in [Bundles -> {"none", "asked", "built", "failed"}]
    BY <2>1 DEF ClientsInv
  <2>3. \A c \in Conns, h \in Generations :
          \/ build'[<<c, h>>] = build[<<c, h>>]
          \/ build[<<c, h>>] = "asked" /\ build'[<<c, h>>] \in {"built", "failed"}
    BY <2>1, Bundled DEF ClientsInv
  <2>4. \A u \in Users : phase[u] = "building" => at[u] \in Conns
    BY Numbered DEF LinksInv, Linked
  <2> QED
    BY <2>1, <2>2, <2>3, <2>4 DEF ClientsInv
<1>12. ASSUME UNCHANGED <<chainVars, subxtVars>>
       PROVE  ClientsInv'
  BY <1>12, ClientsSame DEF chainVars, taskVars, subxtVars
<1>13. \A s \in Bundles : s[1] \in Conns /\ s[2] \in Generations
  BY DEF Bundles
<1>14. CASE CallerStep
  BY <1>2, <1>3, <1>4, <1>6, <1>7, <1>8, <1>9, <1>10, <1>11, <1>13, <1>14, JoinBuildPart
     DEF CallerStep
<1>15. ASSUME NEW t \in Others, DropCaller(t)
       PROVE  ClientsInv'
  BY <1>3, <1>4, <1>8, <1>15, CallersAssumption
<1> QED
  BY <1>2, <1>3, <1>4, <1>8, <1>10, <1>12, <1>14, <1>15 DEF CallersNext, allVars

-----------------------------------------------------------------------------
(* The follows: every stream has a follow id of its own.                   *)

OwnFollow(s) == {f \in follows : f.owner = s}

\* Under an id of its own a stream finds its own entries.
LEMMA OwnTables ==
  ASSUME IdsOfTheirOwn, FollowsInv, SetupsInv, NEW s \in Streams
  PROVE  /\ FollowOf(at[s], IdOf[s]) = OwnFollow(s)
         /\ SetupOf(at[s], IdOf[s]) = setups \cap {s}
         /\ \A k : k # at[s] => FollowOf(k, IdOf[s]) = {} /\ SetupOf(k, IdOf[s]) = {}
<1>1. \A f \in follows : f.owner \in Streams /\ f.conn = at[f.owner]
  BY DEF FollowsInv, FollowStates
<1>2. \A f \in follows : IdOf[f.owner] = IdOf[s] <=> f.owner = s
  BY <1>1 DEF IdsOfTheirOwn
<1>3. \A x \in setups : IdOf[x] = IdOf[s] <=> x = s
  BY DEF IdsOfTheirOwn, SetupsInv
<1> QED
  BY <1>1, <1>2, <1>3 DEF FollowOf, SetupOf, OwnFollow

\* What is removed under a stream's id is what the stream has.
LEMMA OwnRemoved ==
  ASSUME IdsOfTheirOwn, FollowsInv, SetupsInv, NEW s \in Streams, NEW k, DropEntries(k, IdOf[s])
  PROVE  IF k = at[s] THEN follows' = follows \ OwnFollow(s) /\ setups' = setups \ {s}
                      ELSE follows' = follows /\ setups' = setups
BY OwnTables DEF DropEntries

\* Whatever remote goes with an entry is aborted.
LEMMA OwnAborted ==
  ASSUME IdsOfTheirOwn, FollowsInv, SetupsInv, NEW s \in Streams, NEW k, RemoveFollow(k, IdOf[s])
  PROVE  /\ aborted \subseteq aborted' /\ follows' \subseteq follows /\ setups' \subseteq setups
         /\ \/ follows' = follows /\ setups' = setups
            \/ follows' = follows \ OwnFollow(s) /\ setups' = setups \ {s}
         /\ k = at[s] => follows' = follows \ OwnFollow(s) /\ setups' = setups \ {s}
         /\ \A f \in follows : f.remote # NoStream => f \in follows' \/ f.remote \in aborted'
<1>1. DropEntries(k, IdOf[s]) /\ aborted \subseteq aborted'
  BY DEF RemoveFollow
<1>2. \A f \in OwnFollow(s) : k = at[s] /\ f.remote # NoStream => f.remote \in aborted'
  BY OwnTables DEF RemoveFollow
<1> QED
  BY <1>1, <1>2, OwnRemoved DEF OwnFollow

\* A pump has a follow by which it is found.
LEMMA Pumping ==
  ASSUME PlacesInv, LinksInv, FetchInv, NEW x \in Streams, fetch[x] \in {"fresh", "asked", "pumping"}
  PROVE  /\ phase[x] \in {"joined", "following"} /\ at[x] \in Conns
         /\ phase[x] = "following" => fetch[x] = "pumping"
<1>1. phase[x] \in {"joined", "following"}
  BY DEF PlacesInv, FetchInv, StartSteps
<1>2. at[x] \in Conns
  BY <1>1, CallersApart, Numbered DEF LinksInv, Linked
<1> QED
  BY <1>1, <1>2 DEF FetchInv

\* Steps that leave the streams and the tables alone, though not the connection
LEMMA FollowsFrame ==
  ASSUME PlacesInv, LinksInv, LinksGrow, FollowsIInv,
         UNCHANGED <<follows, setups, fetch, aborted, cancelled>>,
         \A s \in Streams : phase'[s] = phase[s] /\ waits'[s] = waits[s] /\ at'[s] = at[s]
  PROVE  FollowsIInv'
<1> USE DEF FollowsIInv
<1>1. FetchInv'
  BY DEF FetchInv
<1>2. FollowsInv' /\ SetupsInv'
  BY DEF FollowsInv, SetupsInv, FollowStates
<1>3. PumpsInv'
  BY Pumping DEF PumpsInv, LinksGrow
<1> QED
  BY <1>1, <1>2, <1>3

\* A stream on its way to the registration of its follow
LEMMA FollowsEarly ==
  ASSUME PlacesInv, LinksInv, FollowsIInv, NEW s \in Streams, phase[s] \in Early,
         phase' = [phase EXCEPT ![s] = phase'[s]], phase'[s] \in Early \cup {"failing"},
         \A t \in Tasks \ {s} : at'[t] = at[t], LinksGrow,
         UNCHANGED <<follows, setups, fetch, aborted, cancelled, waits>>
  PROVE  FollowsIInv'
<1> USE CallersApart DEF FollowsIInv
<1>1. \A t \in Streams \ {s} : phase'[t] = phase[t] /\ at'[t] = at[t]
  BY DEF PlacesInv
<1>2. fetch[s] = "none" /\ s \notin setups /\ \A f \in follows : f.owner # s
  BY DEF FetchInv, SetupsInv, FollowsInv
<1>3. FetchInv'
  BY <1>1, <1>2 DEF FetchInv, Early
<1>4. FollowsInv' /\ SetupsInv'
  BY <1>1, <1>2 DEF FollowsInv, SetupsInv, FollowStates
<1>5. PumpsInv'
  BY <1>1, <1>2, Pumping DEF PumpsInv, LinksGrow
<1> QED
  BY <1>3, <1>4, <1>5

\* What the steps that touch the tables come to when ids are not shared
Entry(s) == [conn |-> at[s], owner |-> s, runtime |-> s \in WithRuntime, remote |-> NoStream,
             alias |-> NoName]

LEMMA RegisterIs ==
  ASSUME IdsOfTheirOwn, PlacesInv, FollowsIInv, NEW s \in Streams, RegisterFollow(s)
  PROVE  /\ phase[s] = "checked" /\ OwnFollow(s) = {} /\ follows' = follows \cup {Entry(s)}
         /\ phase' = [phase EXCEPT ![s] = "registered"]
         /\ UNCHANGED <<threading, at, waits, connVars, intents, starts, cancelled, setups,
                        aborted, fetch, name, promised>>
<1>1. FollowOf(at[s], IdOf[s]) = OwnFollow(s)
  BY OwnTables DEF FollowsIInv
<1>2. OwnFollow(s) = {}
  BY DEF RegisterFollow, FollowsIInv, FollowsInv, OwnFollow, Early
<1> QED
  BY <1>1, <1>2 DEF RegisterFollow, GoesTo, Entry, intentVars, askVars

LEMMA EnsureIs ==
  ASSUME IdsOfTheirOwn, PlacesInv, FollowsIInv, NEW s \in Streams, Ensure(s)
  PROVE  /\ phase[s] = "registered" /\ fetch[s] = "none" /\ s \notin setups
         /\ UNCHANGED <<threading, at, connVars, intents, starts, cancelled, name, promised>>
         /\ \/ /\ \A f \in OwnFollow(s) : s \in cancelled
               /\ phase' = [phase EXCEPT ![s] = "failing"] /\ UNCHANGED <<waits, fetch>>
               /\ RemoveFollow(at[s], IdOf[s])
            \/ /\ phase' = [phase EXCEPT ![s] = "joined"]
               /\ setups' = setups \cup {s}
               /\ fetch' = [fetch EXCEPT ![s] = "fresh"] /\ waits' = [waits EXCEPT ![s] = s]
               /\ UNCHANGED <<follows, aborted>>
<1>1. /\ FollowOf(at[s], IdOf[s]) = OwnFollow(s) /\ SetupOf(at[s], IdOf[s]) = setups \cap {s}
  BY OwnTables DEF FollowsIInv
<1>2. phase[s] = "registered" /\ fetch[s] = "none" /\ s \notin setups
  BY DEF Ensure, FollowsIInv, FetchInv, SetupsInv
<1>3. \A f \in OwnFollow(s) : f.remote = NoStream /\ f.owner = s
  BY <1>2 DEF OwnFollow, FollowsIInv, FollowsInv
<1>4. s \notin Requests
  BY CallersApart
<1>5. UNCHANGED <<threading, at, connVars, intents, starts, cancelled, name, promised>>
  BY DEF Ensure, intentVars, askVars
<1>6. CASE Gone(at[s], IdOf[s]) /\ Refuse(s) /\ RemoveFollow(at[s], IdOf[s]) /\ UNCHANGED <<waits, fetch>>
  BY <1>1, <1>2, <1>3, <1>4, <1>5, <1>6 DEF Gone, Refuse, GoesTo
<1>7. CASE GoesTo(s, "joined") /\ setups' = setups \cup {s} /\ fetch' = [fetch EXCEPT ![s] = "fresh"]
           /\ waits' = [waits EXCEPT ![s] = s] /\ UNCHANGED <<follows, aborted>>
  BY <1>2, <1>5, <1>7 DEF GoesTo
<1> QED
  BY <1>1, <1>2, <1>3, <1>6, <1>7 DEF Ensure

LEMMA AnsweredIs ==
  ASSUME IdsOfTheirOwn, PlacesInv, FollowsIInv, NEW s \in Streams, NEW ok \in BOOLEAN,
         FollowAnswered(s, ok)
  PROVE  /\ fetch[s] = "asked"
         /\ UNCHANGED <<threading, phase, at, waits, connVars, intents, starts, cancelled,
                        name, promised>>
         /\ \/ /\ fetch' = [fetch EXCEPT ![s] = "failed"] /\ RemoveFollow(at[s], IdOf[s])
            \/ /\ fetch' = [fetch EXCEPT ![s] = "pumping"] /\ s \notin cancelled
               /\ \E f \in OwnFollow(s) :
                    follows' = (follows \ {f}) \cup {[f EXCEPT !.remote = s]}
               /\ UNCHANGED <<setups, aborted>>
<1>1. /\ FollowOf(at[s], IdOf[s]) = OwnFollow(s)
  BY OwnTables DEF FollowsIInv
<1>2. /\ fetch[s] = "asked"
      /\ UNCHANGED <<threading, phase, at, waits, connVars, intents, starts, cancelled, name, promised>>
  BY DEF FollowAnswered, taskVars, intentVars, askVars
<1>3. CASE ~ ok \/ Gone(at[s], IdOf[s])
  BY <1>2, <1>3 DEF FollowAnswered, FailSetup
<1>4. CASE ok /\ ~ Gone(at[s], IdOf[s])
  <2>1. PICK f \in OwnFollow(s) : f.owner \notin cancelled
    BY <1>1, <1>4 DEF Gone
  <2>2. OwnFollow(s) = {f} /\ s \notin cancelled
    BY <2>1 DEF OwnFollow, FollowsIInv, FollowsInv
  <2>3. /\ fetch' = [fetch EXCEPT ![s] = "pumping"]
        /\ follows' = (follows \ OwnFollow(s)) \cup {[g EXCEPT !.remote = s] : g \in OwnFollow(s)}
        /\ UNCHANGED <<setups, aborted>>
    BY <1>1, <1>4 DEF FollowAnswered
  <2>4. {[g EXCEPT !.remote = s] : g \in OwnFollow(s)} = {[f EXCEPT !.remote = s]}
    BY <2>2
  <2>5. follows' = (follows \ {f}) \cup {[f EXCEPT !.remote = s]}
    BY <2>2, <2>3, <2>4
  <2> QED
    BY <1>2, <2>2, <2>3, <2>5
<1> QED
  BY <1>3, <1>4

\* The setup of a stream is its own.
LEMMA JoinedIs ==
  ASSUME IdsOfTheirOwn, PlacesInv, FollowsIInv, NEW s \in Streams, Joined(s)
  PROVE  /\ phase[s] = "joined"
         /\ UNCHANGED <<threading, at, waits, connVars, intents, starts, cancelled, follows,
                        aborted, fetch, name, promised>>
         /\ \/ /\ fetch[s] = "failed" /\ phase' = [phase EXCEPT ![s] = "failing"]
               /\ setups' = setups \ {s}
            \/ /\ fetch[s] \in {"pumping", "over"} /\ phase' = [phase EXCEPT ![s] = "following"]
               /\ setups' = setups
<1>1. phase[s] = "joined" /\ waits[s] = s
  BY DEF Joined, FollowsIInv, FetchInv
<1>2. SetupOf(at[s], IdOf[s]) = setups \cap {s}
  BY OwnTables DEF FollowsIInv
<1>3. s \notin Requests
  BY CallersApart
<1> QED
  BY <1>1, <1>2, <1>3 DEF Joined, SetupDone, Refuse, GoesTo, intentVars, askVars

\* An alias is bound.
LEMMA ResolveIs ==
  ASSUME PlacesInv, FollowsIInv, NEW q \in Requests, Resolve(q)
  PROVE  /\ UNCHANGED <<threading, at, connVars, intents, starts, cancelled, setups, aborted,
                        fetch, name, promised>>
         /\ phase' = [phase EXCEPT ![q] = phase'[q]]
         /\ \A t \in Tasks \ {q} : waits'[t] = waits[t]
         /\ \/ follows' = follows
            \/ \E f \in follows :
                 /\ f \in Hits(at[q], name[q]) /\ IdOf[f.owner] # name[q]
                 /\ follows' = (follows \ {f}) \cup {[f EXCEPT !.alias = name[q]]}
<1>1. \A f \in Hits(at[q], name[q]) : f \in follows
  BY DEF Hits
<1>2. UNCHANGED <<threading, at, connVars, intents, starts, cancelled, setups, aborted, fetch,
                  name, promised>>
  BY DEF Resolve, intentVars, askVars
<1>3. q \in Tasks
  BY CallersApart
<1>4. /\ \E v : phase' = [phase EXCEPT ![q] = v]
      /\ waits' = waits \/ \E w : waits' = [waits EXCEPT ![q] = w]
  BY DEF Resolve, GoesTo
<1>6. phase' = [phase EXCEPT ![q] = phase'[q]]
  BY <1>3, <1>4 DEF PlacesInv
<1>7. \A t \in Tasks \ {q} : waits'[t] = waits[t]
  BY <1>4 DEF PlacesInv
<1>5. \/ follows' = follows
      \/ \E f \in Hits(at[q], name[q]) : Claim(f, name[q])
  BY DEF Resolve
<1> QED
  BY <1>1, <1>2, <1>5, <1>6, <1>7 DEF Claim

LEMMA RegisterFollows ==
  ASSUME IdsOfTheirOwn, PlacesInv, LinksInv, LinksGrow, FollowsIInv, NEW s \in Streams,
         RegisterFollow(s)
  PROVE  FollowsIInv'
<1> USE DEF FollowsIInv
<1>1. /\ phase[s] = "checked" /\ OwnFollow(s) = {} /\ follows' = follows \cup {Entry(s)}
      /\ phase' = [phase EXCEPT ![s] = "registered"]
      /\ UNCHANGED <<at, waits, cancelled, setups, aborted, fetch>>
  BY RegisterIs
<1>2. phase'[s] = "registered" /\ \A t \in Streams \ {s} : phase'[t] = phase[t]
  BY <1>1, CallersApart DEF PlacesInv
<1>3. at[s] \in Conns
  BY <1>1, CallersApart, Numbered DEF LinksInv, Linked
<1>4. FetchInv'
  BY <1>1, <1>2 DEF FetchInv, Early
<1>5. FollowsInv'
  <2>1. Entry(s) \in FollowStates
    BY <1>3 DEF Entry, FollowStates
  <2>2. /\ Entry(s).owner = s /\ Entry(s).conn = at[s] /\ Entry(s).remote = NoStream
        /\ Entry(s).runtime <=> s \in WithRuntime
    BY DEF Entry
  <2>3. \A f \in follows : f.owner \in Streams /\ f.owner # s
    BY <1>1 DEF FollowsInv, FollowStates, OwnFollow
  <2> QED
    BY <1>1, <1>2, <2>1, <2>2, <2>3 DEF FollowsInv, Early
<1>6. SetupsInv'
  <2>1. Entry(s).owner = s
    BY DEF Entry
  <2>2. \A f \in follows : f.owner \in Streams /\ f.owner # s
    BY <1>1 DEF FollowsInv, FollowStates, OwnFollow
  <2> QED
    BY <1>1, <1>2, <2>1, <2>2 DEF SetupsInv
<1>7. PumpsInv'
  BY <1>1, <1>2, Pumping DEF PumpsInv, LinksGrow
<1> QED
  BY <1>4, <1>5, <1>6, <1>7

\* The follow of a stream is removed, or may be on another connection.
LEMMA RemovedFollows ==
  ASSUME IdsOfTheirOwn, PlacesInv, LinksInv, LinksGrow, FollowsIInv, NEW s \in Streams, NEW k,
         RemoveFollow(k, IdOf[s]), at' = at, waits' = waits, cancelled \subseteq cancelled',
         cancelled' \subseteq Streams,
         \A t \in Streams : phase'[t] = phase[t] \/ (t = s /\ phase'[t] \in {"failing", "failed"}),
         \A t \in Streams : fetch'[t] = fetch[t] \/ (t = s /\ fetch'[t] = "failed"),
         fetch' \in [Streams -> FetchStates],
         phase'[s] \in {"registered"} \cup Early => fetch'[s] = fetch[s],
         phase'[s] = "following" => fetch'[s] = fetch[s],
         phase'[s] \in {"failing", "failed"} => fetch'[s] \in {"none", "failed"},
         fetch'[s] = "pumping" => s \in cancelled',
         phase'[s] # phase[s] => k = at[s] \/ \A f \in follows : f.owner # s
                               \/ fetch'[s] \in {"over", "failed"}
  PROVE  FollowsIInv'
<1> USE DEF FollowsIInv
<1>1. /\ aborted \subseteq aborted' /\ follows' \subseteq follows /\ setups' \subseteq setups
      /\ \/ follows' = follows /\ setups' = setups
         \/ follows' = follows \ OwnFollow(s) /\ setups' = setups \ {s}
      /\ k = at[s] => follows' = follows \ OwnFollow(s) /\ setups' = setups \ {s}
      /\ \A f \in follows : f.remote # NoStream => f \in follows' \/ f.remote \in aborted'
  BY OwnAborted
<1>2. FetchInv'
  BY DEF FetchInv, Early
<1>3. FollowsInv'
  BY <1>1 DEF FollowsInv, FollowStates, Early
<1>4. SetupsInv'
  BY <1>1 DEF SetupsInv, OwnFollow, FollowsInv, FollowStates
<1>5. ASSUME NEW x \in Streams, fetch'[x] = "pumping"
      PROVE  /\ (\E f \in follows' : f.remote = x) \/ x \in aborted' \/ link'[at'[x]] = "closed"
             /\ (\E f \in follows' : f.owner = x) \/ x \in cancelled'
  <2>1. fetch[x] = "pumping"
    BY <1>5
  <2>2. at[x] \in Conns
    BY <2>1, Pumping
  <2>3. (\E f \in follows : f.remote = x) \/ x \in aborted \/ link[at[x]] = "closed"
    BY <2>1 DEF PumpsInv
  <2>4. (\E f \in follows : f.owner = x) \/ x \in cancelled
    BY <2>1 DEF PumpsInv
  <2>5. x # NoStream
    BY ChainAssumption
  <2>6. x # s => \A f \in follows : f.owner = x => f \in follows'
    BY <1>1 DEF OwnFollow
  <2>7. x = s => x \in cancelled'
    BY <1>5
  <2> QED
    BY <1>1, <2>2, <2>3, <2>4, <2>5, <2>6, <2>7 DEF LinksGrow
<1>6. PumpsInv'
  BY <1>5 DEF PumpsInv
<1> QED
  BY <1>2, <1>3, <1>4, <1>6

LEMMA EnsureFollows ==
  ASSUME IdsOfTheirOwn, PlacesInv, LinksInv, LinksGrow, FollowsIInv, NEW s \in Streams, Ensure(s)
  PROVE  FollowsIInv'
<1> USE DEF FollowsIInv
<1>0. phase[s] = "registered" /\ fetch[s] = "none" /\ UNCHANGED <<at, cancelled>>
  BY EnsureIs
<1>1. CASE /\ phase' = [phase EXCEPT ![s] = "failing"] /\ UNCHANGED <<waits, fetch>>
           /\ RemoveFollow(at[s], IdOf[s])
  <2>1. phase'[s] = "failing" /\ \A t \in Streams \ {s} : phase'[t] = phase[t]
    BY <1>1, CallersApart DEF PlacesInv
  <2>2. cancelled \subseteq Streams /\ fetch \in [Streams -> FetchStates]
    BY DEF PumpsInv, FetchInv
  <2> QED
    BY <1>0, <1>1, <2>1, <2>2, RemovedFollows
<1>2. CASE /\ phase' = [phase EXCEPT ![s] = "joined"]
           /\ setups' = setups \cup {s}
           /\ fetch' = [fetch EXCEPT ![s] = "fresh"] /\ waits' = [waits EXCEPT ![s] = s]
           /\ UNCHANGED <<follows, aborted>>
  <2>1. /\ phase'[s] = "joined" /\ waits'[s] = s
        /\ \A t \in Streams \ {s} : phase'[t] = phase[t] /\ waits'[t] = waits[t]
    BY <1>2, CallersApart DEF PlacesInv
  <2>2. /\ fetch' \in [Streams -> FetchStates]
        /\ fetch'[s] = "fresh" /\ \A t \in Streams \ {s} : fetch'[t] = fetch[t]
    BY <1>2 DEF FetchInv, FetchStates
  <2>3. FetchInv'
    BY <2>1, <2>2 DEF FetchInv, Early
  <2>4. FollowsInv'
    BY <1>0, <1>2, <2>1, <2>2 DEF FollowsInv, FollowStates, Early
  <2>5. SetupsInv'
    BY <1>0, <1>2, <2>1, <2>2 DEF SetupsInv, FollowsInv, FollowStates
  <2>6. PumpsInv'
    BY <1>0, <1>2, <2>2, Pumping DEF PumpsInv, LinksGrow
  <2> QED
    BY <2>3, <2>4, <2>5, <2>6
<1> QED
  BY <1>1, <1>2, EnsureIs

LEMMA JoinedFollows ==
  ASSUME IdsOfTheirOwn, PlacesInv, LinksInv, LinksGrow, FollowsIInv, NEW s \in Streams, Joined(s)
  PROVE  FollowsIInv'
<1> USE DEF FollowsIInv
<1>1. /\ phase[s] = "joined" /\ UNCHANGED <<at, waits, cancelled, follows, aborted, fetch>>
      /\ \/ /\ fetch[s] = "failed" /\ phase' = [phase EXCEPT ![s] = "failing"]
            /\ setups' = setups \ {s}
         \/ /\ fetch[s] \in {"pumping", "over"} /\ phase' = [phase EXCEPT ![s] = "following"]
            /\ setups' = setups
  BY JoinedIs
<1>2. /\ \/ fetch[s] = "failed" /\ phase'[s] = "failing" /\ setups' = setups \ {s}
         \/ fetch[s] \in {"pumping", "over"} /\ phase'[s] = "following" /\ setups' = setups
      /\ \A t \in Streams \ {s} : phase'[t] = phase[t]
  BY <1>1, CallersApart DEF PlacesInv
<1>3. FetchInv'
  BY <1>1, <1>2 DEF FetchInv, Early
<1>4. FollowsInv'
  BY <1>1, <1>2 DEF FollowsInv, FollowStates, Early
<1>5. SetupsInv'
  BY <1>1, <1>2 DEF SetupsInv, FollowsInv, FollowStates
<1>6. PumpsInv'
  BY <1>1, Pumping DEF PumpsInv, LinksGrow
<1> QED
  BY <1>3, <1>4, <1>5, <1>6

LEMMA DroppedFollows ==
  ASSUME IdsOfTheirOwn, PlacesInv, LinksInv, LinksGrow, FollowsIInv, NEW s \in Streams,
         GiveUp(s) \/ DropStream(s)
  PROVE  FollowsIInv'
<1>1. /\ RemoveFollow(conn, IdOf[s]) /\ UNCHANGED <<at, waits, fetch>>
      /\ cancelled' = cancelled \/ cancelled' = cancelled \cup {s}
  BY DEF GiveUp, DropStream, Cleanup, taskVars
<1>2. cancelled \subseteq Streams /\ fetch \in [Streams -> FetchStates]
  BY DEF FollowsIInv, PumpsInv, FetchInv
<1>3. CASE GiveUp(s)
  <2>1. phase[s] = "failing" /\ phase'[s] = "failed" /\ \A t \in Streams \ {s} : phase'[t] = phase[t]
    BY <1>3, CallersApart DEF GiveUp, GoesTo, PlacesInv
  <2>2. fetch[s] \in {"none", "failed"}
    BY <2>1 DEF FollowsIInv, FetchInv
  <2>3. (\A f \in follows : f.owner # s) \/ fetch[s] = "failed"
    BY <2>1, <2>2 DEF FollowsIInv, SetupsInv
  <2> QED
    BY <1>1, <1>2, <2>1, <2>2, <2>3, RemovedFollows
<1>4. CASE DropStream(s)
  <2>1. phase' = phase /\ s \in cancelled'
    BY <1>4 DEF DropStream, taskVars
  <2>2. phase[s] \in {"failing", "failed"} => fetch[s] \in {"none", "failed"}
    BY DEF FollowsIInv, FetchInv
  <2> QED
    BY <1>1, <1>2, <2>1, <2>2, RemovedFollows
<1> QED
  BY <1>3, <1>4

\* The setup of a stream fails.
LEMMA FailedFollows ==
  ASSUME IdsOfTheirOwn, PlacesInv, LinksInv, LinksGrow, FollowsIInv, NEW s \in Streams,
         fetch[s] \in {"fresh", "asked"}, fetch' = [fetch EXCEPT ![s] = "failed"],
         RemoveFollow(at[s], IdOf[s]), UNCHANGED <<phase, at, waits, cancelled>>
  PROVE  FollowsIInv'
<1>1. cancelled \subseteq Streams /\ fetch' \in [Streams -> FetchStates]
  BY DEF FollowsIInv, PumpsInv, FetchInv, FetchStates
<1>2. fetch'[s] = "failed" /\ \A t \in Streams \ {s} : fetch'[t] = fetch[t]
  BY DEF FollowsIInv, FetchInv
<1>3. phase[s] = "joined"
  BY Pumping DEF FollowsIInv
<1> QED
  BY <1>1, <1>2, <1>3, RemovedFollows DEF Early

LEMMA SendFollows ==
  ASSUME IdsOfTheirOwn, PlacesInv, LinksInv, LinksGrow, FollowsIInv, NEW s \in Streams,
         SendFollow(s)
  PROVE  FollowsIInv'
<1>1. fetch[s] = "fresh" /\ UNCHANGED <<phase, at, waits, cancelled>>
  BY DEF SendFollow, taskVars
<1>2. CASE FailSetup(s)
  BY <1>1, <1>2, FailedFollows DEF FailSetup
<1>3. CASE fetch' = [fetch EXCEPT ![s] = "asked"] /\ UNCHANGED tableVars
  <2> USE <1>1, <1>3 DEF FollowsIInv, tableVars
  <2>1. /\ fetch' \in [Streams -> FetchStates]
        /\ fetch'[s] = "asked" /\ \A t \in Streams \ {s} : fetch'[t] = fetch[t]
    BY DEF FetchInv, FetchStates
  <2>2. FetchInv'
    BY <2>1, Pumping DEF FetchInv, Early
  <2>3. FollowsInv' /\ SetupsInv'
    BY <2>1 DEF FollowsInv, SetupsInv, FollowStates
  <2>4. PumpsInv'
    BY <2>1, Pumping DEF PumpsInv, LinksGrow
  <2> QED
    BY <2>2, <2>3, <2>4
<1> QED
  BY <1>2, <1>3 DEF SendFollow

LEMMA AnsweredFollows ==
  ASSUME IdsOfTheirOwn, PlacesInv, LinksInv, LinksGrow, FollowsIInv, NEW s \in Streams,
         NEW ok \in BOOLEAN, FollowAnswered(s, ok)
  PROVE  FollowsIInv'
<1>1. fetch[s] = "asked" /\ UNCHANGED <<phase, at, waits, cancelled>>
  BY AnsweredIs
<1>2. CASE fetch' = [fetch EXCEPT ![s] = "failed"] /\ RemoveFollow(at[s], IdOf[s])
  BY <1>1, <1>2, FailedFollows
<1>3. ASSUME fetch' = [fetch EXCEPT ![s] = "pumping"], s \notin cancelled,
             NEW f \in OwnFollow(s), follows' = (follows \ {f}) \cup {[f EXCEPT !.remote = s]},
             UNCHANGED <<setups, aborted>>
      PROVE  FollowsIInv'
  <2> USE DEF FollowsIInv
  <2> DEFINE g == [f EXCEPT !.remote = s]
  <2>1. /\ fetch' \in [Streams -> FetchStates]
        /\ fetch'[s] = "pumping" /\ \A t \in Streams \ {s} : fetch'[t] = fetch[t]
    BY <1>3 DEF FetchInv, FetchStates
  <2>2. FetchInv'
    BY <1>1, <2>1, Pumping DEF FetchInv, Early
  <2>3. f \in follows /\ f.owner = s /\ f \in FollowStates
    BY <1>3 DEF OwnFollow, FollowsInv
  <2>4. /\ g \in FollowStates /\ g.owner = s /\ g.conn = f.conn /\ g.remote = s
        /\ g.runtime = f.runtime
    BY <2>3 DEF FollowStates
  <2> HIDE DEF g
  <2>5. follows' = (follows \ {f}) \cup {g}
    BY <1>3 DEF g
  <2>6. FollowsInv'
    BY <1>1, <2>1, <2>3, <2>4, <2>5 DEF FollowsInv, FollowStates
  <2>7. SetupsInv'
    <3>1. \A h \in follows' : \E e \in follows : h.owner = e.owner
      BY <2>3, <2>4, <2>5
    <3>2. \A e \in follows : e.owner \in Streams
      BY DEF FollowsInv, FollowStates
    <3>3. \A h \in follows' : h.owner \in setups \/ phase[h.owner] = "registered"
                        \/ fetch'[h.owner] \in {"over", "failed"}
      <4> SUFFICES ASSUME NEW h \in follows'
                   PROVE  h.owner \in setups \/ phase[h.owner] = "registered"
                           \/ fetch'[h.owner] \in {"over", "failed"}
        OBVIOUS
      <4>1. PICK e \in follows : h.owner = e.owner
        BY <3>1
      <4>2. e.owner \in setups \/ phase[e.owner] = "registered" \/ fetch[e.owner] \in {"over", "failed"}
        BY DEF SetupsInv
      <4> QED
        BY <1>1, <2>1, <3>2, <4>1, <4>2
    <3> QED
      BY <1>1, <1>3, <2>1, <3>3 DEF SetupsInv
  <2>8. PumpsInv'
    <3>1. \A x \in Streams : fetch'[x] = "pumping" /\ x # s => fetch[x] = "pumping" /\ at[x] \in Conns
      BY <2>1, Pumping
    <3>2. \A x \in Streams \ {s} : \A e \in follows : e.remote = x \/ e.owner = x => e \in follows'
      BY <2>3, <2>5, ChainAssumption DEF FollowsInv
    <3>3. g \in follows' /\ g.owner = s /\ g.remote = s
      BY <2>4, <2>5
    <3> QED
      BY <1>1, <1>3, <2>1, <3>1, <3>2, <3>3 DEF PumpsInv, LinksGrow
  <2> QED
    BY <2>2, <2>6, <2>7, <2>8
<1> QED
  BY <1>2, <1>3, AnsweredIs

LEMMA PumpFollows ==
  ASSUME IdsOfTheirOwn, PlacesInv, LinksInv, LinksGrow, FollowsIInv, NEW s \in Streams,
         PumpStops(s) \/ PumpAborted(s)
  PROVE  FollowsIInv'
<1> USE DEF FollowsIInv
<1>1. /\ fetch[s] = "pumping" /\ fetch' = [fetch EXCEPT ![s] = "over"]
      /\ UNCHANGED <<phase, at, waits, cancelled, aborted>>
  BY DEF PumpStops, PumpAborted, taskVars, tableVars
<1>2. \/ follows' = follows /\ setups' = setups
      \/ follows' = follows \ OwnFollow(s) /\ setups' = setups \ {s}
  <2>1. CASE PumpStops(s)
    <3>1. DropEntries(at[s], IdOf[s])
      BY <2>1 DEF PumpStops
    <3> QED
      BY <3>1, OwnRemoved
  <2>2. CASE PumpAborted(s)
    BY <2>2 DEF PumpAborted, tableVars
  <2> QED
    BY <2>1, <2>2
<1>3. /\ fetch' \in [Streams -> FetchStates]
      /\ fetch'[s] = "over" /\ \A t \in Streams \ {s} : fetch'[t] = fetch[t]
  BY <1>1 DEF FetchInv, FetchStates
<1>4. FetchInv'
  BY <1>1, <1>3, Pumping DEF FetchInv, Early
<1>5. FollowsInv'
  BY <1>1, <1>2, <1>3 DEF FollowsInv, FollowStates, OwnFollow
<1>6. SetupsInv'
  BY <1>1, <1>2, <1>3 DEF SetupsInv, FollowsInv, FollowStates, OwnFollow
<1>7. PumpsInv'
  <2>1. \A x \in Streams : fetch'[x] = "pumping" => x # s /\ fetch[x] = "pumping" /\ at[x] \in Conns
    BY <1>3, Pumping
  <2>2. \A x \in Streams \ {s} : \A e \in follows : e.remote = x \/ e.owner = x => e \in follows'
    BY <1>2, ChainAssumption DEF FollowsInv, OwnFollow
  <2> QED
    BY <1>1, <2>1, <2>2 DEF PumpsInv, LinksGrow
<1> QED
  BY <1>4, <1>5, <1>6, <1>7

\* The names a follow goes by play no part in this.
LEMMA ResolvedFollows ==
  ASSUME PlacesInv, LinksInv, LinksGrow, FollowsIInv, AsksInv, NEW q \in Requests, Resolve(q)
  PROVE  FollowsIInv'
<1>1. /\ UNCHANGED <<at, setups, fetch, aborted, cancelled>>
      /\ \A s \in Streams : phase'[s] = phase[s] /\ waits'[s] = waits[s]
  BY ResolveIs, CallersApart DEF PlacesInv
<1>2. CASE follows' = follows
  BY <1>1, <1>2, FollowsFrame
<1>3. ASSUME NEW f \in follows, follows' = (follows \ {f}) \cup {[f EXCEPT !.alias = name[q]]}
      PROVE  FollowsIInv'
  <2> USE DEF FollowsIInv
  <2> DEFINE g == [f EXCEPT !.alias = name[q]]
  <2>1. /\ g \in FollowStates /\ g.owner = f.owner /\ g.conn = f.conn /\ g.remote = f.remote
        /\ g.runtime = f.runtime
    BY DEF FollowsInv, FollowStates, AsksInv
  <2> HIDE DEF g
  <2>2. follows' = (follows \ {f}) \cup {g}
    BY <1>3 DEF g
  <2>3. \A h \in follows' : h \in FollowStates /\ \E e \in follows :
          h.owner = e.owner /\ h.conn = e.conn /\ h.remote = e.remote /\ h.runtime = e.runtime
    BY <2>1, <2>2 DEF FollowsInv
  <2>4. \A e \in follows : \E h \in follows' : h.owner = e.owner /\ h.remote = e.remote
    BY <2>1, <2>2
  <2>5. \A h, e \in follows' : h.owner = e.owner => h = e
    BY <2>1, <2>2 DEF FollowsInv
  <2>6. \A e \in follows : e.owner \in Streams
    BY DEF FollowsInv, FollowStates
  <2>7. FetchInv'
    BY <1>1 DEF FetchInv
  <2>8. FollowsInv'
    <3>1. ASSUME NEW h \in follows'
          PROVE  /\ h.conn = at'[h.owner] /\ phase'[h.owner] \notin Early
                 /\ h.remote \in {NoStream, h.owner}
                 /\ h.remote # NoStream => fetch'[h.owner] # "none"
                 /\ h.runtime <=> h.owner \in WithRuntime
      <4>1. PICK e \in follows : /\ h.owner = e.owner /\ h.conn = e.conn
                                 /\ h.remote = e.remote /\ h.runtime = e.runtime
        BY <2>3
      <4> QED
        BY <1>1, <2>6, <4>1 DEF FollowsInv
    <3> QED
      BY <2>3, <2>5, <3>1 DEF FollowsInv, FollowStates
  <2>9. SetupsInv'
    <3>1. ASSUME NEW h \in follows'
          PROVE  h.owner \in setups' \/ phase'[h.owner] = "registered"
                 \/ fetch'[h.owner] \in {"over", "failed"}
      <4>1. PICK e \in follows : h.owner = e.owner
        BY <2>3
      <4> QED
        BY <1>1, <2>6, <4>1 DEF SetupsInv
    <3> QED
      BY <1>1, <3>1 DEF SetupsInv
  <2>10. PumpsInv'
    <3>1. ASSUME NEW x \in Streams, fetch'[x] = "pumping"
          PROVE  /\ (\E h \in follows' : h.remote = x) \/ x \in aborted' \/ link'[at'[x]] = "closed"
                 /\ (\E h \in follows' : h.owner = x) \/ x \in cancelled'
      <4>1. fetch[x] = "pumping" /\ at[x] \in Conns
        BY <1>1, <3>1, Pumping
      <4>2. (\E e \in follows : e.remote = x) => (\E h \in follows' : h.remote = x)
        BY <2>4
      <4>3. (\E e \in follows : e.owner = x) => (\E h \in follows' : h.owner = x)
        BY <2>4
      <4> QED
        BY <1>1, <4>1, <4>2, <4>3 DEF PumpsInv, LinksGrow
    <3> QED
      BY <1>1, <3>1 DEF PumpsInv
  <2> QED
    BY <2>7, <2>8, <2>9, <2>10
<1> QED
  BY <1>2, <1>3, ResolveIs

\* Any other step of a request, and any of the other callers and of the
\* connection, leaves the streams and the tables alone.
AsideOf(who) == \A t \in who : phase'[t] = phase[t] /\ waits'[t] = waits[t] /\ at'[t] = at[t]
TablesKept == UNCHANGED <<threading, intents, starts, cancelled, follows, setups, aborted, fetch>>

\* Who names no follow leaves the streams, the requests and the tables alone.
LEMMA CallersAside ==
  ASSUME PlacesInv, LinksInv, [CallersNext]_allVars
  PROVE  SystemStep \/ OutsideStep \/ (SharedKept /\ AsideOf(Streams \cup Requests))
<1> USE CallersApart
<1>1. ASSUME NEW t \in Others, SharedKept, phase' = [phase EXCEPT ![t] = phase'[t]],
             \A u \in Tasks \ {t} : at'[u] = at[u]
      PROVE  AsideOf(Streams \cup Requests)
  BY <1>1 DEF AsideOf, PlacesInv, SharedKept
<1>2. ASSUME NEW b \in Broadcasts,
             \/ Broadcast(b) \/ ConnectionReady(b) \/ BroadcastAnswered(b) \/ Track(b)
             \/ FailCaller(b) \/ DropCaller(b)
      PROVE  SharedKept /\ AsideOf(Streams \cup Requests)
  BY <1>1, <1>2, BroadcastMoves DEF Moved, Unlinked, LinksKept
<1>3. ASSUME NEW x \in Stops,
             \/ \E b \in Broadcasts : Stop(x, b)
             \/ ConnectionReady(x) \/ TakeOperation(x) \/ StopAnswered(x) \/ PutBack(x)
             \/ DropCaller(x)
      PROVE  SharedKept /\ AsideOf(Streams \cup Requests)
  BY <1>1, <1>3, StopMoves DEF Moved, Unlinked, LinksKept
<1>4. ASSUME NEW u \in Users,
             \/ Use(u) \/ ConnectionReady(u) \/ JoinBuild(u) \/ Built(u)
             \/ FailCaller(u) \/ DropCaller(u)
      PROVE  SharedKept /\ AsideOf(Streams \cup Requests)
  BY <1>1, <1>4, UserMoves DEF Moved, Unlinked, LinksKept
<1>5. ASSUME NEW x \in Stops, ConnectStop(x)
      PROVE  SharedKept /\ AsideOf(Streams \cup Requests)
  BY <1>1, <1>5, ConnectStopMoves DEF Moved
<1>6. ASSUME NEW t \in Others, Connect(t)
      PROVE  SharedKept /\ AsideOf(Streams \cup Requests)
  BY <1>1, <1>6, ConnectMoves DEF Moved
<1>7. ASSUME UNCHANGED chainVars
      PROVE  SharedKept /\ AsideOf(Streams \cup Requests)
  BY <1>7 DEF chainVars, taskVars, connVars, intentVars, tableVars, askVars, SharedKept, AsideOf
<1>8. ASSUME NEW t \in Others, Reach(t)
      PROVE  SharedKept /\ AsideOf(Streams \cup Requests)
  BY <1>2, <1>3, <1>4, <1>6, <1>8, CallersAssumption DEF Reach
<1>9. ASSUME NEW k, NEW g, DriverEnds(k, g) \/ \E ok \in BOOLEAN : BuildAnswered(k, g, ok)
      PROVE  SharedKept /\ AsideOf(Streams \cup Requests)
  BY <1>7, <1>9 DEF DriverEnds, BuildAnswered
<1>10. ASSUME NEW t \in Others, DropCaller(t)
       PROVE  SharedKept /\ AsideOf(Streams \cup Requests)
  BY <1>2, <1>3, <1>4, <1>10, CallersAssumption
<1>11. CASE CallerStep
  BY <1>2, <1>3, <1>4, <1>5, <1>8, <1>9, <1>11 DEF CallerStep
<1> QED
  BY <1>2, <1>3, <1>4, <1>7, <1>9, <1>10, <1>11 DEF CallersNext, allVars

LEMMA LinksAside ==
  ASSUME PlacesInv, LinksInv,
         \/ ConnectPublished \/ \E ok \in BOOLEAN : ConnectAnswered(ok)
         \/ \E k \in Conns : LoseConnection(k)
  PROVE  SharedKept /\ AsideOf(Streams \cup Requests)
BY LinkMoves DEF SharedKept, AsideOf

LEMMA RequestsAside ==
  ASSUME PlacesInv, LinksInv, NEW q \in Requests,
         \/ \E n \in Asked : Ask(q, n)
         \/ Connect(q) \/ ConnectionReady(q) \/ StartSettled(q) \/ Require(q)
         \/ Fetched(q) \/ FollowWithRuntime(q) \/ DropRequest(q)
  PROVE  TablesKept /\ AsideOf(Streams \cup (Requests \ {q}))
<1> USE CallersApart
<1>1. ASSUME phase' = [phase EXCEPT ![q] = phase'[q]], \A u \in Tasks \ {q} : at'[u] = at[u],
             \A u \in Tasks \ {q} : waits'[u] = waits[u]
      PROVE  AsideOf(Streams \cup (Requests \ {q}))
  BY <1>1 DEF AsideOf, PlacesInv
<1>2. CASE Connect(q)
  <2>1. SharedKept /\ phase' = [phase EXCEPT ![q] = phase'[q]] /\ \A u \in Tasks \ {q} : at'[u] = at[u]
    BY <1>2, ConnectMoves DEF Moved
  <2> QED
    BY <1>1, <2>1 DEF SharedKept, TablesKept
<1>3. CASE \/ \E n \in Asked : Ask(q, n)
           \/ ConnectionReady(q) \/ StartSettled(q) \/ Require(q) \/ Fetched(q)
           \/ FollowWithRuntime(q) \/ DropRequest(q)
  <2>1. phase' = [phase EXCEPT ![q] = phase'[q]] /\ at' = at
    BY <1>3, RequestMoves DEF Moved, Unlinked, LinksKept
  <2>2. \A u \in Tasks \ {q} : waits'[u] = waits[u]
    BY <1>3 DEF Ask, ConnectionReady, StartSettled, Require, Fetched, FollowWithRuntime, DropRequest,
       PlacesInv
  <2>3. TablesKept
    BY <1>3 DEF Ask, ConnectionReady, StartSettled, Require, Fetched, FollowWithRuntime, DropRequest,
       TablesKept, intentVars, tableVars
  <2> QED
    BY <1>1, <2>1, <2>2, <2>3
<1> QED
  BY <1>2, <1>3

\* Streams on their way to a follow
LEMMA EarlyFollows ==
  ASSUME PlacesInv, LinksInv, LinksGrow, FollowsIInv, NEW s \in Streams,
         Subscribe(s) \/ Connect(s) \/ ConnectionReady(s) \/ Check(s)
  PROVE  FollowsIInv'
<1> USE CallersApart
<1>1. CASE Connect(s)
  <2>1. /\ SharedKept /\ phase[s] = "spawned" /\ phase' = [phase EXCEPT ![s] = phase'[s]]
        /\ phase'[s] \in {"failing", "connected", "waiting"}
        /\ \A u \in Tasks \ {s} : at'[u] = at[u]
    BY <1>1, ConnectMoves DEF Moved
  <2> QED
    BY <2>1, FollowsEarly DEF Early, SharedKept
<1>2. CASE Subscribe(s) \/ ConnectionReady(s) \/ Check(s)
  BY <1>2, FollowsEarly DEF Subscribe, ConnectionReady, Check, Refuse, GoesTo, Early, PlacesInv,
     tableVars
<1> QED
  BY <1>1, <1>2

\* In every step the follows match the streams.
LEMMA FollowsNext ==
  ASSUME IdsOfTheirOwn, PlacesInv, LinksInv, FollowsIInv, AsksInv, [CallersNext]_allVars
  PROVE  FollowsIInv'
<1>0. LinksGrow
  BY PlacesNext
<1>1. ASSUME NEW s \in Streams, StartStep(s) \/ Subscribe(s)
      PROVE  FollowsIInv'
  BY <1>0, <1>1, EarlyFollows, RegisterFollows, EnsureFollows, JoinedFollows, DroppedFollows
     DEF StartStep
<1>2. ASSUME NEW s \in Streams,
             SetupStep(s) \/ PumpStops(s) \/ PumpAborted(s) \/ DropStream(s)
      PROVE  FollowsIInv'
  BY <1>0, <1>2, SendFollows, AnsweredFollows, PumpFollows, DroppedFollows DEF SetupStep
<1>3. ASSUME NEW q \in Requests,
             RequestStep(q) \/ DropRequest(q) \/ \E n \in Asked : Ask(q, n)
      PROVE  FollowsIInv'
  <2>1. CASE Resolve(q)
    BY <1>0, <2>1, ResolvedFollows
  <2>2. CASE ~ Resolve(q)
    <3>1. TablesKept /\ AsideOf(Streams \cup (Requests \ {q}))
      BY <1>3, <2>2, RequestsAside DEF RequestStep
    <3> QED
      BY <1>0, <3>1, FollowsFrame DEF TablesKept, AsideOf
  <2> QED
    BY <2>1, <2>2
<1>4. CASE SharedKept /\ AsideOf(Streams \cup Requests)
  BY <1>0, <1>4, FollowsFrame DEF SharedKept, AsideOf
<1>5. CASE SystemStep
  BY <1>1, <1>2, <1>3, <1>4, <1>5, LinksAside DEF SystemStep, PumpCut, ConnectStep
<1>6. CASE OutsideStep
  BY <1>1, <1>2, <1>3, <1>4, <1>6, LinksAside DEF OutsideStep
<1> QED
  BY <1>4, <1>5, <1>6, CallersAside

-----------------------------------------------------------------------------
(* What never goes back                                                    *)

\* The start task of a stream goes on, and leaves the others where they are.
LEMMA StartsGoOn ==
  ASSUME IdsOfTheirOwn, PlacesInv, LinksInv, FollowsIInv, NEW s \in Streams, StartStep(s)
  PROVE  /\ AsideOf((Streams \cup Requests) \ {s})
         /\ phase[s] \notin {"idle", "following", "failed"} /\ phase'[s] # "idle"
         /\ phase'[s] = "failed" => GiveUp(s)
         /\ UNCHANGED <<threading, cancelled, name, promised>>
         /\ ~ GiveUp(s) => UNCHANGED <<intents, starts>>
<1> USE CallersApart
<1>1. CASE Connect(s)
  BY <1>1, ConnectMoves DEF Moved, SharedKept, AsideOf, PlacesInv
<1>2. CASE ConnectionReady(s) \/ Check(s)
  BY <1>2 DEF ConnectionReady, Check, Refuse, GoesTo, PlacesInv, AsideOf, askVars, intentVars
<1>3. CASE RegisterFollow(s)
  BY <1>3, RegisterIs DEF PlacesInv, AsideOf
<1>4. CASE Ensure(s)
  BY <1>4, EnsureIs DEF PlacesInv, AsideOf
<1>5. CASE Joined(s)
  BY <1>5, JoinedIs DEF PlacesInv, AsideOf
<1>6. CASE GiveUp(s)
  BY <1>6 DEF GiveUp, GoesTo, PlacesInv, AsideOf, askVars
<1> QED
  BY <1>1, <1>2, <1>3, <1>4, <1>5, <1>6 DEF StartStep

Grows ==
  /\ cancelled \subseteq cancelled'
  /\ \A s \in Streams :
       /\ fetch[s] \in {"failed", "over"} => fetch'[s] = fetch[s]
       /\ phase[s] # "idle" => phase'[s] # "idle"
       /\ phase[s] = "following" => phase'[s] = "following"

\* What is dropped, failed, over or followed stays so.
LEMMA GrowsNext ==
  ASSUME IdsOfTheirOwn, PlacesInv, LinksInv, FollowsIInv, [CallersNext]_allVars
  PROVE  Grows
<1> USE CallersApart
<1>1. ASSUME NEW s \in Streams, StartStep(s)
      PROVE  Grows
  <2>1. UNCHANGED fetch \/ (fetch[s] = "none" /\ \A t \in Streams \ {s} : fetch'[t] = fetch[t])
    BY <1>1, EnsureIs DEF StartStep, Connect, ConnectionReady, Check, RegisterFollow, Joined,
       GiveUp, FollowsIInv, FetchInv
  <2> QED
    BY <1>1, <2>1, StartsGoOn DEF Grows, AsideOf
<1>2. ASSUME NEW s \in Streams, Subscribe(s)
      PROVE  Grows
  BY <1>2 DEF Grows, Subscribe, GoesTo, PlacesInv
<1>3. ASSUME NEW s \in Streams,
             SetupStep(s) \/ PumpStops(s) \/ PumpAborted(s) \/ DropStream(s)
      PROVE  Grows
  <2>1. phase' = phase /\ cancelled \subseteq cancelled'
    BY <1>3 DEF SetupStep, SendFollow, FollowAnswered, PumpStops, PumpAborted, DropStream, taskVars
  <2>2. UNCHANGED fetch \/ (fetch[s] \in {"fresh", "asked", "pumping"}
                            /\ \A t \in Streams \ {s} : fetch'[t] = fetch[t])
    BY <1>3 DEF SetupStep, SendFollow, FollowAnswered, PumpStops, PumpAborted, DropStream,
       FailSetup, FollowsIInv, FetchInv
  <2> QED
    BY <2>1, <2>2 DEF Grows
<1>4. ASSUME NEW q \in Requests,
             RequestStep(q) \/ DropRequest(q) \/ \E n \in Asked : Ask(q, n)
      PROVE  Grows
  <2>1. CASE Resolve(q)
    BY <2>1, ResolveIs DEF Grows, PlacesInv
  <2>2. CASE ~ Resolve(q)
    <3>1. TablesKept /\ AsideOf(Streams \cup (Requests \ {q}))
      BY <1>4, <2>2, RequestsAside DEF RequestStep
    <3> QED
      BY <3>1 DEF TablesKept, AsideOf, Grows
  <2> QED
    BY <2>1, <2>2
<1>5. CASE SharedKept /\ AsideOf(Streams \cup Requests)
  BY <1>5 DEF SharedKept, AsideOf, Grows
<1>6. CASE SystemStep
  BY <1>1, <1>3, <1>4, <1>5, <1>6, LinksAside DEF SystemStep, PumpCut, ConnectStep
<1>7. CASE OutsideStep
  BY <1>2, <1>3, <1>4, <1>5, <1>7, LinksAside DEF OutsideStep
<1> QED
  BY <1>5, <1>6, <1>7, CallersAside

\* A follow stays under its stream, and under the alias it has, until that
\* stream is done with.
FollowKept(f) == \E g \in follows' :
  g.owner = f.owner /\ g.conn = f.conn /\ (f.alias # NoName => g.alias = f.alias)

LEMMA RemovedKept ==
  ASSUME IdsOfTheirOwn, FollowsInv, SetupsInv, NEW s \in Streams, NEW k,
         DropEntries(k, IdOf[s]), NEW f \in follows
  PROVE  f.owner = s \/ FollowKept(f)
BY OwnRemoved DEF OwnFollow, FollowKept

LEMMA ResolvedKept ==
  ASSUME PlacesInv, FollowsIInv, NEW q \in Requests, Resolve(q), NEW f \in follows
  PROVE  FollowKept(f)
<1>1. CASE follows' = follows
  BY <1>1 DEF FollowKept
<1>2. ASSUME NEW h \in follows, h \in Hits(at[q], name[q]), IdOf[h.owner] # name[q],
             follows' = (follows \ {h}) \cup {[h EXCEPT !.alias = name[q]]}
      PROVE  FollowKept(f)
  <2>1. h.alias \in {NoName, name[q]}
    BY <1>2 DEF Hits
  <2>2. h \in FollowStates
    BY DEF FollowsIInv, FollowsInv
  <2> DEFINE g == [h EXCEPT !.alias = name[q]]
  <2>3. g.owner = h.owner /\ g.conn = h.conn /\ g.alias = name[q]
    BY <2>2 DEF FollowStates
  <2> HIDE DEF g
  <2>4. follows' = (follows \ {h}) \cup {g}
    BY <1>2 DEF g
  <2>5. CASE f = h
    BY <2>1, <2>3, <2>4, <2>5 DEF FollowKept
  <2>6. CASE f # h
    BY <2>4, <2>6 DEF FollowKept
  <2> QED
    BY <2>5, <2>6
<1> QED
  BY <1>1, <1>2, ResolveIs

\* In every step
LEMMA FollowsKept ==
  ASSUME IdsOfTheirOwn, PlacesInv, LinksInv, FollowsIInv, [CallersNext]_allVars, NEW f \in follows
  PROVE  FollowKept(f) \/ Undone(f.owner)'
<1> USE CallersApart
<1>0. f.owner \in Streams /\ f \in FollowStates
  BY DEF FollowsIInv, FollowsInv, FollowStates
<1>1. CASE follows' = follows
  BY <1>1 DEF FollowKept
<1>2. ASSUME NEW s \in Streams, StartStep(s)
      PROVE  FollowKept(f) \/ Undone(f.owner)'
  <2>1. CASE RegisterFollow(s)
    BY <2>1, RegisterIs DEF FollowKept
  <2>2. CASE Ensure(s)
    <3>1. CASE follows' = follows
      BY <1>1, <3>1
    <3>2. CASE RemoveFollow(at[s], IdOf[s]) /\ UNCHANGED cancelled
               /\ \A g \in OwnFollow(s) : s \in cancelled
      BY <3>2, RemovedKept DEF RemoveFollow, FollowsIInv, OwnFollow, Undone
    <3> QED
      BY <2>2, <3>1, <3>2, EnsureIs
  <2>3. CASE GiveUp(s)
    <3>1. DropEntries(conn, IdOf[s]) /\ phase[s] = "failing" /\ fetch' = fetch
      BY <2>3 DEF GiveUp, Cleanup, RemoveFollow
    <3>2. f.owner = s => fetch[s] = "failed"
      BY <3>1 DEF FollowsIInv, FetchInv, SetupsInv
    <3> QED
      BY <3>1, <3>2, RemovedKept DEF FollowsIInv, Undone
  <2> QED
    BY <1>1, <1>2, <2>1, <2>2, <2>3, JoinedIs DEF StartStep, Connect, ConnectionReady, Check, tableVars
<1>3. ASSUME NEW s \in Streams, DropStream(s)
      PROVE  FollowKept(f) \/ Undone(f.owner)'
  BY <1>3, RemovedKept DEF DropStream, Cleanup, RemoveFollow, FollowsIInv, Undone
<1>4. ASSUME NEW s \in Streams, FailSetup(s)
      PROVE  FollowKept(f) \/ Undone(f.owner)'
  <2>1. DropEntries(at[s], IdOf[s]) /\ fetch'[s] = "failed"
    BY <1>4 DEF FailSetup, RemoveFollow, FollowsIInv, FetchInv
  <2> QED
    BY <2>1, RemovedKept DEF FollowsIInv, Undone
<1>5. ASSUME NEW s \in Streams, SetupStep(s)
      PROVE  FollowKept(f) \/ Undone(f.owner)'
  <2>1. CASE SendFollow(s)
    BY <1>1, <1>4, <2>1 DEF SendFollow, tableVars
  <2>2. ASSUME NEW ok \in BOOLEAN, FollowAnswered(s, ok)
        PROVE  FollowKept(f) \/ Undone(f.owner)'
    <3>1. CASE RemoveFollow(at[s], IdOf[s]) /\ fetch' = [fetch EXCEPT ![s] = "failed"]
      BY <1>4, <3>1 DEF FailSetup
    <3>2. ASSUME NEW h \in OwnFollow(s), follows' = (follows \ {h}) \cup {[h EXCEPT !.remote = s]}
          PROVE  FollowKept(f)
      <4> DEFINE g == [h EXCEPT !.remote = s]
      <4>1. h \in FollowStates
        BY DEF FollowsIInv, FollowsInv, OwnFollow
      <4>2. g.owner = h.owner /\ g.conn = h.conn /\ g.alias = h.alias
        BY <4>1 DEF FollowStates
      <4> HIDE DEF g
      <4>3. follows' = (follows \ {h}) \cup {g}
        BY <3>2 DEF g
      <4>4. CASE f = h
        BY <4>2, <4>3, <4>4 DEF FollowKept
      <4>5. CASE f # h
        BY <4>3, <4>5 DEF FollowKept
      <4> QED
        BY <4>4, <4>5
    <3> QED
      BY <2>2, <3>1, <3>2, AnsweredIs
  <2> QED
    BY <1>5, <2>1, <2>2 DEF SetupStep
<1>6. ASSUME NEW s \in Streams, PumpStops(s)
      PROVE  FollowKept(f) \/ Undone(f.owner)'
  <2>1. DropEntries(at[s], IdOf[s]) /\ fetch'[s] = "over"
    BY <1>6 DEF PumpStops, FollowsIInv, FetchInv
  <2> QED
    BY <2>1, RemovedKept DEF FollowsIInv, Undone
<1>7. ASSUME NEW s \in Streams, PumpAborted(s) \/ Subscribe(s)
      PROVE  FollowKept(f) \/ Undone(f.owner)'
  BY <1>1, <1>7 DEF PumpAborted, Subscribe, tableVars
<1>8. ASSUME NEW q \in Requests,
             RequestStep(q) \/ DropRequest(q) \/ \E n \in Asked : Ask(q, n)
      PROVE  FollowKept(f) \/ Undone(f.owner)'
  <2>1. CASE Resolve(q)
    BY <2>1, ResolvedKept
  <2>2. CASE ~ Resolve(q)
    BY <1>1, <1>8, <2>2, RequestsAside DEF RequestStep, TablesKept
  <2> QED
    BY <2>1, <2>2
<1>9. CASE SharedKept
  BY <1>1, <1>9 DEF SharedKept
<1>10. CASE SystemStep
  BY <1>2, <1>5, <1>6, <1>7, <1>8, <1>9, <1>10, LinksAside DEF SystemStep, PumpCut, ConnectStep
<1>11. CASE OutsideStep
  BY <1>3, <1>6, <1>7, <1>8, <1>9, <1>11, LinksAside DEF OutsideStep
<1> QED
  BY <1>9, <1>10, <1>11, CallersAside

\* Neither does a stream that is done with come back.
LEMMA UndoneStays ==
  ASSUME IdsOfTheirOwn, PlacesInv, LinksInv, FollowsIInv, [CallersNext]_allVars,
         NEW s \in Streams, Undone(s)
  PROVE  Undone(s)'
<1>1. Grows /\ LinksGrow
  BY GrowsNext, PlacesNext
<1>2. Broken => Broken'
  BY <1>1 DEF Broken, LinksGrow
<1> QED
  BY <1>1, <1>2 DEF Undone, Grows

-----------------------------------------------------------------------------
(* What is pending                                                         *)

\* Of a stream that is on its way neither the intent nor the start is lost.
LEMMA IntentsNext ==
  ASSUME IdsOfTheirOwn, PlacesInv, LinksInv, FollowsIInv, IntentsInv, [CallersNext]_allVars
  PROVE  IntentsInv'
<1> USE CallersApart
<1>0. Grows
  BY GrowsNext
<1>1. ASSUME UNCHANGED <<intents, starts>>,
             \A s \in Streams : phase'[s] \notin {"idle", "failed"} => phase[s] \notin {"idle", "failed"}
      PROVE  IntentsInv'
  BY <1>0, <1>1 DEF IntentsInv, Grows
\* A stream that gives up, or is dropped, takes its own entries with it.
<1>2. ASSUME NEW s \in Streams, intents' = intents \ {IdOf[s]},
             starts' = {t \in starts : IdOf[t] # IdOf[s]},
             phase'[s] = "failed" \/ s \in cancelled',
             \A t \in Streams \ {s} : phase'[t] = phase[t]
      PROVE  IntentsInv'
  <2>1. \A t \in Streams : t # s => IdOf[t] # IdOf[s]
    BY DEF IdsOfTheirOwn
  <2> QED
    BY <1>0, <1>2, <2>1 DEF IntentsInv, Grows
<1>3. ASSUME NEW s \in Streams, Subscribe(s)
      PROVE  IntentsInv'
  <2>1. \A t \in Streams : t # s => IdOf[t] # IdOf[s]
    BY DEF IdsOfTheirOwn
  <2>2. /\ phase'[s] = "spawned" /\ \A t \in Streams \ {s} : phase'[t] = phase[t]
        /\ intents' = intents \cup {IdOf[s]} /\ cancelled' = cancelled
        /\ starts' = {t \in starts : IdOf[t] # IdOf[s]} \cup {s}
    BY <1>3 DEF Subscribe, GoesTo, PlacesInv
  <2> QED
    BY <2>1, <2>2 DEF IntentsInv
<1>4. ASSUME NEW s \in Streams, StartStep(s)
      PROVE  IntentsInv'
  <2>1. /\ \A t \in Streams \ {s} : phase'[t] = phase[t]
        /\ phase[s] \notin {"idle", "following", "failed"}
        /\ ~ GiveUp(s) => UNCHANGED <<intents, starts>>
    BY <1>4, StartsGoOn DEF AsideOf
  <2>2. CASE GiveUp(s)
    <3>1. /\ phase'[s] = "failed" /\ intents' = intents \ {IdOf[s]}
          /\ starts' = {t \in starts : IdOf[t] # IdOf[s]}
      BY <2>2 DEF GiveUp, GoesTo, PlacesInv, Cleanup
    <3> QED
      BY <1>2, <2>1, <3>1
  <2>3. CASE ~ GiveUp(s)
    BY <1>1, <2>1, <2>3
  <2> QED
    BY <2>2, <2>3
<1>5. ASSUME NEW s \in Streams, DropStream(s)
      PROVE  IntentsInv'
  BY <1>2, <1>5 DEF DropStream, Cleanup, taskVars
<1>6. ASSUME NEW s \in Streams, SetupStep(s) \/ PumpStops(s) \/ PumpAborted(s)
      PROVE  IntentsInv'
  BY <1>1, <1>6 DEF SetupStep, SendFollow, FollowAnswered, PumpStops, PumpAborted, taskVars,
     intentVars
<1>7. ASSUME NEW q \in Requests,
             RequestStep(q) \/ DropRequest(q) \/ \E n \in Asked : Ask(q, n)
      PROVE  IntentsInv'
  <2>1. CASE Resolve(q)
    BY <1>1, <2>1, ResolveIs DEF PlacesInv
  <2>2. CASE ~ Resolve(q)
    <3>1. TablesKept /\ AsideOf(Streams \cup (Requests \ {q}))
      BY <1>7, <2>2, RequestsAside DEF RequestStep
    <3> QED
      BY <1>1, <3>1 DEF TablesKept, AsideOf
  <2> QED
    BY <2>1, <2>2
<1>8. CASE SharedKept /\ AsideOf(Streams \cup Requests)
  BY <1>1, <1>8 DEF SharedKept, AsideOf
<1>9. CASE SystemStep
  BY <1>4, <1>6, <1>7, <1>8, <1>9, LinksAside DEF SystemStep, PumpCut, ConnectStep
<1>10. CASE OutsideStep
  BY <1>3, <1>5, <1>6, <1>7, <1>8, <1>10, LinksAside DEF OutsideStep
<1> QED
  BY <1>8, <1>9, <1>10, CallersAside

\* A start that fails has a reason.
LEMMA StartsNext ==
  ASSUME IdsOfTheirOwn, PlacesInv, LinksInv, FollowsIInv, StartsInv, [CallersNext]_allVars
  PROVE  StartsInv'
<1> USE CallersApart
<1>0. /\ \A s \in Streams : Undone(s) => Undone(s)'
      /\ \A f \in follows : FollowKept(f) \/ Undone(f.owner)'
  BY UndoneStays, FollowsKept
<1>1. \A s \in Streams : (\E f \in follows : f.owner = s) =>
        Undone(s)' \/ \E f \in follows' : f.owner = s
  BY <1>0 DEF FollowKept
<1>2. ASSUME \A s \in Streams : \/ phase'[s] = phase[s]
                                \/ phase'[s] = "registered" /\ \E f \in follows' : f.owner = s
                                \/ phase'[s] \in {"failing", "failed"} /\ Undone(s)'
                                \/ phase'[s] \notin {"registered", "failing", "failed"}
      PROVE  StartsInv'
  BY <1>0, <1>1, <1>2 DEF StartsInv
<1>3. ASSUME NEW s \in Streams, StartStep(s)
      PROVE  StartsInv'
  <2>0. DOMAIN phase = Tasks /\ s \in Tasks /\ s \notin Requests
    BY DEF PlacesInv
  <2>1. \A t \in Streams \ {s} : phase'[t] = phase[t]
    BY <1>3, StartsGoOn DEF AsideOf
  <2>2. CASE Connect(s)
    <3>1. phase'[s] \in {"connected", "waiting"} \/ (s \in cancelled /\ cancelled' = cancelled)
      BY <2>2, ConnectMoves DEF Moved, SharedKept
    <3>2. phase'[s] \in {"connected", "waiting", "failing"}
      BY <2>2, ConnectMoves DEF Moved
    <3> QED
      BY <1>2, <2>1, <3>1, <3>2 DEF Undone
  <2>3. CASE ConnectionReady(s)
    <3>1. at[s] \in Conns
      BY <2>3, Numbered DEF ConnectionReady, LinksInv, Linked
    <3>2. phase'[s] = "connected" \/ (phase'[s] = "failing" /\ link[at[s]] = "failed")
      BY <2>0, <2>3 DEF ConnectionReady, Refuse, GoesTo
    <3>4. phase'[s] = "connected" \/ (phase'[s] = "failing" /\ Broken)
      BY <3>1, <3>2 DEF Broken
    <3>3. phase'[s] = "connected" \/ (phase'[s] = "failing" /\ Undone(s)')
      BY <1>0, <3>4 DEF Undone
    <3> QED
      BY <1>2, <2>1, <3>3
  <2>4. CASE Check(s)
    <3>1. phase'[s] = "checked" \/ (phase'[s] = "failing" /\ s \in cancelled)
      BY <2>0, <2>4 DEF Check, Refuse, GoesTo
    <3> QED
      BY <1>0, <1>2, <2>1, <3>1 DEF Undone
  <2>5. CASE RegisterFollow(s)
    <3>1. phase'[s] = "registered" /\ Entry(s) \in follows' /\ Entry(s).owner = s
      BY <2>5, RegisterIs DEF PlacesInv, Entry
    <3> QED
      BY <1>2, <2>1, <3>1
  <2>6. CASE Ensure(s)
    <3>1. /\ phase[s] = "registered"
          /\ \/ phase'[s] = "joined"
             \/ phase'[s] = "failing" /\ \A f \in OwnFollow(s) : s \in cancelled
      BY <2>6, EnsureIs DEF PlacesInv
    <3>2. phase'[s] = "failing" => Undone(s)
      BY <3>1 DEF StartsInv, OwnFollow, Undone
    <3> QED
      BY <1>0, <1>2, <2>1, <3>1, <3>2
  <2>7. CASE Joined(s)
    <3>1. phase'[s] = "following" \/ (phase'[s] = "failing" /\ fetch[s] = "failed")
      BY <2>0, <2>7, JoinedIs
    <3>2. phase'[s] = "failing" => Undone(s)
      BY <3>1 DEF Undone
    <3> QED
      BY <1>0, <1>2, <2>1, <3>1, <3>2
  <2>8. CASE GiveUp(s)
    <3>1. phase[s] = "failing" /\ phase'[s] = "failed"
      BY <2>8 DEF GiveUp, GoesTo, PlacesInv
    <3> QED
      BY <1>0, <1>2, <2>1, <3>1 DEF StartsInv
  <2> QED
    BY <1>3, <2>2, <2>3, <2>4, <2>5, <2>6, <2>7, <2>8 DEF StartStep
<1>4. ASSUME NEW s \in Streams, Subscribe(s)
      PROVE  StartsInv'
  BY <1>2, <1>4 DEF Subscribe, GoesTo, PlacesInv
<1>5. ASSUME NEW s \in Streams,
             SetupStep(s) \/ PumpStops(s) \/ PumpAborted(s) \/ DropStream(s)
      PROVE  StartsInv'
  BY <1>2, <1>5 DEF SetupStep, SendFollow, FollowAnswered, PumpStops, PumpAborted, DropStream,
     taskVars
<1>6. ASSUME NEW q \in Requests,
             RequestStep(q) \/ DropRequest(q) \/ \E n \in Asked : Ask(q, n)
      PROVE  StartsInv'
  <2>1. CASE Resolve(q)
    BY <1>2, <2>1, ResolveIs DEF PlacesInv
  <2>2. CASE ~ Resolve(q)
    <3>1. AsideOf(Streams \cup (Requests \ {q}))
      BY <1>6, <2>2, RequestsAside DEF RequestStep
    <3> QED
      BY <1>2, <3>1 DEF AsideOf
  <2> QED
    BY <2>1, <2>2
<1>7. CASE SharedKept /\ AsideOf(Streams \cup Requests)
  BY <1>2, <1>7 DEF AsideOf
<1>8. CASE SystemStep
  BY <1>3, <1>5, <1>6, <1>7, <1>8, LinksAside DEF SystemStep, PumpCut, ConnectStep
<1>9. CASE OutsideStep
  BY <1>4, <1>5, <1>6, <1>7, <1>9, LinksAside DEF OutsideStep
<1> QED
  BY <1>7, <1>8, <1>9, CallersAside

-----------------------------------------------------------------------------
(* What the requests wait for                                              *)

\* What holds of a request that stays where it is stays so, whatever the
\* streams do.
LEMMA AskStays ==
  ASSUME IdsOfTheirOwn, PlacesInv, LinksInv, FollowsIInv, [CallersNext]_allVars,
         NEW q \in Requests, AskInv(q),
         phase'[q] = phase[q] /\ waits'[q] = waits[q] /\ at'[q] = at[q],
         name'[q] = name[q], promised'[q] = promised[q]
  PROVE  AskInv(q)'
<1>1. Grows
  BY GrowsNext
<1>2. phase[q] \in {"resolved", "required"} => Undone(waits[q])' \/ \E f \in follows' : f.owner = waits[q] /\ f.conn = at[q]
  <2>1. SUFFICES ASSUME phase[q] \in {"resolved", "required"}
                 PROVE  Undone(waits[q])' \/ \E f \in follows' : f.owner = waits[q] /\ f.conn = at[q]
    OBVIOUS
  <2>2. waits[q] \in Streams
    BY <2>1 DEF AskInv
  <2>3. CASE Undone(waits[q])
    <3>1. Undone(waits[q])'
      <4>1. \A s \in Streams : Undone(s) => Undone(s)'
        BY UndoneStays
      <4>2. \A s \in Streams : Undone(s)' <=> (s \in cancelled' \/ fetch'[s] \in {"failed", "over"} \/ Broken')
        BY DEF Undone
      <4>3. Undone(waits[q])' <=> (waits'[q] \in cancelled' \/ fetch'[waits'[q]] \in {"failed", "over"} \/ Broken')
        BY DEF Undone
      <4> QED
        BY <2>2, <2>3, <4>1, <4>2, <4>3
    <3> QED
      BY <3>1
  <2>4. ASSUME NEW f \in follows, f.owner = waits[q], f.conn = at[q]
        PROVE  Undone(waits[q])' \/ \E g \in follows' : g.owner = waits[q] /\ g.conn = at[q]
    <3>1. FollowKept(f) \/ Undone(f.owner)'
      BY FollowsKept
    <3>2. CASE FollowKept(f)
      BY <2>4, <3>2 DEF FollowKept
    <3>3. CASE Undone(f.owner)'
      BY <2>4, <3>3 DEF Undone
    <3> QED
      BY <3>1, <3>2, <3>3
  <2> QED
    BY <2>1, <2>3, <2>4 DEF AskInv
<1>3. phase[q] = "settled" => phase'[waits[q]] = "following"
  BY <1>1 DEF AskInv, Grows
<1>4. promised[q] # NoStream => phase'[promised[q]] # "idle"
  BY <1>1 DEF AskInv, Grows
<1>5. phase[q] \in {"resolved", "required"} => (Undone(waits[q]) \/ \E f \in follows : f.owner = waits[q] /\ f.conn = at[q])'
  BY <1>2 DEF Undone
<1> QED
  BY <1>3, <1>4, <1>5 DEF AskInv

\* Who has a connection, while none was lost, has the same one.
LEMMA SameConnection ==
  ASSUME LinksInv, ~ Broken, NEW t \in Tasks, NEW u \in Tasks,
         phase[t] \in Linked, phase[u] \in Linked
  PROVE  at[t] = at[u]
<1>1. /\ at[t] \in Conns /\ link[at[t]] # "none"
      /\ at[u] \in Conns /\ link[at[u]] # "none"
  BY Numbered DEF LinksInv
<1>2. link[at[t]] \in {"open", "connecting"} /\ link[at[u]] \in {"open", "connecting"}
  BY <1>1 DEF Broken, LinksInv, LinkStates
<1> QED
  BY <1>1, <1>2 DEF LinksInv, OneConnection

\* A call of the runtime that has reached its follow has it before it, or has
\* an excuse.
LEMMA ReachesRightly ==
  ASSUME IdsOfTheirOwn, PlacesInv, LinksInv, FollowsIInv, AsksInv, NEW q \in Requests,
         Require(q) \/ Fetched(q), phase'[q] = "required"
  PROVE  /\ waits'[q] \in Streams
         /\ Undone(waits'[q]) \/ \E f \in follows : f.owner = waits'[q] /\ f.conn = at[q]
<1>1. q \in Tasks /\ q \in DOMAIN phase /\ q \in DOMAIN waits /\ AskInv(q)
  BY CallersApart DEF PlacesInv, AsksInv
<1>2. CASE Require(q)
  <2>1. /\ phase[q] = "resolved"
        /\ \E f \in FollowOf(at[q], IdOf[waits[q]]) : f.remote # NoStream /\ waits'[q] = f.remote
    BY <1>1, <1>2 DEF Require, GoesTo
  <2>2. PICK f \in FollowOf(at[q], IdOf[waits[q]]) : f.remote # NoStream /\ waits'[q] = f.remote
    BY <2>1
  <2>3. f \in follows /\ f.conn = at[q] /\ f.remote = f.owner /\ f.owner \in Streams
    BY <2>2 DEF FollowOf, FollowsIInv, FollowsInv, FollowStates
  <2> QED
    BY <2>2, <2>3
<1>3. CASE Fetched(q)
  <2>1. /\ phase[q] = "joined" /\ fetch[waits[q]] \in {"pumping", "over"} /\ waits' = waits
    BY <1>1, <1>3 DEF Fetched, GoesTo, SetupDone
  <2>2. waits[q] \in Streams
    BY <1>1, <2>1 DEF AskInv
  <2>3. CASE fetch[waits[q]] = "over"
    BY <2>1, <2>2, <2>3 DEF Undone
  <2>4. ASSUME fetch[waits[q]] = "pumping", ~ Undone(waits[q])
        PROVE  \E f \in follows : f.owner = waits[q] /\ f.conn = at[q]
    <3>1. PICK f \in follows : f.owner = waits[q]
      BY <2>2, <2>4 DEF FollowsIInv, PumpsInv, Undone
    <3>2. f.conn = at[waits[q]]
      BY <3>1 DEF FollowsIInv, FollowsInv
    <3>3. phase[waits[q]] \in Linked /\ phase[q] \in Linked
      BY <2>1, <2>2, <2>4, Pumping DEF FollowsIInv, Linked
    <3>4. at[waits[q]] = at[q]
      BY <1>1, <2>2, <2>4, <3>3, SameConnection, CallersApart DEF Undone
    <3> QED
      BY <3>1, <3>2, <3>4
  <2> QED
    BY <2>1, <2>2, <2>3, <2>4
<1> QED
  BY <1>2, <1>3

\* The step of a request
LEMMA AskMoves ==
  ASSUME IdsOfTheirOwn, PlacesInv, LinksInv, FollowsIInv, IntentsInv, AsksInv, NEW q \in Requests,
         RequestStep(q) \/ DropRequest(q) \/ \E n \in Asked : Ask(q, n)
  PROVE  /\ AskInv(q)' /\ DOMAIN promised' = Requests
         /\ name' \in [Requests -> Names \cup {NoName}]
         /\ \A r \in Requests \ {q} : name'[r] = name[r] /\ promised'[r] = promised[r]
<1>1. /\ q \in Tasks /\ DOMAIN phase = Tasks /\ DOMAIN waits = Tasks
      /\ AskInv(q) /\ name \in [Requests -> Names \cup {NoName}] /\ DOMAIN promised = Requests
  BY CallersApart DEF PlacesInv, AsksInv
<1>2. \A s \in Streams : phase'[s] = phase[s]
  <2>1. CASE Resolve(q)
    BY <2>1, ResolveIs, CallersApart DEF PlacesInv
  <2>2. CASE ~ Resolve(q)
    BY <2>2, RequestsAside DEF RequestStep, AsideOf
  <2> QED
    BY <2>1, <2>2
\* Only a request that is made has a name and a promise of its own.
<1>3. ASSUME NEW n \in Asked, Ask(q, n)
      PROVE  /\ AskInv(q)' /\ DOMAIN promised' = Requests
             /\ name' \in [Requests -> Names \cup {NoName}]
             /\ \A r \in Requests \ {q} : name'[r] = name[r] /\ promised'[r] = promised[r]
  <2>1. /\ phase[q] = "idle" /\ phase'[q] = "spawned" /\ waits' = waits
        /\ name' = [name EXCEPT ![q] = n]
        /\ promised' = promised \/ \E s \in Meant(n) : promised' = [promised EXCEPT ![q] = s]
    BY <1>1, <1>3 DEF Ask, GoesTo
  <2>2. n \in Names /\ name'[q] = n
    BY <1>1, <2>1, ChainAssumption
  <2>3. promised[q] = NoStream /\ waits[q] = NoStream
    BY <1>1, <2>1 DEF AskInv
  <2>4. promised'[q] # NoStream =>
          /\ promised'[q] \in Streams /\ phase'[promised'[q]] # "idle"
          /\ n \in Aliases \/ n = IdOf[promised'[q]]
    <3>1. promised'[q] = promised[q] \/ promised'[q] \in Meant(n)
      BY <1>1, <2>1
    <3>2. \A s \in Meant(n) : /\ s \in Streams /\ phase[s] # "idle"
                              /\ n \in Aliases \/ n = IdOf[s]
      BY DEF Meant
    <3> QED
      BY <1>2, <2>3, <3>1, <3>2
  <2>5. AskInv(q)'
    BY <2>1, <2>2, <2>3, <2>4 DEF AskInv
  <2> QED
    BY <1>1, <2>1, <2>2, <2>5
<1>4. ASSUME UNCHANGED <<name, promised>>,
             phase'[q] \in {"idle", "spawned", "waiting", "connected"} =>
               waits'[q] = waits[q] /\ phase[q] \in {"spawned", "waiting", "connected"},
             phase'[q] # "idle",
             phase'[q] \in {"awaiting", "settled", "resolved", "joined", "required"} =>
               waits'[q] \in Streams,
             phase'[q] = "settled" => phase[waits'[q]] = "following",
             phase'[q] = "required" => q \in RuntimeCalls,
             phase'[q] \in {"resolved", "required"} =>
               Undone(waits[q])' \/ \E f \in follows' : f.owner = waits'[q] /\ f.conn = at'[q]
      PROVE  /\ AskInv(q)' /\ DOMAIN promised' = Requests
             /\ name' \in [Requests -> Names \cup {NoName}]
             /\ \A r \in Requests \ {q} : name'[r] = name[r] /\ promised'[r] = promised[r]
  <2>1. Undone(waits[q])' <=> waits'[q] \in cancelled' \/ fetch'[waits'[q]] \in {"failed", "over"} \/ Broken'
    BY DEF Undone
  <2> QED
    BY <1>1, <1>2, <1>4, <2>1 DEF AskInv, Undone
<1>5. CASE Connect(q)
  <2>1. SharedKept /\ phase[q] = "spawned" /\ phase'[q] \in {"refused", "connected", "waiting"}
    BY <1>1, <1>5, ConnectMoves DEF Moved
  <2> QED
    BY <1>4, <2>1 DEF SharedKept
<1>6. CASE ConnectionReady(q)
  <2>1. /\ phase[q] = "waiting" /\ phase'[q] \in {"refused", "connected"}
        /\ UNCHANGED <<waits, name, promised>>
    BY <1>1, <1>6 DEF ConnectionReady, Refuse, GoesTo, askVars
  <2> QED
    BY <1>4, <2>1
<1>7. CASE Resolve(q)
  <2>1. UNCHANGED <<name, promised, at>>
    BY <1>7, ResolveIs
  <2>2. ASSUME NEW f \in Hits(at[q], name[q]), GoesTo(q, "resolved"),
               waits' = [waits EXCEPT ![q] = f.owner]
        PROVE  /\ phase'[q] = "resolved" /\ waits'[q] \in Streams
               /\ \E g \in follows' : g.owner = waits'[q] /\ g.conn = at'[q]
    <3>1. f \in follows /\ f.conn = at[q]
      BY DEF Hits
    <3>2. phase'[q] = "resolved" /\ waits'[q] = f.owner
      BY <1>1, <2>2 DEF GoesTo
    <3>3. f.owner \in Streams
      BY <3>1 DEF FollowsIInv, FollowsInv, FollowStates
    <3>4. FollowKept(f)
      BY <1>7, <3>1, ResolvedKept
    <3> QED
      BY <2>1, <3>1, <3>2, <3>3, <3>4 DEF FollowKept
  <2>3. ASSUME NEW s \in starts, GoesTo(q, "awaiting"), waits' = [waits EXCEPT ![q] = s]
        PROVE  phase'[q] = "awaiting" /\ waits'[q] \in Streams
    BY <1>1, <2>3 DEF GoesTo, IntentsInv
  <2>4. CASE GoesTo(q, "refused")
    BY <1>1, <1>4, <2>1, <2>4 DEF GoesTo
  <2>5. \/ \E f \in Hits(at[q], name[q]) : GoesTo(q, "resolved") /\ waits' = [waits EXCEPT ![q] = f.owner]
        \/ GoesTo(q, "awaiting") /\ \E s \in starts : waits' = [waits EXCEPT ![q] = s]
        \/ GoesTo(q, "refused")
    BY <1>7 DEF Resolve
  <2> QED
    BY <1>4, <2>1, <2>2, <2>3, <2>4, <2>5
<1>8. CASE StartSettled(q)
  <2>1. /\ phase[q] = "awaiting" /\ UNCHANGED <<waits, name, promised>>
        /\ \/ phase'[q] = "refused"
           \/ phase'[q] = "settled" /\ phase[waits[q]] = "following"
    BY <1>1, <1>8 DEF StartSettled, GoesTo, askVars
  <2>2. waits[q] \in Streams
    BY <1>1, <2>1 DEF AskInv
  <2> QED
    BY <1>4, <2>1, <2>2
<1>9. CASE Require(q) \/ Fetched(q)
  <2>1. UNCHANGED <<name, promised, at, follows, cancelled, fetch, link>>
    BY <1>9 DEF Require, Fetched, askVars, tableVars, connVars
  <2>2. \/ phase'[q] \in {"sent", "refused"}
        \/ phase'[q] = "joined" /\ waits'[q] \in setups
        \/ phase'[q] = "required" /\ q \in RuntimeCalls
    BY <1>1, <1>9 DEF Require, Fetched, Reached, GoesTo, SetupOf
  <2>3. setups \subseteq Streams
    BY DEF FollowsIInv, SetupsInv
  <2>4. ASSUME phase'[q] = "required"
        PROVE  /\ waits'[q] \in Streams
               /\ Undone(waits[q])' \/ \E f \in follows' : f.owner = waits'[q] /\ f.conn = at'[q]
    <3>1. /\ waits'[q] \in Streams
          /\ Undone(waits'[q]) \/ \E f \in follows : f.owner = waits'[q] /\ f.conn = at[q]
      BY <1>9, <2>4, ReachesRightly
    <3>2. Undone(waits[q])' <=> waits'[q] \in cancelled' \/ fetch'[waits'[q]] \in {"failed", "over"} \/ Broken'
      BY DEF Undone
    <3>3. Broken' <=> Broken
      BY <2>1 DEF Broken
    <3> QED
      BY <2>1, <3>1, <3>2, <3>3 DEF Undone
  <2> QED
    BY <1>4, <2>1, <2>2, <2>3, <2>4
<1>10. CASE FollowWithRuntime(q) \/ DropRequest(q)
  <2>1. phase'[q] \in {"sent", "refused", "dropped"} /\ UNCHANGED <<name, promised>>
    BY <1>1, <1>10 DEF FollowWithRuntime, DropRequest, GoesTo, askVars
  <2> QED
    BY <1>4, <2>1
<1> QED
  BY <1>3, <1>5, <1>6, <1>7, <1>8, <1>9, <1>10 DEF RequestStep

\* In every step
LEMMA AsksNext ==
  ASSUME IdsOfTheirOwn, PlacesInv, LinksInv, FollowsIInv, IntentsInv, AsksInv,
         [CallersNext]_allVars
  PROVE  AsksInv'
<1> USE CallersApart
<1>1. ASSUME AsideOf(Requests), UNCHANGED <<name, promised>>
      PROVE  AsksInv'
  <2>1. \A q \in Requests : AskInv(q)'
    BY <1>1, AskStays DEF AsksInv, AsideOf
  <2> QED
    BY <1>1, <2>1 DEF AsksInv
<1>2. ASSUME NEW q \in Requests,
             RequestStep(q) \/ DropRequest(q) \/ \E n \in Asked : Ask(q, n)
      PROVE  AsksInv'
  <2>1. /\ AskInv(q)' /\ DOMAIN promised' = Requests
        /\ name' \in [Requests -> Names \cup {NoName}]
        /\ \A r \in Requests \ {q} : name'[r] = name[r] /\ promised'[r] = promised[r]
    BY <1>2, AskMoves
  <2>2. AsideOf(Requests \ {q})
    <3>1. CASE Resolve(q)
      BY <3>1, ResolveIs DEF PlacesInv, AsideOf
    <3>2. CASE ~ Resolve(q)
      BY <1>2, <3>2, RequestsAside DEF RequestStep, AsideOf
    <3> QED
      BY <3>1, <3>2
  <2>3. \A r \in Requests \ {q} : AskInv(r)'
    BY <2>1, <2>2, AskStays DEF AsksInv, AsideOf
  <2>4. \A r \in Requests : AskInv(r)'
    BY <2>1, <2>3
  <2>5. Names' = Names
    BY DEF Names, Ids
  <2> QED
    BY <2>1, <2>4, <2>5 DEF AsksInv
<1>3. ASSUME NEW s \in Streams,
             StartStep(s) \/ Subscribe(s) \/ SetupStep(s) \/ PumpStops(s) \/ PumpAborted(s)
             \/ DropStream(s)
      PROVE  AsksInv'
  <2>1. CASE StartStep(s)
    BY <1>1, <2>1, StartsGoOn DEF AsideOf
  <2>2. CASE Subscribe(s)
    BY <1>1, <2>2 DEF Subscribe, GoesTo, PlacesInv, AsideOf, askVars
  <2>3. CASE SetupStep(s) \/ PumpStops(s) \/ PumpAborted(s) \/ DropStream(s)
    BY <1>1, <2>3 DEF SetupStep, SendFollow, FollowAnswered, PumpStops, PumpAborted, DropStream,
       taskVars, askVars, AsideOf
  <2> QED
    BY <1>3, <2>1, <2>2, <2>3
<1>4. CASE SharedKept /\ AsideOf(Streams \cup Requests)
  BY <1>1, <1>4 DEF SharedKept, AsideOf
<1>5. CASE SystemStep
  BY <1>2, <1>3, <1>4, <1>5, LinksAside DEF SystemStep, PumpCut, ConnectStep
<1>6. CASE OutsideStep
  BY <1>2, <1>3, <1>4, <1>6, LinksAside DEF OutsideStep
<1> QED
  BY <1>4, <1>5, <1>6, CallersAside

-----------------------------------------------------------------------------
(* Who is refused                                                          *)

Excused(q) ==
  \/ Undone(promised[q])
  \/ waits[q] \notin {NoStream, promised[q]}
  \/ q \in RuntimeCalls /\ promised[q] \notin WithRuntime
  \/ name[q] \in Aliases /\
       \/ \E s \in Streams \ {promised[q]} : phase[s] # "idle"
       \/ \E f \in follows : f.owner = promised[q] /\ f.alias \notin {NoName, name[q]}

\* The property, with its excuses named
LEMMA AwaitIs ==
  RequestsAwaitSetup <=>
    \A q \in Requests : phase[q] = "refused" /\ promised[q] # NoStream => Excused(q)
BY DEF RequestsAwaitSetup, Excused, Undone, Broken

\* An excuse stays one.
LEMMA ExcusedStays ==
  ASSUME IdsOfTheirOwn, PlacesInv, LinksInv, FollowsIInv, [CallersNext]_allVars,
         NEW q \in Requests, promised[q] \in Streams, Excused(q),
         waits'[q] = waits[q], name'[q] = name[q], promised'[q] = promised[q]
  PROVE  Excused(q)'
<1> DEFINE p == promised[q]
<1>0. Grows /\ p \in Streams
  BY GrowsNext
<1>1. Undone(p)' <=> Undone(promised[q])'
  BY DEF Undone
<1>2. CASE Undone(p)
  BY <1>0, <1>1, <1>2, UndoneStays DEF Excused
<1>3. CASE waits[q] \notin {NoStream, p}
  BY <1>3 DEF Excused
<1>4. CASE name[q] \in Aliases /\ \E s \in Streams \ {p} : phase[s] # "idle"
  BY <1>0, <1>4 DEF Excused, Grows
<1>5. ASSUME name[q] \in Aliases, NEW f \in follows, f.owner = p, f.alias \notin {NoName, name[q]}
      PROVE  Excused(q)'
  <2>1. CASE FollowKept(f)
    BY <1>5, <2>1 DEF Excused, FollowKept
  <2>2. CASE Undone(f.owner)'
    <3>1. Undone(p)'
      BY <1>5, <2>2 DEF Undone
    <3> QED
      BY <1>1, <3>1 DEF Excused
  <2> QED
    BY <2>1, <2>2, FollowsKept
<1>6. CASE q \in RuntimeCalls /\ p \notin WithRuntime
  BY <1>6 DEF Excused
<1> QED
  BY <1>2, <1>3, <1>4, <1>5, <1>6 DEF Excused

\* A request that names the only stream finds its follow, when it is there.
LEMMA FollowFound ==
  ASSUME IdsOfTheirOwn, PlacesInv, LinksInv, FollowsIInv, NEW q \in Requests, NEW f \in follows,
         f.conn = at[q], f.alias \in {NoName, name[q]},
         \/ name[q] = IdOf[f.owner]
         \/ \A s \in Streams \ {f.owner} : phase[s] = "idle"
  PROVE  Hits(at[q], name[q]) # {}
<1> DEFINE here  == {g \in follows : g.conn = at[q]}
           exact == {g \in here : IdOf[g.owner] = name[q]}
           bound == {g \in here : g.alias = name[q]}
           free  == {g \in here : g.alias = NoName}
<1>1. f \in here
  OBVIOUS
<1>2. CASE name[q] = IdOf[f.owner]
  BY <1>1, <1>2 DEF Hits
<1>3. CASE \A s \in Streams \ {f.owner} : phase[s] = "idle"
  <2>1. \A g \in follows : g.owner = f.owner
    BY <1>3 DEF FollowsIInv, FollowsInv, FollowStates, Early
  <2>2. here = {f}
    BY <1>1, <2>1 DEF FollowsIInv, FollowsInv
  <2>3. CASE f.alias = name[q]
    BY <1>1, <2>3 DEF Hits
  <2>4. CASE f.alias = NoName
    <3>1. free = {f}
      BY <2>2, <2>4
    <3>2. Cardinality(free) = 1
      BY <3>1, FS_Singleton
    <3> HIDE DEF here, exact, bound, free
    <3>3. free # {}
      BY <3>1
    <3> QED
      BY <3>2, <3>3 DEF Hits, here, exact, bound, free
  <2> QED
    BY <2>3, <2>4
<1> QED
  BY <1>2, <1>3

\* Neither does it miss the start that is under way.
LEMMA StartFound ==
  ASSUME IdsOfTheirOwn, PlacesInv, IntentsInv, NEW q \in Requests, NEW p \in Streams,
         p \in starts, IdOf[p] \in intents, name[q] \in Aliases \/ name[q] = IdOf[p],
         name[q] \in Aliases => \A s \in Streams \ {p} : phase[s] = "idle"
  PROVE  \E s \in starts : IdOf[s] \in Pending(name[q])
<1>1. CASE name[q] = IdOf[p]
  BY <1>1 DEF Pending
<1>2. CASE name[q] \in Aliases
  <2>1. intents = {IdOf[p]}
    BY <1>2 DEF IntentsInv
  <2>2. name[q] \notin intents
    BY <1>2, <2>1, ChainAssumption DEF Ids
  <2>3. Cardinality(intents) = 1
    BY <2>1, FS_Singleton
  <2> QED
    BY <2>2, <2>3 DEF Pending
<1> QED
  BY <1>1, <1>2

\* A request that resolves to nothing has an excuse: the start under way and the
\* follow that is there are found.
LEMMA ResolvesRightly ==
  ASSUME IdsOfTheirOwn, PlacesInv, LinksInv, FollowsIInv, IntentsInv, StartsInv, AsksInv,
         NEW q \in Requests, Resolve(q), phase'[q] = "refused", promised[q] # NoStream
  PROVE  Excused(q) /\ waits' = waits
<1> DEFINE p == promised[q]
<1>1. /\ phase[q] \in {"connected", "settled"} /\ Hits(at[q], name[q]) = {} /\ waits' = waits
      /\ ~ (phase[q] = "connected" /\ \E s \in starts : IdOf[s] \in Pending(name[q]))
  <2>1. q \in DOMAIN phase
    BY CallersApart DEF PlacesInv
  <2> QED
    BY <2>1 DEF Resolve, GoesTo
<1>2. /\ AskInv(q) /\ p \in Streams /\ phase[p] # "idle"
      /\ name[q] \in Aliases \/ name[q] = IdOf[p]
  BY DEF AsksInv, AskInv
<1>3. SUFFICES ASSUME ~ Excused(q)
               PROVE  FALSE
  BY <1>1
<1>4. /\ ~ Undone(p) /\ waits[q] \in {NoStream, p}
      /\ name[q] \in Aliases => /\ \A s \in Streams \ {p} : phase[s] = "idle"
                                /\ \A f \in follows : f.owner = p => f.alias \in {NoName, name[q]}
  BY <1>3 DEF Excused
<1>5. CASE phase[q] = "connected"
  <2>1. p \in starts /\ IdOf[p] \in intents
    BY <1>2, <1>4 DEF StartsInv, IntentsInv, Undone
  <2> QED
    BY <1>1, <1>2, <1>4, <1>5, <2>1, StartFound
<1>6. CASE phase[q] = "settled"
  <2>1. waits[q] = p /\ phase[p] = "following"
    BY <1>2, <1>4, <1>6, ChainAssumption DEF AskInv
  <2>2. fetch[p] = "pumping" /\ p \notin cancelled /\ ~ Broken
    BY <1>2, <1>4, <2>1 DEF FollowsIInv, FetchInv, Undone
  <2>3. PICK f \in follows : f.owner = p
    BY <1>2, <2>2 DEF FollowsIInv, PumpsInv
  <2>4. f.conn = at[q]
    <3>1. f.conn = at[p]
      BY <2>3 DEF FollowsIInv, FollowsInv
    <3>2. q \in Tasks /\ p \in Tasks /\ phase[q] \in Linked /\ phase[p] \in Linked
      BY <1>2, <1>6, <2>1, CallersApart DEF Linked
    <3> QED
      BY <2>2, <3>1, <3>2, SameConnection
  <2>5. name[q] = IdOf[p] \/ f.alias \in {NoName, name[q]}
    BY <1>2, <1>4, <2>3
  <2>6. CASE name[q] = IdOf[p]
    BY <1>1, <2>3, <2>4, <2>6 DEF Hits
  <2>7. CASE name[q] \in Aliases
    <3>1. f.alias \in {NoName, name[q]} /\ \A s \in Streams \ {f.owner} : phase[s] = "idle"
      BY <1>4, <2>3, <2>7
    <3> QED
      BY <1>1, <2>4, <3>1, FollowFound
  <2> QED
    BY <1>2, <2>6, <2>7
<1> QED
  BY <1>1, <1>5, <1>6

\* Where no poll is interrupted, a follow that was found is not about to be
\* set up: its setup is there, or it is done with.
LEMMA RequiresRightly ==
  ASSUME IdsOfTheirOwn, PlacesInv, LinksInv, FollowsIInv, StartsInv, AsksInv,
         threading = "turns", NEW q \in Requests, Require(q), phase'[q] = "refused"
  PROVE  Excused(q) /\ waits' = waits
<1> DEFINE w == waits[q]
<1>1. /\ phase[q] = "resolved" /\ SetupOf(at[q], IdOf[w]) = {} /\ waits' = waits
  <2>1. q \in DOMAIN phase
    BY CallersApart DEF PlacesInv
  <2> QED
    BY <2>1 DEF Require, Reached, GoesTo
<1>2. /\ w \in Streams /\ (Undone(w) \/ \E f \in follows : f.owner = w /\ f.conn = at[q])
  BY <1>1 DEF AsksInv, AskInv
<1>3. ASSUME NEW f \in follows, f.owner = w, f.conn = at[q]
      PROVE  Undone(w)
  <2>1. at[w] = at[q]
    BY <1>3 DEF FollowsIInv, FollowsInv
  <2>2. w \notin setups
    BY <1>1, <2>1 DEF SetupOf
  <2>3. phase[w] # "registered"
    BY <1>1, <1>2, CallersApart DEF PlacesInv, MidPoll
  <2> QED
    BY <1>3, <2>2, <2>3 DEF FollowsIInv, SetupsInv, Undone
<1>4. Undone(w) /\ w # NoStream
  BY <1>2, <1>3, ChainAssumption
<1>5. CASE w = promised[q]
  BY <1>1, <1>4, <1>5 DEF Excused
<1>6. CASE w # promised[q]
  BY <1>1, <1>4, <1>6 DEF Excused
<1> QED
  BY <1>5, <1>6

\* A call of the runtime is refused when its follow was made without, or is
\* not there any more.
LEMMA RuntimeRightly ==
  ASSUME IdsOfTheirOwn, PlacesInv, FollowsIInv, AsksInv,
         NEW q \in Requests, FollowWithRuntime(q), phase'[q] = "refused"
  PROVE  Excused(q) /\ waits' = waits
<1> DEFINE w == waits[q]
<1>1. /\ phase[q] = "required" /\ waits' = waits
      /\ \A f \in FollowOf(at[q], IdOf[w]) : ~ f.runtime
  <2>1. q \in DOMAIN phase
    BY CallersApart DEF PlacesInv
  <2> QED
    BY <2>1 DEF FollowWithRuntime, GoesTo
<1>2. /\ q \in RuntimeCalls /\ w \in Streams /\ w # NoStream
      /\ Undone(w) \/ \E f \in follows : f.owner = w /\ f.conn = at[q]
  BY <1>1, ChainAssumption DEF AsksInv, AskInv
<1>3. CASE w # promised[q]
  BY <1>1, <1>2, <1>3 DEF Excused
<1>4. CASE w = promised[q] /\ Undone(w)
  BY <1>1, <1>4 DEF Excused
<1>5. ASSUME w = promised[q], NEW f \in follows, f.owner = w, f.conn = at[q]
      PROVE  Excused(q)
  <2>1. f \in FollowOf(at[q], IdOf[w])
    BY <1>5 DEF FollowOf
  <2>2. w \notin WithRuntime
    BY <1>1, <1>5, <2>1 DEF FollowsIInv, FollowsInv
  <2> QED
    BY <1>2, <1>5, <2>2 DEF Excused
<1> QED
  BY <1>1, <1>2, <1>3, <1>4, <1>5

\* Whoever refuses a request, it has an excuse.
LEMMA RefusesRightly ==
  ASSUME IdsOfTheirOwn, PlacesInv, LinksInv, FollowsIInv, IntentsInv, StartsInv, AsksInv,
         threading = "turns", NEW q \in Requests,
         RequestStep(q) \/ DropRequest(q) \/ \E n \in Asked : Ask(q, n),
         phase'[q] = "refused", promised[q] # NoStream
  PROVE  Excused(q) /\ waits' = waits
<1>1. q \in DOMAIN phase /\ q \in Tasks /\ q \notin Streams /\ AskInv(q)
  BY CallersApart DEF PlacesInv, AsksInv
\* The setup, or the start, that the request waited for
<1>2. ASSUME waits[q] \in Streams => Undone(waits[q]), waits[q] \in Streams
      PROVE  Excused(q)
  <2>1. waits[q] # NoStream
    BY <1>2, ChainAssumption
  <2>2. CASE waits[q] = promised[q]
    BY <1>2, <2>2 DEF Excused
  <2>3. CASE waits[q] # promised[q]
    BY <2>1, <2>3 DEF Excused
  <2> QED
    BY <2>2, <2>3
<1>3. CASE Connect(q)
  <2>1. q \in cancelled
    BY <1>1, <1>3, ConnectMoves DEF Moved
  <2> QED
    BY <1>1, <2>1 DEF FollowsIInv, PumpsInv
<1>4. CASE ConnectionReady(q)
  <2>1. phase[q] = "waiting" /\ link[at[q]] = "failed" /\ waits' = waits
    BY <1>1, <1>4 DEF ConnectionReady, GoesTo
  <2>2. at[q] \in Conns
    BY <1>1, <2>1, Numbered DEF LinksInv, Linked
  <2> QED
    BY <2>1, <2>2 DEF Excused, Undone, Broken
<1>5. CASE Resolve(q)
  BY <1>5, ResolvesRightly
<1>6. CASE StartSettled(q)
  <2>1. phase[q] = "awaiting" /\ phase[waits[q]] = "failed" /\ waits' = waits
    BY <1>1, <1>6 DEF StartSettled, GoesTo
  <2> QED
    BY <1>1, <1>2, <2>1 DEF AskInv, StartsInv
<1>7. CASE Require(q)
  BY <1>7, RequiresRightly
<1>8. CASE Fetched(q)
  <2>1. phase[q] = "joined" /\ fetch[waits[q]] = "failed" /\ waits' = waits
    BY <1>1, <1>8 DEF Fetched, Reached, GoesTo
  <2> QED
    BY <1>1, <1>2, <2>1 DEF AskInv, Undone
<1>9. CASE FollowWithRuntime(q)
  BY <1>9, RuntimeRightly
<1>10. CASE DropRequest(q) \/ \E n \in Asked : Ask(q, n)
  BY <1>1, <1>10 DEF DropRequest, Ask, GoesTo
<1> QED
  BY <1>3, <1>4, <1>5, <1>6, <1>7, <1>8, <1>9, <1>10 DEF RequestStep

\* In every step
LEMMA AwaitNext ==
  ASSUME IdsOfTheirOwn, PlacesInv, LinksInv, FollowsIInv, IntentsInv, StartsInv, AsksInv,
         RequestsAwaitSetupInTurns, [CallersNext]_allVars
  PROVE  RequestsAwaitSetupInTurns'
<1> USE CallersApart
<1>0. \A q \in Requests : promised[q] # NoStream => promised[q] \in Streams
  BY DEF AsksInv, AskInv
<1>1. RequestsAwaitSetup' <=>
        \A q \in Requests : phase'[q] = "refused" /\ promised'[q] # NoStream => Excused(q)'
  BY DEF RequestsAwaitSetup, Excused, Undone, Broken
<1>2. ASSUME NEW q \in Requests, threading = "turns",
             phase'[q] = phase[q], waits'[q] = waits[q],
             name'[q] = name[q], promised'[q] = promised[q]
      PROVE  phase'[q] = "refused" /\ promised'[q] # NoStream => Excused(q)'
  <2>1. RequestsAwaitSetup
    BY <1>2 DEF RequestsAwaitSetupInTurns
  <2> QED
    BY <1>0, <1>2, <2>1, AwaitIs, ExcusedStays
<1>3. ASSUME AsideOf(Requests), UNCHANGED <<threading, name, promised>>
      PROVE  RequestsAwaitSetupInTurns'
  BY <1>1, <1>2, <1>3 DEF RequestsAwaitSetupInTurns, AsideOf
<1>4. ASSUME NEW q \in Requests,
             RequestStep(q) \/ DropRequest(q) \/ \E n \in Asked : Ask(q, n)
      PROVE  RequestsAwaitSetupInTurns'
  <2>1. AsideOf(Requests \ {q}) /\ threading' = threading
    <3>1. CASE Resolve(q)
      BY <3>1, ResolveIs DEF PlacesInv, AsideOf
    <3>2. CASE ~ Resolve(q)
      BY <1>4, <3>2, RequestsAside DEF RequestStep, AsideOf, TablesKept
    <3> QED
      BY <3>1, <3>2
  <2>2. \A r \in Requests \ {q} : name'[r] = name[r] /\ promised'[r] = promised[r]
    BY <1>4, AskMoves
  <2>3. ASSUME threading = "turns", phase'[q] = "refused", promised'[q] # NoStream
        PROVE  Excused(q)'
    <3>1. name' = name /\ promised' = promised
      <4>1. ASSUME NEW n \in Asked, Ask(q, n)
            PROVE  FALSE
        BY <2>3, <4>1 DEF Ask, GoesTo, PlacesInv
      <4>2. CASE Resolve(q)
        BY <4>2, ResolveIs
      <4>3. CASE Connect(q)
        BY <4>3, ConnectMoves DEF SharedKept
      <4> QED
        BY <1>4, <4>1, <4>2, <4>3 DEF RequestStep, ConnectionReady, StartSettled, Require, Fetched,
           FollowWithRuntime, DropRequest, askVars
    <3>2. Excused(q) /\ waits' = waits
      BY <1>4, <2>3, <3>1, RefusesRightly
    <3> QED
      BY <1>0, <2>3, <3>1, <3>2, ExcusedStays
  <2>4. ASSUME threading = "turns", NEW r \in Requests \ {q}, phase'[r] = "refused",
               promised'[r] # NoStream
        PROVE  Excused(r)'
    BY <1>2, <2>1, <2>2, <2>4 DEF AsideOf
  <2> QED
    BY <1>1, <2>1, <2>3, <2>4 DEF RequestsAwaitSetupInTurns
<1>5. ASSUME NEW s \in Streams,
             StartStep(s) \/ Subscribe(s) \/ SetupStep(s) \/ PumpStops(s) \/ PumpAborted(s)
             \/ DropStream(s)
      PROVE  RequestsAwaitSetupInTurns'
  <2>1. CASE StartStep(s)
    BY <1>3, <2>1, StartsGoOn DEF AsideOf
  <2>2. CASE Subscribe(s)
    BY <1>3, <2>2 DEF Subscribe, GoesTo, PlacesInv, AsideOf, askVars
  <2>3. CASE SetupStep(s) \/ PumpStops(s) \/ PumpAborted(s) \/ DropStream(s)
    BY <1>3, <2>3 DEF SetupStep, SendFollow, FollowAnswered, PumpStops, PumpAborted, DropStream,
       taskVars, askVars, AsideOf
  <2> QED
    BY <1>5, <2>1, <2>2, <2>3
<1>6. CASE SharedKept /\ AsideOf(Streams \cup Requests)
  BY <1>3, <1>6 DEF SharedKept, AsideOf
<1>7. CASE SystemStep
  BY <1>4, <1>5, <1>6, <1>7, LinksAside DEF SystemStep, PumpCut, ConnectStep
<1>8. CASE OutsideStep
  BY <1>4, <1>5, <1>6, <1>8, LinksAside DEF OutsideStep
<1> QED
  BY <1>6, <1>7, <1>8, CallersAside

-----------------------------------------------------------------------------
(* What the callers of a chain connection share is what there is.          *)

LEMMA PlacesInit ==
  CallersInit => PlacesInv /\ LinksInv
<1> SUFFICES ASSUME CallersInit
             PROVE  PlacesInv /\ LinksInv
  OBVIOUS
<1> USE DEF CallersInit, ChainInit
<1>1. PlacesInv
  BY CallersApart DEF PlacesInv, StartSteps, Early, AskSteps, BroadcastSteps, StopSteps,
     UserSteps, MidPoll
<1>2. Made(0)
  BY DEF Made, Conns
<1>3. 0 \in 0..MaxConns
  BY Numbered
<1>4. LinksInv
  BY <1>2, <1>3, Numbered DEF LinksInv, OneConnection, LinkStates, Linked
<1> QED
  BY <1>1, <1>4

LEMMA OthersInit ==
  CallersInit => HandlesInv /\ ClientsInv
<1> SUFFICES ASSUME CallersInit
             PROVE  HandlesInv /\ ClientsInv
  OBVIOUS
<1> USE DEF CallersInit, ChainInit
<1>1. HandlesInv
  BY CallersApart DEF HandlesInv, HandlesLast
<1>2. ClientsInv
  BY CallersApart, Bundled DEF ClientsInv
<1> QED
  BY <1>1, <1>2

LEMMA FollowsInit ==
  CallersInit => FollowsIInv /\ IntentsInv /\ StartsInv /\ AsksInv /\ RequestsAwaitSetupInTurns
<1> SUFFICES ASSUME CallersInit
             PROVE  FollowsIInv /\ IntentsInv /\ StartsInv /\ AsksInv /\ RequestsAwaitSetupInTurns
  OBVIOUS
<1> USE CallersApart DEF CallersInit, ChainInit
<1>1. FollowsIInv
  BY DEF FollowsIInv, FetchInv, FollowsInv, SetupsInv, PumpsInv, FetchStates, Early
<1>2. IntentsInv /\ StartsInv
  BY DEF IntentsInv, StartsInv
<1>3. AsksInv
  BY DEF AsksInv, AskInv
<1>4. RequestsAwaitSetupInTurns
  BY DEF RequestsAwaitSetupInTurns, RequestsAwaitSetup
<1> QED
  BY <1>1, <1>2, <1>3, <1>4

(* Whoever comes, and in whatever order: an open connection is the one in  *)
(* the table and callers share one attempt (connection_for); a handle can  *)
(* be used until its operation was stopped (transaction_operations); and   *)
(* the client in the cache is the one whose backend runs                   *)
(* (invalidate_subxt_connection).  No hypothesis.                          *)
THEOREM CallersSafety ==
  CallersSpec => [](OneConnection /\ HandlesLast /\ OneBackend)
<1> DEFINE Inv == PlacesInv /\ LinksInv /\ HandlesInv /\ ClientsInv
<1>1. CallersInit => Inv
  BY PlacesInit, OthersInit
<1>2. Inv /\ [CallersNext]_allVars => Inv'
  BY PlacesNext, HandlesNext, ClientsNext
<1>3. Inv => OneConnection /\ HandlesLast /\ OneBackend
  BY DEF LinksInv, HandlesInv, ClientsInv, OneBackend
<1> QED
  BY <1>1, <1>2, <1>3, PTL DEF CallersSpec

\* The invariant holds.
LEMMA ChainInductive ==
  ASSUME IdsOfTheirOwn
  PROVE  CallersSpec => []ChainIInv
<1>1. CallersInit => ChainIInv
  BY PlacesInit, OthersInit, FollowsInit DEF ChainIInv
<1>2. ChainIInv /\ [CallersNext]_allVars => ChainIInv'
  BY PlacesNext, HandlesNext, ClientsNext, FollowsNext, IntentsNext, StartsNext, AsksNext,
     AwaitNext DEF ChainIInv
<1> QED
  BY <1>1, <1>2, PTL DEF CallersSpec

(* With follow ids of their own, what the chain runtime keeps for all its  *)
(* callers is what there is: besides the connection, the handles and the   *)
(* clients, a pump that runs has its follow in the table unless it was     *)
(* told to stop or lost its connection, and a stream that was not dropped  *)
(* has its sender there as long as its follow goes on.                     *)
THEOREM SharedStateIsExactHolds ==
  ASSUME IdsOfTheirOwn
  PROVE  CallersSpec => []SharedStateIsExact
<1>1. CallersSpec => []ChainIInv
  BY ChainInductive
<1>2. ChainIInv => SharedStateIsExact
  <2> SUFFICES ASSUME ChainIInv
               PROVE  SharedStateIsExact
    OBVIOUS
  <2> USE DEF ChainIInv
  <2>1. OneConnection /\ HandlesLast /\ OneBackend
    BY DEF LinksInv, HandlesInv, ClientsInv, OneBackend
  <2>2. FollowsMatchStreams
    BY DEF FollowsIInv, FetchInv, PumpsInv, FollowsMatchStreams
  <2> QED
    BY <2>1, <2>2 DEF SharedStateIsExact, TablesAreExact
<1> QED
  BY <1>1, <1>2, PTL

(* With follow ids of their own, and where no poll is interrupted, a       *)
(* request that came while the follow it names was live is not told that   *)
(* there is none (ensure_follow_context, require_remote_follow), but for   *)
(* the excuses the property names.                                         *)
THEOREM RequestsAwaitSetupHolds ==
  ASSUME IdsOfTheirOwn
  PROVE  CallersSpec => []RequestsAwaitSetupInTurns
<1>1. CallersSpec => []ChainIInv
  BY ChainInductive
<1>2. ChainIInv => RequestsAwaitSetupInTurns
  BY DEF ChainIInv
<1> QED
  BY <1>1, <1>2, PTL

=============================================================================
