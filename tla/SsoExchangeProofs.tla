---------------------------- MODULE SsoExchangeProofs ----------------------------
(***************************************************************************)
(* Proofs about SsoExchange, for any set of calls, any size of the         *)
(* wallet's replay window, and any number of its runs and of faults.       *)
(***************************************************************************)
EXTENDS SsoExchange, TLAPS

-----------------------------------------------------------------------------
(* The inductive invariant.                                                *)

(* What a call is answered with, wherever that is on its way, was executed *)
(* by the wallet.                                                          *)
Executed == executed.before \cup ToSet(executed.now)

AnswerInv ==
  /\ kept.response \in Executed \cup {Goodbye, None}
  /\ \A c \in Calls : ToSet(wait[c].peer) \subseteq Executed \cup {Goodbye}
  /\ \A c \in Calls : wait[c].pending => c \in Executed
  /\ serves.step = "respond" => serves.id \in Executed
  /\ AnswersAreTheCalls

(* A statement has an expiry of its own from before it is submitted, and   *)
(* the one that takes leave is the last of all.                            *)
SenderInv ==
  /\ farewell # "no" => ~connected
  /\ kept.request.id = Goodbye =>
       farewell = "sent" /\ \A c \in Calls : priority[c] < kept.request.priority
  /\ kept.request.id \in Calls =>
       kept.request.priority = priority[kept.request.id] /\ kept.request.priority > 0
  /\ \A c \in Calls :
       /\ pc[c] \in {"idle", "armed"} => priority[c] = 0
       /\ pc[c] \in {"own", "peer", "waiting"} => priority[c] > 0
       /\ sending[c] # "unsent" => priority[c] > 0
  /\ \A c, d \in Calls : c # d /\ priority[c] = priority[d] => priority[c] = 0

(* a was submitted no later than b; and x was, so that the store keeps it  *)
(* or what replaced it.                                                    *)
Older(a, b) == b = Goodbye \/ (a # Goodbye /\ priority[a] <= priority[b])
Known(x) == IF x = Goodbye THEN kept.request.id = Goodbye
            ELSE 0 < priority[x] /\ priority[x] <= kept.request.priority

(* The wallet is delivered the requests in the order they were submitted,  *)
(* and has gone through them in that order.                                *)
DeliveredInv ==
  \A x \in ToSet(inbox) \cup ToSet(served) \cup ToSet(executed.now) : Known(x)

QueueInv ==
  /\ \A i, j \in 1 .. Len(inbox) : i <= j => Older(inbox[i], inbox[j])
  /\ served # << >> => \A x \in ToSet(inbox) : Older(Last(served), x)
  /\ serves.step # "take" => served # << >> /\ serves.id = Last(served)

RunInv ==
  /\ \A x \in ToSet(executed.now) : served # << >> /\ Older(x, Last(served))
  /\ serves.step \in {"ack", "answer"} => serves.id \notin ToSet(executed.now)
  /\ ExecutedOnceARun

WalletInv == DeliveredInv /\ QueueInv /\ RunInv

IInv == TypeOK /\ AnswerInv /\ SenderInv /\ WalletInv

-----------------------------------------------------------------------------
(* Sequences.                                                              *)

LEMMA SetOfAppend ==
  ASSUME NEW S, NEW s \in Seq(S), NEW x \in S
  PROVE  ToSet(Append(s, x)) = ToSet(s) \cup {x}
<1> DEFINE t == Append(s, x)
<1>1. t \in Seq(S) /\ Len(t) = Len(s) + 1 /\ Len(s) \in Nat /\ t[Len(s) + 1] = x
      /\ \A i \in 1 .. Len(s) : t[i] = s[i]
  OBVIOUS
<1>2. DOMAIN s = 1 .. Len(s) /\ DOMAIN t = 1 .. Len(s) + 1
  BY <1>1
<1> HIDE DEF t
<1>3. ToSet(t) = ToSet(s) \cup {x}
  BY <1>1, <1>2 DEF ToSet
<1> QED
  BY <1>3 DEF t

LEMMA SetOfTail ==
  ASSUME NEW S, NEW s \in Seq(S), s # << >>
  PROVE  Head(s) \in ToSet(s) /\ ToSet(Tail(s)) \subseteq ToSet(s)
<1> DEFINE t == Tail(s)
<1>1. t \in Seq(S) /\ Len(t) = Len(s) - 1 /\ Len(s) \in Nat \ {0} /\ s[1] = Head(s)
      /\ \A i \in 1 .. Len(t) : t[i] = s[i + 1]
  OBVIOUS
<1>2. DOMAIN s = 1 .. Len(s) /\ DOMAIN t = 1 .. Len(t)
  BY <1>1
<1> HIDE DEF t
<1>3. Head(s) \in ToSet(s) /\ ToSet(t) \subseteq ToSet(s)
  <2>1. ASSUME NEW i \in 1 .. Len(t) PROVE t[i] \in ToSet(s)
    BY <1>1, <1>2 DEF ToSet
  <2> QED
    BY <1>1, <1>2, <2>1 DEF ToSet
<1> QED
  BY <1>3 DEF t

LEMMA SetOfShort ==
  /\ ToSet(<< >>) = {}
  /\ \A x : ToSet(<<x>>) = {x}
BY DEF ToSet

LEMMA SetOfSequence ==
  ASSUME NEW S, NEW s \in Seq(S)
  PROVE  ToSet(s) \subseteq S /\ \A i \in 1 .. Len(s) : s[i] \in ToSet(s)
BY DEF ToSet

LEMMA LastOfAppend ==
  ASSUME NEW S, NEW s \in Seq(S), NEW x \in S
  PROVE  Last(Append(s, x)) = x /\ Append(s, x) # << >>
BY DEF Last

LEMMA LastIsInSet ==
  ASSUME NEW S, NEW s \in Seq(S), s # << >>
  PROVE  Last(s) \in ToSet(s)
<1>1. Len(s) \in 1 .. Len(s)
  OBVIOUS
<1> QED
  BY <1>1, SetOfSequence DEF Last

(* A new element leaves a sequence without repetitions.                    *)
LEMMA InjectiveAppend ==
  ASSUME NEW S, NEW s \in Seq(S), NEW x \in S, IsInjective(s), x \notin ToSet(s)
  PROVE  IsInjective(Append(s, x))
<1> DEFINE t == Append(s, x)
<1>1. t \in Seq(S) /\ Len(t) = Len(s) + 1 /\ Len(s) \in Nat /\ t[Len(s) + 1] = x
      /\ \A i \in 1 .. Len(s) : t[i] = s[i]
  OBVIOUS
<1>2. DOMAIN s = 1 .. Len(s) /\ DOMAIN t = 1 .. Len(s) + 1
  BY <1>1
<1>3. \A i \in 1 .. Len(s) : s[i] # x
  BY SetOfSequence
<1> HIDE DEF t
<1>4. IsInjective(t)
  BY <1>1, <1>2, <1>3 DEF IsInjective
<1> QED
  BY <1>4 DEF t

LEMMA InjectiveTail ==
  ASSUME NEW S, NEW s \in Seq(S), s # << >>, IsInjective(s)
  PROVE  IsInjective(Tail(s))
<1> DEFINE t == Tail(s)
<1>1. t \in Seq(S) /\ Len(t) = Len(s) - 1 /\ Len(s) \in Nat \ {0}
      /\ \A i \in 1 .. Len(t) : t[i] = s[i + 1]
  OBVIOUS
<1>2. DOMAIN s = 1 .. Len(s) /\ DOMAIN t = 1 .. Len(t)
  BY <1>1
<1> HIDE DEF t
<1>3. IsInjective(t)
  BY <1>1, <1>2 DEF IsInjective
<1> QED
  BY <1>3 DEF t

-----------------------------------------------------------------------------
(* Every variable keeps its type.                                          *)

LEMMA ToWalletType ==
  ASSUME inbox \in Seq(Ids), NEW id \in Ids
  PROVE  ToWallet(id) \in Seq(Ids)
BY DEF ToWallet

\* What is delivered and read leaves a wait well formed.
LEMMA WaitTypes ==
  ASSUME NEW w \in Waits
  PROVE  /\ \A own \in Seq(Acks) :
              /\ [w EXCEPT !.own = own] \in Waits
              /\ \A b \in BOOLEAN : [w EXCEPT !.accepted = b, !.own = own] \in Waits
         /\ \A peer \in Seq(Ids) :
              /\ [w EXCEPT !.peer = peer] \in Waits
              /\ \A b \in BOOLEAN : [w EXCEPT !.pending = b, !.peer = peer] \in Waits
BY DEF Waits

LEMMA ReadOwnType ==
  ASSUME NEW w \in Waits, w.own # << >>, NEW id
  PROVE  [w EXCEPT !.accepted = @ \/ Head(w.own).id = id, !.own = Tail(@)] \in Waits
<1>1. Tail(w.own) \in Seq(Acks) /\ w.accepted \in BOOLEAN
  BY DEF Waits
<1>2. PICK b \in BOOLEAN : b = (w.accepted \/ Head(w.own).id = id)
  BY <1>1
<1>3. [w EXCEPT !.accepted = b, !.own = Tail(w.own)] \in Waits
  BY <1>1, WaitTypes
<1> QED
  BY <1>2, <1>3

LEMMA ReadPeerType ==
  ASSUME NEW w \in Waits, w.peer # << >>, NEW id
  PROVE  [w EXCEPT !.pending = @ \/ Head(w.peer) = id, !.peer = Tail(@)] \in Waits
<1>1. Tail(w.peer) \in Seq(Ids) /\ w.pending \in BOOLEAN
  BY DEF Waits
<1>2. PICK b \in BOOLEAN : b = (w.pending \/ Head(w.peer) = id)
  BY <1>1
<1>3. [w EXCEPT !.pending = b, !.peer = Tail(w.peer)] \in Waits
  BY <1>1, WaitTypes
<1> QED
  BY <1>2, <1>3

LEMMA AckedType ==
  ASSUME TypeOK, NEW ack \in Acks
  PROVE  Acked(ack) \in [Calls -> Waits]
<1>1. ASSUME NEW w \in Waits PROVE [w EXCEPT !.own = Append(@, ack)] \in Waits
  <2>1. Append(w.own, ack) \in Seq(Acks)
    BY DEF Waits
  <2> QED
    BY <2>1, WaitTypes
<1> QED
  BY <1>1 DEF Acked, TypeOK

LEMMA AnsweredType ==
  ASSUME TypeOK, NEW id \in Ids
  PROVE  Answered(id) \in [Calls -> Waits]
<1>1. ASSUME NEW w \in Waits PROVE [w EXCEPT !.peer = Append(@, id)] \in Waits
  <2>1. Append(w.peer, id) \in Seq(Ids)
    BY DEF Waits
  <2> QED
    BY <2>1, WaitTypes
<1> QED
  BY <1>1 DEF Answered, TypeOK

LEMMA FreshType == Fresh \in Waits
BY DEF Fresh, Waits

LEMMA EndType ==
  ASSUME TypeOK, NEW c \in Calls, NEW how \in {"answer", "failed", "cancelled", "local", "peer"},
         End(c, how)
  PROVE  /\ pc' \in [Calls -> {"idle", "armed", "own", "peer", "waiting", "ended"}]
         /\ waiter' \in [Calls -> {"none", "armed", "local", "peer"}]
         /\ wait' \in [Calls -> Waits]
         /\ outcome' \in [Calls -> {"none", "answer", "failed", "cancelled", "local", "peer"}]
         /\ \A d \in Calls : pc'[d] = "ended" <=> outcome'[d] # "none"
BY FreshType DEF End, TypeOK

LEMMA SpendType ==
  ASSUME TypeOK, NEW what \in {"runs", "faults"}, NEW bound, Spend(what, bound)
  PROVE  spent' \in [runs : Nat, faults : Nat]
BY DEF TypeOK, Spend

LEMMA TypeInit == Init => TypeOK
<1> SUFFICES ASSUME Init PROVE TypeOK
  OBVIOUS
<1>1. wait \in [Calls -> Waits]
  BY FreshType DEF Init
<1>2. kept \in Channels
  BY DEF Init, Nothing, Channels, Acks
<1>3. served \in Seq(Ids) /\ Len(served) <= MaxServed /\ IsInjective(served)
  BY BoundAssumption DEF Init, IsInjective
<1>4. inbox \in Seq(Ids) /\ executed \in [now : Seq(Ids), before : SUBSET Ids]
  BY DEF Init
<1> QED
  BY <1>1, <1>2, <1>3, <1>4 DEF Init, TypeOK

LEMMA TypeHost ==
  ASSUME TypeOK, NEW c \in Calls,
         \/ Begin(c) \/ Check(c) \/ OpenOwn(c) \/ OpenPeer(c) \/ Submit(c) \/ Refused(c)
         \/ ReadOwn(c) \/ ReadPeer(c) \/ PeerGone(c) \/ Hear(c) \/ Cancel(c) \/ Fail(c)
         \/ BothDone(c) \/ \E ended \in SUBSET Streams : StreamsEnd(c, ended)
  PROVE  TypeOK'
<1> USE DEF wallet
<1>1. CASE Begin(c)
  BY <1>1 DEF Begin, TypeOK
<1>2. CASE Check(c)
  <2>1. CASE connected
    <3>1. expiry' = expiry + 1 /\ priority' = [priority EXCEPT ![c] = expiry + 1]
      BY <1>2, <2>1 DEF Check
    <3>2. expiry' \in Nat /\ priority' \in [Calls -> Nat]
      BY <3>1 DEF TypeOK
    <3>3. \A d \in Calls : priority'[d] <= expiry'
      BY <3>1 DEF TypeOK
    <3>4. pc' = [pc EXCEPT ![c] = "own"] /\ outcome' = outcome /\ outcome[c] = "none"
      BY <1>2, <2>1 DEF Check, TypeOK
    <3> QED
      BY <1>2, <2>1, <3>2, <3>3, <3>4 DEF Check, TypeOK
  <2>2. CASE ~connected
    <3>1. End(c, "local") /\ UNCHANGED <<expiry, priority>>
      BY <1>2, <2>2 DEF Check
    <3> QED
      BY <1>2, <3>1, EndType DEF Check, TypeOK
  <2> QED
    BY <2>1, <2>2
<1>3. CASE OpenOwn(c)
  <2>1. kept.ack \in Acks
    BY DEF TypeOK, Channels
  <2>2. (IF kept.ack.id = None THEN << >> ELSE <<kept.ack>>) \in Seq(Acks)
    BY <2>1
  <2>3. wait' \in [Calls -> Waits]
    BY <1>3, <2>2, WaitTypes DEF OpenOwn, TypeOK
  <2> QED
    BY <1>3, <2>3 DEF OpenOwn, TypeOK
<1>4. CASE OpenPeer(c)
  <2>1. (IF kept.response = None THEN << >> ELSE <<kept.response>>) \in Seq(Ids)
    BY DEF TypeOK, Channels
  <2>2. wait' \in [Calls -> Waits]
    BY <1>4, <2>1, WaitTypes DEF OpenPeer, TypeOK
  <2> QED
    BY <1>4, <2>2 DEF OpenPeer, TypeOK
<1>5. CASE Submit(c)
  <2>1. CASE End(c, "local") /\ UNCHANGED sending
    BY <1>5, <2>1, EndType DEF Submit, TypeOK
  <2>2. CASE sending' = [sending EXCEPT ![c] = "sent"] /\ UNCHANGED <<pc, waiter, wait, outcome>>
    BY <1>5, <2>2 DEF Submit, TypeOK
  <2> QED
    BY <1>5, <2>1, <2>2 DEF Submit
<1>6. CASE Refused(c)
  <2>1. CASE End(c, "failed")
    BY <1>6, <2>1, EndType DEF Refused, TypeOK
  <2>2. CASE UNCHANGED <<pc, waiter, wait, outcome>>
    BY <1>6, <2>2 DEF Refused, TypeOK
  <2> QED
    BY <1>6, <2>1, <2>2 DEF Refused
<1>7. CASE ReadOwn(c)
  <2>1. CASE \E how \in {"answer", "failed"} : End(c, how)
    BY <1>7, <2>1, EndType DEF ReadOwn, TypeOK
  <2>2. CASE /\ wait' = [wait EXCEPT ![c] = [wait[c] EXCEPT !.accepted = @ \/ Head(wait[c].own).id = c,
                                                     !.own = Tail(@)]]
             /\ UNCHANGED <<pc, waiter, outcome>>
    <3>1. wait[c] \in Waits /\ wait[c].own # << >>
      BY <1>7 DEF ReadOwn, TypeOK
    <3>2. [wait[c] EXCEPT !.accepted = @ \/ Head(wait[c].own).id = c, !.own = Tail(@)] \in Waits
      BY <3>1, ReadOwnType
    <3>3. wait' \in [Calls -> Waits]
      BY <2>2, <3>2 DEF TypeOK
    <3> QED
      BY <1>7, <2>2, <3>3 DEF ReadOwn, TypeOK
  <2> QED
    BY <1>7, <2>1, <2>2 DEF ReadOwn
<1>8. CASE ReadPeer(c)
  <2>1. CASE End(c, "answer")
    BY <1>8, <2>1, EndType DEF ReadPeer, TypeOK
  <2>2. CASE /\ wait' = [wait EXCEPT ![c] = [wait[c] EXCEPT !.pending = @ \/ Head(wait[c].peer) = c,
                                                     !.peer = Tail(@)]]
             /\ UNCHANGED <<pc, waiter, outcome>>
    <3>1. wait[c] \in Waits /\ wait[c].peer # << >>
      BY <1>8 DEF ReadPeer, TypeOK
    <3>2. [wait[c] EXCEPT !.pending = @ \/ Head(wait[c].peer) = c, !.peer = Tail(@)] \in Waits
      BY <3>1, ReadPeerType
    <3>3. wait' \in [Calls -> Waits]
      BY <2>2, <3>2 DEF TypeOK
    <3> QED
      BY <1>8, <2>2, <3>3 DEF ReadPeer, TypeOK
  <2> QED
    BY <1>8, <2>1, <2>2 DEF ReadPeer
<1>9. CASE PeerGone(c)
  <2>1. Told("peer") \in [Calls -> {"none", "armed", "local", "peer"}]
    BY DEF Told, TypeOK
  <2>2. wait' \in [Calls -> Waits]
    BY <1>9, FreshType DEF PeerGone, TypeOK
  <2>3. waiter' \in [Calls -> {"none", "armed", "local", "peer"}]
    BY <1>9, <2>1 DEF PeerGone
  <2> QED
    BY <1>9, <2>2, <2>3 DEF PeerGone, TypeOK
<1>10. CASE Hear(c)
  BY <1>10, EndType DEF Hear, TypeOK
<1>11. CASE Cancel(c)
  BY <1>11, EndType DEF Cancel, TypeOK
<1>12. CASE Fail(c)
  <2>1. spent' \in [runs : Nat, faults : Nat]
    BY <1>12, SpendType DEF Fail
  <2> QED
    BY <1>12, <2>1, EndType DEF Fail, TypeOK
<1>13. CASE BothDone(c)
  BY <1>13, EndType DEF BothDone, TypeOK
<1>14. ASSUME NEW ended \in SUBSET Streams, StreamsEnd(c, ended) PROVE TypeOK'
  <2>1. spent' \in [runs : Nat, faults : Nat]
    BY <1>14, SpendType DEF StreamsEnd
  <2>2. wait' = [wait EXCEPT ![c].open = @ \ ended]
    BY <1>14 DEF StreamsEnd
  <2>3. [wait[c] EXCEPT !.open = @ \ ended] \in Waits
    <3>1. wait[c] \in Waits
      BY DEF TypeOK
    <3>2. wait[c].open \ ended \in SUBSET Streams
      BY <3>1 DEF Waits
    <3> QED
      BY <3>1, <3>2 DEF Waits
  <2>4. wait' \in [Calls -> Waits]
    BY <2>2, <2>3 DEF TypeOK
  <2> QED
    BY <1>14, <2>1, <2>4 DEF StreamsEnd, TypeOK
<1> QED
  BY <1>1, <1>2, <1>3, <1>4, <1>5, <1>6, <1>7, <1>8, <1>9, <1>10, <1>11, <1>12, <1>13, <1>14

LEMMA TypeSession ==
  ASSUME TypeOK,
         Disconnect \/ TakeLeave \/ Notice \/ MonitorStops \/ \E c \in Calls : Taken(c)
  PROVE  TypeOK'
<1> USE DEF wallet
<1>1. Told("local") \in [Calls -> {"none", "armed", "local", "peer"}]
      /\ Told("peer") \in [Calls -> {"none", "armed", "local", "peer"}]
  BY DEF Told, TypeOK
<1>2. CASE Disconnect
  BY <1>1, <1>2 DEF Disconnect, TypeOK
<1>3. CASE Notice
  BY <1>1, <1>3 DEF Notice, TypeOK
<1>4. CASE TakeLeave
  <2>1. kept' \in Channels
    <3>1. [id |-> Goodbye, priority |-> expiry + 1] \in [id : Ids \cup {None}, priority : Nat]
      BY DEF TypeOK, Ids
    <3> QED
      BY <1>4, <3>1 DEF TakeLeave, TypeOK, Channels
  <2>2. inbox' \in Seq(Ids)
    BY <1>4, ToWalletType DEF TakeLeave, TypeOK, Ids
  <2>3. expiry' \in Nat /\ \A c \in Calls : priority'[c] <= expiry'
    BY <1>4 DEF TakeLeave, TypeOK
  <2>4. spent' \in [runs : Nat, faults : Nat] /\ farewell' \in {"sent", "lost"}
    BY <1>4, SpendType DEF TakeLeave, TypeOK
  <2> QED
    BY <1>4, <2>1, <2>2, <2>3, <2>4 DEF TakeLeave, TypeOK
<1>5. ASSUME NEW c \in Calls, Taken(c) PROVE TypeOK'
  <2>1. CASE /\ kept' = [kept EXCEPT !.request = [id |-> c, priority |-> priority[c]]]
             /\ inbox' = ToWallet(c)
             /\ sending' = [sending EXCEPT ![c] = "taken"] /\ UNCHANGED spent
    <3>1. kept' \in Channels
      BY <2>1 DEF TypeOK, Channels, Ids
    <3>2. inbox' \in Seq(Ids)
      BY <2>1, ToWalletType DEF TypeOK, Ids
    <3> QED
      BY <1>5, <2>1, <3>1, <3>2 DEF Taken, TypeOK
  <2>2. CASE /\ Spend("faults", MaxFaults)
             /\ sending' = [sending EXCEPT ![c] = "retry"] /\ UNCHANGED <<kept, inbox>>
    <3>1. spent' \in [runs : Nat, faults : Nat]
      BY <2>2, SpendType
    <3> QED
      BY <1>5, <2>2, <3>1 DEF Taken, TypeOK
  <2> QED
    BY <1>5, <2>1, <2>2 DEF Taken
<1>6. CASE MonitorStops
  <2>1. spent' \in [runs : Nat, faults : Nat]
    BY <1>6, SpendType DEF MonitorStops
  <2> QED
    BY <1>6, <2>1 DEF MonitorStops, TypeOK
<1> QED
  BY <1>2, <1>3, <1>4, <1>5, <1>6

LEMMA TypeTake == ASSUME TypeOK, Take PROVE TypeOK'
<1> USE DEF host
<1>1. inbox # << >> /\ inbox' = Tail(inbox) /\ Head(inbox) \in Ids /\ inbox' \in Seq(Ids)
  BY DEF Take, TypeOK
<1>2. CASE UNCHANGED <<served, serves>>
  BY <1>1, <1>2 DEF Take, TypeOK
<1>3. CASE /\ served' = IF Len(served) = MaxServed THEN Append(Tail(served), Head(inbox))
                        ELSE Append(served, Head(inbox))
           /\ serves' = [id |-> Head(inbox), step |-> "ack"]
           /\ Head(inbox) \notin ToSet(served)
  <2>1. CASE Len(served) = MaxServed
    <3>1. served # << >> /\ served \in Seq(Ids) /\ IsInjective(served)
      BY <2>1, BoundAssumption DEF TypeOK
    <3>2. Tail(served) \in Seq(Ids) /\ Len(Tail(served)) = MaxServed - 1
      BY <2>1, <3>1
    <3>3. IsInjective(Tail(served)) /\ Head(inbox) \notin ToSet(Tail(served))
      BY <1>3, <3>1, InjectiveTail, SetOfTail
    <3>4. served' \in Seq(Ids) /\ Len(served') <= MaxServed
      BY <1>1, <1>3, <2>1, <3>2, BoundAssumption
    <3>5. IsInjective(served')
      BY <1>1, <1>3, <2>1, <3>2, <3>3, InjectiveAppend
    <3> QED
      BY <1>1, <1>3, <3>4, <3>5 DEF Take, TypeOK
  <2>2. CASE Len(served) # MaxServed
    <3>1. served' \in Seq(Ids) /\ Len(served') <= MaxServed
      BY <1>1, <1>3, <2>2, BoundAssumption DEF TypeOK
    <3>2. IsInjective(served')
      BY <1>1, <1>3, <2>2, InjectiveAppend DEF TypeOK
    <3> QED
      BY <1>1, <1>3, <3>1, <3>2 DEF Take, TypeOK
  <2> QED
    BY <2>1, <2>2
<1> QED
  BY <1>2, <1>3 DEF Take

LEMMA ExitType ==
  ASSUME NEW how \in {"off", "gone"}, Exit(how)
  PROVE  serving' \in {"off", "on", "gone"} /\ inbox' \in Seq(Ids) /\ serves' \in {Idle}
BY DEF Exit

LEMMA TypeWallet ==
  ASSUME TypeOK, \/ \E ok \in BOOLEAN : Ack(ok)
                 \/ Answer \/ Respond \/ Break \/ Restart \/ WalletLeaves \/ Twice
  PROVE  TypeOK'
<1> USE DEF host
<1>1. serves.step # "take" => serves.id \in Ids
  BY DEF TypeOK, Idle
<1>2. ASSUME NEW ok \in BOOLEAN, Ack(ok) PROVE TypeOK'
  <2>1. serves.id \in Ids /\ serves \in [id : Ids, step : {"ack", "answer", "respond"}]
    BY <1>1, <1>2 DEF Ack, TypeOK, Idle
  <2>2. [id |-> serves.id, ok |-> ok] \in Acks
    BY <2>1 DEF Acks
  <2>3. kept' \in Channels
    BY <1>2, <2>2 DEF Ack, TypeOK, Channels
  <2>4. wait' \in [Calls -> Waits]
    BY <1>2, <2>2, AckedType DEF Ack
  <2>5. spent' \in [runs : Nat, faults : Nat]
    BY <1>2, SpendType DEF Ack, TypeOK
  <2>6. /\ serving' \in {"off", "on", "gone"} /\ inbox' \in Seq(Ids)
        /\ serves' \in {Idle} \cup [id : Ids, step : {"ack", "answer", "respond"}]
    BY <1>2, <2>1, ExitType DEF Ack, TypeOK
  <2> QED
    BY <1>2, <2>3, <2>4, <2>5, <2>6 DEF Ack, TypeOK
<1>3. CASE Answer
  <2>1. serves.id \in Ids /\ serves \in [id : Ids, step : {"ack", "answer", "respond"}]
    BY <1>1, <1>3 DEF Answer, TypeOK, Idle
  <2>2. executed' \in [now : Seq(Ids), before : SUBSET Ids]
    <3>1. executed.now \in Seq(Ids) /\ executed \in [now : Seq(Ids), before : SUBSET Ids]
      BY DEF TypeOK
    <3>2. Append(executed.now, serves.id) \in Seq(Ids)
      BY <2>1, <3>1
    <3> QED
      BY <1>3, <3>1, <3>2 DEF Answer
  <2>3. serves' \in [id : Ids, step : {"ack", "answer", "respond"}]
    BY <1>3, <2>1 DEF Answer
  <2> QED
    BY <1>3, <2>2, <2>3 DEF Answer, TypeOK
<1>4. CASE Respond
  <2>1. serves.id \in Ids
    BY <1>1, <1>4 DEF Respond
  <2>2. kept' \in Channels
    BY <1>4, <2>1 DEF Respond, TypeOK, Channels
  <2>3. wait' \in [Calls -> Waits]
    BY <1>4, <2>1, AnsweredType DEF Respond
  <2> QED
    BY <1>4, <2>2, <2>3 DEF Respond, TypeOK
<1>5. CASE Break
  <2>1. spent' \in [runs : Nat, faults : Nat]
    BY <1>5, SpendType DEF Break
  <2> QED
    BY <1>5, <2>1, ExitType DEF Break, TypeOK
<1>6. CASE Restart
  <2>1. spent' \in [runs : Nat, faults : Nat]
    BY <1>6, SpendType DEF Restart
  <2>2. (IF kept.request.id = None THEN << >> ELSE <<kept.request.id>>) \in Seq(Ids)
    BY DEF TypeOK, Channels
  <2>3. executed' \in [now : Seq(Ids), before : SUBSET Ids]
    <3>1. executed.now \in Seq(Ids) /\ executed.before \in SUBSET Ids
      BY DEF TypeOK
    <3>2. ToSet(executed.now) \subseteq Ids
      BY <3>1, SetOfSequence
    <3> QED
      BY <1>6, <3>1, <3>2 DEF Restart
  <2>4. served' = << >> /\ served' \in Seq(Ids) /\ Len(served') <= MaxServed /\ IsInjective(served')
    BY <1>6, BoundAssumption DEF Restart, IsInjective
  <2>5. inbox' \in Seq(Ids)
    BY <1>6, <2>2 DEF Restart
  <2> QED
    BY <1>6, <2>1, <2>3, <2>4, <2>5 DEF Restart, TypeOK
<1>7. CASE WalletLeaves
  <2>1. kept' \in Channels
    BY <1>7 DEF WalletLeaves, TypeOK, Channels, Ids
  <2>2. wait' \in [Calls -> Waits]
    BY <1>7, AnsweredType DEF WalletLeaves, Ids
  <2> QED
    BY <1>7, <2>1, <2>2, ExitType DEF WalletLeaves, TypeOK
<1>8. CASE Twice
  <2>1. spent' \in [runs : Nat, faults : Nat]
    BY <1>8, SpendType DEF Twice
  <2>2. kept.ack \in Acks /\ kept.response \in Ids \cup {None} /\ kept.request.id \in Ids \cup {None}
    BY DEF TypeOK, Channels
  <2>3. inbox' \in Seq(Ids) /\ wait' \in [Calls -> Waits]
    BY <1>8, <2>2, ToWalletType, AckedType, AnsweredType DEF Twice, TypeOK
  <2> QED
    BY <1>8, <2>1, <2>3 DEF Twice, TypeOK
<1> QED
  BY <1>2, <1>3, <1>4, <1>5, <1>6, <1>7, <1>8

LEMMA TypeNext == TypeOK /\ [Next]_vars => TypeOK'
<1> SUFFICES ASSUME TypeOK, [Next]_vars PROVE TypeOK'
  OBVIOUS
<1>1. ASSUME UNCHANGED vars PROVE TypeOK'
  BY <1>1 DEF vars, host, wallet, TypeOK
<1> QED
  BY <1>1, TypeHost, TypeSession, TypeTake, TypeWallet DEF Next, CallStep, WalletStep

\* Every variable of the exchange keeps its type, and the replay window its
\* size and its ids apart (ServedRequestIds).
THEOREM TypeCorrect == Spec => []TypeOK
BY TypeInit, TypeNext, PTL DEF Spec

-----------------------------------------------------------------------------
(* Who submits.                                                            *)

\* Steps that draw no expiry, submit nothing and keep to the order of a call.
LEMMA SenderQuiet ==
  ASSUME SenderInv, UNCHANGED <<farewell, priority>>, kept'.request = kept.request,
         connected' => connected,
         \A c \in Calls : \/ pc'[c] \in {pc[c], "ended"}
                          \/ {pc[c], pc'[c]} \subseteq {"own", "peer", "waiting"}
                          \/ {pc[c], pc'[c]} \subseteq {"idle", "armed"},
         \A c \in Calls : sending'[c] = sending[c] \/ pc[c] = "waiting" \/ sending[c] # "unsent"
  PROVE  SenderInv'
<1>1. kept'.request.id = kept.request.id /\ kept'.request.priority = kept.request.priority
  OBVIOUS
<1>2. ASSUME NEW c \in Calls
      PROVE  /\ pc'[c] \in {"idle", "armed"} => priority'[c] = 0
             /\ pc'[c] \in {"own", "peer", "waiting"} => priority'[c] > 0
             /\ sending'[c] # "unsent" => priority'[c] > 0
  BY <1>2 DEF SenderInv
<1> QED
  BY <1>1, <1>2 DEF SenderInv

LEMMA SenderHost ==
  ASSUME TypeOK, SenderInv, NEW c \in Calls,
         \/ Begin(c) \/ OpenOwn(c) \/ OpenPeer(c) \/ Submit(c) \/ Refused(c) \/ ReadOwn(c)
         \/ ReadPeer(c) \/ PeerGone(c) \/ Hear(c) \/ Cancel(c) \/ Fail(c) \/ BothDone(c)
         \/ \E ended \in SUBSET Streams : StreamsEnd(c, ended)
  PROVE  SenderInv'
<1>1. UNCHANGED <<farewell, priority>> /\ kept'.request = kept.request /\ (connected' => connected)
  BY DEF Begin, OpenOwn, OpenPeer, Submit, Refused, ReadOwn, ReadPeer, PeerGone, Hear,
         Cancel, Fail, BothDone, StreamsEnd
<1>2. \A d \in Calls : \/ pc'[d] \in {pc[d], "ended"}
                       \/ {pc[d], pc'[d]} \subseteq {"own", "peer", "waiting"}
                       \/ {pc[d], pc'[d]} \subseteq {"idle", "armed"}
  BY DEF Begin, OpenOwn, OpenPeer, Submit, Refused, ReadOwn, ReadPeer, PeerGone, Hear,
         Cancel, Fail, BothDone, StreamsEnd, End, TypeOK
<1>3. \A d \in Calls : sending'[d] = sending[d] \/ pc[d] = "waiting" \/ sending[d] # "unsent"
  BY DEF Begin, OpenOwn, OpenPeer, Submit, Refused, ReadOwn, ReadPeer, PeerGone, Hear,
         Cancel, Fail, BothDone, StreamsEnd, TypeOK
<1> QED
  BY <1>1, <1>2, <1>3, SenderQuiet

\* The expiry that is drawn is higher than those that were.
LEMMA SenderCheck == ASSUME TypeOK, SenderInv, NEW c \in Calls, Check(c) PROVE SenderInv'
<1>1. CASE connected
  <2>1. /\ pc' = [pc EXCEPT ![c] = "own"] /\ priority' = [priority EXCEPT ![c] = expiry + 1]
        /\ pc[c] = "armed" /\ UNCHANGED <<connected, farewell, kept, sending>>
    BY <1>1 DEF Check
  <2>2. expiry \in Nat /\ \A d \in Calls : priority[d] \in Nat /\ priority[d] <= expiry
    BY DEF TypeOK
  <2>3. farewell = "no" /\ kept.request.id # Goodbye /\ priority[c] = 0
    BY <1>1, <2>1 DEF SenderInv, TypeOK
  <2>4. priority'[c] = expiry + 1 /\ \A d \in Calls : d # c => priority'[d] = priority[d]
    BY <2>1 DEF TypeOK
  <2>5. kept.request.id \in Calls => kept.request.id # c
    BY <2>3 DEF SenderInv
  <2>6. ASSUME NEW d \in Calls
        PROVE  /\ pc'[d] \in {"idle", "armed"} => priority'[d] = 0
               /\ pc'[d] \in {"own", "peer", "waiting"} => priority'[d] > 0
               /\ sending'[d] # "unsent" => priority'[d] > 0
    <3>1. CASE d = c
      BY <2>1, <2>2, <2>4, <3>1 DEF TypeOK
    <3>2. CASE d # c
      BY <2>1, <2>4, <3>2 DEF SenderInv, TypeOK
    <3> QED
      BY <3>1, <3>2
  <2>7. \A d, e \in Calls : d # e /\ priority'[d] = priority'[e] => priority'[d] = 0
    <3> SUFFICES ASSUME NEW d \in Calls, NEW e \in Calls, d # e, priority'[d] = priority'[e]
                 PROVE  priority'[d] = 0
      OBVIOUS
    <3>1. d # c /\ e # c
      BY <2>2, <2>4
    <3> QED
      BY <2>4, <3>1 DEF SenderInv
  <2>8. kept.request.id \in Calls =>
          kept.request.priority = priority'[kept.request.id] /\ kept.request.priority > 0
    BY <2>4, <2>5 DEF SenderInv
  <2> QED
    BY <2>1, <2>3, <2>6, <2>7, <2>8 DEF SenderInv
<1>2. CASE ~connected
  <2>1. /\ pc' = [pc EXCEPT ![c] = "ended"]
        /\ UNCHANGED <<connected, priority, farewell, kept, sending>>
    BY <1>2 DEF Check, End
  <2> QED
    BY <2>1, SenderQuiet DEF TypeOK
<1> QED
  BY <1>1, <1>2

LEMMA SenderTaken == ASSUME TypeOK, SenderInv, NEW c \in Calls, Taken(c) PROVE SenderInv'
<1>1. UNCHANGED <<connected, pc, farewell, priority>> /\ sending[c] = "sent"
      /\ priority[c] > kept.request.priority
  BY DEF Taken
<1>2. CASE UNCHANGED kept
  <2>1. \A d \in Calls : sending'[d] = sending[d] \/ sending[d] # "unsent"
    BY <1>1, <1>2 DEF Taken, TypeOK
  <2> QED
    BY <1>1, <1>2, <2>1, SenderQuiet
<1>3. CASE /\ kept' = [kept EXCEPT !.request = [id |-> c, priority |-> priority[c]]]
           /\ sending' = [sending EXCEPT ![c] = "taken"]
  <2>1. kept'.request.id = c /\ kept'.request.priority = priority[c]
    BY <1>3 DEF TypeOK, Channels
  <2>2. priority[c] > 0 /\ c # Goodbye
    BY <1>1, NameAssumption DEF SenderInv
  <2>3. \A d \in Calls : sending'[d] = sending[d] \/ d = c
    BY <1>3 DEF TypeOK
  <2> QED
    BY <1>1, <2>1, <2>2, <2>3 DEF SenderInv
<1> QED
  BY <1>2, <1>3 DEF Taken

LEMMA SenderLeave == ASSUME TypeOK, SenderInv, TakeLeave PROVE SenderInv'
<1>1. UNCHANGED <<connected, pc, priority, sending>> /\ farewell = "owed"
  BY DEF TakeLeave
<1>2. CASE /\ farewell' = "sent"
           /\ kept' = [kept EXCEPT !.request = [id |-> Goodbye, priority |-> expiry + 1]]
  <2>1. kept'.request.id = Goodbye /\ kept'.request.priority = expiry + 1
    BY <1>2 DEF TypeOK, Channels
  <2>2. \A c \in Calls : priority[c] < expiry + 1
    BY DEF TypeOK
  <2> QED
    BY <1>1, <1>2, <2>1, <2>2, NameAssumption DEF SenderInv
<1>3. CASE farewell' = "lost" /\ UNCHANGED kept
  BY <1>1, <1>3 DEF SenderInv
<1> QED
  BY <1>2, <1>3 DEF TakeLeave

LEMMA SenderNext == ASSUME TypeOK, SenderInv, [Next]_vars PROVE SenderInv'
<1>1. ASSUME Disconnect PROVE SenderInv'
  BY <1>1 DEF Disconnect, SenderInv, wallet
<1>2. \A v : /\ [kept EXCEPT !.ack = v].request = kept.request
             /\ [kept EXCEPT !.response = v].request = kept.request
  BY DEF TypeOK, Channels
<1>3. ASSUME UNCHANGED <<pc, sending, farewell, priority>>, connected' => connected,
             kept'.request = kept.request
      PROVE  SenderInv'
  BY <1>3, SenderQuiet
<1>4. ASSUME Notice \/ MonitorStops PROVE SenderInv'
  BY <1>3, <1>4 DEF Notice, MonitorStops
<1>5. ASSUME \E ok \in BOOLEAN : Ack(ok) PROVE SenderInv'
  BY <1>2, <1>3, <1>5 DEF Ack
<1>6. ASSUME Respond PROVE SenderInv'
  BY <1>2, <1>3, <1>6 DEF Respond
<1>7. ASSUME WalletLeaves PROVE SenderInv'
  BY <1>2, <1>3, <1>7 DEF WalletLeaves
<1>8. ASSUME Take \/ Answer \/ Break \/ Restart PROVE SenderInv'
  BY <1>3, <1>8 DEF Take, Answer, Break, Restart, host
<1>9. ASSUME Twice PROVE SenderInv'
  BY <1>3, <1>9 DEF Twice
<1>10. ASSUME UNCHANGED vars PROVE SenderInv'
  BY <1>3, <1>10 DEF vars, host
<1> QED
  BY <1>1, <1>4, <1>5, <1>6, <1>7, <1>8, <1>9, <1>10, SenderHost, SenderCheck, SenderTaken,
     SenderLeave DEF Next, CallStep, WalletStep

-----------------------------------------------------------------------------
(* What is answered.                                                       *)

\* Steps that answer nobody: nothing is delivered and nothing forgotten.
LEMMA AnswerQuiet ==
  ASSUME AnswerInv, kept'.response = kept.response, Executed \subseteq Executed',
         \A c \in Calls : /\ ToSet(wait'[c].peer) \subseteq ToSet(wait[c].peer)
                          /\ wait'[c].pending => wait[c].pending
                          /\ outcome'[c] = "answer" => outcome[c] = "answer",
         serves'.step = "respond" => serves' = serves
  PROVE  AnswerInv'
<1>1. \A c \in Calls : outcome'[c] = "answer" => c \in Executed'
  BY DEF AnswerInv, AnswersAreTheCalls, Executed
<1>2. \A c \in Calls : /\ ToSet(wait'[c].peer) \subseteq Executed' \cup {Goodbye}
                       /\ wait'[c].pending => c \in Executed'
  BY DEF AnswerInv
<1>3. AnswersAreTheCalls'
  BY <1>1 DEF AnswersAreTheCalls, Executed
<1>4. serves'.step = "respond" => serves'.id \in Executed'
  BY DEF AnswerInv
<1>5. kept'.response \in Executed' \cup {Goodbye, None}
  BY DEF AnswerInv
<1> QED
  BY <1>2, <1>3, <1>4, <1>5 DEF AnswerInv

\* A call that ends, and is not answered unless it was executed.
LEMMA AnswerEnd ==
  ASSUME TypeOK, AnswerInv, NEW c \in Calls, NEW how, End(c, how),
         how = "answer" => c \in Executed,
         UNCHANGED <<kept, serves, executed>>
  PROVE  AnswerInv'
<1>1. wait' = [wait EXCEPT ![c] = Fresh] /\ outcome' = [outcome EXCEPT ![c] = how]
  BY DEF End
<1>2. \A d \in Calls : ToSet(wait'[d].peer) \subseteq Executed \cup {Goodbye}
                       /\ (wait'[d].pending => d \in Executed)
  BY <1>1, SetOfShort DEF TypeOK, AnswerInv, Fresh
<1>3. \A d \in Calls : outcome'[d] = "answer" => d \in Executed
  BY <1>1 DEF TypeOK, AnswerInv, AnswersAreTheCalls, Executed
<1>4. Executed' = Executed
  BY DEF Executed
<1> QED
  BY <1>2, <1>3, <1>4 DEF AnswerInv, AnswersAreTheCalls, Executed

LEMMA AnswerHost ==
  ASSUME TypeOK, AnswerInv, NEW c \in Calls,
         \/ Begin(c) \/ Check(c) \/ OpenOwn(c) \/ Submit(c) \/ Taken(c) \/ Refused(c)
         \/ Hear(c) \/ Cancel(c) \/ Fail(c) \/ BothDone(c)
         \/ \E ended \in SUBSET Streams : StreamsEnd(c, ended)
  PROVE  AnswerInv'
<1> USE DEF wallet
<1>1. ASSUME NEW how \in {"failed", "local", "peer", "cancelled"}, End(c, how),
             UNCHANGED <<kept, serves, executed>>
      PROVE  AnswerInv'
  BY <1>1, AnswerEnd
<1>2. ASSUME UNCHANGED <<wait, outcome, serves, executed>>, kept'.response = kept.response
      PROVE  AnswerInv'
  BY <1>2, AnswerQuiet DEF Executed
<1>3. CASE Begin(c)
  BY <1>2, <1>3 DEF Begin
<1>4. CASE Check(c)
  BY <1>1, <1>2, <1>4 DEF Check
<1>5. CASE OpenOwn(c)
  <2>1. /\ wait' = [wait EXCEPT ![c].own = IF kept.ack.id = None THEN << >> ELSE <<kept.ack>>]
        /\ UNCHANGED <<outcome, kept, serves, executed>>
    BY <1>5 DEF OpenOwn
  <2>2. \A d \in Calls : wait'[d].peer = wait[d].peer /\ wait'[d].pending = wait[d].pending
    BY <2>1 DEF TypeOK, Waits
  <2> QED
    BY <2>1, <2>2, AnswerQuiet DEF Executed
<1>6. CASE Submit(c)
  BY <1>1, <1>2, <1>6 DEF Submit
<1>7. CASE Taken(c)
  <2>1. kept'.response = kept.response
    BY <1>7 DEF Taken, TypeOK, Channels
  <2> QED
    BY <1>2, <1>7, <2>1 DEF Taken
<1>8. CASE Refused(c)
  BY <1>1, <1>2, <1>8 DEF Refused
<1>9. CASE Hear(c)
  BY <1>1, <1>9 DEF Hear
<1>10. CASE Cancel(c)
  BY <1>1, <1>10 DEF Cancel
<1>11. CASE Fail(c)
  BY <1>1, <1>11 DEF Fail
<1>12. CASE BothDone(c)
  BY <1>1, <1>12 DEF BothDone
<1>13. ASSUME NEW ended \in SUBSET Streams, StreamsEnd(c, ended) PROVE AnswerInv'
  <2>1. /\ wait' = [wait EXCEPT ![c].open = @ \ ended]
        /\ UNCHANGED <<outcome, kept, serves, executed>>
    BY <1>13 DEF StreamsEnd
  <2>2. \A d \in Calls : wait'[d].peer = wait[d].peer /\ wait'[d].pending = wait[d].pending
    BY <2>1 DEF TypeOK, Waits
  <2> QED
    BY <2>1, <2>2, AnswerQuiet DEF Executed
<1> QED
  BY <1>3, <1>4, <1>5, <1>6, <1>7, <1>8, <1>9, <1>10, <1>11, <1>12, <1>13

\* The acknowledgement comes second: the response before it was the call's.
LEMMA AnswerReadOwn == ASSUME TypeOK, AnswerInv, NEW c \in Calls, ReadOwn(c) PROVE AnswerInv'
<1>1. wait[c].own # << >> /\ UNCHANGED <<kept, serves, executed>>
  BY DEF ReadOwn, wallet
<1>2. ASSUME NEW how \in {"answer", "failed"}, End(c, how),
             how = "answer" => wait[c].pending
      PROVE  AnswerInv'
  <2>1. how = "answer" => c \in Executed
    BY <1>2 DEF AnswerInv
  <2> QED
    BY <1>1, <1>2, <2>1, AnswerEnd
<1>3. ASSUME wait' = [wait EXCEPT ![c] = [wait[c] EXCEPT
                        !.accepted = @ \/ Head(wait[c].own).id = c, !.own = Tail(@)]],
             UNCHANGED outcome
      PROVE  AnswerInv'
  <2>1. \A d \in Calls : wait'[d].peer = wait[d].peer /\ wait'[d].pending = wait[d].pending
    BY <1>3 DEF TypeOK, Waits
  <2> QED
    BY <1>1, <1>3, <2>1, AnswerQuiet DEF Executed
<1> QED
  BY <1>2, <1>3 DEF ReadOwn

\* A response is the call's if it names it.
LEMMA AnswerReadPeer ==
  ASSUME TypeOK, AnswerInv, NEW c \in Calls, ReadPeer(c)
  PROVE  AnswerInv'
<1>1. wait[c].peer # << >> /\ UNCHANGED <<kept, serves, executed>>
  BY DEF ReadPeer, wallet
<1>2. wait[c].peer \in Seq(Ids)
  BY DEF TypeOK, Waits
<1>3. Head(wait[c].peer) \in ToSet(wait[c].peer)
      /\ ToSet(Tail(wait[c].peer)) \subseteq ToSet(wait[c].peer)
  BY <1>1, <1>2, SetOfTail
<1>4. Head(wait[c].peer) = c => c \in Executed
  BY <1>3, NameAssumption DEF AnswerInv
<1>5. ASSUME wait' = [wait EXCEPT ![c] = [wait[c] EXCEPT
                        !.pending = @ \/ Head(wait[c].peer) = c, !.peer = Tail(@)]],
             UNCHANGED outcome
      PROVE  AnswerInv'
  <2>1. \A d \in Calls : d # c => wait'[d] = wait[d]
    BY <1>5 DEF TypeOK
  <2>2. wait'[c].peer = Tail(wait[c].peer)
        /\ (wait'[c].pending => wait[c].pending \/ Head(wait[c].peer) = c)
    BY <1>5 DEF TypeOK, Waits
  <2>3. \A d \in Calls : /\ ToSet(wait'[d].peer) \subseteq Executed \cup {Goodbye}
                         /\ wait'[d].pending => d \in Executed
    BY <1>3, <1>4, <2>1, <2>2 DEF AnswerInv
  <2>4. Executed' = Executed
    BY <1>1 DEF Executed
  <2> QED
    BY <1>1, <1>5, <2>3, <2>4 DEF AnswerInv, AnswersAreTheCalls, Executed
<1> QED
  BY <1>1, <1>4, <1>5, AnswerEnd DEF ReadPeer

\* A disconnection is no answer.
LEMMA AnswerPeerGone ==
  ASSUME TypeOK, AnswerInv, NEW c \in Calls, PeerGone(c)
  PROVE  AnswerInv'
<1>1. /\ wait' = [wait EXCEPT ![c] = Fresh] /\ outcome' = [outcome EXCEPT ![c] = "peer"]
      /\ UNCHANGED <<kept, serves, executed>>
  BY DEF PeerGone, wallet
<1>2. \A d \in Calls : /\ ToSet(wait'[d].peer) \subseteq ToSet(wait[d].peer)
                       /\ wait'[d].pending => wait[d].pending
                       /\ outcome'[d] = "answer" => outcome[d] = "answer"
  BY <1>1, SetOfShort DEF TypeOK, Fresh
<1> QED
  BY <1>1, <1>2, AnswerQuiet DEF Executed

\* The peer subscription starts with what the store keeps.
LEMMA AnswerOpenPeer ==
  ASSUME TypeOK, AnswerInv, NEW c \in Calls, OpenPeer(c)
  PROVE  AnswerInv'
<1> DEFINE first == IF kept.response = None THEN << >> ELSE <<kept.response>>
<1>1. wait' = [wait EXCEPT ![c].peer = first] /\ UNCHANGED <<outcome, kept, serves, executed>>
  BY DEF OpenPeer, wallet
<1>2. ToSet(first) \subseteq Executed \cup {Goodbye}
  BY SetOfShort DEF AnswerInv
<1> HIDE DEF first
<1>3. \A d \in Calls : /\ ToSet(wait'[d].peer) \subseteq Executed \cup {Goodbye}
                       /\ wait'[d].pending => d \in Executed
  <2>1. wait'[c].peer = first /\ wait'[c].pending = wait[c].pending
    BY <1>1 DEF TypeOK, Waits
  <2>2. \A d \in Calls : d # c => wait'[d] = wait[d]
    BY <1>1 DEF TypeOK
  <2> QED
    BY <1>2, <2>1, <2>2 DEF AnswerInv
<1>4. Executed' = Executed
  BY <1>1 DEF Executed
<1> QED
  BY <1>1, <1>3, <1>4 DEF AnswerInv, AnswersAreTheCalls, Executed

\* A delivery of what was executed, to whoever listens.
LEMMA AnswerDelivered ==
  ASSUME TypeOK, AnswerInv, NEW id \in Ids, id \in Executed \cup {Goodbye},
         wait' = Answered(id), kept'.response \in {kept.response, id},
         UNCHANGED <<outcome, executed>>, serves'.step = "respond" => serves' = serves
  PROVE  AnswerInv'
<1>1. ASSUME NEW c \in Calls
      PROVE  /\ ToSet(wait'[c].peer) \subseteq Executed \cup {Goodbye}
             /\ wait'[c].pending => c \in Executed
  <2>1. wait[c].peer \in Seq(Ids) /\ wait[c] \in Waits
    BY DEF TypeOK, Waits
  <2>2. CASE wait'[c] = wait[c]
    BY <2>2 DEF AnswerInv
  <2>3. CASE wait'[c] = [wait[c] EXCEPT !.peer = Append(wait[c].peer, id)]
    <3>1. wait'[c].peer = Append(wait[c].peer, id) /\ wait'[c].pending = wait[c].pending
      BY <2>1, <2>3 DEF Waits
    <3>2. ToSet(wait'[c].peer) = ToSet(wait[c].peer) \cup {id}
      BY <2>1, <3>1, SetOfAppend
    <3> QED
      BY <3>1, <3>2 DEF AnswerInv
  <2> QED
    BY <2>2, <2>3 DEF Answered
<1>2. Executed' = Executed
  BY DEF Executed
<1> QED
  BY <1>1, <1>2 DEF AnswerInv, AnswersAreTheCalls, Executed

LEMMA AnswerAcked ==
  ASSUME TypeOK, AnswerInv, NEW ack, wait' = Acked(ack), kept'.response = kept.response,
         UNCHANGED <<outcome, executed>>, serves'.step = "respond" => serves' = serves
  PROVE  AnswerInv'
<1>1. \A c \in Calls : wait'[c].peer = wait[c].peer /\ wait'[c].pending = wait[c].pending
  BY DEF Acked, TypeOK, Waits
<1> QED
  BY <1>1, AnswerQuiet DEF Executed

\* The wallet's steps, and the store's.
LEMMA AnswerWallet ==
  ASSUME TypeOK, AnswerInv,
         \/ Take \/ (\E ok \in BOOLEAN : Ack(ok)) \/ Answer \/ Respond
         \/ Break \/ Restart \/ WalletLeaves \/ Twice
  PROVE  AnswerInv'
<1>1. serves.step # "take" => serves.id \in Ids
  BY DEF TypeOK, Idle
<1>2. Idle.step # "respond"
  BY DEF Idle
<1>3. /\ kept.response \in Ids \cup {None}
      /\ \A v : [kept EXCEPT !.ack = v].response = kept.response
      /\ \A v : [kept EXCEPT !.response = v].response = v
  BY DEF TypeOK, Channels
<1>4. ASSUME UNCHANGED <<kept, wait, outcome, executed>>, serves'.step = "respond" => serves' = serves
      PROVE  AnswerInv'
  BY <1>4, AnswerQuiet DEF Executed
<1>5. CASE Take
  BY <1>4, <1>5 DEF Take, host
<1>6. CASE Break
  BY <1>2, <1>4, <1>6 DEF Break, Exit, host
<1>7. ASSUME NEW ok \in BOOLEAN, Ack(ok) PROVE AnswerInv'
  <2>1. serves.step = "ack" /\ (serves' = Idle \/ serves' = [serves EXCEPT !.step = "answer"])
    BY <1>7 DEF Ack, Exit
  <2>2. serves'.step # "respond"
    BY <1>2, <2>1 DEF TypeOK, Idle
  <2> QED
    BY <1>3, <1>7, <2>2, AnswerAcked DEF Ack
<1>8. CASE Answer
  <2>1. /\ executed' = [executed EXCEPT !.now = Append(@, serves.id)]
        /\ serves' = [serves EXCEPT !.step = "respond"] /\ serves.step = "answer"
        /\ UNCHANGED <<wait, outcome, kept>>
    BY <1>8 DEF Answer, host
  <2>2. executed.now \in Seq(Ids) /\ serves.id \in Ids
    BY <1>1, <2>1 DEF TypeOK
  <2>3. executed'.now = Append(executed.now, serves.id) /\ executed'.before = executed.before
    BY <2>1 DEF TypeOK
  <2>4. Executed' = Executed \cup {serves.id}
    <3>1. ToSet(executed'.now) = ToSet(executed.now) \cup {serves.id}
      BY <2>2, <2>3, SetOfAppend
    <3> QED
      BY <2>3, <3>1 DEF Executed
  <2>5. serves'.id = serves.id
    BY <2>1 DEF TypeOK, Idle
  <2>6. \A c \in Calls : outcome'[c] = "answer" => c \in Executed'
    BY <2>1, <2>4 DEF AnswerInv, AnswersAreTheCalls, Executed
  <2>7. AnswersAreTheCalls'
    BY <2>6 DEF AnswersAreTheCalls, Executed
  <2> QED
    BY <2>1, <2>4, <2>5, <2>7 DEF AnswerInv
<1>9. CASE Respond
  <2>1. serves.id \in Ids /\ serves.id \in Executed
    BY <1>1, <1>9 DEF Respond, AnswerInv
  <2>2. kept'.response = serves.id /\ wait' = Answered(serves.id) /\ serves' = Idle
        /\ UNCHANGED <<outcome, executed>>
    BY <1>3, <1>9 DEF Respond
  <2> QED
    BY <1>2, <2>1, <2>2, AnswerDelivered
<1>10. CASE Restart
  <2>1. Executed' = Executed
    <3>1. executed'.now = << >> /\ executed'.before = Executed
      BY <1>10 DEF Restart, Executed
    <3> QED
      BY <3>1, SetOfShort DEF Executed
  <2> QED
    BY <1>2, <1>10, <2>1, AnswerQuiet DEF Restart, host
<1>11. CASE WalletLeaves
  <2>1. kept'.response = Goodbye /\ wait' = Answered(Goodbye) /\ serves' = Idle
        /\ UNCHANGED <<outcome, executed>>
    BY <1>3, <1>11 DEF WalletLeaves, Exit
  <2> QED
    BY <1>2, <2>1, AnswerDelivered DEF Ids
<1>12. CASE Twice
  <2>1. UNCHANGED <<outcome, kept, serves, executed>>
    BY <1>12 DEF Twice
  <2>2. CASE UNCHANGED wait
    BY <1>4, <2>1, <2>2
  <2>3. CASE wait' = Acked(kept.ack)
    BY <2>1, <2>3, AnswerAcked
  <2>4. CASE kept.response # None /\ wait' = Answered(kept.response)
    BY <1>3, <2>1, <2>4, AnswerDelivered DEF AnswerInv
  <2> QED
    BY <1>12, <2>2, <2>3, <2>4 DEF Twice
<1> QED
  BY <1>5, <1>6, <1>7, <1>8, <1>9, <1>10, <1>11, <1>12

LEMMA AnswerNext == ASSUME TypeOK, AnswerInv, [Next]_vars PROVE AnswerInv'
<1>1. ASSUME Disconnect \/ Notice \/ MonitorStops \/ UNCHANGED vars PROVE AnswerInv'
  <2>1. UNCHANGED <<wait, outcome, kept, serves, executed>>
    BY <1>1 DEF Disconnect, Notice, MonitorStops, vars, host, wallet
  <2> QED
    BY <2>1, AnswerQuiet DEF Executed
<1>2. ASSUME TakeLeave PROVE AnswerInv'
  <2>1. UNCHANGED <<wait, outcome, serves, executed>> /\ kept'.response = kept.response
    BY <1>2 DEF TakeLeave, TypeOK, Channels
  <2> QED
    BY <2>1, AnswerQuiet DEF Executed
<1> QED
  BY <1>1, <1>2, AnswerHost, AnswerReadOwn, AnswerReadPeer, AnswerPeerGone, AnswerOpenPeer,
     AnswerWallet DEF Next, CallStep, WalletStep

-----------------------------------------------------------------------------
(* What the wallet executes.                                               *)

Delivered == ToSet(inbox) \cup ToSet(served) \cup ToSet(executed.now)

LEMMA DeliveredTypes ==
  ASSUME TypeOK
  PROVE  /\ Delivered \subseteq Ids
         /\ served # << >> => Last(served) \in ToSet(served)
         /\ inbox \in Seq(Ids) /\ served \in Seq(Ids) /\ executed.now \in Seq(Ids)
         /\ \A c \in Calls : priority[c] \in Nat
<1>1. inbox \in Seq(Ids) /\ served \in Seq(Ids) /\ executed.now \in Seq(Ids)
      /\ \A c \in Calls : priority[c] \in Nat
  BY DEF TypeOK
<1> QED
  BY <1>1, SetOfSequence, LastIsInSet DEF Delivered

\* The order in which requests were submitted is one.
LEMMA OlderOrders ==
  ASSUME TypeOK, SenderInv
  PROVE  /\ \A x \in Ids : Older(x, x)
         /\ \A x, y, z \in Ids : Older(x, y) /\ Older(y, z) => Older(x, z)
         /\ \A x, y \in Ids : Known(x) /\ Older(x, y) /\ Older(y, x) => x = y
<1>1. \A c \in Calls : priority[c] \in Nat
  BY DEF TypeOK
<1>2. \A x \in Ids : Older(x, x)
  BY <1>1 DEF Older, Ids
<1>3. \A x, y, z \in Ids : Older(x, y) /\ Older(y, z) => Older(x, z)
  BY <1>1 DEF Older, Ids
<1>4. ASSUME NEW x \in Ids, NEW y \in Ids, Known(x), Older(x, y), Older(y, x) PROVE x = y
  BY <1>1, <1>4 DEF Older, Ids, Known, SenderInv
<1> QED
  BY <1>2, <1>3, <1>4

\* Steps that deliver nothing to the wallet, and have it take up nothing.
LEMMA WalletQuiet ==
  ASSUME TypeOK, WalletInv, kept'.request = kept.request, UNCHANGED <<priority, served>>,
         executed'.now = executed.now, inbox' \in {inbox, << >>},
         \/ serves' = serves \/ serves'.step = "take"
         \/ serves.step = "ack" /\ serves' = [serves EXCEPT !.step = "answer"]
  PROVE  WalletInv'
<1>1. ToSet(inbox') \subseteq ToSet(inbox)
      /\ \A i, j \in 1 .. Len(inbox') : i <= j => Older(inbox'[i], inbox'[j])
  <2>1. CASE inbox' = inbox
    BY <2>1 DEF WalletInv, QueueInv
  <2>2. CASE inbox' = << >>
    BY <2>2, SetOfShort
  <2> QED
    BY <2>1, <2>2
<1>2. /\ serves'.step # "take" => serves.step # "take" /\ serves'.id = serves.id
      /\ serves'.step \in {"ack", "answer"} => serves.step \in {"ack", "answer"}
  BY DEF TypeOK, Idle
<1>3. DeliveredInv'
  BY <1>1 DEF WalletInv, DeliveredInv, Known
<1>4. QueueInv'
  BY <1>1, <1>2 DEF WalletInv, QueueInv, Older
<1>5. RunInv'
  BY <1>2 DEF WalletInv, RunInv, Older, ExecutedOnceARun
<1> QED
  BY <1>3, <1>4, <1>5 DEF WalletInv

\* The store delivers what was submitted last.
LEMMA WalletDelivery ==
  ASSUME TypeOK, SenderInv, WalletInv, NEW id \in Ids, inbox' = ToWallet(id),
         UNCHANGED <<priority, served, serves, executed>>,
         \A x \in Delivered : Older(x, id) /\ Known(x)', Known(id)'
  PROVE  WalletInv'
<1>1. inbox \in Seq(Ids) /\ ToSet(inbox) \subseteq Delivered /\ ToSet(served) \subseteq Delivered
  BY DeliveredTypes DEF Delivered
<1>2. ToSet(inbox') \subseteq ToSet(inbox) \cup {id}
  BY <1>1, SetOfAppend DEF ToWallet
<1>3. DeliveredInv'
  BY <1>2 DEF DeliveredInv, Delivered
<1>4. \A i, j \in 1 .. Len(inbox') : i <= j => Older(inbox'[i], inbox'[j])
  <2>1. CASE inbox' = inbox
    BY <2>1 DEF WalletInv, QueueInv
  <2>2. CASE inbox' = Append(inbox, id)
    <3> SUFFICES ASSUME NEW i \in 1 .. Len(inbox'), NEW j \in 1 .. Len(inbox'), i <= j
                 PROVE  Older(inbox'[i], inbox'[j])
      OBVIOUS
    <3>1. Len(inbox') = Len(inbox) + 1 /\ inbox'[Len(inbox) + 1] = id /\ Len(inbox) \in Nat
          /\ \A k \in 1 .. Len(inbox) : inbox'[k] = inbox[k] /\ inbox[k] \in Delivered
      BY <1>1, <2>2, SetOfSequence
    <3>2. CASE j \in 1 .. Len(inbox)
      <4>1. i \in 1 .. Len(inbox)
        BY <3>1, <3>2
      <4> QED
        BY <3>1, <3>2, <4>1 DEF WalletInv, QueueInv
    <3>3. CASE j = Len(inbox) + 1
      <4>1. i \in 1 .. Len(inbox) \/ i = j
        BY <3>1, <3>3
      <4> QED
        BY <3>1, <3>3, <4>1, OlderOrders
    <3> QED
      BY <3>1, <3>2, <3>3
  <2> QED
    BY <2>1, <2>2 DEF ToWallet
<1>5. served # << >> => \A x \in ToSet(inbox') : Older(Last(served), x)
  BY <1>1, <1>2, DeliveredTypes DEF WalletInv, QueueInv
<1>6. QueueInv'
  BY <1>4, <1>5 DEF WalletInv, QueueInv, Older
<1>7. RunInv'
  BY DEF WalletInv, RunInv, Older, ExecutedOnceARun
<1> QED
  BY <1>3, <1>6, <1>7 DEF WalletInv

\* Nothing delivered has an expiry that is yet to be drawn.
LEMMA WalletCheck ==
  ASSUME TypeOK, SenderInv, WalletInv, NEW c \in Calls, Check(c)
  PROVE  WalletInv'
<1>1. UNCHANGED <<kept, inbox, served, serves, executed>>
  BY DEF Check, wallet
<1>2. priority[c] = 0 /\ c # Goodbye
  BY NameAssumption DEF Check, SenderInv
<1>3. c \notin Delivered
  BY <1>2 DEF WalletInv, DeliveredInv, Delivered, Known
<1>4. \A x \in Delivered : x = Goodbye \/ priority'[x] = priority[x]
  <2>1. \A d \in Calls : d # c => priority'[d] = priority[d]
    BY DEF Check, TypeOK
  <2> QED
    BY <1>3, <2>1, DeliveredTypes DEF Ids
<1>5. \A x, y \in Delivered : Older(x, y) => Older(x, y)'
  BY <1>4 DEF Older
<1>6. \A x \in Delivered : Known(x) => Known(x)'
  BY <1>1, <1>4 DEF Known
<1>7. /\ ToSet(inbox) \subseteq Delivered /\ ToSet(executed.now) \subseteq Delivered
      /\ served # << >> => Last(served) \in Delivered
      /\ \A i \in 1 .. Len(inbox) : inbox[i] \in Delivered
  BY DeliveredTypes, SetOfSequence DEF Delivered
<1>8. DeliveredInv'
  BY <1>1, <1>6 DEF WalletInv, DeliveredInv, Delivered
<1>9. QueueInv'
  <2>1. \A i, j \in 1 .. Len(inbox) : i <= j => Older(inbox[i], inbox[j])'
    BY <1>1, <1>5, <1>7 DEF WalletInv, QueueInv
  <2>2. served # << >> => \A x \in ToSet(inbox) : Older(Last(served), x)'
    BY <1>1, <1>5, <1>7 DEF WalletInv, QueueInv
  <2> QED
    BY <1>1, <2>1, <2>2 DEF WalletInv, QueueInv
<1>10. RunInv'
  <2>1. \A x \in ToSet(executed.now) : served # << >> /\ Older(x, Last(served))'
    BY <1>1, <1>5, <1>7 DEF WalletInv, RunInv
  <2> QED
    BY <1>1, <2>1 DEF WalletInv, RunInv, ExecutedOnceARun
<1> QED
  BY <1>8, <1>9, <1>10 DEF WalletInv

LEMMA WalletTaken ==
  ASSUME TypeOK, SenderInv, WalletInv, NEW c \in Calls, Taken(c)
  PROVE  WalletInv'
<1>1. UNCHANGED <<priority, served, serves, executed>> /\ sending[c] = "sent"
      /\ priority[c] > kept.request.priority
  BY DEF Taken
<1>2. CASE UNCHANGED <<kept, inbox>>
  BY <1>1, <1>2, WalletQuiet
<1>3. CASE /\ kept' = [kept EXCEPT !.request = [id |-> c, priority |-> priority[c]]]
           /\ inbox' = ToWallet(c)
  <2>1. kept'.request.id = c /\ kept'.request.priority = priority[c] /\ c \in Ids /\ c # Goodbye
        /\ kept.request.priority \in Nat
    BY <1>3, NameAssumption DEF TypeOK, Channels, Ids
  <2>2. Known(c)'
    BY <1>1, <2>1 DEF Known, SenderInv, TypeOK
  <2>3. \A x \in Delivered : Known(x) /\ x \in Ids
    BY DeliveredTypes DEF WalletInv, DeliveredInv, Delivered
  <2>4. ASSUME NEW x \in Delivered PROVE Older(x, c) /\ Known(x)'
    <3>1. x # Goodbye
      BY <1>1, <2>1, <2>3, <2>4 DEF Known, SenderInv, TypeOK
    <3>2. priority[x] \in Nat /\ priority[c] \in Nat
      BY <2>3, <2>4, <3>1 DEF TypeOK, Ids
    <3> QED
      BY <1>1, <2>1, <2>3, <2>4, <3>1, <3>2 DEF Known, Older
  <2> QED
    BY <1>1, <1>3, <2>1, <2>2, <2>4, WalletDelivery
<1> QED
  BY <1>2, <1>3 DEF Taken

\* Nothing is submitted after the statement that takes leave.
LEMMA WalletLeave ==
  ASSUME TypeOK, SenderInv, WalletInv, TakeLeave
  PROVE  WalletInv'
<1>1. UNCHANGED <<priority, served, serves, executed>>
  BY DEF TakeLeave
<1>2. CASE UNCHANGED <<kept, inbox>>
  BY <1>1, <1>2, WalletQuiet
<1>3. CASE /\ kept' = [kept EXCEPT !.request = [id |-> Goodbye, priority |-> expiry + 1]]
           /\ inbox' = ToWallet(Goodbye)
  <2>1. kept'.request.id = Goodbye /\ kept'.request.priority = expiry + 1 /\ Goodbye \in Ids
    BY <1>3 DEF TypeOK, Channels, Ids
  <2>2. Known(Goodbye)'
    BY <2>1 DEF Known
  <2>3. ASSUME NEW x \in Delivered PROVE Older(x, Goodbye) /\ Known(x)'
    <3>1. Known(x) /\ x \in Ids
      BY <2>3, DeliveredTypes DEF WalletInv, DeliveredInv, Delivered
    <3>2. CASE x = Goodbye
      BY <2>2, <3>2 DEF Older
    <3>3. CASE x # Goodbye
      <4>1. priority[x] <= expiry /\ priority[x] \in Nat /\ expiry \in Nat
        BY <3>1, <3>3 DEF TypeOK, Ids
      <4> QED
        BY <1>1, <2>1, <3>1, <3>3, <4>1 DEF Known, Older
    <3> QED
      BY <3>2, <3>3
  <2> QED
    BY <1>1, <1>3, <2>1, <2>2, <2>3, WalletDelivery
<1> QED
  BY <1>2, <1>3 DEF TakeLeave

LEMMA WalletTwice ==
  ASSUME TypeOK, SenderInv, WalletInv, Twice
  PROVE  WalletInv'
<1>1. UNCHANGED <<priority, kept, served, serves, executed>>
  BY DEF Twice
<1>2. CASE UNCHANGED inbox
  BY <1>1, <1>2, WalletQuiet
<1>3. CASE kept.request.id # None /\ inbox' = ToWallet(kept.request.id)
  <2>1. kept.request.id \in Ids
    BY <1>3 DEF TypeOK, Channels
  <2>2. Known(kept.request.id)
    BY <2>1 DEF Known, SenderInv, Ids, TypeOK
  <2>3. ASSUME NEW x \in Delivered PROVE Older(x, kept.request.id) /\ Known(x)
    <3>1. Known(x) /\ x \in Ids
      BY <2>3, DeliveredTypes DEF WalletInv, DeliveredInv, Delivered
    <3> QED
      BY <2>1, <3>1 DEF Known, Older, SenderInv, Ids
  <2>4. \A x : Known(x) => Known(x)'
    BY <1>1 DEF Known
  <2>5. Known(kept.request.id)'
    BY <1>1, <2>2 DEF Known
  <2> QED
    BY <1>1, <1>3, <2>1, <2>3, <2>4, <2>5, WalletDelivery
<1> QED
  BY <1>2, <1>3 DEF Twice

\* What is taken up is newer than all that was, unless it is the last one
\* again: so it was not executed, whatever the window has forgotten.
LEMMA WalletTake ==
  ASSUME TypeOK, SenderInv, WalletInv, Take
  PROVE  WalletInv'
<1> DEFINE id == Head(inbox)
<1>1. inbox # << >> /\ inbox' = Tail(inbox) /\ UNCHANGED <<kept, priority, executed>>
  BY DEF Take, host
<1>2. inbox \in Seq(Ids) /\ served \in Seq(Ids) /\ Len(inbox) \in Nat \ {0}
      /\ id = inbox[1] /\ id \in ToSet(inbox) /\ id \in Ids
      /\ ToSet(inbox') \subseteq ToSet(inbox)
  BY <1>1, SetOfTail DEF TypeOK
<1>3. Len(inbox') = Len(inbox) - 1 /\ \A i \in 1 .. Len(inbox') : inbox'[i] = inbox[i + 1]
  BY <1>1, <1>2
<1> HIDE DEF id
<1>4. \A i, j \in 1 .. Len(inbox') : i <= j => Older(inbox'[i], inbox'[j])
  <2> SUFFICES ASSUME NEW i \in 1 .. Len(inbox'), NEW j \in 1 .. Len(inbox'), i <= j
               PROVE  Older(inbox[i + 1], inbox[j + 1])
    BY <1>3
  <2>1. i + 1 \in 1 .. Len(inbox) /\ j + 1 \in 1 .. Len(inbox) /\ i + 1 <= j + 1
    BY <1>2, <1>3
  <2> QED
    BY <2>1 DEF WalletInv, QueueInv
<1>5. CASE UNCHANGED <<served, serves>>
  <2>1. DeliveredInv'
    BY <1>1, <1>2, <1>5 DEF WalletInv, DeliveredInv, Known
  <2>2. QueueInv'
    BY <1>1, <1>2, <1>4, <1>5 DEF WalletInv, QueueInv, Older
  <2>3. RunInv'
    BY <1>1, <1>5 DEF WalletInv, RunInv, Older, ExecutedOnceARun
  <2> QED
    BY <2>1, <2>2, <2>3 DEF WalletInv
<1>6. CASE /\ id \notin ToSet(served) /\ serves' = [id |-> id, step |-> "ack"]
           /\ served' = IF Len(served) = MaxServed THEN Append(Tail(served), id)
                        ELSE Append(served, id)
  <2>1. /\ ToSet(served') \subseteq ToSet(served) \cup {id}
        /\ Last(served') = id /\ served' # << >>
    <3>1. CASE Len(served) = MaxServed
      <4>1. served # << >>
        BY <3>1, BoundAssumption
      <4>2. PICK rest \in Seq(Ids) : rest = Tail(served) /\ ToSet(rest) \subseteq ToSet(served)
        <5>1. Tail(served) \in Seq(Ids)
          BY <1>2, <4>1
        <5>2. ToSet(Tail(served)) \subseteq ToSet(served)
          BY <1>2, <4>1, SetOfTail
        <5> QED
          BY <5>1, <5>2
      <4>3. served' = Append(rest, id)
        BY <1>6, <3>1, <4>2
      <4>4. ToSet(Append(rest, id)) = ToSet(rest) \cup {id}
        BY <1>2, SetOfAppend
      <4>5. Last(Append(rest, id)) = id /\ Append(rest, id) # << >>
        BY <1>2, LastOfAppend
      <4> QED
        BY <4>2, <4>3, <4>4, <4>5
    <3>2. CASE Len(served) # MaxServed
      BY <1>2, <1>6, <3>2, SetOfAppend, LastOfAppend
    <3> QED
      BY <3>1, <3>2
  <2>2. DeliveredInv'
    BY <1>1, <1>2, <2>1 DEF WalletInv, DeliveredInv, Known
  <2>3. ASSUME NEW x \in ToSet(inbox') PROVE Older(id, x)
    <3>1. PICK i \in 1 .. Len(inbox') : x = inbox'[i]
      BY <1>1, <1>2, <2>3 DEF ToSet
    <3>2. i + 1 \in 1 .. Len(inbox) /\ 1 \in 1 .. Len(inbox) /\ 1 <= i + 1
      BY <1>2, <1>3
    <3> QED
      BY <1>2, <1>3, <3>1, <3>2 DEF WalletInv, QueueInv
  <2>4. QueueInv'
    <3>1. \A x \in ToSet(inbox') : Older(Last(served'), x)
      BY <2>1, <2>3
    <3>2. serves'.id = Last(served')
      BY <1>6, <2>1
    <3> QED
      BY <1>1, <1>4, <2>1, <3>1, <3>2 DEF QueueInv, Older
  <2>5. ASSUME NEW x \in ToSet(executed.now) PROVE Older(x, id) /\ x # id
    <3>1. served # << >> /\ Older(x, Last(served)) /\ Older(Last(served), id)
      BY <1>2, <2>5 DEF WalletInv, RunInv, QueueInv
    <3>2. x \in Ids /\ Last(served) \in Ids /\ Last(served) \in ToSet(served) /\ Known(Last(served))
      BY <2>5, <3>1, DeliveredTypes DEF Delivered, WalletInv, DeliveredInv
    <3>3. Older(x, id)
      BY <1>2, <3>1, <3>2, OlderOrders
    <3>4. x # id
      BY <1>2, <1>6, <3>1, <3>2, OlderOrders
    <3> QED
      BY <3>3, <3>4
  <2>6. RunInv'
    <3>1. \A x \in ToSet(executed'.now) : served' # << >> /\ Older(x, Last(served'))
      BY <1>1, <2>1, <2>5
    <3>2. serves'.id \notin ToSet(executed'.now)
      BY <1>1, <1>6, <2>5
    <3> QED
      BY <1>1, <3>1, <3>2 DEF RunInv, WalletInv, ExecutedOnceARun, Older
  <2> QED
    BY <2>2, <2>4, <2>6 DEF WalletInv
<1> QED
  BY <1>5, <1>6 DEF Take, id

LEMMA WalletAnswer == ASSUME TypeOK, SenderInv, WalletInv, Answer PROVE WalletInv'
<1>1. /\ serves.step = "answer" /\ serves' = [serves EXCEPT !.step = "respond"]
      /\ executed' = [executed EXCEPT !.now = Append(@, serves.id)]
      /\ UNCHANGED <<kept, priority, inbox, served>>
  BY DEF Answer, host
<1>2. serves'.step = "respond" /\ serves'.id = serves.id /\ serves.id \in Ids
      /\ executed.now \in Seq(Ids) /\ executed'.now = Append(executed.now, serves.id)
  BY <1>1 DEF TypeOK, Idle
<1>3. ToSet(executed'.now) = ToSet(executed.now) \cup {serves.id}
  BY <1>2, SetOfAppend
<1>4. served # << >> /\ serves.id = Last(served) /\ serves.id \in ToSet(served)
      /\ serves.id \notin ToSet(executed.now)
  BY <1>1, DeliveredTypes DEF WalletInv, QueueInv, RunInv
<1>5. DeliveredInv'
  BY <1>1, <1>3, <1>4 DEF WalletInv, DeliveredInv, Known
<1>6. QueueInv'
  BY <1>1, <1>2, <1>4 DEF WalletInv, QueueInv, Older
<1>7. RunInv'
  <2>1. IsInjective(executed'.now)
    BY <1>2, <1>4, InjectiveAppend DEF WalletInv, RunInv, ExecutedOnceARun
  <2>2. \A x \in ToSet(executed'.now) : Older(x, Last(served))
    BY <1>2, <1>3, <1>4, OlderOrders DEF WalletInv, RunInv
  <2>3. \A x \in ToSet(executed'.now) : served' # << >> /\ Older(x, Last(served'))
    BY <1>1, <1>3, <1>4, <2>2
  <2> QED
    BY <1>1, <1>2, <2>1, <2>3 DEF RunInv, ExecutedOnceARun, Older
<1> QED
  BY <1>5, <1>6, <1>7 DEF WalletInv

\* A new run has served nothing, and finds what the store keeps.
LEMMA WalletRestart == ASSUME TypeOK, SenderInv, WalletInv, Restart PROVE WalletInv'
<1>1. /\ served' = << >> /\ serves' = Idle /\ executed'.now = << >>
      /\ inbox' = IF kept.request.id = None THEN << >> ELSE <<kept.request.id>>
      /\ UNCHANGED <<kept, priority>>
  BY DEF Restart, host
<1>2. ToSet(served') = {} /\ ToSet(executed'.now) = {}
      /\ ToSet(inbox') = IF kept.request.id = None THEN {} ELSE {kept.request.id}
  BY <1>1, SetOfShort
<1>3. kept.request.id # None => kept.request.id \in Ids /\ Known(kept.request.id)
  BY DEF TypeOK, Channels, Known, SenderInv, Ids
<1>4. DeliveredInv'
  BY <1>1, <1>2, <1>3 DEF DeliveredInv, Known
<1>5. QueueInv'
  <2>1. \A i, j \in 1 .. Len(inbox') : inbox'[i] = kept.request.id /\ inbox'[j] = kept.request.id
                                        /\ kept.request.id # None
    BY <1>1
  <2>2. kept.request.id # None => Older(kept.request.id, kept.request.id)
    BY <1>3, OlderOrders
  <2>3. \A i, j \in 1 .. Len(inbox') : i <= j => Older(inbox'[i], inbox'[j])
    BY <2>1, <2>2
  <2> QED
    BY <1>1, <2>3 DEF QueueInv, Idle, Older
<1>6. RunInv'
  BY <1>1, <1>2 DEF RunInv, Idle, ExecutedOnceARun, IsInjective
<1> QED
  BY <1>4, <1>5, <1>6 DEF WalletInv

LEMMA WalletNext == ASSUME TypeOK, SenderInv, WalletInv, [Next]_vars PROVE WalletInv'
<1>1. \A v : /\ [kept EXCEPT !.ack = v].request = kept.request
             /\ [kept EXCEPT !.response = v].request = kept.request
  BY DEF TypeOK, Channels
<1>2. Idle.step = "take"
  BY DEF Idle
<1>3. ASSUME UNCHANGED <<kept, priority, inbox, served, serves, executed>> PROVE WalletInv'
  BY <1>3, WalletQuiet
<1>4. ASSUME NEW c \in Calls,
             \/ Begin(c) \/ OpenOwn(c) \/ OpenPeer(c) \/ Submit(c) \/ Refused(c) \/ ReadOwn(c)
             \/ ReadPeer(c) \/ PeerGone(c) \/ Hear(c) \/ Cancel(c) \/ Fail(c) \/ BothDone(c)
             \/ \E ended \in SUBSET Streams : StreamsEnd(c, ended)
      PROVE  WalletInv'
  BY <1>3, <1>4 DEF Begin, OpenOwn, OpenPeer, Submit, Refused, ReadOwn, ReadPeer, PeerGone,
                    Hear, Cancel, Fail, BothDone, StreamsEnd, wallet
<1>5. ASSUME Disconnect \/ Notice \/ MonitorStops \/ UNCHANGED vars PROVE WalletInv'
  BY <1>3, <1>5 DEF Disconnect, Notice, MonitorStops, vars, host, wallet
<1>6. ASSUME NEW ok \in BOOLEAN, Ack(ok) PROVE WalletInv'
  <2>1. serves.step = "ack" /\ inbox' \in {inbox, << >>}
        /\ (serves' = Idle \/ serves' = [serves EXCEPT !.step = "answer"])
    BY <1>6 DEF Ack, Exit
  <2> QED
    BY <1>1, <1>2, <1>6, <2>1, WalletQuiet DEF Ack
<1>7. ASSUME Respond PROVE WalletInv'
  BY <1>1, <1>2, <1>7, WalletQuiet DEF Respond
<1>8. ASSUME Break \/ WalletLeaves PROVE WalletInv'
  BY <1>1, <1>2, <1>8, WalletQuiet DEF Break, WalletLeaves, Exit, host
<1> QED
  BY <1>4, <1>5, <1>6, <1>7, <1>8, WalletCheck, WalletTaken, WalletLeave, WalletTwice, WalletTake,
     WalletAnswer, WalletRestart DEF Next, CallStep, WalletStep

-----------------------------------------------------------------------------
LEMMA InvInit == Init => IInv
<1> SUFFICES ASSUME Init PROVE IInv
  OBVIOUS
<1>1. AnswerInv
  BY SetOfShort DEF Init, AnswerInv, AnswersAreTheCalls, Nothing, Fresh, Idle
<1>2. SenderInv
  BY NameAssumption DEF Init, SenderInv, Nothing
<1>3. WalletInv
  BY SetOfShort DEF Init, WalletInv, DeliveredInv, QueueInv, RunInv, ExecutedOnceARun, Idle, IsInjective
<1> QED
  BY <1>1, <1>2, <1>3, TypeInit DEF IInv

LEMMA InvNext == IInv /\ [Next]_vars => IInv'
  BY TypeNext, AnswerNext, SenderNext, WalletNext DEF IInv

(* The inductive invariant holds whatever is lost, repeated, replaced or   *)
(* overtaken between the host and its wallet.                              *)
THEOREM Safety == Spec => []IInv
  BY InvInit, InvNext, PTL DEF Spec

(* A call that returns a response was executed by the wallet: no other     *)
(* call's response, none the store kept and no acknowledgement by itself   *)
(* is taken for it (wait_for_sso_remote_response).                         *)
THEOREM AnswersAreTheCallsHolds == Spec => []AnswersAreTheCalls
<1>1. IInv => AnswersAreTheCalls
  BY DEF IInv, AnswerInv
<1> QED
  BY <1>1, Safety, PTL

(* A run of serve_session executes a request once, however often the store *)
(* delivers it and however few ids ServedRequestIds remembers.             *)
THEOREM ExecutedOnceARunHolds == Spec => []ExecutedOnceARun
<1>1. IInv => ExecutedOnceARun
  BY DEF IInv, WalletInv, RunInv
<1> QED
  BY <1>1, Safety, PTL

=============================================================================
