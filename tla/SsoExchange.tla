------------------------------- MODULE SsoExchange -------------------------------
(***************************************************************************)
(* Requests of a pairing host to the wallet it is paired with, over the    *)
(* People chain's statement store: submit_remote_message and the wait for  *)
(* the response (runtime/pairing_host/sso_channel.rs, sso_remote.rs), and  *)
(* the wallet's serve loop (signing_host/sso_responder.rs).                *)
(*                                                                         *)
(* The store is external.  It keeps the statement with the highest         *)
(* priority of each channel, gives a new subscriber what it keeps and every *)
(* subscriber what it takes, now and then twice.                           *)
(***************************************************************************)
EXTENDS Naturals, Sequences, FiniteSets, SequencesExt

CONSTANTS Calls,     \* requests, named by their message id
          Goodbye,   \* the message `Disconnected`
          None,
          MaxServed, \* MAX_SERVED_REQUEST_IDS
          MaxRuns,   \* bound: how often the wallet answers the deeplink
          MaxFaults  \* bound: submissions and subscriptions that fail, and
                     \* statements delivered twice

ASSUME NameAssumption  == Goodbye \notin Calls /\ None \notin Calls \cup {Goodbye}
ASSUME BoundAssumption == MaxServed \in Nat \ {0} /\ {MaxRuns, MaxFaults} \subseteq Nat

VARIABLES
  connected, \* the host's session is this one
  pc,        \* where each call is
  waiter,    \* its oneshot in `session_disconnects`
  wait,      \* its two subscriptions, as far as they have not been read, those
             \* that have not ended, its `request_accepted` and whether there is
             \* a `pending_remote_response`
  sending,   \* its `submit` future
  outcome,
  expiry,    \* LAST_SSO_STATEMENT_EXPIRY
  priority,  \* the expiry of each request statement
  farewell,  \* the host's Disconnected: no, owed, sent, lost
  monitor,   \* wait_for_sso_peer_disconnect has not failed
  kept,      \* what the store keeps on the request, ack and response channel
  serving,   \* the wallet: off, on, gone
  inbox,     \* its subscription
  served,    \* `ServedRequestIds`
  serves,    \* the request it is at, and the step
  executed,  \* history: the requests executed in this run, and in earlier ones
  spent      \* the bounds used up

host   == <<connected, pc, waiter, wait, sending, outcome, expiry, priority, farewell, monitor>>
wallet == <<serving, inbox, served, serves, executed>>
vars   == <<host, kept, wallet, spent>>

Ids == Calls \cup {Goodbye}
Acks == [id : Ids \cup {None}, ok : BOOLEAN]
Channels == [request : [id : Ids \cup {None}, priority : Nat], ack : Acks,
             response : Ids \cup {None}]
Streams == {"own", "peer"}
Waits == [own : Seq(Acks), peer : Seq(Ids), open : SUBSET Streams, accepted : BOOLEAN, pending : BOOLEAN]
Nothing == [request |-> [id |-> None, priority |-> 0], ack |-> [id |-> None, ok |-> TRUE], response |-> None]
Fresh == [own |-> << >>, peer |-> << >>, open |-> Streams, accepted |-> FALSE, pending |-> FALSE]
Idle == [id |-> None, step |-> "take"]

Init ==
  /\ connected = TRUE
  /\ pc = [c \in Calls |-> "idle"] /\ waiter = [c \in Calls |-> "none"]
  /\ wait = [c \in Calls |-> Fresh]
  /\ sending = [c \in Calls |-> "unsent"]
  /\ outcome = [c \in Calls |-> "none"]
  /\ expiry = 0 /\ priority = [c \in Calls |-> 0] /\ farewell = "no" /\ monitor = TRUE
  /\ kept = Nothing
  /\ serving = "on" /\ inbox = << >> /\ served = << >> /\ serves = Idle
  /\ executed = [now |-> << >>, before |-> {}]
  /\ spent = [runs |-> 1, faults |-> 0]

Spend(what, bound) == spent[what] < bound /\ spent' = [spent EXCEPT ![what] = @ + 1]

\* A call ends; its SessionDisconnectGuard takes the waiter off the registry.
End(c, how) ==
  /\ pc' = [pc EXCEPT ![c] = "ended"] /\ outcome' = [outcome EXCEPT ![c] = how]
  /\ waiter' = [waiter EXCEPT ![c] = "none"]
  /\ wait' = [wait EXCEPT ![c] = Fresh]

\* Who is subscribed, and what he is sent
Acked(ack) ==
  [c \in Calls |-> IF pc[c] \in {"peer", "waiting"} /\ "own" \in wait[c].open
                   THEN [wait[c] EXCEPT !.own = Append(@, ack)] ELSE wait[c]]
Answered(id) ==
  [c \in Calls |-> IF pc[c] = "waiting" /\ "peer" \in wait[c].open
                   THEN [wait[c] EXCEPT !.peer = Append(@, id)] ELSE wait[c]]
ToWallet(id) == IF serving = "on" THEN Append(inbox, id) ELSE inbox

-----------------------------------------------------------------------------
(* The host: submit_remote_message.                                        *)

(* Operators whose name begins with Mis are no part of the model.  Each is *)
(* a plausible mistake in the operator it precedes; PROJECT.json says      *)
(* which property has to notice it.                                        *)

MisBegin(c) ==  \* nobody is told when the session ends
  /\ pc[c] = "idle"
  /\ pc' = [pc EXCEPT ![c] = "armed"]
  /\ UNCHANGED <<connected, waiter, wait, sending, outcome, expiry, priority,
                 farewell, monitor, kept, wallet, spent>>

\* SessionDisconnects::subscribe, for the session the caller has seen
Begin(c) ==
  /\ pc[c] = "idle"
  /\ pc' = [pc EXCEPT ![c] = "armed"]
  /\ waiter' = [waiter EXCEPT ![c] = "armed"]
  /\ UNCHANGED <<connected, wait, sending, outcome, expiry, priority,
                 farewell, monitor, kept, wallet, spent>>

\* The session is compared; the statement is built, with its expiry.
Check(c) ==
  /\ pc[c] = "armed"
  /\ IF connected
     THEN /\ pc' = [pc EXCEPT ![c] = "own"]
          /\ expiry' = expiry + 1 /\ priority' = [priority EXCEPT ![c] = expiry + 1]
          /\ UNCHANGED <<waiter, wait, outcome>>
     ELSE End(c, "local") /\ UNCHANGED <<expiry, priority>>
  /\ UNCHANGED <<connected, sending, farewell, monitor, kept, wallet, spent>>

\* The connection and the two subscriptions
OpenOwn(c) ==
  /\ pc[c] = "own"
  /\ pc' = [pc EXCEPT ![c] = "peer"]
  /\ wait' = [wait EXCEPT ![c].own = IF kept.ack.id = None THEN << >> ELSE <<kept.ack>>]
  /\ UNCHANGED <<connected, waiter, sending, outcome, expiry, priority,
                 farewell, monitor, kept, wallet, spent>>

OpenPeer(c) ==
  /\ pc[c] = "peer"
  /\ pc' = [pc EXCEPT ![c] = "waiting"]
  /\ wait' = [wait EXCEPT ![c].peer = IF kept.response = None THEN << >> ELSE <<kept.response>>]
  /\ UNCHANGED <<connected, waiter, sending, outcome, expiry, priority,
                 farewell, monitor, kept, wallet, spent>>

\* The `submit` future: the session is compared once more, but not before a
\* retry.
Submit(c) ==
  /\ pc[c] = "waiting"
  /\ \/ sending[c] = "unsent" /\ ~ connected /\ End(c, "local") /\ UNCHANGED sending
     \/ /\ (sending[c] = "unsent" /\ connected) \/ sending[c] = "retry"
        /\ sending' = [sending EXCEPT ![c] = "sent"]
        /\ UNCHANGED <<pc, waiter, wait, outcome>>
  /\ UNCHANGED <<connected, expiry, priority, farewell, monitor, kept, wallet, spent>>

\* The store, and submit_sso: a statement below what the channel keeps is
\* refused.  With no allowance in sight yet the submission is repeated.
Taken(c) ==
  /\ sending[c] = "sent" /\ priority[c] > kept.request.priority
  /\ \/ /\ kept' = [kept EXCEPT !.request = [id |-> c, priority |-> priority[c]]]
        /\ inbox' = ToWallet(c)
        /\ sending' = [sending EXCEPT ![c] = "taken"] /\ UNCHANGED spent
     \/ /\ Spend("faults", MaxFaults)
        /\ sending' = [sending EXCEPT ![c] = "retry"] /\ UNCHANGED <<kept, inbox>>
  /\ UNCHANGED <<connected, pc, waiter, wait, outcome, expiry, priority,
                 farewell, monitor, serving, served, serves, executed>>

Refused(c) ==
  /\ sending[c] = "sent" /\ priority[c] <= kept.request.priority
  /\ sending' = [sending EXCEPT ![c] = "refused"]
  /\ IF pc[c] = "waiting" THEN End(c, "failed") ELSE UNCHANGED <<pc, waiter, wait, outcome>>
  /\ UNCHANGED <<connected, expiry, priority, farewell, monitor, kept, wallet, spent>>

-----------------------------------------------------------------------------
(* The host: wait_for_sso_remote_response.                                 *)

MisReadOwn(c) ==  \* a response that came before is not looked at again
  /\ pc[c] = "waiting" /\ wait[c].own # << >>
  /\ LET ack == Head(wait[c].own) IN
     IF ack.id = c /\ ~ ack.ok THEN End(c, "failed")
     ELSE /\ wait' = [wait EXCEPT ![c] = [wait[c] EXCEPT !.accepted = @ \/ ack.id = c, !.own = Tail(@)]]
          /\ UNCHANGED <<pc, waiter, outcome>>
  /\ UNCHANGED <<connected, sending, expiry, priority, farewell, monitor, kept, wallet, spent>>

\* An acknowledgement
ReadOwn(c) ==
  /\ pc[c] = "waiting" /\ wait[c].own # << >>
  /\ LET ack == Head(wait[c].own) IN
     IF ack.id = c /\ (~ ack.ok \/ wait[c].pending)
     THEN End(c, IF ack.ok THEN "answer" ELSE "failed")
     ELSE /\ wait' = [wait EXCEPT ![c] = [wait[c] EXCEPT !.accepted = @ \/ ack.id = c, !.own = Tail(@)]]
          /\ UNCHANGED <<pc, waiter, outcome>>
  /\ UNCHANGED <<connected, sending, expiry, priority, farewell, monitor, kept, wallet, spent>>

\* Every waiter is told, once.
Told(reason) == [c \in Calls |-> IF waiter[c] = "armed" THEN reason ELSE waiter[c]]

\* handle_signing_host_disconnected: the waiters, then the session, if it is
\* still this one
PeerGone(c) ==
  /\ pc[c] = "waiting" /\ wait[c].peer # << >> /\ Head(wait[c].peer) = Goodbye
  /\ pc' = [pc EXCEPT ![c] = "ended"] /\ outcome' = [outcome EXCEPT ![c] = "peer"]
  /\ wait' = [wait EXCEPT ![c] = Fresh]
  /\ waiter' = [Told("peer") EXCEPT ![c] = "none"]
  /\ connected' = FALSE
  /\ UNCHANGED <<sending, expiry, priority, farewell, monitor, kept, wallet, spent>>

MisReadPeer(c) ==  \* whose response it is
  /\ pc[c] = "waiting" /\ wait[c].peer # << >> /\ Head(wait[c].peer) # Goodbye
  /\ IF wait[c].accepted THEN End(c, "answer")
     ELSE /\ wait' = [wait EXCEPT ![c] = [wait[c] EXCEPT !.pending = TRUE, !.peer = Tail(@)]]
          /\ UNCHANGED <<pc, waiter, outcome>>
  /\ UNCHANGED <<connected, sending, expiry, priority, farewell, monitor, kept, wallet, spent>>

\* A response
ReadPeer(c) ==
  /\ pc[c] = "waiting" /\ wait[c].peer # << >> /\ Head(wait[c].peer) # Goodbye
  /\ LET mine == Head(wait[c].peer) = c IN
     IF mine /\ wait[c].accepted THEN End(c, "answer")
     ELSE /\ wait' = [wait EXCEPT ![c] = [wait[c] EXCEPT !.pending = @ \/ mine, !.peer = Tail(@)]]
          /\ UNCHANGED <<pc, waiter, outcome>>
  /\ UNCHANGED <<connected, sending, expiry, priority, farewell, monitor, kept, wallet, spent>>

\* The session has ended.
Hear(c) ==
  /\ pc[c] = "waiting" /\ waiter[c] \in {"local", "peer"}
  /\ End(c, waiter[c])
  /\ UNCHANGED <<connected, sending, expiry, priority, farewell, monitor, kept, wallet, spent>>

\* The caller cancels or is timed out, or the call is dropped.
Cancel(c) ==
  /\ pc[c] \notin {"idle", "ended"}
  /\ End(c, "cancelled")
  /\ UNCHANGED <<connected, sending, expiry, priority, farewell, monitor, kept, wallet, spent>>

\* A subscription fails, when it is made or later, or the connection.
Fail(c) ==
  /\ pc[c] \in {"own", "peer", "waiting"} /\ Spend("faults", MaxFaults)
  /\ End(c, "failed")
  /\ UNCHANGED <<connected, sending, expiry, priority, farewell, monitor, kept, wallet>>

\* A subscription ends, or both with their connection.  What was delivered
\* is still read, and the call goes on with the other one.
StreamsEnd(c, ended) ==
  /\ pc[c] = "waiting" /\ Spend("faults", MaxFaults)
  /\ ended # {} /\ ended \subseteq wait[c].open
  /\ wait' = [wait EXCEPT ![c].open = @ \ ended]
  /\ UNCHANGED <<connected, pc, waiter, sending, outcome, expiry, priority, farewell, monitor,
                 kept, wallet>>

\* own_done and peer_done
BothDone(c) ==
  /\ pc[c] = "waiting" /\ wait[c].open = {} /\ wait[c].own = << >> /\ wait[c].peer = << >>
  /\ End(c, "failed")
  /\ UNCHANGED <<connected, sending, expiry, priority, farewell, monitor, kept, wallet, spent>>

-----------------------------------------------------------------------------
(* The host's session.                                                     *)

\* disconnect: the session, the waiters; a task of its own takes leave.
Disconnect ==
  /\ connected
  /\ connected' = FALSE /\ waiter' = Told("local")
  /\ farewell' = "owed"
  /\ UNCHANGED <<pc, wait, sending, outcome, expiry, priority, monitor, kept, wallet, spent>>

MisTakeLeave ==  \* Disconnected has the expiry of the statement before
  /\ farewell = "owed" /\ farewell' = "sent"
  /\ IF expiry > kept.request.priority
     THEN /\ kept' = [kept EXCEPT !.request = [id |-> Goodbye, priority |-> expiry]]
          /\ inbox' = ToWallet(Goodbye)
     ELSE UNCHANGED <<kept, inbox>>
  /\ UNCHANGED <<connected, pc, waiter, wait, sending, outcome, expiry, priority,
                 monitor, serving, served, serves, executed, spent>>

\* submit_disconnected_message.  Nobody waits for an answer of the store's
\* and nobody tries again: without a connection, or refused, it is lost.
TakeLeave ==
  /\ farewell = "owed" /\ expiry' = expiry + 1
  /\ \/ /\ farewell' = "sent"
        /\ kept' = [kept EXCEPT !.request = [id |-> Goodbye, priority |-> expiry + 1]]
        /\ inbox' = ToWallet(Goodbye) /\ UNCHANGED spent
     \/ /\ Spend("faults", MaxFaults)
        /\ farewell' = "lost" /\ UNCHANGED <<kept, inbox>>
  /\ UNCHANGED <<connected, pc, waiter, wait, sending, outcome, priority, monitor,
                 serving, served, serves, executed>>

\* wait_for_sso_peer_disconnect: the monitor finds the wallet's Disconnected.
Notice ==
  /\ connected /\ monitor /\ kept.response = Goodbye
  /\ connected' = FALSE /\ waiter' = Told("peer")
  /\ UNCHANGED <<pc, wait, sending, outcome, expiry, priority, farewell, monitor, kept, wallet, spent>>

\* It has no connection, or its subscription fails or ends; it is not started
\* again.
MonitorStops ==
  /\ connected /\ monitor /\ monitor' = FALSE
  /\ Spend("faults", MaxFaults)
  /\ UNCHANGED <<connected, pc, waiter, wait, sending, outcome, expiry, priority, farewell,
                 kept, wallet>>

-----------------------------------------------------------------------------
(* The wallet: serve_session and serve_request.                            *)

Exit(how) == serving' = how /\ inbox' = << >> /\ serves' = Idle

MisTake ==  \* the id is not recorded
  /\ serving = "on" /\ serves.step = "take" /\ inbox # << >>
  /\ inbox' = Tail(inbox)
  /\ LET id == Head(inbox) IN
     IF id \in ToSet(served) THEN UNCHANGED <<served, serves>>
     ELSE UNCHANGED served /\ serves' = [id |-> id, step |-> "ack"]
  /\ UNCHANGED <<host, kept, serving, executed, spent>>

\* ServedRequestIds::insert; the oldest id goes when there are too many.
Take ==
  /\ serving = "on" /\ serves.step = "take" /\ inbox # << >>
  /\ inbox' = Tail(inbox)
  /\ LET id == Head(inbox) IN
     IF id \in ToSet(served) THEN UNCHANGED <<served, serves>>
     ELSE /\ served' = IF Len(served) = MaxServed THEN Append(Tail(served), id) ELSE Append(served, id)
          /\ serves' = [id |-> id, step |-> "ack"]
  /\ UNCHANGED <<host, kept, serving, executed, spent>>

\* The acknowledgement: whether the messages could be decoded
Ack(ok) ==
  /\ serves.step = "ack" /\ (ok \/ serves.id # Goodbye)
  /\ kept' = [kept EXCEPT !.ack = [id |-> serves.id, ok |-> ok]]
  /\ wait' = Acked([id |-> serves.id, ok |-> ok])
  /\ IF ok /\ serves.id = Goodbye THEN Exit("gone")
     ELSE /\ serves' = IF ok THEN [serves EXCEPT !.step = "answer"] ELSE Idle
          /\ UNCHANGED <<serving, inbox>>
  /\ IF ok THEN UNCHANGED spent ELSE Spend("faults", MaxFaults)
  /\ UNCHANGED <<connected, pc, waiter, sending, outcome, expiry, priority,
                 farewell, monitor, served, executed>>

\* answer_remote_message: the user and the signer
Answer ==
  /\ serves.step = "answer"
  /\ executed' = [executed EXCEPT !.now = Append(@, serves.id)]
  /\ serves' = [serves EXCEPT !.step = "respond"]
  /\ UNCHANGED <<host, kept, serving, inbox, served, spent>>

Respond ==
  /\ serves.step = "respond"
  /\ kept' = [kept EXCEPT !.response = serves.id]
  /\ wait' = Answered(serves.id)
  /\ serves' = Idle
  /\ UNCHANGED <<connected, pc, waiter, sending, outcome, expiry, priority,
                 farewell, monitor, serving, inbox, served, executed, spent>>

\* A submission of the wallet's, or its subscription, fails.
Break ==
  /\ serving = "on" /\ Spend("faults", MaxFaults)
  /\ Exit("off")
  /\ UNCHANGED <<host, kept, served, executed>>

\* The wallet answers the deeplink once more: the session is the same, what
\* was served is forgotten, and the store has what it keeps.
Restart ==
  /\ serving = "off" /\ Spend("runs", MaxRuns)
  /\ serving' = "on" /\ served' = << >> /\ serves' = Idle
  /\ inbox' = IF kept.request.id = None THEN << >> ELSE <<kept.request.id>>
  /\ executed' = [now |-> << >>, before |-> executed.before \cup ToSet(executed.now)]
  /\ UNCHANGED <<host, kept>>

\* A wallet of another make ends the session (external).
WalletLeaves ==
  /\ serving = "on" /\ serves = Idle
  /\ kept' = [kept EXCEPT !.response = Goodbye]
  /\ wait' = Answered(Goodbye)
  /\ Exit("gone")
  /\ UNCHANGED <<connected, pc, waiter, sending, outcome, expiry, priority,
                 farewell, monitor, served, executed, spent>>

-----------------------------------------------------------------------------
\* The store repeats what it keeps (external).
Twice ==
  /\ Spend("faults", MaxFaults)
  /\ \/ serving = "on" /\ kept.request.id # None /\ inbox' = ToWallet(kept.request.id) /\ UNCHANGED wait
     \/ kept.ack.id # None /\ wait' = Acked(kept.ack) /\ UNCHANGED inbox
     \/ kept.response # None /\ wait' = Answered(kept.response) /\ UNCHANGED inbox
  /\ UNCHANGED <<connected, pc, waiter, sending, outcome, expiry, priority, farewell, monitor,
                 kept, serving, served, serves, executed>>

CallStep(c) ==
  \/ Check(c) \/ OpenOwn(c) \/ OpenPeer(c) \/ Submit(c) \/ Taken(c) \/ Refused(c)
  \/ ReadOwn(c) \/ ReadPeer(c) \/ PeerGone(c) \/ Hear(c) \/ BothDone(c)

WalletStep == Take \/ (\E ok \in BOOLEAN : Ack(ok)) \/ Answer \/ Respond

Next ==
  \/ \E c \in Calls : Begin(c) \/ CallStep(c) \/ Cancel(c) \/ Fail(c)
  \/ \E c \in Calls, ended \in SUBSET Streams : StreamsEnd(c, ended)
  \/ Disconnect \/ TakeLeave \/ Notice \/ MonitorStops
  \/ WalletStep \/ Break \/ Restart \/ WalletLeaves \/ Twice

\* The executors run whoever is woken, the store answers and delivers, and
\* the wallet's user decides.
Fairness ==
  /\ \A c \in Calls : WF_vars(CallStep(c))
  /\ WF_vars(TakeLeave) /\ WF_vars(Notice) /\ WF_vars(WalletStep)

Spec == Init /\ [][Next]_vars /\ Fairness

-----------------------------------------------------------------------------
TypeOK ==
  /\ connected \in BOOLEAN /\ expiry \in Nat /\ priority \in [Calls -> Nat]
  /\ pc \in [Calls -> {"idle", "armed", "own", "peer", "waiting", "ended"}]
  /\ waiter \in [Calls -> {"none", "armed", "local", "peer"}]
  /\ wait \in [Calls -> Waits]
  /\ sending \in [Calls -> {"unsent", "sent", "retry", "taken", "refused"}]
  /\ outcome \in [Calls -> {"none", "answer", "failed", "cancelled", "local", "peer"}]
  /\ farewell \in {"no", "owed", "sent", "lost"} /\ monitor \in BOOLEAN /\ kept \in Channels
  /\ serving \in {"off", "on", "gone"} /\ inbox \in Seq(Ids)
  /\ served \in Seq(Ids) /\ Len(served) <= MaxServed /\ IsInjective(served)
  /\ serves \in {Idle} \cup [id : Ids, step : {"ack", "answer", "respond"}]
  /\ executed \in [now : Seq(Ids), before : SUBSET Ids]
  /\ spent \in [runs : Nat, faults : Nat]
  /\ \A c \in Calls : /\ pc[c] = "ended" <=> outcome[c] # "none"
                      /\ priority[c] <= expiry

\* A call that returns a response was executed by the wallet, whatever else
\* the streams carry: other calls' responses, what the store keeps of before,
\* and either of acknowledgement and response first.
AnswersAreTheCalls ==
  \A c \in Calls : outcome[c] = "answer" => c \in executed.before \cup ToSet(executed.now)

\* One run of the wallet's serve loop executes a request once, however often
\* the store delivers it, and even if it remembers few of them ("replay
\* dedup", ServedRequestIds).
ExecutedOnceARun == IsInjective(executed.now)

\* The wallet's answer may never come: it does not serve, has been restarted,
\* or the call has lost one of its subscriptions (with both it gives up).
Unanswered(c) ==
  serving # "on" \/ spent.runs > 1 \/ wait[c].open \notin {Streams, {}}

\* A call ends with its session at the latest, wherever it is: between the
\* first comparison of the session and the wait, while it submits, or waiting
\* for a wallet that never answers (SessionDisconnects,
\* submit_remote_message).  While the wallet serves it ends in any case.
CallsEnd ==
  \A c \in Calls :
    pc[c] # "idle" ~> (pc[c] = "ended" \/ (connected /\ Unanswered(c)))

\* A session ended on one side ends on the other, if the wallet serves and
\* the word of it is not lost.
BothSidesEnd ==
  /\ kept.response = Goodbye ~> (~ connected \/ ~ monitor)
  /\ farewell = "owed" ~> (serving # "on" \/ farewell = "lost")

\* Calls end with their session, sessions with each other.
EverythingEnds == CallsEnd /\ BothSidesEnd

\* "every submission from this process must advance them" (sso_remote.rs:33):
\* no request of a live session is refused because a later one was submitted
\* before it.
SubmissionsAdvance == connected => \A c \in Calls : sending[c] # "refused"

=============================================================================
