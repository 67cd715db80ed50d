------------------------- MODULE SubscriptionContract -------------------------
(***************************************************************************)
(* What the host promises a product about its subscriptions, with no       *)
(* mention of slots, generations, locks or cancel channels.  A subscribe   *)
(* is requested, may be opened, and is over in the end:                    *)
(*   - at most one subscribe is open under a request id;                   *)
(*   - only an open one yields items, but for one straggler after it has   *)
(*     been revoked (by a `_stop` or a newer subscribe of the same id);    *)
(*   - it is told at most once that it is over, and nothing follows;       *)
(*   - one that was revoked, or has ended, does get over.                  *)
(* A subscribe is "abandoned" while the host tears the connection down.    *)
(***************************************************************************)
EXTENDS Naturals

CONSTANTS Calls, Ids

VARIABLES state,       \* of each subscribe
          rid,         \* its request id
          items,       \* the items the product was sent
          interrupts,  \* how often the product was told it is over
          straggled    \* an output was sent after the subscribe was revoked

vars == <<state, rid, items, interrupts, straggled>>

States == {"requested", "open", "abandoned", "revoked", "ending", "over"}

Init ==
  /\ state = [c \in Calls |-> "requested"]
  /\ rid \in [Calls -> Ids]
  /\ items = [c \in Calls |-> 0]
  /\ interrupts = [c \in Calls |-> 0]
  /\ straggled = [c \in Calls |-> FALSE]

Become(c, s) == state' = [state EXCEPT ![c] = s]
Tell(c)      == interrupts' = [interrupts EXCEPT ![c] = @ + 1]
Yield(c)     == items' = [items EXCEPT ![c] = @ + 1]

Open(c) ==
  /\ state[c] = "requested"
  /\ \A d \in Calls : state[d] = "open" => rid[d] # rid[c]
  /\ Become(c, "open")
  /\ UNCHANGED <<rid, items, interrupts, straggled>>

\* Stopped, superseded or dropped before it was opened.
Forget(c) ==
  /\ state[c] = "requested"
  /\ Become(c, "over")
  /\ UNCHANGED <<rid, items, interrupts, straggled>>

\* The handler failed, or the host's stream came to its end.
End(c) ==
  /\ state[c] \in {"requested", "open"}
  /\ Become(c, "ending")
  /\ UNCHANGED <<rid, items, interrupts, straggled>>

Report(c) ==
  /\ state[c] = "ending"
  /\ Tell(c)
  /\ Become(c, "over")
  /\ UNCHANGED <<rid, items, straggled>>

Item(c) ==
  /\ state[c] \in {"open", "abandoned"}
  /\ Yield(c)
  /\ UNCHANGED <<state, rid, interrupts, straggled>>

\* The stream itself yields an interrupt.
Interrupt(c) ==
  /\ state[c] \in {"open", "abandoned"}
  /\ Tell(c)
  /\ Become(c, "over")
  /\ UNCHANGED <<rid, items, straggled>>

Revoke(c) ==
  /\ state[c] \in {"open", "abandoned"}
  /\ Become(c, "revoked")
  /\ UNCHANGED <<rid, items, interrupts, straggled>>

\* The host gives up every open subscribe at once.
Abandon ==
  /\ state' = [c \in Calls |-> IF state[c] = "open" THEN "abandoned" ELSE state[c]]
  /\ UNCHANGED <<rid, items, interrupts, straggled>>

Straggle(c) ==
  /\ state[c] = "revoked" /\ ~straggled[c]
  /\ straggled' = [straggled EXCEPT ![c] = TRUE]
  /\ \/ Yield(c) /\ UNCHANGED <<state, interrupts>>
     \/ Tell(c) /\ Become(c, "over") /\ UNCHANGED items
  /\ UNCHANGED rid

Finish(c) ==
  /\ state[c] \in {"revoked", "abandoned"}
  /\ Become(c, "over")
  /\ UNCHANGED <<rid, items, interrupts, straggled>>

Next ==
  \/ \E c \in Calls : \/ Open(c) \/ Forget(c) \/ End(c) \/ Report(c) \/ Item(c)
                      \/ Interrupt(c) \/ Revoke(c) \/ Straggle(c) \/ Finish(c)
  \/ Abandon

\* One that is being told it is over is told, one that was revoked gets over.
Fairness == \A c \in Calls : /\ WF_vars(Report(c))
                             /\ WF_vars(Finish(c) \/ Straggle(c))

Spec == Init /\ [][Next]_vars /\ Fairness

=============================================================================
