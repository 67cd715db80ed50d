------------------------------ MODULE HostInitiated ------------------------------
(***************************************************************************)
(* Subscriptions the host opens into a product: the renderings of custom   *)
(* chat messages.  Host: HostInitiatedSubscriptionManager (subscription.rs)*)
(* with the observer that polls the stream (native_renderer.rs) and the    *)
(* parts of ProductRuntime around it (host_core.rs).  Product: the host    *)
(* routes of the JavaScript client (client.ts), one thread, a callback at  *)
(* a time.  Between them a connection that keeps the order of each         *)
(* direction; what the host does with the frames depends on the embedder:  *)
(*   "ordered"  it handles one after the other (WASM, CLI)                 *)
(*   "spawned"  each is a task of its own (the WebSocket bridge)           *)
(***************************************************************************)
EXTENDS Naturals, Sequences, FiniteSets, SequencesExt

CONSTANTS Renders,  \* request ids, `h:1`, `h:2`...: each is used once
          MaxTrees, \* bound: trees drawn in each rendering
          Capacity, \* bufferCapacity
          Modes

ASSUME BoundAssumption == MaxTrees \in [Renders -> Nat] /\ Capacity \in Nat \ {0}
ASSUME ModeAssumption  == Modes \subseteq {"ordered", "spawned"}

VARIABLES
  mode,
  manager,   \* the connection: open, flagged (`disposed` is set), closed
  active,    \* the slots of the manager
  stream,    \* the stream each rendering was given
  queue,     \* its channel: trees, by number, and Interrupt
  held,      \* trees whose sender was cloned and whose slot was unlocked
  shown,     \* history: the trees the observer was given
  toProduct, toHost, \* frames on the connection
  client,    \* the transport of the product: open, closed
  handler,   \* whether the route has a handler
  buffered,  \* starts that wait for one
  instances, \* "none", "live", and "complete" when its source has completed
  drawn,     \* trees sent
  declined   \* history: renderings the product interrupted

hostVars    == <<manager, active, stream, queue, held, shown>>
productVars == <<client, handler, buffered, instances, drawn, declined>>
renderVars == <<mode, hostVars, productVars, toProduct, toHost>>

Interrupt == 0
Trees == UNION {1 .. MaxTrees[r] : r \in Renders}
ToProduct == [kind : {"start", "stop"}, render : Renders]
ToHost == [render : Renders, value : Trees \cup {Interrupt}]
Frame(kind, r) == [kind |-> kind, render |-> r]
Says(r, value) == [render |-> r, value |-> value]

RenderInit ==
  /\ mode \in Modes
  /\ manager = "open" /\ active = {} /\ stream = [r \in Renders |-> "none"]
  /\ queue = [r \in Renders |-> << >>] /\ held = {} /\ shown = [r \in Renders |-> << >>]
  /\ toProduct = << >> /\ toHost = << >>
  /\ client = "open" /\ handler = FALSE /\ buffered = << >>
  /\ instances = [r \in Renders |-> "none"] /\ drawn = [r \in Renders |-> 0]
  /\ declined = {}

-----------------------------------------------------------------------------
(* The host.                                                               *)

\* SinkTransport swallows what is sent once the runtime is disposed.
Send(frame) == toProduct' = IF manager = "open" THEN Append(toProduct, frame) ELSE toProduct

\* ProductRuntimeControl::runtime
Ask(r) ==
  /\ stream[r] = "none" /\ manager = "open"
  /\ stream' = [stream EXCEPT ![r] = "asked"]
  /\ UNCHANGED <<mode, manager, active, queue, held, shown, productVars, toProduct, toHost>>

\* HostInitiatedSubscriptionManager::start, up to the end of its lock
Reserve(r) ==
  /\ stream[r] = "asked"
  /\ IF manager = "closed"
     THEN stream' = [stream EXCEPT ![r] = "over"] /\ UNCHANGED active
     ELSE stream' = [stream EXCEPT ![r] = "starting"] /\ active' = active \cup {r}
  /\ UNCHANGED <<mode, manager, queue, held, shown, productVars, toProduct, toHost>>

SendStart(r) ==
  /\ stream[r] = "starting"
  /\ stream' = [stream EXCEPT ![r] = "open"]
  /\ Send(Frame("start", r))
  /\ UNCHANGED <<mode, manager, active, queue, held, shown, productVars, toHost>>

(* Operators whose name begins with Mis are no part of the model.  Each is *)
(* a plausible mistake in the operator it precedes; PROJECT.json says      *)
(* which property has to notice it.                                        *)

MisStop(r) ==  \* the slot goes, the product is not told
  /\ active' = active \ {r}
  /\ UNCHANGED toProduct

\* HostInitiatedSubscription::stop: a rendering that has lost its slot has
\* nobody to tell.
Stop(r) ==
  /\ active' = active \ {r}
  /\ IF r \in active THEN Send(Frame("stop", r)) ELSE UNCHANGED toProduct

\* poll_next: a tree, one that cannot be decoded, the product's interrupt.
PollTree(r) ==
  /\ stream[r] = "open" /\ queue[r] # << >> /\ Head(queue[r]) # Interrupt
  /\ queue' = [queue EXCEPT ![r] = Tail(@)]
  /\ \/ /\ shown' = [shown EXCEPT ![r] = Append(@, Head(queue[r]))]
        /\ UNCHANGED <<active, stream, toProduct>>
     \/ /\ stream' = [stream EXCEPT ![r] = "spoilt"]
        /\ Stop(r) /\ UNCHANGED shown
  /\ UNCHANGED <<mode, manager, held, productVars, toHost>>

PollInterrupt(r) ==
  /\ stream[r] = "open" /\ queue[r] # << >> /\ Head(queue[r]) = Interrupt
  /\ queue' = [queue EXCEPT ![r] = Tail(@)]
  /\ stream' = [stream EXCEPT ![r] = "failed"]
  /\ UNCHANGED <<mode, manager, active, held, shown, productVars, toProduct, toHost>>

\* Nobody has a sender any more.
PollEnd(r) ==
  /\ stream[r] = "open" /\ queue[r] = << >> /\ r \notin active
  /\ \A h \in held : h.render # r
  /\ stream' = [stream EXCEPT ![r] = "over"]
  /\ UNCHANGED <<mode, manager, active, queue, held, shown, productVars, toProduct, toHost>>

\* The observer cancels, or is dropped.
Cancel(r) ==
  /\ stream[r] = "open"
  /\ stream' = [stream EXCEPT ![r] = "dropped"]
  /\ Stop(r)
  /\ UNCHANGED <<mode, manager, queue, held, shown, productVars, toHost>>

MisRoute(frame) ==  \* the sender is dropped, and the terminal with it
  LET r == frame.render IN
  IF manager # "open" \/ r \notin active THEN UNCHANGED <<active, queue, held>>
  ELSE IF frame.value = Interrupt
       THEN active' = active \ {r} /\ UNCHANGED <<queue, held>>
  ELSE IF mode = "spawned"
       THEN held' = held \cup {frame} /\ UNCHANGED <<active, queue>>
  ELSE queue' = [queue EXCEPT ![r] = Append(@, frame.value)] /\ UNCHANGED <<active, held>>

\* handle_message, and the check of `disposed` before it.  The slot is
\* unlocked before a tree is sent, and locked until an interrupt is.
Route(frame) ==
  LET r == frame.render IN
  IF manager # "open" \/ r \notin active THEN UNCHANGED <<active, queue, held>>
  ELSE IF frame.value = Interrupt
       THEN /\ queue' = [queue EXCEPT ![r] = Append(@, Interrupt)]
            /\ active' = active \ {r} /\ UNCHANGED held
  ELSE IF mode = "spawned"
       THEN held' = held \cup {frame} /\ UNCHANGED <<active, queue>>
  ELSE queue' = [queue EXCEPT ![r] = Append(@, frame.value)] /\ UNCHANGED <<active, held>>

\* receive_frame
HandleMessage ==
  /\ \E i \in DOMAIN toHost :
       /\ mode = "ordered" => i = 1
       /\ Route(toHost[i])
       /\ toHost' = RemoveAt(toHost, i)
  /\ UNCHANGED <<mode, manager, stream, shown, productVars, toProduct>>

Enqueue(h) ==
  /\ held' = held \ {h}
  /\ queue' = [queue EXCEPT ![h.render] = Append(@, h.value)]
  /\ UNCHANGED <<mode, manager, active, stream, shown, productVars, toProduct, toHost>>

\* dispose: the flag, then close.
Dispose ==
  /\ manager # "closed"
  /\ IF manager = "open" THEN manager' = "flagged" /\ UNCHANGED active
     ELSE manager' = "closed" /\ active' = {}
  /\ UNCHANGED <<mode, stream, queue, held, shown, productVars, toProduct, toHost>>

-----------------------------------------------------------------------------
(* The product.                                                            *)

\* interruptHostSubscription, for each rendering of a sequence
Decline(rs) ==
  /\ toHost' = toHost \o [i \in DOMAIN rs |-> Says(rs[i], Interrupt)]
  /\ declined' = declined \cup ToSet(rs)

\* startHostSubscription with a handler: what it throws for is interrupted,
\* in the order of the starts.
Increasing(n, m) == {f \in [1 .. n -> 1 .. m] : \A i, j \in 1 .. n : i < j => f[i] < f[j]}
Subsequences(s)  == UNION {{[i \in 1 .. n |-> s[f[i]]] : f \in Increasing(n, Len(s))} : n \in 0 .. Len(s)}

StartAll(rs) ==
  \E refused \in Subsequences(rs) :
    /\ instances' = [r \in Renders |->
                       IF r \in ToSet(rs) \ ToSet(refused) THEN "live" ELSE instances[r]]
    /\ Decline(refused)

MisBuffer(r) ==  \* the oldest start goes, the host is not told
  /\ buffered' = Append(IF Len(buffered) = Capacity THEN Tail(buffered) ELSE buffered, r)
  /\ UNCHANGED <<toHost, declined>>

\* Without a handler, a start waits for one; the oldest makes room.
Buffer(r) ==
  /\ buffered' = Append(IF Len(buffered) = Capacity THEN Tail(buffered) ELSE buffered, r)
  /\ IF Len(buffered) = Capacity THEN Decline(<<Head(buffered)>>) ELSE UNCHANGED <<toHost, declined>>

OnStart ==
  /\ client = "open" /\ toProduct # << >> /\ Head(toProduct).kind = "start"
  /\ toProduct' = Tail(toProduct)
  /\ LET r == Head(toProduct).render IN
     IF handler
     THEN StartAll(<<r>>) /\ UNCHANGED buffered
     ELSE Buffer(r) /\ UNCHANGED instances
  /\ UNCHANGED <<mode, hostVars, client, handler, drawn>>

MisOnStop ==  \* a start that waits is not looked for
  /\ client = "open" /\ toProduct # << >> /\ Head(toProduct).kind = "stop"
  /\ toProduct' = Tail(toProduct)
  /\ instances' = [instances EXCEPT ![Head(toProduct).render] = "none"]
  /\ UNCHANGED <<mode, hostVars, client, handler, buffered, drawn, declined, toHost>>

OnStop ==
  /\ client = "open" /\ toProduct # << >> /\ Head(toProduct).kind = "stop"
  /\ toProduct' = Tail(toProduct)
  /\ LET r == Head(toProduct).render IN
     /\ \/ r \notin ToSet(buffered) /\ UNCHANGED buffered
        \/ \E i \in DOMAIN buffered : buffered[i] = r /\ buffered' = RemoveAt(buffered, i)
     /\ instances' = [instances EXCEPT ![r] = "none"]
  /\ UNCHANGED <<mode, hostVars, client, handler, drawn, declined, toHost>>

\* setHandler
SetHandler ==
  /\ client = "open" /\ ~ handler
  /\ handler' = TRUE /\ buffered' = << >>
  /\ StartAll(buffered)
  /\ UNCHANGED <<mode, hostVars, client, drawn, toProduct>>

\* The handler is taken back; what it has started goes on.
UnsetHandler ==
  /\ handler /\ handler' = FALSE
  /\ UNCHANGED <<mode, hostVars, client, buffered, instances, drawn, declined, toProduct, toHost>>

\* The source: next, error (or a tree that cannot be encoded), complete.
Draw(r) ==
  /\ instances[r] = "live" /\ drawn[r] < MaxTrees[r]
  /\ drawn' = [drawn EXCEPT ![r] = @ + 1]
  /\ toHost' = Append(toHost, Says(r, drawn[r] + 1))
  /\ UNCHANGED <<mode, hostVars, client, handler, buffered, instances, declined, toProduct>>

GiveUp(r) ==
  /\ instances[r] = "live"
  /\ instances' = [instances EXCEPT ![r] = "none"]
  /\ Decline(<<r>>)
  /\ UNCHANGED <<mode, hostVars, client, handler, buffered, drawn, toProduct>>

Complete(r) ==
  /\ instances[r] = "live"
  /\ instances' = [instances EXCEPT ![r] = "complete"]
  /\ UNCHANGED <<mode, hostVars, client, handler, buffered, drawn, declined, toProduct, toHost>>

\* closeWithError
CloseWithError ==
  /\ client = "open" /\ client' = "closed"
  /\ buffered' = << >> /\ instances' = [r \in Renders |-> "none"]
  /\ UNCHANGED <<mode, hostVars, handler, drawn, declined, toProduct, toHost>>

-----------------------------------------------------------------------------
Poll(r) == PollTree(r) \/ PollInterrupt(r) \/ PollEnd(r)
HostStep == HandleMessage \/ (\E h \in held : Enqueue(h))
ProductStep == OnStart \/ OnStop

RenderNext ==
  \/ \E r \in Renders : Ask(r) \/ Reserve(r) \/ SendStart(r) \/ Poll(r) \/ Cancel(r)
  \/ HostStep \/ Dispose
  \/ ProductStep \/ SetHandler \/ UnsetHandler \/ CloseWithError
  \/ \E r \in Renders : Draw(r) \/ GiveUp(r) \/ Complete(r)

\* Frames are delivered and handled, observers woken, a dispose begun runs to
\* its end.  The product's code and the host's user owe nothing.
RenderFairness ==
  /\ \A r \in Renders : WF_renderVars(Poll(r) \/ Reserve(r) \/ SendStart(r))
  /\ WF_renderVars(HostStep) /\ WF_renderVars(ProductStep)
  /\ WF_renderVars(manager = "flagged" /\ Dispose)

RenderSpec == RenderInit /\ [][RenderNext]_renderVars /\ RenderFairness

-----------------------------------------------------------------------------
RenderTypeOK ==
  /\ manager \in {"open", "flagged", "closed"} /\ active \subseteq Renders
  /\ \A r \in Renders : /\ queue[r] \in Seq(Trees \cup {Interrupt})
                        /\ instances[r] \in {"none", "live", "complete"}
  /\ toProduct \in Seq(ToProduct) /\ toHost \in Seq(ToHost) /\ held \subseteq ToHost
  /\ client \in {"open", "closed"} /\ Len(buffered) <= Capacity

\* Whether the product has the rendering, as a start or as an instance
Has(r) == r \in ToSet(buffered) \/ instances[r] # "none"

\* While the connection is open the two sides agree up to what is on its
\* way: the product has no rendering whose stream is gone, unless the `_stop`
\* is coming; and the host waits for none that the product has dropped, be it
\* evicted, refused or failed, unless the interrupt is coming
\* (HostInitiatedSubscription::stop, interruptHostSubscription).
SidesAgree ==
  manager = "open" /\ client = "open" =>
    \A r \in Renders :
      /\ Has(r) => r \in active \/ Frame("stop", r) \in ToSet(toProduct) \/ r \in declined
      /\ r \in active /\ stream[r] = "open" =>
           Has(r) \/ Frame("start", r) \in ToSet(toProduct) \/ Says(r, Interrupt) \in ToSet(toHost)
      /\ r \in declined => ~ Has(r)

\* An observer is told what happened: on_error only where the product has
\* interrupted or a tree was unusable, on_complete only where the host itself
\* has closed ("That is cancellation, not a product failure"), and the trees
\* in the order drawn, where frames are handled in order.
ObserversKnow ==
  \A r \in Renders :
    /\ stream[r] = "failed" => r \in declined
    /\ stream[r] = "over" => manager = "closed"
    /\ mode = "ordered" => shown[r] = [i \in 1 .. Len(shown[r]) |-> i]

\* What one side ends ends on the other, while there is a connection: the
\* instance or the waiting start of a rendering that was cancelled, and the
\* stream of one that was declined; and a dispose ends every stream.
EndsReachTheOtherSide ==
  \A r \in Renders :
    /\ stream[r] = "dropped" ~> (~ Has(r) \/ manager # "open")
    /\ r \in declined ~> (stream[r] \in {"failed", "over", "dropped", "spoilt"})
    /\ manager = "flagged" ~> stream[r] \notin {"starting", "open"}

\* "The last tree delivered stands" (native_renderer.rs:18): what is shown
\* last was drawn last of what is shown.  False where frames are tasks.
LastTreeStands ==
  \A r \in Renders : shown[r] # << >> => \A i \in DOMAIN shown[r] : shown[r][i] <= Last(shown[r])

=============================================================================
