------------------------------ MODULE ChainCallers ------------------------------
(***************************************************************************)
(* The callers of a chain connection that name no follow: transactions a   *)
(* product broadcasts and stops by a handle of the host's (the table       *)
(* `transaction_operations` of chain_runtime.rs), and the users of the     *)
(* Subxt client that each connection builds once and caches under a        *)
(* generation.  They share connection_for with the follows of              *)
(* ChainRuntime, and with each other.                                      *)
(***************************************************************************)
EXTENDS ChainRuntime

CONSTANTS Broadcasts, Stops, Users,
          Astray,      \* bound: the stops that name another chain
          MaxTracked   \* MAX_TRACKED_TRANSACTION_OPERATIONS

ASSUME CallersAssumption ==
  /\ Others = Broadcasts \cup Stops \cup Users /\ Astray \subseteq Stops
  /\ Broadcasts \cap (Stops \cup Users) = {} /\ Stops \cap Users = {}
  /\ NoStream \notin Others /\ MaxTracked \in Nat \ {0} /\ IsFiniteSet(Others)

Generations == 1..Cardinality(Users)
Bundles     == Conns \X Generations

VARIABLES
  ops,       \* broadcasts with an entry in `transaction_operations`
  sequence,  \* the number of each broadcast's handle
  operation, \* the provider's operation id: a number, anew on each connection
  target,    \* the broadcast a stop is for
  ended,     \* history: broadcasts the provider was told to stop
  slot,      \* the generation in `subxt_connection_setup` of a connection, or 0
  newest,    \* `subxt_connection_generation`
  build,     \* what became of the setup of a generation
  driven,    \* bundles whose backend driver runs
  joined     \* the generation a user awaits

txVars    == <<ops, sequence, operation, target, ended>>
subxtVars == <<slot, newest, build, driven, joined>>
allVars   == <<chainVars, txVars, subxtVars>>

CallersInit ==
  /\ ChainInit
  /\ ops = {} /\ ended = {}
  /\ sequence = [b \in Broadcasts |-> 0] /\ operation = [b \in Broadcasts |-> 0]
  /\ target = [x \in Stops |-> NoStream]
  /\ slot = [k \in Conns |-> 0] /\ newest = [k \in Conns |-> 0]
  /\ build = [s \in Bundles |-> "none"] /\ driven = {}
  /\ joined = [u \in Users |-> 0]

\* The caller goes on, and the follows stay as they are.
Moves(t, to) ==
  /\ GoesTo(t, to)
  /\ UNCHANGED <<threading, cast, connVars, at, waits, intentVars, cancelled, tableVars, fetch,
                 askVars>>

MayCall(t) == phase[t] = "idle" /\ t \in cast /\ MayPoll({})

-----------------------------------------------------------------------------
(* remote_chain_transaction_broadcast.                                     *)

Broadcast(b) ==
  /\ MayCall(b) /\ Moves(b, "spawned")
  /\ UNCHANGED <<txVars, subxtVars>>

\* The provider gives an id out, or none; or the call fails.
BroadcastAnswered(b) ==
  /\ phase[b] = "connected" /\ MayPoll({})
  /\ \/ /\ link[at[b]] = "open"
        /\ Moves(b, "drawn")
        /\ sequence' = [sequence EXCEPT ![b] = 1 + Cardinality({o \in Broadcasts : sequence[o] > 0})]
        /\ operation' = [operation EXCEPT ![b] =
             1 + Cardinality({o \in Broadcasts : at[o] = at[b] /\ operation[o] > 0})]
     \/ Moves(b, "refused") /\ UNCHANGED <<sequence, operation>>
  /\ UNCHANGED <<ops, target, ended, subxtVars>>

\* The oldest handles go when there are too many.
Newest(bs) == {b \in bs : Cardinality({o \in bs : sequence[o] > sequence[b]}) < MaxTracked}

Track(b) ==
  /\ phase[b] = "drawn" /\ MayPoll({b})
  /\ Moves(b, "tracked")
  /\ ops' = Newest(ops \cup {b})
  /\ UNCHANGED <<sequence, operation, target, ended, subxtVars>>

-----------------------------------------------------------------------------
(* remote_chain_transaction_stop.                                          *)

Stop(x, b) ==
  /\ MayCall(x) /\ phase[b] = "tracked"
  /\ Moves(x, "asked")
  /\ target' = [target EXCEPT ![x] = b]
  /\ UNCHANGED <<ops, sequence, operation, ended, subxtVars>>

\* Whoever takes the entry has the operation to itself.
TakeOperation(x) ==
  /\ phase[x] = "asked" /\ MayPoll({})
  /\ Moves(x, IF target[x] \notin ops THEN "refused"
              ELSE IF x \in Astray THEN "failing" ELSE "taken")
  /\ ops' = ops \ {target[x]}
  /\ UNCHANGED <<sequence, operation, target, ended, subxtVars>>

ConnectStop(x) ==
  /\ phase[x] = "taken" /\ MayPoll({x})
  /\ ConnectionFor(x)
  /\ UNCHANGED <<threading, cast, waits, intentVars, cancelled, tableVars, fetch, askVars,
                 txVars, subxtVars>>

\* What the provider takes an id for: on another connection, another's.
Named(x) == {b \in Broadcasts : at[b] = at[x] /\ operation[b] = operation[target[x]]}

\* An id the provider does not know any more counts as stopped.
StopAnswered(x) ==
  /\ phase[x] = "connected" /\ MayPoll({})
  /\ \/ /\ link[at[x]] = "open"
        /\ Moves(x, "stopped")
        /\ ended' = ended \cup Named(x)
     \/ Moves(x, "failing") /\ UNCHANGED ended
  /\ UNCHANGED <<ops, sequence, operation, target, subxtVars>>

MisPutBack(x) ==  \* a stop that failed has used the handle up
  /\ phase[x] = "failing" /\ MayPoll({x})
  /\ Moves(x, "refused")
  /\ UNCHANGED <<txVars, subxtVars>>

PutBack(x) ==
  /\ phase[x] = "failing" /\ MayPoll({x})
  /\ Moves(x, "refused")
  /\ ops' = ops \cup {target[x]}
  /\ UNCHANGED <<sequence, operation, target, ended, subxtVars>>

\* A broadcast, or a user of the client, has nothing to put back.
FailCaller(t) ==
  /\ phase[t] = "failing" /\ MayPoll({t})
  /\ Moves(t, "refused")
  /\ UNCHANGED <<txVars, subxtVars>>

-----------------------------------------------------------------------------
(* subxt_connection: one build for all users of a connection.              *)

Use(u) ==
  /\ MayCall(u) /\ Moves(u, "spawned")
  /\ UNCHANGED <<txVars, subxtVars>>

\* A build starts with its first poll, which spawns the backend driver.
JoinBuild(u) ==
  LET k == at[u]
      g == IF slot[k] # 0 THEN slot[k] ELSE newest[k] + 1 IN
  /\ phase[u] = "connected" /\ MayPoll({u})
  /\ Moves(u, "building")
  /\ joined' = [joined EXCEPT ![u] = g]
  /\ IF slot[k] # 0 THEN UNCHANGED <<slot, newest, build, driven>>
     ELSE /\ slot' = [slot EXCEPT ![k] = g] /\ newest' = [newest EXCEPT ![k] = g]
          /\ build' = [build EXCEPT ![<<k, g>>] = "asked"]
          /\ driven' = driven \cup {<<k, g>>}
  /\ UNCHANGED txVars

Awaited(k, g) == \E u \in Users : phase[u] = "building" /\ at[u] = k /\ joined[u] = g

BuildAnswered(k, g, ok) ==
  /\ build[<<k, g>>] = "asked" /\ Awaited(k, g) /\ MayPoll({})
  /\ ok => link[k] = "open"
  /\ build' = [build EXCEPT ![<<k, g>>] = IF ok THEN "built" ELSE "failed"]
  /\ UNCHANGED <<chainVars, txVars, slot, newest, driven, joined>>

MisInvalidate(k, g) ==  \* whatever generation is cached
  slot' = [slot EXCEPT ![k] = 0]

\* invalidate_subxt_connection
Invalidate(k, g) == slot' = [slot EXCEPT ![k] = IF @ = g THEN 0 ELSE @]

Built(u) ==
  LET k == at[u]  g == joined[u] IN
  /\ phase[u] = "building" /\ build[<<k, g>>] # "asked" /\ MayPoll({})
  /\ IF build[<<k, g>>] = "built" THEN Moves(u, "used") /\ UNCHANGED slot
     ELSE Moves(u, "refused") /\ Invalidate(k, g)
  /\ UNCHANGED <<txVars, newest, build, driven, joined>>

\* The backend can make no further progress.
DriverEnds(k, g) ==
  /\ <<k, g>> \in driven /\ MayPoll({})
  /\ driven' = driven \ {<<k, g>>}
  /\ Invalidate(k, g)
  /\ UNCHANGED <<chainVars, txVars, newest, build, joined>>

-----------------------------------------------------------------------------
\* The call's future is dropped with the product's connection; the entry a
\* stop has taken goes with it.
DropCaller(t) ==
  /\ phase[t] \in {"spawned", "asked", "waiting", "connected", "building"} /\ MayPoll({})
  /\ Moves(t, "dropped")
  /\ UNCHANGED <<txVars, subxtVars>>

Reach(t) == (Connect(t) \/ ConnectionReady(t)) /\ UNCHANGED <<txVars, subxtVars>>

\* What is done without the product, or a failure of a backend of its own.
CallerStep ==
  \/ SystemStep /\ UNCHANGED <<txVars, subxtVars>>
  \/ \E t \in Others : Reach(t)
  \/ \E b \in Broadcasts : BroadcastAnswered(b) \/ Track(b)
  \/ \E x \in Stops : TakeOperation(x) \/ ConnectStop(x) \/ StopAnswered(x) \/ PutBack(x)
  \/ \E t \in Broadcasts \cup Users : FailCaller(t)
  \/ \E u \in Users : JoinBuild(u) \/ Built(u)
  \/ \E s \in Bundles, ok \in BOOLEAN : BuildAnswered(s[1], s[2], ok)
  \/ \E s \in driven : link[s[1]] = "closed" /\ DriverEnds(s[1], s[2])

CallersNext ==
  \/ CallerStep
  \/ OutsideStep /\ UNCHANGED <<txVars, subxtVars>>
  \/ \E b \in Broadcasts : Broadcast(b) \/ \E x \in Stops : Stop(x, b)
  \/ \E u \in Users : Use(u)
  \/ \E t \in Others : DropCaller(t)
  \/ \E s \in driven : DriverEnds(s[1], s[2])

CallersFairness == WF_allVars(CallerStep)

CallersSpec == CallersInit /\ [][CallersNext]_allVars /\ CallersFairness

-----------------------------------------------------------------------------
(* A handle the product was given can be used until its operation was      *)
(* stopped: a stop that named another chain, found no connection or was    *)
(* refused leaves it as it was, whichever other stops tried in between.    *)
(* What may take it away is a stop under way, the disposal of a product    *)
(* in the middle of one, and MaxTracked newer handles.                     *)
HandlesLast ==
  \A b \in Broadcasts : phase[b] = "tracked" /\ b \notin ops =>
    \/ \E x \in Stops : target[x] = b /\
         \/ phase[x] \in {"taken", "waiting", "connected", "failing", "stopped"}
         \/ phase[x] = "dropped" /\ at[x] # 0
    \/ Cardinality({o \in Broadcasts : sequence[o] > sequence[b]}) >= MaxTracked

(* "invalidation (on setup failure or backend-driver exit) can never evict *)
(* a newer rebuild" (chain_runtime.rs): a client whose backend runs is the *)
(* one in the cache, and what is in the cache has a backend that runs, in  *)
(* whatever order failed users and ended drivers come to invalidate it.    *)
OneBackend ==
  \A k \in Conns :
    /\ \A g \in Generations : build[<<k, g>>] = "built" /\ <<k, g>> \in driven => slot[k] = g
    /\ slot[k] # 0 => <<k, slot[k]>> \in driven

(* What the chain runtime keeps for all its callers is what there is: the  *)
(* connection and the follows (TablesAreExact), handles and clients.       *)
SharedStateIsExact == TablesAreExact /\ HandlesLast /\ OneBackend

(* "Operation identifier of the broadcast to stop" (v01/chain.rs:278): the *)
(* provider ends the broadcasts products asked to stop, and no other.      *)
StopsOnlyTheNamed ==
  ended \subseteq {target[x] : x \in {y \in Stops : phase[y] = "stopped"}}

=============================================================================
