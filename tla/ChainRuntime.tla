------------------------------ MODULE ChainRuntime ------------------------------
(***************************************************************************)
(* The chain runtime (chain_runtime.rs) on one chain: the connection that  *)
(* all callers share and that is opened again when it is lost, the         *)
(* chainHead follow behind each product subscription, and the requests     *)
(* that name a follow by its id or by an alias of the product's own.       *)
(*                                                                         *)
(* A member of Streams is one follow subscription: the stream the product  *)
(* reads, the `start` task that sets it up, the shared setup it may have   *)
(* created, and the pump and remote subscription that setup leads to.      *)
(* Streams with the same IdOf reuse one local follow id.  The chain at the *)
(* other end of the connection is external.                                *)
(***************************************************************************)
EXTENDS Naturals, FiniteSets

CONSTANTS Streams, Requests,
          Others,    \* the other callers that need the chain (ChainCallers)
          Casts,     \* bound: who takes part in one behaviour
          IdOf,      \* the local follow id of each stream
          WithRuntime,  \* the streams that ask for the runtime's metadata
          RuntimeCalls, \* the requests that call the runtime
          Aliases,   \* follow ids of the product's own making
          Asked,     \* bound: the follow ids requests may come with
          Droppable, \* bound: streams the product may drop
          MaxConns,  \* bound: connection attempts, the last of which holds
          NoStream, NoName,
          ChainModes      \* "threads" (native) and "turns" (WASM, one thread)

Ids   == {IdOf[s] : s \in Streams}
Names == Ids \cup Aliases
Tasks == Streams \cup Requests \cup Others
Conns == 1..MaxConns

ASSUME ChainAssumption ==
  /\ MaxConns \in Nat \ {0}
  /\ NoStream \notin Streams /\ NoName \notin Names
  /\ WithRuntime \subseteq Streams /\ RuntimeCalls \subseteq Requests
  /\ Asked \subseteq Names /\ Droppable \subseteq Streams
  /\ Ids \cap Aliases = {} /\ Streams \cap Requests = {}
  /\ Others \cap (Streams \cup Requests) = {} /\ Casts \subseteq SUBSET Tasks
  /\ ChainModes \subseteq {"threads", "turns"}

VARIABLES
  threading,
  cast,      \* who takes part
  conn,      \* the entry of `connections`, 0 when there is none
  setup,     \* the entry of `connection_setups`, 0 when there is none
  link,      \* what became of each connection attempt
  phase,        \* where each start task and each request is
  at,        \* the connection it has, or awaits
  waits,     \* the stream whose start or setup it awaits
  intents,   \* `follow_intents`
  starts,    \* streams with an entry in `follow_starts`
  cancelled, \* streams the product has dropped
  follows,   \* `follows` of every connection
  setups,    \* streams whose setup is an entry of `follow_setups`
  fetch,     \* the setup a stream created, and then its pump
  aborted,   \* pumps whose abort handle was used
  name,      \* the follow id a request came with
  promised   \* history: the live stream that id meant when it came

connVars   == <<conn, setup, link>>
taskVars   == <<phase, at, waits>>
intentVars == <<intents, starts>>
tableVars  == <<follows, setups, aborted>>
askVars    == <<name, promised>>
chainVars == <<threading, cast, connVars, taskVars, intentVars, cancelled, tableVars, fetch, askVars>>

ChainInit ==
  /\ threading \in ChainModes /\ cast \in Casts
  /\ conn = 0 /\ setup = 0
  /\ link = [k \in Conns |-> "none"]
  /\ phase = [t \in Tasks |-> "idle"]
  /\ at = [t \in Tasks |-> 0]
  /\ waits = [t \in Tasks |-> NoStream]
  /\ intents = {} /\ starts = {} /\ cancelled = {}
  /\ follows = {} /\ setups = {} /\ aborted = {}
  /\ fetch = [s \in Streams |-> "none"]
  /\ name = [q \in Requests |-> NoName]
  /\ promised = [q \in Requests |-> NoStream]

GoesTo(t, to) == phase' = [phase EXCEPT ![t] = to]

\* On one thread a poll is not interrupted: who has looked at a flag or a
\* table and is about to act on it goes on first.
MidPoll == {"checked", "registered", "failing", "resolved", "taken", "drawn", "required"}
MayPoll(ts) == threading = "turns" => \A t \in Tasks : phase[t] \in MidPoll => t \in ts

-----------------------------------------------------------------------------
(* The tables of follows.                                                  *)

FollowOf(k, i) == {f \in follows : f.conn = k /\ IdOf[f.owner] = i}
SetupOf(k, i)  == {x \in setups : at[x] = k /\ IdOf[x] = i}

\* follow_cancelled_or_missing
Gone(k, i) == \A f \in FollowOf(k, i) : f.owner \in cancelled

\* remove_follow_without_abort
DropEntries(k, i) ==
  /\ setups' = setups \ SetupOf(k, i)
  /\ follows' = follows \ FollowOf(k, i)

(* Operators whose name begins with Mis are no part of the model.  Each is *)
(* a plausible mistake in the operator it precedes; PROJECT.json says      *)
(* which property has to notice it.                                        *)

MisRemoveFollow(k, i) ==  \* the pump is not aborted
  DropEntries(k, i) /\ UNCHANGED aborted

RemoveFollow(k, i) ==
  /\ DropEntries(k, i)
  /\ aborted' = aborted \cup ({f.remote : f \in FollowOf(k, i)} \ {NoStream})

\* cleanup_follow
Cleanup(i) ==
  /\ intents' = intents \ {i}
  /\ starts' = {s \in starts : IdOf[s] # i}
  /\ RemoveFollow(conn, i)

-----------------------------------------------------------------------------
(* A product subscribes to a follow, and drops it.                         *)

Subscribe(s) ==
  /\ phase[s] = "idle" /\ s \in cast /\ MayPoll({})
  /\ GoesTo(s, "spawned")
  /\ intents' = intents \cup {IdOf[s]}
  /\ starts' = {t \in starts : IdOf[t] # IdOf[s]} \cup {s}
  /\ UNCHANGED <<threading, cast, connVars, at, waits, cancelled, tableVars, fetch, askVars>>

DropStream(s) ==
  /\ phase[s] # "idle" /\ s \in Droppable \ cancelled /\ MayPoll({})
  /\ cancelled' = cancelled \cup {s}
  /\ Cleanup(IdOf[s])
  /\ UNCHANGED <<threading, cast, connVars, taskVars, fetch, askVars>>

-----------------------------------------------------------------------------
(* connection_for, and the shared attempt its callers wait for.            *)

Refuse(t) == GoesTo(t, IF t \in Requests THEN "refused" ELSE "failing")

NewestConn == Cardinality({k \in Conns : link[k] # "none"})

MisConnectionFor(t) ==  \* the attempt under way is not looked at
  LET live == conn # 0 /\ link[conn] = "open"
      next == NewestConn + 1 IN
  /\ GoesTo(t, IF live THEN "connected" ELSE "waiting")
  /\ at' = [at EXCEPT ![t] = IF live THEN conn ELSE next]
  /\ IF live THEN UNCHANGED connVars
     ELSE conn' = 0 /\ setup' = next /\ link' = [link EXCEPT ![next] = "connecting"]

ConnectionFor(t) ==
  LET live == conn # 0 /\ link[conn] = "open"
      next == IF setup # 0 THEN setup ELSE NewestConn + 1 IN
  /\ GoesTo(t, IF live THEN "connected" ELSE "waiting")
  /\ at' = [at EXCEPT ![t] = IF live THEN conn ELSE next]
  /\ IF live THEN UNCHANGED connVars
     ELSE /\ conn' = 0 /\ setup' = next
          /\ link' = [link EXCEPT ![next] = IF @ = "none" THEN "connecting" ELSE @]

Connect(t) ==
  /\ phase[t] = "spawned" /\ MayPoll({})
  /\ IF t \in cancelled THEN Refuse(t) /\ UNCHANGED <<at, connVars>>
                        ELSE ConnectionFor(t)
  /\ UNCHANGED <<threading, cast, waits, intentVars, cancelled, tableVars, fetch, askVars>>

\* A shared future makes progress only while somebody awaits it.
Driven == \E t \in Tasks : phase[t] = "waiting" /\ at[t] = setup

ConnectAnswered(ok) ==
  /\ setup # 0 /\ link[setup] = "connecting" /\ Driven /\ MayPoll({})
  /\ ok \/ setup < MaxConns
  /\ link' = [link EXCEPT ![setup] = IF ok THEN "open" ELSE "failed"]
  /\ conn' = IF ok THEN setup ELSE conn
  /\ UNCHANGED <<threading, cast, setup, taskVars, intentVars, cancelled, tableVars, fetch, askVars>>

ConnectPublished ==
  /\ setup # 0 /\ link[setup] # "connecting" /\ MayPoll({})
  /\ setup' = 0
  /\ UNCHANGED <<threading, cast, conn, link, taskVars, intentVars, cancelled, tableVars, fetch, askVars>>

ConnectionReady(t) ==
  /\ phase[t] = "waiting" /\ setup # at[t] /\ MayPoll({})
  /\ IF link[at[t]] = "failed" THEN Refuse(t) ELSE GoesTo(t, "connected")
  /\ UNCHANGED <<threading, cast, at, waits, connVars, intentVars, cancelled, tableVars, fetch, askVars>>

\* External: the response loop of the connection ends.
LoseConnection(k) ==
  /\ link[k] = "open" /\ k < MaxConns
  /\ link' = [link EXCEPT ![k] = "closed"]
  /\ UNCHANGED <<threading, cast, conn, setup, taskVars, intentVars, cancelled, tableVars, fetch, askVars>>

-----------------------------------------------------------------------------
(* start_follow, once it has a connection, and ensure_remote_follow.       *)

Check(s) ==
  /\ phase[s] = "connected" /\ MayPoll({s})
  /\ IF s \in cancelled THEN Refuse(s) ELSE GoesTo(s, "checked")
  /\ UNCHANGED <<threading, cast, at, waits, connVars, intentVars, cancelled, tableVars, fetch, askVars>>

RegisterFollow(s) ==
  /\ phase[s] = "checked" /\ MayPoll({s})
  /\ LET old == FollowOf(at[s], IdOf[s]) IN
     follows' = (follows \ old) \cup
       IF old = {} THEN {[conn |-> at[s], owner |-> s, runtime |-> s \in WithRuntime,
                            remote |-> NoStream, alias |-> NoName]}
       ELSE {[f EXCEPT !.owner = s] : f \in old}
  /\ GoesTo(s, "registered")
  /\ UNCHANGED <<threading, cast, at, waits, connVars, intentVars, cancelled, setups, aborted, fetch,
                 askVars>>

Ensure(s) ==
  LET k == at[s]  i == IdOf[s] IN
  /\ phase[s] = "registered" /\ MayPoll({s})
  /\ \/ /\ Gone(k, i)
        /\ Refuse(s) /\ RemoveFollow(k, i)
        /\ UNCHANGED <<waits, fetch>>
     \/ /\ ~Gone(k, i) /\ \E f \in FollowOf(k, i) : f.remote # NoStream
        /\ GoesTo(s, "following")
        /\ UNCHANGED <<waits, fetch, tableVars>>
     \/ /\ ~Gone(k, i) /\ \A f \in FollowOf(k, i) : f.remote = NoStream
        /\ GoesTo(s, "joined")
        /\ \/ /\ SetupOf(k, i) = {}
              /\ setups' = setups \cup {s}
              /\ fetch' = [fetch EXCEPT ![s] = "fresh"]
              /\ waits' = [waits EXCEPT ![s] = s]
           \/ /\ \E x \in SetupOf(k, i) : waits' = [waits EXCEPT ![s] = x]
              /\ UNCHANGED <<setups, fetch>>
        /\ UNCHANGED <<follows, aborted>>
  /\ UNCHANGED <<threading, cast, at, connVars, intentVars, cancelled, askVars>>

\* What the setup came to; a failed one gives up the entry under its id.
SetupDone(x) == fetch[x] \in {"pumping", "over", "failed"}

Joined(s) ==
  /\ phase[s] = "joined" /\ SetupDone(waits[s]) /\ MayPoll({})
  /\ IF fetch[waits[s]] = "failed"
     THEN Refuse(s) /\ setups' = setups \ SetupOf(at[s], IdOf[s])
     ELSE GoesTo(s, "following") /\ UNCHANGED setups
  /\ UNCHANGED <<threading, cast, at, waits, connVars, intentVars, cancelled, follows, aborted, fetch,
                 askVars>>

\* The start task that failed cleans up before it ends.
GiveUp(s) ==
  /\ phase[s] = "failing" /\ MayPoll({s})
  /\ GoesTo(s, "failed")
  /\ Cleanup(IdOf[s])
  /\ UNCHANGED <<threading, cast, at, waits, connVars, cancelled, fetch, askVars>>

-----------------------------------------------------------------------------
(* run_follow_setup, and the pump it leaves behind.                        *)

FailSetup(x) ==
  /\ fetch' = [fetch EXCEPT ![x] = "failed"]
  /\ RemoveFollow(at[x], IdOf[x])

SendFollow(x) ==
  /\ fetch[x] = "fresh" /\ MayPoll({})
  /\ IF Gone(at[x], IdOf[x]) THEN FailSetup(x)
     ELSE fetch' = [fetch EXCEPT ![x] = "asked"] /\ UNCHANGED tableVars
  /\ UNCHANGED <<threading, cast, connVars, taskVars, intentVars, cancelled, askVars>>

MisFollowAnswered(x, ok) ==  \* the follow may have gone meanwhile
  /\ fetch[x] = "asked" /\ MayPoll({})
  /\ ok => link[at[x]] = "open"
  /\ IF ~ok THEN FailSetup(x)
     ELSE LET mine == FollowOf(at[x], IdOf[x]) IN
          /\ fetch' = [fetch EXCEPT ![x] = "pumping"]
          /\ follows' = (follows \ mine) \cup {[f EXCEPT !.remote = x] : f \in mine}
          /\ UNCHANGED <<setups, aborted>>
  /\ UNCHANGED <<threading, cast, connVars, taskVars, intentVars, cancelled, askVars>>

\* The chain's answer; there is none but an error on a lost connection.
FollowAnswered(x, ok) ==
  /\ fetch[x] = "asked" /\ MayPoll({})
  /\ ok => link[at[x]] = "open"
  /\ IF ~ok \/ Gone(at[x], IdOf[x]) THEN FailSetup(x)
     ELSE LET mine == FollowOf(at[x], IdOf[x]) IN
          /\ fetch' = [fetch EXCEPT ![x] = "pumping"]
          /\ follows' = (follows \ mine) \cup {[f EXCEPT !.remote = x] : f \in mine}
          /\ UNCHANGED <<setups, aborted>>
  /\ UNCHANGED <<threading, cast, connVars, taskVars, intentVars, cancelled, askVars>>

\* The remote follow stops, fails or goes with the connection.  Aborting
\* does not reach into a poll, so on threads an aborted pump may get here.
PumpStops(x) ==
  /\ fetch[x] = "pumping" /\ MayPoll({})
  /\ x \in aborted => threading = "threads"
  /\ fetch' = [fetch EXCEPT ![x] = "over"]
  /\ DropEntries(at[x], IdOf[x])
  /\ UNCHANGED <<threading, cast, connVars, taskVars, intentVars, cancelled, aborted, askVars>>

PumpAborted(x) ==
  /\ fetch[x] = "pumping" /\ x \in aborted /\ MayPoll({})
  /\ fetch' = [fetch EXCEPT ![x] = "over"]
  /\ UNCHANGED <<threading, cast, connVars, taskVars, intentVars, cancelled, tableVars, askVars>>

-----------------------------------------------------------------------------
(* A follow-bound request: header, body, storage, call, unpin, continue    *)
(* and stop-operation go the same way to their follow.                     *)

\* The connection's own resolution of a follow id.
Hits(k, n) ==
  LET here == {f \in follows : f.conn = k}
      exact == {f \in here : IdOf[f.owner] = n}
      bound == {f \in here : f.alias = n}
      free == {f \in here : f.alias = NoName} IN
  IF exact # {} THEN exact
  ELSE IF bound # {} THEN bound
  ELSE IF Cardinality(free) = 1 THEN free ELSE {}

MisPending(n) ==  \* an alias means no follow before it is set up
  IF n \in intents THEN {n} ELSE {}

\* Its resolution among the follows that may not be set up yet.
Pending(n) ==
  IF n \in intents THEN {n} ELSE IF Cardinality(intents) = 1 THEN intents ELSE {}

Claim(f, n) ==
  follows' = IF IdOf[f.owner] = n THEN follows
             ELSE (follows \ {f}) \cup {[f EXCEPT !.alias = n]}

\* The live streams an id may mean, an alias being clear while there is one.
Meant(n) == {s \in Streams \ cancelled :
  /\ phase[s] # "idle"
  /\ \/ IdOf[s] = n
     \/ n \in Aliases /\ \A t \in Streams : phase[t] # "idle" => t = s}

Ask(q, n) ==
  /\ phase[q] = "idle" /\ q \in cast /\ MayPoll({})
  /\ GoesTo(q, "spawned")
  /\ name' = [name EXCEPT ![q] = n]
  /\ IF Meant(n) = {} THEN UNCHANGED promised
     ELSE \E s \in Meant(n) : promised' = [promised EXCEPT ![q] = s]
  /\ UNCHANGED <<threading, cast, connVars, at, waits, intentVars, cancelled, tableVars, fetch>>

\* `waits` names the stream whose follow it is, in its later phases too.
Resolve(q) ==
  /\ phase[q] \in {"connected", "settled"} /\ MayPoll({q})
  /\ \/ \E f \in Hits(at[q], name[q]) :
          /\ Claim(f, name[q])
          /\ GoesTo(q, "resolved")
          /\ waits' = [waits EXCEPT ![q] = f.owner]
     \/ /\ Hits(at[q], name[q]) = {}
        /\ IF phase[q] = "connected" /\ \E s \in starts : IdOf[s] \in Pending(name[q])
           THEN /\ GoesTo(q, "awaiting")
                /\ \E s \in starts :
                     IdOf[s] \in Pending(name[q]) /\ waits' = [waits EXCEPT ![q] = s]
           ELSE GoesTo(q, "refused") /\ UNCHANGED waits
        /\ UNCHANGED follows
  /\ UNCHANGED <<threading, cast, connVars, at, intentVars, cancelled, setups, aborted, fetch, askVars>>

StartSettled(q) ==
  /\ phase[q] = "awaiting" /\ phase[waits[q]] \in {"following", "failed"} /\ MayPoll({})
  /\ GoesTo(q, IF phase[waits[q]] = "failed" THEN "refused" ELSE "settled")
  /\ UNCHANGED <<threading, cast, connVars, at, waits, intentVars, cancelled, tableVars, fetch, askVars>>

\* The follow is there; a call of the runtime goes on to look how it was made.
Reached(q) == GoesTo(q, IF q \in RuntimeCalls THEN "required" ELSE "sent")

\* require_remote_follow: it never makes a follow of its own.
Require(q) ==
  LET k == at[q]  i == IdOf[waits[q]]
      remotes == {f.remote : f \in FollowOf(k, i)} \ {NoStream} IN
  /\ phase[q] = "resolved" /\ MayPoll({q})
  /\ \/ /\ remotes # {}
        /\ Reached(q) /\ \E x \in remotes : waits' = [waits EXCEPT ![q] = x]
     \/ /\ remotes = {} /\ SetupOf(k, i) # {}
        /\ GoesTo(q, "joined") /\ \E x \in SetupOf(k, i) : waits' = [waits EXCEPT ![q] = x]
     \/ /\ remotes = {} /\ SetupOf(k, i) = {}
        /\ GoesTo(q, "refused") /\ UNCHANGED waits
  /\ UNCHANGED <<threading, cast, connVars, at, intentVars, cancelled, tableVars, fetch, askVars>>

Fetched(q) ==
  /\ phase[q] = "joined" /\ SetupDone(waits[q]) /\ MayPoll({})
  /\ IF fetch[waits[q]] = "failed" THEN GoesTo(q, "refused") ELSE Reached(q)
  /\ UNCHANGED <<threading, cast, connVars, at, waits, intentVars, cancelled, tableVars, fetch, askVars>>

\* follow_with_runtime: the follow may have gone meanwhile.
FollowWithRuntime(q) ==
  /\ phase[q] = "required" /\ MayPoll({q})
  /\ GoesTo(q, IF \E f \in FollowOf(at[q], IdOf[waits[q]]) : f.runtime THEN "sent" ELSE "refused")
  /\ UNCHANGED <<threading, cast, connVars, at, waits, intentVars, cancelled, tableVars, fetch, askVars>>

\* The connection of the product is disposed: the request's future is gone.
DropRequest(q) ==
  /\ phase[q] \in {"spawned", "waiting", "connected", "awaiting", "settled", "joined"}
  /\ MayPoll({})
  /\ GoesTo(q, "dropped")
  /\ UNCHANGED <<threading, cast, connVars, at, waits, intentVars, cancelled, tableVars, fetch, askVars>>

-----------------------------------------------------------------------------
StartStep(s)   == Connect(s) \/ ConnectionReady(s) \/ Check(s) \/ RegisterFollow(s) \/ Ensure(s)
                  \/ Joined(s) \/ GiveUp(s)
SetupStep(x)   == SendFollow(x) \/ \E ok \in BOOLEAN : FollowAnswered(x, ok)
RequestStep(q) == Connect(q) \/ ConnectionReady(q) \/ Resolve(q) \/ StartSettled(q)
                  \/ Require(q) \/ Fetched(q) \/ FollowWithRuntime(q)
ConnectStep    == ConnectPublished \/ \E ok \in BOOLEAN : ConnectAnswered(ok)
PumpCut(x)     == PumpAborted(x) \/ (PumpStops(x) /\ link[at[x]] = "closed")

\* What is done without the product or a failure at the other end.
SystemStep ==
  \/ \E s \in Streams : StartStep(s) \/ SetupStep(s) \/ PumpCut(s)
  \/ \E q \in Requests : RequestStep(q)
  \/ ConnectStep

\* The product's own steps, and failures at the other end.
OutsideStep ==
  \/ \E s \in Streams : Subscribe(s) \/ DropStream(s) \/ PumpStops(s)
  \/ \E q \in Requests : DropRequest(q) \/ \E n \in Asked : Ask(q, n)
  \/ \E k \in Conns : LoseConnection(k)

ChainNext == SystemStep \/ OutsideStep

\* Some task that can go on does, the provider answers, and the chain answers
\* or the connection is lost.  A follow need never stop of its own accord.
ChainFairness == WF_chainVars(SystemStep)

ChainSpec == ChainInit /\ [][ChainNext]_chainVars /\ ChainFairness

-----------------------------------------------------------------------------
FollowStates == [conn : Conns, owner : Streams, runtime : BOOLEAN, remote : Streams \cup {NoStream},
                 alias : Names \cup {NoName}]

(* Every variable holds what the code could hold there; a connection has   *)
(* at most one follow and one setup for a local follow id.                 *)
ChainTypeOK ==
  /\ threading \in ChainModes /\ cast \in Casts
  /\ conn \in 0..MaxConns /\ setup \in 0..MaxConns
  /\ link \in [Conns -> {"none", "connecting", "open", "failed", "closed"}]
  /\ phase \in [Tasks -> MidPoll \cup {"idle", "spawned", "waiting", "connected", "joined",
                 "following", "failed", "awaiting", "settled", "sent", "refused", "dropped",
                 "building", "asked", "tracked", "stopped", "used"}]
  /\ at \in [Tasks -> 0..MaxConns]
  /\ waits \in [Tasks -> Streams \cup {NoStream}]
  /\ intents \subseteq Ids /\ starts \subseteq Streams /\ cancelled \subseteq Streams
  /\ follows \subseteq FollowStates /\ setups \subseteq Streams /\ aborted \subseteq Streams
  /\ \A k \in Conns, i \in Ids : Cardinality(FollowOf(k, i)) <= 1 /\ Cardinality(SetupOf(k, i)) <= 1
  /\ fetch \in [Streams -> {"none", "fresh", "asked", "pumping", "over", "failed"}]
  /\ name \in [Requests -> Names \cup {NoName}]
  /\ promised \in [Requests -> Streams \cup {NoStream}]

(* However many callers need the chain at once, a connection that is open  *)
(* is the one in the table: callers share one `connect` and no connection  *)
(* is orphaned by a later one.                                             *)
OneConnection ==
  /\ \A k \in Conns : link[k] = "open" => k = conn
  /\ \A k \in Conns : link[k] = "connecting" => k = setup /\ \A c \in Conns : link[c] # "open"

(* Streams and the chain's follow subscriptions go together.  A pump that  *)
(* runs has its follow in the table, by which it can be stopped, unless it *)
(* was told to stop or lost its connection: nothing is followed for nobody.*)
(* And a stream the product has not dropped has the sender that keeps it   *)
(* open in the table, as long as its follow goes on.                       *)
FollowsMatchStreams ==
  /\ \A x \in Streams : fetch[x] = "pumping" =>
       (\E f \in follows : f.remote = x) \/ x \in aborted \/ link[at[x]] = "closed"
  /\ \A s \in Streams : phase[s] = "following" /\ s \notin cancelled =>
       (\E f \in follows : f.owner = s) \/ fetch[waits[s]] # "pumping"

(* Between any two steps the tables say what is open at the chain: the     *)
(* connection, and the follows on it.                                      *)
TablesAreExact == OneConnection /\ FollowsMatchStreams

(* A request that came while the follow it names was live is not told that *)
(* there is none: it waits for the setup that is under way.  What excuses  *)
(* a refusal is that the follow was dropped, failed or stopped, that the   *)
(* connection was lost, that a second follow made an alias ambiguous, that *)
(* the follow has an alias already or the name another follow (see         *)
(* ExactIdReachesItsFollow), or that the request calls the runtime and the *)
(* follow was made without.                                                *)
RequestsAwaitSetup ==
  \A q \in Requests : phase[q] = "refused" /\ promised[q] # NoStream =>
    \/ promised[q] \in cancelled
    \/ fetch[promised[q]] \in {"failed", "over"}
    \/ \E k \in Conns : link[k] \in {"failed", "closed"}
    \/ waits[q] \notin {NoStream, promised[q]}
    \/ q \in RuntimeCalls /\ promised[q] \notin WithRuntime
    \/ name[q] \in Aliases /\
         \/ \E s \in Streams \ {promised[q]} : phase[s] # "idle"
         \/ \E f \in follows : f.owner = promised[q] /\ f.alias \notin {NoName, name[q]}

(* The same where a poll is not interrupted, as on WASM's one thread.      *)
RequestsAwaitSetupInTurns == threading = "turns" => RequestsAwaitSetup

(* A request that gives a follow's own id goes to that follow and never to *)
(* another: "Resolve an exact follow id or [...] alias" (line 828), by the *)
(* connection that "can only answer once the follow exists" (line 787).    *)
ExactIdReachesItsFollow ==
  \A q \in Requests : phase[q] = "sent" /\ name[q] \in Ids => IdOf[waits[q]] = name[q]

(* In the end a follow that the product dropped is closed at the chain,    *)
(* however far its setup had got and whichever connection it was on, and   *)
(* every start and request has its answer, also when the caller that drove *)
(* the shared attempt it waits for was dropped.                            *)
Settled(t) == phase[t] \in {"idle", "following", "failed", "sent", "refused", "dropped",
                        "tracked", "stopped", "used"}
EverythingSettles ==
  <>[]( /\ \A t \in Tasks : Settled(t)
        /\ \A s \in cancelled : fetch[s] \in {"none", "over", "failed"} )

=============================================================================
