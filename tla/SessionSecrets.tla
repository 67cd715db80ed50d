------------------------------- MODULE SessionSecrets -------------------------------
(***************************************************************************)
(* The secrets a pairing host keeps for its session: allowance keys, the   *)
(* products' subtrees and the keys of automatic signing, in memory and in  *)
(* core storage (runtime/pairing_host.rs).  Requests fetch them from the   *)
(* wallet and keep them, look them up and evict them, while the host is    *)
(* connected to another session, disconnected, or clears a product.        *)
(*                                                                         *)
(* A step is a turn of the executor: a task up to its next await.  The     *)
(* guard is `session_secret_storage`, which is held across awaits.         *)
(***************************************************************************)
EXTENDS Naturals, Sequences, FiniteSets

CONSTANTS Tasks, Sessions, Products, Nobody,
          Owner,    \* the wallet a session is with
          Casts,    \* bound: what the tasks may be
          Faulty    \* bound: whether core storage may fail, once

Resources == {"allowance", "subtree", "auto"}
Plays == [kind : {"fetch", "refresh", "lookup", "connect", "disconnect", "clear"},
          resource : Resources, product : Products, session : Sessions]

ASSUME NobodyAssumption == Nobody \notin Tasks
ASSUME OwnerAssumption == DOMAIN Owner = Sessions
ASSUME CastAssumption  == Casts \subseteq [Tasks -> Plays] /\ Faulty \in BOOLEAN

VARIABLES
  plays,    \* what each task is
  session,  \* `session_state`: the session, or nobody
  epoch,    \* `session_lifecycle.epoch`
  guard,    \* who holds `session_secret_storage`
  memory,   \* the caches
  disk,     \* core storage
  pc,
  began,    \* the session and the epoch each task began with
  read,     \* the secret a lookup has read from core storage; history: the
            \* subtrees in memory when a disconnection began
  failed,   \* history: core storage has failed
  fences    \* history: what was cleared, and in which epoch

store == <<memory, disk>>
vars  == <<plays, session, epoch, guard, store, pc, began, read, failed, fences>>

\* Automatic signing is the wallet's, everything else the session's.  `since`
\* is the epoch the secret was asked for in.
Keeper(s, resource) == IF resource = "auto" THEN Owner[s] ELSE s
Secret(s, resource, product, since) ==
  [resource |-> resource, keeper |-> Keeper(s, resource), product |-> product, since |-> since]

Same(a, b) == a.resource = b.resource /\ a.keeper = b.keeper /\ a.product = b.product
OfSession(s, resources) == {x \in memory \cup disk : x.resource \in resources /\ x.keeper = s}
OfProduct(p) == {x \in memory \cup disk : x.product = p}
AutoKeys  == {x \in memory \cup disk : x.resource = "auto"}

Mine(t) == Secret(began[t].session, plays[t].resource, plays[t].product, began[t].epoch)
Alike(t) == {x \in memory \cup disk : Same(x, Mine(t))}

Init ==
  /\ plays \in Casts
  /\ session \in Sessions \cup {Nobody} /\ epoch = 0 /\ guard = Nobody
  /\ memory = {}
  /\ disk \in {{}} \cup {{Secret(s, plays[t].resource, plays[t].product, 0)} : s \in Sessions, t \in Tasks}
  /\ session # Nobody => \A x \in disk : x.keeper = Keeper(session, x.resource)
  /\ pc = [t \in Tasks |-> "idle"]
  /\ began = [t \in Tasks |-> [session |-> Nobody, epoch |-> 0]]
  /\ read = [t \in Tasks |-> {}]
  /\ failed = FALSE /\ fences = {}

Goto(t, step)    == pc' = [pc EXCEPT ![t] = step]
Kind(t, kinds)   == plays[t].kind \in kinds
At(t, step)      == pc[t] = step
Resource(t, rs)  == plays[t].resource \in rs

\* session_secret_allocation_is_current
Current(t) == session # Nobody /\ began[t] = [session |-> session, epoch |-> epoch]

\* A write or a clear of core storage, which may fail.
Write(new) == \/ disk' = new /\ UNCHANGED failed
              \/ Faulty /\ ~ failed /\ UNCHANGED disk /\ failed' = TRUE

\* What a task has cleared: the allowances of the session there was, and
\* automatic signing, for some products.
Fence(t, products) ==
  {[resource |-> "allowance", keepers |-> {began[t].session}, products |-> products,
    since |-> began[t].epoch],
   [resource |-> "auto", keepers |-> {Owner[s] : s \in Sessions}, products |-> products,
    since |-> began[t].epoch]}

-----------------------------------------------------------------------------
(* Requests.                                                               *)

(* Operators whose name begins with Mis are no part of the model.  Each is *)
(* a plausible mistake in the operator it precedes; PROJECT.json says      *)
(* which property has to notice it.                                        *)

\* current_private_session and current_session_lifecycle_epoch, in the turn
\* a request begins in
Ask(t) ==
  /\ Kind(t, {"fetch", "refresh", "lookup"}) /\ At(t, "idle") /\ session # Nobody
  /\ began' = [began EXCEPT ![t] = [session |-> session, epoch |-> epoch]]
  /\ Goto(t, CASE Kind(t, {"fetch"}) -> "asked"
               [] Kind(t, {"refresh"}) -> "lock"
               [] OTHER -> IF Resource(t, {"subtree"}) THEN "read" ELSE "lock")
  /\ UNCHANGED <<plays, session, epoch, guard, store, read, failed, fences>>

\* The wallet answers; a local disconnection wakes the waiters with an error.
Answered(t) ==
  /\ At(t, "asked")
  /\ Goto(t, "lock") \/ Goto(t, "done")
  /\ UNCHANGED <<plays, session, epoch, guard, store, began, read, failed, fences>>

MisLock(t) ==  \* the epoch is not compared once the guard is held
  /\ Kind(t, {"fetch", "refresh", "lookup"}) /\ At(t, "lock") /\ guard = Nobody
  /\ IF session = began[t].session
     THEN guard' = t /\ Goto(t, IF Kind(t, {"fetch"}) THEN "write"
                                ELSE IF Kind(t, {"lookup"}) THEN "read" ELSE "evict")
     ELSE Goto(t, "done") /\ UNCHANGED guard
  /\ UNCHANGED <<plays, session, epoch, store, began, read, failed, fences>>

\* The guard, then the check; auto_signing_key, which looks a key up, has no
\* check.
Lock(t) ==
  /\ Kind(t, {"fetch", "refresh", "lookup"}) /\ At(t, "lock") /\ guard = Nobody
  /\ IF Current(t) \/ (Kind(t, {"lookup"}) /\ Resource(t, {"auto"}))
     THEN guard' = t /\ Goto(t, IF Kind(t, {"fetch"}) THEN "write"
                                ELSE IF Kind(t, {"lookup"}) THEN "read" ELSE "evict")
     ELSE Goto(t, "done") /\ UNCHANGED guard
  /\ UNCHANGED <<plays, session, epoch, store, began, read, failed, fences>>

\* write_allowance_key and write_product_subtree replace the entry.
\* remember_auto_signing_key writes the wallet's keys and drops all others,
\* if the session is still the one.  A subtree need not be written.
Keep(t) ==
  /\ At(t, "write")
  /\ IF Resource(t, {"auto"}) /\ ~ Current(t)
     THEN Goto(t, "done") /\ guard' = Nobody /\ UNCHANGED <<disk, failed>>
     ELSE \/ /\ disk' = {Mine(t)} \cup (disk \ (Alike(t) \cup
                  IF Resource(t, {"auto"}) THEN {x \in AutoKeys : x.keeper # Mine(t).keeper} ELSE {}))
             /\ Goto(t, "remember") /\ UNCHANGED <<guard, failed>>
          \/ /\ Faulty /\ ~ failed /\ failed' = TRUE /\ UNCHANGED disk
             /\ IF Resource(t, {"subtree"}) THEN Goto(t, "unsaved") /\ UNCHANGED guard
                ELSE Goto(t, "done") /\ guard' = Nobody
  /\ UNCHANGED <<plays, session, epoch, memory, began, read, fences>>

MisRemember(t) ==  \* what was fetched is cached whatever became of the session
  /\ pc[t] \in {"remember", "unsaved"}
  /\ memory' = (memory \ Alike(t)) \cup {Mine(t)}
  /\ guard' = Nobody /\ Goto(t, "done")
  /\ UNCHANGED <<plays, session, epoch, disk, began, read, failed, fences>>

\* remember_statement_store_allowance_key, remember_bulletin_allowance_key,
\* cache_product_subtree_if_current, cache_auto_signing_key_if_current
Remember(t) ==
  /\ pc[t] \in {"remember", "unsaved"}
  /\ memory' = IF Current(t) THEN (memory \ Alike(t)) \cup {Mine(t)} ELSE memory
  /\ IF At(t, "remember") /\ ~ Current(t)
     THEN Goto(t, "undo") /\ UNCHANGED guard
     ELSE Goto(t, "done") /\ guard' = Nobody
  /\ UNCHANGED <<plays, session, epoch, disk, began, read, failed, fences>>

\* The entry is taken back; of automatic signing, the product's.
Undo(t) ==
  /\ At(t, "undo")
  /\ Write(disk \ IF Resource(t, {"auto"}) THEN AutoKeys \cap OfProduct(plays[t].product)
                  ELSE Alike(t))
  /\ guard' = Nobody /\ Goto(t, "done")
  /\ UNCHANGED <<plays, session, epoch, memory, began, read, fences>>

\* evict_bulletin_allowance_key: out of memory, then off the disk; what is
\* asked for next goes by the epoch of before.
Evict(t) ==
  /\ At(t, "evict")
  /\ memory' = memory \ Alike(t)
  /\ Goto(t, "drop")
  /\ UNCHANGED <<plays, session, epoch, guard, disk, began, read, failed, fences>>

Drop(t) ==
  /\ At(t, "drop")
  /\ Write(disk \ Alike(t))
  /\ guard' = Nobody
  /\ IF Current(t) /\ failed' = failed
     THEN Goto(t, "asked") /\ plays' = [plays EXCEPT ![t].kind = "fetch"]
     ELSE Goto(t, "done") /\ UNCHANGED plays
  /\ UNCHANGED <<session, epoch, memory, began, read, fences>>

\* The lookups: memory first, then core storage.  auto_signing_key drops
\* everything when it meets another wallet's key.
Read(t) ==
  /\ At(t, "read")
  /\ \/ /\ Alike(t) \cap memory # {}
        /\ Goto(t, "done") /\ guard' = (IF guard = t THEN Nobody ELSE guard)
        /\ UNCHANGED <<memory, read>>
     \/ /\ Alike(t) \cap memory = {}
        /\ IF Resource(t, {"auto"}) /\ \E x \in AutoKeys \cap disk : x.keeper # Mine(t).keeper
           THEN Goto(t, "wipe") /\ memory' = memory \ AutoKeys /\ UNCHANGED <<read, guard>>
           ELSE /\ read' = [read EXCEPT ![t] = Alike(t) \cap disk]
                /\ Goto(t, "found") /\ UNCHANGED <<memory, guard>>
  /\ UNCHANGED <<plays, session, epoch, disk, began, failed, fences>>

Found(t) ==
  /\ At(t, "found")
  /\ memory' = IF Current(t) \/ Resource(t, {"auto"}) THEN (memory \ Alike(t)) \cup read[t] ELSE memory
  /\ guard' = (IF guard = t THEN Nobody ELSE guard) /\ Goto(t, "done")
  /\ UNCHANGED <<plays, session, epoch, disk, began, read, failed, fences>>

Wipe(t) ==
  /\ At(t, "wipe")
  /\ Write(disk \ AutoKeys)
  /\ guard' = Nobody /\ Goto(t, "done")
  /\ UNCHANGED <<plays, session, epoch, memory, began, read, fences>>

\* The request is dropped, with its connection or after its deadline.
Abandon(t) ==
  /\ Kind(t, {"fetch", "refresh", "lookup"}) /\ pc[t] \notin {"idle", "done"}
  /\ guard' = (IF guard = t THEN Nobody ELSE guard) /\ Goto(t, "done")
  /\ UNCHANGED <<plays, session, epoch, store, began, read, failed, fences>>

-----------------------------------------------------------------------------
(* Disconnection: clear_disconnected_session.                              *)

\* The lifecycle advances, the session is cleared and its channel stopped.
Disconnect(t) ==
  /\ Kind(t, {"disconnect"}) /\ At(t, "idle")
  /\ epoch' = epoch + 1 /\ session' = Nobody
  /\ began' = [began EXCEPT ![t] = [session |-> session, epoch |-> epoch + 1]]
  /\ memory' = memory \ OfSession(session, {"allowance", "subtree"})
  /\ read' = [read EXCEPT ![t] = OfSession(session, {"subtree"}) \cap memory]
  /\ Goto(t, "erase")
  /\ UNCHANGED <<plays, guard, disk, failed, fences>>

\* `AuthSession` is erased, which may take its time.
Erase(t) ==
  /\ At(t, "erase")
  /\ Goto(t, "waiting")
  /\ UNCHANGED <<plays, session, epoch, guard, store, began, read, failed, fences>>

\* Anybody else's way to the guard
Wait(t) ==
  /\ At(t, "waiting") /\ guard = Nobody
  /\ guard' = t
  /\ Goto(t, IF Kind(t, {"disconnect"}) THEN "allowances" ELSE "product")
  /\ UNCHANGED <<plays, session, epoch, store, began, read, failed, fences>>

MisWipeAllowances(t) ==  \* what is in memory is all there is
  /\ At(t, "allowances")
  /\ memory' = memory \ OfSession(began[t].session, {"allowance"})
  /\ Goto(t, "subtrees") /\ UNCHANGED <<disk, failed>>
  /\ UNCHANGED <<plays, session, epoch, guard, began, read, fences>>

\* clear_session_allowance_keys
WipeAllowances(t) ==
  /\ At(t, "allowances")
  /\ memory' = memory \ OfSession(began[t].session, {"allowance"})
  /\ Write(disk \ OfSession(began[t].session, {"allowance"}))
  /\ Goto(t, "subtrees")
  /\ UNCHANGED <<plays, session, epoch, guard, began, read, fences>>

\* clear_stored_product_subtrees, of the products that are in memory; then
\* they, and automatic signing, are gone from memory.
WipeSubtrees(t) ==
  /\ At(t, "subtrees")
  /\ LET known == OfSession(began[t].session, {"subtree"}) \cap memory IN
     /\ Write({x \in disk : ~ \E y \in known : Same(x, y)})
     /\ memory' = memory \ (known \cup AutoKeys)
  /\ Goto(t, "auto")
  /\ UNCHANGED <<plays, session, epoch, guard, began, read, fences>>

MisWipeAuto(t) ==  \* clear_auto_signing_keys, which locks once more
  /\ At(t, "auto") /\ guard = Nobody
  /\ Write(disk \ AutoKeys)
  /\ Goto(t, "done") /\ UNCHANGED guard
  /\ fences' = fences \cup Fence(t, Products)
  /\ UNCHANGED <<plays, session, epoch, memory, began, read>>

\* clear_auto_signing_keys_under_storage_guard
WipeAuto(t) ==
  /\ At(t, "auto")
  /\ Write(disk \ AutoKeys)
  /\ guard' = Nobody /\ Goto(t, "done")
  /\ fences' = fences \cup Fence(t, Products)
  /\ UNCHANGED <<plays, session, epoch, memory, began, read>>

-----------------------------------------------------------------------------
(* Clearing a product: clear_product_state.                                *)

MisClearProduct(t) ==  \* the work on its way is not fenced off
  /\ Kind(t, {"clear"}) /\ At(t, "idle")
  /\ began' = [began EXCEPT ![t] = [session |-> session, epoch |-> epoch + 1]]
  /\ Goto(t, "waiting")
  /\ UNCHANGED <<plays, session, epoch, guard, store, read, failed, fences>>

ClearProduct(t) ==
  /\ Kind(t, {"clear"}) /\ At(t, "idle")
  /\ epoch' = epoch + 1
  /\ began' = [began EXCEPT ![t] = [session |-> session, epoch |-> epoch + 1]]
  /\ Goto(t, "waiting")
  /\ UNCHANGED <<plays, session, guard, store, read, failed, fences>>

\* The caches, then automatic signing's keys on disk
WipeProduct(t) ==
  /\ At(t, "product")
  /\ memory' = memory \ OfProduct(plays[t].product)
  /\ Write(disk \ (AutoKeys \cap OfProduct(plays[t].product)))
  /\ Goto(t, "entries")
  /\ UNCHANGED <<plays, session, epoch, guard, began, read, fences>>

\* clear_product_allowance_keys, of the session there was
WipeEntries(t) ==
  /\ At(t, "entries")
  /\ Write(disk \ (OfSession(began[t].session, {"allowance"}) \cap OfProduct(plays[t].product)))
  /\ guard' = Nobody /\ Goto(t, "done")
  /\ fences' = fences \cup Fence(t, {plays[t].product})
  /\ UNCHANGED <<plays, session, epoch, memory, began, read>>

-----------------------------------------------------------------------------
(* Connection: set_connected_session and set_connected_session_if_current. *)

\* The lifecycle advances; `began` is the session found and the epoch.
Connect(t) ==
  /\ Kind(t, {"connect"}) /\ At(t, "idle")
  /\ epoch' = epoch + 1
  /\ began' = [began EXCEPT ![t] = [session |-> session, epoch |-> epoch + 1]]
  /\ Goto(t, "owner")
  /\ UNCHANGED <<plays, session, guard, store, read, failed, fences>>

\* Automatic signing of another wallet is dropped: of a previous session's,
\* or, with none, if core storage holds another wallet's.
Reconcile(t) ==
  /\ At(t, "owner") /\ guard = Nobody
  /\ LET other == IF began[t].session # Nobody
                  THEN Owner[began[t].session] # Owner[plays[t].session]
                  ELSE \E x \in AutoKeys \cap disk : x.keeper # Owner[plays[t].session] IN
     IF other THEN guard' = t /\ memory' = memory \ AutoKeys /\ Goto(t, "foreign")
     ELSE /\ Goto(t, IF began[t].session \in {Nobody, plays[t].session} THEN "install" ELSE "previous")
          /\ UNCHANGED <<guard, memory>>
  /\ UNCHANGED <<plays, session, epoch, disk, began, read, failed, fences>>

WipeForeign(t) ==
  /\ At(t, "foreign")
  /\ Write(disk \ AutoKeys)
  /\ guard' = Nobody
  /\ Goto(t, IF began[t].session \in {Nobody, plays[t].session} THEN "install" ELSE "previous")
  /\ UNCHANGED <<plays, session, epoch, memory, began, read, fences>>

\* The allowances of the session that is replaced
WipePrevious(t) ==
  \/ /\ At(t, "previous") /\ guard = Nobody
     /\ guard' = t
     /\ memory' = memory \ OfSession(began[t].session, {"allowance"})
     /\ Goto(t, "replaced")
     /\ UNCHANGED <<plays, session, epoch, disk, began, read, failed, fences>>
  \/ /\ At(t, "replaced")
     /\ Write(disk \ OfSession(began[t].session, {"allowance"}))
     /\ guard' = Nobody /\ Goto(t, "install")
     /\ UNCHANGED <<plays, session, epoch, memory, began, read, fences>>

\* Installed if nothing happened meanwhile, with the channel of the session
\* that is replaced stopped.
Install(t) ==
  /\ At(t, "install")
  /\ IF epoch = began[t].epoch
     THEN /\ session' = plays[t].session
          /\ memory' = IF session = plays[t].session THEN memory
                       ELSE memory \ OfSession(session, {"allowance", "subtree"})
     ELSE UNCHANGED <<session, memory>>
  /\ Goto(t, "done")
  /\ UNCHANGED <<plays, epoch, guard, disk, began, read, failed, fences>>

-----------------------------------------------------------------------------
RequestStep(t) ==
  \/ Ask(t) \/ Lock(t) \/ Keep(t) \/ Remember(t) \/ Undo(t) \/ Evict(t) \/ Drop(t)
  \/ Read(t) \/ Found(t) \/ Wipe(t)

HostStep(t) ==
  \/ Erase(t) \/ Wait(t) \/ WipeAllowances(t) \/ WipeSubtrees(t) \/ WipeAuto(t)
  \/ WipeProduct(t) \/ WipeEntries(t)
  \/ Reconcile(t) \/ WipeForeign(t) \/ WipePrevious(t) \/ Install(t)

Next == \E t \in Tasks :
  \/ RequestStep(t) \/ Answered(t) \/ Abandon(t) \/ HostStep(t)
  \/ Disconnect(t) \/ ClearProduct(t) \/ Connect(t)

\* The executor runs whoever is woken, and core storage answers.
Fairness == WF_vars(\E t \in Tasks : (pc[t] # "idle" /\ RequestStep(t)) \/ HostStep(t))

Spec == Init /\ [][Next]_vars /\ Fairness

-----------------------------------------------------------------------------
TypeOK ==
  /\ plays \in [Tasks -> Plays]
  /\ session \in Sessions \cup {Nobody} /\ epoch \in Nat /\ guard \in Tasks \cup {Nobody}
  /\ \A x \in memory \cup disk : x.resource \in Resources /\ x.product \in Products
  /\ \A x, y \in disk   : Same(x, y) => x = y
  /\ \A x, y \in memory : Same(x, y) => x = y

\* What is cached for a session is the session's that is connected: nothing a
\* request brings in late outlives a disconnection or a replacement
\* (stop_session_channel, remember_..., cache_..._if_current).
MemoryIsTheSessions ==
  \A x \in memory : x.resource # "auto" => x.keeper = session

\* Once a session was disconnected, or a product cleared, no allowance and no
\* key of automatic signing that was asked for before is left or comes back,
\* in memory or in core storage, if that did not fail: not by a request that
\* was on its way, not by one that was dropped between writing and caching,
\* nor by a session connected again (clear_disconnected_session,
\* clear_product_state).  A connection removes nothing of the kind; product
\* subtrees are KnownSubtreesDropped's.
NothingOutlivesItsFence ==
  ~ failed => \A f \in fences, x \in memory \cup disk :
    x.resource = f.resource /\ x.keeper \in f.keepers /\ x.product \in f.products
      => x.since >= f.since

\* Whoever waits for the guard gets it: nobody keeps it when he is done, fails
\* or is dropped.
EverybodyGetsThere ==
  \A t \in Tasks : pc[t] \in {"lock", "waiting", "owner", "previous"} ~>
    pc[t] \notin {"lock", "waiting", "owner", "previous"}

\* "Drop the persisted subtree slots this run knows about for `session`"
\* (pairing_host.rs:1893): a disconnection leaves none of the subtrees that
\* were in memory when it began in core storage.
KnownSubtreesDropped ==
  ~ failed => \A t \in Tasks :
    Kind(t, {"disconnect"}) /\ pc[t] \in {"auto", "done"} => read[t] \cap disk = {}

=============================================================================
