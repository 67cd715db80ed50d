---------------------------- MODULE PairingHostProofs -------------------------------
(***************************************************************************)
(* Proofs about SessionSecrets, for any number of tasks, sessions and      *)
(* products, any wallets behind the sessions, and failures of core storage *)
(* or none; and about PairingSession, for any logins, sessions of the      *)
(* host's own, logouts and sets of tasks that run together.                *)
(***************************************************************************)
EXTENDS SessionSecrets, PairingSession, TLAPS

-----------------------------------------------------------------------------
(* The inductive invariant.                                                *)

Secrets == [resource : Resources, keeper : Sessions \cup {Owner[s] : s \in Sessions},
            product : Products, since : Nat]

Fences == [resource : {"allowance", "auto"},
           keepers  : SUBSET (Sessions \cup {Nobody} \cup {Owner[s] : s \in Sessions}),
           products : SUBSET Products, since : Nat]

Steps == {"idle", "asked", "lock", "write", "remember", "unsaved", "undo", "evict", "drop",
          "read", "found", "wipe", "erase", "waiting", "allowances", "subtrees", "auto",
          "product", "entries", "owner", "foreign", "previous", "replaced", "install", "done"}

Types ==
  /\ plays \in [Tasks -> Plays]
  /\ session \in Sessions \cup {Nobody} /\ epoch \in Nat /\ guard \in Tasks \cup {Nobody}
  /\ memory \subseteq Secrets /\ disk \subseteq Secrets
  /\ pc \in [Tasks -> Steps]
  /\ began \in [Tasks -> [session : Sessions \cup {Nobody}, epoch : Nat]]
  /\ read \in [Tasks -> SUBSET Secrets]
  /\ failed \in BOOLEAN /\ fences \subseteq Fences

\* A secret has one entry.
Single(kept) == \A x, y \in kept : Same(x, y) => x = y

\* What a request works on
Working == {"asked", "lock", "write", "remember", "unsaved", "undo", "evict", "drop", "read",
            "found", "wipe"}

\* Who works under the guard.  Subtrees are looked up without it.
Guarded(t) ==
  \/ pc[t] \in {"write", "remember", "unsaved", "undo", "evict", "drop", "wipe",
                "allowances", "subtrees", "auto", "product", "entries", "foreign", "replaced"}
  \/ pc[t] \in {"read", "found"} /\ plays[t].resource # "subtree"

\* A secret was asked for no earlier than what cleared its like.
Clean(x) == \A f \in fences :
  x.resource = f.resource /\ x.keeper \in f.keepers /\ x.product \in f.products
    => x.since >= f.since

\* What a task has in hand is its own secret.
HandInv(t) ==
  /\ began[t].epoch <= epoch
  /\ pc[t] \in Working => began[t].session \in Sessions
  /\ pc[t] = "found" => Single(read[t]) /\ \A x \in read[t] : Same(x, Mine(t))

GuardInv(t) == Guarded(t) => guard = t

\* What a task is about to keep is clean, and what it has begun to clear is
\* away until its fence is up.
FenceInv(t) ==
  /\ pc[t] \in {"write", "remember", "unsaved"} => Clean(Mine(t))
  /\ pc[t] = "found" => \A x \in read[t] : Clean(x)
  /\ pc[t] \in {"subtrees", "auto"} =>
       \A x \in memory \cup disk : ~ (x.resource = "allowance" /\ x.keeper = began[t].session)
  /\ pc[t] = "auto" => \A x \in memory : x.resource # "auto"
  /\ pc[t] = "entries" =>
       /\ \A x \in memory : x.product = plays[t].product => x.resource = "subtree"
       /\ \A x \in disk : x.product = plays[t].product => x.resource # "auto"

FencesPassed == \A f \in fences : f.since <= epoch

IInv ==
  /\ Types /\ Single(memory) /\ Single(disk) /\ MemoryIsTheSessions /\ FencesPassed
  /\ \A t \in Tasks : HandInv(t) /\ GuardInv(t)
  /\ ~ failed => \A x \in memory \cup disk : Clean(x)
  /\ ~ failed => \A t \in Tasks : FenceInv(t)

-----------------------------------------------------------------------------
(* What a step of one task leaves to the others.                           *)

Shrinks == memory' \subseteq memory /\ disk' \subseteq disk

\* Nothing but subtrees comes in.
NothingGuardedComesIn ==
  /\ \A x \in memory' : x.resource = "subtree" \/ x \in memory
  /\ \A x \in disk' : x.resource = "subtree" \/ x \in disk

Apart(t) == \A u \in Tasks \ {t} :
  pc'[u] = pc[u] /\ began'[u] = began[u] /\ read'[u] = read[u] /\ plays'[u] = plays[u]

Effects(t) ==
  /\ Apart(t)
  /\ guard' = guard \/ (guard \in {t, Nobody} /\ guard' \in {t, Nobody})
  /\ epoch' >= epoch /\ (failed => failed')
  /\ fences \subseteq fences'
  /\ guard = t \/ (fences' = fences /\ NothingGuardedComesIn)

\* Most steps bring nothing in, and nobody's session changes.
Quiet == Shrinks /\ UNCHANGED <<session, fences>>

QuietStep(t) ==
  \/ Ask(t) \/ Answered(t) \/ Lock(t) \/ Undo(t) \/ Evict(t) \/ Drop(t) \/ Read(t) \/ Wipe(t)
  \/ Abandon(t) \/ Erase(t) \/ Wait(t) \/ WipeAllowances(t) \/ WipeSubtrees(t)
  \/ ClearProduct(t) \/ WipeProduct(t) \/ Connect(t) \/ Reconcile(t) \/ WipeForeign(t)
  \/ WipePrevious(t)

LEMMA WriteShrinks ==
  ASSUME Types, NEW new, new \subseteq disk, Write(new)
  PROVE  disk' \subseteq disk /\ (failed => failed') /\ failed' \in BOOLEAN
<1>1. CASE disk' = new /\ failed' = failed BY <1>1 DEF Types
<1>2. CASE disk' = disk /\ failed' = TRUE BY <1>2
<1>3. QED BY <1>1, <1>2 DEF Write

LEMMA QuietSteps ==
  ASSUME Types, NEW t \in Tasks, QuietStep(t)
  PROVE  Quiet /\ Apart(t) /\ epoch' \in Nat /\ epoch' >= epoch /\ (failed => failed')
         /\ failed' \in BOOLEAN
<1> USE WriteShrinks DEF Types, Quiet, Shrinks, Apart, Goto, store
<1>1. CASE Ask(t) BY <1>1 DEF Ask
<1>2. CASE Answered(t) BY <1>2 DEF Answered
<1>3. CASE Lock(t) BY <1>3 DEF Lock
<1>4. CASE Undo(t) BY <1>4 DEF Undo
<1>5. CASE Evict(t) BY <1>5 DEF Evict
<1>6. CASE Drop(t) BY <1>6 DEF Drop
<1>7. CASE Read(t) BY <1>7 DEF Read
<1>8. CASE Wipe(t) BY <1>8 DEF Wipe
<1>9. CASE Abandon(t) BY <1>9 DEF Abandon
<1>10. CASE Erase(t) BY <1>10 DEF Erase
<1>11. CASE Wait(t) BY <1>11 DEF Wait
<1>12. CASE WipeAllowances(t) BY <1>12 DEF WipeAllowances
<1>13. CASE WipeSubtrees(t) BY <1>13 DEF WipeSubtrees
<1>14. CASE ClearProduct(t) BY <1>14 DEF ClearProduct
<1>15. CASE WipeProduct(t) BY <1>15 DEF WipeProduct
<1>16. CASE Connect(t) BY <1>16 DEF Connect
<1>17. CASE Reconcile(t) BY <1>17 DEF Reconcile
<1>18. CASE WipeForeign(t) BY <1>18 DEF WipeForeign
<1>19. CASE WipePrevious(t) BY <1>19 DEF WipePrevious
<1>20. QED BY <1>1, <1>2, <1>3, <1>4, <1>5, <1>6, <1>7, <1>8, <1>9, <1>10, <1>11, <1>12,
             <1>13, <1>14, <1>15, <1>16, <1>17, <1>18, <1>19 DEF QuietStep

LEMMA QuietGuard ==
  ASSUME Types, NEW t \in Tasks, QuietStep(t), GuardInv(t)
  PROVE  guard' = guard \/ (guard \in {t, Nobody} /\ guard' \in {t, Nobody})
<1> USE DEF GuardInv, Guarded, At
<1>1. CASE Ask(t) BY <1>1 DEF Ask
<1>2. CASE Answered(t) BY <1>2 DEF Answered
<1>3. CASE Lock(t) BY <1>3 DEF Lock
<1>4. CASE Undo(t) BY <1>4 DEF Undo
<1>5. CASE Evict(t) BY <1>5 DEF Evict
<1>6. CASE Drop(t) BY <1>6 DEF Drop
<1>7. CASE Read(t) BY <1>7 DEF Read
<1>8. CASE Wipe(t) BY <1>8 DEF Wipe
<1>9. CASE Abandon(t) BY <1>9 DEF Abandon
<1>10. CASE Erase(t) BY <1>10 DEF Erase
<1>11. CASE Wait(t) BY <1>11 DEF Wait
<1>12. CASE WipeAllowances(t) BY <1>12 DEF WipeAllowances
<1>13. CASE WipeSubtrees(t) BY <1>13 DEF WipeSubtrees
<1>14. CASE ClearProduct(t) BY <1>14 DEF ClearProduct
<1>15. CASE WipeProduct(t) BY <1>15 DEF WipeProduct
<1>16. CASE Connect(t) BY <1>16 DEF Connect
<1>17. CASE Reconcile(t) BY <1>17 DEF Reconcile
<1>18. CASE WipeForeign(t) BY <1>18 DEF WipeForeign
<1>19. CASE WipePrevious(t) BY <1>19 DEF WipePrevious
<1>20. QED BY <1>1, <1>2, <1>3, <1>4, <1>5, <1>6, <1>7, <1>8, <1>9, <1>10, <1>11, <1>12,
             <1>13, <1>14, <1>15, <1>16, <1>17, <1>18, <1>19 DEF QuietStep

\* A phase of a task
LEMMA GotoTypes == ASSUME Types, NEW t \in Tasks, NEW s \in Steps, Goto(t, s)
                   PROVE  pc' \in [Tasks -> Steps] /\ pc'[t] = s
BY DEF Types, Goto

LEMMA QuietPhase ==
  ASSUME Types, NEW t \in Tasks, QuietStep(t) PROVE \E s \in Steps : Goto(t, s)
<1> USE DEF Steps
<1>1. CASE Ask(t)
  <2> DEFINE next == CASE Kind(t, {"fetch"}) -> "asked"
                       [] Kind(t, {"refresh"}) -> "lock"
                       [] OTHER -> IF Resource(t, {"subtree"}) THEN "read" ELSE "lock"
  <2>1. Goto(t, next) BY <1>1 DEF Ask
  <2>2. next \in {"asked", "lock", "read"} BY DEF Kind
  <2> HIDE DEF next
  <2>3. QED BY <2>1, <2>2
<1>2. CASE Answered(t) BY <1>2 DEF Answered
<1>3. CASE Lock(t)
  <2>1. Goto(t, "write") \/ Goto(t, "read") \/ Goto(t, "evict") \/ Goto(t, "done")
    BY <1>3 DEF Lock
  <2>2. QED BY <2>1
<1>4. CASE Undo(t) BY <1>4 DEF Undo
<1>5. CASE Evict(t) BY <1>5 DEF Evict
<1>6. CASE Drop(t) BY <1>6 DEF Drop
<1>7. CASE Read(t) BY <1>7 DEF Read
<1>8. CASE Wipe(t) BY <1>8 DEF Wipe
<1>9. CASE Abandon(t) BY <1>9 DEF Abandon
<1>10. CASE Erase(t) BY <1>10 DEF Erase
<1>11. CASE Wait(t)
  <2>1. Goto(t, "allowances") \/ Goto(t, "product") BY <1>11 DEF Wait
  <2>2. QED BY <2>1
<1>12. CASE WipeAllowances(t) BY <1>12 DEF WipeAllowances
<1>13. CASE WipeSubtrees(t) BY <1>13 DEF WipeSubtrees
<1>14. CASE ClearProduct(t) BY <1>14 DEF ClearProduct
<1>15. CASE WipeProduct(t) BY <1>15 DEF WipeProduct
<1>16. CASE Connect(t) BY <1>16 DEF Connect
<1>17. CASE Reconcile(t)
  <2>1. Goto(t, "foreign") \/ Goto(t, "install") \/ Goto(t, "previous") BY <1>17 DEF Reconcile
  <2>2. QED BY <2>1
<1>18. CASE WipeForeign(t)
  <2>1. Goto(t, "install") \/ Goto(t, "previous") BY <1>18 DEF WipeForeign
  <2>2. QED BY <2>1
<1>19. CASE WipePrevious(t) BY <1>19 DEF WipePrevious
<1>20. QED BY <1>1, <1>2, <1>3, <1>4, <1>5, <1>6, <1>7, <1>8, <1>9, <1>10, <1>11, <1>12,
             <1>13, <1>14, <1>15, <1>16, <1>17, <1>18, <1>19 DEF QuietStep

\* The session and the epoch a task begins with
Begins(t, since) == began' = [began EXCEPT ![t] = [session |-> session, epoch |-> since]]

LEMMA BeginsTypes ==
  ASSUME Types, NEW t \in Tasks, NEW since \in Nat, Begins(t, since)
  PROVE  /\ began' \in [Tasks -> [session : Sessions \cup {Nobody}, epoch : Nat]]
         /\ began'[t] = [session |-> session, epoch |-> since]
<1>1. [session |-> session, epoch |-> since] \in [session : Sessions \cup {Nobody}, epoch : Nat]
  BY DEF Types
<1>2. QED BY <1>1 DEF Types, Begins

LEMMA QuietLocals ==
  ASSUME Types, NEW t \in Tasks, QuietStep(t)
  PROVE  /\ began' = began \/ Begins(t, epoch) \/ Begins(t, epoch + 1)
         /\ plays' = plays \/ plays' = [plays EXCEPT ![t].kind = "fetch"]
         /\ read' = read \/ read' = [read EXCEPT ![t] = Alike(t) \cap disk]
<1> USE DEF Begins
<1>1. CASE Ask(t) BY <1>1 DEF Ask
<1>2. CASE Answered(t) BY <1>2 DEF Answered
<1>3. CASE Lock(t) BY <1>3 DEF Lock
<1>4. CASE Undo(t) BY <1>4 DEF Undo
<1>5. CASE Evict(t) BY <1>5 DEF Evict
<1>6. CASE Drop(t) BY <1>6 DEF Drop
<1>7. CASE Read(t) BY <1>7 DEF Read
<1>8. CASE Wipe(t) BY <1>8 DEF Wipe
<1>9. CASE Abandon(t) BY <1>9 DEF Abandon
<1>10. CASE Erase(t) BY <1>10 DEF Erase
<1>11. CASE Wait(t) BY <1>11 DEF Wait
<1>12. CASE WipeAllowances(t) BY <1>12 DEF WipeAllowances
<1>13. CASE WipeSubtrees(t) BY <1>13 DEF WipeSubtrees
<1>14. CASE ClearProduct(t) BY <1>14 DEF ClearProduct
<1>15. CASE WipeProduct(t) BY <1>15 DEF WipeProduct
<1>16. CASE Connect(t) BY <1>16 DEF Connect
<1>17. CASE Reconcile(t) BY <1>17 DEF Reconcile
<1>18. CASE WipeForeign(t) BY <1>18 DEF WipeForeign
<1>19. CASE WipePrevious(t) BY <1>19 DEF WipePrevious
<1>20. QED BY <1>1, <1>2, <1>3, <1>4, <1>5, <1>6, <1>7, <1>8, <1>9, <1>10, <1>11, <1>12,
             <1>13, <1>14, <1>15, <1>16, <1>17, <1>18, <1>19 DEF QuietStep

LEMMA QuietTypes ==
  ASSUME Types, NEW t \in Tasks, QuietStep(t), GuardInv(t) PROVE Types'
<1>1. /\ memory' \subseteq memory /\ disk' \subseteq disk /\ UNCHANGED <<session, fences>>
      /\ epoch' \in Nat /\ failed' \in BOOLEAN
  BY QuietSteps DEF Quiet, Shrinks
<1>2. guard' \in Tasks \cup {Nobody} BY QuietGuard DEF Types
<1>3. pc' \in [Tasks -> Steps] BY QuietPhase, GotoTypes
<1>4. began' \in [Tasks -> [session : Sessions \cup {Nobody}, epoch : Nat]]
  <2>1. epoch \in Nat /\ epoch + 1 \in Nat BY DEF Types
  <2>2. QED BY <2>1, QuietLocals, BeginsTypes DEF Types
<1>5. plays' \in [Tasks -> Plays]
  <2>1. plays[t] \in Plays BY DEF Types
  <2>2. [plays[t] EXCEPT !.kind = "fetch"] \in Plays BY <2>1 DEF Plays
  <2>3. plays' = plays \/ plays' = [plays EXCEPT ![t] = [plays[t] EXCEPT !.kind = "fetch"]]
    BY <2>1, QuietLocals DEF Types
  <2>4. QED BY <2>2, <2>3 DEF Types
<1>6. read' \in [Tasks -> SUBSET Secrets]
  <2>1. Alike(t) \cap disk \subseteq Secrets BY DEF Types
  <2>2. QED BY <2>1, QuietLocals DEF Types
<1>7. QED BY <1>1, <1>2, <1>3, <1>4, <1>5, <1>6 DEF Types

-----------------------------------------------------------------------------
(* What holds of the task itself.                                          *)

\* Only in these phases has a task something to answer for.
LEMMA FenceElsewhere ==
  ASSUME NEW t \in Tasks,
         pc'[t] \notin {"write", "remember", "unsaved", "found", "subtrees", "auto", "entries"}
  PROVE  FenceInv(t)'
BY DEF FenceInv

\* Nothing is in hand outside of a request.
LEMMA HandElsewhere ==
  ASSUME NEW t \in Tasks, began'[t].epoch <= epoch', pc'[t] \notin Working
  PROVE  HandInv(t)'
BY DEF HandInv, Working

LEMMA HandKept ==
  ASSUME NEW t \in Tasks, HandInv(t), Types, epoch' = epoch, began' = began,
         pc[t] \in Working, pc'[t] # "found"
  PROVE  HandInv(t)'
BY DEF HandInv

LEMMA AskActs ==
  ASSUME IInv, NEW t \in Tasks, Ask(t) PROVE HandInv(t)' /\ GuardInv(t)' /\ FenceInv(t)'
<1>1. Types BY DEF IInv
<1>2. session \in Sessions /\ epoch' = epoch /\ epoch \in Nat /\ guard' = guard /\ plays' = plays
  BY <1>1 DEF Ask, Types
<1>3. began'[t] = [session |-> session, epoch |-> epoch] BY <1>1 DEF Ask, Types
<1> DEFINE next == CASE Kind(t, {"fetch"}) -> "asked"
                     [] Kind(t, {"refresh"}) -> "lock"
                     [] OTHER -> IF Resource(t, {"subtree"}) THEN "read" ELSE "lock"
<1>4. Goto(t, next) BY DEF Ask
<1>5. next \in {"asked", "lock"} \/ (next = "read" /\ Resource(t, {"subtree"})) BY DEF Kind
<1> HIDE DEF next
<1>6. pc'[t] \in {"asked", "lock"} \/ (pc'[t] = "read" /\ Resource(t, {"subtree"}))
  BY <1>1, <1>4, <1>5 DEF Goto, Types
<1>7. HandInv(t)' BY <1>2, <1>3, <1>6 DEF HandInv
<1>8. GuardInv(t)' BY <1>2, <1>6 DEF GuardInv, Guarded, Resource
<1>9. QED BY <1>6, <1>7, <1>8, FenceElsewhere

LEMMA LockActs ==
  ASSUME IInv, NEW t \in Tasks, Lock(t)
  PROVE  HandInv(t)' /\ GuardInv(t)' /\ (~ failed' => FenceInv(t)')
<1>1. Types /\ HandInv(t) /\ FencesPassed BY DEF IInv
<1>2. pc[t] = "lock" /\ UNCHANGED <<plays, session, epoch, began, fences>> BY DEF Lock, At
<1>3. \/ pc'[t] = "done"
      \/ guard' = t /\ pc'[t] \in {"read", "evict"}
      \/ guard' = t /\ pc'[t] = "write" /\ Current(t)
  BY <1>1 DEF Lock, Goto, Types, Kind
<1>4. HandInv(t)' BY <1>1, <1>2, <1>3, HandKept DEF Working
<1>5. GuardInv(t)' BY <1>3 DEF GuardInv, Guarded
<1>6. ASSUME pc'[t] = "write" PROVE FenceInv(t)'
  <2>1. began[t].epoch = epoch BY <1>3, <1>6 DEF Current
  <2>2. Mine(t).since = epoch BY <2>1 DEF Mine, Secret
  <2>3. Mine(t)' = Mine(t) BY <1>2 DEF Mine
  <2>4. \A f \in fences : f.since <= epoch /\ f.since \in Nat /\ epoch \in Nat
    BY <1>1 DEF FencesPassed, Types, Fences
  <2>5. Clean(Mine(t)) BY <2>2, <2>4 DEF Clean
  <2>6. Clean(Mine(t))' BY <1>2, <2>3, <2>5 DEF Clean
  <2>7. QED BY <1>6, <2>6 DEF FenceInv
<1>7. QED BY <1>3, <1>4, <1>5, <1>6, FenceElsewhere

LEMMA ReadActs ==
  ASSUME IInv, NEW t \in Tasks, Read(t)
  PROVE  HandInv(t)' /\ GuardInv(t)' /\ (~ failed' => FenceInv(t)')
<1>1. Types /\ HandInv(t) /\ GuardInv(t) /\ Single(disk) BY DEF IInv
<1>2. pc[t] = "read" /\ UNCHANGED <<plays, session, epoch, began, disk, failed, fences>>
  BY DEF Read, At
<1>3. \/ pc'[t] = "done"
      \/ pc'[t] = "wipe" /\ guard' = guard /\ plays[t].resource = "auto"
      \/ pc'[t] = "found" /\ guard' = guard /\ read'[t] = Alike(t) \cap disk
  BY <1>1 DEF Read, Goto, Types, Resource
<1>4. Mine(t)' = Mine(t) BY <1>2 DEF Mine
<1>5. HandInv(t)'
  <2>1. CASE pc'[t] # "found" BY <1>1, <1>2, <2>1, HandKept DEF Working
  <2>2. CASE pc'[t] = "found"
    <3>1. \A x \in read'[t] : Same(x, Mine(t)) BY <1>3, <2>2 DEF Alike
    <3>2. Single(read'[t]) BY <1>1, <1>3, <2>2 DEF Single
    <3>3. QED BY <1>1, <1>2, <1>4, <3>1, <3>2 DEF HandInv, Working, Single
  <2>3. QED BY <2>1, <2>2
<1>6. GuardInv(t)' BY <1>1, <1>2, <1>3 DEF GuardInv, Guarded
<1>7. ASSUME pc'[t] = "found", ~ failed' PROVE FenceInv(t)'
  <2>1. \A x \in disk : Clean(x) BY <1>2, <1>7 DEF IInv
  <2>2. \A x \in read'[t] : Clean(x)' BY <1>2, <1>3, <1>7, <2>1 DEF Clean
  <2>3. QED BY <1>7, <2>2 DEF FenceInv
<1>8. QED BY <1>3, <1>5, <1>6, <1>7, FenceElsewhere

\* The other steps within a request
LEMMA RequestActs ==
  ASSUME IInv, NEW t \in Tasks,
         Answered(t) \/ Undo(t) \/ Evict(t) \/ Drop(t) \/ Wipe(t) \/ Abandon(t)
  PROVE  HandInv(t)' /\ GuardInv(t)' /\ FenceInv(t)'
<1>1. Types /\ HandInv(t) /\ GuardInv(t) BY DEF IInv
<1>2. UNCHANGED <<epoch, began>> BY DEF Answered, Undo, Evict, Drop, Wipe, Abandon
<1>3. CASE Answered(t) \/ Undo(t) \/ Drop(t) \/ Wipe(t) \/ Abandon(t)
  <2>1. \/ pc'[t] = "done"
        \/ pc[t] \in Working /\ pc'[t] \in {"lock", "asked"}
    BY <1>1, <1>3 DEF Answered, Undo, Drop, Wipe, Abandon, Goto, Types, At, Working
  <2>2. began'[t].epoch <= epoch' BY <1>1, <1>2 DEF HandInv
  <2>3. HandInv(t)' BY <1>1, <1>2, <2>1, <2>2, HandKept, HandElsewhere DEF Working
  <2>4. QED BY <2>1, <2>3, FenceElsewhere DEF GuardInv, Guarded
<1>4. CASE Evict(t)
  <2>1. pc[t] = "evict" /\ pc'[t] = "drop" /\ guard' = guard BY <1>1, <1>4 DEF Evict, Goto, Types, At
  <2>2. HandInv(t)' BY <1>1, <1>2, <2>1, HandKept DEF Working
  <2>3. QED BY <1>1, <2>1, <2>2, FenceElsewhere DEF GuardInv, Guarded
<1>5. QED BY <1>3, <1>4

\* Storage that has not failed has done as it was told.
LEMMA WriteDone ==
  ASSUME NEW new, Write(new), ~ failed' PROVE disk' = new /\ ~ failed
<1>1. CASE disk' = new /\ failed' = failed BY <1>1
<1>2. CASE disk' = disk /\ failed' = TRUE BY <1>2
<1>3. QED BY <1>1, <1>2 DEF Write

LEMMA WipeAllowancesActs ==
  ASSUME IInv, NEW t \in Tasks, WipeAllowances(t)
  PROVE  HandInv(t)' /\ GuardInv(t)' /\ (~ failed' => FenceInv(t)')
<1> DEFINE gone == OfSession(began[t].session, {"allowance"})
<1>1. Types /\ HandInv(t) /\ GuardInv(t) BY DEF IInv
<1>2. /\ pc[t] = "allowances" /\ UNCHANGED <<plays, session, epoch, guard, began, read, fences>>
      /\ memory' = memory \ gone /\ Write(disk \ gone)
  BY DEF WipeAllowances, At
<1>3. pc'[t] = "subtrees" BY <1>1 DEF WipeAllowances, Goto, Types
<1>4. HandInv(t)' BY <1>1, <1>2, <1>3, HandElsewhere DEF HandInv, Working
<1>5. GuardInv(t)' BY <1>1, <1>2, <1>3 DEF GuardInv, Guarded
<1>6. ASSUME ~ failed' PROVE FenceInv(t)'
  <2>1. disk' = disk \ gone BY <1>2, <1>6, WriteDone
  <2>2. \A x \in memory' \cup disk' : x \in (memory \cup disk) \ gone BY <1>2, <2>1
  <2>3. \A x \in memory' \cup disk' : ~ (x.resource = "allowance" /\ x.keeper = began[t].session)
    BY <2>2 DEF OfSession
  <2>4. QED BY <1>2, <1>3, <2>3 DEF FenceInv
<1>7. QED BY <1>4, <1>5, <1>6

LEMMA WipeSubtreesActs ==
  ASSUME IInv, NEW t \in Tasks, WipeSubtrees(t)
  PROVE  HandInv(t)' /\ GuardInv(t)' /\ (~ failed' => FenceInv(t)')
<1>1. Types /\ HandInv(t) /\ GuardInv(t) BY DEF IInv
<1>2. pc[t] = "subtrees" /\ UNCHANGED <<plays, session, epoch, guard, began, read, fences>>
  BY DEF WipeSubtrees, At
<1>3. PICK new, known : new \subseteq disk /\ Write(new) /\ memory' = memory \ (known \cup AutoKeys)
  <2> DEFINE known == OfSession(began[t].session, {"subtree"}) \cap memory
  <2> DEFINE new == {x \in disk : ~ \E y \in known : Same(x, y)}
  <2>1. Write(new) /\ memory' = memory \ (known \cup AutoKeys) BY DEF WipeSubtrees
  <2>2. new \subseteq disk OBVIOUS
  <2> HIDE DEF new, known
  <2>3. QED BY <2>1, <2>2
<1>4. pc'[t] = "auto" BY <1>1 DEF WipeSubtrees, Goto, Types
<1>5. HandInv(t)' BY <1>1, <1>2, <1>4, HandElsewhere DEF HandInv, Working
<1>6. GuardInv(t)' BY <1>1, <1>2, <1>4 DEF GuardInv, Guarded
<1>7. ASSUME ~ failed' PROVE FenceInv(t)'
  <2>1. disk' = new /\ ~ failed BY <1>3, <1>7, WriteDone
  <2>2. FenceInv(t) BY <2>1 DEF IInv
  <2>3. memory' \subseteq memory /\ disk' \subseteq disk BY <1>3, <2>1
  <2>4. \A x \in memory' \cup disk' : ~ (x.resource = "allowance" /\ x.keeper = began[t].session)
    BY <1>2, <2>2, <2>3 DEF FenceInv
  <2>5. \A x \in memory' : x.resource # "auto" BY <1>3 DEF AutoKeys
  <2>6. QED BY <1>2, <1>4, <2>4, <2>5 DEF FenceInv
<1>8. QED BY <1>5, <1>6, <1>7

LEMMA WipeProductActs ==
  ASSUME IInv, NEW t \in Tasks, WipeProduct(t)
  PROVE  HandInv(t)' /\ GuardInv(t)' /\ (~ failed' => FenceInv(t)')
<1> DEFINE product == plays[t].product
<1>1. Types /\ HandInv(t) /\ GuardInv(t) BY DEF IInv
<1>2. /\ pc[t] = "product" /\ UNCHANGED <<plays, session, epoch, guard, began, read, fences>>
      /\ memory' = memory \ OfProduct(product)
      /\ Write(disk \ (AutoKeys \cap OfProduct(product)))
  BY DEF WipeProduct, At
<1>3. pc'[t] = "entries" BY <1>1 DEF WipeProduct, Goto, Types
<1>4. HandInv(t)' BY <1>1, <1>2, <1>3, HandElsewhere DEF HandInv, Working
<1>5. GuardInv(t)' BY <1>1, <1>2, <1>3 DEF GuardInv, Guarded
<1>6. ASSUME ~ failed' PROVE FenceInv(t)'
  <2>1. disk' = disk \ (AutoKeys \cap OfProduct(product)) BY <1>2, <1>6, WriteDone
  <2>2. \A x \in disk' : x.product = product => x.resource # "auto"
    BY <2>1 DEF AutoKeys, OfProduct
  <2>3. \A x \in memory' : x.product # product BY <1>2 DEF OfProduct
  <2>4. QED BY <1>2, <1>3, <2>2, <2>3 DEF FenceInv
<1>7. QED BY <1>4, <1>5, <1>6

\* The other steps of the host
LEMMA HostActs ==
  ASSUME IInv, NEW t \in Tasks,
         \/ Erase(t) \/ Wait(t) \/ ClearProduct(t) \/ Connect(t) \/ Reconcile(t)
         \/ WipeForeign(t) \/ WipePrevious(t)
  PROVE  HandInv(t)' /\ GuardInv(t)' /\ FenceInv(t)'
<1>1. Types /\ HandInv(t) /\ GuardInv(t) BY DEF IInv
<1>2. epoch \in Nat /\ began[t].epoch <= epoch BY <1>1 DEF Types, HandInv
<1>3. CASE Erase(t) \/ Wait(t) \/ Reconcile(t) \/ WipeForeign(t) \/ WipePrevious(t)
  <2>1. UNCHANGED <<epoch, began>> BY <1>3 DEF Erase, Wait, Reconcile, WipeForeign, WipePrevious
  <2>2. \/ pc'[t] \in {"waiting", "install", "previous"}
        \/ guard' = t /\ pc'[t] \in {"allowances", "product", "foreign", "replaced"}
    BY <1>1, <1>3 DEF Erase, Wait, Reconcile, WipeForeign, WipePrevious, Goto, Types
  <2>3. HandInv(t)' BY <1>2, <2>1, <2>2, HandElsewhere DEF Working
  <2>4. QED BY <2>2, <2>3, FenceElsewhere DEF GuardInv, Guarded
<1>4. CASE ClearProduct(t) \/ Connect(t)
  <2>1. epoch' = epoch + 1 /\ Begins(t, epoch + 1) /\ pc'[t] \in {"waiting", "owner"}
    BY <1>1, <1>4 DEF ClearProduct, Connect, Begins, Goto, Types
  <2>2. began'[t] = [session |-> session, epoch |-> epoch + 1]
    BY <1>1, <1>2, <2>1, BeginsTypes
  <2>3. HandInv(t)' BY <1>2, <2>1, <2>2, HandElsewhere DEF Working
  <2>4. QED BY <2>1, <2>3, FenceElsewhere DEF GuardInv, Guarded
<1>5. QED BY <1>3, <1>4

LEMMA QuietActs ==
  ASSUME IInv, NEW t \in Tasks, QuietStep(t)
  PROVE  HandInv(t)' /\ GuardInv(t)' /\ (~ failed' => FenceInv(t)')
BY AskActs, LockActs, ReadActs, RequestActs, WipeAllowancesActs, WipeSubtreesActs,
   WipeProductActs, HostActs DEF QuietStep

-----------------------------------------------------------------------------
(* What holds of the others, and of what is kept.                          *)

LEMMA OthersKeep ==
  ASSUME IInv, Types', NEW t \in Tasks, Effects(t), NEW u \in Tasks \ {t}
  PROVE  HandInv(u)' /\ GuardInv(u)' /\ (~ failed' => FenceInv(u)')
<1>1. Types /\ HandInv(u) /\ GuardInv(u) /\ (~ failed => FenceInv(u)) BY DEF IInv
<1>2. pc'[u] = pc[u] /\ began'[u] = began[u] /\ read'[u] = read[u] /\ plays'[u] = plays[u]
  BY DEF Effects, Apart
<1>3. Mine(u)' = Mine(u) BY <1>2 DEF Mine
<1>4. HandInv(u)'
  <2>1. epoch \in Nat /\ epoch' \in Nat /\ epoch' >= epoch /\ began[u].epoch \in Nat
    BY <1>1 DEF Types, Effects
  <2>2. began'[u].epoch <= epoch' BY <1>1, <1>2, <2>1 DEF HandInv
  <2>3. QED BY <1>1, <1>2, <1>3, <2>2 DEF HandInv, Single
<1>5. Guarded(u)' = Guarded(u) BY <1>2 DEF Guarded
<1>6. GuardInv(u)' BY <1>1, <1>5, NobodyAssumption DEF GuardInv, Effects
<1>7. ASSUME ~ failed' PROVE FenceInv(u)'
  <2>1. FenceInv(u) BY <1>1, <1>7 DEF Effects
  <2>2. Guarded(u) => fences' = fences /\ NothingGuardedComesIn
    BY <1>1 DEF GuardInv, Effects
  <2>3. pc[u] \in {"write", "remember", "unsaved"} => Clean(Mine(u))'
    BY <1>2, <1>3, <2>1, <2>2 DEF FenceInv, Guarded, Clean
  <2>4. pc[u] = "found" => \A x \in read[u] : Clean(x)'
    <3>1. SUFFICES ASSUME pc[u] = "found", NEW x \in read[u] PROVE Clean(x)' OBVIOUS
    <3>2. CASE plays[u].resource # "subtree"
      <4>1. Guarded(u) BY <3>1, <3>2 DEF Guarded
      <4>2. QED BY <2>1, <2>2, <3>1, <4>1 DEF FenceInv, Clean
    <3>3. CASE plays[u].resource = "subtree"
      <4>1. x.resource = "subtree" BY <1>1, <3>1, <3>3 DEF HandInv, Same, Mine, Secret
      <4>2. \A f \in fences' : f.resource # "subtree" BY DEF Types, Fences
      <4>3. QED BY <4>1, <4>2 DEF Clean
    <3>4. QED BY <3>2, <3>3
  <2>5. pc[u] \in {"subtrees", "auto", "entries"} => NothingGuardedComesIn BY <2>2 DEF Guarded
  <2>6. pc[u] \in {"subtrees", "auto"} =>
          \A x \in memory' \cup disk' : ~ (x.resource = "allowance" /\ x.keeper = began[u].session)
    BY <2>1, <2>5 DEF FenceInv, NothingGuardedComesIn
  <2>7. pc[u] = "auto" => \A x \in memory' : x.resource # "auto"
    BY <2>1, <2>5 DEF FenceInv, NothingGuardedComesIn
  <2>8. pc[u] = "entries" =>
          /\ \A x \in memory' : x.product = plays[u].product => x.resource = "subtree"
          /\ \A x \in disk' : x.product = plays[u].product => x.resource # "auto"
    BY <2>1, <2>5 DEF FenceInv, NothingGuardedComesIn
  <2>9. QED BY <1>2, <2>3, <2>4, <2>6, <2>7, <2>8 DEF FenceInv
<1>8. QED BY <1>4, <1>6, <1>7

LEMMA QuietKeeps ==
  ASSUME IInv, NEW t \in Tasks, QuietStep(t) PROVE IInv'
<1>1. Types /\ GuardInv(t) BY DEF IInv
<1>2. Quiet /\ Apart(t) /\ epoch' \in Nat /\ epoch' >= epoch /\ (failed => failed')
  BY <1>1, QuietSteps
<1>3. Types' BY <1>1, QuietTypes
<1>4. memory' \subseteq memory /\ disk' \subseteq disk /\ session' = session /\ fences' = fences
  BY <1>2 DEF Quiet, Shrinks
<1>5. Effects(t) BY <1>1, <1>2, <1>4, QuietGuard DEF Effects, NothingGuardedComesIn
<1>6. HandInv(t)' /\ GuardInv(t)' /\ (~ failed' => FenceInv(t)') BY QuietActs
<1>7. \A u \in Tasks : HandInv(u)' /\ GuardInv(u)' /\ (~ failed' => FenceInv(u)')
  BY <1>3, <1>5, <1>6, OthersKeep
<1>8. Single(memory)' /\ Single(disk)' BY <1>4 DEF IInv, Single
<1>9. MemoryIsTheSessions' BY <1>4 DEF IInv, MemoryIsTheSessions
<1>10. FencesPassed'
  <2>1. \A f \in fences : f.since \in Nat BY <1>1 DEF Types, Fences
  <2>2. epoch \in Nat BY <1>1 DEF Types
  <2>3. QED BY <1>2, <1>4, <2>1, <2>2 DEF IInv, FencesPassed
<1>11. ~ failed' => \A x \in memory' \cup disk' : Clean(x)' BY <1>2, <1>4 DEF IInv, Clean
<1>12. QED BY <1>3, <1>7, <1>8, <1>9, <1>10, <1>11 DEF IInv

-----------------------------------------------------------------------------
(* The steps that bring something in, put up a fence or change the session *)

LEMMA MineIsSecret ==
  ASSUME Types, NEW t \in Tasks, began[t].session \in Sessions PROVE Mine(t) \in Secrets
<1>1. plays[t].resource \in Resources /\ plays[t].product \in Products /\ began[t].epoch \in Nat
  BY DEF Types, Plays
<1>2. Keeper(began[t].session, plays[t].resource) \in Sessions \cup {Owner[s] : s \in Sessions}
  BY DEF Keeper
<1>3. QED BY <1>1, <1>2 DEF Mine, Secret, Secrets

\* What all steps but those with a fence come to
LEMMA Keeps ==
  ASSUME IInv, NEW t \in Tasks, Types', Effects(t), fences' = fences,
         HandInv(t)', GuardInv(t)', ~ failed' => FenceInv(t)',
         Single(memory)', Single(disk)', MemoryIsTheSessions',
         ~ failed' => \A x \in memory' \cup disk' : Clean(x)
  PROVE  IInv'
<1>1. \A u \in Tasks : HandInv(u)' /\ GuardInv(u)' /\ (~ failed' => FenceInv(u)') BY OthersKeep
<1>2. FencesPassed'
  <2>1. \A f \in fences : f.since \in Nat BY DEF IInv, Types, Fences
  <2>2. epoch \in Nat /\ epoch' \in Nat /\ epoch' >= epoch BY DEF IInv, Types, Effects
  <2>3. QED BY <2>1, <2>2 DEF IInv, FencesPassed
<1>3. ~ failed' => \A x \in memory' \cup disk' : Clean(x)' BY DEF Clean
<1>4. QED BY <1>1, <1>2, <1>3 DEF IInv

LEMMA KeepKeeps == ASSUME IInv, NEW t \in Tasks, Keep(t) PROVE IInv'
<1>1. Types /\ HandInv(t) /\ GuardInv(t) /\ Single(disk) /\ (~ failed => FenceInv(t)) BY DEF IInv
<1>2. pc[t] = "write" /\ UNCHANGED <<plays, session, epoch, memory, began, read, fences>>
  BY DEF Keep, At
<1>3. guard = t /\ began[t].session \in Sessions
  BY <1>1, <1>2 DEF GuardInv, Guarded, HandInv, Working
<1>4. Mine(t) \in Secrets BY <1>1, <1>3, MineIsSecret
<1>5. Mine(t)' = Mine(t) BY <1>2 DEF Mine
<1>6. PICK dropped :
        \/ disk' = disk /\ Goto(t, "done") /\ guard' = Nobody /\ failed' = failed
        \/ /\ disk' = {Mine(t)} \cup (disk \ (Alike(t) \cup dropped))
           /\ Goto(t, "remember") /\ guard' = guard /\ failed' = failed
        \/ /\ disk' = disk /\ failed' = TRUE
           /\ \/ Goto(t, "unsaved") /\ guard' = guard
              \/ Goto(t, "done") /\ guard' = Nobody
  BY Zenon DEF Keep
<1>7. /\ pc' \in [Tasks -> Steps] /\ \A u \in Tasks \ {t} : pc'[u] = pc[u]
      /\ \/ pc'[t] = "done" /\ guard' = Nobody
         \/ pc'[t] \in {"remember", "unsaved"} /\ guard' = guard
  BY <1>1, <1>6 DEF Goto, Types, Steps
<1>8. failed' \in BOOLEAN /\ (failed => failed') BY <1>1, <1>6 DEF Types
<1>9. disk' \subseteq disk \cup {Mine(t)} BY <1>6
<1>10. Types' BY <1>1, <1>2, <1>3, <1>4, <1>7, <1>8, <1>9 DEF Types
<1>11. Effects(t) BY <1>1, <1>2, <1>3, <1>7, <1>8 DEF Effects, Apart, Types
<1>12. HandInv(t)' BY <1>1, <1>2, <1>7, HandKept DEF Working
<1>13. GuardInv(t)' BY <1>3, <1>7 DEF GuardInv, Guarded
<1>14. ~ failed' => Clean(Mine(t)) BY <1>1, <1>2, <1>8 DEF FenceInv
<1>15. ~ failed' => FenceInv(t)' BY <1>2, <1>5, <1>7, <1>14 DEF FenceInv, Clean
<1>16. Single(disk)'
  <2>1. CASE disk' = disk BY <1>1, <2>1 DEF Single
  <2>2. CASE disk' = {Mine(t)} \cup (disk \ (Alike(t) \cup dropped))
    <3>1. \A x \in disk : Same(x, Mine(t)) \/ Same(Mine(t), x) => x \in Alike(t)
      BY DEF Alike, Same
    <3>2. QED BY <1>1, <2>2, <3>1 DEF Single
  <2>3. QED BY <1>6, <2>1, <2>2
<1>17. Single(memory)' /\ MemoryIsTheSessions' BY <1>2 DEF IInv, Single, MemoryIsTheSessions
<1>18. ~ failed' => \A x \in memory' \cup disk' : Clean(x)
  BY <1>2, <1>8, <1>9, <1>14 DEF IInv
<1>19. QED BY <1>2, <1>10, <1>11, <1>12, <1>13, <1>15, <1>16, <1>17, <1>18, Keeps

LEMMA RememberKeeps == ASSUME IInv, NEW t \in Tasks, Remember(t) PROVE IInv'
<1>1. Types /\ HandInv(t) /\ GuardInv(t) /\ Single(memory) /\ (~ failed => FenceInv(t)) BY DEF IInv
<1>2. /\ pc[t] \in {"remember", "unsaved"}
      /\ UNCHANGED <<plays, session, epoch, disk, began, read, failed, fences>>
  BY DEF Remember
<1>3. guard = t /\ began[t].session \in Sessions
  BY <1>1, <1>2 DEF GuardInv, Guarded, HandInv, Working
<1>4. Mine(t) \in Secrets BY <1>1, <1>3, MineIsSecret
<1>5. \/ Current(t) /\ memory' = (memory \ Alike(t)) \cup {Mine(t)}
      \/ memory' = memory
  BY DEF Remember
<1>6. /\ pc' \in [Tasks -> Steps] /\ \A u \in Tasks \ {t} : pc'[u] = pc[u]
      /\ \/ pc'[t] = "done" /\ guard' = Nobody
         \/ pc'[t] = "undo" /\ guard' = guard
  BY <1>1 DEF Remember, Goto, Types, Steps
<1>7. memory' \subseteq memory \cup {Mine(t)} BY <1>5
<1>8. Types' BY <1>1, <1>2, <1>3, <1>4, <1>6, <1>7 DEF Types
<1>9. Effects(t) BY <1>1, <1>2, <1>3, <1>6 DEF Effects, Apart, Types
<1>10. HandInv(t)' BY <1>1, <1>2, <1>6, HandKept DEF Working
<1>11. GuardInv(t)' /\ FenceInv(t)' BY <1>3, <1>6, FenceElsewhere DEF GuardInv, Guarded
<1>12. Single(memory)'
  <2>1. \A x \in memory : Same(x, Mine(t)) \/ Same(Mine(t), x) => x \in Alike(t)
    BY DEF Alike, Same
  <2>2. QED BY <1>1, <1>5, <2>1 DEF Single
<1>13. MemoryIsTheSessions'
  <2>1. CASE memory' = memory BY <1>2, <2>1 DEF IInv, MemoryIsTheSessions
  <2>2. CASE Current(t) /\ memory' = (memory \ Alike(t)) \cup {Mine(t)}
    <3>1. Mine(t).resource # "auto" => Mine(t).keeper = session
      BY <2>2 DEF Mine, Secret, Keeper, Current
    <3>2. QED BY <1>2, <2>2, <3>1 DEF IInv, MemoryIsTheSessions
  <2>3. QED BY <1>5, <2>1, <2>2
<1>14. Single(disk)' BY <1>2 DEF IInv, Single
<1>15. ~ failed' => \A x \in memory' \cup disk' : Clean(x)
  BY <1>1, <1>2, <1>7 DEF IInv, FenceInv
<1>16. QED BY <1>2, <1>8, <1>9, <1>10, <1>11, <1>12, <1>13, <1>14, <1>15, Keeps

LEMMA FoundKeeps == ASSUME IInv, NEW t \in Tasks, Found(t) PROVE IInv'
<1>1. Types /\ HandInv(t) /\ GuardInv(t) /\ Single(memory) /\ (~ failed => FenceInv(t)) BY DEF IInv
<1>2. /\ pc[t] = "found"
      /\ UNCHANGED <<plays, session, epoch, disk, began, read, failed, fences>>
  BY DEF Found, At
<1>3. Single(read[t]) /\ \A x \in read[t] : Same(x, Mine(t)) BY <1>1, <1>2 DEF HandInv
<1>4. \/ Current(t) /\ memory' = (memory \ Alike(t)) \cup read[t]
      \/ plays[t].resource = "auto" /\ memory' = (memory \ Alike(t)) \cup read[t]
      \/ memory' = memory
  BY DEF Found, Resource
<1>5. /\ pc' \in [Tasks -> Steps] /\ \A u \in Tasks \ {t} : pc'[u] = pc[u]
      /\ pc'[t] = "done" /\ guard' = (IF guard = t THEN Nobody ELSE guard)
  BY <1>1 DEF Found, Goto, Types, Steps
<1>6. memory' \subseteq memory \cup read[t] BY <1>4
<1>7. Types' BY <1>1, <1>2, <1>5, <1>6 DEF Types
<1>8. guard = t \/ NothingGuardedComesIn
  <2>1. CASE plays[t].resource # "subtree" BY <1>1, <1>2, <2>1 DEF GuardInv, Guarded
  <2>2. CASE plays[t].resource = "subtree"
    <3>1. \A x \in read[t] : x.resource = "subtree" BY <1>3, <2>2 DEF Same, Mine, Secret
    <3>2. QED BY <1>2, <1>6, <3>1 DEF NothingGuardedComesIn
  <2>3. QED BY <2>1, <2>2
<1>9. Effects(t) BY <1>1, <1>2, <1>5, <1>8 DEF Effects, Apart, Types
<1>10. HandInv(t)' BY <1>1, <1>2, <1>5, HandKept DEF Working
<1>11. GuardInv(t)' /\ FenceInv(t)' BY <1>5, FenceElsewhere DEF GuardInv, Guarded
<1>12. Single(memory)'
  <2>1. CASE memory' = memory BY <1>1, <2>1 DEF Single
  <2>2. CASE memory' = (memory \ Alike(t)) \cup read[t]
    <3>1. ASSUME NEW x \in memory \ Alike(t), NEW y \in read[t]
          PROVE  ~ Same(x, y) /\ ~ Same(y, x)
      <4>1. ~ Same(x, Mine(t)) BY DEF Alike
      <4>2. Same(y, Mine(t)) BY <1>3
      <4>3. QED BY <4>1, <4>2 DEF Same
    <3>2. QED BY <1>1, <1>3, <2>2, <3>1 DEF Single
  <2>3. QED BY <1>4, <2>1, <2>2
<1>13. MemoryIsTheSessions'
  <2>1. \A x \in memory : x.resource # "auto" => x.keeper = session BY DEF IInv, MemoryIsTheSessions
  <2>2. ASSUME Current(t), NEW x \in read[t], x.resource # "auto" PROVE x.keeper = session
    BY <1>3, <2>2 DEF Same, Mine, Secret, Keeper, Current
  <2>3. ASSUME plays[t].resource = "auto", NEW x \in read[t] PROVE x.resource = "auto"
    BY <1>3, <2>3 DEF Same, Mine, Secret
  <2>4. QED BY <1>2, <1>4, <2>1, <2>2, <2>3 DEF MemoryIsTheSessions
<1>14. Single(disk)' BY <1>2 DEF IInv, Single
<1>15. ~ failed' => \A x \in memory' \cup disk' : Clean(x)
  BY <1>1, <1>2, <1>6 DEF IInv, FenceInv
<1>16. QED BY <1>2, <1>7, <1>9, <1>10, <1>11, <1>12, <1>13, <1>14, <1>15, Keeps

\* A fence goes up where nothing is left behind it.
LEMMA FenceKeeps ==
  ASSUME IInv, NEW t \in Tasks, NEW products \in SUBSET Products,
         pc[t] \in {"auto", "entries"},
         UNCHANGED <<plays, session, epoch, memory, began, read>>,
         disk' \subseteq disk, failed => failed', failed' \in BOOLEAN,
         guard' = Nobody, Goto(t, "done"), fences' = fences \cup Fence(t, products),
         ~ failed' => \A x \in memory \cup disk' : x.product \in products =>
           /\ x.resource # "auto"
           /\ ~ (x.resource = "allowance" /\ x.keeper = began[t].session)
  PROVE  IInv'
<1>1. Types /\ HandInv(t) /\ GuardInv(t) BY DEF IInv
<1>2. guard = t BY <1>1 DEF GuardInv, Guarded
<1>3. /\ pc' \in [Tasks -> Steps] /\ pc'[t] = "done"
      /\ \A u \in Tasks \ {t} : pc'[u] = pc[u]
  BY <1>1 DEF Goto, Types, Steps
<1>4. Fence(t, products) \subseteq Fences
  <2>1. began[t].session \in Sessions \cup {Nobody} /\ began[t].epoch \in Nat BY <1>1 DEF Types
  <2>2. QED BY <2>1 DEF Fence, Fences
<1>5. Types' BY <1>1, <1>3, <1>4 DEF Types
<1>6. Effects(t) BY <1>1, <1>2, <1>3 DEF Effects, Apart, Types
<1>7. HandInv(t)' BY <1>1, <1>3, HandElsewhere DEF HandInv, Working
<1>8. GuardInv(t)' /\ FenceInv(t)' BY <1>3, FenceElsewhere DEF GuardInv, Guarded
<1>9. \A u \in Tasks : HandInv(u)' /\ GuardInv(u)' /\ (~ failed' => FenceInv(u)')
  BY <1>5, <1>6, <1>7, <1>8, OthersKeep
<1>10. FencesPassed'
  <2>1. \A f \in Fence(t, products) : f.since = began[t].epoch BY DEF Fence
  <2>2. QED BY <1>1, <2>1 DEF IInv, FencesPassed, HandInv
<1>11. Single(memory)' /\ Single(disk)' /\ MemoryIsTheSessions'
  BY DEF IInv, Single, MemoryIsTheSessions
<1>12. ASSUME ~ failed', NEW x \in memory' \cup disk' PROVE Clean(x)'
  <2>1. Clean(x) BY <1>12 DEF IInv
  <2>2. \A f \in Fence(t, products) :
          ~ (x.resource = f.resource /\ x.keeper \in f.keepers /\ x.product \in f.products)
    <3>1. x \in memory \cup disk' OBVIOUS
    <3>2. QED BY <1>12, <3>1 DEF Fence
  <2>3. QED BY <2>1, <2>2 DEF Clean
<1>13. QED BY <1>5, <1>9, <1>10, <1>11, <1>12 DEF IInv

LEMMA WipeAutoKeeps == ASSUME IInv, NEW t \in Tasks, WipeAuto(t) PROVE IInv'
<1>1. Types /\ (~ failed => FenceInv(t)) BY DEF IInv
<1>2. /\ pc[t] = "auto" /\ UNCHANGED <<plays, session, epoch, memory, began, read>>
      /\ Write(disk \ AutoKeys) /\ guard' = Nobody /\ Goto(t, "done")
      /\ fences' = fences \cup Fence(t, Products)
  BY DEF WipeAuto, At
<1>3. disk' \subseteq disk /\ (failed => failed') /\ failed' \in BOOLEAN BY <1>1, <1>2, WriteShrinks
<1>4. ASSUME ~ failed', NEW x \in memory \cup disk'
      PROVE  x.resource # "auto" /\ ~ (x.resource = "allowance" /\ x.keeper = began[t].session)
  <2>1. disk' = disk \ AutoKeys /\ ~ failed BY <1>2, <1>4, WriteDone
  <2>2. FenceInv(t) BY <1>1, <2>1
  <2>3. QED BY <1>2, <2>1, <2>2 DEF FenceInv, AutoKeys
<1>5. QED BY <1>2, <1>3, <1>4, FenceKeeps

LEMMA WipeEntriesKeeps == ASSUME IInv, NEW t \in Tasks, WipeEntries(t) PROVE IInv'
<1> DEFINE product == plays[t].product
           gone == OfSession(began[t].session, {"allowance"}) \cap OfProduct(product)
<1>1. Types /\ (~ failed => FenceInv(t)) BY DEF IInv
<1>2. /\ pc[t] = "entries" /\ UNCHANGED <<plays, session, epoch, memory, began, read>>
      /\ Write(disk \ gone) /\ guard' = Nobody /\ Goto(t, "done")
      /\ fences' = fences \cup Fence(t, {product})
  BY DEF WipeEntries, At
<1>3. disk' \subseteq disk /\ (failed => failed') /\ failed' \in BOOLEAN BY <1>1, <1>2, WriteShrinks
<1>4. product \in Products BY <1>1 DEF Types, Plays
<1>5. ASSUME ~ failed', NEW x \in memory \cup disk', x.product = product
      PROVE  x.resource # "auto" /\ ~ (x.resource = "allowance" /\ x.keeper = began[t].session)
  <2>1. disk' = disk \ gone /\ ~ failed BY <1>2, <1>5, WriteDone
  <2>2. FenceInv(t) BY <1>1, <2>1
  <2>3. CASE x \in memory BY <1>2, <1>5, <2>2, <2>3 DEF FenceInv
  <2>4. CASE x \in disk'
    <3>1. x.resource # "auto" BY <1>2, <1>3, <1>5, <2>2, <2>4 DEF FenceInv
    <3>2. x \in disk /\ x \notin gone BY <2>1, <2>4
    <3>3. QED BY <1>5, <3>1, <3>2 DEF OfSession, OfProduct
  <2>5. QED BY <2>3, <2>4
<1>6. QED BY <1>2, <1>3, <1>4, <1>5, FenceKeeps

LEMMA DisconnectKeeps == ASSUME IInv, NEW t \in Tasks, Disconnect(t) PROVE IInv'
<1>1. Types /\ Single(memory) /\ Single(disk) /\ MemoryIsTheSessions BY DEF IInv
<1>2. /\ UNCHANGED <<plays, guard, disk, failed, fences>>
      /\ epoch' = epoch + 1 /\ session' = Nobody /\ Begins(t, epoch + 1)
      /\ memory' = memory \ OfSession(session, {"allowance", "subtree"})
      /\ read' = [read EXCEPT ![t] = OfSession(session, {"subtree"}) \cap memory]
      /\ Goto(t, "erase")
  BY DEF Disconnect, Begins
<1>3. epoch \in Nat /\ epoch + 1 \in Nat /\ epoch' >= epoch /\ epoch' \in Nat BY <1>1, <1>2 DEF Types
<1>4. /\ pc' \in [Tasks -> Steps] /\ pc'[t] = "erase"
      /\ \A u \in Tasks \ {t} : pc'[u] = pc[u]
  BY <1>1, <1>2 DEF Goto, Types, Steps
<1>5. /\ began' \in [Tasks -> [session : Sessions \cup {Nobody}, epoch : Nat]]
      /\ began'[t] = [session |-> session, epoch |-> epoch + 1]
  BY <1>1, <1>2, <1>3, BeginsTypes
<1>6. memory' \subseteq memory /\ disk' = disk BY <1>2
<1>7. read' \in [Tasks -> SUBSET Secrets] BY <1>1, <1>2 DEF Types
<1>8. Types' BY <1>1, <1>2, <1>3, <1>4, <1>5, <1>6, <1>7 DEF Types
<1>9. Apart(t) BY <1>1, <1>2, <1>4 DEF Apart, Begins, Types
<1>10. Effects(t) BY <1>2, <1>3, <1>6, <1>9 DEF Effects, NothingGuardedComesIn
<1>11. HandInv(t)' BY <1>2, <1>3, <1>4, <1>5, HandElsewhere DEF Working
<1>12. GuardInv(t)' /\ FenceInv(t)' BY <1>4, FenceElsewhere DEF GuardInv, Guarded
<1>13. MemoryIsTheSessions'
  <2>1. SUFFICES ASSUME NEW x \in memory', x.resource # "auto" PROVE FALSE
    BY DEF MemoryIsTheSessions
  <2>2. x \in memory /\ x.resource \in {"allowance", "subtree"} /\ x.keeper = session
    BY <1>1, <1>6, <2>1 DEF MemoryIsTheSessions, Types, Secrets, Resources
  <2>3. QED BY <1>2, <2>1, <2>2 DEF OfSession
<1>14. Single(memory)' /\ Single(disk)' BY <1>1, <1>6 DEF Single
<1>15. ~ failed' => \A x \in memory' \cup disk' : Clean(x) BY <1>2, <1>6 DEF IInv
<1>16. QED BY <1>2, <1>8, <1>10, <1>11, <1>12, <1>13, <1>14, <1>15, Keeps

LEMMA InstallKeeps == ASSUME IInv, NEW t \in Tasks, Install(t) PROVE IInv'
<1>1. Types /\ HandInv(t) /\ Single(memory) /\ Single(disk) /\ MemoryIsTheSessions BY DEF IInv
<1>2. UNCHANGED <<plays, epoch, guard, disk, began, read, failed, fences>> /\ Goto(t, "done")
  BY DEF Install
<1>3. \/ session' = session /\ memory' = memory
      \/ session' = plays[t].session /\ session = plays[t].session /\ memory' = memory
      \/ /\ session' = plays[t].session
         /\ memory' = memory \ OfSession(session, {"allowance", "subtree"})
  BY DEF Install
<1>4. /\ pc' \in [Tasks -> Steps] /\ pc'[t] = "done"
      /\ \A u \in Tasks \ {t} : pc'[u] = pc[u]
  BY <1>1, <1>2 DEF Goto, Types, Steps
<1>5. plays[t].session \in Sessions BY <1>1 DEF Types, Plays
<1>6. session' \in Sessions \cup {Nobody} /\ memory' \subseteq memory BY <1>1, <1>3, <1>5 DEF Types
<1>7. Types' BY <1>1, <1>2, <1>4, <1>6 DEF Types
<1>8. Effects(t) BY <1>1, <1>2, <1>4, <1>6 DEF Effects, Apart, NothingGuardedComesIn, Types
<1>9. HandInv(t)' BY <1>1, <1>2, <1>4, HandElsewhere DEF HandInv, Working
<1>10. GuardInv(t)' /\ FenceInv(t)' BY <1>4, FenceElsewhere DEF GuardInv, Guarded
<1>11. MemoryIsTheSessions'
  <2>1. CASE session' = session /\ memory' = memory BY <1>1, <2>1 DEF MemoryIsTheSessions
  <2>2. CASE memory' = memory \ OfSession(session, {"allowance", "subtree"})
    <3>1. \A x \in memory : x.resource # "auto" =>
            x.resource \in {"allowance", "subtree"} /\ x.keeper = session
      BY <1>1 DEF MemoryIsTheSessions, Types, Secrets, Resources
    <3>2. \A x \in memory' : x.resource = "auto" BY <2>2, <3>1 DEF OfSession
    <3>3. QED BY <3>2 DEF MemoryIsTheSessions
  <2>3. QED BY <1>3, <2>1, <2>2
<1>12. Single(memory)' /\ Single(disk)' BY <1>1, <1>2, <1>6 DEF Single
<1>13. ~ failed' => \A x \in memory' \cup disk' : Clean(x) BY <1>2, <1>6 DEF IInv
<1>14. QED BY <1>2, <1>7, <1>8, <1>9, <1>10, <1>11, <1>12, <1>13, Keeps

-----------------------------------------------------------------------------
(* The theorems.                                                           *)

LEMMA InitSafe == Init => IInv
<1> SUFFICES ASSUME Init PROVE IInv OBVIOUS
<1>1. plays \in [Tasks -> Plays] BY CastAssumption DEF Init
<1>2. \A s \in Sessions, t \in Tasks : Secret(s, plays[t].resource, plays[t].product, 0) \in Secrets
  <2>1. SUFFICES ASSUME NEW s \in Sessions, NEW t \in Tasks
                 PROVE  Secret(s, plays[t].resource, plays[t].product, 0) \in Secrets
    OBVIOUS
  <2>2. plays[t].resource \in Resources /\ plays[t].product \in Products BY <1>1 DEF Plays
  <2>3. Keeper(s, plays[t].resource) \in Sessions \cup {Owner[z] : z \in Sessions} BY DEF Keeper
  <2>4. QED BY <2>2, <2>3 DEF Secret, Secrets
<1>3. disk \subseteq Secrets /\ Single(disk) BY <1>2 DEF Init, Single
<1>4. /\ session \in Sessions \cup {Nobody} /\ epoch = 0 /\ guard = Nobody /\ memory = {}
      /\ pc = [t \in Tasks |-> "idle"]
      /\ began = [t \in Tasks |-> [session |-> Nobody, epoch |-> 0]]
      /\ read = [t \in Tasks |-> {}] /\ failed = FALSE /\ fences = {}
  BY DEF Init
<1>5. Types BY <1>1, <1>3, <1>4 DEF Types, Steps
<1>6. Single(memory) /\ MemoryIsTheSessions /\ FencesPassed /\ \A x \in memory \cup disk : Clean(x)
  BY <1>4 DEF Single, MemoryIsTheSessions, FencesPassed, Clean
<1>7. \A t \in Tasks : HandInv(t) /\ GuardInv(t) /\ FenceInv(t)
  BY <1>4 DEF HandInv, Working, GuardInv, Guarded, FenceInv
<1>8. QED BY <1>3, <1>5, <1>6, <1>7 DEF IInv

LEMMA InvNext == IInv /\ [Next]_vars => IInv'
<1> SUFFICES ASSUME IInv, [Next]_vars PROVE IInv' OBVIOUS
<1>1. CASE Next
  <2>1. PICK t \in Tasks : \/ RequestStep(t) \/ Answered(t) \/ Abandon(t) \/ HostStep(t)
                           \/ Disconnect(t) \/ ClearProduct(t) \/ Connect(t)
    BY <1>1 DEF Next
  <2>2. CASE QuietStep(t) BY <2>2, QuietKeeps
  <2>3. CASE Keep(t) BY <2>3, KeepKeeps
  <2>4. CASE Remember(t) BY <2>4, RememberKeeps
  <2>5. CASE Found(t) BY <2>5, FoundKeeps
  <2>6. CASE WipeAuto(t) BY <2>6, WipeAutoKeeps
  <2>7. CASE WipeEntries(t) BY <2>7, WipeEntriesKeeps
  <2>8. CASE Disconnect(t) BY <2>8, DisconnectKeeps
  <2>9. CASE Install(t) BY <2>9, InstallKeeps
  <2>10. QED BY <2>1, <2>2, <2>3, <2>4, <2>5, <2>6, <2>7, <2>8, <2>9
           DEF QuietStep, RequestStep, HostStep
<1>2. CASE UNCHANGED vars
  <2>1. /\ UNCHANGED <<plays, session, epoch, guard, memory, disk, pc, began, read>>
        /\ UNCHANGED <<failed, fences>>
    BY <1>2 DEF vars, store
  <2>2. Types' BY <2>1 DEF IInv, Types
  <2>3. \A t \in Tasks : Mine(t)' = Mine(t) BY <2>1 DEF Mine
  <2>4. \A t \in Tasks : HandInv(t)' /\ GuardInv(t)'
    BY <2>1, <2>3 DEF IInv, HandInv, GuardInv, Guarded, Single
  <2>5. ~ failed' => \A t \in Tasks : FenceInv(t)' BY <2>1, <2>3 DEF IInv, FenceInv, Clean
  <2>6. QED BY <2>1, <2>2, <2>4, <2>5 DEF IInv, Single, MemoryIsTheSessions, FencesPassed, Clean
<1>3. QED BY <1>1, <1>2

\* The inductive invariant holds throughout: who works under the guard holds
\* it, and what is about to be kept was asked for after the last clearing.
THEOREM Safety == Spec => []IInv
BY InitSafe, InvNext, PTL DEF Spec

\* The state is well formed, and memory and core storage have one entry for a
\* secret.
THEOREM TypeCorrect == Spec => []TypeOK
<1>1. IInv => TypeOK BY DEF IInv, Types, Single, TypeOK, Secrets
<1>2. QED BY Safety, <1>1, PTL

\* What is cached for a session is the session's that is connected, whatever
\* comes late (remember_..., cache_..._if_current, stop_session_channel).
THEOREM MemoryIsTheSessionsHolds == Spec => []MemoryIsTheSessions
<1>1. IInv => MemoryIsTheSessions BY DEF IInv
<1>2. QED BY Safety, <1>1, PTL

\* No allowance and no key of automatic signing asked for before a
\* disconnection or the clearing of a product is left or comes back, unless
\* storage has failed (clear_disconnected_session, clear_product_state).
\* Connections are no fences, and product subtrees are not spoken of.
THEOREM NothingOutlivesItsFenceHolds == Spec => []NothingOutlivesItsFence
<1>1. IInv => NothingOutlivesItsFence BY DEF IInv, Clean, NothingOutlivesItsFence
<1>2. QED BY Safety, <1>1, PTL

-----------------------------------------------------------------------------
(* The session of the pairing host itself: proofs about PairingSession,    *)
(* for any logins, sessions of the host's own, logouts and stores.         *)

Locked ==
  /\ \A t \in PairingTasks : at[t] = "wiping" <=> secrets = t
  /\ \A t \in Readers : at[t] \notin Away <=> activation = t
  /\ \A e \in Externals : at[e] \in {"resolved", "installing"} <=> activation = e
  /\ activation \in Readers \cup Externals \cup {NoTask} /\ secrets \in PairingTasks \cup {NoTask}

Placed ==
  /\ DOMAIN at = PairingTasks
  /\ \A l \in Logins : at[l] \in Away \cup LoginSteps
  /\ \A e \in Externals : at[e] \in Away \cup {"resolved", "installing"}
  /\ \A t \in Logouts \cup {Peer} : at[t] \in Away \cup {"erasing", "guarding", "wiping"}
  /\ \A t \in Readers : at[t] \in Away \cup ReaderSteps

\* What a reader goes on with is a session.
InSlot == PairingSessions \cup {NoSession, Corrupt, Failed}
Sure  == {"identifying", "same", "rewriting", "installing"}
SeenInv ==
  /\ seen \in [Readers -> InSlot]
  /\ \A t \in Readers : at[t] \in Sure => seen[t] \in PairingSessions

SessionInv ==
  /\ current \in PairingSessions \cup {NoSession}
  /\ stored \in PairingSessions \cup {NoSession, Corrupt}
  /\ external \in BOOLEAN /\ (external => current \in Externals)
  /\ fresh \subseteq PairingTasks /\ AtMostOne(fresh)

\* A login is shown for a login.
ShownInv ==
  /\ auth \in [state : AuthStates, of : PairingSessions \cup {NoSession}]
  /\ LoginShown => auth.of \in Logins
  /\ cancelled \subseteq Logins /\ valid \subseteq Logins /\ AtMostOne(valid)

\* The sync has a change it works on, and then no session of the host's own.
SyncInv ==
  /\ ticks \in Nat /\ changes \in 0 .. MaxChanges /\ streak \in BOOLEAN
  /\ at[Sync] \notin Away => ticks > 0 /\ ~ external

\* What the user's logout overtook holds neither the epoch nor the
\* generation, and begins no more.
OvertakenInv ==
  /\ overtaken \subseteq Logins \cup Externals
  /\ \A t \in overtaken :
       t \notin fresh /\ t \notin valid /\ at[t] \notin {"idle", "waiting", "woken"}

LoginInv == inFlight \in Logins \cup {NoLogin} /\ OneLoginForAll

SessionIInv ==
  /\ Placed /\ Locked /\ SeenInv /\ SessionInv /\ ShownInv /\ SyncInv /\ LoginInv
  /\ OvertakenInv

-----------------------------------------------------------------------------
LEMMA KindsApart ==
  /\ \A l \in Logins : l \notin Externals \cup Logouts \cup Readers \cup {Peer}
  /\ \A e \in Externals : e \notin Logouts \cup Readers \cup {Peer}
  /\ \A t \in Logouts : t \notin Readers \cup {Peer}
  /\ Boot # Sync /\ Peer \notin Readers /\ Sync \in Readers /\ NoTask \notin PairingTasks
  /\ NoLogin \notin Logins /\ {NoSession, Corrupt, Failed} \cap PairingSessions = {}
  /\ MaxChanges \in Nat
BY TaskAssumption, SessionAssumption DEF Readers, PairingTasks, PairingSessions

\* A login begins, or waits for the one there is.
LEMMA LoginPart ==
  ASSUME SessionIInv, NEW l \in Logins,
         RequestLogin(l) \/ WaiterWakes(l) \/ PrepareFails(l)
         \/ StartPairing(l) \/ WalletAnswers(l) \/ Resolve(l)
  PROVE  SessionIInv'
<1> USE KindsApart DEF SessionIInv, RequestLogin, WaiterWakes, PrepareFails,
  StartPairing, WalletAnswers,
  Resolve, Finish, lifecycle, authVars, loginVars, syncVars,
  lockVars, GoesTo, PairingTasks, Readers
<1>1. Placed'
  BY DEF Placed, Away, LoginSteps, ReaderSteps
<1>2. Locked'
  BY DEF Locked, Placed, Away, LoginSteps, ReaderSteps
<1>3. SeenInv'
  BY DEF SeenInv, Placed, Away, LoginSteps, PairingSessions, InSlot, Sure
<1>4. SessionInv'
  BY DEF SessionInv, SeenInv, AtMostOne, PairingSessions, SessionOf
<1>5. ShownInv'
  BY DEF ShownInv, SessionInv, SeenInv, AtMostOne, SessionOf, PairingSessions,
     Placed, LoginShown,
    CancelShown, ShowConnected, ShowFailed, ShowFailedEarly,
    LoginFailed, AuthStates
<1>6. SyncInv'
  BY DEF SyncInv, Placed, Locked, Away
<1>7. LoginInv'
  BY DEF LoginInv, OneLoginForAll, Placed, Away, LoginSteps
<1>8. OvertakenInv'
  BY DEF OvertakenInv, Placed, LoginInv, OneLoginForAll, Away, LoginSteps
<1> QED
  BY <1>1, <1>2, <1>3, <1>4, <1>5, <1>6, <1>7, <1>8

\* It is persisted, taken back, or dropped.
LEMMA LoginRest ==
  ASSUME SessionIInv, NEW l \in Logins,
         Persist(l) \/ FlowCancelled(l) \/ Succeed(l) \/ Unpersist(l)
         \/ AbandonLogin(l)
  PROVE  SessionIInv'
<1> USE KindsApart DEF SessionIInv, Persist, FlowCancelled, Succeed,
  Unpersist, AbandonLogin, Finish,
  Advance, lifecycle, authVars, loginVars, syncVars,
  lockVars, GoesTo, PairingTasks, Readers
<1>1. Placed'
  BY DEF Placed, Away, LoginSteps, ReaderSteps
<1>2. Locked'
  BY DEF Locked, Placed, Away, LoginSteps, ReaderSteps
<1>3. SeenInv'
  BY DEF SeenInv, Placed, Away, LoginSteps, PairingSessions, InSlot, Sure
<1>4. SessionInv'
  <2>1. (current \in PairingSessions \cup {NoSession})'
    BY DEF SessionInv, SeenInv, AtMostOne, PairingSessions, SessionOf
  <2>2. (external \in BOOLEAN)'
    BY DEF SessionInv, SeenInv, AtMostOne, PairingSessions, SessionOf
  <2>3. (external => current \in Externals)'
    BY DEF SessionInv, SeenInv, AtMostOne, PairingSessions, SessionOf
  <2>4. (stored \in PairingSessions \cup {NoSession, Corrupt})'
    BY DEF SessionInv, SeenInv, AtMostOne, PairingSessions, SessionOf
  <2>5. (fresh \subseteq PairingTasks /\ AtMostOne(fresh))'
    BY DEF SessionInv, SeenInv, AtMostOne, PairingSessions, SessionOf
  <2> QED
    BY <2>1, <2>2, <2>3, <2>4, <2>5 DEF SessionInv
<1>5. ShownInv'
  BY DEF ShownInv, SessionInv, SeenInv, AtMostOne, SessionOf, PairingSessions,
     Placed, LoginShown,
    ShowFailed, ResetAbandoned, LoginFailed, Off, AuthStates
<1>6. SyncInv'
  BY DEF SyncInv, Placed, Locked, Away
<1>7. LoginInv'
  BY DEF LoginInv, OneLoginForAll, Placed, Away, LoginSteps
<1>8. OvertakenInv'
  BY DEF OvertakenInv, Placed, LoginInv, OneLoginForAll, Away, LoginSteps
<1> QED
  BY <1>1, <1>2, <1>3, <1>4, <1>5, <1>6, <1>7, <1>8

\* What reads the slot
LEMMA ReaderPart ==
  ASSUME SessionIInv, NEW t \in Readers,
         ReconcileStored(t) \/ ReadStored(t) \/ ReadDone(t) \/ ReadAgain(t)
         \/ Changed(t) \/ SameStored(t) \/ EraseUnread(t)
  PROVE  SessionIInv'
<1> USE KindsApart DEF SessionIInv, ReconcileStored, ReadStored, ReadDone,
  ReadAgain, Changed, SameStored,
  EraseUnread, Leave, Advance, BeginClear, lifecycle,
  authVars, loginVars, syncVars, lockVars,
  GoesTo, PairingTasks, Readers
<1>1. Placed'
  BY DEF Placed, Away, LoginSteps, ReaderSteps
<1>2. Locked'
  BY DEF Locked, Placed, Away, LoginSteps, ReaderSteps
<1>3. SeenInv'
  <2>1. (seen \in [Readers -> InSlot])'
    <3>1. \A x \in InSlot : [seen EXCEPT ![t] = x] \in [Readers -> InSlot]
      BY DEF SeenInv
    <3>2. stored \in InSlot /\ Failed \in InSlot /\ NoSession \in InSlot
      BY DEF SessionInv, InSlot
    <3> QED
      BY <3>1, <3>2 DEF SeenInv
  <2>2. (\A u \in Readers : at[u] \in Sure => seen[u] \in PairingSessions)'
    BY DEF SeenInv, Placed, Away, LoginSteps, PairingSessions, InSlot, Sure
  <2> QED
    BY <2>1, <2>2 DEF SeenInv
<1>4. SessionInv'
  <2>1. (current \in PairingSessions \cup {NoSession})'
    BY DEF SessionInv, SeenInv, AtMostOne, PairingSessions, SessionOf
  <2>2. (external \in BOOLEAN)'
    BY DEF SessionInv, SeenInv, AtMostOne, PairingSessions, SessionOf
  <2>3. (external => current \in Externals)'
    BY DEF SessionInv, SeenInv, AtMostOne, PairingSessions, SessionOf
  <2>4. (stored \in PairingSessions \cup {NoSession, Corrupt})'
    <3>1. stored' \in {stored, NoSession}
    \/ (t \in Readers /\ at[t] \in Sure /\ stored' = seen[t])
      BY DEF Sure
    <3> QED
      BY <3>1 DEF SessionInv, SeenInv, PairingSessions
  <2>5. (fresh \subseteq PairingTasks /\ AtMostOne(fresh))'
    BY DEF SessionInv, SeenInv, AtMostOne, PairingSessions, SessionOf
  <2> QED
    BY <2>1, <2>2, <2>3, <2>4, <2>5 DEF SessionInv
<1>5. ShownInv'
  BY DEF ShownInv, SessionInv, SeenInv, AtMostOne, SessionOf, PairingSessions,
     Placed, LoginShown
<1>6. SyncInv'
  <2>1. (ticks \in Nat)'
    <3>1. ticks' = ticks \/ (t = Sync /\ ticks' = ticks - 1)
      OBVIOUS
    <3>2. t = Sync => ticks > 0
      BY DEF SyncInv, Placed, Away
    <3> QED
      BY ONLY <3>1, <3>2, SessionIInv DEF SessionIInv, SyncInv
  <2>2. (streak \in BOOLEAN)'
    <3>1. streak' = streak \/ streak' = (seen[Sync] = Failed)
      OBVIOUS
    <3>2. streak \in BOOLEAN
      BY DEF SyncInv
    <3> QED
      BY ONLY <3>1, <3>2
  <2>3. (changes \in 0 .. MaxChanges)'
    BY DEF SyncInv, Placed, Locked, Away
  <2>4. (at[Sync] \notin Away => ticks > 0 /\ ~ external)'
    BY DEF SyncInv, Placed, Locked, Away
  <2> QED
    BY <2>1, <2>2, <2>3, <2>4 DEF SyncInv
<1>7. LoginInv'
  BY DEF LoginInv, OneLoginForAll, Placed, Away, LoginSteps
<1>8. OvertakenInv'
  BY DEF OvertakenInv, Placed, LoginInv, OneLoginForAll, Away, LoginSteps
<1> QED
  BY <1>1, <1>2, <1>3, <1>4, <1>5, <1>6, <1>7, <1>8

\* A session of the host's own
LEMMA ExternalPart ==
  ASSUME SessionIInv, NEW e \in Externals,
         Activate(e) \/ Resolved(e)
  PROVE  SessionIInv'
<1> USE KindsApart DEF SessionIInv, Activate, Resolved, Advance,
  lifecycle, authVars, loginVars, syncVars,
  lockVars, GoesTo, PairingTasks, Readers
<1>1. Placed'
  BY DEF Placed, Away, LoginSteps, ReaderSteps
<1>2. Locked'
  BY DEF Locked, Placed, Away, LoginSteps, ReaderSteps
<1>3. SeenInv'
  BY DEF SeenInv, Placed, Away, LoginSteps, PairingSessions, InSlot, Sure
<1>4. SessionInv'
  <2>1. (current \in PairingSessions \cup {NoSession})'
    BY DEF SessionInv, SeenInv, AtMostOne, PairingSessions, SessionOf
  <2>2. (external \in BOOLEAN)'
    BY DEF SessionInv, SeenInv, AtMostOne, PairingSessions, SessionOf
  <2>3. (external => current \in Externals)'
    BY DEF SessionInv, SeenInv, AtMostOne, PairingSessions, SessionOf
  <2>4. (stored \in PairingSessions \cup {NoSession, Corrupt})'
    BY DEF SessionInv, SeenInv, AtMostOne, PairingSessions, SessionOf
  <2>5. (fresh \subseteq PairingTasks /\ AtMostOne(fresh))'
    BY DEF SessionInv, SeenInv, AtMostOne, PairingSessions, SessionOf
  <2> QED
    BY <2>1, <2>2, <2>3, <2>4, <2>5 DEF SessionInv
<1>5. ShownInv'
  BY DEF ShownInv, SessionInv, SeenInv, AtMostOne, SessionOf, PairingSessions,
     Placed, LoginShown
<1>6. SyncInv'
  BY DEF SyncInv, Placed, Locked, Away
<1>7. LoginInv'
  BY DEF LoginInv, OneLoginForAll, Placed, Away, LoginSteps
<1>8. OvertakenInv'
  BY DEF OvertakenInv, Placed, LoginInv, OneLoginForAll, Away, LoginSteps
<1> QED
  BY <1>1, <1>2, <1>3, <1>4, <1>5, <1>6, <1>7, <1>8

\* A session is installed, if its epoch is the present one.
LEMMA InstallPart ==
  ASSUME SessionIInv, NEW t \in Logins \cup Externals \cup Readers, InstallSession(t)
  PROVE  SessionIInv'
<1> USE KindsApart DEF SessionIInv, InstallSession, Finish, Leave, lifecycle,
  authVars, loginVars, syncVars,
  lockVars, GoesTo, PairingTasks, Readers
<1>1. Placed'
  BY DEF Placed, Away, LoginSteps, ReaderSteps
<1>2. Locked'
  BY DEF Locked, Placed, Away, LoginSteps, ReaderSteps
<1>3. SeenInv'
  BY DEF SeenInv, Placed, Away, LoginSteps, PairingSessions, InSlot, Sure
<1>0. SessionOf(t) \in PairingSessions
  BY DEF SessionOf, SeenInv, Sure, PairingSessions
<1>4. SessionInv'
  <2>1. (current \in PairingSessions \cup {NoSession})'
    <3>1. current' = SessionOf(t) \/ current' = current
      OBVIOUS
    <3> QED
      BY <1>0, <3>1 DEF SessionInv, PairingSessions
  <2>2. (external \in BOOLEAN)'
    <3>1. CASE t \in fresh
      BY <3>1
    <3>2. CASE t \notin fresh
      BY <3>2 DEF SessionInv
    <3> QED
      BY <3>1, <3>2
  <2>3. (external => current \in Externals)'
    BY DEF SessionInv, SeenInv, AtMostOne, PairingSessions, SessionOf
  <2>4. (stored \in PairingSessions \cup {NoSession, Corrupt})'
    BY DEF SessionInv, SeenInv, AtMostOne, PairingSessions, SessionOf
  <2>5. (fresh \subseteq PairingTasks /\ AtMostOne(fresh))'
    BY DEF SessionInv, SeenInv, AtMostOne, PairingSessions, SessionOf
  <2> QED
    BY <2>1, <2>2, <2>3, <2>4, <2>5 DEF SessionInv
<1>5. ShownInv'
  <2>1. (auth \in [state : AuthStates, of : PairingSessions \cup {NoSession}])'
    <3>1. auth' = [state |-> "Connected", of |-> SessionOf(t)] \/ auth' = auth
      BY DEF ShowConnected
    <3> QED
      BY <1>0, <3>1 DEF ShownInv, AuthStates
  <2>2. (LoginShown => auth.of \in Logins)'
    BY DEF ShownInv, LoginShown, ShowConnected
  <2>3. (cancelled \subseteq Logins)'
    BY DEF ShownInv, ShowConnected, CancelShown
  <2> QED
    BY <2>1, <2>2, <2>3 DEF ShownInv
<1>6. SyncInv'
  <2>1. (ticks \in Nat)'
    <3>1. ticks' = ticks \/ (t = Sync /\ ticks' = ticks - 1)
      OBVIOUS
    <3>2. t = Sync => ticks > 0
      BY DEF SyncInv, Placed, Away
    <3> QED
      BY ONLY <3>1, <3>2, SessionIInv DEF SessionIInv, SyncInv
  <2>2. (streak \in BOOLEAN)'
    <3>1. streak' = streak \/ streak' = (seen[Sync] = Failed)
      OBVIOUS
    <3>2. streak \in BOOLEAN
      BY DEF SyncInv
    <3> QED
      BY ONLY <3>1, <3>2
  <2>3. (changes \in 0 .. MaxChanges)'
    BY DEF SyncInv, Placed, Locked, Away
  <2>4. (at[Sync] \notin Away => ticks > 0 /\ ~ external)'
    <3>1. t = Sync => at'[Sync] = "idle"
      BY DEF Placed
    <3>2. t # Sync /\ at[Sync] \notin Away => t \in Logins
      BY DEF Locked, Away
    <3>3. t # Sync => at'[Sync] = at[Sync]
      BY DEF Placed, LoginSteps, ReaderSteps, Away
    <3>4. t # Sync => ticks' = ticks
      OBVIOUS
    <3>5. t \in Logins /\ ~ external => ~ external'
      OBVIOUS
    <3> QED
      BY <3>1, <3>2, <3>3, <3>4, <3>5 DEF SyncInv, Away
  <2> QED
    BY <2>1, <2>2, <2>3, <2>4 DEF SyncInv
<1>7. LoginInv'
  BY DEF LoginInv, OneLoginForAll, Placed, Away, LoginSteps
<1>8. OvertakenInv'
  BY DEF OvertakenInv, Placed, LoginInv, OneLoginForAll, Away, LoginSteps
<1> QED
  BY <1>1, <1>2, <1>3, <1>4, <1>5, <1>6, <1>7, <1>8

\* The end of a session
LEMMA ClearPart ==
  ASSUME SessionIInv, NEW t \in Logouts \cup Readers \cup {Peer},
         EraseStored(t) \/ Guard(t) \/ Wiped(t)
  PROVE  SessionIInv'
<1> USE KindsApart DEF SessionIInv, EraseStored, Guard, Wiped, Leave,
  lifecycle, authVars, loginVars, syncVars,
  lockVars, GoesTo, PairingTasks, Readers
<1>1. Placed'
  BY DEF Placed, Away, LoginSteps, ReaderSteps
<1>2. Locked'
  BY DEF Locked, Placed, Away, LoginSteps, ReaderSteps
<1>3. SeenInv'
  BY DEF SeenInv, Placed, Away, LoginSteps, PairingSessions, InSlot, Sure
<1>4. SessionInv'
  BY DEF SessionInv, SeenInv, AtMostOne, PairingSessions, SessionOf
<1>5. ShownInv'
  BY DEF ShownInv, SessionInv, SeenInv, AtMostOne, SessionOf, PairingSessions,
     Placed, LoginShown,
    ShowStoreDisconnected, Off, AuthStates
<1>6. SyncInv'
  <2>1. (ticks \in Nat)'
    <3>1. ticks' = ticks \/ (t = Sync /\ ticks' = ticks - 1)
      OBVIOUS
    <3>2. t = Sync => ticks > 0
      BY DEF SyncInv, Placed, Away
    <3> QED
      BY ONLY <3>1, <3>2, SessionIInv DEF SessionIInv, SyncInv
  <2>2. (streak \in BOOLEAN)'
    <3>1. streak' = streak \/ streak' = (seen[Sync] = Failed)
      OBVIOUS
    <3>2. streak \in BOOLEAN
      BY DEF SyncInv
    <3> QED
      BY ONLY <3>1, <3>2
  <2>3. (changes \in 0 .. MaxChanges)'
    BY DEF SyncInv, Placed, Locked, Away
  <2>4. (at[Sync] \notin Away => ticks > 0 /\ ~ external)'
    BY DEF SyncInv, Placed, Locked, Away
  <2> QED
    BY <2>1, <2>2, <2>3, <2>4 DEF SyncInv
<1>7. LoginInv'
  BY DEF LoginInv, OneLoginForAll, Placed, Away, LoginSteps
<1>8. OvertakenInv'
  BY DEF OvertakenInv, Placed, LoginInv, OneLoginForAll, Away, LoginSteps
<1> QED
  BY <1>1, <1>2, <1>3, <1>4, <1>5, <1>6, <1>7, <1>8

\* A logout takes the epoch and the generation from whoever held them.
LEMMA LogoutPart ==
  ASSUME SessionIInv, NEW t \in Logouts, Logout(t)
  PROVE  SessionIInv'
<1> USE KindsApart DEF SessionIInv, Logout, Advance, BeginClear,
  lifecycle, authVars, loginVars, syncVars,
  lockVars, GoesTo, PairingTasks, Readers
<1>1. Placed'
  BY DEF Placed, Away, LoginSteps, ReaderSteps
<1>2. Locked'
  BY DEF Locked, Placed, Away, LoginSteps, ReaderSteps
<1>3. SeenInv'
  BY DEF SeenInv, Placed, Away, LoginSteps, PairingSessions, InSlot, Sure
<1>4. SessionInv'
  BY DEF SessionInv, SeenInv, AtMostOne, PairingSessions, SessionOf
<1>5. ShownInv'
  BY DEF ShownInv, SessionInv, SeenInv, AtMostOne, SessionOf, PairingSessions,
     Placed, LoginShown,
    CancelShown, ShowCancelled, Off, AuthStates
<1>6. SyncInv'
  BY DEF SyncInv, Placed, Locked, Away
<1>7. LoginInv'
  BY DEF LoginInv, OneLoginForAll, Placed, Away, LoginSteps
<1>8. OvertakenInv'
  BY DEF OvertakenInv, Placed, LoginInv, OneLoginForAll, Away, LoginSteps
<1> QED
  BY <1>1, <1>2, <1>3, <1>4, <1>5, <1>6, <1>7, <1>8

\* What else comes from outside
LEMMA OutsidePart ==
  ASSUME SessionIInv,
         CancelLogin \/ PeerGone \/ StoreChanged
  PROVE  SessionIInv'
<1> USE KindsApart DEF SessionIInv, CancelLogin, PeerGone, StoreChanged,
  Advance, BeginClear, lifecycle,
  authVars, loginVars, syncVars, lockVars, GoesTo, PairingTasks,
  Readers
<1>1. Placed'
  BY DEF Placed, Away, LoginSteps, ReaderSteps
<1>2. Locked'
  BY DEF Locked, Placed, Away, LoginSteps, ReaderSteps
<1>3. SeenInv'
  BY DEF SeenInv, Placed, Away, LoginSteps, PairingSessions, InSlot, Sure
<1>4. SessionInv'
  <2>1. (current \in PairingSessions \cup {NoSession})'
    BY DEF SessionInv, SeenInv, AtMostOne, PairingSessions, SessionOf
  <2>2. (external \in BOOLEAN)'
    BY DEF SessionInv, SeenInv, AtMostOne, PairingSessions, SessionOf
  <2>3. (external => current \in Externals)'
    BY DEF SessionInv, SeenInv, AtMostOne, PairingSessions, SessionOf
  <2>4. (stored \in PairingSessions \cup {NoSession, Corrupt})'
    BY DEF SessionInv, SeenInv, AtMostOne, PairingSessions, SessionOf
  <2>5. (fresh \subseteq PairingTasks /\ AtMostOne(fresh))'
    BY DEF SessionInv, SeenInv, AtMostOne, PairingSessions, SessionOf
  <2> QED
    BY <2>1, <2>2, <2>3, <2>4, <2>5 DEF SessionInv
<1>5. ShownInv'
  BY DEF ShownInv, SessionInv, SeenInv, AtMostOne, SessionOf, PairingSessions,
     Placed, LoginShown,
    CancelShown, ShowCancelled, Off, AuthStates
<1>6. SyncInv'
  BY DEF SyncInv, Placed, Locked, Away
<1>7. LoginInv'
  BY DEF LoginInv, OneLoginForAll, Placed, Away, LoginSteps
<1>8. OvertakenInv'
  BY DEF OvertakenInv, Placed, LoginInv, OneLoginForAll, Away, LoginSteps
<1> QED
  BY <1>1, <1>2, <1>3, <1>4, <1>5, <1>6, <1>7, <1>8

-----------------------------------------------------------------------------
LEMMA SessionInit ==
  ASSUME PairingInit
  PROVE  SessionIInv
<1> USE KindsApart DEF PairingInit, PairingTasks, Readers, Away
<1>1. Placed /\ Locked
  BY TaskAssumption, SessionAssumption DEF Placed, Locked
<1>2. SeenInv /\ SessionInv /\ ShownInv
  BY TaskAssumption, SessionAssumption DEF SeenInv, InSlot, Sure, SessionInv, ShownInv, AtMostOne,
     LoginShown, Off,
                           AuthStates, PairingSessions
<1>3. SyncInv
  <2>1. PICK cast \in LoginCasts : /\ at = [t \in PairingTasks |-> IF t \in cast THEN "idle" ELSE "done"]
                             /\ ticks = IF Sync \in cast THEN 1 ELSE 0
    OBVIOUS
  <2>2. ticks \in Nat
    BY <2>1
  <2>3. at[Sync] \in Away
    BY <2>1
  <2>4. at[Sync] \notin Away => ticks > 0 /\ ~ external
    BY <2>3
  <2>5. changes \in 0 .. MaxChanges
    OBVIOUS
  <2>6. streak \in BOOLEAN
    BY Zenon DEF PairingInit
  <2> QED
    BY ONLY <2>2, <2>4, <2>5, <2>6 DEF SyncInv
<1>4. LoginInv /\ OvertakenInv
  BY TaskAssumption, SessionAssumption DEF LoginInv, OneLoginForAll, OvertakenInv
<1> QED
  BY <1>1, <1>2, <1>3, <1>4 DEF SessionIInv

LEMMA SessionNext ==
  ASSUME SessionIInv, [PairingNext]_pairingVars
  PROVE  SessionIInv'
<1>1. CASE SystemStep
  BY <1>1, LoginPart, LoginRest, ReaderPart, ExternalPart, InstallPart, ClearPart
     DEF SystemStep, LoginStep, ReaderStep, ClearStep, Readers
<1>2. CASE OutsideStep
  BY <1>2, LoginPart, LoginRest, ReaderPart, ExternalPart, LogoutPart, OutsidePart
     DEF OutsideStep, Readers
<1>3. CASE UNCHANGED pairingVars
  BY <1>3 DEF pairingVars, lifecycle, authVars, loginVars, syncVars,
     lockVars, SessionIInv, Placed, Locked,
              SeenInv, SessionInv, ShownInv, LoginShown, SyncInv, LoginInv,
              OneLoginForAll, OvertakenInv
<1> QED
  BY <1>1, <1>2, <1>3 DEF PairingNext

\* The inductive invariant holds, whoever logs in, out or is logged in.
THEOREM LoginSafety ==
  PairingSpec => []SessionIInv
<1>1. PairingInit => SessionIInv
  BY SessionInit
<1>2. SessionIInv /\ [PairingNext]_pairingVars => SessionIInv'
  BY SessionNext
<1> QED
  BY <1>1, <1>2, PTL DEF PairingSpec

\* The state is well formed, and who holds a lock is where it is held.
THEOREM SessionTypeCorrect ==
  PairingSpec => []PairingTypeOK
<1>1. SessionIInv => PairingTypeOK
  BY DEF SessionIInv, PairingTypeOK, Placed, Locked, SeenInv, InSlot, SessionInv, ShownInv,
     SyncInv,
     LoginInv, OvertakenInv, PairingTasks, Readers
<1> QED
  BY <1>1, LoginSafety, PTL

\* Requests for a login share the one in flight (login_waiter).
THEOREM OneLoginForAllHolds ==
  PairingSpec => []OneLoginForAll
<1>1. SessionIInv => OneLoginForAll
  BY DEF SessionIInv, LoginInv
<1> QED
  BY <1>1, LoginSafety, PTL

\* What a logout overtook never becomes the session
\* (set_connected_session_if_current).
THEOREM LoggedOutStaysOutHolds ==
  PairingSpec => LoggedOutStaysOut
<1>1. SessionIInv /\ [PairingNext]_pairingVars =>
        [\A t \in overtaken : at[t] # at'[t] => current' \in {current, NoSession}]_pairingVars
  <2> SUFFICES ASSUME SessionIInv, PairingNext, NEW t \in overtaken, at[t] # at'[t]
               PROVE  current' \in {current, NoSession}
    BY DEF pairingVars
  <2>1. ASSUME NEW u \in Logins \cup Externals \cup Readers, InstallSession(u)
        PROVE  current' \in {current, NoSession}
    <3>1. u # t => at'[t] = at[t]
      BY <2>1, KindsApart DEF SessionIInv, Placed, OvertakenInv, InstallSession, Finish,
         Leave, GoesTo, PairingTasks
    <3>2. t \notin fresh
      BY DEF SessionIInv, OvertakenInv
    <3> QED
      BY <2>1, <3>1, <3>2 DEF InstallSession
  <2> QED
    BY <2>1 DEF PairingNext, SystemStep, OutsideStep, LoginStep,
       ReaderStep, ClearStep, lifecycle, Advance,
       BeginClear, RequestLogin, WaiterWakes, PrepareFails,
       StartPairing, WalletAnswers, Resolve,
       Persist, FlowCancelled, Succeed, Unpersist, AbandonLogin,
       CancelLogin, Activate, ReconcileStored,
       ReadStored, ReadDone, ReadAgain, Changed, SameStored,
       Resolved, Logout, PeerGone, EraseStored, Guard,
       Wiped, EraseUnread, StoreChanged
<1> QED
  BY <1>1, LoginSafety, PTL DEF PairingSpec, LoggedOutStaysOut

\* The store sync leaves a session of the host's own alone
\* (session_store_activation, external_session_active).
THEOREM SyncSparesExternalHolds ==
  PairingSpec => SyncSparesExternal
<1>1. SessionIInv /\ [PairingNext]_pairingVars =>
        [(at[Sync] # at'[Sync]
        \/ ticks' < ticks) /\ external => current' = current /\ external']_pairingVars
  <2> SUFFICES ASSUME SessionIInv, PairingNext, external, at[Sync] # at'[Sync] \/ ticks' < ticks
               PROVE  current' = current /\ external'
    BY DEF pairingVars
  <2>1. at[Sync] \in Away /\ ticks \in Nat
    BY DEF SessionIInv, SyncInv
  <2>2. CASE ReconcileStored(Sync)
    BY <2>1, <2>2 DEF ReconcileStored, Leave, lifecycle
  <2>3. ASSUME NEW t \in PairingTasks, t # Sync,
  Leave(t) PROVE at'[Sync] = at[Sync] /\ ticks' = ticks
    BY <2>3, KindsApart DEF SessionIInv, Placed, Leave, GoesTo, PairingTasks
  <2>5. ASSUME NEW l \in Logins, NEW ok \in BOOLEAN, Finish(l,
  ok) PROVE at'[Sync] = at[Sync]
    BY <2>1, <2>5, KindsApart DEF Finish, Away, PairingTasks
  <2>6. ASSUME NEW t \in PairingTasks, t # Sync, NEW s, GoesTo(t,
  s) PROVE at'[Sync] = at[Sync]
    BY <2>6, KindsApart DEF SessionIInv, Placed, GoesTo, PairingTasks
  <2> USE DEF Away
  <2>7. CASE \E l \in Logins : LoginStep(l) \/ RequestLogin(l)
  \/ WalletAnswers(l) \/ AbandonLogin(l)
    <3>1. PICK l \in Logins :
            LoginStep(l) \/ RequestLogin(l) \/ WalletAnswers(l)
            \/ AbandonLogin(l)
      BY <2>7
    <3>2. l \in PairingTasks /\ l # Sync
      BY KindsApart DEF PairingTasks
    <3>3. at'[Sync] = at[Sync]
      BY <2>5, <2>6, <3>1, <3>2 DEF LoginStep, RequestLogin, WalletAnswers,
         AbandonLogin, WaiterWakes,
         PrepareFails, StartPairing, Resolve, Persist,
         FlowCancelled, Succeed, Unpersist, InstallSession
    <3>4. ticks' = ticks
      BY <3>1 DEF LoginStep, RequestLogin, WalletAnswers, AbandonLogin,
         WaiterWakes, PrepareFails,
         StartPairing, Resolve, Persist, FlowCancelled, Succeed,
         Unpersist, InstallSession, syncVars
    <3> QED
      BY <2>1, <3>3, <3>4
  <2>8. CASE \E e \in Externals : Resolved(e) \/ InstallSession(e) \/ Activate(e)
    <3>1. PICK e \in Externals : Resolved(e) \/ InstallSession(e) \/ Activate(e)
      BY <2>8
    <3>2. e \in PairingTasks /\ e # Sync /\ e \notin Logins
      BY KindsApart DEF PairingTasks
    <3>3. at'[Sync] = at[Sync] /\ ticks' = ticks
      BY <2>3, <2>6, <3>1, <3>2 DEF Resolved, InstallSession, Activate, syncVars
    <3> QED
      BY <2>1, <3>3
  <2>9. CASE \E t \in Logouts \cup Readers \cup {Peer} : ReaderStep(t)
  \/ ClearStep(t)
    <3>1. PICK t \in Logouts \cup Readers \cup {Peer} : ReaderStep(t)
    \/ ClearStep(t)
      BY <2>9
    <3>2. t \in PairingTasks /\ t \notin Logins
      BY KindsApart DEF PairingTasks
    <3>3. at[t] \notin Away
      BY <3>1 DEF ReaderStep, ClearStep, ReadStored, ReadDone,
         ReadAgain, Changed, SameStored,
         InstallSession, EraseUnread, EraseStored, Guard, Wiped
    <3>4. t # Sync
      BY <2>1, <3>3
    <3>5. at'[Sync] = at[Sync] /\ ticks' = ticks
      BY <2>3, <2>6, <3>1, <3>2, <3>4 DEF ReaderStep, ClearStep, ReadStored,
         ReadDone, ReadAgain,
         Changed, SameStored, InstallSession, EraseUnread, EraseStored,
         Guard, Wiped, syncVars
    <3> QED
      BY <2>1, <3>5
  <2>10. CASE (\E t \in Logouts : Logout(t)) \/ PeerGone \/ CancelLogin
  \/ StoreChanged
    <3>1. at'[Sync] = at[Sync]
      BY <2>6, <2>10, KindsApart DEF Logout, PeerGone, CancelLogin,
         StoreChanged, PairingTasks
    <3>2. ticks' = ticks \/ ticks' = ticks + 1
      BY <2>10 DEF Logout, PeerGone, CancelLogin, StoreChanged,
         syncVars
    <3> QED
      BY <2>1, <3>1, <3>2
  <2>11. CASE ReconcileStored(Boot)
    <3>1. at'[Sync] = at[Sync] /\ ticks' = ticks
      BY <2>6, <2>11, KindsApart DEF ReconcileStored, PairingTasks, Readers
    <3> QED
      BY <2>1, <3>1
  <2> QED
    BY <2>2, <2>7, <2>8, <2>9, <2>10, <2>11 DEF PairingNext, SystemStep, OutsideStep,
       Readers
<1> QED
  BY <1>1, LoginSafety, PTL DEF PairingSpec, SyncSparesExternal

=============================================================================
