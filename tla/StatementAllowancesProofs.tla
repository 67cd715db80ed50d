------------------------- MODULE StatementAllowancesProofs -------------------------
(***************************************************************************)
(* Proofs about StatementAllowances, for any number of calls and of their  *)
(* runs, any wallets and collections, and any ledger.                      *)
(***************************************************************************)
EXTENDS StatementAllowances, FiniteSetTheorems, TLAPS

-----------------------------------------------------------------------------
(* The sequence that is left, and appending to one.                        *)

LEMMA RetainedEntries ==
  ASSUME NEW S, NEW s \in Seq(S), NEW foreign
  PROVE  /\ Retained(s, foreign) \in Seq(S)
         /\ ToSet(Retained(s, foreign)) = ToSet(s) \ foreign
<1> DEFINE left == {i \in DOMAIN s : s[i] \notin foreign}
<1> DEFINE upTo(i) == {j \in left : j <= i}
<1> DEFINE N == Cardinality(left)
<1> DEFINE rank == [i \in left |-> Cardinality(upTo(i))]
<1>1. DOMAIN s = 1..Len(s) /\ Len(s) \in Nat OBVIOUS
<1>2. IsFiniteSet(left) /\ N \in Nat
  <2>1. IsFiniteSet(1..Len(s)) BY <1>1, FS_Interval
  <2>2. left \in SUBSET (1..Len(s)) BY <1>1
  <2>3. IsFiniteSet(left) BY <2>1, <2>2, FS_Subset
  <2>4. QED BY <2>3, FS_CardinalityType
<1>3. ASSUME NEW i \in left
      PROVE  IsFiniteSet(upTo(i)) /\ Cardinality(upTo(i)) \in 1..N
  <2>1. upTo(i) \in SUBSET left OBVIOUS
  <2>2. IsFiniteSet(upTo(i)) /\ Cardinality(upTo(i)) <= N BY <1>2, <2>1, FS_Subset
  <2>3. Cardinality(upTo(i)) \in Nat BY <2>2, FS_CardinalityType
  <2>4. i \in upTo(i) BY <1>1
  <2>5. Cardinality(upTo(i)) # 0 BY <2>2, <2>4, FS_EmptySet
  <2>6. QED BY <1>2, <2>2, <2>3, <2>5
<1>4. ASSUME NEW i \in left, NEW k \in left, i < k
      PROVE  Cardinality(upTo(i)) # Cardinality(upTo(k))
  <2>1. i \in Int /\ k \in Int BY <1>1
  <2>2. upTo(i) \in SUBSET upTo(k) BY <1>1, <1>4, <2>1
  <2>3. k \in upTo(k) /\ k \notin upTo(i) BY <1>4, <2>1
  <2>4. IsFiniteSet(upTo(k)) BY <1>3
  <2>5. QED BY <2>2, <2>3, <2>4, FS_Subset
<1>5. \A i, k \in left : rank[i] = rank[k] => i = k
  <2>1. \A i, k \in left : i < k \/ k < i \/ i = k BY <1>1
  <2>2. QED BY <1>4, <2>1
<1>6. rank \in [left -> 1..N] BY <1>3
<1>7. rank \in Injection(left, 1..N) BY <1>5, <1>6 DEF Injection, IsInjective
<1>8. Cardinality(1..N) = N /\ IsFiniteSet(1..N) BY <1>2, FS_Interval
<1>9. rank \in Surjection(left, 1..N) BY <1>7, <1>8, FS_Injection
<1>10. \A n \in 1..N : \E i \in left : rank[i] = n BY <1>9 DEF Surjection
<1> DEFINE place == [n \in 1..N |-> CHOOSE i \in left : Cardinality(upTo(i)) = n]
<1>11. ASSUME NEW n \in 1..N PROVE place[n] \in left /\ rank[place[n]] = n
  BY <1>10
<1>12. Retained(s, foreign) = [n \in 1..N |-> s[place[n]]] BY DEF Retained
<1>13. \A n \in 1..N : s[place[n]] \in S /\ s[place[n]] \in ToSet(s) \ foreign
  <2>1. \A i \in left : s[i] \in S /\ s[i] \in ToSet(s) \ foreign BY <1>1 DEF ToSet
  <2>2. QED BY <1>11, <2>1
<1> HIDE DEF place
<1>14. Retained(s, foreign) \in Seq(S) /\ DOMAIN Retained(s, foreign) = 1..N
  <2>1. Retained(s, foreign) \in [1..N -> S] BY <1>12, <1>13
  <2>2. \A n \in Nat : [1..n -> S] \subseteq Seq(S) OBVIOUS
  <2>3. DOMAIN Retained(s, foreign) = 1..N BY <1>12
  <2>4. QED BY <1>2, <2>1, <2>2, <2>3
<1>15. ToSet(Retained(s, foreign)) \subseteq ToSet(s) \ foreign
  <2>1. \A n \in 1..N : Retained(s, foreign)[n] \in ToSet(s) \ foreign BY <1>12, <1>13
  <2>2. ToSet(Retained(s, foreign)) = {Retained(s, foreign)[n] : n \in 1..N} BY <1>14 DEF ToSet
  <2>3. QED BY <2>1, <2>2
<1>16. ASSUME NEW e \in ToSet(s) \ foreign PROVE e \in ToSet(Retained(s, foreign))
  <2>1. PICK i \in left : s[i] = e BY DEF ToSet
  <2>2. rank[i] \in 1..N BY <1>6
  <2>3. place[rank[i]] = i BY <1>5, <1>11, <2>2
  <2>4. Retained(s, foreign)[rank[i]] = e BY <1>12, <2>1, <2>2, <2>3
  <2>5. QED BY <1>14, <2>2, <2>4 DEF ToSet
<1>17. QED BY <1>14, <1>15, <1>16

LEMMA AppendToSet ==
  ASSUME NEW S, NEW s \in Seq(S), NEW e \in S
  PROVE  Append(s, e) \in Seq(S) /\ ToSet(Append(s, e)) = ToSet(s) \cup {e}
<1>1. Append(s, e) \in Seq(S) /\ Len(Append(s, e)) = Len(s) + 1 OBVIOUS
<1>2. DOMAIN Append(s, e) = 1 .. Len(s) + 1 /\ DOMAIN s = 1 .. Len(s) /\ Len(s) \in Nat BY <1>1
<1>3. \A i \in 1 .. Len(s) : Append(s, e)[i] = s[i] OBVIOUS
<1>4. Append(s, e)[Len(s) + 1] = e OBVIOUS
<1>5. ToSet(Append(s, e)) \subseteq ToSet(s) \cup {e} BY <1>2, <1>3, <1>4, SMT DEF ToSet
<1>6. ToSet(s) \subseteq ToSet(Append(s, e)) BY <1>2, <1>3, SMT DEF ToSet
<1>7. e \in ToSet(Append(s, e)) BY <1>2, <1>4, SMT DEF ToSet
<1>8. QED BY <1>1, <1>5, <1>6, <1>7

-----------------------------------------------------------------------------
(* The inductive invariant.                                                *)

Critical == {"choose", "submit", "watch", "rescan", "included", "held", "failed"}

Fields == {"pc", "wallet", "ring", "todo", "reuse", "claimed", "slot", "excluded", "took",
           "view", "runs"}

(* A task that may be asked to track an entry has a wallet and a target to *)
(* track: all but the renewals, from their start to their end.             *)
Tracking(x) ==
  /\ DOMAIN task[x] = Fields
  /\ task[x].pc # "idle" => task[x].wallet \in Wallets
  /\ x \notin Renewals /\ task[x].pc # "idle" =>
       task[x].todo \in Seq(Targets) /\ task[x].todo # << >>

JobsOK ==
  /\ DOMAIN task = Tasks
  /\ current \in Wallets \cup {None}
  /\ \A x \in Tasks : Tracking(x)

(* Who is between Enter and Leave holds the registration lock, and who has *)
(* read the ledger to change it holds the other one and has seen what      *)
(* there is.                                                               *)
RegistrationInv == \A x \in Tasks : task[x].pc \in Critical => registration = x
LedgerInv ==
  \A x \in Tasks : task[x].pc = "write" => ledgerLock = x /\ task[x].view = ledger

BooksOK == ledger \in Seq(Entries) /\ promised \in SUBSET Entries

IInv == JobsOK /\ RegistrationInv /\ LedgerInv /\ BooksOK /\ PromisesKept

-----------------------------------------------------------------------------
(* What the steps do, as far as the locks and the ledger go.               *)

\* One task moves.
Turn(x) ==
  /\ DOMAIN task' = Tasks /\ Tracking(x)'
  /\ \A y \in Tasks \ {x} : task'[y] = task[y]

LEMMA EndedIsIdle ==
  ASSUME NEW t PROVE DOMAIN Ended(t) = Fields /\ Ended(t).pc = "idle"
BY DEF Ended, Idle, Fields

\* The registration lock is given up: the task turns to other targets or ends.
LEMMA LeaveTurns ==
  ASSUME JobsOK, NEW x \in Tasks, task[x].pc # "idle", NEW rest, NEW got, Leave(x, rest, got),
         x \notin Renewals => rest \in Seq(Targets)
  PROVE  Turn(x) /\ registration' = None /\ task'[x].pc \in {"idle", "enter"}
<1>1. DOMAIN task = Tasks /\ Tracking(x) BY DEF JobsOK
<1>2. registration' = None BY DEF Leave
<1>3. CASE rest = << >>
  <2>1. task' = [task EXCEPT ![x] = Ended(task[x])] BY <1>3 DEF Leave
  <2>2. task'[x] = Ended(task[x]) /\ DOMAIN task' = Tasks
        /\ \A y \in Tasks \ {x} : task'[y] = task[y]
    BY <1>1, <2>1
  <2>3. DOMAIN task'[x] = Fields /\ task'[x].pc = "idle" BY <2>2, EndedIsIdle
  <2>4. QED BY <1>2, <2>2, <2>3 DEF Turn, Tracking
<1>4. CASE rest # << >>
  <2> DEFINE r == [task[x] EXCEPT !.pc = "enter", !.todo = rest,
                     !.claimed = task[x].claimed \cup got, !.slot = None, !.excluded = {}, !.took = FALSE]
  <2>1. task' = [task EXCEPT ![x] = r]
    <3>1. task' = [task EXCEPT ![x] = IF rest = << >> THEN Ended(task[x]) ELSE r]
      BY <1>1 DEF Leave, Tracking, Fields
    <3>2. QED BY <1>4, <3>1
  <2>2. task'[x] = r /\ DOMAIN task' = Tasks /\ \A y \in Tasks \ {x} : task'[y] = task[y]
    BY <1>1, <2>1
  <2>3. DOMAIN r = Fields /\ r.pc = "enter" /\ r.todo = rest /\ r.wallet = task[x].wallet
    BY <1>1 DEF Tracking, Fields
  <2> HIDE DEF r
  <2>4. Tracking(x)' BY <1>1, <1>4, <2>2, <2>3 DEF Tracking
  <2>5. QED BY <1>2, <2>2, <2>3, <2>4 DEF Turn
<1>5. QED BY <1>3, <1>4

\* What keeps the task's wallet and targets is a turn.
LEMMA SameTurns ==
  ASSUME JobsOK, NEW x \in Tasks, task[x].pc # "idle", NEW r, task' = [task EXCEPT ![x] = r],
         DOMAIN r = Fields, r.wallet = task[x].wallet,
         x \notin Renewals => r.todo = task[x].todo
  PROVE  Turn(x) /\ task'[x] = r
<1>1. DOMAIN task = Tasks /\ Tracking(x) BY DEF JobsOK
<1>2. task'[x] = r /\ DOMAIN task' = Tasks /\ \A y \in Tasks \ {x} : task'[y] = task[y]
  BY <1>1
<1>3. Tracking(x)' BY <1>1, <1>2 DEF Tracking
<1>4. QED BY <1>2, <1>3 DEF Turn

LEMMA TakeTurns ==
  ASSUME JobsOK, NEW x \in Tasks, task[x].pc # "idle", NEW s, NEW takeover, Take(x, s, takeover)
  PROVE  Turn(x) /\ registration' = registration /\ task'[x].pc = "submit"
<1> DEFINE r == [task[x] EXCEPT !.pc = "submit", !.slot = s, !.took = task[x].took \/ takeover]
<1>1. DOMAIN task = Tasks /\ DOMAIN task[x] = Fields BY DEF JobsOK, Tracking
<1>2. task' = [task EXCEPT ![x] = r] BY <1>1 DEF Take, Fields
<1>3. DOMAIN r = Fields /\ r.wallet = task[x].wallet /\ r.todo = task[x].todo /\ r.pc = "submit"
  BY <1>1 DEF Fields
<1> HIDE DEF r
<1>4. QED BY <1>2, <1>3, SameTurns DEF Take

\* How a step within the registration may end.
Inside(x) ==
  \/ registration' = registration /\ task'[x].pc \in Critical \cup {"ledger"}
  \/ registration' = None /\ task'[x].pc \in {"idle", "enter"}

LEMMA LeavesInside ==
  ASSUME JobsOK, NEW x \in Tasks, task[x].pc # "idle",
         \/ \E s : Holds(x, s)
         \/ Failed(x) \/ Exhausted(x)
         \/ \E s, takeover : Take(x, s, takeover)
  PROVE  Turn(x) /\ Inside(x)
<1>1. x \notin Renewals => Tail(task[x].todo) \in Seq(Targets) BY DEF JobsOK, Tracking
<1>2. << >> \in Seq(Targets) OBVIOUS
<1>3. ASSUME NEW s, Holds(x, s) PROVE Turn(x) /\ Inside(x)
  BY <1>1, <1>3, LeaveTurns DEF Holds, Inside
<1>4. CASE Failed(x) BY <1>1, <1>4, LeaveTurns DEF Failed, Inside
<1>5. CASE Exhausted(x) BY <1>2, <1>5, LeaveTurns DEF Exhausted, Inside
<1>6. ASSUME NEW s, NEW takeover, Take(x, s, takeover) PROVE Turn(x) /\ Inside(x)
  BY <1>6, TakeTurns DEF Inside, Critical
<1>7. QED BY <1>3, <1>4, <1>5, <1>6

LEMMA RegistrationSteps ==
  ASSUME JobsOK, NEW x \in Tasks,
         Choose(x) \/ Submit(x) \/ Rescan(x) \/ GiveUp(x) \/ Registered(x)
  PROVE  task[x].pc \in Critical /\ Turn(x) /\ Inside(x) /\ UNCHANGED <<current, books>>
<1>1. task[x].pc \in Critical /\ task[x].pc # "idle" /\ UNCHANGED <<current, books>>
  BY DEF Choose, Submit, Rescan, GiveUp, Registered, Critical
<1>2. DOMAIN task = Tasks /\ DOMAIN task[x] = Fields BY DEF JobsOK, Tracking
<1>3. CASE Choose(x)
  <2>1. \/ \E s : Holds(x, s)
        \/ Failed(x) \/ Exhausted(x)
        \/ \E s, takeover : Take(x, s, takeover)
    BY <1>3, Zenon DEF Choose
  <2>2. QED BY <1>1, <2>1, LeavesInside
<1>4. CASE Submit(x)
  <2> DEFINE s == task[x].slot
  <2>1. CASE task' = [task EXCEPT ![x].pc = "rescan", ![x].excluded = @ \cup {s}]
             /\ registration' = registration
    <3> DEFINE r == [task[x] EXCEPT !.pc = "rescan", !.excluded = task[x].excluded \cup {s}]
    <3>1. task' = [task EXCEPT ![x] = r] BY <1>2, <2>1 DEF Fields
    <3>2. DOMAIN r = Fields /\ r.wallet = task[x].wallet /\ r.todo = task[x].todo /\ r.pc = "rescan"
      BY <1>2 DEF Fields
    <3> HIDE DEF r
    <3>3. QED BY <1>1, <2>1, <3>1, <3>2, SameTurns DEF Inside, Critical
  <2>2. CASE Failed(x) BY <1>1, <2>2, LeavesInside
  <2>3. CASE task' = [task EXCEPT ![x].pc = "watch"] /\ registration' = registration
    <3> DEFINE r == [task[x] EXCEPT !.pc = "watch"]
    <3>1. task' = [task EXCEPT ![x] = r] BY <1>2, <2>3 DEF Fields
    <3>2. DOMAIN r = Fields /\ r.wallet = task[x].wallet /\ r.todo = task[x].todo /\ r.pc = "watch"
      BY <1>2 DEF Fields
    <3> HIDE DEF r
    <3>3. QED BY <1>1, <2>3, <3>1, <3>2, SameTurns DEF Inside, Critical
  <2>4. QED BY <1>4, <2>1, <2>2, <2>3 DEF Submit
<1>5. CASE Rescan(x)
  <2>1. \/ \E s : task' = [task EXCEPT ![x].pc = "held", ![x].slot = s]
                  /\ registration' = registration
        \/ Failed(x) \/ Exhausted(x)
        \/ \E s, takeover : Take(x, s, takeover)
    BY <1>5, Zenon DEF Rescan
  <2>2. ASSUME NEW s, task' = [task EXCEPT ![x].pc = "held", ![x].slot = s],
               registration' = registration
        PROVE  Turn(x) /\ Inside(x)
    <3> DEFINE r == [task[x] EXCEPT !.pc = "held", !.slot = s]
    <3>1. task' = [task EXCEPT ![x] = r] BY <1>2, <2>2 DEF Fields
    <3>2. DOMAIN r = Fields /\ r.wallet = task[x].wallet /\ r.todo = task[x].todo /\ r.pc = "held"
      BY <1>2 DEF Fields
    <3> HIDE DEF r
    <3>3. QED BY <1>1, <2>2, <3>1, <3>2, SameTurns DEF Inside, Critical
  <2>3. QED BY <1>1, <2>1, <2>2, LeavesInside
<1>6. CASE GiveUp(x) BY <1>1, <1>6, LeavesInside DEF GiveUp
<1>7. CASE Registered(x)
  <2>1. CASE task' = [task EXCEPT ![x].pc = "ledger"] /\ registration' = registration
    <3> DEFINE r == [task[x] EXCEPT !.pc = "ledger"]
    <3>1. task' = [task EXCEPT ![x] = r] BY <1>2, <2>1 DEF Fields
    <3>2. DOMAIN r = Fields /\ r.wallet = task[x].wallet /\ r.todo = task[x].todo /\ r.pc = "ledger"
      BY <1>2 DEF Fields
    <3> HIDE DEF r
    <3>3. QED BY <1>1, <2>1, <3>1, <3>2, SameTurns DEF Inside
  <2>2. CASE Holds(x, task[x].slot) \/ Failed(x) BY <1>1, <2>2, LeavesInside
  <2>3. QED BY <1>7, <2>1, <2>2 DEF Registered
<1>8. QED BY <1>1, <1>3, <1>4, <1>5, <1>6, <1>7

LEMMA EnterTurns ==
  ASSUME JobsOK, NEW x \in Tasks, Enter(x)
  PROVE  Turn(x) /\ registration = None /\ registration' = x /\ task'[x].pc = "choose"
<1> DEFINE r == [task[x] EXCEPT !.pc = "choose"]
<1>1. DOMAIN task = Tasks /\ DOMAIN task[x] = Fields BY DEF JobsOK, Tracking
<1>2. task' = [task EXCEPT ![x] = r] BY <1>1 DEF Enter, Fields
<1>3. DOMAIN r = Fields /\ r.wallet = task[x].wallet /\ r.todo = task[x].todo /\ r.pc = "choose"
  BY <1>1 DEF Fields
<1>4. task[x].pc # "idle" /\ registration = None /\ registration' = x BY DEF Enter
<1> HIDE DEF r
<1>5. QED BY <1>2, <1>3, <1>4, SameTurns

LEMMA ReadLedgerTurns ==
  ASSUME JobsOK, NEW x \in Tasks, ReadLedger(x)
  PROVE  Turn(x) /\ task'[x].pc = "write" /\ task'[x].view = ledger
<1> DEFINE r == [task[x] EXCEPT !.pc = "write", !.view = ledger]
<1>1. DOMAIN task = Tasks /\ DOMAIN task[x] = Fields BY DEF JobsOK, Tracking
<1>2. task' = [task EXCEPT ![x] = r] BY <1>1 DEF ReadLedger, Fields
<1>3. DOMAIN r = Fields /\ r.wallet = task[x].wallet /\ r.todo = task[x].todo /\ r.pc = "write"
      /\ r.view = ledger
  BY <1>1 DEF Fields
<1>4. task[x].pc # "idle" BY DEF ReadLedger
<1> HIDE DEF r
<1>5. QED BY <1>2, <1>3, <1>4, SameTurns

LEMMA EndedTurns ==
  ASSUME JobsOK, NEW x \in Tasks, task' = [task EXCEPT ![x] = Ended(@)]
  PROVE  Turn(x) /\ task'[x].pc = "idle"
<1>1. DOMAIN task = Tasks BY DEF JobsOK
<1>2. task'[x] = Ended(task[x]) /\ DOMAIN task' = Tasks
      /\ \A y \in Tasks \ {x} : task'[y] = task[y]
  BY <1>1
<1>3. DOMAIN task'[x] = Fields /\ task'[x].pc = "idle" BY <1>2, EndedIsIdle
<1>4. QED BY <1>2, <1>3 DEF Turn, Tracking

LEMMA WriteOwnedTurns ==
  ASSUME JobsOK, NEW x \in Tasks, WriteOwned(x)
  PROVE  Turn(x) /\ task'[x].pc \in {"idle", "session"}
<1>1. DOMAIN task = Tasks /\ DOMAIN task[x] = Fields /\ task[x].pc # "idle" /\ x \in Renewals
  BY DEF JobsOK, Tracking, WriteOwned
<1>2. PICK targets : \/ task' = [task EXCEPT ![x] = Ended(@)]
                     \/ task' = [task EXCEPT ![x] =
                          [@ EXCEPT !.pc = "session", !.todo = targets, !.view = << >>]]
  BY Zenon DEF WriteOwned
<1>3. ASSUME task' = [task EXCEPT ![x] =
               [@ EXCEPT !.pc = "session", !.todo = targets, !.view = << >>]]
      PROVE  Turn(x) /\ task'[x].pc \in {"idle", "session"}
  <2> DEFINE r == [task[x] EXCEPT !.pc = "session", !.todo = targets, !.view = << >>]
  <2>1. task' = [task EXCEPT ![x] = r] BY <1>3
  <2>2. DOMAIN r = Fields /\ r.wallet = task[x].wallet /\ r.pc = "session" BY <1>1 DEF Fields
  <2> HIDE DEF r
  <2>3. QED BY <1>1, <2>1, <2>2, SameTurns
<1>4. QED BY <1>2, <1>3, EndedTurns

LEMMA TakeSessionTurns ==
  ASSUME JobsOK, NEW x \in Tasks, TakeSession(x)
  PROVE  Turn(x) /\ task'[x].pc \in {"idle", "enter"}
<1>1. DOMAIN task = Tasks /\ DOMAIN task[x] = Fields /\ task[x].pc # "idle"
  BY DEF JobsOK, Tracking, TakeSession
<1>2. CASE task' = [task EXCEPT ![x].pc = "enter", ![x].ring = current]
  <2> DEFINE r == [task[x] EXCEPT !.pc = "enter", !.ring = current]
  <2>1. task' = [task EXCEPT ![x] = r] BY <1>1, <1>2 DEF Fields
  <2>2. DOMAIN r = Fields /\ r.wallet = task[x].wallet /\ r.todo = task[x].todo /\ r.pc = "enter"
    BY <1>1 DEF Fields
  <2> HIDE DEF r
  <2>3. QED BY <1>1, <2>1, <2>2, SameTurns
<1>3. QED BY <1>2, EndedTurns DEF TakeSession

\* A call begins: with the wallet that is unlocked, and what is to be tracked.
LEMMA StartTurns ==
  ASSUME JobsOK, NEW x \in Tasks, NEW t, Start(x, t), DOMAIN t = Fields,
         t.pc \in {"enter", "ledger"}, x \notin Renewals => t.todo \in Seq(Targets) /\ t.todo # << >>
  PROVE  Turn(x) /\ task'[x].pc \in {"enter", "ledger"}
<1> DEFINE runs == IF x = Loop THEN 0 ELSE t.runs + 1
<1> DEFINE r == [t EXCEPT !.wallet = current, !.runs = runs]
<1>1. DOMAIN task = Tasks /\ current \in Wallets BY DEF JobsOK, Start
<1>2. task' = [task EXCEPT ![x] = r] BY DEF Start, Fields
<1>3. DOMAIN r = Fields /\ r.wallet = current /\ r.todo = t.todo /\ r.pc = t.pc BY DEF Fields
<1> HIDE DEF r
<1>4. task'[x] = r /\ DOMAIN task' = Tasks /\ \A y \in Tasks \ {x} : task'[y] = task[y]
  BY <1>1, <1>2
<1>5. Tracking(x)' BY <1>1, <1>3, <1>4 DEF Tracking
<1>6. QED BY <1>3, <1>4, <1>5 DEF Turn

\* A block lands a submission: whoever watches it goes on.
LEMMA LandMoves ==
  ASSUME JobsOK, NEW s \in Slots, Land(s)
  PROVE  /\ JobsOK' /\ UNCHANGED <<books, registration>>
         /\ \A x \in Tasks :
              /\ task'[x].pc \in Critical <=> task[x].pc \in Critical
              /\ task'[x].pc = "write" <=> task[x].pc = "write"
              /\ task'[x].view = task[x].view
<1>1. DOMAIN task = Tasks /\ \A x \in Tasks : DOMAIN task[x] = Fields /\ Tracking(x)
  BY DEF JobsOK, Tracking
<1>2. UNCHANGED <<current, books, registration>> BY DEF Land
<1>3. DOMAIN task' = Tasks BY DEF Land
<1>4. ASSUME NEW x \in Tasks
      PROVE  /\ Tracking(x)' /\ task'[x].view = task[x].view
             /\ \/ task'[x] = task[x]
                \/ task[x].pc = "watch" /\ task'[x].pc \in {"included", "failed"}
  <2> DEFINE next == IF MayReplace(s) THEN "included" ELSE "failed"
  <2>1. \/ task'[x] = task[x]
        \/ task[x].pc = "watch" /\ task'[x] = [task[x] EXCEPT !.pc = next]
    BY DEF Land
  <2>2. CASE task'[x] = task[x] BY <1>1, <2>2 DEF Tracking
  <2>3. CASE task[x].pc = "watch" /\ task'[x] = [task[x] EXCEPT !.pc = next]
    <3>1. /\ DOMAIN task'[x] = Fields /\ task'[x].pc = next
          /\ task'[x].wallet = task[x].wallet /\ task'[x].todo = task[x].todo
          /\ task'[x].view = task[x].view
      BY <1>1, <2>3 DEF Fields
    <3>2. task[x].pc # "idle" /\ task'[x].pc \in {"included", "failed"} BY <2>3, <3>1
    <3>3. Tracking(x) BY <1>1
    <3>4. Tracking(x)' BY <3>1, <3>2, <3>3 DEF Tracking
    <3>5. QED BY <2>3, <3>1, <3>2, <3>4
  <2>4. QED BY <2>1, <2>2, <2>3
<1>5. JobsOK' BY <1>2, <1>3, <1>4 DEF JobsOK
<1>6. QED BY <1>2, <1>4, <1>5 DEF Critical

-----------------------------------------------------------------------------
(* The invariant is kept.                                                  *)

LEMMA InitSafe == ASSUME Init PROVE IInv
<1> USE DEF Init
<1>1. task = [x \in Tasks |-> Idle] OBVIOUS
<1>2. DOMAIN Idle = Fields /\ Idle.pc = "idle" BY DEF Idle, Fields
<1>3. JobsOK BY <1>1, <1>2 DEF JobsOK, Tracking
<1>4. RegistrationInv /\ LedgerInv BY <1>1, <1>2 DEF RegistrationInv, LedgerInv, Critical
<1>5. BooksOK /\ PromisesKept BY KeptAssumption DEF BooksOK, PromisesKept, ToSet
<1>6. QED BY <1>3, <1>4, <1>5 DEF IInv

LEMMA TurnJobs ==
  ASSUME JobsOK, NEW x \in Tasks, Turn(x), current' = current PROVE JobsOK'
BY DEF JobsOK, Turn, Tracking

\* The registration lock is taken when it is free, kept by who has it, and
\* given up at the end.
LEMMA TurnRegistration ==
  ASSUME RegistrationInv, NEW x \in Tasks, Turn(x),
         \/ task[x].pc \in Critical /\ Inside(x)
         \/ registration = None /\ registration' = x
         \/ task'[x].pc \notin Critical /\ registration' = registration
         \/ task'[x].pc \notin Critical /\ registration = x
  PROVE  RegistrationInv'
BY TaskAssumption DEF RegistrationInv, Turn, Inside, Critical

\* No task but the one that writes has read the ledger to write it.
LEMMA TurnLedger ==
  ASSUME LedgerInv, NEW x \in Tasks, Turn(x),
         \/ task'[x].pc # "write" /\ ledgerLock' = ledgerLock /\ ledger' = ledger
         \/ task'[x].pc # "write" /\ task[x].pc = "write"
         \/ ledgerLock = None /\ ledgerLock' = x /\ ledger' = ledger /\ task'[x].view = ledger
  PROVE  LedgerInv'
BY TaskAssumption DEF LedgerInv, Turn

\* What is tracked goes to the end of the ledger, unless it is there.
LEMMA WriteEntryKeeps ==
  ASSUME IInv, NEW x \in Tasks, WriteEntry(x)
  PROVE  BooksOK' /\ PromisesKept'
<1> DEFINE entry == Entry(task[x].wallet, Head(task[x].todo))
<1>1. task[x].view = ledger /\ task[x].pc = "write" /\ x \notin Renewals /\ Tracking(x)
  BY DEF IInv, LedgerInv, WriteEntry, JobsOK
<1>2. BooksOK /\ PromisesKept BY DEF IInv
<1>3. Head(task[x].todo) \in Targets /\ task[x].wallet \in Wallets BY <1>1 DEF Tracking
<1>4. entry \in Entries BY <1>3 DEF Entry, Entries, Targets
<1>5. Append(ledger, entry) \in Seq(Entries) /\ ToSet(Append(ledger, entry)) = ToSet(ledger) \cup {entry}
  BY <1>2, <1>4, AppendToSet DEF BooksOK
<1>6. Contains(ledger, entry) => entry \in ToSet(ledger) BY <1>2 DEF BooksOK, Contains, ToSet
<1> HIDE DEF entry
<1>7. \/ /\ ledger' = IF Contains(ledger, entry) THEN ledger ELSE Append(ledger, entry)
         /\ promised' = promised \cup {entry}
      \/ UNCHANGED <<ledger, promised>>
  BY <1>1 DEF WriteEntry, entry
<1>8. CASE UNCHANGED <<ledger, promised>> BY <1>2, <1>8 DEF BooksOK, PromisesKept, ToSet
<1>9. CASE Contains(ledger, entry) /\ ledger' = ledger /\ promised' = promised \cup {entry}
  BY <1>2, <1>4, <1>6, <1>9 DEF BooksOK, PromisesKept
<1>10. CASE ledger' = Append(ledger, entry) /\ promised' = promised \cup {entry}
  BY <1>2, <1>4, <1>5, <1>10 DEF BooksOK, PromisesKept
<1>11. QED BY <1>7, <1>8, <1>9, <1>10

\* What another wallet promised goes, and nothing else.
LEMMA WriteOwnedKeeps ==
  ASSUME IInv, NEW x \in Tasks, WriteOwned(x)
  PROVE  BooksOK' /\ PromisesKept'
<1> DEFINE foreign == {e \in Entries : e.owner \notin {None, task[x].wallet}}
<1>1. task[x].view = ledger BY DEF IInv, LedgerInv, WriteOwned
<1>2. BooksOK /\ PromisesKept BY DEF IInv
<1>3. Retained(ledger, foreign) \in Seq(Entries)
      /\ ToSet(Retained(ledger, foreign)) = ToSet(ledger) \ foreign
  BY <1>2, RetainedEntries DEF BooksOK
<1>4. \/ /\ ledger' = IF Retained(ledger, foreign) = ledger THEN ledger
                      ELSE Retained(ledger, foreign)
         /\ promised' = promised \ foreign
      \/ UNCHANGED <<ledger, promised>>
  BY <1>1 DEF WriteOwned
<1> HIDE DEF foreign
<1>5. CASE ledger' = Retained(ledger, foreign) /\ promised' = promised \ foreign
  BY <1>2, <1>3, <1>5 DEF BooksOK, PromisesKept
<1>6. CASE UNCHANGED <<ledger, promised>> BY <1>2, <1>6 DEF BooksOK, PromisesKept
<1>7. QED BY <1>4, <1>5, <1>6

LEMMA CallsKeep ==
  ASSUME IInv, NEW x \in Tasks, NEW t, Start(x, t), DOMAIN t = Fields,
         t.pc \in {"enter", "ledger"}, x \notin Renewals => t.todo \in Seq(Targets) /\ t.todo # << >>
  PROVE  IInv'
<1>1. JobsOK /\ UNCHANGED <<current, ledger, ledgerLock, promised, registration>>
  BY DEF IInv, Start, books
<1>2. Turn(x) /\ task'[x].pc \in {"enter", "ledger"} BY <1>1, StartTurns
<1>3. JobsOK' BY <1>1, <1>2, TurnJobs
<1>4. RegistrationInv' BY <1>1, <1>2, TurnRegistration DEF IInv, Critical
<1>5. LedgerInv' BY <1>1, <1>2, TurnLedger DEF IInv
<1>6. QED BY <1>1, <1>3, <1>4, <1>5 DEF IInv, BooksOK, PromisesKept

LEMMA StepsKeep == ASSUME IInv, NEW x \in Tasks, Step(x) PROVE IInv'
<1>1. JobsOK /\ RegistrationInv /\ LedgerInv /\ BooksOK /\ PromisesKept BY DEF IInv
<1>2. CASE Enter(x)
  <2>1. Turn(x) /\ registration = None /\ registration' = x /\ task'[x].pc = "choose"
    BY <1>1, <1>2, EnterTurns
  <2>2. UNCHANGED <<current, ledger, ledgerLock, promised>> BY <1>2 DEF Enter, books
  <2>3. JobsOK' /\ RegistrationInv' /\ LedgerInv'
    BY <1>1, <2>1, <2>2, TurnJobs, TurnRegistration, TurnLedger
  <2>4. QED BY <1>1, <2>2, <2>3 DEF IInv, BooksOK, PromisesKept
<1>3. CASE Choose(x) \/ Submit(x) \/ Rescan(x) \/ GiveUp(x) \/ Registered(x)
  <2>1. task[x].pc \in Critical /\ Turn(x) /\ Inside(x) /\ UNCHANGED <<current, books>>
    BY <1>1, <1>3, RegistrationSteps
  <2>2. UNCHANGED <<current, ledger, ledgerLock, promised>> BY <2>1 DEF books
  <2>3. task'[x].pc # "write" BY <2>1 DEF Inside, Critical
  <2>4. JobsOK' /\ RegistrationInv' /\ LedgerInv'
    BY <1>1, <2>1, <2>2, <2>3, TurnJobs, TurnRegistration, TurnLedger
  <2>5. QED BY <1>1, <2>2, <2>4 DEF IInv, BooksOK, PromisesKept
<1>4. CASE ReadLedger(x)
  <2>1. Turn(x) /\ task'[x].pc = "write" /\ task'[x].view = ledger
    BY <1>1, <1>4, ReadLedgerTurns
  <2>2. UNCHANGED <<current, ledger, promised, registration>> /\ ledgerLock = None /\ ledgerLock' = x
    BY <1>4 DEF ReadLedger
  <2>3. task'[x].pc \notin Critical BY <2>1 DEF Critical
  <2>4. JobsOK' /\ RegistrationInv' /\ LedgerInv'
    BY <1>1, <2>1, <2>2, <2>3, TurnJobs, TurnRegistration, TurnLedger
  <2>5. QED BY <1>1, <2>2, <2>4 DEF IInv, BooksOK, PromisesKept
<1>5. CASE WriteEntry(x)
  <2>1. Turn(x) /\ task'[x].pc = "idle" BY <1>1, <1>5, EndedTurns DEF WriteEntry
  <2>2. /\ current' = current /\ task[x].pc = "write"
        /\ registration' = registration \/ registration = x
    BY <1>5 DEF WriteEntry, chain
  <2>3. task'[x].pc \notin Critical BY <2>1 DEF Critical
  <2>4. JobsOK' /\ RegistrationInv' /\ LedgerInv'
    BY <1>1, <2>1, <2>2, <2>3, TurnJobs, TurnRegistration, TurnLedger
  <2>5. QED BY <1>5, <2>4, WriteEntryKeeps DEF IInv
<1>6. CASE WriteOwned(x)
  <2>1. Turn(x) /\ task'[x].pc \in {"idle", "session"} BY <1>1, <1>6, WriteOwnedTurns
  <2>2. current' = current /\ task[x].pc = "write" /\ registration' = registration
    BY <1>6 DEF WriteOwned
  <2>3. task'[x].pc \notin Critical BY <2>1 DEF Critical
  <2>4. JobsOK' /\ RegistrationInv' /\ LedgerInv'
    BY <1>1, <2>1, <2>2, <2>3, TurnJobs, TurnRegistration, TurnLedger
  <2>5. QED BY <1>6, <2>4, WriteOwnedKeeps DEF IInv
<1>7. CASE TakeSession(x)
  <2>1. Turn(x) /\ task'[x].pc \in {"idle", "enter"} BY <1>1, <1>7, TakeSessionTurns
  <2>2. UNCHANGED <<current, ledger, ledgerLock, promised, registration>>
    BY <1>7 DEF TakeSession, books
  <2>3. task'[x].pc \notin Critical BY <2>1 DEF Critical
  <2>4. JobsOK' /\ RegistrationInv' /\ LedgerInv'
    BY <1>1, <2>1, <2>2, <2>3, TurnJobs, TurnRegistration, TurnLedger
  <2>5. QED BY <1>1, <2>2, <2>4 DEF IInv, BooksOK, PromisesKept
<1>8. QED BY <1>2, <1>3, <1>4, <1>5, <1>6, <1>7 DEF Step

LEMMA InvNext == IInv /\ [Next]_vars => IInv'
<1>1. SUFFICES ASSUME IInv, [Next]_vars PROVE IInv' OBVIOUS
<1>2. JobsOK /\ \A x \in Tasks : DOMAIN task[x] = Fields BY <1>1 DEF IInv, JobsOK, Tracking
<1>3. ASSUME NEW w \in Wallets \cup {None}, Switch(w) PROVE IInv'
  <2>1. current' \in Wallets \cup {None} /\ UNCHANGED <<ledger, ledgerLock, promised, registration, task>>
    BY <1>3 DEF Switch, books
  <2>2. QED BY <1>1, <2>1 DEF IInv, JobsOK, Tracking, RegistrationInv, LedgerInv, BooksOK, PromisesKept
<1>4. ASSUME NEW x \in Allocations, NEW p \in Products, NEW reuse, Allocate(x, p, reuse)
      PROVE  IInv'
  <2> DEFINE t == [task[x] EXCEPT !.pc = "enter", !.ring = current, !.todo = <<p>>, !.reuse = reuse]
  <2>1. x \in Tasks /\ Start(x, t) BY <1>4 DEF Allocate, Tasks
  <2>2. DOMAIN t = Fields /\ t.pc = "enter" /\ t.todo = <<p>> BY <1>2, <2>1 DEF Fields
  <2>3. p \in Targets BY DEF Targets, Recipes
  <2>4. <<p>> \in Seq(Targets) /\ <<p>> # << >> BY <2>3
  <2> HIDE DEF t
  <2>5. QED BY <1>1, <2>1, <2>2, <2>4, CallsKeep
<1>5. ASSUME NEW x \in Trackers, NEW target \in Targets, Track(x, target) PROVE IInv'
  <2> DEFINE t == [task[x] EXCEPT !.pc = "ledger", !.todo = <<target>>]
  <2>1. x \in Tasks /\ Start(x, t) BY <1>5 DEF Track, Tasks
  <2>2. DOMAIN t = Fields /\ t.pc = "ledger" /\ t.todo = <<target>> BY <1>2, <2>1 DEF Fields
  <2>3. <<target>> \in Seq(Targets) /\ <<target>> # << >> OBVIOUS
  <2> HIDE DEF t
  <2>4. QED BY <1>1, <2>1, <2>2, <2>3, CallsKeep
<1>6. ASSUME NEW x \in Renewals, Renew(x) PROVE IInv'
  <2> DEFINE t == [task[x] EXCEPT !.pc = "ledger"]
  <2>1. x \in Tasks /\ Start(x, t) BY <1>6 DEF Renew, Tasks
  <2>2. DOMAIN t = Fields /\ t.pc = "ledger" BY <1>2, <2>1 DEF Fields
  <2> HIDE DEF t
  <2>3. QED BY <1>1, <1>6, <2>1, <2>2, CallsKeep
<1>7. ASSUME NEW x \in Tasks, Step(x) PROVE IInv' BY <1>1, <1>7, StepsKeep
<1>8. ASSUME NEW s \in Slots, Land(s) PROVE IInv'
  <2>1. /\ JobsOK' /\ UNCHANGED <<books, registration>>
        /\ \A x \in Tasks :
             /\ task'[x].pc \in Critical <=> task[x].pc \in Critical
             /\ task'[x].pc = "write" <=> task[x].pc = "write"
             /\ task'[x].view = task[x].view
    BY <1>2, <1>8, LandMoves
  <2>2. UNCHANGED <<ledger, ledgerLock, promised, registration>> BY <2>1 DEF books
  <2>3. RegistrationInv' /\ LedgerInv' BY <1>1, <2>1, <2>2 DEF IInv, RegistrationInv, LedgerInv
  <2>4. QED BY <1>1, <2>1, <2>2, <2>3 DEF IInv, BooksOK, PromisesKept
<1>9. CASE Cool \/ UNCHANGED vars
  <2>1. UNCHANGED <<current, ledger, ledgerLock, promised, registration, task>>
    BY <1>9 DEF Cool, vars, books
  <2>2. QED BY <1>1, <2>1 DEF IInv, JobsOK, Tracking, RegistrationInv, LedgerInv, BooksOK, PromisesKept
<1>10. QED BY <1>1, <1>3, <1>4, <1>5, <1>6, <1>7, <1>8, <1>9 DEF Next

(* The invariant holds of every run of the host: calls, passes and the     *)
(* wallet's changes in any order, with any answer of the chain             *)
(* (allowance_renewal.rs, renewal.rs, statement_allowance.rs).             *)
THEOREM Safety == Spec => []IInv
BY InitSafe, InvNext, PTL DEF Spec

(* Nothing that was tracked is lost from the ledger by a reader of it that *)
(* writes back what it read (allowance_renewal.rs, track_targets and       *)
(* owned_targets).                                                         *)
THEOREM PromisesKeptHolds == Spec => []PromisesKept
<1>1. IInv => PromisesKept BY DEF IInv
<1>2. QED BY <1>1, Safety, PTL

(* Only the holder of the registration lock chooses and submits, so no two *)
(* calls go for one slot (sso_responder.rs,                                *)
(* allocate_statement_store_allowance; renewal.rs, renew_targets).         *)
THEOREM NobodyRacesHolds == Spec => []NobodyRaces
<1>1. IInv => NobodyRaces
  <2>1. SUFFICES ASSUME IInv, NEW x \in Tasks, NEW y \in Tasks, x # y,
                        {task[x].pc, task[y].pc} \subseteq {"submit", "watch"}
                 PROVE  FALSE
    BY DEF NobodyRaces
  <2>2. task[x].pc \in Critical /\ task[y].pc \in Critical BY <2>1 DEF Critical
  <2>3. QED BY <2>1, <2>2 DEF IInv, RegistrationInv
<1>2. QED BY <1>1, Safety, PTL

=============================================================================
