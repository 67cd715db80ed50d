--------------------------- MODULE StatementAllowances ---------------------------
(***************************************************************************)
(* Statement-store allowances of a signing host: allocation on demand      *)
(* (signing_host/sso_responder.rs), the ledger of promised accounts and    *)
(* the renewal pass (signing_host/allowance_renewal.rs,                    *)
(* statement_allowance/renewal.rs), and the registration both go through   *)
(* (statement_allowance.rs, statement_allowance/slot.rs).                  *)
(*                                                                         *)
(* The chain is external.  In each collection of people a wallet has a few *)
(* slots a period; it takes one submission a slot at a time, includes it   *)
(* when it likes, and lets it replace an entry only after the cooldown.    *)
(* Everything here is within one period.                                   *)
(***************************************************************************)
EXTENDS Naturals, Sequences, FiniteSets, SequencesExt, FiniteSetsExt

CONSTANTS Wallets,     \* root entropies the host may unlock
          Former,      \* one it had in an earlier run
          Products,    \* products, with an account derived from the entropy each
          WalletSso,   \* the target of the wallet's own account, derived likewise
          Peers,       \* targets that are accounts themselves
          Collections, \* the collections of people, in the order they are tried
          Budget,      \* slots of each in a period
          Policies,    \* whether a request may be served by an allowance there is
          Allocations, \* requests for an allowance
          Trackers,    \* calls that have a target tracked
          Passes,      \* renewal passes called for by the host
          Loop,        \* the renewal loop
          Kept,        \* the ledger an earlier run left
          Occupied,    \* slots that another device of the wallet's may hold at first
          Stranger,    \* the account they are held for
          None,
          MaxRuns,     \* bound: runs of each task but the loop
          MaxSwitches, \* bound: changes of the wallet
          MaxFaults    \* bound: failed reads, writes and submissions

ASSUME CollectionAssumption ==
  /\ IsInjective(Collections) /\ Budget \in [ToSet(Collections) -> Nat]

ASSUME BoundAssumption == {MaxRuns, MaxSwitches, MaxFaults} \subseteq Nat

VARIABLES
  current,      \* the wallet that is unlocked
  ledger,       \* StatementRenewalTargets: the promised targets, in order
  ledgerLock,   \* who holds ledger_lock
  registration, \* who holds registration_lock
  task,         \* where each allocation, tracker and pass is
  table,        \* the account each slot is allocated to
  ages,         \* the slots that are taken, oldest first
  cooled,       \* how many of them the cooldown has elapsed for
  pool,         \* the account each slot has a submission pending for
  promised,     \* history: what was tracked and not dropped since
  spent         \* the bounds used up

chain == <<table, ages, cooled, pool>>
books == <<ledger, ledgerLock, promised>>
vars  == <<current, books, registration, task, chain, spent>>

Renewals == Passes \cup {Loop}
Tasks    == Allocations \cup Trackers \cup Renewals
Recipes  == Products \cup {WalletSso}
Targets  == Recipes \cup Peers
Slots    == UNION {[wallet : Wallets, collection : {c}, seq : 1..Budget[c]] : c \in ToSet(Collections)}
Accounts == [wallet : Wallets, target : Recipes] \cup [wallet : {None}, target : Peers] \cup {Stranger}
Entries  == [owner : {None}, target : Recipes] \cup [owner : Wallets \cup {Former}, target : Peers]

ASSUME TaskAssumption == None \notin Tasks
ASSUME KeptAssumption == Kept \in Seq(Entries)

Account(w, t) == [wallet |-> IF t \in Recipes THEN w ELSE None, target |-> t]
Entry(w, t)   == [owner |-> IF t \in Peers THEN w ELSE None, target |-> t]

Idle == [pc |-> "idle", wallet |-> None, ring |-> None, todo |-> << >>, reuse |-> TRUE,
         claimed |-> {}, slot |-> None, excluded |-> {}, took |-> FALSE, view |-> << >>, runs |-> 0]

Init ==
  /\ current \in Wallets
  /\ ledger = Kept /\ promised = ToSet(Kept) /\ ledgerLock = None /\ registration = None
  /\ task = [x \in Tasks |-> Idle]
  /\ \E S \in SUBSET Occupied :
       /\ table = [s \in Slots |-> IF s \in S THEN Stranger ELSE None]
       /\ ages = SetToSeq(S) /\ cooled = Len(ages)
  /\ pool = [s \in Slots |-> None]
  /\ spent = [switches |-> 0, faults |-> 0]

----------------------------------------------------------------------------
(* The wallet and the chain. *)

Switch(w) ==
  /\ current # w /\ spent.switches < MaxSwitches
  /\ current' = w /\ spent' = [spent EXCEPT !.switches = @ + 1]
  /\ UNCHANGED <<books, registration, task, chain>>

Cool ==
  /\ cooled < Len(ages)
  /\ cooled' = cooled + 1
  /\ UNCHANGED <<current, books, registration, task, table, ages, pool, spent>>

MayReplace(s) == table[s] = None \/ \E i \in 1..cooled : ages[i] = s

\* A block includes a submission, or finds it invalid.  Whoever watches it learns.
Land(s) ==
  /\ pool[s] # None
  /\ pool' = [pool EXCEPT ![s] = None]
  /\ IF MayReplace(s)
     THEN /\ table' = [table EXCEPT ![s] = pool[s]]
          /\ ages' = Append(Remove(ages, s), s)
          /\ cooled' = IF table[s] = None THEN cooled ELSE cooled - 1
     ELSE UNCHANGED <<table, ages, cooled>>
  /\ task' = [x \in Tasks |-> IF task[x].pc = "watch" /\ task[x].slot = s
                              THEN [task[x] EXCEPT !.pc = IF MayReplace(s) THEN "included" ELSE "failed"]
                              ELSE task[x]]
  /\ UNCHANGED <<current, books, registration, spent>>

----------------------------------------------------------------------------
(* Registration. *)

MayFail == spent.faults < MaxFaults /\ spent' = [spent EXCEPT !.faults = @ + 1]

Ended(t) == [Idle EXCEPT !.runs = t.runs]

Wanted(x) == Account(task[x].wallet, Head(task[x].todo))

\* The lock is given up, and the rest of the targets is turned to.
Leave(x, rest, got) ==
  /\ registration' = None
  /\ task' = [task EXCEPT ![x] =
       IF rest = << >> THEN Ended(@)
       ELSE [@ EXCEPT !.pc = "enter", !.todo = rest, !.claimed = task[x].claimed \cup got,
                      !.slot = None, !.excluded = {}, !.took = FALSE]]

Failed(x)    == Leave(x, Tail(task[x].todo), {})
Exhausted(x) == Leave(x, << >>, {})
Holds(x, s)  == Leave(x, Tail(task[x].todo), {s})

Take(x, s, takeover) ==
  /\ task' = [task EXCEPT ![x].pc = "submit", ![x].slot = s, ![x].took = @ \/ takeover]
  /\ UNCHANGED registration

MisEnter(x) ==
  /\ task[x].pc = "enter"
  /\ registration' = x /\ task' = [task EXCEPT ![x].pc = "choose"]
  /\ UNCHANGED <<current, books, chain, spent>>

Enter(x) ==
  /\ task[x].pc = "enter" /\ registration = None
  /\ registration' = x /\ task' = [task EXCEPT ![x].pc = "choose"]
  /\ UNCHANGED <<current, books, chain, spent>>

\* The slots of the wallet in these collections, in the order they are scanned.
Table(w, collections) ==
  SelectSeq(FlattenSeq([i \in DOMAIN Collections |->
                          [n \in 1..Budget[Collections[i]] |->
                             [wallet |-> w, collection |-> Collections[i], seq |-> n]]]),
            LAMBDA s : s.collection \in collections)

HeldIn(x, slots) == SelectSeq(slots, LAMBDA s : task[x].reuse /\ table[s] = Wanted(x))
FreeIn(x, slots) == SelectSeq(slots, LAMBDA s : table[s] = None /\ s \notin task[x].excluded)

MisReplaceable(x, slots) ==
  SelectSeq(SubSeq(ages, 1, cooled),
            LAMBDA s : s \in ToSet(slots) /\ table[s] # Wanted(x))

\* replaceable_slot's candidates, oldest first.
Replaceable(x, slots) ==
  SelectSeq(SubSeq(ages, 1, cooled),
            LAMBDA s : s \in ToSet(slots) /\ table[s] # Wanted(x) /\ s \notin task[x].claimed)

\* Scan of the collections and choice of a slot: a collection may not be read,
\* or the wallet not be found in its ring.
Choose(x) ==
  /\ task[x].pc = "choose"
  /\ \E read, proved \in SUBSET ToSet(Collections) :
       LET known  == Table(task[x].ring, read)
           usable == Table(task[x].ring, read \cap proved)
       IN /\ IF read \cap proved = ToSet(Collections) THEN UNCHANGED spent ELSE MayFail
          /\ CASE HeldIn(x, known) # << >>       -> Holds(x, Head(HeldIn(x, known)))
               [] OTHER ->
             CASE read \cap proved = {}          -> Failed(x)
               [] FreeIn(x, usable) # << >>      -> Take(x, Head(FreeIn(x, usable)), FALSE)
               [] OTHER ->
             IF x \in Renewals /\ Replaceable(x, usable) # << >>
             THEN Take(x, Head(Replaceable(x, usable)), TRUE)
             ELSE Exhausted(x)
  /\ UNCHANGED <<current, books, chain>>

\* The chain takes one submission a slot, and none for a slot in its cooldown.
Submit(x) ==
  /\ task[x].pc = "submit"
  /\ LET s == task[x].slot
     IN \/ /\ pool[s] # None
           /\ task' = [task EXCEPT ![x].pc = "rescan", ![x].excluded = @ \cup {s}]
           /\ UNCHANGED <<registration, pool>>
        \/ /\ pool[s] = None /\ ~MayReplace(s)
           /\ Failed(x) /\ UNCHANGED pool
        \/ /\ pool[s] = None /\ MayReplace(s)
           /\ pool' = [pool EXCEPT ![s] = Wanted(x)]
           /\ task' = [task EXCEPT ![x].pc = "watch"]
           /\ UNCHANGED registration
  /\ UNCHANGED <<current, books, table, ages, cooled, spent>>

\* A submission was refused as a duplicate: another slot of that collection.
Rescan(x) ==
  /\ task[x].pc = "rescan"
  /\ LET slots == Table(task[x].ring, {task[x].slot.collection})
     IN CASE HeldIn(x, slots) # << >> ->
               /\ task' = [task EXCEPT ![x].pc = "held", ![x].slot = Head(HeldIn(x, slots))]
               /\ UNCHANGED registration
          [] OTHER ->
        CASE FreeIn(x, slots) # << >> -> Take(x, Head(FreeIn(x, slots)), FALSE)
          [] OTHER ->
        CASE \E s \in ToSet(slots) : table[s] = None -> Failed(x)
          [] OTHER ->
        IF ~task[x].took /\ Replaceable(x, slots) # << >>
        THEN Take(x, Head(Replaceable(x, slots)), TRUE)
        ELSE Exhausted(x)
  /\ UNCHANGED <<current, books, chain, spent>>

\* A read of the chain fails, the wait for inclusion runs out, or the block says no.
GiveUp(x) ==
  /\ \/ task[x].pc = "failed" /\ UNCHANGED spent
     \/ task[x].pc \in {"choose", "rescan", "watch", "included"} /\ MayFail
  /\ Failed(x)
  /\ UNCHANGED <<current, books, chain>>

\* The entry is read at the block, or was there at the retry: a renewal has claimed it, and an allocation
\* has its target tracked, unless the wallet was locked.
Registered(x) ==
  /\ task[x].pc \in {"included", "held"}
  /\ IF x \in Renewals THEN Holds(x, task[x].slot)
     ELSE IF current = None THEN Failed(x)
     ELSE task' = [task EXCEPT ![x].pc = "ledger"] /\ UNCHANGED registration
  /\ UNCHANGED <<current, books, chain, spent>>

----------------------------------------------------------------------------
(* The ledger. *)

\* A read of the ledger, for a change of it.
MisReadLedger(x) ==
  /\ task[x].pc = "ledger"
  /\ ledgerLock' = x /\ task' = [task EXCEPT ![x].pc = "write", ![x].view = ledger]
  /\ UNCHANGED <<current, ledger, promised, registration, chain, spent>>

ReadLedger(x) ==
  /\ task[x].pc = "ledger" /\ ledgerLock = None
  /\ ledgerLock' = x /\ task' = [task EXCEPT ![x].pc = "write", ![x].view = ledger]
  /\ UNCHANGED <<current, ledger, promised, registration, chain, spent>>

\* track_targets: the entry goes to the end, unless it is there.
WriteEntry(x) ==
  /\ task[x].pc = "write" /\ x \notin Renewals
  /\ LET entry == Entry(task[x].wallet, Head(task[x].todo))
     IN \/ /\ ledger' = IF Contains(task[x].view, entry) THEN ledger
                        ELSE Append(task[x].view, entry)
           /\ promised' = promised \cup {entry} /\ UNCHANGED spent
        \/ MayFail /\ UNCHANGED <<ledger, promised>>
  /\ ledgerLock' = None
  /\ task' = [task EXCEPT ![x] = Ended(@)]
  /\ registration' = IF registration = x THEN None ELSE registration
  /\ UNCHANGED <<current, chain>>

\* What is left of a sequence, in its order: its n-th entry is the one with n
\* of them up to it.
Retained(s, foreign) ==
  LET left    == {i \in DOMAIN s : s[i] \notin foreign}
      rank(i) == Cardinality({j \in left : j <= i})
  IN [n \in 1..Cardinality(left) |-> s[CHOOSE i \in left : rank(i) = n]]

\* owned_targets: what another wallet promised goes.
WriteOwned(x) ==
  /\ task[x].pc = "write" /\ x \in Renewals
  /\ LET foreign == {e \in Entries : e.owner \notin {None, task[x].wallet}}
         owned   == Retained(task[x].view, foreign)
         targets == [i \in DOMAIN owned |-> owned[i].target]
     IN \/ /\ ledger' = IF owned = task[x].view THEN ledger ELSE owned
           /\ promised' = promised \ foreign
           /\ task' = [task EXCEPT ![x] =
                IF owned = << >> THEN Ended(@)
                ELSE [@ EXCEPT !.pc = "session", !.todo = targets, !.view = << >>]]
           /\ UNCHANGED spent
        \/ /\ MayFail /\ task' = [task EXCEPT ![x] = Ended(@)]
           /\ UNCHANGED <<ledger, promised>>
  /\ ledgerLock' = None
  /\ UNCHANGED <<current, registration, chain>>

----------------------------------------------------------------------------
(* The calls. *)

Start(x, t) ==
  /\ task[x].pc = "idle" /\ current # None
  /\ x = Loop \/ task[x].runs < MaxRuns
  /\ task' = [task EXCEPT ![x] = [t EXCEPT !.wallet = current, !.runs = IF x = Loop THEN 0 ELSE @ + 1]]
  /\ UNCHANGED <<current, books, registration, chain, spent>>

Allocate(x, p, reuse) ==
  Start(x, [task[x] EXCEPT !.pc = "enter", !.ring = current, !.todo = <<p>>, !.reuse = reuse])

Track(x, t) == Start(x, [task[x] EXCEPT !.pc = "ledger", !.todo = <<t>>])

Renew(x) == Start(x, [task[x] EXCEPT !.pc = "ledger"])

\* renew_now looks at the session once it has its targets, then at the chain.
TakeSession(x) ==
  /\ task[x].pc = "session"
  /\ \/ /\ current # None
        /\ task' = [task EXCEPT ![x].pc = "enter", ![x].ring = current]
        /\ UNCHANGED spent
     \/ /\ IF current = None THEN UNCHANGED spent ELSE MayFail
        /\ task' = [task EXCEPT ![x] = Ended(@)]
  /\ UNCHANGED <<current, books, registration, chain>>

Step(x) ==
  \/ Enter(x) \/ Choose(x) \/ Submit(x) \/ Rescan(x) \/ GiveUp(x) \/ Registered(x)
  \/ ReadLedger(x) \/ WriteEntry(x) \/ WriteOwned(x) \/ TakeSession(x)

Next ==
  \/ \E w \in Wallets \cup {None} : Switch(w)
  \/ \E x \in Allocations, p \in Products, reuse \in Policies : Allocate(x, p, reuse)
  \/ \E x \in Trackers, t \in Targets : Track(x, t)
  \/ \E x \in Renewals : Renew(x)
  \/ \E x \in Tasks : Step(x)
  \/ \E s \in Slots : Land(s)
  \/ Cool

\* Every task is polled on, the loop's timer goes off, the chain makes blocks
\* and time passes; nobody has to call, nor to unlock the wallet.
Fairness ==
  /\ \A x \in Tasks : WF_vars(Step(x))
  /\ WF_vars(Renew(Loop)) /\ WF_vars(Cool)
  /\ \A s \in Slots : WF_vars(Land(s))

Spec == Init /\ [][Next]_vars /\ Fairness

----------------------------------------------------------------------------
(* Properties. *)

TypeOK ==
  /\ current \in Wallets \cup {None}
  /\ ledger \in Seq(Entries) /\ promised \in SUBSET Entries
  /\ {ledgerLock, registration} \subseteq Tasks \cup {None}
  /\ \A s \in Slots : {table[s], pool[s]} \subseteq Accounts \cup {None}
  /\ ages \in Seq(Slots) /\ cooled \in 0..Len(ages)

\* What was tracked is in the ledger until a pass of another wallet drops it:
\* no reader of the ledger overwrites what was appended after it read
\* (allowance_renewal.rs:282).
PromisesKept == promised \subseteq ToSet(ledger)

\* Of the calls under way no two want the same slot: each chose from a table
\* the other's choice was in (sso_responder.rs:948).
NobodyRaces ==
  \A x, y \in Tasks :
     x # y /\ {task[x].pc, task[y].pc} \subseteq {"submit", "watch"} => task[x].slot # task[y].slot

\* While the wallet stays unlocked, the targets it promised come to hold a slot
\* and keep it, the first ones if there are more than slots: passes do not take
\* from each other what they renewed (renewal.rs:166).
TargetsAreRenewed ==
  LET slots  == ToSet(Table(current, ToSet(Collections)))
      owned  == SelectSeq(ledger, LAMBDA e : e.owner \in {None, current})
  IN <>[](current # None =>
            \A i \in DOMAIN owned : i <= Cardinality(slots)
               => \E s \in slots : table[s] = Account(current, owned[i].target))

\* An allocation on demand takes no slot over (sso_responder.rs:995).
AllocationsTakeNothingOver == \A x \in Allocations : ~task[x].took

\* A target has one slot, unless one was asked for in addition (statement_allowance.rs:811).
OneSlotATarget ==
  \A s, t \in Slots : s # t /\ table[s] \in Accounts \ {Stranger} => table[s] # table[t]

\* The slots of a wallet serve accounts it promised (allowance_renewal.rs:66).
SlotsServeTheirWallet ==
  \A s \in Slots : table[s] \in [wallet : Wallets, target : Recipes] => table[s].wallet = s.wallet

=============================================================================
