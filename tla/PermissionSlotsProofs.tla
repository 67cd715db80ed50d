---------------------------- MODULE PermissionSlotsProofs ----------------------------
(***************************************************************************)
(* Proofs about PermissionSlots, for any number of requests at once, any   *)
(* patterns and any relation of covering between them.                     *)
(***************************************************************************)
EXTENDS PermissionSlots, TLAPS

-----------------------------------------------------------------------------
(* The inductive invariant.                                                *)

(* A slot that was decided when a request began and was not cleared since  *)
(* is decided.                                                             *)
SteadyInv == \A t \in Tasks, s \in Slots : s \in steady[t] => store[s] # "none"

Covered(d)  == Range(Candidates[d]) \cap named # {}
Dealt(t, d) == d \in Range(undecided[t]) \/ Covered(d)
Fresh(t, d) == \A c \in Range(Candidates[d]) : {c} \notin steady[t]

\* A request that has yet to begin, and one that is under way
Waiting(t) == pc[t] = "idle" => domain[t] = 1 /\ candidate[t] = 1
Under(t)   == pc[t] \notin {"idle", "done"} => Domains(t) # <<>>

(* While the domains are read: those before this one are noted or covered  *)
(* by a grant, and what was found undecided is not steady.                 *)
Resolving(t) == pc[t] = "resolve" =>
  /\ asks[t].kind \in {"check", "peek"}
  /\ \A i \in 1 .. domain[t] - 1 : Dealt(t, Domains(t)[i])
  /\ \A d \in Range(undecided[t]) : Fresh(t, d)
  /\ \A i \in 1 .. candidate[t] - 1 : {Candidates[Domains(t)[domain[t]]][i]} \notin steady[t]

(* Afterwards what is left is what matters, to the slot of the set and to  *)
(* the user.                                                               *)
Asking(t) == pc[t] \in {"bundle", "prompting"} =>
  /\ asks[t].kind # "set" /\ undecided[t] # <<>> /\ domain[t] = 1
  /\ \A d \in Range(Domains(t)) : Dealt(t, d)
  /\ asks[t].kind = "plain" => undecided[t] = Domains(t)
  /\ asks[t].kind # "plain" \/ pc[t] = "prompting" =>
       \A d \in Range(undecided[t]) : Fresh(t, d)
  /\ pc[t] = "prompting" => Range(undecided[t]) \notin steady[t]

\* An answer that is being written is the user's.
Writing(t) == pc[t] = "write" /\ asks[t].kind # "set" =>
  /\ domain[t] \in 1 .. Len(undecided[t])
  /\ \A d \in Range(Domains(t)) : Dealt(t, d)
  /\ \/ answer[t] = "granted" /\ Range(undecided[t]) \subseteq named
     \/ answer[t] = "denied" /\ Range(undecided[t]) \in refused

\* The host's writes are within its domains, or to the set of them.
Setting(t) == pc[t] = "write" /\ asks[t].kind = "set" =>
  domain[t] \in 1 .. Len(Domains(t)) + 1

\* Who was told that his domains are granted, they are covered.
Told(t) == Answered(t, "granted") /\ asks[t].kind # "set" =>
  Domains(t) # <<>> /\ \A d \in Range(Domains(t)) : Covered(d)

TaskInv(t) ==
  /\ Waiting(t) /\ Under(t) /\ Resolving(t) /\ Asking(t) /\ Writing(t) /\ Setting(t)
  /\ Told(t)

GrantedSlots == \A s \in Slots : store[s] = "granted" => s \subseteq named
StoreInv == GrantedSlots /\ DenialStaysNarrow

IInv == TypeOK /\ SteadyInv /\ StoreInv /\ \A t \in Tasks : TaskInv(t)

-----------------------------------------------------------------------------
(* What any step of a request does to the others: it leaves where they are *)
(* alone, it takes no decision back and makes no slot steady for them.     *)

StepOf(t) ==
  \/ Begin(t) \/ ReadDomain(t) \/ ReadBundle(t) \/ Prompted(t) \/ Persist(t) \/ SetStatus(t)
  \/ Fail(t)

Grows == asks' = asks /\ named \subseteq named' /\ refused \subseteq refused'

Still(u) ==
  /\ pc'[u] = pc[u] /\ domain'[u] = domain[u] /\ candidate'[u] = candidate[u]
  /\ undecided'[u] = undecided[u] /\ answer'[u] = answer[u] /\ steady'[u] \subseteq steady[u]

LEMMA AppendRange ==
  ASSUME NEW S, NEW s \in Seq(S), NEW x \in S
  PROVE  Append(s, x) \in Seq(S) /\ Range(Append(s, x)) = Range(s) \cup {x}
         /\ Append(s, x) # <<>>
<1>1. Append(s, x) \in Seq(S) /\ Len(Append(s, x)) = Len(s) + 1 OBVIOUS
<1>2. DOMAIN Append(s, x) = 1 .. Len(s) + 1 /\ DOMAIN s = 1 .. Len(s) /\ Len(s) \in Nat BY <1>1
<1>3. \A i \in 1 .. Len(s) : Append(s, x)[i] = s[i] OBVIOUS
<1>4. Append(s, x)[Len(s) + 1] = x OBVIOUS
<1>5. Range(Append(s, x)) \subseteq Range(s) \cup {x} BY <1>2, <1>3, <1>4, SMT DEF Range
<1>6. Range(s) \subseteq Range(Append(s, x)) BY <1>2, <1>3, SMT DEF Range
<1>7. x \in Range(Append(s, x)) BY <1>2, <1>4, SMT DEF Range
<1>8. QED BY <1>1, <1>5, <1>6, <1>7

\* The domains of a task are patterns; what it is asked of each is a sequence
\* of patterns in which it is.
LEMMA Shape ==
  ASSUME TypeOK, NEW t \in Tasks
  PROVE  /\ asks[t] \in Plays /\ Domains(t) \in Seq(Patterns)
         /\ \A i \in DOMAIN Domains(t) :
              /\ Domains(t)[i] \in Patterns
              /\ Candidates[Domains(t)[i]] \in Seq(Patterns)
              /\ Len(Candidates[Domains(t)[i]]) >= 1
<1>1. asks[t] \in Plays BY CastAssumption DEF TypeOK
<1>2. Domains(t) \in Seq(Patterns) BY <1>1 DEF Domains, Plays
<1>3. ASSUME NEW d \in Patterns
      PROVE  Candidates[d] \in Seq(Patterns) /\ Len(Candidates[d]) >= 1
  <2>1. Candidates[d] \in Seq(Patterns) /\ d \in Range(Candidates[d]) BY CandidateAssumption
  <2>2. PICK i \in DOMAIN Candidates[d] : Candidates[d][i] = d BY <2>1 DEF Range
  <2>3. DOMAIN Candidates[d] = 1 .. Len(Candidates[d]) /\ Len(Candidates[d]) \in Nat BY <2>1
  <2>4. QED BY <2>1, <2>2, <2>3
<1>4. \A i \in DOMAIN Domains(t) : Domains(t)[i] \in Patterns BY <1>2
<1>5. QED BY <1>1, <1>2, <1>3, <1>4

LEMMA OneTask ==
  ASSUME TypeOK, NEW t \in Tasks, StepOf(t)
  PROVE  Grows /\ \A u \in Tasks \ {t} : Still(u)
<1> USE DEF TypeOK, Grows, Still, history, End
<1>1. CASE Begin(t) BY <1>1 DEF Begin
<1>2. CASE ReadDomain(t) BY <1>2 DEF ReadDomain, NextDomain
<1>3. CASE ReadBundle(t) BY <1>3 DEF ReadBundle
<1>4. CASE Prompted(t) BY <1>4 DEF Prompted
<1>5. CASE Persist(t) BY <1>5 DEF Persist, Store, WriteNext
<1>6. CASE SetStatus(t) BY <1>6 DEF SetStatus, Store, WriteNext
<1>7. CASE Fail(t) BY <1>7 DEF Fail
<1>8. QED BY <1>1, <1>2, <1>3, <1>4, <1>5, <1>6, <1>7 DEF StepOf

\* What holds of a task outlives the steps of the others.
LEMMA Others ==
  ASSUME NEW u \in Tasks, TaskInv(u), Grows, Still(u)
  PROVE  TaskInv(u)'
<1> USE DEF Grows, Still, Domains
<1>1. \A d : Covered(d) => Covered(d)' BY DEF Covered
<1>2. \A d : Dealt(u, d) => Dealt(u, d)' BY <1>1 DEF Dealt
<1>3. \A d : Fresh(u, d) => Fresh(u, d)' BY DEF Fresh
<1>4. Waiting(u)' /\ Under(u)' /\ Setting(u)' BY DEF TaskInv, Waiting, Under, Setting
<1>5. Resolving(u)' BY <1>2, <1>3 DEF TaskInv, Resolving
<1>6. Asking(u)' BY <1>2, <1>3 DEF TaskInv, Asking
<1>7. Writing(u)' BY <1>2 DEF TaskInv, Writing
<1>8. Told(u)' BY <1>1 DEF TaskInv, Told, Answered
<1>9. QED BY <1>4, <1>5, <1>6, <1>7, <1>8 DEF TaskInv

-----------------------------------------------------------------------------
(* What is written to a slot.                                              *)

LEMMA StoreTypes ==
  ASSUME TypeOK, NEW slot \in Slots, NEW status \in Statuses, Store(slot, status)
  PROVE  /\ store' \in [Slots -> Statuses]
         /\ steady' \in [Tasks -> SUBSET Slots] /\ seen' \in [Tasks -> SUBSET Slots]
         /\ \A s \in Slots : store'[s] = IF s = slot THEN status ELSE store[s]
BY DEF TypeOK, Store

LEMMA StoreSteady ==
  ASSUME TypeOK, SteadyInv, NEW slot \in Slots, NEW status \in Statuses, Store(slot, status)
  PROVE  SteadyInv'
BY DEF TypeOK, Store, SteadyInv

LEMMA StoreSafe ==
  ASSUME TypeOK, StoreInv, Grows, NEW slot \in Slots, NEW status \in Statuses,
         Store(slot, status), status = "granted" => slot \subseteq named',
         status = "denied" => slot \in refused'
  PROVE  StoreInv'
<1>1. \A s \in Slots : store'[s] = IF s = slot THEN status ELSE store[s] BY StoreTypes
<1>2. GrantedSlots' BY <1>1 DEF StoreInv, GrantedSlots, Grows
<1>3. DenialStaysNarrow' BY <1>1 DEF StoreInv, DenialStaysNarrow, Grows
<1>4. QED BY <1>2, <1>3 DEF StoreInv

\* A slot is named by some pattern of a sequence, or by all of them.
LEMMA Named ==
  ASSUME NEW s \in Seq(Patterns), s # <<>>
  PROVE  Range(s) \in Slots /\ \A i \in DOMAIN s : {s[i]} \in Slots /\ s[i] \in Range(s)
<1>1. 1 \in DOMAIN s OBVIOUS
<1>2. \A i \in DOMAIN s : s[i] \in Patterns OBVIOUS
<1>3. \A i \in DOMAIN s : s[i] \in Range(s) BY DEF Range
<1>4. Range(s) \subseteq Patterns /\ Range(s) # {} BY <1>1, <1>2, <1>3 DEF Range
<1>5. ASSUME NEW P, P \subseteq Patterns, P # {} PROVE P \in Slots BY <1>5 DEF Slots
<1>6. ASSUME NEW i \in DOMAIN s PROVE {s[i]} \in Slots
  <2>1. {s[i]} \subseteq Patterns /\ {s[i]} # {} BY <1>2
  <2>2. QED BY <1>5, <2>1
<1>7. QED BY <1>3, <1>4, <1>5, <1>6

\* The two writers write to slots, statuses that are there to be written.
LEMMA Writes ==
  ASSUME IInv, NEW t \in Tasks, pc[t] = "write"
  PROVE  /\ asks[t].kind # "set" /\ answer[t] = "granted" =>
              /\ {undecided[t][domain[t]]} \in Slots
              /\ {undecided[t][domain[t]]} \subseteq named
         /\ asks[t].kind # "set" => answer[t] \in {"granted", "denied"}
         /\ asks[t].kind # "set" => Range(undecided[t]) \in Slots
         /\ asks[t].kind # "set" /\ answer[t] = "denied" => Range(undecided[t]) \in refused
         /\ asks[t].kind = "set" =>
              /\ Range(Domains(t)) \in Slots /\ asks[t].status \in Statuses
              /\ domain[t] <= Len(Domains(t)) =>
                   {Domains(t)[domain[t]]} \in Slots
                   /\ {Domains(t)[domain[t]]} \subseteq Range(Domains(t))
<1> USE DEF IInv
<1>1. TaskInv(t) OBVIOUS
<1>2. undecided[t] \in Seq(Patterns) /\ domain[t] \in Nat \ {0} BY DEF TypeOK
<1>3. asks[t] \in Plays /\ Domains(t) \in Seq(Patterns) BY Shape
<1>4. ASSUME asks[t].kind # "set"
      PROVE  /\ domain[t] \in DOMAIN undecided[t] /\ undecided[t] # <<>>
             /\ answer[t] \in {"granted", "denied"}
             /\ answer[t] = "granted" => Range(undecided[t]) \subseteq named
             /\ answer[t] = "denied" => Range(undecided[t]) \in refused
  BY <1>1, <1>2, <1>4 DEF TaskInv, Writing
<1>5. ASSUME asks[t].kind # "set"
      PROVE  /\ Range(undecided[t]) \in Slots
             /\ {undecided[t][domain[t]]} \in Slots
             /\ undecided[t][domain[t]] \in Range(undecided[t])
  BY <1>2, <1>4, <1>5, Named
<1>6. Domains(t) # <<>> BY <1>1 DEF TaskInv, Under
<1>7. Range(Domains(t)) \in Slots
      /\ \A i \in DOMAIN Domains(t) : {Domains(t)[i]} \in Slots /\ Domains(t)[i] \in Range(Domains(t))
  BY <1>3, <1>6, Named
<1>8. asks[t].status \in Statuses BY <1>3 DEF Plays
<1>9. domain[t] <= Len(Domains(t)) => domain[t] \in DOMAIN Domains(t) BY <1>2, <1>3
<1>10. QED BY <1>4, <1>5, <1>7, <1>8, <1>9

-----------------------------------------------------------------------------
(* Types.                                                                  *)

LEMMA InitSafe == ASSUME Init PROVE IInv
<1> USE DEF Init
<1>1. TypeOK BY DEF TypeOK, Statuses, Domains
<1>2. SteadyInv BY DEF SteadyInv
<1>3. StoreInv BY DEF StoreInv, GrantedSlots, DenialStaysNarrow
<1>4. ASSUME NEW t \in Tasks PROVE TaskInv(t)
  BY DEF TaskInv, Waiting, Under, Resolving, Asking, Writing, Setting, Told, Answered
<1>5. QED BY <1>1, <1>2, <1>3, <1>4 DEF IInv

Phases == {"idle", "resolve", "bundle", "prompting", "write", "done"}
Words  == Statuses \cup {"open", "failed"}

LEMMA NextDomainTypes ==
  ASSUME TypeOK, NEW t \in Tasks, pc[t] = "resolve", NEW left \in Seq(Patterns),
         NextDomain(t, left)
  PROVE  /\ pc' \in [Tasks -> Phases] /\ domain' \in [Tasks -> Nat \ {0}]
         /\ candidate' \in [Tasks -> Nat \ {0}] /\ undecided' \in [Tasks -> Seq(Patterns)]
         /\ answer' \in [Tasks -> Words]
         /\ candidate'[t] = 1 /\ undecided'[t] = left
         /\ pc'[t] = "resolve" => domain'[t] \in DOMAIN Domains(t)
<1> USE DEF TypeOK, Phases, Words, Statuses
<1>1. undecided' \in [Tasks -> Seq(Patterns)] /\ undecided'[t] = left BY DEF NextDomain
<1>2. candidate' \in [Tasks -> Nat \ {0}] /\ candidate'[t] = 1 BY DEF NextDomain
<1>3. pc' \in [Tasks -> Phases] /\ answer' \in [Tasks -> Words] BY DEF NextDomain, End
<1>4. domain[t] \in Nat \ {0} OBVIOUS
<1>5. domain' \in [Tasks -> Nat \ {0}]
  <2>1. domain[t] + 1 \in Nat \ {0} /\ 1 \in Nat \ {0} BY <1>4
  <2>2. domain' = [domain EXCEPT ![t] = domain[t] + 1] \/ domain' = [domain EXCEPT ![t] = 1]
    BY DEF NextDomain
  <2>3. QED BY <2>1, <2>2
<1>6. Domains(t) \in Seq(Patterns) BY Shape
<1>7. pc'[t] = "resolve" => domain[t] < Len(Domains(t)) /\ domain'[t] = domain[t] + 1
  BY DEF NextDomain, End
<1>8. pc'[t] = "resolve" => domain'[t] \in DOMAIN Domains(t) BY <1>4, <1>6, <1>7
<1>9. QED BY <1>1, <1>2, <1>3, <1>5, <1>8

LEMMA ReadTypes ==
  ASSUME TypeOK, NEW t \in Tasks, ReadDomain(t)
  PROVE  /\ pc' \in [Tasks -> Phases] /\ domain' \in [Tasks -> Nat \ {0}]
         /\ candidate' \in [Tasks -> Nat \ {0}] /\ undecided' \in [Tasks -> Seq(Patterns)]
         /\ answer' \in [Tasks -> Words]
         /\ pc'[t] = "resolve" =>
              /\ domain'[t] \in DOMAIN Domains(t)
              /\ candidate'[t] \in DOMAIN Candidates[Domains(t)[domain'[t]]]
<1> DEFINE d == Domains(t)[domain[t]]
<1> DEFINE status == store[{Candidates[d][candidate[t]]}]
<1> DEFINE Typed ==
      /\ pc' \in [Tasks -> Phases] /\ domain' \in [Tasks -> Nat \ {0}]
      /\ candidate' \in [Tasks -> Nat \ {0}] /\ undecided' \in [Tasks -> Seq(Patterns)]
      /\ answer' \in [Tasks -> Words]
      /\ pc'[t] = "resolve" =>
           /\ domain'[t] \in DOMAIN Domains(t)
           /\ candidate'[t] \in DOMAIN Candidates[Domains(t)[domain'[t]]]
<1>1. /\ pc[t] = "resolve" /\ domain[t] \in DOMAIN Domains(t)
      /\ candidate[t] \in DOMAIN Candidates[d]
  BY DEF TypeOK, ReadDomain
<1>2. d \in Patterns /\ Candidates[d] \in Seq(Patterns) BY <1>1, Shape
<1>3. undecided[t] \in Seq(Patterns) /\ candidate[t] \in Nat \ {0} BY DEF TypeOK
<1>4. Append(undecided[t], d) \in Seq(Patterns) BY <1>2, <1>3
<1>5. \A i \in DOMAIN Domains(t) : 1 \in DOMAIN Candidates[Domains(t)[i]] BY Shape
<1>6. ASSUME NEW left \in Seq(Patterns), NextDomain(t, left) PROVE  Typed
  BY <1>1, <1>5, <1>6, NextDomainTypes
<1>7. ASSUME End(t, "denied"), UNCHANGED <<domain, candidate, undecided>> PROVE  Typed
  BY <1>7 DEF TypeOK, End, Phases, Words, Statuses
<1>8. ASSUME candidate[t] < Len(Candidates[d]), candidate' = [candidate EXCEPT ![t] = @ + 1],
             UNCHANGED <<pc, domain, undecided, answer>>
      PROVE  Typed
  <2>1. candidate'[t] = candidate[t] + 1 BY <1>8 DEF TypeOK
  <2>2. candidate'[t] \in DOMAIN Candidates[d] BY <1>2, <1>3, <1>8, <2>1
  <2>3. candidate' \in [Tasks -> Nat \ {0}] BY <1>3, <1>8 DEF TypeOK
  <2>4. QED BY <1>1, <1>8, <2>2, <2>3 DEF TypeOK, Phases, Words
<1>9. QED BY <1>3, <1>4, <1>6, <1>7, <1>8 DEF ReadDomain

\* What the acting task reads next, if it goes on reading, is there to be read.
Pointed(t) == pc'[t] = "resolve" =>
  /\ domain'[t] \in DOMAIN Domains(t)
  /\ candidate'[t] \in DOMAIN Candidates[Domains(t)[domain'[t]]]

LEMMA TypesOfOthers ==
  ASSUME TypeOK, NEW t \in Tasks, StepOf(t), Pointed(t),
         store' \in [Slots -> Statuses], pc' \in [Tasks -> Phases],
         domain' \in [Tasks -> Nat \ {0}], candidate' \in [Tasks -> Nat \ {0}],
         undecided' \in [Tasks -> Seq(Patterns)], answer' \in [Tasks -> Words],
         named' \subseteq Patterns, refused' \subseteq Slots,
         steady' \in [Tasks -> SUBSET Slots], seen' \in [Tasks -> SUBSET Slots]
  PROVE  TypeOK'
<1>1. Grows /\ \A u \in Tasks \ {t} : Still(u) BY OneTask
<1>2. ASSUME NEW u \in Tasks, pc'[u] = "resolve"
      PROVE  /\ domain'[u] \in DOMAIN Domains(u)
             /\ candidate'[u] \in DOMAIN Candidates[Domains(u)[domain'[u]]]
  <2>1. CASE u = t BY <1>2, <2>1 DEF Pointed
  <2>2. CASE u # t BY <1>1, <1>2, <2>2 DEF Still, TypeOK
  <2>3. QED BY <2>1, <2>2
<1>3. \A u \in Tasks : pc'[u] = "resolve" =>
        /\ domain'[u] \in DOMAIN Domains(u)'
        /\ candidate'[u] \in DOMAIN Candidates[Domains(u)'[domain'[u]]]
  BY <1>1, <1>2 DEF Domains, Grows
<1>4. asks' \in Casts BY <1>1 DEF Grows, TypeOK
<1>5. QED BY <1>3, <1>4 DEF TypeOK, Phases, Words

LEMMA BeginTypes == ASSUME TypeOK, NEW t \in Tasks, Begin(t), Waiting(t) PROVE TypeOK'
<1>1. asks[t] \in Plays /\ Domains(t) \in Seq(Patterns) BY Shape
<1>2. UNCHANGED <<store, domain, candidate, named, refused>> /\ pc[t] = "idle" BY DEF Begin
<1>3. steady' \in [Tasks -> SUBSET Slots] /\ seen' \in [Tasks -> SUBSET Slots]
  BY DEF Begin, TypeOK, Decided
<1>4. pc' \in [Tasks -> Phases] /\ answer' \in [Tasks -> Words]
  <2>1. CASE Domains(t) = <<>>
    BY <2>1 DEF Begin, TypeOK, End, Phases, Words, Statuses
  <2>2. CASE Domains(t) # <<>>
    <3>1. answer' = answer BY <2>2 DEF Begin
    <3>2. pc' = [pc EXCEPT ![t] = "write"] \/ pc' = [pc EXCEPT ![t] = "bundle"]
          \/ pc' = [pc EXCEPT ![t] = "resolve"]
      BY <2>2 DEF Begin
    <3>3. QED BY <3>1, <3>2 DEF TypeOK, Phases, Words
  <2>3. QED BY <2>1, <2>2
<1>5. undecided' \in [Tasks -> Seq(Patterns)]
  <2>1. CASE Domains(t) = <<>> BY <2>1 DEF Begin, TypeOK
  <2>2. CASE Domains(t) # <<>>
    <3>1. undecided' = [undecided EXCEPT ![t] = Domains(t)]
          \/ undecided' = [undecided EXCEPT ![t] = <<>>]
      BY <2>2 DEF Begin
    <3>2. <<>> \in Seq(Patterns) OBVIOUS
    <3>3. QED BY <1>1, <3>1, <3>2 DEF TypeOK
  <2>3. QED BY <2>1, <2>2
<1>6. Pointed(t)
  <2>1. SUFFICES ASSUME pc'[t] = "resolve"
                 PROVE  1 \in DOMAIN Domains(t) /\ 1 \in DOMAIN Candidates[Domains(t)[1]]
    BY <1>2 DEF Pointed, Waiting
  <2>2. Domains(t) # <<>> BY <2>1 DEF Begin, End, TypeOK
  <2>3. 1 \in DOMAIN Domains(t) BY <1>1, <2>2
  <2>4. Len(Candidates[Domains(t)[1]]) >= 1 /\ Candidates[Domains(t)[1]] \in Seq(Patterns)
    BY <2>3, Shape
  <2>5. QED BY <2>3, <2>4
<1>7. store' \in [Slots -> Statuses] /\ domain' \in [Tasks -> Nat \ {0}]
      /\ candidate' \in [Tasks -> Nat \ {0}] /\ named' \subseteq Patterns /\ refused' \subseteq Slots
  BY <1>2 DEF TypeOK
<1>8. StepOf(t) BY DEF StepOf
<1>9. QED BY <1>3, <1>4, <1>5, <1>6, <1>7, <1>8, TypesOfOthers

LEMMA WriteNextTypes ==
  ASSUME TypeOK, NEW t \in Tasks, pc[t] = "write", NEW last, WriteNext(t, last)
  PROVE  /\ pc' \in [Tasks -> Phases] /\ domain' \in [Tasks -> Nat \ {0}]
         /\ answer' \in [Tasks -> Words] /\ pc'[t] # "resolve"
<1>1. domain[t] + 1 \in Nat \ {0} BY DEF TypeOK
<1>2. \/ domain' = [domain EXCEPT ![t] = domain[t] + 1] /\ pc' = pc
      \/ domain' = domain /\ pc' = [pc EXCEPT ![t] = "done"]
  BY DEF WriteNext
<1>3. answer' = answer BY DEF WriteNext
<1>4. domain' \in [Tasks -> Nat \ {0}] BY <1>1, <1>2 DEF TypeOK
<1>5. pc' \in [Tasks -> Phases] /\ pc'[t] # "resolve" BY <1>2 DEF TypeOK, Phases
<1>6. QED BY <1>3, <1>4, <1>5 DEF TypeOK, Words

LEMMA PersistTypes == ASSUME IInv, NEW t \in Tasks, Persist(t) PROVE TypeOK'
<1>1. TypeOK /\ pc[t] = "write" /\ asks[t].kind # "set" /\ StepOf(t)
  BY DEF IInv, Persist, StepOf
<1>2. PICK slot \in Slots, status \in Statuses, last \in Nat :
        Store(slot, status) /\ WriteNext(t, last)
  <2>1. answer[t] = "granted" => {undecided[t][domain[t]]} \in Slots BY <1>1, Writes
  <2>2. Range(undecided[t]) \in Slots BY <1>1, Writes
  <2>3. Len(undecided[t]) \in Nat /\ domain[t] \in Nat BY <1>1 DEF TypeOK
  <2>4. QED BY <2>1, <2>2, <2>3 DEF Persist, Statuses
<1>3. store' \in [Slots -> Statuses] /\ steady' \in [Tasks -> SUBSET Slots]
      /\ seen' \in [Tasks -> SUBSET Slots]
  BY <1>1, <1>2, StoreTypes
<1>4. /\ pc' \in [Tasks -> Phases] /\ domain' \in [Tasks -> Nat \ {0}]
      /\ answer' \in [Tasks -> Words] /\ Pointed(t)
  BY <1>1, <1>2, WriteNextTypes DEF Pointed
<1>5. candidate' \in [Tasks -> Nat \ {0}] /\ undecided' \in [Tasks -> Seq(Patterns)]
      /\ named' \subseteq Patterns /\ refused' \subseteq Slots
  BY <1>1 DEF Persist, TypeOK
<1>6. QED BY <1>1, <1>3, <1>4, <1>5, TypesOfOthers

LEMMA SetStatusTypes == ASSUME IInv, NEW t \in Tasks, SetStatus(t) PROVE TypeOK'
<1>1. TypeOK /\ pc[t] = "write" /\ asks[t].kind = "set" /\ StepOf(t)
  BY DEF IInv, SetStatus, StepOf
<1>2. /\ Range(Domains(t)) \in Slots /\ asks[t].status \in Statuses
      /\ domain[t] <= Len(Domains(t)) => {Domains(t)[domain[t]]} \in Slots
  BY <1>1, Writes
<1>3. PICK slot \in Slots, last \in Nat :
        /\ Store(slot, asks[t].status) /\ WriteNext(t, last)
        /\ refused' = IF asks[t].status = "denied" THEN refused \cup {slot} ELSE refused
  <2>1. Len(Domains(t)) \in Nat BY <1>1, Shape
  <2>2. (IF Len(Domains(t)) > 1 THEN Len(Domains(t)) + 1 ELSE Len(Domains(t))) \in Nat BY <2>1
  <2>3. QED BY <1>2, <2>2 DEF SetStatus
<1>4. store' \in [Slots -> Statuses] /\ steady' \in [Tasks -> SUBSET Slots]
      /\ seen' \in [Tasks -> SUBSET Slots]
  BY <1>1, <1>2, <1>3, StoreTypes
<1>5. /\ pc' \in [Tasks -> Phases] /\ domain' \in [Tasks -> Nat \ {0}]
      /\ answer' \in [Tasks -> Words] /\ Pointed(t)
  BY <1>1, <1>3, WriteNextTypes DEF Pointed
<1>6. candidate' \in [Tasks -> Nat \ {0}] /\ undecided' \in [Tasks -> Seq(Patterns)]
  BY <1>1 DEF SetStatus, TypeOK
<1>7. refused' \subseteq Slots BY <1>1, <1>3 DEF TypeOK
<1>8. named' \subseteq Patterns
  <2>1. Range(Domains(t)) \subseteq Patterns BY <1>2 DEF Slots
  <2>2. named' \in {named, named \cup Range(Domains(t))} BY DEF SetStatus
  <2>3. QED BY <1>1, <2>1, <2>2 DEF TypeOK
<1>9. QED BY <1>1, <1>4, <1>5, <1>6, <1>7, <1>8, TypesOfOthers

LEMMA PromptedTypes == ASSUME IInv, NEW t \in Tasks, Prompted(t) PROVE TypeOK'
<1>1. TypeOK /\ pc[t] = "prompting" /\ StepOf(t) /\ TaskInv(t) BY DEF IInv, Prompted, StepOf
<1>2. undecided[t] \in Seq(Patterns) /\ undecided[t] # <<>>
  BY <1>1 DEF TypeOK, TaskInv, Asking
<1>3. Range(undecided[t]) \in Slots BY <1>2, Named
<1>4. Range(undecided[t]) \subseteq Patterns BY <1>3 DEF Slots
<1>5. named' \subseteq Patterns /\ refused' \subseteq Slots
  BY <1>1, <1>3, <1>4 DEF Prompted, TypeOK
<1>6. pc' \in [Tasks -> Phases] /\ answer' \in [Tasks -> Words] /\ Pointed(t)
  BY <1>1 DEF Prompted, TypeOK, End, Phases, Words, Statuses, Pointed
<1>7. UNCHANGED <<store, domain, candidate, undecided, steady, seen>> BY DEF Prompted
<1>8. QED BY <1>1, <1>5, <1>6, <1>7, TypesOfOthers DEF TypeOK

LEMMA TypeNext == ASSUME IInv, NEW t \in Tasks, StepOf(t) PROVE TypeOK'
<1>1. TypeOK /\ TaskInv(t) BY DEF IInv
<1>2. CASE Begin(t) BY <1>1, <1>2, BeginTypes DEF TaskInv
<1>3. CASE ReadDomain(t)
  <2>1. Pointed(t) BY <1>1, <1>3, ReadTypes DEF Pointed
  <2>2. UNCHANGED <<store, named, refused, steady, seen>> BY <1>3 DEF ReadDomain, history
  <2>3. /\ store' \in [Slots -> Statuses] /\ named' \subseteq Patterns /\ refused' \subseteq Slots
        /\ steady' \in [Tasks -> SUBSET Slots] /\ seen' \in [Tasks -> SUBSET Slots]
    BY <1>1, <2>2 DEF TypeOK
  <2>4. /\ pc' \in [Tasks -> Phases] /\ domain' \in [Tasks -> Nat \ {0}]
        /\ candidate' \in [Tasks -> Nat \ {0}] /\ undecided' \in [Tasks -> Seq(Patterns)]
        /\ answer' \in [Tasks -> Words]
    BY <1>1, <1>3, ReadTypes
  <2>5. QED BY <1>1, <2>1, <2>3, <2>4, TypesOfOthers
<1>4. CASE ReadBundle(t)
  <2>1. TypeOK /\ pc[t] = "bundle" /\ undecided[t] \in Seq(Patterns) /\ undecided[t] # <<>>
    BY <1>1, <1>4 DEF TypeOK, TaskInv, Asking, ReadBundle
  <2>2. store[Range(undecided[t])] \in Statuses BY <2>1, Named DEF TypeOK
  <2>3. pc' \in [Tasks -> Phases] /\ answer' \in [Tasks -> Words] /\ Pointed(t)
    BY <1>4, <2>1, <2>2 DEF ReadBundle, TypeOK, End, Phases, Words, Pointed
  <2>4. UNCHANGED <<store, domain, candidate, undecided, named, refused, steady, seen>>
    BY <1>4 DEF ReadBundle, history
  <2>5. QED BY <1>1, <2>3, <2>4, TypesOfOthers DEF TypeOK
<1>5. CASE Prompted(t) BY <1>5, PromptedTypes
<1>6. CASE Persist(t) BY <1>6, PersistTypes
<1>7. CASE SetStatus(t) BY <1>7, SetStatusTypes
<1>8. CASE Fail(t)
  <2>1. pc' \in [Tasks -> Phases] /\ answer' \in [Tasks -> Words] /\ Pointed(t)
    BY <1>1, <1>8 DEF Fail, TypeOK, End, Phases, Words, Pointed
  <2>2. UNCHANGED <<store, domain, candidate, undecided, named, refused, steady, seen>>
    BY <1>8 DEF Fail, history
  <2>3. QED BY <1>1, <2>1, <2>2, TypesOfOthers DEF TypeOK
<1>9. QED BY <1>2, <1>3, <1>4, <1>5, <1>6, <1>7, <1>8 DEF StepOf

-----------------------------------------------------------------------------
(* What each action makes of the task that takes it.                       *)

LEMMA BeginActs == ASSUME IInv, NEW t \in Tasks, Begin(t) PROVE TaskInv(t)'
<1> DEFINE kind == asks[t].kind
<1>1. TypeOK /\ TaskInv(t) /\ pc[t] = "idle" /\ domain[t] = 1 /\ candidate[t] = 1
  BY DEF IInv, Begin, TaskInv, Waiting
<1>2. asks[t] \in Plays /\ Domains(t) \in Seq(Patterns) BY <1>1, Shape
<1>3. UNCHANGED <<asks, domain, candidate, named, refused>> BY DEF Begin
<1>4. Domains(t)' = Domains(t) BY <1>3 DEF Domains
<1>5. CASE Domains(t) = <<>>
  <2>1. pc'[t] = "done" /\ (kind # "set" => answer'[t] = "denied")
    BY <1>1, <1>5 DEF Begin, End, TypeOK
  <2>2. QED BY <1>3, <1>4, <2>1
        DEF TaskInv, Waiting, Under, Resolving, Asking, Writing, Setting, Told, Answered
<1>6. CASE Domains(t) # <<>>
  <2>1. /\ kind = "set" => pc'[t] = "write"
        /\ kind = "plain" => pc'[t] = "bundle" /\ undecided'[t] = Domains(t)
        /\ kind \notin {"set", "plain"} => pc'[t] = "resolve" /\ undecided'[t] = <<>>
    BY <1>1, <1>6 DEF Begin, TypeOK
  <2>2. kind \in {"check", "plain", "peek", "set"} BY <1>2 DEF Plays
  <2>3. Waiting(t)' /\ Under(t)' /\ Told(t)' BY <1>4, <1>6, <2>1, <2>2
        DEF Waiting, Under, Told, Answered
  <2>4. Resolving(t)'
    <3>1. SUFFICES ASSUME pc'[t] = "resolve" PROVE Resolving(t)' BY DEF Resolving
    <3>2. kind \in {"check", "peek"} /\ undecided'[t] = <<>> /\ domain'[t] = 1 /\ candidate'[t] = 1
      BY <1>1, <1>3, <2>1, <2>2, <3>1
    <3>3. \A d : d \notin Range(undecided'[t]) BY <3>2 DEF Range
    <3>4. QED BY <1>3, <3>2, <3>3 DEF Resolving
  <2>5. Asking(t)'
    <3>1. SUFFICES ASSUME pc'[t] \in {"bundle", "prompting"} PROVE Asking(t)' BY DEF Asking
    <3>2. kind = "plain" /\ undecided'[t] = Domains(t) /\ domain'[t] = 1 /\ pc'[t] = "bundle"
      BY <1>1, <1>3, <2>1, <2>2, <3>1
    <3>3. \A d \in Range(Domains(t)) : Dealt(t, d)' BY <3>2 DEF Dealt
    <3>4. QED BY <1>3, <1>4, <1>6, <3>2, <3>3 DEF Asking
  <2>6. Writing(t)' /\ Setting(t)'
    <3>1. Len(Domains(t)) \in Nat BY <1>2
    <3>2. QED BY <1>1, <1>3, <1>4, <2>1, <2>2, <3>1 DEF Writing, Setting
  <2>7. QED BY <2>3, <2>4, <2>5, <2>6 DEF TaskInv
<1>7. QED BY <1>5, <1>6

\* A domain is done with when it is noted or covered and all its patterns are
\* known to be undecided, or a grant of one of them was read.
LEMMA NextDomainActs ==
  ASSUME IInv, NEW t \in Tasks, pc[t] = "resolve", NEW left \in Seq(Patterns),
         NextDomain(t, left), UNCHANGED <<asks, store, history>>,
         Range(undecided[t]) \subseteq Range(left),
         \A d \in Range(left) : Fresh(t, d),
         Domains(t)[domain[t]] \in Range(left) \/ Covered(Domains(t)[domain[t]])
  PROVE  TaskInv(t)'
<1>1. TypeOK /\ TaskInv(t) BY DEF IInv
<1>2. asks[t] \in Plays /\ Domains(t) \in Seq(Patterns) BY <1>1, Shape
<1>3. domain[t] \in DOMAIN Domains(t) /\ domain[t] \in Nat \ {0} BY <1>1 DEF TypeOK
<1>4. undecided'[t] = left /\ candidate'[t] = 1 BY <1>1, NextDomainTypes
<1>5. Domains(t)' = Domains(t) /\ UNCHANGED <<asks, steady, named, refused>> BY DEF Domains, history
<1>6. \A d : Covered(d)' = Covered(d) BY <1>5 DEF Covered
<1>7. \A d : Dealt(t, d) => Dealt(t, d)' BY <1>4, <1>6 DEF Dealt
<1>8. \A d : Fresh(t, d)' = Fresh(t, d) BY <1>5 DEF Fresh
<1>9. asks[t].kind \in {"check", "peek"} /\ Domains(t) # <<>>
  BY <1>1 DEF TaskInv, Resolving, Under
<1>10. \A i \in 1 .. domain[t] : Dealt(t, Domains(t)[i])'
  <2>1. Resolving(t) BY <1>1 DEF TaskInv
  <2>2. \A i \in 1 .. domain[t] - 1 : Dealt(t, Domains(t)[i]) BY <2>1 DEF Resolving
  <2>3. ASSUME NEW d, d \in Range(left) \/ Covered(d) PROVE Dealt(t, d)'
    BY <1>4, <1>6, <2>3 DEF Dealt
  <2>4. ASSUME NEW i \in 1 .. domain[t], NEW d, d = Domains(t)[i] PROVE Dealt(t, d)'
    <3>1. CASE i = domain[t] BY <2>3, <2>4, <3>1
    <3>2. CASE i # domain[t]
      <4>1. i \in 1 .. domain[t] - 1 BY <1>3, <3>2
      <4>2. Dealt(t, d) BY <2>2, <2>4, <4>1
      <4>3. QED BY <1>7, <4>2
    <3>3. QED BY <3>1, <3>2
  <2>5. QED BY <1>5, <2>4 DEF Dealt
<1>11. CASE domain[t] < Len(Domains(t))
  <2>1. domain'[t] = domain[t] + 1 /\ pc'[t] = "resolve"
    BY <1>1, <1>11 DEF NextDomain, TypeOK
  <2>2. Resolving(t)'
    <3>1. \A i \in 1 .. domain'[t] - 1 : Dealt(t, Domains(t)[i])' BY <1>3, <1>10, <2>1
    <3>2. \A d \in Range(undecided'[t]) : Fresh(t, d)' BY <1>4, <1>8
    <3>3. QED BY <1>4, <1>5, <1>9, <3>1, <3>2 DEF Resolving
  <2>3. QED BY <1>5, <1>9, <2>1, <2>2
        DEF TaskInv, Waiting, Under, Asking, Writing, Setting, Told, Answered
<1>12. CASE ~(domain[t] < Len(Domains(t)))
  <2>1. domain'[t] = 1 BY <1>1, <1>12 DEF NextDomain, TypeOK
  <2>2. \A d \in Range(Domains(t)) : Dealt(t, d)'
    <3>1. domain[t] = Len(Domains(t)) BY <1>2, <1>3, <1>12
    <3>2. ASSUME NEW d \in Range(Domains(t)) PROVE Dealt(t, d)'
      <4>1. PICK i \in DOMAIN Domains(t) : Domains(t)[i] = d BY DEF Range
      <4>2. i \in 1 .. domain[t] BY <1>2, <3>1
      <4>3. Dealt(t, Domains(t)[i])' BY <1>10, <4>2
      <4>4. QED BY <1>5, <4>1, <4>3 DEF Dealt
    <3>3. QED BY <3>2
  <2>3. CASE left = <<>>
    <3>1. pc'[t] = "done" BY <1>1, <1>12, <2>3 DEF NextDomain, TypeOK, End
    <3>2. \A d \in Range(Domains(t)) : Covered(d)'
      <4>1. \A d : d \notin Range(undecided'[t]) BY <1>4, <2>3 DEF Range
      <4>2. QED BY <2>2, <4>1 DEF Dealt
    <3>3. QED BY <1>5, <1>9, <3>1, <3>2
          DEF TaskInv, Waiting, Under, Resolving, Asking, Writing, Setting, Told
  <2>4. CASE left # <<>>
    <3>1. pc'[t] = "bundle" BY <1>1, <1>12, <2>4 DEF NextDomain, TypeOK
    <3>2. \A d \in Range(undecided'[t]) : Fresh(t, d)' BY <1>4, <1>8
    <3>3. Asking(t)' BY <1>4, <1>5, <1>9, <2>1, <2>2, <2>4, <3>1, <3>2 DEF Asking
    <3>4. QED BY <1>5, <1>9, <3>1, <3>3
          DEF TaskInv, Waiting, Under, Resolving, Writing, Setting, Told, Answered
  <2>5. QED BY <2>3, <2>4
<1>13. QED BY <1>11, <1>12

LEMMA ReadDomainActs == ASSUME IInv, NEW t \in Tasks, ReadDomain(t) PROVE TaskInv(t)'
<1> DEFINE d == Domains(t)[domain[t]]
<1> DEFINE c == Candidates[d][candidate[t]]
<1>1. TypeOK /\ TaskInv(t) /\ SteadyInv /\ GrantedSlots BY DEF IInv, StoreInv
<1>2. pc[t] = "resolve" /\ UNCHANGED <<asks, store, history>> BY DEF ReadDomain
<1>3. domain[t] \in DOMAIN Domains(t) /\ candidate[t] \in DOMAIN Candidates[d]
  BY <1>1, <1>2 DEF TypeOK
<1>4. d \in Patterns /\ Candidates[d] \in Seq(Patterns) BY <1>1, <1>3, Shape
<1>5. candidate[t] \in Nat \ {0} /\ undecided[t] \in Seq(Patterns) BY <1>1 DEF TypeOK
<1>6. Candidates[d] # <<>> BY <1>3, <1>4
<1>7. {c} \in Slots /\ c \in Range(Candidates[d]) BY <1>3, <1>4, <1>6, Named
<1>8. \A e \in Range(undecided[t]) : Fresh(t, e) BY <1>1, <1>2 DEF TaskInv, Resolving
<1>9. Domains(t)' = Domains(t) /\ UNCHANGED <<steady, named, refused>>
  BY <1>2 DEF Domains, history
<1>10. store[{c}] = "none" => \A i \in 1 .. candidate[t] : {Candidates[d][i]} \notin steady[t]
  <2>1. \A i \in 1 .. candidate[t] - 1 : {Candidates[d][i]} \notin steady[t]
    <3>1. Resolving(t) BY <1>1 DEF TaskInv
    <3>2. QED BY <1>2, <3>1 DEF Resolving
  <2>2. store[{c}] = "none" => {c} \notin steady[t] BY <1>1, <1>7 DEF SteadyInv
  <2>3. ASSUME store[{c}] = "none", NEW i \in 1 .. candidate[t]
        PROVE  {Candidates[d][i]} \notin steady[t]
    <3>1. CASE i = candidate[t] BY <2>2, <2>3, <3>1
    <3>2. CASE i # candidate[t]
      <4>1. i \in 1 .. candidate[t] - 1 BY <1>5, <3>2
      <4>2. QED BY <2>1, <4>1
    <3>3. QED BY <3>1, <3>2
  <2>4. QED BY <2>3
<1>11. ASSUME store[{c}] = "granted", NextDomain(t, undecided[t]) PROVE TaskInv(t)'
  <2>1. c \in named BY <1>1, <1>7, <1>11 DEF GrantedSlots
  <2>2. Covered(d) BY <1>7, <2>1 DEF Covered
  <2>3. QED BY <1>2, <1>5, <1>8, <1>11, <2>2, NextDomainActs
<1>12. ASSUME store[{c}] = "denied", End(t, "denied"), UNCHANGED <<domain, candidate, undecided>>
       PROVE  TaskInv(t)'
  <2>1. pc'[t] = "done" /\ answer'[t] = "denied" BY <1>1, <1>12 DEF End, TypeOK
  <2>2. QED BY <2>1
        DEF TaskInv, Waiting, Under, Resolving, Asking, Writing, Setting, Told, Answered
<1>13. ASSUME store[{c}] = "none", candidate' = [candidate EXCEPT ![t] = @ + 1],
              UNCHANGED <<pc, domain, undecided, answer>>
       PROVE  TaskInv(t)'
  <2>1. candidate'[t] = candidate[t] + 1 BY <1>1, <1>13 DEF TypeOK
  <2>2. \A i \in 1 .. candidate'[t] - 1 : {Candidates[d][i]} \notin steady[t]
    <3>1. candidate'[t] - 1 = candidate[t] BY <1>5, <2>1
    <3>2. QED BY <1>10, <1>13, <3>1
  <2>3. \A e : Dealt(t, e)' = Dealt(t, e) BY <1>9, <1>13 DEF Dealt, Covered
  <2>4. \A e : Fresh(t, e)' = Fresh(t, e) BY <1>9 DEF Fresh
  <2>5. asks[t].kind \in {"check", "peek"}
        /\ \A i \in 1 .. domain[t] - 1 : Dealt(t, Domains(t)[i])'
    <3>1. Resolving(t) BY <1>1 DEF TaskInv
    <3>2. asks[t].kind \in {"check", "peek"}
          /\ \A i \in 1 .. domain[t] - 1 : Dealt(t, Domains(t)[i])
      BY <1>2, <3>1 DEF Resolving
    <3>3. ASSUME NEW e, Dealt(t, e) PROVE Dealt(t, e)' BY <2>3, <3>3
    <3>4. QED BY <1>9, <1>13, <3>2, <3>3 DEF Dealt
  <2>6. Resolving(t)' BY <1>2, <1>8, <1>9, <1>13, <2>2, <2>4, <2>5 DEF Resolving
  <2>7. Under(t)' BY <1>1, <1>9, <1>13 DEF TaskInv, Under
  <2>8. QED BY <1>2, <1>13, <2>6, <2>7
        DEF TaskInv, Waiting, Asking, Writing, Setting, Told, Answered
<1>14. ASSUME store[{c}] = "none", candidate[t] = Len(Candidates[d]),
              NextDomain(t, Append(undecided[t], d))
       PROVE  TaskInv(t)'
  <2>1. \A i \in DOMAIN Candidates[d] : {Candidates[d][i]} \notin steady[t]
    <3>1. DOMAIN Candidates[d] = 1 .. candidate[t] BY <1>4, <1>14
    <3>2. QED BY <1>10, <1>14, <3>1
  <2>2. Fresh(t, d) BY <2>1 DEF Fresh, Range
  <2>3. Append(undecided[t], d) \in Seq(Patterns)
        /\ Range(Append(undecided[t], d)) = Range(undecided[t]) \cup {d}
    BY <1>4, <1>5, AppendRange
  <2>4. \A e \in Range(Append(undecided[t], d)) : Fresh(t, e) BY <1>8, <2>2, <2>3
  <2>5. QED BY <1>2, <1>14, <2>3, <2>4, NextDomainActs
<1>15. QED BY <1>11, <1>12, <1>13, <1>14 DEF ReadDomain

\* Who has ended, and was not told "granted" by this step, has nothing to
\* answer for.
LEMMA Ended ==
  ASSUME NEW t \in Tasks, pc'[t] = "done",
         answer'[t] # "granted" \/ asks'[t].kind = "set"
         \/ (Domains(t)' # <<>> /\ \A d \in Range(Domains(t)') : Covered(d)')
  PROVE  TaskInv(t)'
BY DEF TaskInv, Waiting, Under, Resolving, Asking, Writing, Setting, Told, Answered

LEMMA ReadBundleActs == ASSUME IInv, NEW t \in Tasks, ReadBundle(t) PROVE TaskInv(t)'
<1> DEFINE set == Range(undecided[t])
<1>1. TypeOK /\ TaskInv(t) /\ SteadyInv /\ GrantedSlots BY DEF IInv, StoreInv
<1>2. pc[t] = "bundle" /\ UNCHANGED <<asks, store, domain, candidate, undecided, history>>
  BY DEF ReadBundle
<1>3. Asking(t) /\ Under(t) BY <1>1 DEF TaskInv
<1>4. undecided[t] \in Seq(Patterns) /\ undecided[t] # <<>> BY <1>1, <1>2, <1>3 DEF TypeOK, Asking
<1>5. set \in Slots /\ \A i \in DOMAIN undecided[t] : {undecided[t][i]} \in Slots BY <1>4, Named
<1>6. Domains(t)' = Domains(t) /\ UNCHANGED <<steady, named, refused>>
  BY <1>2 DEF Domains, history
<1>7. Domains(t) # <<>> /\ asks[t].kind # "set" BY <1>2, <1>3 DEF Under, Asking
<1>8. \A d : Dealt(t, d)' = Dealt(t, d) BY <1>2, <1>6 DEF Dealt, Covered
<1>9. \A d \in Range(Domains(t)) : Dealt(t, d) BY <1>2, <1>3 DEF Asking
<1>10. ASSUME End(t, store[set]) PROVE TaskInv(t)'
  <2>1. pc'[t] = "done" /\ answer'[t] = store[set] BY <1>1, <1>10 DEF End, TypeOK
  <2>2. CASE store[set] = "granted"
    <3>1. set \subseteq named BY <1>1, <1>5, <2>2 DEF GrantedSlots
    <3>2. ASSUME NEW d \in Range(Domains(t)), d \in set PROVE Covered(d)
      <4>1. d \in named BY <3>1, <3>2
      <4>2. d \in Patterns BY <1>5, <3>2 DEF Slots
      <4>3. d \in Range(Candidates[d]) BY <4>2, CandidateAssumption
      <4>4. QED BY <4>1, <4>3 DEF Covered
    <3>3. \A d \in Range(Domains(t)) : Covered(d) BY <1>9, <3>2 DEF Dealt
    <3>4. \A d : Covered(d)' = Covered(d) BY <1>6 DEF Covered
    <3>5. QED BY <1>6, <1>7, <2>1, <3>3, <3>4, Ended
  <2>3. CASE store[set] # "granted" BY <2>1, <2>3, Ended
  <2>4. QED BY <2>2, <2>3
<1>11. ASSUME store[set] = "none", pc' = [pc EXCEPT ![t] = "prompting"], UNCHANGED answer
       PROVE  TaskInv(t)'
  <2>1. pc'[t] = "prompting" BY <1>1, <1>11 DEF TypeOK
  <2>2. set \notin steady[t] BY <1>1, <1>5, <1>11 DEF SteadyInv
  <2>3. \A d \in set : Fresh(t, d)
    <3>1. CASE asks[t].kind # "plain" BY <1>2, <1>3, <3>1 DEF Asking
    <3>2. CASE asks[t].kind = "plain"
      <4>1. undecided[t] = Domains(t) BY <1>2, <1>3, <3>2 DEF Asking
      <4>2. PICK d \in Patterns : Domains(t) = <<d>> /\ Candidates[d] = <<d>>
        BY <1>1, <3>2, PlainAssumption DEF TypeOK, Domains
      <4>3. Range(<<d>>) = {d} BY DEF Range
      <4>4. {d} \notin steady[t] BY <2>2, <4>1, <4>2, <4>3
      <4>5. Fresh(t, d) BY <4>2, <4>3, <4>4 DEF Fresh
      <4>6. QED BY <4>1, <4>2, <4>3, <4>5
    <3>3. QED BY <3>1, <3>2
  <2>4. \A d : Fresh(t, d)' = Fresh(t, d) BY <1>6 DEF Fresh
  <2>5. domain'[t] = 1 /\ (asks[t].kind = "plain" => undecided[t] = Domains(t))
    BY <1>2, <1>3 DEF Asking
  <2>6. Asking(t)' BY <1>2, <1>4, <1>6, <1>7, <1>8, <1>9, <2>1, <2>2, <2>3, <2>4, <2>5 DEF Asking
  <2>7. QED BY <1>6, <1>7, <2>1, <2>6
        DEF TaskInv, Waiting, Under, Resolving, Writing, Setting, Told, Answered
<1>12. QED BY <1>10, <1>11 DEF ReadBundle, Decided

LEMMA PromptedActs == ASSUME IInv, NEW t \in Tasks, Prompted(t) PROVE TaskInv(t)'
<1>1. TypeOK /\ TaskInv(t) BY DEF IInv
<1>2. pc[t] = "prompting" /\ UNCHANGED <<asks, store, domain, candidate, undecided, steady, seen>>
  BY DEF Prompted
<1>3. Asking(t) /\ Under(t) BY <1>1 DEF TaskInv
<1>4. /\ undecided[t] # <<>> /\ undecided[t] \in Seq(Patterns) /\ domain[t] = 1
      /\ asks[t].kind # "set" /\ Domains(t) # <<>>
      /\ \A d \in Range(Domains(t)) : Dealt(t, d)
  BY <1>1, <1>2, <1>3 DEF Asking, Under, TypeOK
<1>5. domain[t] \in 1 .. Len(undecided[t]) BY <1>4
<1>6. Grows BY <1>1, OneTask DEF StepOf
<1>7. Domains(t)' = Domains(t) BY <1>2 DEF Domains
<1>8. \A d \in Range(Domains(t)) : Dealt(t, d)' BY <1>2, <1>4, <1>6 DEF Dealt, Covered, Grows
<1>9. CASE End(t, "none")
  <2>1. pc'[t] = "done" /\ answer'[t] = "none" BY <1>1, <1>9 DEF End, TypeOK
  <2>2. QED BY <2>1, Ended
<1>10. CASE pc' = [pc EXCEPT ![t] = "write"] /\ ~End(t, "none")
  <2>1. pc'[t] = "write" BY <1>1, <1>10 DEF TypeOK
  <2>2. \/ answer'[t] = "granted" /\ Range(undecided[t]) \subseteq named'
        \/ answer'[t] = "denied" /\ Range(undecided[t]) \in refused'
    BY <1>1, <1>10 DEF Prompted, TypeOK
  <2>3. Writing(t)' BY <1>2, <1>5, <1>7, <1>8, <2>1, <2>2 DEF Writing
  <2>4. QED BY <1>2, <1>4, <1>7, <2>1, <2>3
        DEF TaskInv, Waiting, Under, Resolving, Asking, Setting, Told, Answered
<1>11. QED BY <1>9, <1>10 DEF Prompted

LEMMA PersistActs == ASSUME IInv, NEW t \in Tasks, Persist(t) PROVE TaskInv(t)'
<1>1. TypeOK /\ TaskInv(t) BY DEF IInv
<1>2. /\ pc[t] = "write" /\ asks[t].kind # "set"
      /\ UNCHANGED <<asks, candidate, undecided, named, refused>>
  BY DEF Persist
<1>3. Writing(t) /\ Under(t) BY <1>1 DEF TaskInv
<1>4. /\ domain[t] \in 1 .. Len(undecided[t]) /\ undecided[t] \in Seq(Patterns)
      /\ Domains(t) # <<>> /\ \A d \in Range(Domains(t)) : Dealt(t, d)
      /\ \/ answer[t] = "granted" /\ Range(undecided[t]) \subseteq named
         \/ answer[t] = "denied" /\ Range(undecided[t]) \in refused
  BY <1>1, <1>2, <1>3 DEF Writing, Under, TypeOK
<1>5. Domains(t)' = Domains(t) BY <1>2 DEF Domains
<1>6. \A d : Dealt(t, d)' = Dealt(t, d) /\ Covered(d)' = Covered(d) BY <1>2 DEF Dealt, Covered
<1>7. answer' = answer BY DEF Persist, WriteNext
<1>8. CASE pc' = [pc EXCEPT ![t] = "done"]
  <2>1. pc'[t] = "done" BY <1>1, <1>8 DEF TypeOK
  <2>2. answer'[t] = "granted" => \A d \in Range(Domains(t)) : Covered(d)
    <3>1. SUFFICES ASSUME answer[t] = "granted", NEW d \in Range(Domains(t)) PROVE Covered(d)
      BY <1>7
    <3>2. CASE d \in Range(undecided[t])
      <4>1. d \in named BY <1>4, <3>1, <3>2
      <4>2. d \in Patterns BY <1>1, <4>1 DEF TypeOK
      <4>3. QED BY <4>1, <4>2, CandidateAssumption DEF Covered
    <3>3. QED BY <1>4, <3>2 DEF Dealt
  <2>3. QED BY <1>4, <1>5, <1>6, <2>1, <2>2, Ended
<1>9. CASE pc' = pc /\ domain[t] < Len(undecided[t]) /\ domain' = [domain EXCEPT ![t] = @ + 1]
  <2>1. domain'[t] = domain[t] + 1 BY <1>1, <1>9 DEF TypeOK
  <2>2. domain'[t] \in 1 .. Len(undecided[t]) BY <1>4, <1>9, <2>1
  <2>3. Writing(t)' BY <1>2, <1>4, <1>5, <1>6, <1>7, <2>2 DEF Writing
  <2>4. QED BY <1>2, <1>4, <1>5, <1>9, <2>3
        DEF TaskInv, Waiting, Under, Resolving, Asking, Setting, Told, Answered
<1>10. QED
  <2>1. CASE answer[t] = "granted" BY <1>8, <1>9, <2>1 DEF Persist, WriteNext
  <2>2. CASE answer[t] # "granted"
    <3>1. domain[t] \in Nat BY <1>1 DEF TypeOK
    <3>2. WriteNext(t, domain[t]) BY <2>2 DEF Persist
    <3>3. pc' = [pc EXCEPT ![t] = "done"] BY <3>1, <3>2 DEF WriteNext
    <3>4. QED BY <1>8, <3>3
  <2>3. QED BY <2>1, <2>2

LEMMA SetStatusActs == ASSUME IInv, NEW t \in Tasks, SetStatus(t) PROVE TaskInv(t)'
<1> DEFINE n == Len(Domains(t))
<1>1. TypeOK /\ TaskInv(t) BY DEF IInv
<1>2. pc[t] = "write" /\ asks[t].kind = "set" /\ UNCHANGED <<asks, candidate, undecided>>
  BY DEF SetStatus
<1>3. Domains(t)' = Domains(t) BY <1>2 DEF Domains
<1>4. Domains(t) # <<>> /\ n \in Nat BY <1>1, <1>2, Shape DEF TaskInv, Under
<1>5. domain[t] \in Nat \ {0} BY <1>1 DEF TypeOK
<1>6. WriteNext(t, IF n > 1 THEN n + 1 ELSE n) BY DEF SetStatus
<1>7. CASE pc' = [pc EXCEPT ![t] = "done"]
  <2>1. pc'[t] = "done" BY <1>1, <1>7 DEF TypeOK
  <2>2. QED BY <1>2, <2>1, Ended
<1>8. CASE pc' = pc /\ domain[t] <= n /\ domain' = [domain EXCEPT ![t] = @ + 1]
  <2>1. domain'[t] = domain[t] + 1 BY <1>1, <1>8 DEF TypeOK
  <2>2. domain'[t] \in 1 .. n + 1 BY <1>4, <1>5, <1>8, <2>1
  <2>3. Setting(t)' BY <1>3, <2>2 DEF Setting
  <2>4. QED BY <1>2, <1>3, <1>4, <1>8, <2>3
        DEF TaskInv, Waiting, Under, Resolving, Asking, Writing, Told, Answered
<1>9. QED
  <2>1. CASE domain[t] < (IF n > 1 THEN n + 1 ELSE n)
    <3>1. domain[t] <= n BY <1>4, <1>5, <2>1
    <3>2. QED BY <1>6, <1>8, <2>1, <3>1 DEF WriteNext
  <2>2. CASE ~(domain[t] < (IF n > 1 THEN n + 1 ELSE n)) BY <1>6, <1>7, <2>2 DEF WriteNext
  <2>3. QED BY <2>1, <2>2

LEMMA FailActs == ASSUME IInv, NEW t \in Tasks, Fail(t) PROVE TaskInv(t)'
<1>1. pc'[t] = "done" /\ answer'[t] = "failed" BY DEF IInv, TypeOK, Fail, End
<1>2. QED BY <1>1, Ended

-----------------------------------------------------------------------------
(* The invariant, and what it says.                                        *)

LEMMA SteadyNext == ASSUME IInv, NEW t \in Tasks, StepOf(t) PROVE SteadyInv'
<1>1. TypeOK /\ SteadyInv BY DEF IInv
<1>2. CASE Begin(t)
  <2>1. store' = store /\ steady' = [steady EXCEPT ![t] = Decided] BY <1>2 DEF Begin
  <2>2. QED BY <1>1, <2>1 DEF SteadyInv, Decided, TypeOK
<1>3. CASE Persist(t)
  <2>1. pc[t] = "write" /\ asks[t].kind # "set" BY <1>3 DEF Persist
  <2>2. CASE answer[t] = "granted"
    BY <1>1, <1>3, <2>1, <2>2, Writes, StoreSteady DEF Persist, Statuses
  <2>3. CASE answer[t] # "granted"
    BY <1>1, <1>3, <2>1, <2>3, Writes, StoreSteady DEF Persist, Statuses
  <2>4. QED BY <2>2, <2>3
<1>4. CASE SetStatus(t)
  <2>1. pc[t] = "write" /\ asks[t].kind = "set" BY <1>4 DEF SetStatus
  <2>2. PICK slot \in Slots : Store(slot, asks[t].status) BY <1>4, <2>1, Writes DEF SetStatus
  <2>3. asks[t].status \in Statuses BY <2>1, Writes
  <2>4. QED BY <1>1, <2>2, <2>3, StoreSteady
<1>5. CASE ReadDomain(t) \/ ReadBundle(t) \/ Prompted(t) \/ Fail(t)
  <2>1. UNCHANGED <<store, steady>> BY <1>5 DEF ReadDomain, ReadBundle, Prompted, Fail, history
  <2>2. QED BY <1>1, <2>1 DEF SteadyInv
<1>6. QED BY <1>2, <1>3, <1>4, <1>5 DEF StepOf

LEMMA StoreNext == ASSUME IInv, NEW t \in Tasks, StepOf(t) PROVE StoreInv'
<1>1. TypeOK /\ StoreInv BY DEF IInv
<1>2. Grows BY <1>1, OneTask
<1>3. CASE Persist(t)
  <2>1. pc[t] = "write" /\ asks[t].kind # "set" BY <1>3 DEF Persist
  <2>2. CASE answer[t] = "granted"
    <3>1. Store({undecided[t][domain[t]]}, "granted") BY <1>3, <2>2 DEF Persist
    <3>2. {undecided[t][domain[t]]} \in Slots /\ {undecided[t][domain[t]]} \subseteq named
      BY <2>1, <2>2, Writes
    <3>3. {undecided[t][domain[t]]} \subseteq named' BY <1>2, <3>2 DEF Grows
    <3>4. QED BY <1>1, <1>2, <3>1, <3>2, <3>3, StoreSafe DEF Statuses
  <2>3. CASE answer[t] # "granted"
    <3>1. Store(Range(undecided[t]), "denied") BY <1>3, <2>3 DEF Persist
    <3>2. Range(undecided[t]) \in Slots /\ Range(undecided[t]) \in refused
      BY <2>1, <2>3, Writes
    <3>3. Range(undecided[t]) \in refused' BY <1>2, <3>2 DEF Grows
    <3>4. QED BY <1>1, <1>2, <3>1, <3>2, <3>3, StoreSafe DEF Statuses
  <2>4. QED BY <2>2, <2>3
<1>4. CASE SetStatus(t)
  <2>1. pc[t] = "write" /\ asks[t].kind = "set" BY <1>4 DEF SetStatus
  <2>2. /\ Range(Domains(t)) \in Slots /\ asks[t].status \in Statuses
        /\ domain[t] <= Len(Domains(t)) =>
             /\ {Domains(t)[domain[t]]} \in Slots
             /\ {Domains(t)[domain[t]]} \subseteq Range(Domains(t))
    BY <2>1, Writes
  <2>3. PICK slot \in Slots :
          /\ Store(slot, asks[t].status) /\ slot \subseteq Range(Domains(t))
          /\ refused' = IF asks[t].status = "denied" THEN refused \cup {slot} ELSE refused
    BY <1>4, <2>2 DEF SetStatus
  <2>4. asks[t].status = "granted" => slot \subseteq named'
    BY <1>4, <2>3 DEF SetStatus
  <2>5. asks[t].status = "denied" => slot \in refused' BY <2>3
  <2>6. QED BY <1>1, <1>2, <2>2, <2>3, <2>4, <2>5, StoreSafe
<1>5. CASE Begin(t) \/ ReadDomain(t) \/ ReadBundle(t) \/ Prompted(t) \/ Fail(t)
  <2>1. store' = store BY <1>5 DEF Begin, ReadDomain, ReadBundle, Prompted, Fail
  <2>2. QED BY <1>1, <1>2, <2>1 DEF StoreInv, GrantedSlots, DenialStaysNarrow, Grows
<1>6. QED BY <1>3, <1>4, <1>5 DEF StepOf

LEMMA TasksNext == ASSUME IInv, NEW t \in Tasks, StepOf(t), NEW u \in Tasks PROVE TaskInv(u)'
<1>1. CASE u = t
  BY <1>1, BeginActs, ReadDomainActs, ReadBundleActs, PromptedActs, PersistActs, SetStatusActs,
     FailActs DEF StepOf
<1>2. CASE u # t
  <2>1. Grows /\ Still(u) BY <1>2, OneTask DEF IInv
  <2>2. QED BY <2>1, Others DEF IInv
<1>3. QED BY <1>1, <1>2

LEMMA InvNext == IInv /\ [Next]_vars => IInv'
<1>1. SUFFICES ASSUME IInv, [Next]_vars PROVE IInv' OBVIOUS
<1>2. CASE Next
  <2>1. PICK t \in Tasks : StepOf(t) BY <1>2 DEF Next, StepOf
  <2>2. QED BY <1>1, <2>1, TypeNext, SteadyNext, StoreNext, TasksNext DEF IInv
<1>3. CASE UNCHANGED vars
  <2>1. UNCHANGED <<asks, store, pc, domain, candidate, undecided, answer, steady, seen, named, refused>>
    BY <1>3 DEF vars, history
  <2>2. TypeOK' BY <1>1, <2>1 DEF IInv, TypeOK, Domains
  <2>3. SteadyInv' /\ StoreInv'
    BY <1>1, <2>1 DEF IInv, SteadyInv, StoreInv, GrantedSlots, DenialStaysNarrow
  <2>4. ASSUME NEW u \in Tasks PROVE TaskInv(u)'
    BY <1>1, <2>1, Others DEF IInv, Grows, Still
  <2>5. QED BY <2>2, <2>3, <2>4 DEF IInv
<1>4. QED BY <1>1, <1>2, <1>3

(* The invariant holds of every run of the requests and the host's own     *)
(* writes, however their reads and writes of the slots interleave          *)
(* (permissions.rs, check_or_prompt_remote and set_authorization_status).  *)
THEOREM Safety == Spec => []IInv
BY InitSafe, InvNext, PTL DEF Spec

\* The variables keep their types (permissions.rs).
THEOREM TypeCorrect == Spec => []TypeOK
<1>1. IInv => TypeOK BY DEF IInv
<1>2. QED BY <1>1, Safety, PTL

(* A slot says granted only of what the user or the host granted, denied   *)
(* only of the very set that was refused, and a product is told "granted"  *)
(* only of domains that are covered by such grants                         *)
(* (check_or_prompt_remote, remote_domain_candidates).                     *)
THEOREM DecisionsAreTheUsersHolds == Spec => []DecisionsAreTheUsers
<1>1. IInv => DecisionsAreTheUsers
  <2>1. SUFFICES ASSUME IInv PROVE GrantsAreTheUsers /\ DenialStaysNarrow
    BY DEF DecisionsAreTheUsers
  <2>2. GrantedSlots /\ DenialStaysNarrow BY <2>1 DEF IInv, StoreInv
  <2>3. \A t \in Tasks : Told(t) BY <2>1 DEF IInv, TaskInv
  <2>4. QED BY <2>2, <2>3 DEF GrantsAreTheUsers, GrantedSlots, Told, Covered
<1>2. QED BY <1>1, Safety, PTL

(* No request asks the user about what has been decided since before it    *)
(* began, though others write between any two of its reads                 *)
(* (stored_domain_status, resolve_domains, check_or_prompt_remote).        *)
THEOREM PromptsOnceHolds == Spec => []PromptsOnce
<1>1. IInv => PromptsOnce
  <2>1. SUFFICES ASSUME IInv, NEW t \in Tasks, pc[t] = "prompting"
                 PROVE  /\ Range(undecided[t]) \notin steady[t]
                        /\ \A d \in Range(undecided[t]), c \in Patterns :
                             c \in Range(Candidates[d]) => {c} \notin steady[t]
    BY DEF PromptsOnce
  <2>2. Asking(t) BY <2>1 DEF IInv, TaskInv
  <2>3. QED BY <2>1, <2>2 DEF Asking, Fresh
<1>2. QED BY <1>1, Safety, PTL

=============================================================================
