------------------------------- MODULE PermissionSlots -------------------------------
(***************************************************************************)
(* host_logic/permissions.rs: what a user and a host decided about a       *)
(* product's permissions, in slots of core storage, and the requests that  *)
(* read the slots, ask the user and write his answer, each of them with an *)
(* await at every slot.                                                    *)
(*                                                                         *)
(* A slot is named by the set of domain patterns it answers for: one       *)
(* pattern, or a bundle that was refused as a whole.  A permission that is *)
(* no domain grant is a pattern of its own that no other covers.           *)
(***************************************************************************)
EXTENDS Naturals, Sequences, FiniteSets, Functions

CONSTANTS Tasks, Patterns,
          Candidates,  \* remote_domain_candidates: the patterns that cover one, itself first
          After,       \* the tasks whose caller waits for others first
          Casts        \* bound: what the tasks may be

Slots    == (SUBSET Patterns) \ {{}}
Statuses == {"none", "granted", "denied"}   \* NotDetermined, Authorized, Denied
Plays    == [kind : {"check", "plain", "peek", "set"}, domains : Seq(Patterns),
             status : Statuses]

ASSUME CandidateAssumption ==
  Candidates \in [Patterns -> Seq(Patterns)] /\ \A d \in Patterns : d \in Range(Candidates[d])
ASSUME AfterAssumption == After \in [Tasks -> SUBSET Tasks]
ASSUME CastAssumption == Casts \subseteq [Tasks -> Plays]
\* What is no domain grant has one slot, its own.
ASSUME PlainAssumption ==
  \A cast \in Casts, t \in Tasks : cast[t].kind = "plain" =>
    \E d \in Patterns : cast[t].domains = <<d>> /\ Candidates[d] = <<d>>

VARIABLES
  asks,       \* what each task is: a product's request, a look, a decision of the host
  store,      \* core storage, a status for every slot
  pc,         \* idle, resolve, bundle, prompting, write or done
  domain,     \* the position in the task's domains
  candidate,  \* the position in the domain's candidates
  undecided,  \* the domains a prompt has to be about
  answer,     \* what the task was answered, or the user's answer while it is written
  steady,     \* history: the slots that have been decided since the task began
  seen,       \* history: the slots that have said granted since the task began
  named,      \* history: the patterns a grant of the user or the host named
  refused     \* history: the slots the user or the host refused
history == <<steady, seen, named, refused>>
vars == <<asks, store, pc, domain, candidate, undecided, answer, history>>

Init ==
  /\ asks \in Casts
  /\ store = [s \in Slots |-> "none"]
  /\ pc = [t \in Tasks |-> "idle"]
  /\ domain = [t \in Tasks |-> 1] /\ candidate = [t \in Tasks |-> 1]
  /\ undecided = [t \in Tasks |-> <<>>]
  /\ answer = [t \in Tasks |-> "open"]
  /\ steady = [t \in Tasks |-> {}] /\ seen = [t \in Tasks |-> {}] /\ named = {} /\ refused = {}

Decided == {s \in Slots : store[s] # "none"}

Domains(t) == asks[t].domains

End(t, how) == pc' = [pc EXCEPT ![t] = "done"] /\ answer' = [answer EXCEPT ![t] = how]

\* One slot is written, or cleared; nobody's slot is steady then but those
\* that stay decided.
Store(slot, status) ==
  /\ store' = [store EXCEPT ![slot] = status]
  /\ steady' = [t \in Tasks |-> IF status = "none" THEN steady[t] \ {slot} ELSE steady[t]]
  /\ seen' = [t \in Tasks |-> IF status = "granted" /\ pc[t] # "idle"
                               THEN seen[t] \cup {slot} ELSE seen[t]]

-----------------------------------------------------------------------------
(* Operators whose name begins with Mis are no part of the model.  Each is *)
(* a plausible mistake in the operator it precedes; PROJECT.json says      *)
(* which property has to notice it.                                        *)

\* check_or_prompt_remote, check_or_prompt_device, peek_remote and
\* set_authorization_status, to their first await
Begin(t) ==
  /\ pc[t] = "idle" /\ \A u \in After[t] : pc[u] = "done"
  /\ steady' = [steady EXCEPT ![t] = Decided]
  /\ seen' = [seen EXCEPT ![t] = {s \in Slots : store[s] = "granted"}]
  /\ IF Domains(t) = <<>>
     THEN /\ End(t, IF asks[t].kind = "set" THEN answer[t] ELSE "denied")
          /\ UNCHANGED undecided
     ELSE /\ pc' = [pc EXCEPT ![t] = CASE asks[t].kind = "set"   -> "write"
                                       [] asks[t].kind = "plain" -> "bundle"
                                       [] OTHER                  -> "resolve"]
          /\ undecided' = [undecided EXCEPT ![t] =
                             IF asks[t].kind = "plain" THEN Domains(t) ELSE <<>>]
          /\ UNCHANGED answer
  /\ UNCHANGED <<asks, store, domain, candidate, named, refused>>

\* resolve_domains goes on to the next domain, having noted this one or not;
\* after the last, what is undecided is what matters.
NextDomain(t, left) ==
  /\ undecided' = [undecided EXCEPT ![t] = left]
  /\ candidate' = [candidate EXCEPT ![t] = 1]
  /\ IF domain[t] < Len(Domains(t))
     THEN domain' = [domain EXCEPT ![t] = @ + 1] /\ UNCHANGED <<pc, answer>>
     ELSE /\ domain' = [domain EXCEPT ![t] = 1]
          /\ IF left = <<>> THEN End(t, "granted")
             ELSE pc' = [pc EXCEPT ![t] = "bundle"] /\ UNCHANGED answer

MisReadDomain(t) ==  \* one granted domain grants the bundle
  /\ pc[t] = "resolve"
  /\ LET d == Domains(t)[domain[t]]
         status == store[{Candidates[d][candidate[t]]}] IN
     \/ /\ status \in {"granted", "denied"} /\ End(t, status)
        /\ UNCHANGED <<domain, candidate, undecided>>
     \/ /\ status = "none" /\ candidate[t] < Len(Candidates[d])
        /\ candidate' = [candidate EXCEPT ![t] = @ + 1]
        /\ UNCHANGED <<pc, domain, undecided, answer>>
     \/ /\ status = "none" /\ candidate[t] = Len(Candidates[d])
        /\ NextDomain(t, Append(undecided[t], d))
  /\ UNCHANGED <<asks, store, history>>

\* stored_domain_status: the first candidate with a decision decides; and
\* resolve_domains: one denial denies the bundle.
ReadDomain(t) ==
  /\ pc[t] = "resolve"
  /\ LET d == Domains(t)[domain[t]]
         status == store[{Candidates[d][candidate[t]]}] IN
     \/ status = "granted" /\ NextDomain(t, undecided[t])
     \/ status = "denied" /\ End(t, "denied") /\ UNCHANGED <<domain, candidate, undecided>>
     \/ /\ status = "none" /\ candidate[t] < Len(Candidates[d])
        /\ candidate' = [candidate EXCEPT ![t] = @ + 1]
        /\ UNCHANGED <<pc, domain, undecided, answer>>
     \/ /\ status = "none" /\ candidate[t] = Len(Candidates[d])
        /\ NextDomain(t, Append(undecided[t], d))
  /\ UNCHANGED <<asks, store, history>>

MisReadBundle(t) ==  \* what was refused as a set is asked again
  /\ pc[t] = "bundle"
  /\ IF asks[t].kind = "peek" THEN End(t, store[Range(undecided[t])])
     ELSE pc' = [pc EXCEPT ![t] = "prompting"] /\ UNCHANGED answer
  /\ UNCHANGED <<asks, store, domain, candidate, undecided, history>>

\* The slot of the set that is left: its answer stands, or the user is asked.
ReadBundle(t) ==
  /\ pc[t] = "bundle"
  /\ LET status == store[Range(undecided[t])] IN
     IF status # "none" \/ asks[t].kind = "peek" THEN End(t, status)
     ELSE pc' = [pc EXCEPT ![t] = "prompting"] /\ UNCHANGED answer
  /\ UNCHANGED <<asks, store, domain, candidate, undecided, history>>

\* The user decides, or the prompt fails and decides nothing.
Prompted(t) ==
  /\ pc[t] = "prompting"
  /\ \/ /\ pc' = [pc EXCEPT ![t] = "write"]
        /\ \/ /\ answer' = [answer EXCEPT ![t] = "granted"]
              /\ named' = named \cup Range(undecided[t])
              /\ UNCHANGED refused
           \/ /\ answer' = [answer EXCEPT ![t] = "denied"]
              /\ refused' = refused \cup {Range(undecided[t])}
              /\ UNCHANGED named
     \/ End(t, "none") /\ UNCHANGED <<named, refused>>
  /\ UNCHANGED <<asks, store, domain, candidate, undecided, steady, seen>>

WriteNext(t, last) ==
  IF domain[t] < last
  THEN domain' = [domain EXCEPT ![t] = @ + 1] /\ UNCHANGED <<pc, answer>>
  ELSE /\ pc' = [pc EXCEPT ![t] = "done"] /\ UNCHANGED <<domain, answer>>

MisPersist(t) ==  \* a denial fans out like a grant
  /\ pc[t] = "write" /\ asks[t].kind # "set"
  /\ Store({undecided[t][domain[t]]}, answer[t]) /\ WriteNext(t, Len(undecided[t]))
  /\ UNCHANGED <<asks, candidate, undecided, named, refused>>

\* The end of check_or_prompt_remote: a grant is written domain by domain, a
\* denial against the set that was asked about.
Persist(t) ==
  /\ pc[t] = "write" /\ asks[t].kind # "set"
  /\ IF answer[t] = "granted"
     THEN Store({undecided[t][domain[t]]}, "granted") /\ WriteNext(t, Len(undecided[t]))
     ELSE Store(Range(undecided[t]), "denied") /\ WriteNext(t, domain[t])
  /\ UNCHANGED <<asks, candidate, undecided, named, refused>>

\* set_authorization_status, the host's: every domain, and the set's slot if
\* there is more than one.
SetStatus(t) ==
  /\ pc[t] = "write" /\ asks[t].kind = "set"
  /\ LET n == Len(Domains(t))
         slot == IF domain[t] <= n THEN {Domains(t)[domain[t]]} ELSE Range(Domains(t)) IN
     /\ Store(slot, asks[t].status)
     /\ WriteNext(t, IF n > 1 THEN n + 1 ELSE n)
     /\ named' = IF asks[t].status = "granted" THEN named \cup Range(Domains(t)) ELSE named
     /\ refused' = IF asks[t].status = "denied" THEN refused \cup {slot} ELSE refused
  /\ UNCHANGED <<asks, candidate, undecided>>

\* Core storage fails, or the request is dropped with its connection, at any
\* await.
Fail(t) ==
  /\ pc[t] \in {"resolve", "bundle", "prompting", "write"}
  /\ End(t, "failed")
  /\ UNCHANGED <<asks, store, domain, candidate, undecided, history>>

Next == \E t \in Tasks :
  \/ Begin(t) \/ ReadDomain(t) \/ ReadBundle(t) \/ Prompted(t) \/ Persist(t) \/ SetStatus(t)
  \/ Fail(t)

Spec == Init /\ [][Next]_vars

-----------------------------------------------------------------------------
TypeOK ==
  /\ asks \in Casts
  /\ store \in [Slots -> Statuses]
  /\ pc \in [Tasks -> {"idle", "resolve", "bundle", "prompting", "write", "done"}]
  /\ domain \in [Tasks -> Nat \ {0}] /\ candidate \in [Tasks -> Nat \ {0}]
  /\ undecided \in [Tasks -> Seq(Patterns)]
  /\ answer \in [Tasks -> Statuses \cup {"open", "failed"}]
  /\ named \subseteq Patterns /\ refused \subseteq Slots
  /\ steady \in [Tasks -> SUBSET Slots] /\ seen \in [Tasks -> SUBSET Slots]
  /\ \A t \in Tasks : pc[t] = "resolve" =>
       /\ domain[t] \in DOMAIN Domains(t)
       /\ candidate[t] \in DOMAIN Candidates[Domains(t)[domain[t]]]

Answered(t, how) == pc[t] = "done" /\ answer[t] = how

\* What a product is told it may reach, and what a slot says it may, the user
\* or the host granted by name, or by a pattern that covers it
\* (check_or_prompt_remote, remote_domain_candidates).
GrantsAreTheUsers ==
  /\ \A s \in Slots : store[s] = "granted" => s \subseteq named
  /\ \A t \in Tasks : Answered(t, "granted") /\ asks[t].kind # "set" =>
       /\ Domains(t) # <<>>
       /\ \A d \in Range(Domains(t)) : Range(Candidates[d]) \cap named # {}

\* "No" to a set of domains is not "no" to each of them: a slot says denied
\* only if that very set was refused (the module's comment, and the end of
\* check_or_prompt_remote).
DenialStaysNarrow == \A s \in Slots : store[s] = "denied" => s \in refused

\* Neither word of the user's is stretched: a slot says only what he or the
\* host said of it, and a product is told only what the slots say.
DecisionsAreTheUsers == GrantsAreTheUsers /\ DenialStaysNarrow

\* The user is never asked again about what has been decided since before the
\* request began, though other requests and the host write between any two of
\* its reads: neither about a domain by itself or by a pattern that covers it,
\* nor about a set that was refused as a whole.
PromptsOnce ==
  \A t \in Tasks : pc[t] = "prompting" =>
    /\ Range(undecided[t]) \notin steady[t]
    /\ \A d \in Range(undecided[t]), c \in Patterns :
         c \in Range(Candidates[d]) => {c} \notin steady[t]

\* "A domain bundle is authorized only when every domain in it is"
\* (permissions.rs:136): whoever was told that a bundle is granted, for each
\* of its domains there was a grant at some moment since he asked.
BundleIsItsDomains ==
  \A t \in Tasks : Answered(t, "granted") /\ asks[t].kind # "set" =>
    \A d \in Range(Domains(t)) : \E c \in Range(Candidates[d]) : {c} \in seen[t]

=============================================================================
