-------------------------- MODULE SigningRequestsProofs --------------------------
(***************************************************************************)
(* Proofs about SigningRequests, for any set of requests, wallets and      *)
(* products, whatever the requests ask for, on one executor or several.    *)
(***************************************************************************)
EXTENDS SigningRequests, TLAPS

-----------------------------------------------------------------------------
(* What the operations have in common.                                     *)

(* The steps that ask the user.                                            *)
Asking == Permissions \cup {"confirm"}

(* A sequence of steps that takes one snapshot, at p, or none (p = 0), and *)
(* takes it before it grants, uploads or looks for a grant; that goes on   *)
(* after an upload but asks nothing any more; and that asks for everything *)
(* that is wanted before it takes effect.                                  *)
Effects == {"use", "grant", "upload", "deliver"}

Path(s, p, wanted, mayAutosign, mayGrant) ==
  /\ Len(s) \in Nat \ {0} /\ p \in 0 .. Len(s)
  /\ \A i \in 1 .. Len(s) :
       /\ s[i] = "session" <=> i = p
       /\ s[i] \in {"grant", "upload", "autosign"} => 0 < p /\ p < i
       /\ s[i] = "autosign" => mayAutosign
       /\ s[i] = "grant" => mayGrant
       /\ s[i] = "upload" => i < Len(s) /\ \A j \in i + 1 .. Len(s) : s[j] \notin Asking
       /\ s[i] \in Effects => \A w \in wanted : \E j \in 1 .. i - 1 : s[j] = w

StepsOf(k) == Operation[k].gate \o Operation[k].call

Orderly(k) == \E p \in Nat : Path(StepsOf(k), p, Wanted(k), k = "sign_vrf", k = "auto_signing")

(* Each of the operations is such a sequence.                              *)
LEMMA OperationsAreOrderly == \A k \in Kinds : Orderly(k)
<1> USE DEF Path, Asking, Permissions, Effects
<1>1. Path(SignPayload.gate \o SignPayload.call, 3, {"submit", "confirm"}, FALSE, FALSE)
  BY SMTT(30) DEF SignPayload, Sign
<1>2. Path(SignRaw.gate \o SignRaw.call, 3, {"submit", "confirm"}, FALSE, FALSE)
  BY SMTT(30) DEF SignRaw, SignBytes
<1>3. Path(CreateTransaction.gate \o CreateTransaction.call, 3, {"submit", "confirm"}, FALSE, FALSE)
  BY SMTT(30) DEF CreateTransaction, Build
<1>4. Path(SignPayloadLegacy.gate \o SignPayloadLegacy.call, 1, {"submit", "confirm"}, FALSE, FALSE)
  BY SMTT(30) DEF SignPayloadLegacy, Classify, Sign
<1>5. Path(SignRawLegacy.gate \o SignRawLegacy.call, 1, {"submit", "confirm"}, FALSE, FALSE)
  BY SMTT(30) DEF SignRawLegacy, Classify, SignBytes
<1>6. Path(CreateTransactionLegacy.gate \o CreateTransactionLegacy.call, 1,
           {"submit", "confirm"}, FALSE, FALSE)
  BY SMTT(30) DEF CreateTransactionLegacy, Build, Classify
<1>7. Path(GetAccount.gate \o GetAccount.call, 2, {}, FALSE, FALSE)
  BY SMTT(30) DEF GetAccount, Derive
<1>8. Path(GetOtherAccount.gate \o GetOtherAccount.call, 1, {"access"}, FALSE, FALSE)
  BY SMTT(30) DEF GetOtherAccount, Derive
<1>9. Path(GetAccountAlias.gate \o GetAccountAlias.call, 1, {"access"}, FALSE, FALSE)
  BY SMTT(30) DEF GetAccountAlias, Alias
<1>10. Path(CreateAccountProof.gate \o CreateAccountProof.call, 2, {}, FALSE, FALSE)
  BY SMTT(30) DEF CreateAccountProof, Prove
<1>11. Path(RegisterRingVrfKey.gate \o RegisterRingVrfKey.call, 1, {}, FALSE, FALSE)
  BY SMTT(30) DEF RegisterRingVrfKey, Register
<1>12. Path(ListRingVrfKeys.gate \o ListRingVrfKeys.call, 1, {}, FALSE, FALSE)
  BY SMTT(30) DEF ListRingVrfKeys, ListKeys
<1>13. Path(RingVrfSign.gate \o RingVrfSign.call, 1, {}, FALSE, FALSE)
  BY SMTT(30) DEF RingVrfSign, SignInRing
<1>14. Path(SignVrf.gate \o SignVrf.call, 2, {}, TRUE, FALSE)
  BY SMTT(30) DEF SignVrf, SignWithVrf
<1>15. Path(GetUserId.gate \o GetUserId.call, 1, {"identity"}, FALSE, FALSE)
  BY SMTT(30) DEF GetUserId
<1>16. Path(DeriveEntropy.gate \o DeriveEntropy.call, 1, {}, FALSE, FALSE)
  BY SMTT(30) DEF DeriveEntropy, Entropy
<1>17. Path(AllocateResource.gate \o AllocateResource.call, 1, {"confirm"}, FALSE, FALSE)
  BY SMTT(30) DEF AllocateResource, BulletinAllowance
<1>18. Path(AllocateAutoSigning.gate \o AllocateAutoSigning.call, 1, {"confirm"}, FALSE, TRUE)
  BY SMTT(30) DEF AllocateAutoSigning, Grant
<1>19. Path(SubmitPreimage.gate \o SubmitPreimage.call, 1, {"preimage", "confirm"}, FALSE, FALSE)
  BY SMTT(30) DEF SubmitPreimage, BulletinAllowance
<1>20. Path(BroadcastTransaction.gate \o BroadcastTransaction.call, 0, {"submit"}, FALSE, FALSE)
  BY SMTT(30) DEF BroadcastTransaction
<1>21. Path(NavigateTo.gate \o NavigateTo.call, 0, {"remote"}, FALSE, FALSE)
  BY SMTT(30) DEF NavigateTo
<1>22. Path(SubmitStatement.gate \o SubmitStatement.call, 0, {"statement"}, FALSE, FALSE)
  BY SMTT(30) DEF SubmitStatement
<1>23. Path(ProveStatement.gate \o ProveStatement.call, 2, {}, FALSE, FALSE)
  BY SMTT(30) DEF ProveStatement, Statement
<1>24. Path(ProveAuthorizedStatement.gate \o ProveAuthorizedStatement.call, 1, {}, FALSE, FALSE)
  BY SMTT(30) DEF ProveAuthorizedStatement, StatementAllowance
<1> USE DEF StepsOf, Orderly
<1> HIDE DEF Path, Asking, Permissions, Effects
<1>25. Orderly("sign_payload")
  BY <1>1 DEF Operation, Wanted
<1>26. Orderly("sign_raw")
  BY <1>2 DEF Operation, Wanted
<1>27. Orderly("create_transaction")
  BY <1>3 DEF Operation, Wanted
<1>28. Orderly("sign_payload_legacy")
  BY <1>4 DEF Operation, Wanted
<1>29. Orderly("sign_raw_legacy")
  BY <1>5 DEF Operation, Wanted
<1>30. Orderly("create_transaction_legacy")
  BY <1>6 DEF Operation, Wanted
<1>31. Orderly("get_account")
  BY <1>7 DEF Operation, Wanted
<1>32. Orderly("get_other_account")
  BY <1>8 DEF Operation, Wanted
<1>33. Orderly("get_account_alias")
  BY <1>9 DEF Operation, Wanted
<1>34. Orderly("create_account_proof")
  BY <1>10 DEF Operation, Wanted
<1>35. Orderly("register_ring_vrf_key")
  BY <1>11 DEF Operation, Wanted
<1>36. Orderly("list_ring_vrf_keys")
  BY <1>12 DEF Operation, Wanted
<1>37. Orderly("ring_vrf_sign")
  BY <1>13 DEF Operation, Wanted
<1>38. Orderly("sign_vrf")
  BY <1>14 DEF Operation, Wanted
<1>39. Orderly("get_user_id")
  BY <1>15 DEF Operation, Wanted
<1>40. Orderly("derive_entropy")
  BY <1>16 DEF Operation, Wanted
<1>41. Orderly("allocate")
  BY <1>17 DEF Operation, Wanted
<1>42. Orderly("auto_signing")
  BY <1>18 DEF Operation, Wanted
<1>43. Orderly("submit_preimage")
  BY <1>19 DEF Operation, Wanted
<1>44. Orderly("broadcast")
  BY <1>20 DEF Operation, Wanted
<1>45. Orderly("navigate")
  BY <1>21 DEF Operation, Wanted
<1>46. Orderly("submit_statement")
  BY <1>22 DEF Operation, Wanted
<1>47. Orderly("prove_statement")
  BY <1>23 DEF Operation, Wanted
<1>48. Orderly("prove_authorized")
  BY <1>24 DEF Operation, Wanted
<1>49. Kinds = {"sign_payload", "sign_raw", "create_transaction",
               "sign_payload_legacy", "sign_raw_legacy",
               "create_transaction_legacy", "get_account", "get_other_account",
               "get_account_alias", "create_account_proof",
               "register_ring_vrf_key", "list_ring_vrf_keys", "ring_vrf_sign",
               "sign_vrf", "get_user_id", "derive_entropy", "allocate",
               "auto_signing", "submit_preimage", "broadcast", "navigate",
               "submit_statement", "prove_statement", "prove_authorized"}
  BY DEF Kinds, Operation
<1> QED
  BY <1>25, <1>26, <1>27, <1>28, <1>29, <1>30, <1>31, <1>32, <1>33, <1>34, <1>35,
     <1>36, <1>37, <1>38, <1>39, <1>40, <1>41, <1>42, <1>43, <1>44, <1>45, <1>46,
     <1>47, <1>48, <1>49

(* The confirmation of a VRF signature comes right after the look for a    *)
(* grant, and right before the signature.                                  *)
LEMMA VrfSteps ==
  LET s == StepsOf("sign_vrf") IN
    /\ Len(s) = 7 /\ s[6] = "confirm"
    /\ \A i \in 1 .. 7 : (s[i] = "autosign" => i = 5) /\ (s[i] \in Effects => i = 7)
<1>1. StepsOf("sign_vrf") = SignVrf.gate \o SignVrf.call
  BY DEF StepsOf, Operation
<1> QED
  BY <1>1, SMTT(30) DEF SignVrf, SignWithVrf, Effects

\* The steps a request can be at are those of its kind's operation.
LEMMA StepsAreTheKinds ==
  ASSUME TypeOK, NEW r \in Requests, asks[r] # Nothing
  PROVE  asks[r] \in Kinds /\ Steps(r) = StepsOf(asks[r]) /\ Orderly(asks[r])
  BY CastAssumption, OperationsAreOrderly DEF TypeOK, Steps, StepsOf

-----------------------------------------------------------------------------
(* The inductive invariant.                                                *)

(* A request that is under way is at one of its steps, and one that is     *)
(* done has gone through all of them.                                      *)
StepInv ==
  \A r \in Requests :
    /\ Open(r) => asks[r] # Nothing
    /\ asks[r] # Nothing =>
         /\ pc[r] > 0
         /\ Open(r) => pc[r] <= Len(Steps(r))
         /\ outcome[r] = "done" => pc[r] > Len(Steps(r))

Passed(r, step) == \E i \in 1 .. Len(Steps(r)) : i < pc[r] /\ Steps(r)[i] = step

(* A request has a snapshot from its "session" step on, and not before.    *)
SessionInv ==
  \A r \in Requests : asks[r] # Nothing =>
    (snapshot[r] # NoSnapshot <=> Passed(r, "session"))

(* What a request asked for, it was let through; only the confirmation of  *)
(* a VRF signature may be replaced by a grant.                             *)
ApprovalInv ==
  /\ approved \in [Requests -> SUBSET (Asking \cup {"granted"})]
  /\ \A r \in Requests : asks[r] # Nothing =>
       \A step \in Asking : Passed(r, step) =>
         \/ step \in approved[r]
         \/ asks[r] = "sign_vrf" /\ step = "confirm" /\ "granted" \in approved[r]

(* The generation stands for the session: a snapshot of this generation is *)
(* of the wallet that is unlocked, and fenced requests have older ones.    *)
GenerationInv ==
  /\ \A r \in Requests : snapshot[r] # NoSnapshot =>
       /\ snapshot[r].generation <= generation
       /\ snapshot[r].generation = generation => snapshot[r].wallet = wallet
  /\ \A r \in fenced : snapshot[r] # NoSnapshot /\ snapshot[r].generation < generation

(* A confirmed request that was not fenced stands behind every grant.      *)
VouchedInv == \A g \in grants : Vouched(g[1], g[2])

PathInv == StepInv /\ SessionInv /\ ApprovalInv

IInv == TypeOK /\ PathInv /\ GenerationInv /\ GrantsAreTheWallets /\ VouchedInv

-----------------------------------------------------------------------------
(* The initial states, and the types.                                      *)

\* Nothing is open, granted or snapshot at first.
LEMMA InitSafe == Init => IInv
<1> SUFFICES ASSUME Init PROVE IInv
  OBVIOUS
<1>1. TypeOK
  BY RequestAssumption, CastAssumption DEF Init, TypeOK, Decisions
<1>2. \A r \in Requests : asks[r] # Nothing => Len(Steps(r)) \in Nat \ {0}
  BY <1>1, StepsAreTheKinds DEF Orderly, Path
<1>3. StepInv
  BY <1>2 DEF Init, StepInv, Open
<1>4. SessionInv /\ ApprovalInv
  BY <1>2 DEF Init, SessionInv, ApprovalInv, Passed
<1>5. GenerationInv /\ GrantsAreTheWallets /\ VouchedInv
  BY DEF Init, GenerationInv, GrantsAreTheWallets, VouchedInv
<1> QED
  BY <1>1, <1>3, <1>4, <1>5 DEF IInv, PathInv

(* One step of the system, whichever it is.                                *)
LEMMA NextCases ==
  ASSUME Next
  PROVE  \/ \E r \in Requests :
              \/ CheckOwn(r) \/ TakeSnapshot(r) \/ Require(r) \/ ReadKey(r) \/ AutoSign(r)
              \/ GrantAutoSigning(r) \/ Use(r) \/ Permit(r) \/ Confirm(r) \/ Wait(r)
              \/ Upload(r) \/ Expire(r) \/ Unwind(r)
         \/ \E w \in Wallets : Activate(w)
         \/ Disconnect
         \/ \E p \in Products : ClearProduct(p)
         \/ \E p \in Permissions, decision \in Decisions : SetConsent(p, decision)
  BY DEF Next, RunStep, AnswerStep, HostStep, Needed, Decisions

\* A step keeps the types, given that open requests are at steps they have.
LEMMA TypeNext == TypeOK /\ StepInv /\ [Next]_vars => TypeOK'
<1> SUFFICES ASSUME TypeOK, StepInv, [Next]_vars PROVE TypeOK'
  OBVIOUS
<1> USE DEF TypeOK, hostVars, requestVars, history
<1>0. ASSUME NEW r \in Requests, Open(r)
      PROVE  Len(Steps(r)) \in Nat
  BY <1>0, StepsAreTheKinds DEF StepInv, Orderly, Path
<1>a. ASSUME NEW r \in Requests, Open(r), Continue(r)
      PROVE  /\ pc' \in [Requests -> Nat]
             /\ outcome' \in [Requests -> {"open", "late", "done", "refused", "cancelled"}]
  BY <1>a DEF Continue, GoTo
<1>b. ASSUME NEW r \in Requests, NEW how \in {"late", "refused", "cancelled"}, End(r, how)
      PROVE  /\ pc' \in [Requests -> Nat]
             /\ outcome' \in [Requests -> {"open", "late", "done", "refused", "cancelled"}]
  BY <1>b DEF End
<1>1. ASSUME NEW r \in Requests, CheckOwn(r) PROVE TypeOK'
  BY <1>1, <1>a, <1>b DEF CheckOwn, At
<1>2. ASSUME NEW r \in Requests, TakeSnapshot(r) PROVE TypeOK'
  BY <1>2, <1>a, <1>b DEF TakeSnapshot, At, Snapshots
<1>3. ASSUME NEW r \in Requests, Require(r) PROVE TypeOK'
  BY <1>3, <1>a, <1>b DEF Require, At
<1>4. ASSUME NEW r \in Requests, ReadKey(r) PROVE TypeOK'
  BY <1>4, <1>a, <1>b DEF ReadKey, At
<1>5. ASSUME NEW r \in Requests, AutoSign(r) PROVE TypeOK'
  <2>1. CASE Continue(r) /\ UNCHANGED unseated
    BY <1>5, <2>1, <1>a DEF AutoSign, At
  <2>2. CASE GoTo(r, pc[r] + 2) /\ unseated' \in {unseated, unseated \cup {r}}
    BY <1>5, <2>2 DEF AutoSign, GoTo
  <2> QED
    BY <1>5, <2>1, <2>2 DEF AutoSign
<1>6. ASSUME NEW r \in Requests, GrantAutoSigning(r) PROVE TypeOK'
  <2>1. CASE Continue(r) /\ grants' = grants \cup {<<snapshot[r].wallet, ProductOf[r]>>}
                         /\ keys[r] = {snapshot[r].wallet}
    <3>1. snapshot[r].wallet \in Wallets /\ ProductOf[r] \in Products
      BY <2>1, RequestAssumption
    <3> QED
      BY <1>6, <2>1, <3>1, <1>a DEF GrantAutoSigning, At
  <2>2. CASE End(r, "refused") /\ UNCHANGED grants
    BY <1>6, <2>2, <1>b DEF GrantAutoSigning
  <2> QED
    BY <1>6, <2>1, <2>2 DEF GrantAutoSigning
<1>7. ASSUME NEW r \in Requests, Use(r) PROVE TypeOK'
  BY <1>7, <1>a DEF Use, At
<1>8. ASSUME NEW r \in Requests, Permit(r) PROVE TypeOK'
  <2>1. Step(r) \in Permissions
    BY <1>8 DEF Permit, At
  <2>2. consent' \in [Permissions -> Decisions]
    BY <1>8, <2>1 DEF Permit, Decisions
  <2> QED
    BY <1>8, <2>2, <1>a, <1>b DEF Permit, At
<1>9. ASSUME NEW r \in Requests, Confirm(r) PROVE TypeOK'
  BY <1>9, <1>a, <1>b DEF Confirm, At
<1>10. ASSUME NEW r \in Requests, Wait(r) PROVE TypeOK'
  BY <1>10, <1>a, <1>b DEF Wait, At
<1>11. ASSUME NEW r \in Requests, Upload(r) PROVE TypeOK'
  <2>1. CASE GoTo(r, Len(Steps(r)))
    BY <1>11, <2>1, <1>0 DEF Upload, At, GoTo
  <2>2. CASE End(r, "refused") \/ Continue(r)
    BY <1>11, <2>2, <1>a, <1>b DEF Upload, At
  <2> QED
    BY <1>11, <2>1, <2>2 DEF Upload
<1>12. ASSUME NEW r \in Requests, Expire(r) PROVE TypeOK'
  BY <1>12, <1>b DEF Expire
<1>13. ASSUME NEW r \in Requests, Unwind(r) PROVE TypeOK'
  BY <1>13, <1>b DEF Unwind
<1>14. ASSUME NEW w \in Wallets, Activate(w) PROVE TypeOK'
  BY <1>14 DEF Activate, Begun
<1>15. CASE Disconnect
  BY <1>15 DEF Disconnect, Begun
<1>16. ASSUME NEW p \in Products, ClearProduct(p) PROVE TypeOK'
  BY <1>16 DEF ClearProduct, Begun
<1>17. ASSUME NEW p \in Permissions, NEW decision \in Decisions, SetConsent(p, decision)
       PROVE  TypeOK'
  BY <1>17 DEF SetConsent
<1>18. CASE UNCHANGED vars
  BY <1>18 DEF vars
<1> QED
  BY <1>1, <1>2, <1>3, <1>4, <1>5, <1>6, <1>7, <1>8, <1>9, <1>10, <1>11, <1>12, <1>13,
     <1>14, <1>15, <1>16, <1>17, <1>18, NextCases

-----------------------------------------------------------------------------
(* A request goes on, or ends.                                             *)

\* The steps a request goes through when it goes to a later one
Between(r, next, step) ==
  \E i \in 1 .. Len(Steps(r)) : pc[r] <= i /\ i < next /\ Steps(r)[i] = step

Covered(r, step) ==
  \/ step \in approved[r]
  \/ asks[r] = "sign_vrf" /\ step = "confirm" /\ "granted" \in approved[r]

ApprovalsGrow ==
  /\ approved' \in [Requests -> SUBSET (Asking \cup {"granted"})]
  /\ \A q \in Requests : approved[q] \subseteq approved'[q]

\* A request that goes to a later step of its operation keeps to its path.
LEMMA PathMove ==
  ASSUME TypeOK, PathInv, asks' = asks, ApprovalsGrow,
         NEW r \in Requests, Open(r),
         NEW next \in Nat, pc[r] < next, next <= Len(Steps(r)) + 1, GoTo(r, next),
         \A q \in Requests \ {r} : snapshot'[q] = snapshot[q],
         snapshot'[r] # NoSnapshot <=> snapshot[r] # NoSnapshot \/ Between(r, next, "session"),
         \A step \in Asking : Between(r, next, step) => Covered(r, step)'
  PROVE  PathInv'
<1>1. \A q \in Requests : Steps(q)' = Steps(q)
  BY DEF Steps
<1>2. asks[r] # Nothing /\ Len(Steps(r)) \in Nat \ {0}
  BY StepsAreTheKinds DEF PathInv, StepInv, Orderly, Path
<1>3. /\ pc' = [pc EXCEPT ![r] = next]
      /\ outcome'[r] = IF next <= Len(Steps(r)) THEN outcome[r]
                       ELSE IF outcome[r] = "open" THEN "done" ELSE "cancelled"
      /\ \A q \in Requests \ {r} : outcome'[q] = outcome[q]
  BY DEF GoTo, TypeOK
<1>4. StepInv'
  BY <1>1, <1>2, <1>3 DEF PathInv, StepInv, Open, TypeOK
<1>5. \A step : /\ \A q \in Requests \ {r} : Passed(q, step)' <=> Passed(q, step)
                /\ Passed(r, step)' <=> Passed(r, step) \/ Between(r, next, step)
  BY <1>1, <1>2, <1>3 DEF Passed, Between, TypeOK
<1>6. SessionInv'
  BY <1>5 DEF PathInv, SessionInv
<1>7. ApprovalInv'
  <2>1. SUFFICES ASSUME NEW q \in Requests, asks[q] # Nothing, NEW step \in Asking,
                        Passed(q, step)'
                 PROVE  Covered(q, step)'
    BY DEF ApprovalInv, Covered, ApprovalsGrow
  <2>2. Passed(q, step) => Covered(q, step)
    BY <2>1 DEF PathInv, ApprovalInv, Covered
  <2>3. Covered(q, step) => Covered(q, step)'
    BY DEF Covered, ApprovalsGrow
  <2> QED
    BY <1>5, <2>1, <2>2, <2>3
<1> QED
  BY <1>4, <1>6, <1>7 DEF PathInv

\* To the step after this one, which is not "session"
LEMMA PathContinue ==
  ASSUME TypeOK, PathInv, UNCHANGED <<asks, snapshot>>, ApprovalsGrow,
         NEW r \in Requests, Open(r), Continue(r),
         Step(r) # "session", Step(r) \in Asking => Step(r) \in approved'[r]
  PROVE  PathInv'
<1>1. asks[r] # Nothing /\ pc[r] \in Nat /\ pc[r] > 0 /\ pc[r] <= Len(Steps(r))
  BY DEF PathInv, StepInv, TypeOK
<1>2. Len(Steps(r)) \in Nat
  BY <1>1, StepsAreTheKinds DEF Orderly, Path
<1>3. \A step : Between(r, pc[r] + 1, step) => step = Step(r)
  BY <1>1, <1>2 DEF Between, Step
<1>4. GoTo(r, pc[r] + 1)
  BY DEF Continue
<1>5. \A step \in Asking : Between(r, pc[r] + 1, step) => Covered(r, step)'
  BY <1>3 DEF Covered
<1> QED
  BY <1>1, <1>2, <1>3, <1>4, <1>5, PathMove

\* A request that ends has no path to keep to.
LEMMA PathEnd ==
  ASSUME TypeOK, PathInv, UNCHANGED <<asks, snapshot>>, ApprovalsGrow,
         NEW r \in Requests, Open(r),
         NEW how \in {"late", "refused", "cancelled"}, End(r, how)
  PROVE  PathInv'
<1>1. /\ pc' = pc
      /\ \A q \in Requests : /\ Steps(q)' = Steps(q)
                              /\ \A step : Passed(q, step)' <=> Passed(q, step)
  BY DEF End, Steps, Passed
<1>2. StepInv'
  BY <1>1 DEF End, PathInv, StepInv, Open, TypeOK
<1>3. SessionInv'
  BY <1>1 DEF PathInv, SessionInv
<1>4. ApprovalInv'
  BY <1>1 DEF PathInv, ApprovalInv, ApprovalsGrow
<1> QED
  BY <1>2, <1>3, <1>4 DEF PathInv

\* What the host does touches no request.
LEMMA PathStays ==
  ASSUME PathInv, UNCHANGED <<asks, requestVars, approved>>
  PROVE  PathInv'
<1>1. \A q \in Requests : Steps(q)' = Steps(q) /\ \A step : Passed(q, step)' <=> Passed(q, step)
  BY DEF Steps, Passed, requestVars
<1> QED
  BY <1>1 DEF requestVars, PathInv, StepInv, SessionInv, ApprovalInv, Open

\* No step makes a request leave the path of its operation.
LEMMA PathNext == TypeOK /\ PathInv /\ [Next]_vars => PathInv'
<1> SUFFICES ASSUME TypeOK, PathInv, [Next]_vars PROVE PathInv'
  OBVIOUS
<1> USE DEF hostVars, requestVars, history
<1>a. UNCHANGED approved => ApprovalsGrow
  BY DEF ApprovalsGrow, PathInv, ApprovalInv
<1>b. Permissions \subseteq Asking /\ "confirm" \in Asking /\ "session" \notin Asking
      /\ {"own", "wait", "require", "key", "autosign", "grant", "upload", "use", "deliver"}
           \cap (Asking \cup {"session"}) = {}
  BY DEF Asking, Permissions
<1>1. ASSUME NEW r \in Requests, CheckOwn(r) PROVE PathInv'
  BY <1>1, <1>a, <1>b, PathContinue, PathEnd DEF CheckOwn, At
<1>2. ASSUME NEW r \in Requests, TakeSnapshot(r) PROVE PathInv'
  <2>1. Open(r) /\ Step(r) = "session" /\ ApprovalsGrow /\ asks' = asks
    BY <1>2, <1>a DEF TakeSnapshot, At
  <2>2. CASE wallet = NoWallet
    BY <1>2, <2>1, <2>2, PathEnd DEF TakeSnapshot
  <2>3. CASE wallet # NoWallet
    <3>1. /\ Continue(r)
          /\ snapshot' = [snapshot EXCEPT ![r] = [wallet |-> wallet, generation |-> generation]]
      BY <1>2, <2>3 DEF TakeSnapshot
    <3>2. asks[r] # Nothing /\ pc[r] \in Nat /\ pc[r] > 0 /\ pc[r] <= Len(Steps(r))
      BY <2>1 DEF PathInv, StepInv, TypeOK
    <3>3. Len(Steps(r)) \in Nat
      BY <3>2, StepsAreTheKinds DEF Orderly, Path
    <3>4. \A step : Between(r, pc[r] + 1, step) <=> step = "session"
      BY <2>1, <3>2, <3>3 DEF Between, Step
    <3>5. snapshot'[r] # NoSnapshot /\ \A q \in Requests \ {r} : snapshot'[q] = snapshot[q]
      BY <2>3, <3>1, RequestAssumption DEF TypeOK
    <3> QED
      BY <1>b, <2>1, <3>1, <3>2, <3>3, <3>4, <3>5, PathMove DEF Continue
  <2> QED
    BY <2>2, <2>3
<1>3. ASSUME NEW r \in Requests, Require(r) PROVE PathInv'
  BY <1>3, <1>a, <1>b, PathContinue, PathEnd DEF Require, At
<1>4. ASSUME NEW r \in Requests, ReadKey(r) PROVE PathInv'
  BY <1>4, <1>a, <1>b, PathContinue, PathEnd DEF ReadKey, At
<1>5. ASSUME NEW r \in Requests, AutoSign(r) PROVE PathInv'
  <2>1. Open(r) /\ Step(r) = "autosign" /\ asks' = asks /\ snapshot' = snapshot
    BY <1>5 DEF AutoSign, At
  <2>2. CASE Continue(r) /\ UNCHANGED approved
    BY <1>a, <1>b, <2>1, <2>2, PathContinue
  <2>3. CASE GoTo(r, pc[r] + 2) /\ approved' = [approved EXCEPT ![r] = @ \cup {"granted"}]
    <3>1. asks[r] # Nothing /\ pc[r] \in Nat /\ pc[r] > 0 /\ pc[r] <= Len(Steps(r))
      BY <2>1 DEF PathInv, StepInv, TypeOK
    <3>2. asks[r] = "sign_vrf" /\ Steps(r) = StepsOf("sign_vrf")
      BY <2>1, <3>1, StepsAreTheKinds DEF Orderly, Path, Step
    <3>3. pc[r] = 5 /\ Len(Steps(r)) = 7 /\ Steps(r)[6] = "confirm"
      <4>1. \A i \in 1 .. 7 : StepsOf("sign_vrf")[i] = "autosign" => i = 5
        BY VrfSteps
      <4>2. Len(StepsOf("sign_vrf")) = 7 /\ StepsOf("sign_vrf")[6] = "confirm"
        BY VrfSteps
      <4>3. StepsOf("sign_vrf")[pc[r]] = "autosign" /\ pc[r] \in 1 .. 7
        BY <2>1, <3>1, <3>2, <4>2 DEF Step
      <4> QED
        BY <3>2, <4>1, <4>2, <4>3
    <3>4. \A step : Between(r, pc[r] + 2, step) <=> step \in {"autosign", "confirm"}
      BY <2>1, <3>3 DEF Between, Step
    <3>5. ApprovalsGrow /\ "granted" \in approved'[r]
      BY <2>3 DEF ApprovalsGrow, PathInv, ApprovalInv
    <3>6. \A step \in Asking : Between(r, pc[r] + 2, step) => Covered(r, step)'
      BY <1>b, <2>1, <3>2, <3>4, <3>5 DEF Covered
    <3>7. snapshot'[r] # NoSnapshot
            <=> snapshot[r] # NoSnapshot \/ Between(r, pc[r] + 2, "session")
      BY <2>1, <3>4
    <3>8. pc[r] + 2 \in Nat /\ pc[r] < pc[r] + 2 /\ pc[r] + 2 <= Len(Steps(r)) + 1
      BY <3>3
    <3> QED
      BY <2>1, <2>3, <3>5, <3>6, <3>7, <3>8, PathMove
  <2> QED
    BY <1>5, <2>2, <2>3 DEF AutoSign
<1>6. ASSUME NEW r \in Requests, GrantAutoSigning(r) PROVE PathInv'
  BY <1>6, <1>a, <1>b, PathContinue, PathEnd DEF GrantAutoSigning, At
<1>7. ASSUME NEW r \in Requests, Use(r) PROVE PathInv'
  BY <1>7, <1>a, <1>b, PathContinue DEF Use, At
<1>8. ASSUME NEW r \in Requests, Permit(r) PROVE PathInv'
  <2>1. Open(r) /\ Step(r) \in Permissions /\ UNCHANGED <<asks, snapshot>>
    BY <1>8 DEF Permit, At
  <2>2. CASE Continue(r) /\ approved' = [approved EXCEPT ![r] = @ \cup {Step(r)}]
    <3>1. ApprovalsGrow /\ Step(r) \in approved'[r]
      BY <1>b, <2>1, <2>2 DEF ApprovalsGrow, PathInv, ApprovalInv
    <3> QED
      BY <1>b, <2>1, <2>2, <3>1, PathContinue
  <2>3. CASE End(r, "refused") /\ UNCHANGED approved
    BY <1>a, <2>1, <2>3, PathEnd
  <2> QED
    BY <1>8, <2>2, <2>3 DEF Permit
<1>9. ASSUME NEW r \in Requests, Confirm(r) PROVE PathInv'
  <2>1. Open(r) /\ Step(r) = "confirm" /\ UNCHANGED <<asks, snapshot>>
    BY <1>9 DEF Confirm, At
  <2>2. CASE Continue(r) /\ approved' = [approved EXCEPT ![r] = @ \cup {"confirm"}]
    <3>1. ApprovalsGrow /\ Step(r) \in approved'[r]
      BY <1>b, <2>1, <2>2 DEF ApprovalsGrow, PathInv, ApprovalInv
    <3> QED
      BY <1>b, <2>1, <2>2, <3>1, PathContinue
  <2>3. CASE End(r, "refused") /\ UNCHANGED approved
    BY <1>a, <2>1, <2>3, PathEnd
  <2> QED
    BY <1>9, <2>2, <2>3 DEF Confirm
<1>10. ASSUME NEW r \in Requests, Wait(r) PROVE PathInv'
  BY <1>10, <1>a, <1>b, PathContinue, PathEnd DEF Wait, At
<1>11. ASSUME NEW r \in Requests, Upload(r) PROVE PathInv'
  <2>1. Open(r) /\ Step(r) = "upload" /\ UNCHANGED <<asks, snapshot, approved>>
    BY <1>11 DEF Upload, At
  <2>2. CASE Continue(r) \/ End(r, "refused")
    BY <1>a, <1>b, <2>1, <2>2, PathContinue, PathEnd
  <2>3. CASE GoTo(r, Len(Steps(r)))
    <3>1. asks[r] # Nothing /\ pc[r] \in Nat /\ pc[r] > 0 /\ pc[r] <= Len(Steps(r))
      BY <2>1 DEF PathInv, StepInv, TypeOK
    <3>2. /\ Len(Steps(r)) \in Nat
          /\ \A i \in 1 .. Len(Steps(r)) : pc[r] <= i =>
               Steps(r)[i] \notin Asking \cup {"session"}
      <4>1. Steps(r)[pc[r]] = "upload"
        BY <2>1 DEF Step
      <4>2. PICK p \in Nat : Path(Steps(r), p, Wanted(asks[r]), asks[r] = "sign_vrf", asks[r] = "auto_signing")
        BY <3>1, StepsAreTheKinds DEF Orderly
      <4>3. /\ Len(Steps(r)) \in Nat /\ p < pc[r]
            /\ \A j \in pc[r] + 1 .. Len(Steps(r)) : Steps(r)[j] \notin Asking
            /\ \A i \in 1 .. Len(Steps(r)) : Steps(r)[i] = "session" => i = p
        BY <3>1, <4>1, <4>2 DEF Path
      <4> QED
        BY <1>b, <3>1, <4>1, <4>3
    <3>3. pc[r] < Len(Steps(r))
      BY <2>1, <3>1, StepsAreTheKinds DEF Orderly, Path, Step
    <3>4. \A step \in Asking \cup {"session"} : ~ Between(r, Len(Steps(r)), step)
      BY <3>2 DEF Between
    <3> QED
      BY <1>a, <2>1, <2>3, <3>1, <3>2, <3>3, <3>4, PathMove
  <2> QED
    BY <1>11, <2>2, <2>3 DEF Upload
<1>12. ASSUME NEW r \in Requests, Expire(r) PROVE PathInv'
  BY <1>12, <1>a, PathEnd DEF Expire, Open
<1>13. ASSUME NEW r \in Requests, Unwind(r) PROVE PathInv'
  BY <1>13, <1>a, PathEnd DEF Unwind, Open
<1>14. ASSUME NEW w \in Wallets, Activate(w) PROVE PathInv'
  BY <1>14, PathStays DEF Activate
<1>15. CASE Disconnect
  BY <1>15, PathStays DEF Disconnect
<1>16. ASSUME NEW p \in Products, ClearProduct(p) PROVE PathInv'
  BY <1>16, PathStays DEF ClearProduct
<1>17. ASSUME NEW p \in Permissions, NEW decision \in Decisions, SetConsent(p, decision)
       PROVE  PathInv'
  BY <1>17, PathStays DEF SetConsent
<1>18. CASE UNCHANGED vars
  BY <1>18, PathStays DEF vars
<1> QED
  BY <1>1, <1>2, <1>3, <1>4, <1>5, <1>6, <1>7, <1>8, <1>9, <1>10, <1>11, <1>12, <1>13,
     <1>14, <1>15, <1>16, <1>17, <1>18, NextCases

-----------------------------------------------------------------------------
(* Generations.                                                            *)

\* The steps of requests that leave the host alone
HostStays == UNCHANGED <<wallet, generation, fenced>>

\* The generation is advanced, and requests that have a snapshot are fenced.
LEMMA GenerationAdvances ==
  ASSUME TypeOK, GenerationInv, UNCHANGED snapshot, generation' = generation + 1,
         fenced' \subseteq fenced \cup Begun
  PROVE  GenerationInv'
<1>1. ASSUME NEW r \in Requests, snapshot[r] # NoSnapshot
      PROVE  snapshot[r].generation \in Nat /\ snapshot[r].generation < generation + 1
  BY <1>1 DEF TypeOK, GenerationInv, Snapshots
<1> QED
  BY <1>1 DEF GenerationInv, TypeOK, Begun

\* A step that changes neither the wallet nor the snapshots keeps them in order.
LEMMA GenerationStays ==
  ASSUME GenerationInv, HostStays, UNCHANGED snapshot
  PROVE  GenerationInv'
  BY DEF GenerationInv, HostStays

\* Whatever changes the wallet advances the generation past every snapshot.
LEMMA GenerationNext == TypeOK /\ PathInv /\ GenerationInv /\ [Next]_vars => GenerationInv'
<1> SUFFICES ASSUME TypeOK, PathInv, GenerationInv, [Next]_vars PROVE GenerationInv'
  OBVIOUS
<1> USE DEF hostVars, requestVars, history
<1>1. ASSUME NEW r \in Requests, TakeSnapshot(r) PROVE GenerationInv'
  <2>1. Open(r) /\ Step(r) = "session" /\ HostStays
    BY <1>1 DEF TakeSnapshot, At, HostStays
  <2>2. asks[r] # Nothing /\ pc[r] \in Nat /\ pc[r] > 0 /\ pc[r] <= Len(Steps(r))
    BY <2>1 DEF PathInv, StepInv, TypeOK
  <2>3. ~ Passed(r, "session")
    <3>1. PICK p \in Nat : Path(Steps(r), p, Wanted(asks[r]), asks[r] = "sign_vrf", asks[r] = "auto_signing")
      BY <2>2, StepsAreTheKinds DEF Orderly
    <3>2. \A i \in 1 .. Len(Steps(r)) : Steps(r)[i] = "session" => i = p
      BY <3>1 DEF Path
    <3>3. Len(Steps(r)) \in Nat
      BY <3>1 DEF Path
    <3> QED
      BY <2>1, <2>2, <3>2, <3>3 DEF Passed, Step
  <2>4. snapshot[r] = NoSnapshot /\ r \notin fenced
    BY <2>2, <2>3 DEF PathInv, SessionInv, GenerationInv
  <2>5. CASE UNCHANGED snapshot
    BY <2>1, <2>5, GenerationStays
  <2>6. CASE snapshot' = [snapshot EXCEPT ![r] = [wallet |-> wallet, generation |-> generation]]
    <3>1. /\ snapshot'[r] = [wallet |-> wallet, generation |-> generation]
          /\ \A q \in Requests \ {r} : snapshot'[q] = snapshot[q]
      BY <2>6 DEF TypeOK
    <3> QED
      BY <2>1, <2>4, <3>1 DEF GenerationInv, HostStays, TypeOK
  <2> QED
    BY <1>1, <2>5, <2>6 DEF TakeSnapshot
<1>2. ASSUME NEW r \in Requests,
             \/ CheckOwn(r) \/ Require(r) \/ ReadKey(r) \/ AutoSign(r) \/ GrantAutoSigning(r)
             \/ Use(r) \/ Permit(r) \/ Confirm(r) \/ Wait(r) \/ Upload(r) \/ Expire(r)
             \/ Unwind(r)
      PROVE  GenerationInv'
  <2>1. HostStays /\ UNCHANGED snapshot
    BY <1>2 DEF CheckOwn, Require, ReadKey, AutoSign, GrantAutoSigning, Use, Permit, Confirm,
                Wait, Upload, Expire, Unwind, HostStays
  <2> QED
    BY <2>1, GenerationStays
<1>3. ASSUME NEW w \in Wallets, Activate(w) PROVE GenerationInv'
  BY <1>3, GenerationAdvances DEF Activate
<1>4. CASE Disconnect
  BY <1>4, GenerationAdvances DEF Disconnect
<1>5. ASSUME NEW p \in Products, ClearProduct(p) PROVE GenerationInv'
  BY <1>5, GenerationAdvances DEF ClearProduct
<1>6. ASSUME NEW p \in Permissions, NEW decision \in Decisions, SetConsent(p, decision)
      PROVE  GenerationInv'
  BY <1>6, GenerationStays DEF SetConsent, HostStays
<1>7. CASE UNCHANGED vars
  BY <1>7, GenerationStays DEF vars, HostStays
<1> QED
  BY <1>1, <1>2, <1>3, <1>4, <1>5, <1>6, <1>7, NextCases

-----------------------------------------------------------------------------
(* Grants.                                                                 *)

\* A request that enters a grant has the session there is, and was not fenced.
LEMMA GrantersAreLive ==
  ASSUME TypeOK, PathInv, GenerationInv, NEW r \in Requests, GrantAutoSigning(r),
         grants' # grants
  PROVE  /\ snapshot[r].wallet = wallet /\ r \notin fenced
         /\ grants' = grants \cup {<<snapshot[r].wallet, ProductOf[r]>>}
<1>1. /\ Open(r) /\ Step(r) = "grant" /\ snapshot[r].generation = generation
      /\ grants' = grants \cup {<<snapshot[r].wallet, ProductOf[r]>>}
  BY DEF GrantAutoSigning, At
<1>2. asks[r] # Nothing /\ pc[r] \in Nat /\ pc[r] > 0 /\ pc[r] <= Len(Steps(r))
  BY <1>1 DEF PathInv, StepInv, TypeOK
<1>3. PICK p \in Nat : Path(Steps(r), p, Wanted(asks[r]), asks[r] = "sign_vrf", asks[r] = "auto_signing")
  BY <1>2, StepsAreTheKinds DEF Orderly
<1>4. Steps(r)[pc[r]] = "grant" /\ Len(Steps(r)) \in Nat
  BY <1>1, <1>3 DEF Step, Path
<1>5. 0 < p /\ p < pc[r] /\ Steps(r)[p] = "session"
  BY <1>2, <1>3, <1>4 DEF Path
<1>6. Passed(r, "session")
  BY <1>2, <1>4, <1>5 DEF Passed
<1>7. snapshot[r] # NoSnapshot
  BY <1>2, <1>6 DEF PathInv, SessionInv
<1> QED
  BY <1>1, <1>7 DEF GenerationInv, TypeOK

\* Grants are added under the wallet, and go when it goes.
LEMMA GrantsNext ==
  TypeOK /\ PathInv /\ GenerationInv /\ GrantsAreTheWallets /\ [Next]_vars
    => GrantsAreTheWallets'
<1> SUFFICES ASSUME TypeOK, PathInv, GenerationInv, GrantsAreTheWallets, [Next]_vars
             PROVE  GrantsAreTheWallets'
  OBVIOUS
<1> USE DEF GrantsAreTheWallets, hostVars, requestVars, history
<1>1. ASSUME NEW r \in Requests, GrantAutoSigning(r) PROVE GrantsAreTheWallets'
  <2>1. wallet' = wallet
    BY <1>1 DEF GrantAutoSigning
  <2> QED
    BY <1>1, <2>1, GrantersAreLive
<1>2. ASSUME NEW r \in Requests,
             \/ CheckOwn(r) \/ TakeSnapshot(r) \/ Require(r) \/ ReadKey(r) \/ AutoSign(r)
             \/ Use(r) \/ Permit(r) \/ Confirm(r) \/ Wait(r) \/ Upload(r) \/ Expire(r)
             \/ Unwind(r)
      PROVE  UNCHANGED <<wallet, grants>>
  BY <1>2 DEF CheckOwn, TakeSnapshot, Require, ReadKey, AutoSign, Use, Permit, Confirm,
              Wait, Upload, Expire, Unwind
<1>3. ASSUME NEW w \in Wallets, Activate(w) PROVE GrantsAreTheWallets'
  BY <1>3 DEF Activate
<1>4. CASE Disconnect
  BY <1>4 DEF Disconnect
<1>5. ASSUME NEW p \in Products, ClearProduct(p) PROVE GrantsAreTheWallets'
  BY <1>5 DEF ClearProduct
<1>6. ASSUME NEW p \in Permissions, NEW decision \in Decisions, SetConsent(p, decision)
      PROVE  UNCHANGED <<wallet, grants>>
  BY <1>6 DEF SetConsent
<1>7. CASE UNCHANGED vars
  BY <1>7 DEF vars
<1> QED
  BY <1>1, <1>2, <1>3, <1>4, <1>5, <1>6, <1>7, NextCases

\* A request takes its snapshot once.
LEMMA SnapshotOnce ==
  ASSUME TypeOK, PathInv, NEW r \in Requests, TakeSnapshot(r)
  PROVE  snapshot[r] = NoSnapshot
<1>1. Open(r) /\ Step(r) = "session"
  BY DEF TakeSnapshot, At
<1>2. asks[r] # Nothing /\ pc[r] \in Nat /\ pc[r] > 0 /\ pc[r] <= Len(Steps(r))
  BY <1>1 DEF PathInv, StepInv, TypeOK
<1>3. PICK p \in Nat : Path(Steps(r), p, Wanted(asks[r]), asks[r] = "sign_vrf", asks[r] = "auto_signing")
  BY <1>2, StepsAreTheKinds DEF Orderly
<1>4. Len(Steps(r)) \in Nat /\ \A i \in 1 .. Len(Steps(r)) : Steps(r)[i] = "session" => i = p
  BY <1>3 DEF Path
<1>5. ~ Passed(r, "session")
  BY <1>1, <1>2, <1>4 DEF Passed, Step
<1> QED
  BY <1>2, <1>5 DEF PathInv, SessionInv

\* A confirmation counts until its wallet or its product is cleared.
LEMMA VouchedStays ==
  ASSUME NEW w, NEW p, Vouched(w, p), asks' = asks,
         \A q \in Requests : approved[q] \subseteq approved'[q],
         \A q \in Requests : snapshot[q] # NoSnapshot => snapshot'[q] = snapshot[q],
         \A q \in Requests : ProductOf[q] = p /\ q \in fenced' => q \in fenced
  PROVE  Vouched(w, p)'
  BY DEF Vouched

\* A request that enters a grant was confirmed for it.
LEMMA GrantersAreConfirmed ==
  ASSUME TypeOK, PathInv, GenerationInv, NEW r \in Requests, GrantAutoSigning(r),
         grants' # grants
  PROVE  Vouched(snapshot[r].wallet, ProductOf[r])
<1>1. Open(r) /\ Step(r) = "grant" /\ r \notin fenced
  BY GrantersAreLive DEF GrantAutoSigning, At
<1>2. asks[r] # Nothing /\ pc[r] \in Nat /\ pc[r] > 0 /\ pc[r] <= Len(Steps(r))
  BY <1>1 DEF PathInv, StepInv, TypeOK
<1>3. PICK p \in Nat : Path(Steps(r), p, Wanted(asks[r]), asks[r] = "sign_vrf", asks[r] = "auto_signing")
  BY <1>2, StepsAreTheKinds DEF Orderly
<1>4. Steps(r)[pc[r]] = "grant" /\ Len(Steps(r)) \in Nat
  BY <1>1, <1>3 DEF Step, Path
<1>5. asks[r] = "auto_signing"
  BY <1>2, <1>3, <1>4 DEF Path
<1>6. Passed(r, "session") /\ Passed(r, "confirm")
  <2>1. 0 < p /\ p < pc[r] /\ Steps(r)[p] = "session"
    BY <1>2, <1>3, <1>4 DEF Path
  <2>2. "confirm" \in Wanted(asks[r])
    BY <1>5 DEF Wanted
  <2>3. \E j \in 1 .. pc[r] - 1 : Steps(r)[j] = "confirm"
    BY <1>2, <1>3, <1>4, <2>2 DEF Path, Effects
  <2> QED
    BY <1>2, <1>4, <2>1, <2>3 DEF Passed
<1>7. snapshot[r] # NoSnapshot /\ "confirm" \in approved[r]
  BY <1>2, <1>5, <1>6 DEF PathInv, SessionInv, ApprovalInv, Asking
<1> QED
  BY <1>1, <1>5, <1>7 DEF Vouched

\* Grants go no later than the confirmations behind them.
LEMMA VouchedNext ==
  TypeOK /\ PathInv /\ GenerationInv /\ VouchedInv /\ [Next]_vars => VouchedInv'
<1> SUFFICES ASSUME TypeOK, PathInv, GenerationInv, VouchedInv, [Next]_vars PROVE VouchedInv'
  OBVIOUS
<1> USE DEF hostVars, requestVars, history
<1>a. ASSUME NEW w, NEW p, Vouched(w, p), UNCHANGED <<asks, snapshot, approved, fenced>>
      PROVE  Vouched(w, p)'
  BY <1>a, VouchedStays
<1>1. ASSUME NEW r \in Requests, GrantAutoSigning(r) PROVE VouchedInv'
  <2>1. UNCHANGED <<asks, snapshot, approved, fenced>>
    BY <1>1 DEF GrantAutoSigning
  <2>2. CASE grants' = grants
    BY <1>a, <2>1, <2>2 DEF VouchedInv
  <2>3. CASE grants' # grants
    <3>1. grants' = grants \cup {<<snapshot[r].wallet, ProductOf[r]>>}
      BY <1>1, <2>3, GrantersAreLive
    <3>2. Vouched(snapshot[r].wallet, ProductOf[r])
      BY <1>1, <2>3, GrantersAreConfirmed
    <3> QED
      BY <1>a, <2>1, <3>1, <3>2 DEF VouchedInv
  <2> QED
    BY <2>2, <2>3
<1>2. ASSUME NEW r \in Requests,
             \/ CheckOwn(r) \/ TakeSnapshot(r) \/ Require(r) \/ ReadKey(r) \/ AutoSign(r)
             \/ Use(r) \/ Permit(r) \/ Confirm(r) \/ Wait(r) \/ Upload(r) \/ Expire(r)
             \/ Unwind(r)
      PROVE  VouchedInv'
  <2>1. UNCHANGED <<asks, grants, fenced>>
    BY <1>2 DEF CheckOwn, TakeSnapshot, Require, ReadKey, AutoSign, Use, Permit, Confirm,
                Wait, Upload, Expire, Unwind
  <2>2. \A q \in Requests : snapshot[q] # NoSnapshot => snapshot'[q] = snapshot[q]
    <3>1. CASE TakeSnapshot(r)
      BY <3>1, SnapshotOnce DEF TakeSnapshot, TypeOK
    <3>2. CASE ~ TakeSnapshot(r)
      BY <1>2, <3>2 DEF CheckOwn, Require, ReadKey, AutoSign, Use, Permit, Confirm,
                        Wait, Upload, Expire, Unwind
    <3> QED
      BY <3>1, <3>2
  <2>3. \A q \in Requests : approved[q] \subseteq approved'[q]
    <3>1. approved \in [Requests -> SUBSET (Asking \cup {"granted"})]
      BY DEF PathInv, ApprovalInv
    <3>2. approved' = approved \/ \E x : approved' = [approved EXCEPT ![r] = @ \cup {x}]
      BY <1>2 DEF CheckOwn, TakeSnapshot, Require, ReadKey, AutoSign, Use, Permit, Confirm,
                  Wait, Upload, Expire, Unwind
    <3> QED
      BY <3>1, <3>2
  <2> QED
    BY <2>1, <2>2, <2>3, VouchedStays DEF VouchedInv
<1>3. ASSUME NEW w \in Wallets, Activate(w) PROVE VouchedInv'
  BY <1>3 DEF Activate, VouchedInv
<1>4. CASE Disconnect
  BY <1>4 DEF Disconnect, VouchedInv
<1>5. ASSUME NEW p \in Products, ClearProduct(p) PROVE VouchedInv'
  <2>1. /\ grants' = {g \in grants : g[2] # p} /\ UNCHANGED <<asks, snapshot, approved>>
        /\ fenced' = fenced \cup {r \in Begun : ProductOf[r] = p}
    BY <1>5 DEF ClearProduct
  <2>2. ASSUME NEW g \in grants, g[2] # p PROVE Vouched(g[1], g[2])'
    BY <2>1, <2>2, VouchedStays DEF VouchedInv
  <2> QED
    BY <2>1, <2>2 DEF VouchedInv
<1>6. ASSUME NEW p \in Permissions, NEW decision \in Decisions, SetConsent(p, decision)
      PROVE  VouchedInv'
  BY <1>6, <1>a DEF SetConsent, VouchedInv
<1>7. CASE UNCHANGED vars
  BY <1>7, <1>a DEF vars, VouchedInv
<1> QED
  BY <1>1, <1>2, <1>3, <1>4, <1>5, <1>6, <1>7, NextCases

-----------------------------------------------------------------------------
(* The theorems.                                                           *)

\* The inductive invariant is inductive.
LEMMA InvNext == IInv /\ [Next]_vars => IInv'
<1> SUFFICES ASSUME IInv, [Next]_vars PROVE IInv'
  OBVIOUS
<1>1. TypeOK'
  BY TypeNext DEF IInv, PathInv
<1>2. PathInv'
  BY PathNext DEF IInv
<1>3. GenerationInv'
  BY GenerationNext DEF IInv
<1>4. GrantsAreTheWallets'
  BY GrantsNext DEF IInv
<1>5. VouchedInv'
  BY VouchedNext DEF IInv
<1> QED
  BY <1>1, <1>2, <1>3, <1>4, <1>5 DEF IInv

(* The inductive invariant holds, whatever the host and the users do.      *)
THEOREM Safety == Spec => []IInv
<1>1. Init => IInv
  BY InitSafe
<1>2. IInv /\ [Next]_vars => IInv'
  BY InvNext
<1> QED
  BY <1>1, <1>2, PTL DEF Spec

(* Type correctness of a signing host's requests and sessions.             *)
THEOREM TypeCorrect == Spec => []TypeOK
<1>1. IInv => TypeOK
  BY DEF IInv
<1> QED
  BY <1>1, Safety, PTL

(* A grant of automatic signing belongs to the wallet that is unlocked     *)
(* (advance_activation, grant_auto_signing), for any number of requests.   *)
THEOREM GrantsAreTheWalletsHolds == Spec => []GrantsAreTheWallets
<1>1. IInv => GrantsAreTheWallets
  BY DEF IInv
<1> QED
  BY <1>1, Safety, PTL

(* No request takes effect, in time or late, that has not been let through *)
(* what it needs, and a confirmation no clearing has come after stands     *)
(* behind every grant (require_remote_permission, confirm_user_action,     *)
(* has_auto_signing_grant).                                                *)
THEOREM NothingUnapprovedHolds == Spec => []NothingUnapproved
<1>1. IInv => NothingUnapproved
  <2> SUFFICES ASSUME IInv, NEW r \in Requests, asks[r] # Nothing, TakesEffect(r)
               PROVE  /\ Wanted(asks[r]) \subseteq approved[r]
                      /\ asks[r] = "sign_vrf" => approved[r] \cap {"confirm", "granted"} # {}
    BY DEF NothingUnapproved, IInv, VouchedInv
  <2>1. PICK p \in Nat : Path(Steps(r), p, Wanted(asks[r]), asks[r] = "sign_vrf",
                              asks[r] = "auto_signing")
    BY StepsAreTheKinds DEF IInv, Orderly
  <2>2. pc[r] \in Nat /\ Len(Steps(r)) \in Nat
    BY <2>1 DEF IInv, TypeOK, Path
  <2>3. PICK i \in 1 .. Len(Steps(r)) : i <= pc[r] /\ Steps(r)[i] \in Effects
    BY DEF TakesEffect, Effects
  <2>4. \A step \in Asking : Passed(r, step) => Covered(r, step)
    BY DEF IInv, PathInv, ApprovalInv, Covered
  <2>5. Wanted(asks[r]) \subseteq approved[r]
    <3> SUFFICES ASSUME NEW w \in Wanted(asks[r]) PROVE w \in approved[r]
      OBVIOUS
    <3>1. \E j \in 1 .. i - 1 : Steps(r)[j] = w
      BY <2>1, <2>3 DEF Path
    <3>2. Passed(r, w)
      BY <2>2, <2>3, <3>1 DEF Passed
    <3>3. w \in Asking /\ asks[r] # "sign_vrf"
      BY DEF Wanted, Asking, Permissions
    <3> QED
      BY <2>4, <3>2, <3>3 DEF Covered
  <2>6. ASSUME asks[r] = "sign_vrf" PROVE approved[r] \cap {"confirm", "granted"} # {}
    <3>1. Steps(r) = StepsOf("sign_vrf")
      BY <2>6, StepsAreTheKinds DEF IInv
    <3>2. Passed(r, "confirm")
      <4>1. Len(Steps(r)) = 7 /\ Steps(r)[6] = "confirm"
        BY <3>1, VrfSteps
      <4>2. i = 7
        BY <2>3, <3>1, <4>1, VrfSteps
      <4> QED
        BY <2>2, <2>3, <4>1, <4>2 DEF Passed
    <3> QED
      BY <2>4, <3>2 DEF Covered, Asking
  <2> QED
    BY <2>5, <2>6
<1> QED
  BY <1>1, Safety, PTL

(* A request whose session ended or whose product was cleared after it     *)
(* began grants nothing any more (revoke_product, grant_auto_signing).     *)
THEOREM FencedWorkGrantsNothingHolds == Spec => FencedWorkGrantsNothing
<1>1. IInv /\ [Next]_vars =>
        [\A r \in fenced : pc'[r] # pc[r] => grants' \subseteq grants]_vars
  <2> SUFFICES ASSUME IInv, Next, NEW q \in fenced, pc'[q] # pc[q]
               PROVE  grants' \subseteq grants
    OBVIOUS
  <2> USE DEF hostVars, requestVars, history
  <2>1. ASSUME NEW r \in Requests, GrantAutoSigning(r) PROVE grants' \subseteq grants
    <3>1. r = q
      BY <2>1 DEF GrantAutoSigning, Continue, GoTo, End, IInv, TypeOK
    <3> QED
      BY <2>1, <3>1, GrantersAreLive DEF IInv
  <2>2. ASSUME NEW r \in Requests,
               \/ CheckOwn(r) \/ TakeSnapshot(r) \/ Require(r) \/ ReadKey(r) \/ AutoSign(r)
               \/ Use(r) \/ Permit(r) \/ Confirm(r) \/ Wait(r) \/ Upload(r) \/ Expire(r)
               \/ Unwind(r)
        PROVE  grants' = grants
    BY <2>2 DEF CheckOwn, TakeSnapshot, Require, ReadKey, AutoSign, Use, Permit, Confirm,
                Wait, Upload, Expire, Unwind
  <2>3. ASSUME HostStep PROVE grants' \subseteq grants
    BY <2>3 DEF HostStep, Activate, Disconnect, ClearProduct, SetConsent
  <2> QED
    BY <2>1, <2>2, <2>3 DEF Next, RunStep, AnswerStep
<1> QED
  BY <1>1, Safety, PTL DEF Spec, FencedWorkGrantsNothing

====
