---------------------- MODULE ScenarioControllerProofs ----------------------
(***************************************************************************)
(* Proofs about the scenario controller, for every set of streams and      *)
(* connections, every catalog that compile_scenario accepts and all        *)
(* limits.                                                                 *)
(***************************************************************************)
EXTENDS ScenarioController, FiniteSetTheorems, TLAPS

(* The two kinds of stored action are different.                           *)
LEMMA ActivateIsNotClear ==
  \A s : Activate(s) # Clear /\ Activate(s).scenario = s
  BY DEF Activate, Clear

(* Only finitely many preparations exist at a time, so counting the        *)
(* dropped ones is meaningful.                                             *)
LEMMA DroppedIsFinite ==
  ASSUME TypeOK, NEW T \in SUBSET DOMAIN prepared
  PROVE  IsFiniteSet(T) /\ Cardinality(T) \in Nat
  <1>1. IsFiniteSet(1..(next_token - 1))
    BY FS_Interval DEF TypeOK
  <1>2. T \subseteq 1..(next_token - 1)
    BY DEF TypeOK
  <1> QED
    BY <1>1, <1>2, FS_Subset, FS_CardinalityType

-----------------------------------------------------------------------------
(***************************************************************************)
(* The inductive invariant: types, the inverse indexing of the two         *)
(* preparation maps and the persistence of every action's premise.         *)
(***************************************************************************)
IInv == TypeOK /\ PreparationsAreIndexed /\ ActionsStayApplicable

USE DEF NoSample

(* The empty controller satisfies the inductive invariant.                 *)
LEMMA InitIInv == Init => IInv
  <1> SUFFICES ASSUME Init PROVE IInv
    OBVIOUS
  <1>1. TypeOK
    BY BoundsAssumption DEF Init, TypeOK, EmptyMap, Reply, Calls, Results
  <1>2. PreparationsAreIndexed /\ ActionsStayApplicable
    BY DEF Init, EmptyMap, PreparationsAreIndexed, ActionsStayApplicable
  <1> QED
    BY <1>1, <1>2 DEF IInv

(* Dropping any set of preparations, as expiry, cancel and confirm do,     *)
(* keeps the two maps inverse to each other.                               *)
LEMMA DropKeepsIndex ==
  ASSUME IInv, NEW T \in SUBSET DOMAIN prepared, DropPreparations(T),
         UNCHANGED next_token
  PROVE  /\ DOMAIN prepared' = DOMAIN prepared \ T
         /\ \A k \in DOMAIN prepared' : prepared'[k] = prepared[k]
         /\ prepared' \in [DOMAIN prepared' -> PreparedScenarioAction]
         /\ DOMAIN prepared' \subseteq 1..(next_token' - 1)
         /\ prepared_targets' \in [DOMAIN prepared_targets' -> DOMAIN prepared']
         /\ DOMAIN prepared_targets' \subseteq ScenarioTarget
         /\ revision' \in Nat
         /\ PreparationsAreIndexed'
  <1> DEFINE G == {prepared[k].target : k \in T}
  <1>1. /\ prepared' = [k \in DOMAIN prepared \ T |-> prepared[k]]
        /\ DOMAIN prepared' = DOMAIN prepared \ T
        /\ \A k \in DOMAIN prepared' : prepared'[k] = prepared[k]
    BY DEF DropPreparations, PreparedWithout, Without, Restrict
  <1>2. /\ prepared_targets' = [t \in DOMAIN prepared_targets \ G |-> prepared_targets[t]]
        /\ DOMAIN prepared_targets' = DOMAIN prepared_targets \ G
        /\ \A t \in DOMAIN prepared_targets' : prepared_targets'[t] = prepared_targets[t]
    BY DEF DropPreparations, TargetsWithout, Without, Restrict
  <1>3. \A t \in DOMAIN prepared_targets' : prepared_targets[t] \in DOMAIN prepared'
    BY <1>1, <1>2 DEF IInv, TypeOK, PreparationsAreIndexed
  <1>4. \A k \in DOMAIN prepared' : prepared[k].target \in DOMAIN prepared_targets'
    BY <1>1, <1>2 DEF IInv, TypeOK, PreparationsAreIndexed
  <1>5. revision' \in Nat
    BY DroppedIsFinite DEF IInv, TypeOK, DropPreparations
  <1>6. /\ prepared' \in [DOMAIN prepared' -> PreparedScenarioAction]
        /\ DOMAIN prepared' \subseteq 1..(next_token' - 1)
    BY <1>1 DEF IInv, TypeOK
  <1>7. /\ prepared_targets' \in [DOMAIN prepared_targets' -> DOMAIN prepared']
        /\ DOMAIN prepared_targets' \subseteq ScenarioTarget
    BY <1>2, <1>3 DEF IInv, TypeOK
  <1>8. PreparationsAreIndexed'
    BY <1>1, <1>2, <1>3, <1>4 DEF IInv, PreparationsAreIndexed
  <1> QED
    BY <1>1, <1>5, <1>6, <1>7, <1>8

(* A call that drops preparations and changes no other record (expiry,     *)
(* cancel, a refused prepare) keeps the invariant.                         *)
LEMMA DropKeepsIInv ==
  ASSUME IInv, NEW T \in SUBSET DOMAIN prepared, DropPreparations(T),
         UNCHANGED <<pending, active, current_sample_index, next_token, now>>,
         reply' \in [call: Calls, result: Results]
  PROVE  IInv'
  <1>1. TypeOK'
    BY DropKeepsIndex DEF IInv, TypeOK
  <1>2. PreparationsAreIndexed'
    BY DropKeepsIndex
  <1>3. ActionsStayApplicable'
    BY DropKeepsIndex DEF IInv, ActionsStayApplicable, Applicable, IsSustained
  <1> QED
    BY <1>1, <1>2, <1>3 DEF IInv

(* A call that returns before touching any record.                         *)
LEMMA ReturnKeepsIInv ==
  ASSUME IInv, UNCHANGED <<prepared, prepared_targets, pending, active,
                           next_token, revision>>,
         current_sample_index' \in Nat \cup {NoSample}, now' \in Nat,
         reply' \in [call: Calls, result: Results]
  PROVE  IInv'
  <1>1. TypeOK'
    BY DEF IInv, TypeOK
  <1>2. PreparationsAreIndexed' /\ ActionsStayApplicable'
    BY DEF IInv, PreparationsAreIndexed, ActionsStayApplicable, Applicable, IsSustained
  <1> QED
    BY <1>1, <1>2 DEF IInv

(* prepare_action checks exactly the premise of the action it stores.      *)
LEMMA IssueKeepsIInv ==
  ASSUME IInv, NEW call \in Calls, NEW target \in ScenarioTarget,
         NEW action \in StoredScenarioAction,
         target \notin DOMAIN TargetsWithout(ExpiredTokens),
         target \notin DOMAIN pending,
         Applicable(target, action), ~TokenSpaceExhausted,
         IssueToken(call, target, action)
  PROVE  IInv'
  <1> DEFINE T == ExpiredTokens
             G == {prepared[k].target : k \in T}
             p == [target |-> target, action |-> action,
                   expires_at |-> now + ACTIVATION_TOKEN_TTL]
  <1>0. T \subseteq DOMAIN prepared
    BY DEF ExpiredTokens
  <1>1. /\ prepared' = [k \in (DOMAIN prepared \ T) \cup {next_token} |->
                          IF k = next_token THEN p ELSE prepared[k]]
        /\ DOMAIN prepared' = (DOMAIN prepared \ T) \cup {next_token}
    BY DEF IssueToken, PreparedWithout, Without, With, Restrict
  <1>2. /\ prepared_targets' = [t \in (DOMAIN prepared_targets \ G) \cup {target} |->
                                  IF t = target THEN next_token ELSE prepared_targets[t]]
        /\ DOMAIN prepared_targets' = (DOMAIN prepared_targets \ G) \cup {target}
    BY DEF IssueToken, TargetsWithout, Without, With, Restrict
  <1>3. target \notin DOMAIN prepared_targets \ G
    BY DEF TargetsWithout, Without, Restrict
  <1>4. next_token \notin DOMAIN prepared
    BY DEF IInv, TypeOK
  <1>5. \A k \in DOMAIN prepared \ T :
          prepared'[k] = prepared[k] /\ prepared[k].target # target
    <2>1. \A k \in DOMAIN prepared \ T : prepared[k].target \in DOMAIN prepared_targets \ G
      BY <1>0 DEF IInv, PreparationsAreIndexed
    <2> QED
      BY <1>1, <1>3, <1>4, <2>1
  <1>6. TypeOK'
    <2>1. p \in PreparedScenarioAction
      BY BoundsAssumption DEF PreparedScenarioAction, IInv, TypeOK
    <2>2. /\ prepared' \in [DOMAIN prepared' -> PreparedScenarioAction]
          /\ DOMAIN prepared' \subseteq 1..(next_token' - 1)
      BY <1>1, <2>1 DEF IInv, TypeOK, IssueToken
    <2>3. /\ prepared_targets' \in [DOMAIN prepared_targets' -> DOMAIN prepared']
          /\ DOMAIN prepared_targets' \subseteq ScenarioTarget
      BY <1>1, <1>2 DEF IInv, TypeOK, PreparationsAreIndexed
    <2>4. next_token' \in 1..MaxToken
      BY BoundsAssumption DEF IInv, TypeOK, IssueToken, TokenSpaceExhausted
    <2>5. revision' \in Nat
      BY <1>0, DroppedIsFinite DEF IInv, TypeOK, IssueToken
    <2>6. reply' \in [call: Calls, result: Results]
      BY DEF IssueToken, Reply, Results
    <2> QED
      BY <2>2, <2>3, <2>4, <2>5, <2>6 DEF IInv, TypeOK, IssueToken
  <1>7. PreparationsAreIndexed'
    <2>1. \A k \in DOMAIN prepared' :
            /\ prepared'[k].target \in DOMAIN prepared_targets'
            /\ prepared_targets'[prepared'[k].target] = k
      <3> SUFFICES ASSUME NEW k \in DOMAIN prepared'
                   PROVE  /\ prepared'[k].target \in DOMAIN prepared_targets'
                          /\ prepared_targets'[prepared'[k].target] = k
        OBVIOUS
      <3>1. CASE k = next_token
        BY <1>1, <1>2, <3>1
      <3>2. CASE k # next_token
        <4>1. k \in DOMAIN prepared \ T /\ prepared'[k] = prepared[k]
          BY <1>1, <3>2
        <4>2. prepared[k].target \in DOMAIN prepared_targets \ G
          BY <1>0, <4>1 DEF IInv, PreparationsAreIndexed
        <4> QED
          BY <1>2, <1>5, <4>1, <4>2 DEF IInv, PreparationsAreIndexed
      <3> QED
        BY <3>1, <3>2
    <2>2. \A t \in DOMAIN prepared_targets' : prepared'[prepared_targets'[t]].target = t
      BY <1>1, <1>2, <1>4 DEF IInv, PreparationsAreIndexed, TypeOK
    <2> QED
      BY <2>1, <2>2 DEF PreparationsAreIndexed
  <1>8. ActionsStayApplicable'
    <2>1. UNCHANGED <<active, pending>>
      BY DEF IssueToken
    <2> QED
      BY <1>1, <1>5, <2>1 DEF IInv, ActionsStayApplicable, Applicable, IsSustained
  <1> QED
    BY <1>6, <1>7, <1>8 DEF IInv

(* prepare_action, with each of its four refusals and its success.         *)
LEMMA PrepareActionKeepsIInv ==
  ASSUME IInv, NEW call \in Calls, NEW target \in ScenarioTarget,
         NEW action \in StoredScenarioAction, NEW permits \in BOOLEAN,
         ~TargetBusy(target, permits) => Applicable(target, action),
         prepare_action(call, target, action, permits)
  PROVE  IInv'
  <1>1. CASE \E r \in Results : discard_expired_preparations /\ Return(call, r)
    <2> PICK r \in Results : discard_expired_preparations /\ Return(call, r)
      BY <1>1
    <2>1. ExpiredTokens \in SUBSET DOMAIN prepared
      BY DEF ExpiredTokens
    <2>2. reply' \in [call: Calls, result: Results]
      BY DEF Return, Reply
    <2> QED
      BY <2>1, <2>2, DropKeepsIInv DEF discard_expired_preparations, Return
  <1>2. CASE /\ ~TargetBusy(target, permits) /\ ~TokenSpaceExhausted
             /\ IssueToken(call, target, action)
    BY <1>2, IssueKeepsIInv DEF TargetBusy
  <1> QED
    BY <1>1, <1>2 DEF prepare_action, Results

(* prepare_activation: permits no active target, so the activation it      *)
(* stores is applicable.                                                   *)
LEMMA PrepareActivationKeepsIInv ==
  ASSUME IInv, NEW target \in ScenarioTarget, NEW scenario \in Catalog,
         prepare_activation(target, scenario)
  PROVE  IInv'
  <1>1. CASE /\ Return("prepare_activation", "IncompatibleTarget")
             /\ UNCHANGED <<prepared, prepared_targets, revision>>
    <2>1. reply' \in [call: Calls, result: Results]
      BY <1>1 DEF Return, Reply, Calls, Results
    <2> QED
      BY <1>1, <2>1, ReturnKeepsIInv DEF Return, IInv, TypeOK
  <1>2. CASE prepare_action("prepare_activation", target, Activate(scenario), FALSE)
    <2>1. Activate(scenario) \in StoredScenarioAction
      BY DEF StoredScenarioAction
    <2>2. ~TargetBusy(target, FALSE) => Applicable(target, Activate(scenario))
      BY ActivateIsNotClear DEF TargetBusy, Applicable
    <2> QED
      BY <1>2, <2>1, <2>2, PrepareActionKeepsIInv DEF Calls
  <1> QED
    BY <1>1, <1>2 DEF prepare_activation

(* prepare_clear: looks for a sustained scenario, so the clear it stores   *)
(* is applicable.                                                          *)
LEMMA PrepareClearKeepsIInv ==
  ASSUME IInv, NEW target \in ScenarioTarget, prepare_clear(target)
  PROVE  IInv'
  <1>1. CASE \E r \in Results : discard_expired_preparations /\ Return("prepare_clear", r)
    <2> PICK r \in Results : discard_expired_preparations /\ Return("prepare_clear", r)
      BY <1>1
    <2>1. ExpiredTokens \in SUBSET DOMAIN prepared
      BY DEF ExpiredTokens
    <2>2. reply' \in [call: Calls, result: Results]
      BY DEF Return, Reply, Calls
    <2> QED
      BY <2>1, <2>2, DropKeepsIInv DEF discard_expired_preparations, Return
  <1>2. CASE /\ TargetBusy(target, TRUE) \/ (target \in DOMAIN active /\ IsSustained(target))
             /\ prepare_action("prepare_clear", target, Clear, TRUE)
    <2>1. Clear \in StoredScenarioAction
      BY DEF StoredScenarioAction
    <2>2. ~TargetBusy(target, TRUE) => Applicable(target, Clear)
      BY <1>2 DEF Applicable
    <2> QED
      BY <1>2, <2>1, <2>2, PrepareActionKeepsIInv DEF Calls
  <1> QED
    BY <1>1, <1>2 DEF prepare_clear, Results

(* confirm and cancel on a token that is unknown or has expired.           *)
LEMMA ConsumeKeepsIInv ==
  ASSUME IInv, NEW call \in Calls, NEW token,
         ConsumeUnknown(call, token) \/ ConsumeExpired(call, token)
  PROVE  IInv'
  <1>1. CASE ConsumeUnknown(call, token)
    <2>1. reply' \in [call: Calls, result: Results]
      BY <1>1 DEF ConsumeUnknown, Return, Reply, Results
    <2> QED
      BY <1>1, <2>1, ReturnKeepsIInv DEF ConsumeUnknown, Return, IInv, TypeOK
  <1>2. CASE ConsumeExpired(call, token)
    <2>1. reply' \in [call: Calls, result: Results]
      BY <1>2 DEF ConsumeExpired, Return, Reply, Results
    <2>2. {token} \in SUBSET DOMAIN prepared
      BY <1>2 DEF ConsumeExpired, ExpiredTokens
    <2> QED
      BY <1>2, <2>1, <2>2, DropKeepsIInv DEF ConsumeExpired, Return
  <1> QED
    BY <1>1, <1>2

(* By the invariant, the checks confirm repeats succeed for a live token.  *)
LEMMA ConfirmVerdictIsOk ==
  ASSUME IInv, NEW token \in DOMAIN prepared
  PROVE  ConfirmVerdict(prepared[token]) = "Ok"
  BY DEF IInv, ActionsStayApplicable, Applicable, ConfirmVerdict

(* confirm moves an applicable action from the prepared to the pending     *)
(* map.                                                                    *)
LEMMA ConfirmKeepsIInv ==
  ASSUME IInv, NEW token \in 1..MaxToken, confirm(token)
  PROVE  IInv'
  <1>1. CASE ConsumeUnknown("confirm", token) \/ ConsumeExpired("confirm", token)
    BY <1>1, ConsumeKeepsIInv DEF Calls
  <1>2. CASE ConsumeLive(token) /\ ~(ConsumeUnknown("confirm", token) \/ ConsumeExpired("confirm", token))
    <2> DEFINE p == prepared[token]
               T == ExpiredTokens \cup {token}
    <2>1. /\ token \in DOMAIN prepared
          /\ T \in SUBSET DOMAIN prepared
          /\ DropPreparations(T)
      BY <1>2 DEF ConsumeLive, ExpiredTokens
    <2>2. /\ pending' = With(pending, p.target, p.action)
          /\ reply' = Reply("confirm", "Ok")
          /\ UNCHANGED <<active, current_sample_index, next_token, now>>
      BY <1>2, <2>1, ConfirmVerdictIsOk DEF confirm
    <2>3. /\ pending' = [t \in DOMAIN pending \cup {p.target} |->
                           IF t = p.target THEN p.action ELSE pending[t]]
          /\ DOMAIN pending' = DOMAIN pending \cup {p.target}
      BY <2>2 DEF With
    <2>4. p \in PreparedScenarioAction
      BY <2>1 DEF IInv, TypeOK
    <2>5. TypeOK'
      <3>1. pending' \in [DOMAIN pending' -> StoredScenarioAction]
            /\ DOMAIN pending' \subseteq ScenarioTarget
        BY <2>3, <2>4 DEF IInv, TypeOK, PreparedScenarioAction
      <3>2. reply' \in [call: Calls, result: Results]
        BY <2>2 DEF Reply, Calls, Results
      <3> QED
        BY <2>1, <2>2, <3>1, <3>2, DropKeepsIndex DEF IInv, TypeOK
    <2>6. PreparationsAreIndexed'
      BY <2>1, <2>2, DropKeepsIndex
    <2>7. ActionsStayApplicable'
      <3>1. \A k \in DOMAIN prepared \ {token} : prepared[k].target # p.target
        BY <2>1 DEF IInv, PreparationsAreIndexed
      <3>2. /\ DOMAIN prepared' = DOMAIN prepared \ T
            /\ \A k \in DOMAIN prepared' : prepared'[k] = prepared[k]
        BY <2>1, <2>2, DropKeepsIndex
      <3> QED
        BY <2>1, <2>2, <2>3, <3>1, <3>2
           DEF IInv, ActionsStayApplicable, Applicable, IsSustained
    <2> QED
      BY <2>5, <2>6, <2>7 DEF IInv
  <1> QED
    BY <1>1, <1>2 DEF confirm

(* cancel withdraws a preparation.                                         *)
LEMMA CancelKeepsIInv ==
  ASSUME IInv, NEW token \in 1..MaxToken, cancel(token)
  PROVE  IInv'
  <1>1. CASE ConsumeUnknown("cancel", token) \/ ConsumeExpired("cancel", token)
    BY <1>1, ConsumeKeepsIInv DEF Calls
  <1>2. CASE ConsumeLive(token) /\ Return("cancel", "Ok")
    <2>1. ExpiredTokens \cup {token} \in SUBSET DOMAIN prepared
      BY <1>2 DEF ConsumeLive, ExpiredTokens
    <2>2. reply' \in [call: Calls, result: Results]
      BY <1>2 DEF Return, Reply, Calls, Results
    <2> QED
      BY <1>2, <2>1, <2>2, DropKeepsIInv DEF ConsumeLive, Return
  <1> QED
    BY <1>1, <1>2 DEF cancel

(* snapshot only discards what has expired.                                *)
LEMMA SnapshotKeepsIInv ==
  ASSUME IInv, snapshot
  PROVE  IInv'
  <1>1. ExpiredTokens \in SUBSET DOMAIN prepared
    BY DEF ExpiredTokens
  <1>2. reply' \in [call: Calls, result: Results]
    BY DEF snapshot, Return, Reply, Calls, Results
  <1> QED
    BY <1>1, <1>2, DropKeepsIInv DEF snapshot, discard_expired_preparations, Return

(* What a successful boundary leaves active.                               *)
LEMMA BoundaryActive ==
  ASSUME TypeOK, NEW sample,
         active' = expire_transient_actions(AppliedActive(sample), sample)
  PROVE  /\ active' = [t \in DOMAIN active' |-> AppliedActive(sample)[t]]
         /\ \A t \in DOMAIN active' : active'[t] = AppliedActive(sample)[t]
         /\ DOMAIN active' = {t \in (DOMAIN active \cup DOMAIN pending) \ Cleared :
              ~(/\ AppliedActive(sample)[t].scenario.lifecycle = "Transient"
                /\ is_expired_at(AppliedActive(sample)[t], sample))}
         /\ \A t \in DOMAIN active' :
              active'[t] = IF t \in DOMAIN pending
                             THEN [scenario |-> pending[t].scenario,
                                   first_eligible_boundary |-> sample]
                             ELSE active[t]
  <1> DEFINE A == AppliedActive(sample)
  <1>1. DOMAIN A = (DOMAIN active \cup DOMAIN pending) \ Cleared
    BY DEF AppliedActive
  <1>2. \A t \in DOMAIN A : A[t] = IF t \in DOMAIN pending
                             THEN [scenario |-> pending[t].scenario,
                                   first_eligible_boundary |-> sample]
                             ELSE active[t]
    BY DEF AppliedActive
  <1> HIDE DEF A
  <1>3. active' = [t \in DOMAIN A \ {u \in DOMAIN A : /\ A[u].scenario.lifecycle = "Transient"
                                                     /\ is_expired_at(A[u], sample)} |-> A[t]]
    BY DEF expire_transient_actions, Without, Restrict, A
  <1> QED
    BY <1>1, <1>2, <1>3 DEF A

(* advance_boundary: a preparation stays applicable because no pending     *)
(* action shares its target and no transient that ends is the premise of a *)
(* clear.                                                                  *)
LEMMA AdvanceKeepsIInv ==
  ASSUME IInv, NEW sample \in 0..MaxSample, advance_boundary(sample)
  PROVE  IInv'
  <1>1. CASE /\ Return("advance_boundary", "NonMonotonicBoundary")
             /\ UNCHANGED <<prepared, prepared_targets, revision>>
    <2>1. reply' \in [call: Calls, result: Results]
      BY <1>1 DEF Return, Reply, Calls, Results
    <2> QED
      BY <1>1, <2>1, ReturnKeepsIInv DEF Return, IInv, TypeOK
  <1>2. CASE /\ sample > current_sample_index
             /\ current_sample_index' = sample
             /\ pending' = EmptyMap
             /\ active' = expire_transient_actions(AppliedActive(sample), sample)
             /\ revision' \in {revision, revision + 1}
             /\ reply' = Reply("advance_boundary", "Ok")
             /\ UNCHANGED <<prepared, prepared_targets, next_token, now>>
    <2>1. DOMAIN pending' = {} /\ pending' \in [DOMAIN pending' -> StoredScenarioAction]
      BY <1>2 DEF EmptyMap
    <2>2. \A t \in DOMAIN pending \ Cleared : pending[t].scenario \in Catalog
      BY ActivateIsNotClear DEF IInv, TypeOK, Cleared, StoredScenarioAction
    <2>3. sample \in Nat
      BY BoundsAssumption
    <2>4. \A t \in DOMAIN active' : active'[t] \in ActiveScenarioAction
      <3> SUFFICES ASSUME NEW t \in DOMAIN active' PROVE active'[t] \in ActiveScenarioAction
        OBVIOUS
      <3>1. CASE t \in DOMAIN pending
        <4>1. t \notin Cleared
          BY <1>2, BoundaryActive DEF IInv
        <4>2. active'[t] = [scenario |-> pending[t].scenario,
                            first_eligible_boundary |-> sample]
          BY <1>2, <3>1, BoundaryActive DEF IInv
        <4> QED
          BY <2>2, <2>3, <3>1, <4>1, <4>2 DEF ActiveScenarioAction
      <3>2. CASE t \notin DOMAIN pending
        BY <1>2, <3>2, BoundaryActive DEF IInv, TypeOK
      <3> QED
        BY <3>1, <3>2
    <2>5. active' \in [DOMAIN active' -> ActiveScenarioAction]
      BY <1>2, <2>4, BoundaryActive DEF IInv
    <2>6. DOMAIN active' \subseteq ScenarioTarget
      <3>1. DOMAIN active' \subseteq DOMAIN active \cup DOMAIN pending
        BY <1>2, BoundaryActive DEF IInv
      <3> QED
        BY <3>1 DEF IInv, TypeOK
    <2>7. TypeOK'
      <3>1. reply' \in [call: Calls, result: Results]
        BY <1>2 DEF Reply, Calls, Results
      <3> QED
        BY <1>2, <2>1, <2>3, <2>5, <2>6, <3>1 DEF IInv, TypeOK
    <2>8. PreparationsAreIndexed'
      BY <1>2 DEF IInv, PreparationsAreIndexed
    <2>9. ActionsStayApplicable'
      <3> SUFFICES ASSUME NEW k \in DOMAIN prepared
                   PROVE  Applicable(prepared[k].target, prepared[k].action)'
        BY <1>2, <2>1 DEF ActionsStayApplicable
      <3> DEFINE t == prepared[k].target
      <3>1. t \notin DOMAIN pending /\ Applicable(t, prepared[k].action)
        BY DEF IInv, ActionsStayApplicable
      <3>2. CASE prepared[k].action # Clear
        BY <1>2, <3>1, <3>2, BoundaryActive DEF IInv, Applicable
      <3>3. CASE prepared[k].action = Clear
        <4>1. t \in DOMAIN active /\ active[t].scenario.lifecycle = "Sustained"
          BY <3>1, <3>3 DEF Applicable, IsSustained
        <4>2. t \in DOMAIN AppliedActive(sample) /\ AppliedActive(sample)[t] = active[t]
          BY <3>1, <4>1 DEF AppliedActive, Cleared
        <4>3. t \in DOMAIN active' /\ active'[t] = active[t]
          <5>1. t \in (DOMAIN active \cup DOMAIN pending) \ Cleared
            BY <3>1, <4>1 DEF Cleared
          <5>2. AppliedActive(sample)[t].scenario.lifecycle # "Transient"
            BY <4>1, <4>2
          <5>3. t \in DOMAIN active'
            BY <1>2, <5>1, <5>2, BoundaryActive DEF IInv
          <5> QED
            BY <1>2, <3>1, <5>3, BoundaryActive DEF IInv
        <4> QED
          BY <1>2, <3>3, <4>1, <4>3 DEF Applicable, IsSustained
      <3> QED
        BY <3>2, <3>3
    <2> QED
      BY <2>7, <2>8, <2>9 DEF IInv
  <1> QED
    <2>1. revision \in Nat
      BY DEF IInv, TypeOK
    <2> QED
      BY <1>1, <1>2, <2>1 DEF advance_boundary

(* Time alone changes no record.                                           *)
LEMMA TickKeepsIInv ==
  ASSUME IInv, Tick
  PROVE  IInv'
  <1>1. /\ UNCHANGED <<prepared, prepared_targets, pending, active, next_token, revision>>
        /\ reply' \in [call: Calls, result: Results]
        /\ current_sample_index' \in Nat \cup {NoSample}
        /\ now' \in Nat
    BY DEF Tick, records, IInv, TypeOK
  <1> QED
    BY <1>1, ReturnKeepsIInv

(* The invariant is inductive.                                             *)
LEMMA NextKeepsIInv == IInv /\ [Next]_vars => IInv'
  <1> SUFFICES ASSUME IInv, [Next]_vars PROVE IInv'
    OBVIOUS
  <1>1. CASE \E t \in ScenarioTarget, s \in Catalog : prepare_activation(t, s)
    BY <1>1, PrepareActivationKeepsIInv
  <1>2. CASE \E t \in ScenarioTarget : prepare_clear(t)
    BY <1>2, PrepareClearKeepsIInv
  <1>3. CASE \E k \in 1..MaxToken : confirm(k)
    BY <1>3, ConfirmKeepsIInv
  <1>4. CASE \E k \in 1..MaxToken : cancel(k)
    BY <1>4, CancelKeepsIInv
  <1>5. CASE snapshot
    BY <1>5, SnapshotKeepsIInv
  <1>6. CASE \E i \in 0..MaxSample : advance_boundary(i)
    BY <1>6, AdvanceKeepsIInv
  <1>7. CASE Tick
    BY <1>7, TickKeepsIInv
  <1>8. CASE UNCHANGED vars
    BY <1>8, ReturnKeepsIInv DEF vars, IInv, TypeOK
  <1> QED
    BY <1>1, <1>2, <1>3, <1>4, <1>5, <1>6, <1>7, <1>8 DEF Next

(* The invariant holds in every reachable state.                           *)
LEMMA SpecIInv == Spec => []IInv
  BY InitIInv, NextKeepsIInv, PTL DEF Spec

-----------------------------------------------------------------------------
(* Every reachable controller state is well typed, in particular tokens    *)
(* are below next_token and every indexed token is prepared.               *)
THEOREM TypeCorrect == Spec => []TypeOK
  BY SpecIInv, PTL DEF IInv

(* The token map and the target map stay inverse to each other, although   *)
(* confirm, cancel and lazy expiry update them one after the other.        *)
THEOREM PreparationIndex == Spec => []PreparationsAreIndexed
  BY SpecIInv, PTL DEF IInv

(* What made an action admissible when it was prepared holds until it is   *)
(* applied, and no target has two actions under way.                       *)
THEOREM PremisesPersist == Spec => []ActionsStayApplicable
  BY SpecIInv, PTL DEF IInv

(* Whatever prepare_action answers, it answers for the call it serves.     *)
LEMMA PrepareActionReplies ==
  ASSUME NEW call \in Calls, NEW target \in ScenarioTarget,
         NEW action \in StoredScenarioAction, NEW permits \in BOOLEAN,
         prepare_action(call, target, action, permits)
  PROVE  reply'.call = call
  BY DEF prepare_action, IssueToken, Return, Reply

(* An operator who confirms a live token is always served: the re-checks   *)
(* in confirm, which run after the token has been consumed, never refuse.  *)
THEOREM ConfirmIsNeverRefused == Spec => []LiveConfirmSucceeds
  <1>1. Init => LiveConfirmSucceeds
    BY DEF Init, LiveConfirmSucceeds, Reply
  <1>2. IInv /\ LiveConfirmSucceeds /\ [Next]_vars => LiveConfirmSucceeds'
    <2> SUFFICES ASSUME IInv, LiveConfirmSucceeds, [Next]_vars
                 PROVE  LiveConfirmSucceeds'
      OBVIOUS
    <2>1. ASSUME NEW k \in 1..MaxToken, confirm(k) PROVE LiveConfirmSucceeds'
      <3>1. CASE ConsumeUnknown("confirm", k) \/ ConsumeExpired("confirm", k)
        BY <3>1 DEF ConsumeUnknown, ConsumeExpired, Return, Reply, LiveConfirmSucceeds
      <3>2. CASE ConsumeLive(k) /\ reply' = Reply("confirm", ConfirmVerdict(prepared[k]))
        <4>1. k \in DOMAIN prepared
          BY <3>2 DEF ConsumeLive
        <4> QED
          BY <3>2, <4>1, ConfirmVerdictIsOk DEF Reply, LiveConfirmSucceeds
      <3> QED
        BY <2>1, <3>1, <3>2 DEF confirm
    <2>2. ASSUME NEW t \in ScenarioTarget, NEW s \in Catalog, prepare_activation(t, s)
          PROVE  LiveConfirmSucceeds'
      <3>1. CASE Return("prepare_activation", "IncompatibleTarget")
        BY <3>1 DEF Return, Reply, LiveConfirmSucceeds
      <3>2. CASE prepare_action("prepare_activation", t, Activate(s), FALSE)
        <4>1. reply'.call = "prepare_activation"
          BY <3>2, PrepareActionReplies DEF Calls, StoredScenarioAction
        <4> QED
          BY <4>1 DEF LiveConfirmSucceeds
      <3> QED
        BY <2>2, <3>1, <3>2 DEF prepare_activation
    <2>3. ASSUME NEW t \in ScenarioTarget, prepare_clear(t)
          PROVE  LiveConfirmSucceeds'
      <3>1. CASE \E r \in Results : Return("prepare_clear", r)
        BY <3>1 DEF Return, Reply, LiveConfirmSucceeds
      <3>2. CASE prepare_action("prepare_clear", t, Clear, TRUE)
        <4>1. reply'.call = "prepare_clear"
          BY <3>2, PrepareActionReplies DEF Calls, StoredScenarioAction
        <4> QED
          BY <4>1 DEF LiveConfirmSucceeds
      <3> QED
        BY <2>3, <3>1, <3>2 DEF prepare_clear, Results
    <2>4. CASE \E k \in 1..MaxToken : cancel(k)
      BY <2>4 DEF cancel, ConsumeUnknown, ConsumeExpired, Return, Reply, LiveConfirmSucceeds
    <2>5. CASE snapshot
      BY <2>5 DEF snapshot, Return, Reply, LiveConfirmSucceeds
    <2>6. CASE \E i \in 0..MaxSample : advance_boundary(i)
      BY <2>6 DEF advance_boundary, Return, Reply, LiveConfirmSucceeds
    <2>7. CASE Tick \/ UNCHANGED vars
      BY <2>7 DEF Tick, vars, LiveConfirmSucceeds
    <2> QED
      BY <2>1, <2>2, <2>3, <2>4, <2>5, <2>6, <2>7 DEF Next
  <1> QED
    BY <1>1, <1>2, SpecIInv, PTL DEF Spec

(* Every step other than a successful boundary leaves the running          *)
(* scenarios and the sample index alone.                                   *)
LEMMA OnlyBoundaryChangesActive ==
  ASSUME [Next]_vars
  PROVE  \/ UNCHANGED <<active, current_sample_index>>
         \/ \E i \in 0..MaxSample :
              /\ i > current_sample_index
              /\ current_sample_index' = i
              /\ pending' = EmptyMap
              /\ active' = expire_transient_actions(AppliedActive(i), i)
  <1>1. CASE \E t \in ScenarioTarget, s \in Catalog : prepare_activation(t, s)
    BY <1>1 DEF prepare_activation, prepare_action, IssueToken, Return
  <1>2. CASE \E t \in ScenarioTarget : prepare_clear(t)
    BY <1>2 DEF prepare_clear, prepare_action, IssueToken, Return
  <1>3. CASE \E k \in 1..MaxToken : confirm(k) \/ cancel(k)
    BY <1>3 DEF confirm, cancel, ConsumeUnknown, ConsumeExpired, Return
  <1>4. CASE snapshot \/ Tick \/ UNCHANGED vars
    BY <1>4 DEF snapshot, Return, Tick, records, vars
  <1>5. CASE \E i \in 0..MaxSample : advance_boundary(i)
    BY <1>5 DEF advance_boundary, Return
  <1> QED
    BY <1>1, <1>2, <1>3, <1>4, <1>5 DEF Next

(* A confirmed action leaves the pending map at such a boundary only.      *)
LEMMA OnlyBoundaryTakesPending ==
  ASSUME [Next]_vars, NEW t \in DOMAIN pending \ DOMAIN pending'
  PROVE  \E i \in 0..MaxSample :
           /\ current_sample_index' = i
           /\ active' = expire_transient_actions(AppliedActive(i), i)
  <1>1. CASE \E u \in ScenarioTarget, s \in Catalog : prepare_activation(u, s)
    BY <1>1 DEF prepare_activation, prepare_action, IssueToken, Return
  <1>2. CASE \E u \in ScenarioTarget : prepare_clear(u)
    BY <1>2 DEF prepare_clear, prepare_action, IssueToken, Return
  <1>3. CASE \E k \in 1..MaxToken : confirm(k) \/ cancel(k)
    BY <1>3 DEF confirm, cancel, ConsumeUnknown, ConsumeExpired, Return, With
  <1>4. CASE snapshot \/ Tick \/ UNCHANGED vars
    BY <1>4 DEF snapshot, Return, Tick, records, vars
  <1>5. CASE \E i \in 0..MaxSample : advance_boundary(i)
    BY <1>5 DEF advance_boundary, Return
  <1> QED
    BY <1>1, <1>2, <1>3, <1>4, <1>5 DEF Next

(* A transient never stays active past its duration, however many          *)
(* boundaries the scheduler skipped.                                       *)
THEOREM TransientsAreBounded == Spec => []TransientsEndOnTime
  <1>1. Init => TransientsEndOnTime
    BY DEF Init, EmptyMap, TransientsEndOnTime
  <1>2. IInv /\ TransientsEndOnTime /\ [Next]_vars => TransientsEndOnTime'
    <2> SUFFICES ASSUME IInv, TransientsEndOnTime, [Next]_vars
                 PROVE  TransientsEndOnTime'
      OBVIOUS
    <2>1. CASE UNCHANGED <<active, current_sample_index>>
      BY <2>1 DEF TransientsEndOnTime
    <2>2. ASSUME NEW i \in 0..MaxSample, current_sample_index' = i,
                 active' = expire_transient_actions(AppliedActive(i), i)
          PROVE  TransientsEndOnTime'
      <3>1. \A t \in DOMAIN active' : active'[t] = AppliedActive(i)[t]
        BY <2>2, BoundaryActive DEF IInv
      <3>2. \A t \in DOMAIN active' :
              AppliedActive(i)[t].scenario.lifecycle = "Transient"
                => ~is_expired_at(AppliedActive(i)[t], i)
        BY <2>2, BoundaryActive DEF IInv
      <3>3. \A t \in DOMAIN active' :
              /\ active'[t].first_eligible_boundary \in Nat
              /\ active'[t].scenario \in Catalog
        BY NextKeepsIInv DEF IInv, TypeOK, ActiveScenarioAction
      <3> SUFFICES ASSUME NEW t \in DOMAIN active',
                          active'[t].scenario.lifecycle = "Transient"
                   PROVE  i < active'[t].first_eligible_boundary
                                + active'[t].scenario.start_frame_offset
                                + active'[t].scenario.duration_frames
        BY <2>2 DEF TransientsEndOnTime
      <3>4. /\ active'[t].scenario.start_frame_offset \in Nat
            /\ active'[t].scenario.duration_frames \in Nat
        BY <3>3, CatalogAssumption DEF compile_scenario
      <3>5. ~is_expired_at(active'[t], i)
        BY <3>1, <3>2
      <3> QED
        BY <3>3, <3>4, <3>5 DEF is_expired_at
    <2> QED
      BY <2>1, <2>2, OnlyBoundaryChangesActive
  <1> QED
    BY <1>1, <1>2, SpecIInv, PTL DEF Spec

-----------------------------------------------------------------------------
(***************************************************************************)
(* What one step of the controller does to its records: nothing; the loss  *)
(* of preparations; the issue of a token; the consumption of a live one by *)
(* confirm; or a boundary.  A token is issued only for an action that      *)
(* suits its target, which is what prepare_activation validates.           *)
(***************************************************************************)
Compatible(t, a) == a # Clear => validate_scenario_target(t, a.scenario.kind)
StepIdles == UNCHANGED <<records, next_token, revision>>
StepDrops ==
  /\ \E T \in SUBSET DOMAIN prepared : DropPreparations(T)
  /\ UNCHANGED <<pending, active, next_token>>
StepIssues ==
  \E call \in Calls, t \in ScenarioTarget, a \in StoredScenarioAction :
    /\ ~TargetCapacityExceeded(t)
    /\ Compatible(t, a)
    /\ IssueToken(call, t, a)
StepConfirms ==
  \E k \in DOMAIN prepared \ ExpiredTokens :
    /\ DropPreparations(ExpiredTokens \cup {k})
    /\ pending' = With(pending, prepared[k].target, prepared[k].action)
    /\ UNCHANGED <<active, next_token>>
StepCrosses ==
  \E i \in 0..MaxSample :
    /\ pending' = EmptyMap
    /\ active' = expire_transient_actions(AppliedActive(i), i)
    /\ revision' = revision + IF LifecycleChanged(active', i) THEN 1 ELSE 0
    /\ UNCHANGED <<prepared, prepared_targets, next_token>>

(* Whatever prepare_action does is a loss of expired preparations or the   *)
(* issue of a token within the capacity.                                   *)
LEMMA PrepareActionSteps ==
  ASSUME NEW call \in Calls, NEW t \in ScenarioTarget, NEW a \in StoredScenarioAction,
         NEW permits \in BOOLEAN, Compatible(t, a), prepare_action(call, t, a, permits)
  PROVE  StepDrops \/ StepIssues
  <1>1. CASE \E r \in Results : discard_expired_preparations /\ Return(call, r)
    <2>1. ExpiredTokens \in SUBSET DOMAIN prepared
      BY DEF ExpiredTokens
    <2> QED
      BY <1>1, <2>1 DEF discard_expired_preparations, Return, StepDrops
  <1>2. CASE ~TargetCapacityExceeded(t) /\ IssueToken(call, t, a)
    BY <1>2 DEF StepIssues
  <1> QED
    BY <1>1, <1>2 DEF prepare_action, Results

(* What confirm and cancel do with a token that is unknown or expired.     *)
LEMMA ConsumeSteps ==
  ASSUME NEW k, NEW call, ConsumeUnknown(call, k) \/ ConsumeExpired(call, k)
  PROVE  StepIdles \/ StepDrops
  <1>1. CASE ConsumeUnknown(call, k)
    BY <1>1 DEF ConsumeUnknown, Return, StepIdles, records
  <1>2. CASE ConsumeExpired(call, k)
    <2>1. {k} \in SUBSET DOMAIN prepared
      BY <1>2 DEF ConsumeExpired, ExpiredTokens
    <2> QED
      BY <1>2, <2>1 DEF ConsumeExpired, Return, StepDrops
  <1> QED
    BY <1>1, <1>2

(* confirm with any token: the action of that very token becomes pending.  *)
LEMMA ConfirmOf ==
  ASSUME IInv, NEW k, confirm(k)
  PROVE  \/ StepIdles \/ StepDrops
         \/ /\ k \in DOMAIN prepared \ ExpiredTokens
            /\ DropPreparations(ExpiredTokens \cup {k})
            /\ pending' = With(pending, prepared[k].target, prepared[k].action)
            /\ UNCHANGED <<active, next_token>>
  <1>1. CASE ConsumeUnknown("confirm", k) \/ ConsumeExpired("confirm", k)
    BY <1>1, ConsumeSteps
  <1>2. CASE ~(ConsumeUnknown("confirm", k) \/ ConsumeExpired("confirm", k))
    <2>1. /\ k \in DOMAIN prepared \ ExpiredTokens
          /\ DropPreparations(ExpiredTokens \cup {k})
          /\ UNCHANGED <<active, next_token>>
      BY <1>2 DEF confirm, ConsumeLive
    <2>2. ConfirmVerdict(prepared[k]) = "Ok"
      BY <2>1, ConfirmVerdictIsOk
    <2>3. pending' = With(pending, prepared[k].target, prepared[k].action)
      BY <1>2, <2>2 DEF confirm
    <2> QED
      BY <2>1, <2>3
  <1> QED
    BY <1>1, <1>2

(* confirm as one of the five kinds.                                       *)
LEMMA ConfirmSteps ==
  ASSUME IInv, NEW k, confirm(k)
  PROVE  StepIdles \/ StepDrops \/ StepConfirms
  BY ConfirmOf DEF StepConfirms

(* cancel only loses preparations.                                         *)
LEMMA CancelSteps ==
  ASSUME NEW k, cancel(k)
  PROVE  StepIdles \/ StepDrops
  <1>1. CASE ConsumeUnknown("cancel", k) \/ ConsumeExpired("cancel", k)
    BY <1>1, ConsumeSteps
  <1>2. CASE ConsumeLive(k) /\ Return("cancel", "Ok")
    <2>1. ExpiredTokens \cup {k} \in SUBSET DOMAIN prepared
      BY <1>2 DEF ConsumeLive, ExpiredTokens
    <2> QED
      BY <1>2, <2>1 DEF ConsumeLive, Return, StepDrops
  <1> QED
    BY <1>1, <1>2 DEF cancel

(* Every step of the specification is one of the five.                     *)
LEMMA StepKinds ==
  ASSUME IInv, [Next]_vars
  PROVE  StepIdles \/ StepDrops \/ StepIssues \/ StepConfirms \/ StepCrosses
  <1>0. ExpiredTokens \in SUBSET DOMAIN prepared
    BY DEF ExpiredTokens
  <1>1. ASSUME NEW t \in ScenarioTarget, NEW s \in Catalog, prepare_activation(t, s)
        PROVE  StepIdles \/ StepDrops \/ StepIssues
    <2>1. CASE /\ Return("prepare_activation", "IncompatibleTarget")
               /\ UNCHANGED <<prepared, prepared_targets, revision>>
      BY <2>1 DEF Return, StepIdles, records
    <2>2. CASE /\ validate_scenario_target(t, s.kind)
               /\ prepare_action("prepare_activation", t, Activate(s), FALSE)
      <3>1. Compatible(t, Activate(s))
        BY <2>2, ActivateIsNotClear DEF Compatible
      <3> QED
        BY <2>2, <3>1, PrepareActionSteps DEF Calls, StoredScenarioAction
    <2> QED
      BY <1>1, <2>1, <2>2 DEF prepare_activation
  <1>2. ASSUME NEW t \in ScenarioTarget, prepare_clear(t)
        PROVE  StepDrops \/ StepIssues
    <2>1. CASE \E r \in Results : discard_expired_preparations /\ Return("prepare_clear", r)
      BY <2>1, <1>0 DEF discard_expired_preparations, Return, StepDrops
    <2>2. CASE prepare_action("prepare_clear", t, Clear, TRUE)
      BY <2>2, PrepareActionSteps DEF Calls, StoredScenarioAction, Compatible
    <2> QED
      BY <1>2, <2>1, <2>2 DEF prepare_clear, Results
  <1>3. ASSUME NEW k \in 1..MaxToken, confirm(k)
        PROVE  StepIdles \/ StepDrops \/ StepConfirms
    BY <1>3, ConfirmSteps
  <1>4. ASSUME NEW k \in 1..MaxToken, cancel(k)
        PROVE  StepIdles \/ StepDrops
    BY <1>4, CancelSteps
  <1>5. CASE snapshot
    BY <1>5, <1>0 DEF snapshot, discard_expired_preparations, Return, StepDrops
  <1>6. ASSUME NEW i \in 0..MaxSample, advance_boundary(i)
        PROVE  StepIdles \/ StepCrosses
    BY <1>6 DEF advance_boundary, Return, StepIdles, StepCrosses, records
  <1>7. CASE Tick \/ UNCHANGED vars
    BY <1>7 DEF Tick, records, vars, StepIdles
  <1> QED
    BY <1>1, <1>2, <1>3, <1>4, <1>5, <1>6, <1>7 DEF Next

(* What the loss of the preparations T leaves of the two maps.             *)
LEMMA Dropped ==
  ASSUME NEW T \in SUBSET DOMAIN prepared, DropPreparations(T)
  PROVE  /\ prepared' = [k \in DOMAIN prepared \ T |-> prepared[k]]
         /\ DOMAIN prepared' = DOMAIN prepared \ T
         /\ \A k \in DOMAIN prepared' : prepared'[k] = prepared[k]
         /\ DOMAIN prepared_targets' = DOMAIN prepared_targets
                                         \ {prepared[k].target : k \in T}
         /\ prepared_targets' = [t \in DOMAIN prepared_targets' |-> prepared_targets[t]]
  BY DEF DropPreparations, PreparedWithout, TargetsWithout, Without, Restrict

(* What the issue of a token leaves of them.                               *)
LEMMA Issued ==
  ASSUME NEW call, NEW t, NEW a, IssueToken(call, t, a)
  PROVE  /\ DOMAIN prepared' = (DOMAIN prepared \ ExpiredTokens) \cup {next_token}
         /\ \A k \in DOMAIN prepared' : k # next_token => prepared'[k] = prepared[k]
         /\ DOMAIN prepared_targets' = DOMAIN TargetsWithout(ExpiredTokens) \cup {t}
         /\ DOMAIN TargetsWithout(ExpiredTokens) \subseteq DOMAIN prepared_targets
  BY DEF IssueToken, PreparedWithout, TargetsWithout, Without, With, Restrict

-----------------------------------------------------------------------------
(* No token is ever issued twice and none comes back: what is prepared     *)
(* after a step was prepared before it, unchanged, or carries the next     *)
(* number of the counter (next_token is only incremented).                 *)
THEOREM TokensAreNeverReused == Spec => TokensAreOneShot
  <1>1. IInv /\ [Next]_vars =>
          [\A k \in DOMAIN prepared' :
             \/ k \in DOMAIN prepared /\ prepared'[k] = prepared[k]
             \/ k = next_token]_vars
    <2> SUFFICES ASSUME IInv, [Next]_vars, NEW k \in DOMAIN prepared'
                 PROVE  \/ k \in DOMAIN prepared /\ prepared'[k] = prepared[k]
                        \/ k = next_token
      OBVIOUS
    <2>1. CASE StepIdles \/ StepCrosses
      BY <2>1 DEF StepIdles, StepCrosses, records
    <2>2. CASE \E T \in SUBSET DOMAIN prepared : DropPreparations(T)
      BY <2>2, Dropped
    <2>3. CASE StepIssues
      BY <2>3, Issued DEF StepIssues
    <2> QED
      <3>1. ExpiredTokens \in SUBSET DOMAIN prepared
        BY DEF ExpiredTokens
      <3> QED
        BY <2>1, <2>2, <2>3, <3>1, StepKinds DEF StepDrops, StepConfirms
  <1> QED
    BY <1>1, SpecIInv, PTL DEF Spec, TokensAreOneShot

(* No action takes effect without its two steps: what becomes pending was  *)
(* prepared under a token that had not expired, what starts was pending,   *)
(* and a sustained scenario ends only by a confirmed clear.                *)
THEOREM ControlTakesTwoSteps == Spec => TwoStepControl
  <1> DEFINE Confirmed ==
        \A t \in DOMAIN pending' \ DOMAIN pending :
          \E k \in DOMAIN prepared \ DOMAIN prepared' :
            /\ prepared[k].target = t
            /\ prepared[k].action = pending'[t]
            /\ now < prepared[k].expires_at
             Started ==
        \A t \in DOMAIN active' :
          \/ t \in DOMAIN active /\ active'[t] = active[t]
          \/ /\ t \in DOMAIN pending \ DOMAIN pending'
             /\ pending[t] = Activate(active'[t].scenario)
             Ended ==
        \A t \in DOMAIN active \ DOMAIN active' :
          IsSustained(t) => t \in DOMAIN pending /\ pending[t] = Clear
  <1>1. ASSUME IInv, [Next]_vars PROVE Confirmed
    <2>1. CASE StepIdles \/ StepDrops \/ StepIssues
      BY <2>1 DEF StepIdles, StepDrops, StepIssues, IssueToken, records
    <2>2. CASE StepCrosses
      BY <2>2 DEF StepCrosses, EmptyMap
    <2>3. CASE StepConfirms
      <3> PICK k \in DOMAIN prepared \ ExpiredTokens :
                 /\ DropPreparations(ExpiredTokens \cup {k})
                 /\ pending' = With(pending, prepared[k].target, prepared[k].action)
        BY <2>3 DEF StepConfirms
      <3>1. ExpiredTokens \cup {k} \in SUBSET DOMAIN prepared
        BY DEF ExpiredTokens
      <3>2. k \in DOMAIN prepared \ DOMAIN prepared'
        <4>1. DOMAIN prepared' = DOMAIN prepared \ (ExpiredTokens \cup {k})
          BY <3>1, Dropped
        <4> QED
          BY <4>1
      <3>3. now < prepared[k].expires_at
        <4>1. now \in Nat /\ prepared[k].expires_at \in Nat
          BY <1>1 DEF IInv, TypeOK, PreparedScenarioAction
        <4> QED
          BY <4>1 DEF ExpiredTokens
      <3> QED
        BY <3>2, <3>3 DEF With
    <2> QED
      BY <1>1, <2>1, <2>2, <2>3, StepKinds
  <1>2. ASSUME IInv, [Next]_vars PROVE Started /\ Ended
    <2>1. CASE UNCHANGED active
      BY <2>1
    <2>2. CASE StepCrosses
      <3> PICK i \in 0..MaxSample :
                 /\ pending' = EmptyMap
                 /\ active' = expire_transient_actions(AppliedActive(i), i)
        BY <2>2 DEF StepCrosses
      <3>0. TypeOK /\ DOMAIN pending' = {}
        BY <1>2 DEF IInv, EmptyMap
      <3>1. Started
        <4> SUFFICES ASSUME NEW t \in DOMAIN active', t \in DOMAIN pending
                     PROVE  pending[t] = Activate(active'[t].scenario)
          BY <3>0, BoundaryActive
        <4>0. DOMAIN active' \subseteq (DOMAIN active \cup DOMAIN pending) \ Cleared
          BY <3>0, BoundaryActive
        <4>1. active'[t].scenario = pending[t].scenario
          <5>1. active'[t] = [scenario |-> pending[t].scenario, first_eligible_boundary |-> i]
            BY <3>0, BoundaryActive
          <5> QED
            BY <5>1
        <4>2. pending[t] \in StoredScenarioAction /\ pending[t] # Clear
          BY <3>0, <4>0 DEF TypeOK, Cleared
        <4> QED
          BY <4>1, <4>2, ActivateIsNotClear DEF StoredScenarioAction
      <3>2. Ended
        <4> SUFFICES ASSUME NEW t \in DOMAIN active \ DOMAIN active', IsSustained(t)
                     PROVE  t \in DOMAIN pending /\ pending[t] = Clear
          OBVIOUS
        <4>1. CASE t \in Cleared
          BY <4>1 DEF Cleared
        <4>2. CASE t \notin Cleared
          <5>1. AppliedActive(i)[t].scenario.lifecycle = "Transient"
            BY <3>0, <4>2, BoundaryActive, ZenonT(60)
          <5>2. t \in DOMAIN pending
            BY <4>2, <5>1 DEF AppliedActive, IsSustained
          <5>3. Applicable(t, pending[t])
            BY <1>2, <5>2 DEF IInv, ActionsStayApplicable
          <5> QED
            BY <5>2, <5>3 DEF Applicable
        <4> QED
          BY <4>1, <4>2
      <3> QED
        BY <3>1, <3>2
    <2> QED
      BY <1>2, <2>1, <2>2, StepKinds
         DEF StepIdles, StepDrops, StepIssues, StepConfirms, IssueToken, records
  <1>3. IInv /\ [Next]_vars => [Confirmed /\ Started /\ Ended]_vars
    BY <1>1, <1>2
  <1> QED
    BY <1>3, SpecIInv, PTL DEF Spec, TwoStepControl

(* A step changes the revision exactly if it changes a record.             *)
LEMMA RevisionStep ==
  ASSUME IInv, [Next]_vars
  PROVE  (records' # records <=> revision' # revision) /\ revision' >= revision
  <1>0. /\ TypeOK /\ revision \in Nat
        /\ ExpiredTokens \in SUBSET DOMAIN prepared
    BY DEF IInv, TypeOK, ExpiredTokens
  <1>1. CASE StepIdles
    BY <1>0, <1>1 DEF StepIdles
  <1>2. CASE StepDrops
    <2> PICK T \in SUBSET DOMAIN prepared : DropPreparations(T)
      BY <1>2 DEF StepDrops
    <2>1. revision' = revision + Cardinality(T) /\ IsFiniteSet(T) /\ Cardinality(T) \in Nat
      BY <1>0, DroppedIsFinite DEF DropPreparations
    <2>2. CASE T = {}
      <3>1. Cardinality(T) = 0
        BY <2>2, FS_EmptySet
      <3>2. prepared' = prepared
        <4>1. prepared' = [k \in DOMAIN prepared \ T |-> prepared[k]]
          BY Dropped
        <4>2. prepared = [k \in DOMAIN prepared |-> prepared[k]]
          BY <1>0 DEF TypeOK
        <4>3. DOMAIN prepared \ T = DOMAIN prepared
          BY <2>2
        <4> QED
          BY <4>1, <4>2, <4>3
      <3>3. prepared_targets' = prepared_targets
        <4>1. prepared_targets' = [t \in DOMAIN prepared_targets' |-> prepared_targets[t]]
          BY Dropped
        <4>2. prepared_targets = [t \in DOMAIN prepared_targets |-> prepared_targets[t]]
          BY <1>0 DEF TypeOK
        <4>3. DOMAIN prepared_targets' = DOMAIN prepared_targets
          <5>1. DOMAIN prepared_targets' =
                  DOMAIN prepared_targets \ {prepared[k].target : k \in T}
            BY Dropped
          <5>2. {prepared[k].target : k \in T} = {}
            BY <2>2
          <5> QED
            BY <5>1, <5>2
        <4> QED
          BY <4>1, <4>2, <4>3
      <3> QED
        BY <1>0, <1>2, <2>1, <3>1, <3>2, <3>3 DEF StepDrops, records
    <2>3. CASE T # {}
      <3>1. Cardinality(T) # 0
        BY <2>1, <2>3, FS_EmptySet
      <3>2. prepared' # prepared
        BY <2>3, Dropped
      <3> QED
        BY <1>0, <2>1, <3>1, <3>2 DEF records
    <2> QED
      BY <2>2, <2>3
  <1>3. CASE StepIssues
    <2> PICK call \in Calls, t \in ScenarioTarget, a \in StoredScenarioAction :
               IssueToken(call, t, a)
      BY <1>3 DEF StepIssues
    <2>1. Cardinality(ExpiredTokens) \in Nat
      BY <1>0, DroppedIsFinite
    <2>2. revision' = revision + Cardinality(ExpiredTokens) + 1
      BY DEF IssueToken
    <2>3. prepared' # prepared
      <3>1. next_token \in DOMAIN prepared'
        BY Issued
      <3>2. next_token \notin DOMAIN prepared
        BY <1>0 DEF TypeOK
      <3> QED
        BY <3>1, <3>2
    <2> QED
      BY <1>0, <2>1, <2>2, <2>3 DEF records
  <1>4. CASE StepConfirms
    <2> PICK k \in DOMAIN prepared \ ExpiredTokens :
               DropPreparations(ExpiredTokens \cup {k})
      BY <1>4 DEF StepConfirms
    <2> DEFINE T == ExpiredTokens \cup {k}
    <2>1. T \in SUBSET DOMAIN prepared
      BY <1>0
    <2>2. revision' = revision + Cardinality(T) /\ IsFiniteSet(T) /\ Cardinality(T) \in Nat
      BY <1>0, <2>1, DroppedIsFinite DEF DropPreparations
    <2>3. Cardinality(T) # 0
      BY <2>2, FS_EmptySet
    <2>4. prepared' # prepared
      BY <2>1, Dropped, ZenonT(60)
    <2> QED
      BY <1>0, <2>2, <2>3, <2>4 DEF records
  <1>5. CASE StepCrosses
    <2> PICK i \in 0..MaxSample :
               /\ pending' = EmptyMap
               /\ active' = expire_transient_actions(AppliedActive(i), i)
               /\ revision' = revision + IF LifecycleChanged(active', i) THEN 1 ELSE 0
               /\ UNCHANGED <<prepared, prepared_targets, next_token>>
      BY <1>5 DEF StepCrosses
    <2>1. CASE DOMAIN pending # {}
      <3>1. pending' # pending
        BY <2>1 DEF EmptyMap
      <3> QED
        BY <1>0, <2>1, <3>1 DEF LifecycleChanged, records
    <2>2. CASE DOMAIN pending = {}
      <3>1. pending' = pending
        BY <1>0, <2>2 DEF EmptyMap, TypeOK
      <3>2. AppliedActive(i) = active
        BY <1>0, <2>2 DEF AppliedActive, Cleared, TypeOK
      <3>3. active' = [t \in DOMAIN active' |-> active[t]]
        <4>1. active' = [t \in DOMAIN active' |-> AppliedActive(i)[t]]
          BY <1>0, BoundaryActive
        <4> QED
          BY <3>2, <4>1
      <3>4. active' = active <=> DOMAIN active' = DOMAIN active
        BY <1>0, <3>3 DEF TypeOK
      <3>5. LifecycleChanged(active', i) <=> active' # active
        BY <2>2, <3>2, <3>4 DEF LifecycleChanged
      <3> QED
        BY <1>0, <3>1, <3>5 DEF records
    <2> QED
      BY <2>1, <2>2
  <1> QED
    BY <1>1, <1>2, <1>3, <1>4, <1>5, StepKinds

(* The record a console cursor is checked against: the revision changes    *)
(* in exactly the steps that change a lifecycle record, and only upwards.  *)
THEOREM RevisionIsExact == Spec => RevisionTracksRecords
  <1>1. IInv /\ [Next]_vars =>
          [(records' # records <=> revision' # revision) /\ revision' >= revision]_vars
    BY RevisionStep
  <1> QED
    BY <1>1, SpecIInv, PTL DEF Spec, RevisionTracksRecords

(* The targets under way, of which only finitely many exist.               *)
Tracked == TrackedTargets(DOMAIN prepared_targets)
CapacityInv == IsFiniteSet(Tracked) /\ Cardinality(Tracked) <= MAX_SCENARIO_TARGETS

(* The empty controller is within the capacity.                            *)
LEMMA CapacityInit == Tracked = {} => CapacityInv
  BY FS_EmptySet, BoundsAssumption DEF CapacityInv

(* No step but the issue of a token brings in a target.                    *)
LEMMA CapacityStep ==
  ASSUME IInv, CapacityInv, [Next]_vars
  PROVE  CapacityInv'
  <1> USE DEF CapacityInv
  <1>0. Cardinality(Tracked) \in Nat
    BY FS_CardinalityType
  <1>1. CASE Tracked' \subseteq Tracked
    <2>1. IsFiniteSet(Tracked') /\ Cardinality(Tracked') <= Cardinality(Tracked)
      BY <1>1, FS_Subset
    <2>2. Cardinality(Tracked') \in Nat
      BY <2>1, FS_CardinalityType
    <2> QED
      BY <1>0, <2>1, <2>2, BoundsAssumption
  <1>2. CASE StepIssues
    <2> PICK call \in Calls, t \in ScenarioTarget, a \in StoredScenarioAction :
               ~TargetCapacityExceeded(t) /\ IssueToken(call, t, a)
      BY <1>2 DEF StepIssues
    <2> DEFINE Live == TrackedTargets(DOMAIN TargetsWithout(ExpiredTokens))
    <2>1. Live \in SUBSET Tracked /\ Tracked' = Live \cup {t}
      BY Issued DEF IssueToken, TrackedTargets, Tracked
    <2>2. t \in Live \/ ~(Cardinality(Live) >= MAX_SCENARIO_TARGETS)
      BY DEF TargetCapacityExceeded
    <2> HIDE DEF Live
    <2>3. IsFiniteSet(Live) /\ Cardinality(Live) <= Cardinality(Tracked)
      BY <2>1, FS_Subset
    <2>4. Cardinality(Live) \in Nat
      BY <2>3, FS_CardinalityType
    <2>5. /\ IsFiniteSet(Live \cup {t})
          /\ Cardinality(Live \cup {t}) =
               IF t \in Live THEN Cardinality(Live) ELSE Cardinality(Live) + 1
      BY <2>3, FS_AddElement
    <2> QED
      BY <1>0, <2>1, <2>2, <2>3, <2>4, <2>5, BoundsAssumption
  <1>3. CASE StepIdles
    BY <1>1, <1>3 DEF StepIdles, records, TrackedTargets, Tracked
  <1>4. CASE StepDrops
    <2>1. DOMAIN prepared_targets' \subseteq DOMAIN prepared_targets
      BY <1>4, Dropped DEF StepDrops
    <2> QED
      BY <1>1, <1>4, <2>1 DEF StepDrops, TrackedTargets, Tracked
  <1>5. CASE StepConfirms
    <2> PICK k \in DOMAIN prepared \ ExpiredTokens :
               /\ DropPreparations(ExpiredTokens \cup {k})
               /\ pending' = With(pending, prepared[k].target, prepared[k].action)
               /\ UNCHANGED <<active, next_token>>
      BY <1>5 DEF StepConfirms
    <2>1. ExpiredTokens \cup {k} \in SUBSET DOMAIN prepared
      BY DEF ExpiredTokens
    <2>2. DOMAIN prepared_targets' \subseteq DOMAIN prepared_targets
      BY <2>1, Dropped
    <2>3. /\ DOMAIN pending' = DOMAIN pending \cup {prepared[k].target}
          /\ prepared[k].target \in DOMAIN prepared_targets
      BY DEF With, IInv, PreparationsAreIndexed
    <2> QED
      BY <1>1, <2>2, <2>3 DEF TrackedTargets, Tracked
  <1>6. CASE StepCrosses
    <2>1. DOMAIN active' \subseteq DOMAIN active \cup DOMAIN pending /\ DOMAIN pending' = {}
      BY <1>6, BoundaryActive DEF StepCrosses, IInv, EmptyMap
    <2> QED
      BY <1>1, <1>6, <2>1 DEF StepCrosses, TrackedTargets, Tracked
  <1> QED
    BY <1>2, <1>3, <1>4, <1>5, <1>6, StepKinds

(* The targets a controller tracks stay within MAX_SCENARIO_TARGETS        *)
(* although the limit is tested only when a token is issued: no other step *)
(* brings in a target that was not tracked.                                *)
THEOREM CapacityIsKept == Spec => []TrackedWithinCapacity
  <1>1. Init => CapacityInv
    BY CapacityInit DEF Init, EmptyMap, TrackedTargets, Tracked
  <1>2. IInv /\ CapacityInv /\ [Next]_vars => CapacityInv'
    BY CapacityStep
  <1>3. CapacityInv => TrackedWithinCapacity
    BY DEF CapacityInv, Tracked, TrackedWithinCapacity
  <1> QED
    BY <1>1, <1>2, <1>3, SpecIInv, PTL DEF Spec

-----------------------------------------------------------------------------
(* What is prepared or confirmed suits its target: prepare_activation is   *)
(* the only place that asks validate_scenario_target, and an action keeps  *)
(* the target it was prepared for on its way to the boundary.              *)
ActionsSuitTheirTargets ==
  /\ \A k \in DOMAIN prepared : Compatible(prepared[k].target, prepared[k].action)
  /\ \A t \in DOMAIN pending : Compatible(t, pending[t])

(* It holds of the empty controller and every step keeps it.               *)
LEMMA SuitableActions == Spec => []ActionsSuitTheirTargets
  <1>1. Init => ActionsSuitTheirTargets
    BY DEF Init, EmptyMap, ActionsSuitTheirTargets
  <1>2. IInv /\ ActionsSuitTheirTargets /\ [Next]_vars => ActionsSuitTheirTargets'
    <2> SUFFICES ASSUME IInv, ActionsSuitTheirTargets, [Next]_vars
                 PROVE  ActionsSuitTheirTargets'
      OBVIOUS
    <2>1. CASE StepIdles
      BY <2>1 DEF StepIdles, records, ActionsSuitTheirTargets
    <2>2. CASE StepDrops
      <3>1. \A k \in DOMAIN prepared' : k \in DOMAIN prepared /\ prepared'[k] = prepared[k]
        BY <2>2, Dropped DEF StepDrops
      <3> QED
        BY <2>2, <3>1 DEF StepDrops, ActionsSuitTheirTargets
    <2>3. CASE StepIssues
      <3> PICK call \in Calls, t \in ScenarioTarget, a \in StoredScenarioAction :
                 Compatible(t, a) /\ IssueToken(call, t, a)
        BY <2>3 DEF StepIssues
      <3>1. /\ \A k \in DOMAIN prepared' :
                 k # next_token => k \in DOMAIN prepared /\ prepared'[k] = prepared[k]
            /\ UNCHANGED pending
        BY Issued DEF IssueToken
      <3>2. prepared'[next_token].target = t /\ prepared'[next_token].action = a
        BY DEF IssueToken, With
      <3> QED
        BY <3>1, <3>2 DEF ActionsSuitTheirTargets
    <2>4. CASE StepConfirms
      <3> PICK k \in DOMAIN prepared \ ExpiredTokens :
                 /\ DropPreparations(ExpiredTokens \cup {k})
                 /\ pending' = With(pending, prepared[k].target, prepared[k].action)
        BY <2>4 DEF StepConfirms
      <3>1. ExpiredTokens \cup {k} \in SUBSET DOMAIN prepared
        BY DEF ExpiredTokens
      <3>2. \A j \in DOMAIN prepared' : j \in DOMAIN prepared /\ prepared'[j] = prepared[j]
        BY <3>1, Dropped
      <3>3. \A t \in DOMAIN pending' :
              \/ t = prepared[k].target /\ pending'[t] = prepared[k].action
              \/ t \in DOMAIN pending /\ pending'[t] = pending[t]
        BY DEF With
      <3> QED
        BY <3>2, <3>3 DEF ActionsSuitTheirTargets
    <2>5. CASE StepCrosses
      BY <2>5 DEF StepCrosses, EmptyMap, ActionsSuitTheirTargets
    <2> QED
      BY <2>1, <2>2, <2>3, <2>4, <2>5, StepKinds
  <1> QED
    BY <1>1, <1>2, SpecIInv, PTL DEF Spec

(* An operator's confirmed scenario is never lost between confirm and the  *)
(* frame: the boundary that takes it off the pending map applies it, does  *)
(* not expire it in the same breath, and plans its effect for the endpoint *)
(* (or disconnects the connection) it was confirmed for.                   *)
THEOREM ConfirmedScenariosShow == Spec => ConfirmedScenarioTakesEffect
  <1> DEFINE Shown == \A t \in DOMAIN pending \ DOMAIN pending', s \in Catalog :
                        pending[t] = Activate(s) /\ s.start_frame_offset = 0
                          => ShowsEffect(t, s)'
  <1>1. ASSUME IInv, ActionsSuitTheirTargets, [Next]_vars PROVE Shown
    <2> SUFFICES ASSUME NEW t \in DOMAIN pending \ DOMAIN pending', NEW s \in Catalog,
                        pending[t] = Activate(s), s.start_frame_offset = 0
                 PROVE  ShowsEffect(t, s)'
      OBVIOUS
    <2>1. PICK i \in 0..MaxSample :
             /\ current_sample_index' = i
             /\ active' = expire_transient_actions(AppliedActive(i), i)
      BY <1>1, OnlyBoundaryTakesPending
    <2> DEFINE a == [scenario |-> s, first_eligible_boundary |-> i]
    <2>2. pending[t] # Clear /\ pending[t].scenario = s
      BY ActivateIsNotClear
    <2>3. t \in DOMAIN AppliedActive(i) /\ AppliedActive(i)[t] = a
      BY <2>2 DEF AppliedActive, Cleared
    <2>4. s.lifecycle = "Transient" => ~is_expired_at(a, i)
      BY CatalogAssumption DEF compile_scenario, is_expired_at
    <2>5. t \in DOMAIN active' /\ active'[t] = a
      BY <2>1, <2>3, <2>4 DEF expire_transient_actions, Without, Restrict
    <2>6. is_effective_at(a, i)
      BY DEF is_effective_at
    <2>7. EffectiveAt(t, s.kind)'
      BY <2>1, <2>5, <2>6 DEF EffectiveAt, is_effective_at
    <2>8. t \in ScenarioTarget /\ validate_scenario_target(t, s.kind)
      BY <1>1, <2>2 DEF IInv, TypeOK, ActionsSuitTheirTargets, Compatible
    <2>9. CASE s.kind = "DisconnectPdc"
      <3>1. /\ t = [type |-> "Pdc", stream_id |-> t.stream_id,
                    connection_id |-> t.connection_id]
            /\ t.connection_id \in Connections
        BY <2>8, <2>9 DEF validate_scenario_target, ScenarioTarget
      <3> QED
        BY <2>7, <2>9, <3>1 DEF ShowsEffect, frame_plan
    <2>10. CASE s.kind # "DisconnectPdc"
      <3>1. t = [type |-> "Endpoint", stream_id |-> t.stream_id]
        BY <2>8, <2>10 DEF validate_scenario_target, ScenarioTarget
      <3> QED
        BY <2>7, <2>10, <3>1 DEF ShowsEffect, frame_plan
    <2> QED
      BY <2>9, <2>10
  <1>2. IInv /\ ActionsSuitTheirTargets /\ [Next]_vars => [Shown]_vars
    BY <1>1
  <1> QED
    BY <1>2, SpecIInv, SuitableActions, PTL DEF Spec, ConfirmedScenarioTakesEffect

-----------------------------------------------------------------------------
(* The controller implements the abstract lifecycle: each of its steps,    *)
(* classified by StepKinds, is a step of ScenarioLifecycle or none.        *)

(* The targets whose preparations a set of tokens stands for.               *)
TargetsOf(T) == {prepared[k].target : k \in T}

(* The stages of the abstract machine are the maps of the controller.       *)
LEMMA Stages ==
  ASSUME IInv
  PROVE  /\ DOMAIN WaitingActions = DOMAIN prepared_targets \cup DOMAIN pending
         /\ DOMAIN prepared_targets \cap DOMAIN pending = {}
         /\ \A t \in DOMAIN pending :
              WaitingActions[t] = [stage |-> "pending", action |-> pending[t]]
         /\ \A t \in DOMAIN prepared_targets :
              WaitingActions[t] =
                [stage |-> "prepared", action |-> prepared[prepared_targets[t]].action]
         /\ Lifecycle!InStage("prepared") = DOMAIN prepared_targets
         /\ Lifecycle!InStage("pending") = DOMAIN pending
<1>1. DOMAIN WaitingActions = DOMAIN prepared_targets \cup DOMAIN pending
  BY DEF WaitingActions
<1>2. ASSUME NEW t \in DOMAIN prepared_targets PROVE t \notin DOMAIN pending
  <2>1. prepared_targets[t] \in DOMAIN prepared
    BY DEF IInv, TypeOK
  <2>2. prepared[prepared_targets[t]].target = t
    BY DEF IInv, PreparationsAreIndexed
  <2> QED
    BY <2>1, <2>2 DEF IInv, ActionsStayApplicable
<1>3. \A t \in DOMAIN pending :
        WaitingActions[t] = [stage |-> "pending", action |-> pending[t]]
  BY DEF WaitingActions
<1>4. \A t \in DOMAIN prepared_targets :
        WaitingActions[t] =
          [stage |-> "prepared", action |-> prepared[prepared_targets[t]].action]
  BY <1>2 DEF WaitingActions
<1>0. /\ \A t \in DOMAIN prepared_targets : WaitingActions[t].stage = "prepared"
      /\ \A t \in DOMAIN pending : WaitingActions[t].stage = "pending"
  <2>1. \A t \in DOMAIN prepared_targets : WaitingActions[t].stage = "prepared"
    BY <1>2 DEF WaitingActions
  <2>2. \A t \in DOMAIN pending : WaitingActions[t].stage = "pending"
    BY DEF WaitingActions
  <2> QED
    BY <2>1, <2>2
<1>5. Lifecycle!InStage("prepared") = DOMAIN prepared_targets
  BY <1>0, <1>1 DEF Lifecycle!InStage
<1>6. Lifecycle!InStage("pending") = DOMAIN pending
  BY <1>0, <1>1 DEF Lifecycle!InStage
<1> QED
  BY <1>1, <1>2, <1>3, <1>4, <1>5, <1>6

(* Losing the preparations T withdraws their targets and no others.         *)
LEMMA DropRemains ==
  ASSUME IInv, NEW T \in SUBSET DOMAIN prepared, DropPreparations(T)
  PROVE  /\ TargetsOf(T) \in SUBSET DOMAIN prepared_targets
         /\ DOMAIN prepared_targets' = DOMAIN prepared_targets \ TargetsOf(T)
         /\ \A t \in DOMAIN prepared_targets' :
              prepared'[prepared_targets'[t]] = prepared[prepared_targets[t]]
<1>1. TargetsOf(T) \in SUBSET DOMAIN prepared_targets
  BY DEF TargetsOf, IInv, PreparationsAreIndexed
<1>2. DOMAIN prepared_targets' = DOMAIN prepared_targets \ TargetsOf(T)
  BY Dropped DEF TargetsOf
<1>3. ASSUME NEW t \in DOMAIN prepared_targets'
      PROVE  prepared'[prepared_targets'[t]] = prepared[prepared_targets[t]]
  <2>1. t \in DOMAIN prepared_targets /\ t \notin TargetsOf(T)
    BY <1>2
  <2>2. prepared_targets'[t] = prepared_targets[t]
    <3>1. prepared_targets' = [u \in DOMAIN prepared_targets' |-> prepared_targets[u]]
      BY Dropped
    <3> QED
      BY <3>1
  <2>3. prepared_targets[t] \in DOMAIN prepared /\ prepared[prepared_targets[t]].target = t
    BY <2>1 DEF IInv, TypeOK, PreparationsAreIndexed
  <2>4. prepared_targets[t] \notin T
    BY <2>1, <2>3 DEF TargetsOf
  <2> QED
    <3>1. DOMAIN prepared' = DOMAIN prepared \ T
      BY Dropped
    <3>2. \A k \in DOMAIN prepared' : prepared'[k] = prepared[k]
      BY Dropped
    <3> QED
      BY <2>2, <2>3, <2>4, <3>1, <3>2
<1> QED
  BY <1>1, <1>2, <1>3

-----------------------------------------------------------------------------
(* An empty controller is an empty lifecycle.                               *)
LEMMA InitIsAbstract == Init => Lifecycle!LifecycleInit
BY DEF Init, EmptyMap, RunningScenarios, WaitingActions, Lifecycle!LifecycleInit,
       Lifecycle!Nothing

(* Expiry and cancellation withdraw preparations.                           *)
LEMMA DropIsRequest ==
  ASSUME IInv, StepDrops
  PROVE  Lifecycle!Request
<1> PICK T \in SUBSET DOMAIN prepared : DropPreparations(T)
  BY DEF StepDrops
<1> DEFINE G == TargetsOf(T)
<1>1. G \in SUBSET Lifecycle!InStage("prepared")
  BY DropRemains, Stages
<1>2. RunningScenarios' = RunningScenarios
  BY DEF StepDrops, RunningScenarios
<1>3. WaitingActions' = [t \in DOMAIN WaitingActions \ G |-> WaitingActions[t]]
  <2>1. DOMAIN prepared_targets' \cup DOMAIN pending' = DOMAIN WaitingActions \ G
    BY DropRemains, Stages DEF StepDrops
  <2>2. ASSUME NEW t \in DOMAIN WaitingActions \ G
        PROVE  WaitingActions[t] =
                 IF t \in DOMAIN pending'
                   THEN [stage |-> "pending", action |-> pending'[t]]
                   ELSE [stage |-> "prepared", action |-> prepared'[prepared_targets'[t]].action]
    <3>1. CASE t \in DOMAIN pending
      BY <3>1, Stages DEF StepDrops
    <3>2. CASE t \notin DOMAIN pending
      <4>1. t \in DOMAIN prepared_targets /\ t \in DOMAIN prepared_targets'
        BY <3>2, Stages, DropRemains
      <4> QED
        BY <3>2, <4>1, Stages, DropRemains DEF StepDrops
    <3> QED
      BY <3>1, <3>2
  <2> QED
    BY <2>1, <2>2 DEF WaitingActions
<1>4. Lifecycle!Withdraw(G)
  BY <1>2, <1>3 DEF Lifecycle!Withdraw, Lifecycle!Remaining, Lifecycle!Restrict
<1> QED
  BY <1>1, <1>4 DEF Lifecycle!Request

(* A token is issued for an admissible action within the capacity.          *)
LEMMA IssueIsRequest ==
  ASSUME IInv, IInv', TrackedWithinCapacity', StepIssues
  PROVE  Lifecycle!Request
<1> PICK call \in Calls, target \in ScenarioTarget, action \in StoredScenarioAction :
           IssueToken(call, target, action)
  BY DEF StepIssues
<1> DEFINE T == ExpiredTokens
           G == TargetsOf(T)
           Rest == DOMAIN WaitingActions \ G
<1>0. next_token \notin DOMAIN prepared /\ T \in SUBSET DOMAIN prepared
  BY DEF ExpiredTokens, IInv, TypeOK
<1>1. G \in SUBSET DOMAIN prepared_targets
  BY DEF TargetsOf, IInv, PreparationsAreIndexed, ExpiredTokens
<1>2. /\ DOMAIN prepared_targets' = (DOMAIN prepared_targets \ G) \cup {target}
      /\ prepared_targets'[target] = next_token
      /\ \A t \in DOMAIN prepared_targets \ G :
           t # target => prepared_targets'[t] = prepared_targets[t]
  BY DEF IssueToken, TargetsWithout, With, Without, Restrict, TargetsOf
<1>3. /\ prepared'[next_token].action = action
      /\ prepared'[next_token].target = target
      /\ next_token \in DOMAIN prepared'
      /\ \A k \in DOMAIN prepared \ T : prepared'[k] = prepared[k]
  BY <1>0 DEF IssueToken, PreparedWithout, With, Without, Restrict
<1>4. UNCHANGED <<pending, active>>
  BY DEF IssueToken
<1>5. target \notin DOMAIN pending
  BY <1>3, <1>4 DEF IInv, ActionsStayApplicable
<1>6. target \notin DOMAIN prepared_targets \ G
  <2> SUFFICES ASSUME target \in DOMAIN prepared_targets, target \notin G PROVE FALSE
    OBVIOUS
  <2> DEFINE k == prepared_targets[target]
  <2>1. k \in DOMAIN prepared /\ prepared[k].target = target
    BY DEF IInv, TypeOK, PreparationsAreIndexed
  <2>2. k \notin T
    BY <2>1 DEF TargetsOf
  <2>3. k \in DOMAIN prepared' /\ prepared'[k].target = target
    BY <2>1, <2>2, <1>3, Issued
  <2>4. prepared_targets'[prepared'[k].target] = k
    BY <2>3 DEF IInv, PreparationsAreIndexed
  <2> QED
    BY <1>0, <1>2, <2>1, <2>3, <2>4
<1>7. G \in SUBSET Lifecycle!InStage("prepared")
  BY <1>1, Stages
<1>8. target \notin Rest
  BY <1>5, <1>6, Stages
<1>9. RunningScenarios' = RunningScenarios
  BY <1>4 DEF RunningScenarios
<1>10. Lifecycle!Admissible(target, action)
  <2>1. Applicable(target, action)'
    BY <1>3 DEF IInv, ActionsStayApplicable
  <2>2. Applicable(target, action)
    BY <1>4, <2>1 DEF Applicable, IsSustained
  <2> QED
    BY <2>2 DEF Applicable, IsSustained, Clear, Lifecycle!Admissible, Lifecycle!ClearAction,
                RunningScenarios
<1>11. Cardinality(DOMAIN RunningScenarios \cup Rest \cup {target}) <= MAX_SCENARIO_TARGETS
  <2>1. DOMAIN RunningScenarios \cup Rest \cup {target} =
          TrackedTargets(DOMAIN prepared_targets)'
    BY <1>1, <1>2, <1>4, Stages DEF RunningScenarios, TrackedTargets
  <2> QED
    BY <2>1 DEF TrackedWithinCapacity
<1>12. WaitingActions' =
         [t \in Rest \cup {target} |->
            IF t = target THEN [stage |-> "prepared", action |-> action] ELSE WaitingActions[t]]
  <2>1. DOMAIN prepared_targets' \cup DOMAIN pending' = Rest \cup {target}
    BY <1>1, <1>2, <1>4, Stages
  <2>2. ASSUME NEW t \in Rest \cup {target}
        PROVE  (IF t = target THEN [stage |-> "prepared", action |-> action]
                              ELSE WaitingActions[t]) =
               (IF t \in DOMAIN pending'
                  THEN [stage |-> "pending", action |-> pending'[t]]
                  ELSE [stage |-> "prepared", action |-> prepared'[prepared_targets'[t]].action])
    <3>1. CASE t = target
      BY <1>2, <1>3, <1>4, <1>5, <3>1
    <3>2. CASE t # target /\ t \in DOMAIN pending
      BY <1>4, <3>2, Stages
    <3>3. CASE t # target /\ t \notin DOMAIN pending
      <4>1. t \in DOMAIN prepared_targets \ G
        BY <3>3, Stages
      <4> DEFINE k == prepared_targets[t]
      <4>2. k \in DOMAIN prepared /\ prepared[k].target = t
        BY <4>1 DEF IInv, TypeOK, PreparationsAreIndexed
      <4>3. k \notin T
        BY <4>1, <4>2 DEF TargetsOf
      <4>4. prepared'[prepared_targets'[t]] = prepared[k]
        BY <1>2, <1>3, <3>3, <4>1, <4>2, <4>3
      <4> QED
        BY <1>4, <3>3, <4>1, <4>4, Stages
    <3> QED
      BY <3>1, <3>2, <3>3
  <2> QED
    BY <2>1, <2>2 DEF WaitingActions
<1>13. Lifecycle!Prepare(G, target, action)
  <2>1. DOMAIN Lifecycle!Remaining(G) = Rest
    BY DEF Lifecycle!Remaining, Lifecycle!Restrict
  <2> HIDE DEF Rest, G
  <2>2. target \notin DOMAIN Lifecycle!Remaining(G)
    BY <1>8, <2>1
  <2>3. Cardinality(DOMAIN RunningScenarios \cup DOMAIN Lifecycle!Remaining(G) \cup {target})
          <= MAX_SCENARIO_TARGETS
    BY <1>11, <2>1
  <2>4. WaitingActions' =
          [t \in DOMAIN Lifecycle!Remaining(G) \cup {target} |->
             IF t = target THEN [stage |-> "prepared", action |-> action]
                           ELSE WaitingActions[t]]
    BY <1>12, <2>1
  <2> QED
    BY <1>9, <1>10, <2>2, <2>3, <2>4
       DEF Lifecycle!Prepare, Lifecycle!Cardinality, Cardinality
<1>14. action \in Lifecycle!Actions
  BY DEF StoredScenarioAction, Activate, Clear, Lifecycle!Actions, Lifecycle!ClearAction
<1> QED
  BY <1>7, <1>13, <1>14 DEF Lifecycle!Request

(* A live token that is consumed by confirm makes its action pending.       *)
LEMMA ConfirmIsRequest ==
  ASSUME IInv, StepConfirms
  PROVE  Lifecycle!Request
<1> PICK token \in DOMAIN prepared \ ExpiredTokens :
           /\ DropPreparations(ExpiredTokens \cup {token})
           /\ pending' = With(pending, prepared[token].target, prepared[token].action)
           /\ UNCHANGED <<active, next_token>>
  BY DEF StepConfirms
<1> DEFINE T == ExpiredTokens \cup {token}
           G == TargetsOf(ExpiredTokens)
           target == prepared[token].target
           action == prepared[token].action
           Rest == DOMAIN WaitingActions \ G
<1>0. T \in SUBSET DOMAIN prepared /\ ExpiredTokens \in SUBSET DOMAIN prepared
  BY DEF ExpiredTokens
<1>1. /\ target \in DOMAIN prepared_targets /\ prepared_targets[target] = token
      /\ target \in ScenarioTarget
  BY DEF IInv, PreparationsAreIndexed, TypeOK
<1>2. target \notin G
  BY <1>0, <1>1 DEF TargetsOf, IInv, PreparationsAreIndexed
<1>3. TargetsOf(T) = G \cup {target}
  BY DEF TargetsOf
<1>4. G \in SUBSET DOMAIN prepared_targets
  BY <1>0 DEF TargetsOf, IInv, PreparationsAreIndexed
<1>5. target \in Lifecycle!InStage("prepared") \ G /\ G \in SUBSET Lifecycle!InStage("prepared")
  BY <1>1, <1>2, <1>4, Stages
<1>6. RunningScenarios' = RunningScenarios
  BY DEF RunningScenarios
<1>7. /\ DOMAIN pending' = DOMAIN pending \cup {target}
      /\ pending'[target] = action
      /\ \A t \in DOMAIN pending : t # target => pending'[t] = pending[t]
  BY DEF With
<1>8. /\ DOMAIN prepared_targets' = DOMAIN prepared_targets \ (G \cup {target})
      /\ \A t \in DOMAIN prepared_targets' :
           prepared'[prepared_targets'[t]] = prepared[prepared_targets[t]]
  BY <1>0, <1>3, DropRemains
<1>9. WaitingActions' =
        [t \in Rest |->
           IF t = target THEN [stage |-> "pending", action |-> action] ELSE WaitingActions[t]]
  <2>1. DOMAIN prepared_targets' \cup DOMAIN pending' = Rest
    BY <1>1, <1>2, <1>4, <1>7, <1>8, Stages
  <2>2. ASSUME NEW t \in Rest
        PROVE  (IF t = target THEN [stage |-> "pending", action |-> action]
                              ELSE WaitingActions[t]) =
               (IF t \in DOMAIN pending'
                  THEN [stage |-> "pending", action |-> pending'[t]]
                  ELSE [stage |-> "prepared", action |-> prepared'[prepared_targets'[t]].action])
    <3>1. CASE t = target
      BY <1>7, <3>1
    <3>2. CASE t # target /\ t \in DOMAIN pending
      BY <1>7, <3>2, Stages
    <3>3. CASE t # target /\ t \notin DOMAIN pending
      <4>1. t \in DOMAIN prepared_targets /\ t \in DOMAIN prepared_targets'
        BY <1>8, <3>3, Stages
      <4> QED
        BY <1>7, <1>8, <3>3, <4>1, Stages
    <3> QED
      BY <3>1, <3>2, <3>3
  <2> QED
    BY <2>1, <2>2, ZenonT(60) DEF WaitingActions
<1>10. Lifecycle!Confirm(G, target)
  <2> DEFINE remaining == [t \in Rest |-> WaitingActions[t]]
  <2>1. target \in Rest
    BY <1>1, <1>2, Stages
  <2>2. WaitingActions[target] = [stage |-> "prepared", action |-> action]
    BY <1>1, Stages
  <2>3. [remaining EXCEPT ![target].stage = "pending"] =
          [t \in Rest |->
             IF t = target THEN [stage |-> "pending", action |-> action] ELSE WaitingActions[t]]
    BY <2>1, <2>2
  <2> QED
    BY <1>5, <1>6, <1>9, <2>3 DEF Lifecycle!Confirm, Lifecycle!Remaining, Lifecycle!Restrict
<1> QED
  BY <1>1, <1>5, <1>10 DEF Lifecycle!Request

(* A boundary applies every confirmed action at once.                       *)
LEMMA CrossIsBoundary ==
  ASSUME IInv, StepCrosses
  PROVE  Lifecycle!Boundary
<1> PICK i \in 0..MaxSample :
           /\ pending' = EmptyMap
           /\ active' = expire_transient_actions(AppliedActive(i), i)
           /\ UNCHANGED <<prepared, prepared_targets, next_token>>
  BY DEF StepCrosses
<1> DEFINE started == {t \in Lifecycle!InStage("pending") :
                         WaitingActions[t].action # Lifecycle!ClearAction}
           ended == Lifecycle!InStage("pending") \ started
           after == [t \in (DOMAIN RunningScenarios \ ended) \cup started |->
                       IF t \in started THEN WaitingActions[t].action.scenario
                                        ELSE RunningScenarios[t]]
           over == DOMAIN after \ DOMAIN active'
<1>1. started = DOMAIN pending \ Cleared /\ ended = Cleared
  <2>1. \A t \in DOMAIN pending : WaitingActions[t].action = pending[t]
    BY Stages
  <2>2. Lifecycle!ClearAction = Clear
    BY DEF Lifecycle!ClearAction, Clear
  <2>3. Lifecycle!InStage("pending") = DOMAIN pending
    BY Stages
  <2> QED
    BY <2>1, <2>2, <2>3 DEF Cleared
<1>2. /\ DOMAIN after = (DOMAIN active \cup DOMAIN pending) \ Cleared
      /\ \A t \in DOMAIN after : after[t] = AppliedActive(i)[t].scenario
  <2>1. DOMAIN RunningScenarios = DOMAIN active
    BY DEF RunningScenarios
  <2>2. DOMAIN after = (DOMAIN active \cup DOMAIN pending) \ Cleared
    BY <1>1, <2>1
  <2>3. ASSUME NEW t \in DOMAIN after PROVE after[t] = AppliedActive(i)[t].scenario
    <3>1. CASE t \in DOMAIN pending
      <4>1. t \in started /\ WaitingActions[t].action = pending[t]
        BY <1>1, <2>2, <3>1, Stages
      <4>2. AppliedActive(i)[t].scenario = pending[t].scenario
        BY <2>2, <3>1 DEF AppliedActive
      <4> QED
        BY <4>1, <4>2
    <3>2. CASE t \notin DOMAIN pending
      <4>1. t \notin started /\ t \in DOMAIN active
        BY <1>1, <2>2, <3>2
      <4>2. AppliedActive(i)[t] = active[t]
        BY <2>2, <3>2 DEF AppliedActive
      <4> QED
        BY <4>1, <4>2 DEF RunningScenarios
    <3> QED
      BY <3>1, <3>2
  <2> QED
    BY <2>2, <2>3
<1> HIDE DEF after, started, ended
<1>3. /\ DOMAIN active' \subseteq DOMAIN after
      /\ \A t \in DOMAIN active' : active'[t] = AppliedActive(i)[t]
      /\ \A t \in DOMAIN after \ DOMAIN active' : after[t].lifecycle = "Transient"
  <2>1. TypeOK
    BY DEF IInv
  <2>2. /\ \A t \in DOMAIN active' : active'[t] = AppliedActive(i)[t]
        /\ DOMAIN active' = {t \in (DOMAIN active \cup DOMAIN pending) \ Cleared :
             ~(/\ AppliedActive(i)[t].scenario.lifecycle = "Transient"
               /\ is_expired_at(AppliedActive(i)[t], i))}
    BY <2>1, BoundaryActive
  <2> QED
    BY <1>2, <2>2
<1>4. over \in SUBSET {t \in DOMAIN after : after[t].lifecycle = "Transient"}
  BY <1>3
<1>5. RunningScenarios' = [t \in DOMAIN after \ over |-> after[t]]
  <2>1. DOMAIN active' = DOMAIN after \ over
    BY <1>3
  <2>2. \A t \in DOMAIN active' : active'[t].scenario = after[t]
    BY <1>2, <1>3
  <2> QED
    BY <2>1, <2>2 DEF RunningScenarios
<1>6. WaitingActions' = [t \in DOMAIN WaitingActions \ Lifecycle!InStage("pending") |->
                           WaitingActions[t]]
  <2>1. DOMAIN pending' = {}
    BY DEF EmptyMap
  <2>2. DOMAIN WaitingActions \ Lifecycle!InStage("pending") = DOMAIN prepared_targets
    BY Stages
  <2>3. DOMAIN prepared_targets' \cup DOMAIN pending' = DOMAIN prepared_targets
    BY <2>1
  <2>4. ASSUME NEW t \in DOMAIN prepared_targets
        PROVE  WaitingActions[t] =
                 IF t \in DOMAIN pending'
                   THEN [stage |-> "pending", action |-> pending'[t]]
                   ELSE [stage |-> "prepared", action |-> prepared'[prepared_targets'[t]].action]
    BY <2>1, Stages
  <2> QED
    BY <2>2, <2>3, <2>4 DEF WaitingActions
<1> QED
  BY <1>4, <1>5, <1>6
     DEF Lifecycle!Boundary, Lifecycle!Remaining, Lifecycle!Restrict, after, started, ended

-----------------------------------------------------------------------------
(* The controller of src/scenario.rs, with its tokens, lazy expiry, sample  *)
(* indices and early returns, implements the prepare / confirm / apply      *)
(* machine of ScenarioLifecycle.                                            *)
THEOREM ControllerImplementsLifecycle == Spec => ImplementsLifecycle
<1>1. ASSUME IInv, IInv', TrackedWithinCapacity', [Next]_vars
      PROVE  [Lifecycle!LifecycleNext]_<<RunningScenarios, WaitingActions>>
  <2>1. CASE StepIdles
    BY <2>1 DEF StepIdles, records, RunningScenarios, WaitingActions
  <2>2. CASE StepDrops
    BY <1>1, <2>2, DropIsRequest DEF Lifecycle!LifecycleNext
  <2>3. CASE StepIssues
    BY <1>1, <2>3, IssueIsRequest DEF Lifecycle!LifecycleNext
  <2>4. CASE StepConfirms
    BY <1>1, <2>4, ConfirmIsRequest DEF Lifecycle!LifecycleNext
  <2>5. CASE StepCrosses
    BY <1>1, <2>5, CrossIsBoundary DEF Lifecycle!LifecycleNext
  <2> QED
    BY <1>1, <2>1, <2>2, <2>3, <2>4, <2>5, StepKinds
<1>2. IInv /\ IInv' /\ TrackedWithinCapacity' /\ [Next]_vars
        => [Lifecycle!LifecycleNext]_<<RunningScenarios, WaitingActions>>
  BY <1>1
<1> QED
  BY <1>2, InitIsAbstract, SpecIInv, CapacityIsKept, PTL
     DEF Spec, ImplementsLifecycle, Lifecycle!LifecycleSpec, Lifecycle!lifecycleVars
=============================================================================
