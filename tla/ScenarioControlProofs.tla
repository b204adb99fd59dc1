------------------------ MODULE ScenarioControlProofs ------------------------
(***************************************************************************)
(* Proofs about scenario control as its clients meet it, for every set of  *)
(* endpoints and connections, every catalog and any number of restarts:    *)
(* which targets an action may reach, and which action a confirmation may  *)
(* set going.                                                              *)
(***************************************************************************)
EXTENDS ScenarioControl, ScenarioControllerProofs

(***************************************************************************)
(* The inductive invariant.  A target the controller tracks was admitted:  *)
(* its stream is an endpoint's and its connection id has been handed out.  *)
(* A token an operator holds from this process, if it is still prepared,   *)
(* stands for what the operator was told.                                  *)
(***************************************************************************)
Known(t) ==
  /\ t.stream_id \in Endpoints
  /\ t.type = "Pdc" => t.connection_id \in Nat /\ t.connection_id < next_pdc

Stands(h) ==
  /\ h.token < next_token
  /\ h.token \in DOMAIN prepared => /\ prepared[h.token].target = h.target
                                    /\ prepared[h.token].action = h.action

TargetsAreKnown ==
  /\ next_pdc \in Nat \ {0}
  /\ \A t \in live : t.type = "Pdc" /\ Known(t)
  /\ \A t \in TrackedTargets(DOMAIN prepared_targets) : Known(t)

HeldTokensStand ==
  /\ process \in Nat
  /\ \A h \in held : /\ h.process \in Nat /\ h.process <= process
                     /\ h.token \in 1..MaxToken
                     /\ h.process = process => Stands(h)

KInv == IInv /\ TargetsAreKnown /\ HeldTokensStand

-----------------------------------------------------------------------------
(* What a prepare leaves behind: fewer preparations and a refusal, or the  *)
(* next token for exactly the target and action asked for.                 *)
Outcome(t, a) ==
  \/ /\ StepDrops \/ StepIdles
     /\ reply'.result # "Ok"
  \/ /\ \E call \in Calls : IssueToken(call, t, a)
     /\ ~TokenSpaceExhausted

(* prepare_action answers "Ok" only when it has issued a token.            *)
LEMMA PrepareActionOutcome ==
  ASSUME NEW call \in Calls, NEW t \in ScenarioTarget, NEW a \in StoredScenarioAction,
         NEW permits \in BOOLEAN, prepare_action(call, t, a, permits)
  PROVE  Outcome(t, a)
  <1>1. CASE \E r \in Results \ {"Ok"} : discard_expired_preparations /\ Return(call, r)
    <2>1. ExpiredTokens \in SUBSET DOMAIN prepared
      BY DEF ExpiredTokens
    <2> QED
      BY <1>1, <2>1 DEF discard_expired_preparations, Return, Reply, StepDrops, Outcome
  <1>2. CASE ~TokenSpaceExhausted /\ IssueToken(call, t, a)
    BY <1>2 DEF Outcome
  <1> QED
    BY <1>1, <1>2 DEF prepare_action, Results

(* The same for the two calls that prepare.                                *)
LEMMA PrepareOutcome ==
  ASSUME NEW t \in ScenarioTarget
  PROVE  /\ \A s \in Catalog : prepare_activation(t, s) => Outcome(t, Activate(s))
         /\ prepare_clear(t) => Outcome(t, Clear)
  <1>0. ExpiredTokens \in SUBSET DOMAIN prepared
    BY DEF ExpiredTokens
  <1>1. ASSUME NEW s \in Catalog, prepare_activation(t, s)
        PROVE  Outcome(t, Activate(s))
    <2>1. CASE /\ Return("prepare_activation", "IncompatibleTarget")
               /\ UNCHANGED <<prepared, prepared_targets, revision>>
      BY <2>1 DEF Return, Reply, StepIdles, records, Outcome
    <2>2. CASE prepare_action("prepare_activation", t, Activate(s), FALSE)
      BY <2>2, PrepareActionOutcome DEF Calls, StoredScenarioAction
    <2> QED
      BY <1>1, <2>1, <2>2 DEF prepare_activation
  <1>2. ASSUME prepare_clear(t)
        PROVE  Outcome(t, Clear)
    <2>1. CASE \E r \in Results \ {"Ok"} :
                 discard_expired_preparations /\ Return("prepare_clear", r)
      BY <1>0, <2>1 DEF discard_expired_preparations, Return, Reply, StepDrops, Outcome
    <2>2. CASE prepare_action("prepare_clear", t, Clear, TRUE)
      BY <2>2, PrepareActionOutcome DEF Calls, StoredScenarioAction
    <2> QED
      BY <1>2, <2>1, <2>2 DEF prepare_clear, Results
  <1> QED
    BY <1>1, <1>2

(* A step of the controller that issues no token and restarts nothing      *)
(* tracks no new target and leaves every surviving token what it was.      *)
LEMMA ShrinkingStep ==
  ASSUME IInv, StepIdles \/ StepDrops \/ StepConfirms \/ StepCrosses
  PROVE  /\ TrackedTargets(DOMAIN prepared_targets)'
              \subseteq TrackedTargets(DOMAIN prepared_targets)
         /\ next_token' = next_token
         /\ \A k \in DOMAIN prepared' : k \in DOMAIN prepared /\ prepared'[k] = prepared[k]
  <1>1. CASE StepIdles
    BY <1>1 DEF StepIdles, records, TrackedTargets
  <1>2. CASE StepDrops
    <2> PICK T \in SUBSET DOMAIN prepared : DropPreparations(T)
      BY <1>2 DEF StepDrops
    <2>1. DOMAIN prepared_targets' \subseteq DOMAIN prepared_targets
      BY Dropped
    <2>2. \A k \in DOMAIN prepared' : k \in DOMAIN prepared /\ prepared'[k] = prepared[k]
      BY Dropped
    <2> QED
      BY <1>2, <2>1, <2>2 DEF StepDrops, TrackedTargets
  <1>3. CASE StepConfirms
    <2> PICK k \in DOMAIN prepared \ ExpiredTokens :
               /\ DropPreparations(ExpiredTokens \cup {k})
               /\ pending' = With(pending, prepared[k].target, prepared[k].action)
               /\ UNCHANGED <<active, next_token>>
      BY <1>3 DEF StepConfirms
    <2>1. ExpiredTokens \cup {k} \in SUBSET DOMAIN prepared
      BY DEF ExpiredTokens
    <2>2. DOMAIN prepared_targets' \subseteq DOMAIN prepared_targets
      BY <2>1, Dropped
    <2>3. \A j \in DOMAIN prepared' : j \in DOMAIN prepared /\ prepared'[j] = prepared[j]
      BY <2>1, Dropped
    <2>4. /\ DOMAIN pending' = DOMAIN pending \cup {prepared[k].target}
          /\ prepared[k].target \in DOMAIN prepared_targets
      BY DEF With, IInv, PreparationsAreIndexed
    <2> QED
      BY <2>2, <2>3, <2>4 DEF TrackedTargets
  <1>4. CASE StepCrosses
    <2>1. DOMAIN active' \subseteq DOMAIN active \cup DOMAIN pending /\ DOMAIN pending' = {}
      BY <1>4, BoundaryActive DEF StepCrosses, IInv, EmptyMap
    <2> QED
      BY <1>4, <2>1 DEF StepCrosses, TrackedTargets
  <1> QED
    BY <1>1, <1>2, <1>3, <1>4

(* Such a step keeps the two parts of the invariant about the clients if   *)
(* no connection is added and nothing is handed to an operator.            *)
LEMMA ShrinkingKeeps ==
  ASSUME KInv, StepIdles \/ StepDrops \/ StepConfirms \/ StepCrosses,
         live' \subseteq live, UNCHANGED <<process, next_pdc, held>>
  PROVE  (TargetsAreKnown /\ HeldTokensStand)'
  <1>1. TargetsAreKnown'
    BY ShrinkingStep DEF KInv, TargetsAreKnown, Known
  <1>2. HeldTokensStand'
    BY ShrinkingStep DEF KInv, HeldTokensStand, Stands
  <1> QED
    BY <1>1, <1>2

(* What an admitted target satisfies.                                      *)
LEMMA AdmittedIsKnown ==
  ASSUME KInv, NEW t \in ScenarioTarget, NEW allows \in BOOLEAN,
         scenario_target_is_admitted(t, allows)
  PROVE  Known(t)
  BY DEF KInv, TargetsAreKnown, Known, scenario_target_is_admitted, ScenarioTarget,
         TrackedTargets

(* A prepare request: a refusal, or a token for the target it named.       *)
LEMMA PreparingKeeps ==
  ASSUME KInv, NEW t \in ScenarioTarget, NEW a \in StoredScenarioAction,
         Known(t), Outcome(t, a), Answered(t)
  PROVE  (TargetsAreKnown /\ HeldTokensStand)'
  <1>0. UNCHANGED <<process, live, next_pdc>>
    BY DEF Answered
  <1>1. CASE (StepDrops \/ StepIdles) /\ reply'.result # "Ok"
    <2>1. held' = held
      BY <1>1 DEF Answered
    <2> QED
      BY <1>0, <1>1, <2>1, ShrinkingKeeps
  <1>2. CASE ~TokenSpaceExhausted /\ \E call \in Calls : IssueToken(call, t, a)
    <2> PICK call \in Calls : IssueToken(call, t, a)
      BY <1>2
    <2>1. /\ DOMAIN prepared' = (DOMAIN prepared \ ExpiredTokens) \cup {next_token}
          /\ \A k \in DOMAIN prepared' : k # next_token => prepared'[k] = prepared[k]
          /\ DOMAIN prepared_targets' = DOMAIN TargetsWithout(ExpiredTokens) \cup {t}
          /\ DOMAIN TargetsWithout(ExpiredTokens) \subseteq DOMAIN prepared_targets
      BY Issued
    <2>2. /\ next_token' = next_token + 1 /\ UNCHANGED <<pending, active>>
          /\ reply'.result = "Ok"
          /\ prepared'[next_token].target = t
      BY DEF IssueToken, With, Reply
    <2>3. next_token \in 1..MaxToken /\ next_token # MaxToken
      BY <1>2 DEF KInv, IInv, TypeOK, TokenSpaceExhausted
    <2>4. TargetsAreKnown'
      <3>1. TrackedTargets(DOMAIN prepared_targets)'
              \subseteq TrackedTargets(DOMAIN prepared_targets) \cup {t}
        BY <2>1, <2>2 DEF TrackedTargets
      <3> QED
        BY <1>0, <3>1 DEF KInv, TargetsAreKnown, Known
    <2>5. HeldTokensStand'
      <3>1. PICK n : /\ n = [process |-> process, token |-> next_token, target |-> t,
                             action |-> prepared'[next_token].action]
                     /\ held' = held \cup {n}
        BY <2>2 DEF Answered
      <3>2. ASSUME NEW h \in held
            PROVE  /\ h.process \in Nat /\ h.process <= process
                   /\ h.token \in 1..MaxToken
                   /\ h.process = process => Stands(h)'
        <4>1. /\ h.process \in Nat /\ h.process <= process
              /\ h.token \in 1..MaxToken
              /\ h.process = process => Stands(h)
          BY DEF KInv, HeldTokensStand
        <4>2. ASSUME h.process = process PROVE Stands(h)'
          <5>1. h.token < next_token /\ h.token # next_token /\ h.token < next_token'
            BY <2>2, <2>3, <4>1, <4>2, BoundsAssumption DEF Stands
          <5>2. h.token \in DOMAIN prepared' =>
                  h.token \in DOMAIN prepared /\ prepared'[h.token] = prepared[h.token]
            BY <2>1, <5>1
          <5> QED
            BY <4>1, <4>2, <5>1, <5>2 DEF Stands
        <4> QED
          BY <4>1, <4>2
      <3>3. /\ n.process \in Nat /\ n.process <= process
            /\ n.token \in 1..MaxToken
            /\ Stands(n)'
        <4>1. process \in Nat
          BY DEF KInv, HeldTokensStand
        <4> QED
          BY <2>2, <2>3, <3>1, <4>1 DEF Stands
      <3> QED
        BY <1>0, <3>1, <3>2, <3>3 DEF HeldTokensStand, KInv
    <2> QED
      BY <2>4, <2>5
  <1> QED
    BY <1>1, <1>2 DEF Outcome

(* The controller of a process that has just started.                      *)
LEMMA RestartKeepsIInv ==
  ASSUME IInv, Restart
  PROVE  IInv'
  <1>1. TypeOK'
    BY BoundsAssumption DEF IInv, Restart, TypeOK, EmptyMap, Reply, Calls, Results
  <1>2. PreparationsAreIndexed' /\ ActionsStayApplicable'
    BY DEF Restart, EmptyMap, PreparationsAreIndexed, ActionsStayApplicable
  <1> QED
    BY <1>1, <1>2 DEF IInv

(* Steps that leave the controller alone.                                  *)
LEMMA UnchangedKeepsIInv ==
  ASSUME IInv, UNCHANGED vars
  PROVE  IInv'
  BY NextKeepsIInv

(* And steps that leave the clients alone as well.                         *)
LEMMA UnchangedKeepsKInv ==
  ASSUME KInv, UNCHANGED <<vars, process, live, next_pdc, held>>
  PROVE  KInv'
  <1>1. IInv'
    BY UnchangedKeepsIInv DEF KInv
  <1>2. StepIdles
    BY DEF StepIdles, records, vars
  <1> QED
    BY <1>1, <1>2, ShrinkingKeeps DEF KInv

(* What a request or any other step does to the controller and to the      *)
(* invariant.                                                              *)
LEMMA ControlKeepsKInv == KInv /\ [ControlNext]_allVars => KInv'
  <1> SUFFICES ASSUME KInv, [ControlNext]_allVars PROVE KInv'
    OBVIOUS
  <1>0. IInv
    BY DEF KInv
  <1>1. ASSUME NEW t \in ScenarioTarget, NEW s \in Catalog, PrepareRequest(t, s)
        PROVE  KInv'
    <2>1. CASE Rejected
      BY <2>1, UnchangedKeepsKInv DEF Rejected
    <2>2. CASE /\ scenario_target_is_admitted(t, FALSE)
               /\ prepare_activation(t, s) /\ Answered(t)
      <3>1. Known(t)
        BY <2>2, AdmittedIsKnown
      <3>2. Outcome(t, Activate(s))
        BY <2>2, PrepareOutcome
      <3>3. Activate(s) \in StoredScenarioAction
        BY DEF StoredScenarioAction
      <3>4. (TargetsAreKnown /\ HeldTokensStand)'
        BY <2>2, <3>1, <3>2, <3>3, PreparingKeeps
      <3>5. IInv'
        BY <1>0, <2>2, PrepareActivationKeepsIInv
      <3> QED
        BY <3>4, <3>5 DEF KInv
    <2> QED
      BY <1>1, <2>1, <2>2 DEF PrepareRequest
  <1>2. ASSUME NEW t \in ScenarioTarget, ClearRequest(t)
        PROVE  KInv'
    <2>1. CASE Rejected
      BY <2>1, UnchangedKeepsKInv DEF Rejected
    <2>2. CASE /\ scenario_target_is_admitted(t, TRUE)
               /\ prepare_clear(t) /\ Answered(t)
      <3>1. Known(t)
        BY <2>2, AdmittedIsKnown
      <3>2. Outcome(t, Clear)
        BY <2>2, PrepareOutcome
      <3>3. Clear \in StoredScenarioAction
        BY DEF StoredScenarioAction
      <3>4. (TargetsAreKnown /\ HeldTokensStand)'
        BY <2>2, <3>1, <3>2, <3>3, PreparingKeeps
      <3>5. IInv'
        BY <1>0, <2>2, PrepareClearKeepsIInv
      <3> QED
        BY <3>4, <3>5 DEF KInv
    <2> QED
      BY <1>2, <2>1, <2>2 DEF ClearRequest
  <1>3. ASSUME NEW h \in held, ConfirmRequest(h) \/ CancelRequest(h)
        PROVE  KInv'
    <2>1. h.token \in 1..MaxToken
      BY DEF KInv, HeldTokensStand
    <2>2. UNCHANGED <<process, live, next_pdc, held>>
      BY <1>3 DEF ConfirmRequest, CancelRequest
    <2>3. CASE confirm(h.token)
      <3>1. IInv'
        BY <1>0, <2>1, <2>3, ConfirmKeepsIInv
      <3>2. StepIdles \/ StepDrops \/ StepConfirms
        BY <1>0, <2>3, ConfirmSteps
      <3> QED
        BY <2>2, <3>1, <3>2, ShrinkingKeeps DEF KInv
    <2>4. CASE cancel(h.token)
      <3>1. IInv'
        BY <1>0, <2>1, <2>4, CancelKeepsIInv
      <3>2. StepIdles \/ StepDrops
        BY <2>4, CancelSteps
      <3> QED
        BY <2>2, <3>1, <3>2, ShrinkingKeeps DEF KInv
    <2> QED
      BY <1>3, <2>3, <2>4 DEF ConfirmRequest, CancelRequest, RequestedToken
  <1>4. CASE StateRequest
    <2>1. IInv'
      BY <1>0, <1>4, SnapshotKeepsIInv DEF StateRequest
    <2>2. StepDrops
      <3>1. ExpiredTokens \in SUBSET DOMAIN prepared
        BY DEF ExpiredTokens
      <3> QED
        BY <1>4, <3>1 DEF StateRequest, snapshot, discard_expired_preparations, Return, StepDrops
    <2> QED
      BY <1>4, <2>1, <2>2, ShrinkingKeeps DEF StateRequest, KInv
  <1>5. ASSUME NEW i \in 0..MaxSample, Boundary(i)
        PROVE  KInv'
    <2>1. IInv'
      BY <1>0, <1>5, AdvanceKeepsIInv DEF Boundary
    <2>2. StepIdles \/ StepCrosses
      BY <1>5 DEF Boundary, advance_boundary, Return, StepIdles, StepCrosses, records
    <2>3. live' \subseteq live /\ UNCHANGED <<process, next_pdc, held>>
      BY <1>5 DEF Boundary
    <2> QED
      BY <2>1, <2>2, <2>3, ShrinkingKeeps DEF KInv
  <1>6. ASSUME NEW stream \in Endpoints, PdcConnects(stream)
        PROVE  KInv'
    <2>1. PICK id \in Connections : /\ id = next_pdc
                                    /\ live' = live \cup {Pdc(stream, id)}
                                    /\ next_pdc' = next_pdc + 1
                                    /\ UNCHANGED <<vars, process, held>>
      BY <1>6 DEF PdcConnects, FreshConnection
    <2>2. IInv' /\ HeldTokensStand'
      BY <2>1, UnchangedKeepsIInv DEF KInv, HeldTokensStand, Stands, vars
    <2>3. TargetsAreKnown'
      <3>1. Known(Pdc(stream, id))' /\ Pdc(stream, id).type = "Pdc"
        BY <2>1 DEF Pdc, Known, KInv, TargetsAreKnown
      <3>2. \A t \in live : t.type = "Pdc" /\ Known(t)'
        BY <2>1 DEF Known, KInv, TargetsAreKnown
      <3>3. \A t \in TrackedTargets(DOMAIN prepared_targets) : Known(t)'
        BY <2>1 DEF Known, KInv, TargetsAreKnown
      <3> QED
        BY <2>1, <3>1, <3>2, <3>3 DEF KInv, TargetsAreKnown, TrackedTargets, vars
    <2> QED
      BY <2>2, <2>3 DEF KInv
  <1>7. ASSUME NEW t \in live, PdcLeaves(t)
        PROVE  KInv'
    <2>1. StepIdles /\ live' \subseteq live /\ UNCHANGED <<vars, process, next_pdc, held>>
      BY <1>7 DEF PdcLeaves, StepIdles, records, vars
    <2> QED
      BY <2>1, UnchangedKeepsIInv, ShrinkingKeeps DEF KInv
  <1>8. CASE Restart
    <2>1. IInv'
      BY <1>0, <1>8, RestartKeepsIInv
    <2>2. TargetsAreKnown'
      BY <1>8 DEF Restart, EmptyMap, TargetsAreKnown, TrackedTargets
    <2>3. HeldTokensStand'
      BY <1>8 DEF Restart, KInv, HeldTokensStand
    <2> QED
      BY <2>1, <2>2, <2>3 DEF KInv
  <1>9. CASE ControlTick
    <2>1. IInv'
      BY <1>0, <1>9, TickKeepsIInv DEF ControlTick
    <2>2. StepIdles
      BY <1>9 DEF ControlTick, Tick, records, StepIdles
    <2> QED
      BY <1>9, <2>1, <2>2, ShrinkingKeeps DEF ControlTick, KInv
  <1>10. CASE UNCHANGED allVars
    BY <1>10, UnchangedKeepsKInv DEF allVars, controlVars
  <1> QED
    BY <1>1, <1>2, <1>3, <1>4, <1>5, <1>6, <1>7, <1>8, <1>9, <1>10 DEF ControlNext

(* The invariant holds in every reachable state.                           *)
LEMMA ControlSpecKInv == ControlSpec => []KInv
  <1>1. ControlInit => KInv
    <2> SUFFICES ASSUME ControlInit PROVE KInv
      OBVIOUS
    <2>1. IInv
      BY InitIInv DEF ControlInit
    <2>2. TargetsAreKnown /\ HeldTokensStand
      BY DEF ControlInit, Init, EmptyMap, TargetsAreKnown, HeldTokensStand, TrackedTargets
    <2> QED
      BY <2>1, <2>2 DEF KInv
  <1> QED
    BY <1>1, ControlKeepsKInv, PTL DEF ControlSpec

-----------------------------------------------------------------------------
(* A scenario prepared for one client never meets another: connection ids  *)
(* are handed out once per process and only admitted targets are tracked.  *)
THEOREM NewcomersAreSafe == ControlSpec => NewcomersAreUntargeted
  <1>1. KInv /\ [ControlNext]_allVars =>
          [\A t \in live' \ live : t \notin TrackedTargets(DOMAIN prepared_targets)]_allVars
    <2> SUFFICES ASSUME KInv, [ControlNext]_allVars, NEW t \in live' \ live,
                        t \in TrackedTargets(DOMAIN prepared_targets)
                 PROVE  FALSE
      OBVIOUS
    <2>1. PICK stream \in Endpoints : PdcConnects(stream)
      BY DEF ControlNext, PrepareRequest, ClearRequest, Rejected, Answered, ConfirmRequest,
             CancelRequest, StateRequest, Boundary, PdcLeaves, Restart, ControlTick,
             allVars, controlVars
    <2>2. t = Pdc(stream, next_pdc)
      BY <2>1 DEF PdcConnects, FreshConnection
    <2>3. t.type = "Pdc" /\ t.connection_id = next_pdc
      BY <2>2 DEF Pdc
    <2>4. t.connection_id < next_pdc /\ next_pdc \in Nat
      BY <2>3 DEF KInv, TargetsAreKnown, Known
    <2> QED
      BY <2>3, <2>4
  <1> QED
    BY <1>1, ControlSpecKInv, PTL DEF ControlSpec, NewcomersAreUntargeted

(* What the record of a clear request says.                                *)
LEMMA Recorded ==
  ASSUME NEW t, ClearRequest(t)
  PROVE  /\ request'.kind = "clear" /\ request'.for = t
         /\ scenario_target_is_admitted(t, TRUE) =>
              prepare_clear(t) /\ request'.answer = reply'.result
  <1>1. ASSUME NEW answer, request' = ClearAsked(t, answer)
        PROVE  request'.kind = "clear" /\ request'.for = t /\ request'.answer = answer
    BY <1>1 DEF ClearAsked
  <1>2. CASE request' = ClearAsked(t, "Rejected") /\ ~scenario_target_is_admitted(t, TRUE)
    BY <1>1, <1>2
  <1>3. CASE request' = ClearAsked(t, reply'.result) /\ prepare_clear(t)
    BY <1>1, <1>3
  <1> QED
    BY <1>2, <1>3 DEF ClearRequest

(* A step that leaves the record of a clear request is one.                *)
LEMMA OnlyClearsAreClears ==
  ASSUME ControlNext, request'.kind = "clear"
  PROVE  \E t \in ScenarioTarget : ClearRequest(t)
  <1>1. request' # NoRequest
    BY DEF NoRequest
  <1>2. ASSUME NEW h \in held, ConfirmRequest(h) \/ CancelRequest(h) PROVE FALSE
    BY <1>1, <1>2 DEF ConfirmRequest, CancelRequest
  <1>3. ASSUME NEW u \in ScenarioTarget, NEW s \in Catalog, PrepareRequest(u, s)
        PROVE  FALSE
    BY <1>1, <1>3 DEF PrepareRequest
  <1>4. ASSUME \/ StateRequest \/ Restart \/ ControlTick
               \/ \E i \in 0..MaxSample : Boundary(i)
               \/ \E stream \in Endpoints : PdcConnects(stream)
               \/ \E u \in live : PdcLeaves(u)
        PROVE  FALSE
    BY <1>1, <1>4 DEF StateRequest, Boundary, PdcConnects, PdcLeaves, Restart, ControlTick
  <1> QED
    BY <1>2, <1>3, <1>4 DEF ControlNext

(* And a confirmation is a call of confirm with the token that was held.   *)
LEMMA OnlyConfirmsAreConfirms ==
  ASSUME ControlNext, request'.kind = "confirm"
  PROVE  request'.for \in held /\ ConfirmRequest(request'.for)
  <1>1. request' # NoRequest
    BY DEF NoRequest
  <1>2. ASSUME NEW h \in held, CancelRequest(h) PROVE FALSE
    BY <1>1, <1>2 DEF CancelRequest
  <1>3. ASSUME NEW u \in ScenarioTarget, NEW s \in Catalog, PrepareRequest(u, s)
        PROVE  FALSE
    BY <1>1, <1>3 DEF PrepareRequest
  <1>4. ASSUME NEW u \in ScenarioTarget, ClearRequest(u) PROVE FALSE
    BY <1>4, Recorded
  <1>5. ASSUME \/ StateRequest \/ Restart \/ ControlTick
               \/ \E i \in 0..MaxSample : Boundary(i)
               \/ \E stream \in Endpoints : PdcConnects(stream)
               \/ \E u \in live : PdcLeaves(u)
        PROVE  FALSE
    BY <1>1, <1>5 DEF StateRequest, Boundary, PdcConnects, PdcLeaves, Restart, ControlTick
  <1>6. ASSUME NEW h \in held, ConfirmRequest(h)
        PROVE  request'.for \in held /\ ConfirmRequest(request'.for)
    <2>1. request'.for = h
      BY <1>6 DEF ConfirmRequest
    <2> QED
      BY <1>6, <2>1
  <1> QED
    BY <1>2, <1>3, <1>4, <1>5, <1>6 DEF ControlNext

(* Whatever runs was admitted once, so its clear is let through; whether   *)
(* its client is still there does not matter.                              *)
LEMMA ActiveIsAdmitted ==
  ASSUME KInv, NEW t \in DOMAIN active
  PROVE  t \in ScenarioTarget /\ scenario_target_is_admitted(t, TRUE)
  <1>1. t \in ScenarioTarget /\ Known(t)
    BY DEF KInv, IInv, TypeOK, TargetsAreKnown, TrackedTargets
  <1> QED
    BY <1>1 DEF Known, scenario_target_is_admitted, ScenarioTarget

(* A clear of a sustained scenario is answered with a token, or with the   *)
(* busy target of a clear under way, or by a process at the end of its     *)
(* tokens or its clock: it occupies no place that it does not have.        *)
LEMMA ClearIsPrepared ==
  ASSUME KInv, NEW t \in DOMAIN active, IsSustained(t), ClearRequest(t)
  PROVE  \/ request'.answer = "Ok"
         \/ request'.answer = "TargetBusy" /\ BeingCleared(t)'
         \/ request'.answer = "TokenExpiryOverflow" /\ ExpiryOverflows
         \/ request'.answer = "TokenSpaceExhausted" /\ TokenSpaceExhausted
  <1>1. t \in ScenarioTarget /\ prepare_clear(t) /\ request'.answer = reply'.result
    BY ActiveIsAdmitted, Recorded
  <1>2. prepare_action("prepare_clear", t, Clear, TRUE)
    BY <1>1 DEF prepare_clear
  <1>3. IInv /\ IInv'
    BY <1>1, PrepareClearKeepsIInv DEF KInv
  <1>4. ~TargetCapacityExceeded(t)
    BY DEF TargetCapacityExceeded, TrackedTargets
  <1>5. ASSUME TargetBusy(t, TRUE), discard_expired_preparations,
               Return("prepare_clear", "TargetBusy")
        PROVE  BeingCleared(t)'
    <2>1. UNCHANGED <<pending, active, now>> /\ IsSustained(t)'
      BY <1>5 DEF Return, IsSustained
    <2>2. CASE t \in DOMAIN pending
      BY <1>3, <2>1, <2>2 DEF IInv, ActionsStayApplicable, Applicable, BeingCleared
    <2>3. CASE t \in DOMAIN prepared_targets'
      <3> DEFINE k == prepared_targets'[t]
      <3>1. k \in DOMAIN prepared' /\ prepared'[k].target = t
        BY <1>3, <2>3 DEF IInv, TypeOK, PreparationsAreIndexed
      <3>2. prepared'[k].action = Clear
        BY <1>3, <2>1, <3>1 DEF IInv, ActionsStayApplicable, Applicable
      <3>3. ExpiredTokens \in SUBSET DOMAIN prepared /\ DropPreparations(ExpiredTokens)
        BY <1>5 DEF ExpiredTokens, discard_expired_preparations
      <3>4. /\ k \in DOMAIN prepared \ ExpiredTokens
            /\ prepared'[k] = prepared[k]
        BY <3>1, <3>3, Dropped
      <3>5. prepared[k].expires_at \in Nat /\ now \in Nat
        BY <1>3, <3>4 DEF IInv, TypeOK, PreparedScenarioAction
      <3>6. now < prepared'[k].expires_at
        BY <3>4, <3>5 DEF ExpiredTokens
      <3> QED
        BY <2>1, <3>1, <3>2, <3>6 DEF BeingCleared
    <2>4. t \in DOMAIN prepared_targets' \/ t \in DOMAIN pending
      BY <1>5 DEF TargetBusy, discard_expired_preparations, DropPreparations
    <2> QED
      BY <2>2, <2>3, <2>4
  <1> QED
    <2>1. \A result : reply' = Reply("prepare_clear", result) => request'.answer = result
      BY <1>1 DEF Reply
    <2> QED
      BY <1>2, <1>4, <1>5, <2>1 DEF prepare_action, Return, IssueToken

(* Confirming its token in time queues the clear.                          *)
LEMMA ClearIsConfirmed ==
  ASSUME KInv, NEW h \in held, ConfirmRequest(h), h.process = process,
         h.action = Clear, h.token \in DOMAIN prepared \ ExpiredTokens
  PROVE  h.target \in DOMAIN pending' /\ pending'[h.target] = Clear
  <1>1. confirm(h.token) /\ IInv
    BY DEF ConfirmRequest, RequestedToken, KInv
  <1>2. prepared[h.token].target = h.target /\ prepared[h.token].action = Clear
    BY DEF KInv, HeldTokensStand, Stands
  <1>3. ConfirmVerdict(prepared[h.token]) = "Ok"
    BY <1>1, ConfirmVerdictIsOk
  <1>4. pending' = With(pending, h.target, Clear)
    BY <1>1, <1>2, <1>3 DEF confirm, ConsumeUnknown, ConsumeExpired
  <1> QED
    BY <1>4 DEF With

(* And the next boundary frees its place.                                  *)
LEMMA ClearIsCarriedOut ==
  ASSUME KInv, ControlNext, NEW t \in DOMAIN pending, pending[t] = Clear,
         current_sample_index' > current_sample_index
  PROVE  t \notin DOMAIN active'
  <1>1. current_sample_index \in Nat \cup {NoSample}
    BY DEF KInv, IInv, TypeOK
  <1>2. current_sample_index' # current_sample_index
    BY <1>1 DEF NoSample
  <1>3. (\E i \in 0..MaxSample : Boundary(i)) \/ Restart
    <2>1. ASSUME NEW u \in ScenarioTarget, NEW s \in Catalog, PrepareRequest(u, s)
          PROVE  current_sample_index' = current_sample_index
      BY <2>1 DEF PrepareRequest, Rejected, prepare_activation, prepare_action, Return,
                  IssueToken, vars
    <2>2. ASSUME NEW u \in ScenarioTarget, ClearRequest(u)
          PROVE  current_sample_index' = current_sample_index
      BY <2>2 DEF ClearRequest, Rejected, prepare_clear, prepare_action, Return, IssueToken,
                  vars
    <2>3. ASSUME NEW h \in held, ConfirmRequest(h) \/ CancelRequest(h)
          PROVE  current_sample_index' = current_sample_index
      BY <2>3 DEF ConfirmRequest, CancelRequest, confirm, cancel, ConsumeUnknown,
                  ConsumeExpired, Return
    <2>4. ASSUME \/ StateRequest \/ ControlTick
                 \/ \E stream \in Endpoints : PdcConnects(stream)
                 \/ \E u \in live : PdcLeaves(u)
          PROVE  current_sample_index' = current_sample_index
      BY <2>4 DEF StateRequest, snapshot, Return, ControlTick, Tick, PdcConnects, PdcLeaves,
                  vars
    <2> QED
      BY <1>2, <2>1, <2>2, <2>3, <2>4 DEF ControlNext
  <1>4. CASE Restart
    BY <1>4 DEF Restart, EmptyMap
  <1>5. ASSUME NEW i \in 0..MaxSample, Boundary(i) PROVE t \notin DOMAIN active'
    <2>1. active' = expire_transient_actions(AppliedActive(i), i)
      BY <1>2, <1>5 DEF Boundary, advance_boundary, Return
    <2>2. t \in Cleared /\ TypeOK
      BY DEF Cleared, KInv, IInv
    <2> QED
      BY <2>1, <2>2, BoundaryActive
  <1> QED
    BY <1>3, <1>4, <1>5

(* A sustained scenario never keeps its place for good: its clear is       *)
(* prepared, confirmed and carried out, its client connected or not.       *)
THEOREM SustainedIsClearable == ControlSpec => SustainedCanBeCleared
  <1> DEFINE Freed ==
        \A t \in {u \in DOMAIN active : IsSustained(u)} :
          /\ request'.kind = "clear" /\ request'.for = t =>
               \/ request'.answer = "Ok"
               \/ request'.answer = "TargetBusy" /\ BeingCleared(t)'
               \/ request'.answer = "TokenExpiryOverflow" /\ ExpiryOverflows
               \/ request'.answer = "TokenSpaceExhausted" /\ TokenSpaceExhausted
          /\ \A h \in held :
               /\ request'.kind = "confirm" /\ request'.for = h
               /\ h.process = process /\ h.target = t /\ h.action = Clear
               /\ h.token \in DOMAIN prepared \ ExpiredTokens
               => t \in DOMAIN pending' /\ pending'[t] = Clear
          /\ /\ t \in DOMAIN pending /\ pending[t] = Clear
             /\ current_sample_index' > current_sample_index
             => t \notin DOMAIN active'
  <1>1. KInv /\ ControlNext => Freed
    <2> SUFFICES ASSUME KInv, ControlNext, NEW t \in DOMAIN active, IsSustained(t)
                 PROVE  /\ request'.kind = "clear" /\ request'.for = t =>
                             \/ request'.answer = "Ok"
                             \/ request'.answer = "TargetBusy" /\ BeingCleared(t)'
                             \/ request'.answer = "TokenExpiryOverflow" /\ ExpiryOverflows
                             \/ request'.answer = "TokenSpaceExhausted" /\ TokenSpaceExhausted
                        /\ \A h \in held :
                             /\ request'.kind = "confirm" /\ request'.for = h
                             /\ h.process = process /\ h.target = t /\ h.action = Clear
                             /\ h.token \in DOMAIN prepared \ ExpiredTokens
                             => t \in DOMAIN pending' /\ pending'[t] = Clear
                        /\ /\ t \in DOMAIN pending /\ pending[t] = Clear
                           /\ current_sample_index' > current_sample_index
                           => t \notin DOMAIN active'
      OBVIOUS
    <2>1. ASSUME request'.kind = "clear", request'.for = t PROVE ClearRequest(t)
      <3> PICK u \in ScenarioTarget : ClearRequest(u)
        BY <2>1, OnlyClearsAreClears
      <3>1. request'.for = u
        BY Recorded
      <3> QED
        BY <2>1, <3>1
    <2>2. ASSUME NEW h \in held, request'.kind = "confirm", request'.for = h
          PROVE  ConfirmRequest(h)
      BY <2>2, OnlyConfirmsAreConfirms
    <2> QED
      BY <2>1, <2>2, ClearIsPrepared, ClearIsConfirmed, ClearIsCarriedOut
  <1>2. KInv /\ [ControlNext]_allVars => [Freed]_allVars
    BY <1>1
  <1> QED
    BY <1>2, ControlSpecKInv, PTL DEF ControlSpec, SustainedCanBeCleared

(* A confirmation, however late or often it is sent, sets going what its   *)
(* token was issued for, as long as the process that issued it lives.      *)
THEOREM ConfirmationsAreTrue == ControlSpec => ConfirmsWhatWasPrepared
  <1>1. KInv /\ [ControlNext]_allVars =>
          [request'.kind = "confirm" /\ request'.for.process = process =>
             \A t \in Effective :
               t = request'.for.target /\ pending'[t] = request'.for.action]_allVars
    <2> SUFFICES ASSUME KInv, ControlNext, request'.kind = "confirm",
                        request'.for.process = process, NEW t \in Effective
                 PROVE  t = request'.for.target /\ pending'[t] = request'.for.action
      OBVIOUS
    <2>1. PICK h \in held : h = request'.for /\ ConfirmRequest(h)
      BY OnlyConfirmsAreConfirms
    <2>2. request'.for = h /\ h.process = process /\ confirm(h.token)
      BY <2>1 DEF ConfirmRequest, RequestedToken
    <2>3. t \in DOMAIN pending' /\ t \notin DOMAIN pending
      BY DEF Effective
    <2>4. ~StepIdles /\ ~StepDrops
      BY <2>3 DEF StepIdles, StepDrops, records
    <2>5. /\ h.token \in DOMAIN prepared
          /\ pending' = With(pending, prepared[h.token].target, prepared[h.token].action)
      BY <2>2, <2>4, ConfirmOf DEF KInv
    <2>6. Stands(h)
      BY <2>2 DEF KInv, HeldTokensStand
    <2> QED
      BY <2>2, <2>3, <2>5, <2>6 DEF Stands, With
  <1> QED
    BY <1>1, ControlSpecKInv, PTL DEF ControlSpec, ConfirmsWhatWasPrepared
=============================================================================
