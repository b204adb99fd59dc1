------------------------- MODULE ScenarioController -------------------------
(***************************************************************************)
(* The runtime scenario state machine of src/scenario.rs: an operator      *)
(* prepares an action on a target and receives a token, confirms (or       *)
(* cancels) the token before it expires, and the confirmed action takes    *)
(* effect at the next reporting boundary.  The controller is sequential;   *)
(* what makes it hard is that management calls, token expiry and reporting *)
(* boundaries interleave freely.                                           *)
(*                                                                         *)
(* The four BTreeMaps of the code are functions whose DOMAIN is the set of *)
(* keys present.  `now` is the monotonic clock the callers read; `reply`   *)
(* is the Result of the last call.  Names, labels and signal deltas are    *)
(* data no property tells apart and are left out.                          *)
(***************************************************************************)
EXTENDS Integers, FiniteSets, Functions

CONSTANTS
  Streams,               \* stream ids of the endpoints
  Connections,           \* connection ids of admitted PDCs
  Catalog,               \* the compiled scenarios
  ACTIVATION_TOKEN_TTL,  \* life time of a prepared token
  MAX_SCENARIO_TARGETS,  \* number of targets that may be tracked at once
  MaxToken,              \* stands for u64::MAX, the end of the token space
  MaxInstant,            \* the largest Instant, where checked_add fails
  MaxSample              \* bound on the reporting boundaries of a run

Kinds == {"Normal", "DegradedTime", "MissingFrames", "DisconnectPdc",
          "SignalExcursion", "Recovery"}

(* What compile_scenario guarantees of every compiled entry;               *)
(* duration_frames is 0 where the code has None.                           *)
compile_scenario(s) ==
  /\ s.kind \in Kinds
  /\ s.start_frame_offset \in Nat
  /\ s.lifecycle \in {"Transient", "Sustained"}
  /\ s.lifecycle = "Transient" => s.duration_frames \in Nat \ {0}
  /\ s.lifecycle = "Sustained" => s.duration_frames = 0

ASSUME CatalogAssumption == \A s \in Catalog : compile_scenario(s)
ASSUME BoundsAssumption ==
  /\ ACTIVATION_TOKEN_TTL \in Nat \ {0}
  /\ MAX_SCENARIO_TARGETS \in Nat
  /\ MaxToken \in Nat \ {0}
  /\ MaxInstant \in Nat
  /\ MaxSample \in Nat

VARIABLES
  prepared,              \* token  -> prepared action
  prepared_targets,      \* target -> its live token
  pending,               \* target -> confirmed action
  active,                \* target -> running scenario
  current_sample_index,  \* last boundary, NoSample before the first
  next_token,
  revision,
  now,
  reply

vars == <<prepared, prepared_targets, pending, active, current_sample_index,
          next_token, revision, now, reply>>
records == <<prepared, prepared_targets, pending, active>>

NoSample == -1
EmptyMap == [key \in {} |-> key]

ScenarioTarget ==
  [type: {"Endpoint"}, stream_id: Streams]
    \cup [type: {"Pdc"}, stream_id: Streams, connection_id: Connections]

Activate(s) == [op |-> "Activate", scenario |-> s]
Clear == [op |-> "Clear"]
StoredScenarioAction == {Activate(s) : s \in Catalog} \cup {Clear}

PreparedScenarioAction ==
  [target: ScenarioTarget, action: StoredScenarioAction, expires_at: Nat]
ActiveScenarioAction == [scenario: Catalog, first_eligible_boundary: Nat]

Results == {"Ok", "TargetBusy", "TargetCapacityExceeded", "TokenExpiryOverflow",
            "TokenSpaceExhausted", "IncompatibleTarget", "NoActiveScenario",
            "ClearRequiresSustainedScenario", "UnknownToken", "ExpiredToken",
            "NonMonotonicBoundary"}
Calls == {"new", "prepare_activation", "prepare_clear", "confirm", "cancel",
          "snapshot", "advance_boundary"}
Reply(call, result) == [call |-> call, result |-> result]

Init ==
  /\ prepared = EmptyMap
  /\ prepared_targets = EmptyMap
  /\ pending = EmptyMap
  /\ active = EmptyMap
  /\ current_sample_index = NoSample
  /\ next_token = 1
  /\ revision = 0
  /\ now = 0
  /\ reply = Reply("new", "Ok")

-----------------------------------------------------------------------------
(* Helpers of the controller.                                              *)

(* BTreeMap::remove and BTreeMap::insert.                                  *)
Without(map, keys) == Restrict(map, DOMAIN map \ keys)
With(map, key, value) ==
  [x \in DOMAIN map \cup {key} |-> IF x = key THEN value ELSE map[x]]

(* The preparations discard_expired_preparations removes at `now`, and the *)
(* two maps without a set of tokens.                                       *)
ExpiredTokens == {k \in DOMAIN prepared : now >= prepared[k].expires_at}
PreparedWithout(tokens) == Without(prepared, tokens)
TargetsWithout(tokens) ==
  Without(prepared_targets, {prepared[k].target : k \in tokens})

(* Every removal of a preparation bumps the revision once.                 *)
DropPreparations(tokens) ==
  /\ prepared' = PreparedWithout(tokens)
  /\ prepared_targets' = TargetsWithout(tokens)
  /\ revision' = revision + Cardinality(tokens)

discard_expired_preparations == DropPreparations(ExpiredTokens)

TrackedTargets(targets) == DOMAIN active \cup DOMAIN pending \cup targets

validate_scenario_target(target, kind) ==
  (kind = "DisconnectPdc") <=> (target.type = "Pdc")

(* Fault: the effect starts one boundary late.                             *)
is_effective_at_late(a, sample) ==
  sample - a.first_eligible_boundary > a.scenario.start_frame_offset

is_effective_at(a, sample) ==
  sample - a.first_eligible_boundary >= a.scenario.start_frame_offset

(* Fault: one frame too many.                                              *)
is_expired_at_late(a, sample) ==
  sample - a.first_eligible_boundary - a.scenario.start_frame_offset
    > a.scenario.duration_frames

is_expired_at(a, sample) ==
  sample - a.first_eligible_boundary - a.scenario.start_frame_offset
    >= a.scenario.duration_frames

IsSustained(target) == active[target].scenario.lifecycle = "Sustained"

-----------------------------------------------------------------------------
(* Operator calls.  Validation failures that touch no state (empty stream  *)
(* id, malformed name or label, unknown scenario) are stuttering steps.    *)

(* A call that changes nothing beyond the preparations it dropped.         *)
Return(call, result) ==
  /\ reply' = Reply(call, result)
  /\ UNCHANGED <<pending, active, current_sample_index, next_token, now>>

(* Fault: a preparation of a target whose confirmed action waits for its   *)
(* boundary is admitted.                                                   *)
TargetBusy_unconfirmed(target, permits_active_target) ==
  \/ target \in DOMAIN TargetsWithout(ExpiredTokens)
  \/ ~permits_active_target /\ target \in DOMAIN active

TargetBusy(target, permits_active_target) ==
  \/ target \in DOMAIN TargetsWithout(ExpiredTokens)
  \/ target \in DOMAIN pending
  \/ ~permits_active_target /\ target \in DOMAIN active

(* Fault: the limit itself is admitted.                                    *)
TargetCapacityExceeded_late(target) ==
  LET tracked == TrackedTargets(DOMAIN TargetsWithout(ExpiredTokens))
  IN  target \notin tracked /\ Cardinality(tracked) > MAX_SCENARIO_TARGETS

TargetCapacityExceeded(target) ==
  LET tracked == TrackedTargets(DOMAIN TargetsWithout(ExpiredTokens))
  IN  target \notin tracked /\ Cardinality(tracked) >= MAX_SCENARIO_TARGETS

(* now.checked_add(TTL) and next_token.checked_add(1).                     *)
ExpiryOverflows == now + ACTIVATION_TOKEN_TTL > MaxInstant
TokenSpaceExhausted == next_token = MaxToken

(* prepare_action after its checks: a fresh token on both maps.            *)
IssueToken(call, target, action) ==
  /\ prepared' =
       With(PreparedWithout(ExpiredTokens), next_token,
            [target |-> target, action |-> action,
             expires_at |-> now + ACTIVATION_TOKEN_TTL])
  /\ prepared_targets' = With(TargetsWithout(ExpiredTokens), target, next_token)
  /\ next_token' = next_token + 1
  /\ revision' = revision + Cardinality(ExpiredTokens) + 1
  /\ reply' = Reply(call, "Ok")
  /\ UNCHANGED <<pending, active, current_sample_index, now>>

prepare_action(call, target, action, permits_active_target) ==
  \/ /\ TargetBusy(target, permits_active_target)
     /\ discard_expired_preparations
     /\ Return(call, "TargetBusy")
  \/ /\ ~TargetBusy(target, permits_active_target)
     /\ TargetCapacityExceeded(target)
     /\ discard_expired_preparations
     /\ Return(call, "TargetCapacityExceeded")
  \/ /\ ~TargetBusy(target, permits_active_target)
     /\ ~TargetCapacityExceeded(target)
     /\ ExpiryOverflows
     /\ discard_expired_preparations
     /\ Return(call, "TokenExpiryOverflow")
  \/ /\ ~TargetBusy(target, permits_active_target)
     /\ ~TargetCapacityExceeded(target)
     /\ ~ExpiryOverflows
     /\ TokenSpaceExhausted
     /\ discard_expired_preparations
     /\ Return(call, "TokenSpaceExhausted")
  \/ /\ ~TargetBusy(target, permits_active_target)
     /\ ~TargetCapacityExceeded(target)
     /\ ~ExpiryOverflows
     /\ ~TokenSpaceExhausted
     /\ IssueToken(call, target, action)

prepare_activation(target, scenario) ==
  \/ /\ ~validate_scenario_target(target, scenario.kind)
     /\ Return("prepare_activation", "IncompatibleTarget")
     /\ UNCHANGED <<prepared, prepared_targets, revision>>
  \/ /\ validate_scenario_target(target, scenario.kind)
     /\ prepare_action("prepare_activation", target, Activate(scenario), FALSE)

prepare_clear(target) ==
  \/ /\ ~TargetBusy(target, TRUE)
     /\ target \notin DOMAIN active
     /\ discard_expired_preparations
     /\ Return("prepare_clear", "NoActiveScenario")
  \/ /\ ~TargetBusy(target, TRUE)
     /\ target \in DOMAIN active
     /\ ~IsSustained(target)
     /\ discard_expired_preparations
     /\ Return("prepare_clear", "ClearRequiresSustainedScenario")
  \/ /\ TargetBusy(target, TRUE) \/ (target \in DOMAIN active /\ IsSustained(target))
     /\ prepare_action("prepare_clear", target, Clear, TRUE)

(* confirm and cancel take the token out of both maps before they look at  *)
(* its expiry; an expired one is dropped alone, a live one together with   *)
(* every other preparation that has expired.                               *)
ConsumeUnknown(call, token) ==
  /\ token \notin DOMAIN prepared
  /\ Return(call, "UnknownToken")
  /\ UNCHANGED <<prepared, prepared_targets, revision>>

ConsumeExpired(call, token) ==
  /\ token \in ExpiredTokens
  /\ DropPreparations({token})
  /\ Return(call, "ExpiredToken")

(* Fault: the token is taken without looking at its expiry.                *)
ConsumeLive_any_age(token) ==
  /\ token \in DOMAIN prepared
  /\ DropPreparations(ExpiredTokens \cup {token})

ConsumeLive(token) ==
  /\ token \in DOMAIN prepared \ ExpiredTokens
  /\ DropPreparations(ExpiredTokens \cup {token})

(* Fault: an active target refuses its own clear.                          *)
ConfirmVerdict_active_is_busy(p) ==
  IF p.target \in DOMAIN pending \cup DOMAIN active THEN "TargetBusy" ELSE "Ok"

(* The re-validation in confirm; by then the token is already consumed.    *)
ConfirmVerdict(p) ==
  IF \/ p.target \in DOMAIN pending
     \/ p.action # Clear /\ p.target \in DOMAIN active
  THEN "TargetBusy"
  ELSE IF p.action = Clear /\ p.target \notin DOMAIN active
  THEN "NoActiveScenario"
  ELSE IF p.action = Clear /\ ~IsSustained(p.target)
  THEN "ClearRequiresSustainedScenario"
  ELSE "Ok"

confirm(token) ==
  \/ ConsumeUnknown("confirm", token)
  \/ ConsumeExpired("confirm", token)
  \/ /\ ConsumeLive(token)
     /\ LET p == prepared[token]
            verdict == ConfirmVerdict(p)
        IN  /\ pending' = IF verdict = "Ok" THEN With(pending, p.target, p.action)
                                            ELSE pending
            /\ reply' = Reply("confirm", verdict)
     /\ UNCHANGED <<active, current_sample_index, next_token, now>>

cancel(token) ==
  \/ ConsumeUnknown("cancel", token)
  \/ ConsumeExpired("cancel", token)
  \/ /\ ConsumeLive(token)
     /\ Return("cancel", "Ok")

snapshot ==
  /\ discard_expired_preparations
  /\ Return("snapshot", "Ok")

-----------------------------------------------------------------------------
(* The reporting boundary.                                                 *)

Cleared == {t \in DOMAIN pending : pending[t] = Clear}

(* Fault: a confirmed clear is dropped.                                    *)
AppliedActive_without_clear(sample) ==
  [t \in DOMAIN active \cup (DOMAIN pending \ Cleared) |->
     IF t \in DOMAIN pending \ Cleared
       THEN [scenario |-> pending[t].scenario, first_eligible_boundary |-> sample]
       ELSE active[t]]

AppliedActive(sample) ==
  [t \in (DOMAIN active \cup DOMAIN pending) \ Cleared |->
     IF t \in DOMAIN pending
       THEN [scenario |-> pending[t].scenario, first_eligible_boundary |-> sample]
       ELSE active[t]]

expire_transient_actions(map, sample) ==
  Without(map, {t \in DOMAIN map : /\ map[t].scenario.lifecycle = "Transient"
                                   /\ is_expired_at(map[t], sample)})

(* Whether the boundary changed a record: an action was applied or a       *)
(* transient ended.                                                        *)
LifecycleChanged(after, sample) ==
  \/ DOMAIN pending # {}
  \/ DOMAIN after # DOMAIN AppliedActive(sample)

advance_boundary(sample) ==
  \/ /\ sample <= current_sample_index
     /\ Return("advance_boundary", "NonMonotonicBoundary")
     /\ UNCHANGED <<prepared, prepared_targets, revision>>
  \/ /\ sample > current_sample_index
     /\ current_sample_index' = sample
     /\ pending' = EmptyMap
     /\ active' = expire_transient_actions(AppliedActive(sample), sample)
     /\ revision' = revision + IF LifecycleChanged(active', sample) THEN 1 ELSE 0
     /\ reply' = Reply("advance_boundary", "Ok")
     /\ UNCHANGED <<prepared, prepared_targets, next_token, now>>

(* The effects on one endpoint's frame at the current boundary.            *)
EffectiveAt(target, kind) ==
  /\ target \in DOMAIN active
  /\ active[target].scenario.kind = kind
  /\ is_effective_at(active[target], current_sample_index)

frame_plan(stream_id) ==
  LET endpoint == [type |-> "Endpoint", stream_id |-> stream_id]
      pdc(c) == [type |-> "Pdc", stream_id |-> stream_id, connection_id |-> c]
  IN  [degraded_time |-> EffectiveAt(endpoint, "DegradedTime"),
       omit_data     |-> EffectiveAt(endpoint, "MissingFrames"),
       signal        |-> EffectiveAt(endpoint, "SignalExcursion"),
       disconnect_pdc_connection_ids |->
         {c \in Connections : EffectiveAt(pdc(c), "DisconnectPdc")}]

(* The clock the callers pass in advances between calls.                   *)
Tick ==
  /\ now < MaxInstant
  /\ now' = now + 1
  /\ UNCHANGED <<records, current_sample_index, next_token, revision, reply>>

Next ==
  \/ \E t \in ScenarioTarget, s \in Catalog : prepare_activation(t, s)
  \/ \E t \in ScenarioTarget : prepare_clear(t)
  \/ \E k \in 1..MaxToken : confirm(k)
  \/ \E k \in 1..MaxToken : cancel(k)
  \/ snapshot
  \/ \E i \in 0..MaxSample : advance_boundary(i)
  \/ Tick

Spec == Init /\ [][Next]_vars
-----------------------------------------------------------------------------
(* Properties.                                                             *)

TypeOK ==
  /\ prepared \in [DOMAIN prepared -> PreparedScenarioAction]
  /\ DOMAIN prepared \subseteq 1..(next_token - 1)
  /\ prepared_targets \in [DOMAIN prepared_targets -> DOMAIN prepared]
  /\ DOMAIN prepared_targets \subseteq ScenarioTarget
  /\ pending \in [DOMAIN pending -> StoredScenarioAction]
  /\ DOMAIN pending \subseteq ScenarioTarget
  /\ active \in [DOMAIN active -> ActiveScenarioAction]
  /\ DOMAIN active \subseteq ScenarioTarget
  /\ current_sample_index \in Nat \cup {NoSample}
  /\ next_token \in 1..MaxToken
  /\ revision \in Nat
  /\ now \in Nat
  /\ reply \in [call: Calls, result: Results]

(* The two preparation maps are inverse to each other: a token leads to    *)
(* its target and the target back to that token, however preparations,     *)
(* consumptions and lazy expiries interleave (confirm, cancel and          *)
(* discard_expired_preparations update both maps separately).              *)
PreparationsAreIndexed ==
  /\ \A k \in DOMAIN prepared :
       /\ prepared[k].target \in DOMAIN prepared_targets
       /\ prepared_targets[prepared[k].target] = k
  /\ \A t \in DOMAIN prepared_targets : prepared[prepared_targets[t]].target = t

(* The premise under which an action may still be carried out: activation  *)
(* of a target that runs nothing, clearing of one that runs a sustained    *)
(* scenario.                                                               *)
Applicable(target, action) ==
  IF action = Clear THEN target \in DOMAIN active /\ IsSustained(target)
                    ELSE target \notin DOMAIN active

(* Whatever was true when an action was prepared is still true while it    *)
(* waits for confirmation and while it waits for its boundary, and at most *)
(* one action per target is under way.                                     *)
ActionsStayApplicable ==
  /\ \A k \in DOMAIN prepared :
       /\ Applicable(prepared[k].target, prepared[k].action)
       /\ prepared[k].target \notin DOMAIN pending
  /\ \A t \in DOMAIN pending : Applicable(t, pending[t])

(* The checks confirm repeats after consuming a token can never fail: an   *)
(* operator who confirms in time is never told TargetBusy,                 *)
(* NoActiveScenario or ClearRequiresSustainedScenario with the token gone. *)
LiveConfirmSucceeds ==
  reply.call = "confirm" => reply.result \in {"Ok", "UnknownToken", "ExpiredToken"}

(* prepare_action's capacity test keeps the tracked targets within         *)
(* MAX_SCENARIO_TARGETS although targets move between the three maps.      *)
TrackedWithinCapacity ==
  Cardinality(TrackedTargets(DOMAIN prepared_targets)) <= MAX_SCENARIO_TARGETS

(* After every boundary no transient is still active past its duration,    *)
(* whatever number of boundaries was skipped.                              *)
TransientsEndOnTime ==
  \A t \in DOMAIN active :
    active[t].scenario.lifecycle = "Transient"
      => current_sample_index < active[t].first_eligible_boundary
                                  + active[t].scenario.start_frame_offset
                                  + active[t].scenario.duration_frames

(* A token that has been consumed, cancelled or discarded never becomes    *)
(* valid again, and no token is issued twice.                              *)
TokensAreOneShot ==
  [][\A k \in DOMAIN prepared' :
       \/ k \in DOMAIN prepared /\ prepared'[k] = prepared[k]
       \/ k = next_token]_vars

(* Two-step control: an action becomes pending only by consuming a live    *)
(* token prepared for exactly that target and action, and a scenario       *)
(* starts or is cleared only from the pending map at a boundary.           *)
TwoStepControl ==
  [][/\ \A t \in DOMAIN pending' \ DOMAIN pending :
          \E k \in DOMAIN prepared \ DOMAIN prepared' :
            /\ prepared[k].target = t
            /\ prepared[k].action = pending'[t]
            /\ now < prepared[k].expires_at
     /\ \A t \in DOMAIN active' :
          \/ t \in DOMAIN active /\ active'[t] = active[t]
          \/ /\ t \in DOMAIN pending \ DOMAIN pending'
             /\ pending[t] = Activate(active'[t].scenario)
     /\ \A t \in DOMAIN active \ DOMAIN active' :
          IsSustained(t) => t \in DOMAIN pending /\ pending[t] = Clear]_vars

(* The revision grows exactly when a lifecycle record changes, so a        *)
(* console cursor that carries it never spans two different record sets.   *)
RevisionTracksRecords ==
  [][(records' # records <=> revision' # revision) /\ revision' >= revision]_vars

(* A confirmed scenario without a start offset shows its effect in the     *)
(* frame plan of the very boundary that activates it: applying, expiring   *)
(* and planning happen in the order that guarantees at least one frame.    *)
ShowsEffect(t, s) ==
  LET plan == frame_plan(t.stream_id)
  IN  CASE s.kind = "DegradedTime" -> plan.degraded_time
        [] s.kind = "MissingFrames" -> plan.omit_data
        [] s.kind = "SignalExcursion" -> plan.signal
        [] s.kind = "DisconnectPdc" ->
             t.connection_id \in plan.disconnect_pdc_connection_ids
        [] OTHER -> TRUE

ConfirmedScenarioTakesEffect ==
  [][\A t \in DOMAIN pending \ DOMAIN pending', s \in Catalog :
       pending[t] = Activate(s) /\ s.start_frame_offset = 0
         => ShowsEffect(t, s)']_vars

(* The controller implements the abstract lifecycle: its four maps,        *)
(* lazily expired tokens and early returns are a target-wise               *)
(* prepare / confirm / apply machine in which nothing but a preparation is *)
(* ever withdrawn and a boundary applies every confirmed action at once.   *)
RunningScenarios == [t \in DOMAIN active |-> active[t].scenario]
WaitingActions ==
  [t \in DOMAIN prepared_targets \cup DOMAIN pending |->
     IF t \in DOMAIN pending
       THEN [stage |-> "pending", action |-> pending[t]]
       ELSE [stage |-> "prepared", action |-> prepared[prepared_targets[t]].action]]

Lifecycle == INSTANCE ScenarioLifecycle
               WITH Targets <- ScenarioTarget, Scenarios <- Catalog,
                    Capacity <- MAX_SCENARIO_TARGETS,
                    running <- RunningScenarios, waiting <- WaitingActions

ImplementsLifecycle == Lifecycle!LifecycleSpec
=============================================================================
