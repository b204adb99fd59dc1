-------------------------- MODULE ScenarioLifecycle --------------------------
(***************************************************************************)
(* What the scenario controller promises its operators, without tokens,    *)
(* clocks, sample indices or revisions: every target runs at most one      *)
(* scenario and has at most one action under way, an action is prepared,   *)
(* then confirmed, then applied with all other confirmed ones at the next  *)
(* reporting boundary, and only a preparation may be withdrawn.            *)
(***************************************************************************)
EXTENDS Integers, FiniteSets, Functions

CONSTANTS Targets, Scenarios, Capacity

VARIABLES
  running,  \* target -> the scenario it runs
  waiting   \* target -> its action under way and whether it is confirmed

lifecycleVars == <<running, waiting>>

Nothing == [key \in {} |-> key]
ClearAction == [op |-> "Clear"]
Actions == {[op |-> "Activate", scenario |-> s] : s \in Scenarios} \cup {ClearAction}

InStage(stage) == {t \in DOMAIN waiting : waiting[t].stage = stage}

(* An action is admissible on a target whose state it changes.             *)
Admissible(t, a) ==
  IF a = ClearAction
    THEN t \in DOMAIN running /\ running[t].lifecycle = "Sustained"
    ELSE t \notin DOMAIN running

LifecycleInit == running = Nothing /\ waiting = Nothing

(* Preparations expire or are cancelled, any number at a time.             *)
Remaining(withdrawn) == Restrict(waiting, DOMAIN waiting \ withdrawn)

Withdraw(withdrawn) ==
  /\ waiting' = Remaining(withdrawn)
  /\ UNCHANGED running

Prepare(withdrawn, t, a) ==
  /\ t \notin DOMAIN Remaining(withdrawn)
  /\ Admissible(t, a)
  /\ Cardinality(DOMAIN running \cup DOMAIN Remaining(withdrawn) \cup {t}) <= Capacity
  /\ waiting' = [u \in DOMAIN Remaining(withdrawn) \cup {t} |->
                   IF u = t THEN [stage |-> "prepared", action |-> a]
                            ELSE waiting[u]]
  /\ UNCHANGED running

Confirm(withdrawn, t) ==
  /\ t \in InStage("prepared") \ withdrawn
  /\ waiting' = [Remaining(withdrawn) EXCEPT ![t].stage = "pending"]
  /\ UNCHANGED running

Request ==
  \E withdrawn \in SUBSET InStage("prepared") :
    \/ Withdraw(withdrawn)
    \/ \E t \in Targets, a \in Actions : Prepare(withdrawn, t, a)
    \/ \E t \in Targets : Confirm(withdrawn, t)

(* All confirmed actions are applied at once; transients may end, and      *)
(* preparations are left alone.                                            *)
Boundary ==
  LET started == {t \in InStage("pending") : waiting[t].action # ClearAction}
      ended   == InStage("pending") \ started
      after   == [t \in (DOMAIN running \ ended) \cup started |->
                    IF t \in started THEN waiting[t].action.scenario
                                     ELSE running[t]]
  IN  \E over \in SUBSET {t \in DOMAIN after : after[t].lifecycle = "Transient"} :
        /\ running' = Restrict(after, DOMAIN after \ over)
        /\ waiting' = Remaining(InStage("pending"))

LifecycleNext == Request \/ Boundary

LifecycleSpec == LifecycleInit /\ [][LifecycleNext]_lifecycleVars
=============================================================================
