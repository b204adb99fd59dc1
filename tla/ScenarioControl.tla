--------------------------- MODULE ScenarioControl ---------------------------
(***************************************************************************)
(* Scenario control as its clients meet it: management_request_response of *)
(* src/server.rs in front of the scenario controller, the PDC connections  *)
(* a target may name, the disconnections a reporting boundary carries out, *)
(* and the restart of the state-free process by its supervisor.            *)
(*                                                                         *)
(* An operator holds what a prepare or clear answered: the token, and what *)
(* it was issued for.  The answer outlives the process that gave it, and a *)
(* confirmation may be sent late, twice, or after a restart.  The other    *)
(* handlers only read; requests refused for their own content (label,      *)
(* unknown scenario) change nothing and are left out.                      *)
(***************************************************************************)
EXTENDS ScenarioController

CONSTANTS
  Endpoints,       \* stream ids of the endpoints of this process
  MaxProcess       \* bound on restarts

ASSUME ControlAssumption ==
  /\ Endpoints \subseteq Streams
  /\ Connections \subseteq Nat \ {0}
  /\ MaxProcess \in Nat \ {0}

VARIABLES
  process,         \* which incarnation is running
  live,            \* admitted PDC connections, as targets
  next_pdc,        \* Server.next_connection_id
  held,            \* answers operators hold
  request          \* the last step's confirm, with the answer it was sent for,
                   \* or clear, with the answer it got

controlVars == <<process, live, next_pdc, held, request>>
allVars == <<vars, controlVars>>

Pdc(stream, id) == [type |-> "Pdc", stream_id |-> stream, connection_id |-> id]

NoRequest == [kind |-> "none"]

ControlInit ==
  /\ Init
  /\ process = 1
  /\ live = {}
  /\ next_pdc = 1
  /\ held = {}
  /\ request = NoRequest

-----------------------------------------------------------------------------
(* The handlers.                                                           *)

(* Fault: a connection that may exist one day is admitted.                 *)
scenario_target_is_admitted_any(target, allows_disconnected_active_pdc) ==
  target.stream_id \in Endpoints

(* Fault: only what is connected now can be cleared.                       *)
scenario_target_is_admitted_live(target, allows_disconnected_active_pdc) ==
  target.stream_id \in Endpoints /\ (target.type = "Pdc" => target \in live)

scenario_target_is_admitted(target, allows_disconnected_active_pdc) ==
  \/ target.type = "Endpoint" /\ target.stream_id \in Endpoints
  \/ target.type = "Pdc" /\ target \in live
  \/ /\ target.type = "Pdc"
     /\ allows_disconnected_active_pdc
     /\ target \in DOMAIN active

(* scenario_request_rejected_response before the controller is reached.    *)
Rejected == UNCHANGED <<vars, process, live, next_pdc, held>>

(* The 202 answer carries the token and what it stands for.                *)
Answered(target) ==
  /\ held' = IF reply'.result = "Ok"
               THEN held \cup {[process |-> process, token |-> next_token,
                                target |-> target, action |-> prepared'[next_token].action]}
               ELSE held
  /\ UNCHANGED <<process, live, next_pdc>>

PrepareRequest(target, scenario) ==
  /\ request' = NoRequest
  /\ \/ ~scenario_target_is_admitted(target, FALSE) /\ Rejected
     \/ /\ scenario_target_is_admitted(target, FALSE)
        /\ prepare_activation(target, scenario)
        /\ Answered(target)

ClearAsked(target, answer) == [kind |-> "clear", for |-> target, answer |-> answer]

ClearRequest(target) ==
  \/ /\ ~scenario_target_is_admitted(target, TRUE)
     /\ Rejected
     /\ request' = ClearAsked(target, "Rejected")
  \/ /\ scenario_target_is_admitted(target, TRUE)
     /\ prepare_clear(target)
     /\ Answered(target)
     /\ request' = ClearAsked(target, reply'.result)

(* Fault: the newest preparation is confirmed whatever the token.          *)
RequestedToken_newest(h) ==
  IF DOMAIN prepared = {} THEN h.token
  ELSE CHOOSE k \in DOMAIN prepared : \A j \in DOMAIN prepared : j <= k

(* The token is all a confirm or cancel request says.                      *)
RequestedToken(h) == h.token

ConfirmRequest(h) ==
  /\ confirm(RequestedToken(h))
  /\ request' = [kind |-> "confirm", for |-> h]
  /\ UNCHANGED <<process, live, next_pdc, held>>

CancelRequest(h) ==
  /\ cancel(RequestedToken(h))
  /\ request' = NoRequest
  /\ UNCHANGED <<process, live, next_pdc, held>>

StateRequest ==
  /\ snapshot
  /\ request' = NoRequest
  /\ UNCHANGED <<process, live, next_pdc, held>>

-----------------------------------------------------------------------------
(* The rest of the process: boundaries, connections, restarts.             *)

Disconnected(t) == t.connection_id \in frame_plan(t.stream_id).disconnect_pdc_connection_ids

(* emit_data: the boundary first, then the connections its plans name.     *)
(* The scheduler hands out increasing samples.                             *)
Boundary(sample) ==
  /\ sample > current_sample_index
  /\ advance_boundary(sample)
  /\ live' = {t \in live : ~Disconnected(t)'}
  /\ request' = NoRequest
  /\ UNCHANGED <<process, next_pdc, held>>

FreshConnection(stream) == Connections \cap {next_pdc}

PdcConnects(stream) ==
  \E id \in FreshConnection(stream) :
    /\ live' = live \cup {Pdc(stream, id)}
    /\ next_pdc' = next_pdc + 1
    /\ request' = NoRequest
    /\ UNCHANGED <<vars, process, held>>

PdcLeaves(t) ==
  /\ live' = live \ {t}
  /\ request' = NoRequest
  /\ UNCHANGED <<vars, process, next_pdc, held>>

(* Nothing is persisted: a new process counts from the beginning.          *)
Restart ==
  /\ process < MaxProcess
  /\ process' = process + 1
  /\ prepared' = EmptyMap /\ prepared_targets' = EmptyMap
  /\ pending' = EmptyMap /\ active' = EmptyMap
  /\ current_sample_index' = NoSample
  /\ next_token' = 1
  /\ revision' = 0
  /\ reply' = Reply("new", "Ok")
  /\ live' = {}
  /\ next_pdc' = 1
  /\ request' = NoRequest
  /\ UNCHANGED <<now, held>>

ControlTick ==
  /\ Tick
  /\ request' = NoRequest
  /\ UNCHANGED <<process, live, next_pdc, held>>

ControlNext ==
  \/ \E t \in ScenarioTarget, s \in Catalog : PrepareRequest(t, s)
  \/ \E t \in ScenarioTarget : ClearRequest(t)
  \/ \E h \in held : ConfirmRequest(h) \/ CancelRequest(h)
  \/ StateRequest
  \/ \E i \in 0..MaxSample : Boundary(i)
  \/ \E stream \in Endpoints : PdcConnects(stream)
  \/ \E t \in live : PdcLeaves(t)
  \/ Restart
  \/ ControlTick

ControlSpec == ControlInit /\ [][ControlNext]_allVars

-----------------------------------------------------------------------------
(* Properties.                                                             *)

(* A connection that has just been admitted is not the target of anything  *)
(* prepared, confirmed or active: a scenario prepared for one client never *)
(* disconnects a client that came later.                                   *)
NewcomersAreUntargeted ==
  [][\A t \in live' \ live : t \notin TrackedTargets(DOMAIN prepared_targets)]_allVars

(* The only thing in the way of clearing a sustained scenario is that it is *)
(* being cleared: a live preparation or a pending action of its target is   *)
(* a clear.                                                                 *)
BeingCleared(t) ==
  \/ t \in DOMAIN pending /\ pending[t] = Clear
  \/ \E k \in DOMAIN prepared : /\ prepared[k].target = t
                                /\ prepared[k].action = Clear
                                /\ now < prepared[k].expires_at

(* A sustained scenario never occupies one of the MAX_SCENARIO_TARGETS      *)
(* places for good, also when the connection it was prepared for is gone    *)
(* and when no place is left: a clear asked for gets its token unless one   *)
(* is under way or the process can issue no more; confirming a token in     *)
(* time, whoever holds it, queues the clear; and the next boundary frees    *)
(* the place.                                                               *)
SustainedCanBeCleared ==
  [][\A t \in {u \in DOMAIN active : IsSustained(u)} :
       /\ request'.kind = "clear" /\ request'.for = t =>
            \/ request'.answer = "Ok"
            \/ request'.answer = "TargetBusy" /\ BeingCleared(t)'
            \/ request'.answer = "TokenExpiryOverflow" /\ ExpiryOverflows
            \/ request'.answer = "TokenSpaceExhausted" /\ TokenSpaceExhausted
       /\ \A h \in held :
            /\ request'.kind = "confirm" /\ request'.for = h
            /\ h.process = process /\ h.target = t /\ h.action = Clear
            /\ h.token \in DOMAIN prepared \ ExpiredTokens
            => t \in DOMAIN pending' /\ pending'[t] = Clear
       /\ /\ t \in DOMAIN pending /\ pending[t] = Clear
          /\ current_sample_index' > current_sample_index
          => t \notin DOMAIN active']_allVars

Effective == {t \in DOMAIN pending' : t \notin DOMAIN pending}

(* Within one process a confirmation, late or repeated, queues exactly the *)
(* action whose preparation it answers, or nothing.                        *)
ConfirmsWhatWasPrepared ==
  [][request'.kind = "confirm" /\ request'.for.process = process =>
       \A t \in Effective :
         t = request'.for.target /\ pending'[t] = request'.for.action]_allVars

=============================================================================
