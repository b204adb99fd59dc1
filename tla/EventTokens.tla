----------------------------- MODULE EventTokens -----------------------------
(***************************************************************************)
(* The poll tokens of src/server.rs.  One machine word names every source  *)
(* of events: the PDC listeners, the PDC connections by endpoint, slot and *)
(* connection id, and, from MANAGEMENT_TOKEN_BASE on, the management       *)
(* listener and its connections.  Events are copied out of the poll before *)
(* they are dispatched, so a token may be decoded after its connection is  *)
(* gone and its slot taken again.                                          *)
(***************************************************************************)
EXTENDS Integers, FiniteSets

CONSTANTS
  EndpointCount,
  PDC_SLOTS_PER_ENDPOINT,
  MANAGEMENT_CONNECTION_LIMIT,
  EVENTS_CAPACITY,       \* events copied out of one poll
  USIZE_MAX              \* also u64::MAX: the words of the platform

MANAGEMENT_TOKEN_BASE == (USIZE_MAX \div 2) + 1
MANAGEMENT_LISTENER_TOKEN == MANAGEMENT_TOKEN_BASE

ASSUME TokensAssumption ==
  /\ EndpointCount \in Nat \ {0}
  /\ PDC_SLOTS_PER_ENDPOINT \in Nat \ {0}
  /\ MANAGEMENT_CONNECTION_LIMIT \in Nat \ {0}
  /\ EVENTS_CAPACITY \in Nat
  /\ USIZE_MAX \in Nat
  /\ EndpointCount <= MANAGEMENT_TOKEN_BASE

VARIABLES
  registered,                     \* connections that occupy a slot
  next_connection_id,
  next_management_connection_id,
  events,                         \* copied events: where they arose and their token
  dispatched                      \* the event of the last step and what it acted on

vars == <<registered, next_connection_id, next_management_connection_id, events, dispatched>>

EndpointIndexes == 0..(EndpointCount - 1)
Slots == 0..(PDC_SLOTS_PER_ENDPOINT - 1)
ManagementSlots == 0..(MANAGEMENT_CONNECTION_LIMIT - 1)

Listener(e) == [kind |-> "Listener", endpoint_index |-> e]
Connection(e, s, id) ==
  [kind |-> "Connection", endpoint_index |-> e, slot_index |-> s, connection_id |-> id]
ManagementListener == [kind |-> "ManagementListener"]
ManagementConnection(s, id) ==
  [kind |-> "ManagementConnection", slot_index |-> s, connection_id |-> id]

NoTarget == [kind |-> "None"]
NoToken == -1
Listeners == {Listener(e) : e \in EndpointIndexes} \cup {ManagementListener}

-----------------------------------------------------------------------------
(* The codec.                                                              *)

listener_token(index) == index

(* Every checked step only grows the number, so the last one decides.      *)
connection_token(e, s, id) ==
  LET token == (id * EndpointCount + e) * PDC_SLOTS_PER_ENDPOINT + s + EndpointCount
  IN  IF token >= MANAGEMENT_TOKEN_BASE THEN NoToken ELSE token

management_connection_token(s, id) ==
  LET token == MANAGEMENT_TOKEN_BASE + ((id - 1) * MANAGEMENT_CONNECTION_LIMIT + s + 1)
  IN  IF id = 0 \/ token > USIZE_MAX THEN NoToken ELSE token

ManagementTarget(token) ==
  LET encoded == token - (MANAGEMENT_TOKEN_BASE + 1)
  IN  ManagementConnection(encoded % MANAGEMENT_CONNECTION_LIMIT,
                           (encoded \div MANAGEMENT_CONNECTION_LIMIT) + 1)

ConnectionTarget(token) ==
  LET encoded == token - EndpointCount
      endpoint_and_connection == encoded \div PDC_SLOTS_PER_ENDPOINT
      id == endpoint_and_connection \div EndpointCount
  IN  IF id = 0 THEN NoTarget
      ELSE Connection(endpoint_and_connection % EndpointCount,
                      encoded % PDC_SLOTS_PER_ENDPOINT, id)

(* EndpointCount is positive here: run refuses an empty fleet.             *)
event_target(token) ==
  IF token = MANAGEMENT_LISTENER_TOKEN THEN ManagementListener
  ELSE IF token > MANAGEMENT_TOKEN_BASE THEN ManagementTarget(token)
  ELSE IF token < EndpointCount THEN Listener(token)
  ELSE ConnectionTarget(token)

(* The token a source is registered under.                                 *)
TokenOf(source) ==
  CASE source.kind = "Listener" -> listener_token(source.endpoint_index)
    [] source.kind = "ManagementListener" -> MANAGEMENT_LISTENER_TOKEN
    [] source.kind = "Connection" ->
         connection_token(source.endpoint_index, source.slot_index, source.connection_id)
    [] source.kind = "ManagementConnection" ->
         management_connection_token(source.slot_index, source.connection_id)

-----------------------------------------------------------------------------
(* Registration and dispatch.                                              *)

Init ==
  /\ registered = {}
  /\ next_connection_id = 1
  /\ next_management_connection_id = 1
  /\ events = {}
  /\ dispatched = [event |-> NoTarget, acted_on |-> NoTarget]

(* position(is_none): the first free slot.                                 *)
TakenSlots(e) ==
  {c.slot_index : c \in {r \in registered : r.kind = "Connection" /\ r.endpoint_index = e}}
TakenManagementSlots ==
  {c.slot_index : c \in {r \in registered : r.kind = "ManagementConnection"}}
IsFirstFree(s, taken) == s \notin taken /\ \A lower \in 0..(s - 1) : lower \in taken

(* A connection without a token is dropped, and its id is used again.      *)
accept_connections(e, s) ==
  /\ IsFirstFree(s, TakenSlots(e))
  /\ next_connection_id < USIZE_MAX
  /\ connection_token(e, s, next_connection_id) # NoToken
  /\ registered' = registered \cup {Connection(e, s, next_connection_id)}
  /\ next_connection_id' = next_connection_id + 1
  /\ UNCHANGED <<next_management_connection_id, events, dispatched>>

accept_management_connections(s) ==
  /\ IsFirstFree(s, TakenManagementSlots)
  /\ next_management_connection_id < USIZE_MAX
  /\ management_connection_token(s, next_management_connection_id) # NoToken
  /\ registered' = registered \cup {ManagementConnection(s, next_management_connection_id)}
  /\ next_management_connection_id' = next_management_connection_id + 1
  /\ UNCHANGED <<next_connection_id, events, dispatched>>

close(c) ==
  /\ registered' = registered \ {c}
  /\ UNCHANGED <<next_connection_id, next_management_connection_id, events, dispatched>>

(* The poll reports a source by its token; the copy outlives the source.   *)
poll(source) ==
  /\ Cardinality(events) < EVENTS_CAPACITY
  /\ events' = events \cup {[source |-> source, token |-> TokenOf(source)]}
  /\ UNCHANGED <<registered, next_connection_id, next_management_connection_id, dispatched>>

(* Fault: any occupant of the slot is served.                              *)
ActsOn_slot(target) ==
  IF target \in Listeners THEN target
  ELSE LET occupants == {c \in registered : /\ c.kind = target.kind
                                            /\ c.slot_index = target.slot_index}
       IN  IF occupants = {} THEN NoTarget ELSE CHOOSE c \in occupants : TRUE

(* A listener accepts; a connection is served while its id is in its slot. *)
ActsOn(target) == IF target \in Listeners \cup registered THEN target ELSE NoTarget

dispatch_event(event) ==
  /\ dispatched' = [event |-> event.source, acted_on |-> ActsOn(event_target(event.token))]
  /\ events' = events \ {event}
  /\ UNCHANGED <<registered, next_connection_id, next_management_connection_id>>

Next ==
  \/ \E e \in EndpointIndexes, s \in Slots : accept_connections(e, s)
  \/ \E s \in ManagementSlots : accept_management_connections(s)
  \/ \E c \in registered : close(c)
  \/ \E source \in Listeners \cup registered : poll(source)
  \/ \E event \in events : dispatch_event(event)

Spec == Init /\ [][Next]_vars

-----------------------------------------------------------------------------
(* Properties.                                                             *)

(* Two sources registered at the same time never share a token, and every  *)
(* token decodes to the source it was made for, up to the ends of both     *)
(* ranges of connection ids.                                               *)
TokensNameTheirSource ==
  \A source \in Listeners \cup registered :
    TokenOf(source) # NoToken /\ event_target(TokenOf(source)) = source

(* An event acts on the source it arose at or on nobody, however late it   *)
(* is dispatched: never on the next occupant of a slot, on a connection of *)
(* another endpoint, or across the two planes.                             *)
EventsReachTheirSource == dispatched.acted_on \in {dispatched.event, NoTarget}

=============================================================================
