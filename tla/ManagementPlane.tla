--------------------------- MODULE ManagementPlane ---------------------------
(***************************************************************************)
(* The management side of src/server.rs: one HTTP listener with a fixed    *)
(* number of connection slots, one request per connection, served by the   *)
(* same single-threaded loop as the PDCs.  A client makes one connection.  *)
(* Bytes of a request are counted against its message (HttpRequest);       *)
(* a response is RESPONSE units, of which one write takes at most          *)
(* WRITE_CHUNK and the kernel possibly fewer.                              *)
(*                                                                         *)
(* mio registers sockets edge-triggered: a socket is reported by the next  *)
(* poll when it is armed, that is after new bytes, EOF or room, or after   *)
(* (re)registration of a socket that is ready.  These connections have no  *)
(* deadline.                                                               *)
(***************************************************************************)
EXTENDS HttpRequest, Functions

CONSTANTS
  Clients,
  MessageOf,                    \* client -> the message it sends
  SizeOf,                       \* client -> the bytes it sends at most
  MANAGEMENT_CONNECTION_LIMIT,
  WRITE_CHUNK,
  RESPONSE,                     \* units of a response
  SEND_ROOM,                    \* units the socket's send buffer holds
  MAX_CONNECTION_ID,            \* last id that has a poll token
  AcceptFaults,                 \* accept may fail other than by WouldBlock
  Readers                       \* clients that read what they are sent

ASSUME PlaneAssumption ==
  /\ SizeOf \in [Clients -> Nat]
  /\ MANAGEMENT_CONNECTION_LIMIT \in Nat \ {0}
  /\ WRITE_CHUNK \in Nat \ {0}
  /\ RESPONSE \in Nat \ {0}
  /\ SEND_ROOM \in Nat \ {0}
  /\ MAX_CONNECTION_ID \in Nat
  /\ AcceptFaults \in BOOLEAN
  /\ Readers \subseteq Clients

VARIABLES
  connections,         \* occupied slot -> ManagementConnection
  next_connection_id,
  rejected_connections,
  pc,                  \* where the loop is
  budget,              \* accepts left in this call of the accept loop
  events,              \* rest of the batch copied by dispatch_events
  listener_event,      \* the batch holds the listener's event
  backlog,             \* clients waiting in the listener
  listener_armed,
  sockets,             \* client -> its end of the connection
  acted                \* client -> calls of management_request_response

loopVars == <<pc, budget, events, listener_event>>
listenerVars == <<backlog, listener_armed>>
vars == <<connections, next_connection_id, rejected_connections, loopVars, listenerVars,
          sockets, acted>>

Slots == 0..(MANAGEMENT_CONNECTION_LIMIT - 1)
Answers == {"Result", "Refusal"}

Without(map, keys) == Restrict(map, DOMAIN map \ keys)
With(map, key, value) ==
  [x \in DOMAIN map \cup {key} |-> IF x = key THEN value ELSE map[x]]

Init ==
  /\ connections = [s \in {} |-> s]
  /\ next_connection_id = 1
  /\ rejected_connections = 0
  /\ pc = "poll"
  /\ budget = 0
  /\ events = {}
  /\ listener_event = FALSE
  /\ backlog = <<>>
  /\ listener_armed = FALSE
  /\ sockets = [c \in Clients |-> [phase |-> "idle", sent |-> 0, peer |-> "open",
                                   room |-> SEND_ROOM, got |-> 0]]
  /\ acted = [c \in Clients |-> 0]

-----------------------------------------------------------------------------
(* Readiness.  A connection is registered READABLE until its response is   *)
(* queued, and WRITABLE from then on.                                      *)

Readable(c) == sockets[c.client].sent > c.received \/ sockets[c.client].peer # "open"
Writable(c) == sockets[c.client].room > 0 \/ sockets[c.client].peer = "reset"

Ready(c) == IF c.response = "None" THEN Readable(c) ELSE Writable(c)

(* Poll::poll reports every armed socket that is ready under its interest. *)
Poll ==
  /\ pc = "poll"
  /\ LET told == {s \in DOMAIN connections : connections[s].armed /\ Ready(connections[s])}
     IN  /\ told # {} \/ (listener_armed /\ backlog # <<>>)
         /\ events' = {[slot |-> s, connection_id |-> connections[s].connection_id,
                        readable |-> connections[s].response = "None",
                        writable |-> connections[s].response # "None"] : s \in told}
         /\ connections' = [s \in DOMAIN connections |->
                              [connections[s] EXCEPT !.armed = @ /\ s \notin told]]
  /\ listener_event' = (listener_armed /\ backlog # <<>>)
  /\ listener_armed' = FALSE
  /\ pc' = "dispatch"
  /\ UNCHANGED <<next_connection_id, rejected_connections, budget, backlog, sockets, acted>>

-----------------------------------------------------------------------------
(* accept_management_connections.                                          *)

(* Fault: one connection per event.                                        *)
AcceptBudget_one == 1

AcceptBudget == MANAGEMENT_CONNECTION_LIMIT

StartAccepting ==
  /\ pc = "dispatch" /\ listener_event
  /\ listener_event' = FALSE
  /\ budget' = AcceptBudget
  /\ pc' = "accepting"
  /\ UNCHANGED <<connections, next_connection_id, rejected_connections, events,
                 listenerVars, sockets, acted>>

FreeSlots == Slots \ DOMAIN connections

(* The stream is dropped.  What the peer does on its side afterwards does  *)
(* not matter any more.                                                    *)
Dropped(socket) == [socket EXCEPT !.phase = "closed", !.peer = "open", !.room = SEND_ROOM]

(* No free slot, no id or token left, or a socket that cannot be           *)
(* registered (external): the stream is dropped without an answer.         *)
Refuse(client) ==
  /\ rejected_connections' = rejected_connections + 1
  /\ sockets' = [sockets EXCEPT ![client] = Dropped(@)]
  /\ UNCHANGED <<connections, next_connection_id>>

Registered(client) == sockets[client].sent > 0 \/ sockets[client].peer # "open"

Admit(client) ==
  \E s \in FreeSlots :
    /\ \A t \in FreeSlots : s <= t
    /\ next_connection_id <= MAX_CONNECTION_ID
    /\ next_connection_id' = next_connection_id + 1
    /\ connections' = With(connections, s,
         [connection_id |-> next_connection_id, client |-> client, received |-> 0,
          response |-> "None", response_offset |-> 0, armed |-> Registered(client)])
    /\ sockets' = [sockets EXCEPT ![client].phase = "served"]
    /\ UNCHANGED rejected_connections

(* The loop accepts until the listener would block or its budget is spent; *)
(* any other error of accept ends the process.                             *)
accept_management_connections ==
  /\ pc = "accepting"
  /\ \/ /\ budget > 0 /\ backlog # <<>>
        /\ Refuse(Head(backlog)) \/ Admit(Head(backlog))
        /\ backlog' = Tail(backlog)
        /\ budget' = budget - 1
        /\ UNCHANGED pc
     \/ /\ budget = 0 \/ backlog = <<>>
        /\ pc' = "dispatch"
        /\ budget' = 0
        /\ UNCHANGED <<connections, next_connection_id, rejected_connections, backlog, sockets>>
     \/ /\ AcceptFaults /\ budget > 0
        /\ pc' = "stopped"
        /\ UNCHANGED <<connections, next_connection_id, rejected_connections, budget,
                       backlog, sockets>>
  /\ UNCHANGED <<events, listener_event, listener_armed, acted>>

-----------------------------------------------------------------------------
(* dispatch_management_connection.                                         *)

Minimum(a, b) == IF a < b THEN a ELSE b

(* read until the buffer is full, the socket empty or its end met.         *)
Received(c) == Minimum(MAX_REQUEST_BYTES, sockets[c.client].sent)

MeetsEnd(c, peer) == Received(c) < MAX_REQUEST_BYTES /\ sockets[c.client].peer = peer

(* Fault: a request cut short by its peer goes on waiting.                 *)
ReadVerdict_waiting(c) ==
  LET outcome == parse(MessageOf[c.client], Received(c))
  IN  CASE MeetsEnd(c, "reset") -> "Closed"
        [] ~MeetsEnd(c, "reset") /\ outcome = Incomplete -> "Incomplete"
        [] OTHER -> IF outcome = Complete THEN "Result" ELSE "Refusal"

(* read_management_connection: ManagementReadResult.                       *)
ReadVerdict(c) ==
  LET outcome == parse(MessageOf[c.client], Received(c))
      closed == MeetsEnd(c, "shut")
  IN  IF MeetsEnd(c, "reset") \/ (closed /\ Received(c) = 0) THEN "Closed"
      ELSE IF outcome = Complete THEN "Result"
      ELSE IF outcome = Incomplete /\ ~closed THEN "Incomplete"
      ELSE "Refusal"

queue_management_response(c, answer) ==
  [c EXCEPT !.response = answer, !.response_offset = 0, !.armed = Writable(c)]

Close(slot) ==
  /\ connections' = Without(connections, {slot})
  /\ sockets' = [sockets EXCEPT ![connections[slot].client] = Dropped(@)]
  /\ UNCHANGED acted

(* Only a complete request reaches management_request_response.            *)
ActsOn(verdict) == verdict = "Result"

ReadConnection(slot) ==
  LET c == connections[slot]
      d == [c EXCEPT !.received = Received(c)]
      verdict == ReadVerdict(c)
  IN  \/ /\ verdict = "Closed"
         /\ Close(slot)
      \/ /\ verdict = "Incomplete"
         /\ connections' = [connections EXCEPT ![slot] = d]
         /\ UNCHANGED <<sockets, acted>>
      \/ /\ verdict \in Answers
         /\ connections' = [connections EXCEPT ![slot] = queue_management_response(d, verdict)]
         /\ acted' = [acted EXCEPT ![c.client] = IF ActsOn(verdict) THEN @ + 1 ELSE @]
         /\ UNCHANGED sockets

(* Fault: the connection is kept for another request.                      *)
FinishResponse_keep_alive(slot, written) ==
  LET c == connections[slot]
  IN  /\ connections' = [connections EXCEPT ![slot] =
                           [c EXCEPT !.response = "None", !.response_offset = 0, !.armed = TRUE]]
      /\ sockets' = [sockets EXCEPT ![c.client].got = @ + written,
                                    ![c.client].room = @ - written]
      /\ UNCHANGED acted

FinishResponse(slot, written) ==
  LET client == connections[slot].client
      socket == sockets[client]
  IN  /\ connections' = Without(connections, {slot})
      /\ sockets' = [sockets EXCEPT
                       ![client] = Dropped([socket EXCEPT !.got = @ + written])]
      /\ UNCHANGED acted

IsLast(c, written) == c.response_offset + written = RESPONSE

Rearm(c, written) ==
  sockets[c.client].room > written \/ sockets[c.client].peer = "reset"

(* flush_management_connection: one write per event.                       *)
FlushConnection(slot) ==
  LET c == connections[slot]
      socket == sockets[c.client]
      written == Minimum(Minimum(WRITE_CHUNK, RESPONSE - c.response_offset), socket.room)
  IN  \/ /\ socket.peer = "reset"
         /\ Close(slot)
      \/ /\ socket.peer # "reset"
         /\ IsLast(c, written)
         /\ FinishResponse(slot, written)
      \/ /\ socket.peer # "reset"
         /\ ~IsLast(c, written)
         /\ connections' = [connections EXCEPT ![slot].response_offset = @ + written,
                                               ![slot].armed = Rearm(c, written)]
         /\ sockets' = [sockets EXCEPT ![c.client].got = @ + written,
                                       ![c.client].room = @ - written]
         /\ UNCHANGED acted

IsCurrent(e) ==
  /\ e.slot \in DOMAIN connections
  /\ connections[e.slot].connection_id = e.connection_id

dispatch_management_connection(e) ==
  /\ pc = "dispatch"
  /\ IF IsCurrent(e)
       THEN \/ e.readable /\ ReadConnection(e.slot)
            \/ e.writable /\ FlushConnection(e.slot)
       ELSE UNCHANGED <<connections, sockets, acted>>
  /\ events' = events \ {e}
  /\ UNCHANGED <<next_connection_id, rejected_connections, pc, budget, listener_event,
                 listenerVars>>

EndBatch ==
  /\ pc = "dispatch" /\ events = {} /\ ~listener_event
  /\ pc' = "poll"
  /\ UNCHANGED <<connections, next_connection_id, rejected_connections, budget, events,
                 listener_event, listenerVars, sockets, acted>>

-----------------------------------------------------------------------------
(* Clients and the kernel (external).                                      *)

SlotsOf(c) == {s \in DOMAIN connections : connections[s].client = c}

Connect(c) ==
  /\ sockets[c].phase = "idle"
  /\ sockets' = [sockets EXCEPT ![c].phase = "queued"]
  /\ backlog' = Append(backlog, c)
  /\ listener_armed' = TRUE
  /\ UNCHANGED <<connections, next_connection_id, rejected_connections, loopVars, acted>>

(* A change of the socket arms the registration it concerns.               *)
SocketStep(c, socket, arms) ==
  /\ sockets' = [sockets EXCEPT ![c] = socket]
  /\ connections' = [s \in DOMAIN connections |->
                       [connections[s] EXCEPT
                          !.armed = @ \/ (s \in SlotsOf(c) /\ connections[s].response \in arms)]]
  /\ UNCHANGED <<next_connection_id, rejected_connections, loopVars, listenerVars, acted>>

Connected(c) == sockets[c].phase \in {"queued", "served"}

ClientSends(c) ==
  /\ Connected(c) /\ sockets[c].peer = "open" /\ sockets[c].sent < SizeOf[c]
  /\ \E n \in 1..(SizeOf[c] - sockets[c].sent) :
       SocketStep(c, [sockets[c] EXCEPT !.sent = @ + n], {"None"})

ClientShuts(c) ==
  /\ Connected(c) /\ sockets[c].peer = "open"
  /\ SocketStep(c, [sockets[c] EXCEPT !.peer = "shut"], {"None"})

ClientResets(c) ==
  /\ Connected(c) /\ sockets[c].peer # "reset"
  /\ SocketStep(c, [sockets[c] EXCEPT !.peer = "reset"], {"None"} \cup Answers)

ClientReads(c) ==
  /\ c \in Readers /\ Connected(c) /\ sockets[c].peer # "reset"
  /\ sockets[c].room < SEND_ROOM
  /\ SocketStep(c, [sockets[c] EXCEPT !.room = @ + 1], Answers)

Server ==
  \/ Poll
  \/ StartAccepting
  \/ accept_management_connections
  \/ \E e \in events : dispatch_management_connection(e)
  \/ EndBatch

(* The end of the process ends every connection.                           *)
Client ==
  /\ pc # "stopped"
  /\ \E c \in Clients :
       Connect(c) \/ ClientSends(c) \/ ClientShuts(c) \/ ClientResets(c) \/ ClientReads(c)

Next == Server \/ Client

Spec == Init /\ [][Next]_vars

(* The loop does not stop while it has something to do, and a reading      *)
(* client goes on reading.  Clients owe nothing else: they may stay silent *)
(* or hold a connection for ever.                                          *)
Fairness ==
  /\ WF_vars(Server)
  /\ \A c \in Readers : WF_vars(ClientReads(c))

FairSpec == Spec /\ Fairness

-----------------------------------------------------------------------------
(* Properties.                                                             *)

(* A request is acted on at most once, whatever the segments, EOFs and     *)
(* resets of its connection, and only if the bytes sent so far are the     *)
(* complete request or begin with it.  The answer tells the truth: what a  *)
(* client has read of a result belongs to a request that was acted on, and *)
(* nothing is acted on for a client whose request is refused.              *)
ActedOnceOnWholeRequests ==
  /\ \A c \in Clients :
       /\ acted[c] <= 1
       /\ acted[c] = 1 => \E n \in 0..sockets[c].sent : parse(MessageOf[c], n) = Complete
  /\ \A s \in DOMAIN connections :
       LET c == connections[s]
       IN  /\ c.response = "Result" <=> acted[c.client] = 1
           /\ sockets[c.client].got = c.response_offset

Stopped == pc = "stopped"

(* A client whose bytes decide its request, or who shuts its side down,    *)
(* is answered and released as long as it reads, although other clients    *)
(* hold their slots silently for ever.                                     *)
DecidedClientsAreReleased ==
  \A c \in Readers :
    /\ sockets[c].phase = "served"
    /\ \/ sockets[c].peer # "open"
       \/ \E n \in 0..MAX_REQUEST_BYTES :
            /\ n <= sockets[c].sent
            /\ parse(MessageOf[c], n) # Incomplete
    ~> sockets[c].phase = "closed" \/ Stopped

(* No client is left in the listener's backlog, provided the backlog never *)
(* outgrows what one call of the accept loop takes.  Beyond that a client  *)
(* waits until another one connects: the listener is reported only once.   *)
NobodyIsStranded ==
  [](Len(backlog) <= MANAGEMENT_CONNECTION_LIMIT)
    => \A c \in Clients : sockets[c].phase = "queued" ~> sockets[c].phase # "queued" \/ Stopped
=============================================================================
