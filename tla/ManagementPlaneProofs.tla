------------------------ MODULE ManagementPlaneProofs ------------------------
(***************************************************************************)
(* Proofs about the management side of the server, for every number of     *)
(* clients and slots, every message and every way its bytes arrive: what   *)
(* parse may say of a message that arrives in pieces, that a request is    *)
(* acted on once, when it is complete, and answered truthfully, and that   *)
(* what is acted on has one reading.                                       *)
(***************************************************************************)
EXTENDS ManagementPlane, RequestReading, WellFoundedInduction, FiniteSetTheorems, TLAPS

-----------------------------------------------------------------------------
(* parse.  What the head says is left unexpanded: the lengths at which it  *)
(* is asked decide.  A number that does not parse has been refused by the  *)
(* head, so the end of the request is not before the end of its head.      *)

LEMMA Tags ==
  ASSUME NEW error
  PROVE  /\ Failed(error).tag = "Error"
         /\ Failed(error) # Complete
         /\ Failed(error) # Incomplete
         /\ Complete # Incomplete
         /\ Complete.tag # "Error"
         /\ Incomplete.tag # "Error"
  BY DEF Failed, Complete, Incomplete

(* A message may arrive in any pieces: it is acted on at one length only,  *)
(* before which the connection waits; what was refused once is never acted *)
(* on; and a full buffer, which is never read again, is decided.           *)
THEOREM PiecesDoNotMatter ==
  ASSUME NEW m, NEW n \in 0..MAX_REQUEST_BYTES,
         m.head_end \in Nat, BodyLength(m) \in Int
  PROVE  WaitsForAll(m, n) /\ RefusalStands(m, n) /\ FullIsDecided(m, n)
<1> DEFINE end == RequestEnd(m)
           bad == HeadError(m)
           spoilt == requires_json_body(m) /\ BodyError(m.path, m.body) # "None"
<1>1. MAX_REQUEST_BYTES \in Nat /\ end \in Int
  BY HttpAssumption DEF RequestEnd
<1>2. \A k \in 0..MAX_REQUEST_BYTES :
        parse(m, k) =
          IF k < m.head_end THEN incomplete_or_at_limit(k)
          ELSE IF bad # "None" THEN Failed(bad)
          ELSE IF k < end THEN incomplete_or_at_limit(k)
          ELSE IF k > end THEN Failed("TrailingData")
          ELSE IF spoilt THEN Failed(BodyError(m.path, m.body))
          ELSE Complete
  BY <1>1 DEF parse
<1> HIDE DEF end, bad, spoilt
<1>3. \A k \in 0..MAX_REQUEST_BYTES :
        incomplete_or_at_limit(k) =
          IF k = MAX_REQUEST_BYTES THEN Failed("IncompleteAtLimit") ELSE Incomplete
  BY DEF incomplete_or_at_limit
<1>4. \A k \in 0..MAX_REQUEST_BYTES :
        parse(m, k) = Complete => k >= m.head_end /\ bad = "None" /\ k = end
  BY <1>1, <1>2, <1>3, Tags
<1>5. WaitsForAll(m, n)
  <2> SUFFICES ASSUME parse(m, n) = Complete, NEW k \in 0..(n - 1)
               PROVE  parse(m, k) = Incomplete
    BY DEF WaitsForAll
  <2>1. n >= m.head_end /\ bad = "None" /\ n = end
    BY <1>4
  <2>2. k \in 0..MAX_REQUEST_BYTES /\ k < end /\ k # MAX_REQUEST_BYTES
    BY <1>1, <2>1
  <2> QED
    BY <1>2, <1>3, <2>1, <2>2
<1>6. RefusalStands(m, n)
  <2> SUFFICES ASSUME parse(m, n).tag = "Error", NEW k \in (n + 1)..MAX_REQUEST_BYTES,
                      parse(m, k) = Complete
               PROVE  FALSE
    BY DEF RefusalStands
  <2>1. k \in 0..MAX_REQUEST_BYTES /\ n < k /\ n # MAX_REQUEST_BYTES
    BY <1>1
  <2>2. bad = "None" /\ k = end
    BY <1>4, <2>1
  <2>3. parse(m, n) = Incomplete
    BY <1>2, <1>3, <2>1, <2>2
  <2> QED
    BY <2>3, Tags
<1>7. FullIsDecided(m, n)
  BY <1>2, <1>3, Tags DEF FullIsDecided
<1> QED
  BY <1>5, <1>6, <1>7
-----------------------------------------------------------------------------
(* The inductive invariant.                                                *)

Fields == {"connection_id", "client", "received", "response", "response_offset", "armed"}
SocketFields == {"phase", "sent", "peer", "room", "got"}

(* A connection against its client's end and the calls made for it.        *)
Fits(c, socket, calls) ==
  /\ DOMAIN c = Fields
  /\ c.response \in {"None"} \cup Answers
  /\ c.response = "Result" <=> calls = 1
  /\ socket.phase = "served"
  /\ socket.got = c.response_offset
  /\ c.response = "None" => c.response_offset = 0

(* Every slot belongs to a client of its own, under an id of its own.      *)
SlotsInv ==
  /\ \A s \in DOMAIN connections :
       /\ connections[s].client \in Clients
       /\ connections[s].connection_id \in 0..(next_connection_id - 1)
       /\ Fits(connections[s], sockets[connections[s].client], acted[connections[s].client])
  /\ \A s, t \in DOMAIN connections : connections[s].client = connections[t].client => s = t

(* The events of a batch are told of different slots, and one that is not  *)
(* stale still says what its connection is waiting for: no slot is read    *)
(* after its answer was queued, and none is answered from an old event of  *)
(* a connection that had the slot before.                                  *)
EventsInv ==
  /\ \A e \in events :
       /\ e.connection_id \in 0..(next_connection_id - 1)
       /\ IsCurrent(e) =>
            /\ e.readable <=> connections[e.slot].response = "None"
            /\ e.writable <=> connections[e.slot].response # "None"
  /\ \A e, f \in events : e.slot = f.slot => e = f

(* Clients in the backlog are queued, once each, and nothing has been done *)
(* for a client that is not served yet.                                    *)
BacklogInv ==
  /\ backlog \in Seq(Clients)
  /\ \A i \in 1..Len(backlog) : sockets[backlog[i]].phase = "queued"
  /\ \A i, j \in 1..Len(backlog) : backlog[i] = backlog[j] => i = j

HasWhole(c) == \E n \in 0..sockets[c].sent : parse(MessageOf[c], n) = Complete

ClientsInv ==
  /\ next_connection_id \in Nat
  /\ DOMAIN sockets = Clients
  /\ acted \in [Clients -> {0, 1}]
  /\ \A c \in Clients :
       /\ DOMAIN sockets[c] = SocketFields
       /\ sockets[c].sent \in Nat
       /\ acted[c] = 1 => HasWhole(c)
       /\ sockets[c].phase \in {"idle", "queued"} => acted[c] = 0 /\ sockets[c].got = 0

PlaneInv == SlotsInv /\ EventsInv /\ BacklogInv /\ ClientsInv

LEMMA InitiallyPlane == Init => PlaneInv
<1> SUFFICES ASSUME Init PROVE PlaneInv
  OBVIOUS
<1>1. ClientsInv
  BY DEF Init, ClientsInv, SocketFields
<1>2. BacklogInv
  BY DEF Init, BacklogInv
<1> QED
  BY <1>1, <1>2 DEF Init, PlaneInv, SlotsInv, EventsInv

-----------------------------------------------------------------------------
(* Steps that only arm or disarm registrations, or move a socket.          *)

(* A slot whose readiness may have changed, nothing else.                  *)
SameButArmed(c, d) ==
  /\ DOMAIN d = Fields
  /\ d.connection_id = c.connection_id /\ d.client = c.client
  /\ d.response = c.response /\ d.response_offset = c.response_offset

LEMMA ArmingKeepsSlots ==
  ASSUME PlaneInv, UNCHANGED <<next_connection_id, acted>>,
         DOMAIN connections' = DOMAIN connections,
         \A s \in DOMAIN connections : SameButArmed(connections[s], connections'[s]),
         \A c \in Clients : /\ sockets'[c].phase = sockets[c].phase
                            /\ sockets'[c].got = sockets[c].got
  PROVE  /\ SlotsInv'
         /\ UNCHANGED events => EventsInv'
<1>1. ASSUME NEW s \in DOMAIN connections
      PROVE  /\ connections'[s].client \in Clients
             /\ connections'[s].connection_id \in 0..(next_connection_id - 1)
             /\ Fits(connections'[s], sockets'[connections'[s].client],
                     acted[connections'[s].client])
  BY <1>1 DEF PlaneInv, SlotsInv, SameButArmed, Fits
<1>2. SlotsInv'
  BY <1>1 DEF PlaneInv, SlotsInv, SameButArmed
<1>3. UNCHANGED events => EventsInv'
  BY DEF PlaneInv, EventsInv, IsCurrent, SameButArmed
<1> QED
  BY <1>2, <1>3

LEMMA PollKeepsPlane ==
  ASSUME PlaneInv, Poll
  PROVE  PlaneInv'
<1> DEFINE told == {s \in DOMAIN connections : connections[s].armed /\ Ready(connections[s])}
<1>1. /\ DOMAIN connections' = DOMAIN connections
      /\ \A s \in DOMAIN connections : SameButArmed(connections[s], connections'[s])
  <2>1. connections' = [s \in DOMAIN connections |->
                          [connections[s] EXCEPT !.armed = @ /\ s \notin told]]
    BY DEF Poll
  <2> HIDE DEF told
  <2>2. \A s \in DOMAIN connections : DOMAIN connections[s] = Fields
    BY DEF PlaneInv, SlotsInv, Fits
  <2> QED
    BY <2>1, <2>2 DEF SameButArmed, Fields
<1>2. UNCHANGED <<next_connection_id, acted, sockets, backlog>>
  BY DEF Poll
<1>3. SlotsInv'
  BY <1>1, <1>2, ArmingKeepsSlots
<1>4. events' = {[slot |-> s, connection_id |-> connections[s].connection_id,
                  readable |-> connections[s].response = "None",
                  writable |-> connections[s].response # "None"] : s \in told}
  BY DEF Poll
<1>5. EventsInv'
  <2>1. \A e \in events' : \E s \in told :
          e = [slot |-> s, connection_id |-> connections[s].connection_id,
               readable |-> connections[s].response = "None",
               writable |-> connections[s].response # "None"]
    BY <1>4
  <2>2. told \subseteq DOMAIN connections
    OBVIOUS
  <2> HIDE DEF told
  <2>3. \A e, f \in events' : e.slot = f.slot => e = f
    BY <2>1
  <2>4. ASSUME NEW e \in events'
        PROVE  /\ e.connection_id \in 0..(next_connection_id' - 1)
               /\ IsCurrent(e)' =>
                    /\ e.readable <=> connections'[e.slot].response = "None"
                    /\ e.writable <=> connections'[e.slot].response # "None"
    <3>1. PICK s \in told :
            /\ e.slot = s /\ e.connection_id = connections[s].connection_id
            /\ e.readable = (connections[s].response = "None")
            /\ e.writable = (connections[s].response # "None")
      BY <2>1
    <3>2. connections[s].connection_id \in 0..(next_connection_id - 1)
      BY <2>2 DEF PlaneInv, SlotsInv
    <3>3. connections'[s].response = connections[s].response
      BY <1>1, <2>2 DEF SameButArmed
    <3> QED
      BY <1>2, <3>1, <3>2, <3>3
  <2> QED
    BY <2>3, <2>4 DEF EventsInv
<1>6. BacklogInv' /\ ClientsInv'
  BY <1>2 DEF PlaneInv, BacklogInv, ClientsInv, HasWhole
<1> QED
  BY <1>3, <1>5, <1>6 DEF PlaneInv

(* A client's own step.                                                    *)
LEMMA SocketKeepsPlane ==
  ASSUME PlaneInv, NEW c \in Clients, NEW socket, NEW arms, SocketStep(c, socket, arms),
         DOMAIN socket = SocketFields,
         socket.phase = sockets[c].phase, socket.got = sockets[c].got,
         socket.sent \in Nat, socket.sent >= sockets[c].sent
  PROVE  PlaneInv'
<1>1. /\ DOMAIN sockets = Clients
      /\ \A d \in Clients : sockets[d].sent \in Nat /\ DOMAIN sockets[d] = SocketFields
  BY DEF PlaneInv, ClientsInv
<1>2. sockets' = [sockets EXCEPT ![c] = socket]
  BY DEF SocketStep
<1>3. /\ DOMAIN sockets' = Clients
      /\ \A d \in Clients : /\ sockets'[d].phase = sockets[d].phase
                            /\ sockets'[d].got = sockets[d].got
                            /\ sockets'[d].sent \in Nat
                            /\ sockets'[d].sent >= sockets[d].sent
                            /\ DOMAIN sockets'[d] = SocketFields
  BY <1>1, <1>2
<1>4. UNCHANGED <<next_connection_id, acted, backlog, events>>
  BY DEF SocketStep, loopVars, listenerVars
<1>5. /\ DOMAIN connections' = DOMAIN connections
      /\ \A s \in DOMAIN connections : SameButArmed(connections[s], connections'[s])
  <2>1. \A s \in DOMAIN connections : DOMAIN connections[s] = Fields
    BY DEF PlaneInv, SlotsInv, Fits
  <2> QED
    BY <2>1 DEF SocketStep, SameButArmed, Fields
<1>6. SlotsInv' /\ EventsInv'
  BY <1>3, <1>4, <1>5, ArmingKeepsSlots
<1>7. BacklogInv'
  BY <1>3, <1>4 DEF PlaneInv, BacklogInv
<1>8. ClientsInv'
  <2>1. \A d \in Clients : HasWhole(d) => HasWhole(d)'
    BY <1>1, <1>3 DEF HasWhole
  <2> QED
    BY <1>3, <1>4, <2>1 DEF PlaneInv, ClientsInv
<1> QED
  BY <1>6, <1>7, <1>8 DEF PlaneInv

LEMMA ClientKeepsPlane ==
  ASSUME PlaneInv, Client
  PROVE  PlaneInv'
<1>1. PICK c \in Clients :
        Connect(c) \/ ClientSends(c) \/ ClientShuts(c) \/ ClientResets(c) \/ ClientReads(c)
  BY DEF Client
<1>2. DOMAIN sockets[c] = SocketFields /\ sockets[c].sent \in Nat /\ SizeOf[c] \in Nat
  BY PlaneAssumption DEF PlaneInv, ClientsInv
<1>3. CASE Connect(c)
  <2>1. /\ sockets[c].phase = "idle" /\ sockets' = [sockets EXCEPT ![c].phase = "queued"]
        /\ backlog' = Append(backlog, c)
        /\ UNCHANGED <<connections, next_connection_id, acted, events>>
    BY <1>3 DEF Connect, loopVars
  <2>2. /\ DOMAIN sockets' = Clients
        /\ sockets'[c] = [sockets[c] EXCEPT !.phase = "queued"]
        /\ \A d \in Clients \ {c} : sockets'[d] = sockets[d]
    BY <2>1 DEF PlaneInv, ClientsInv
  <2>3. /\ DOMAIN sockets'[c] = SocketFields
        /\ sockets'[c].phase = "queued" /\ sockets'[c].sent = sockets[c].sent
        /\ sockets'[c].got = sockets[c].got
    BY <1>2, <2>2 DEF SocketFields
  <2>4. ClientsInv'
    <3>1. \A d \in Clients : HasWhole(d) => HasWhole(d)'
      BY <2>2, <2>3 DEF HasWhole
    <3> QED
      BY <2>1, <2>2, <2>3, <3>1 DEF PlaneInv, ClientsInv
  <2>5. \A s \in DOMAIN connections : connections[s].client # c
    BY <2>1 DEF PlaneInv, SlotsInv, Fits
  <2>6. SlotsInv'
    BY <2>1, <2>2, <2>5 DEF PlaneInv, SlotsInv
  <2>7. EventsInv'
    BY <2>1 DEF PlaneInv, EventsInv, IsCurrent
  <2>8. BacklogInv'
    <3>1. backlog \in Seq(Clients) /\ Len(backlog) \in Nat
      BY DEF PlaneInv, BacklogInv
    <3>2. \A i \in 1..Len(backlog) : backlog[i] \in Clients \ {c}
      BY <2>1, <3>1 DEF PlaneInv, BacklogInv
    <3>3. /\ backlog' \in Seq(Clients) /\ Len(backlog') = Len(backlog) + 1
          /\ backlog'[Len(backlog) + 1] = c
          /\ \A i \in 1..Len(backlog) : backlog'[i] = backlog[i]
      BY <2>1, <3>1
    <3>4. \A i \in 1..Len(backlog') : i \in 1..Len(backlog) \/ i = Len(backlog) + 1
      BY <3>1, <3>3
    <3>5. \A i \in 1..Len(backlog') : sockets'[backlog'[i]].phase = "queued"
      <4>1. \A i \in 1..Len(backlog) : sockets[backlog[i]].phase = "queued"
        BY DEF PlaneInv, BacklogInv
      <4>2. \A i \in 1..Len(backlog) : sockets'[backlog'[i]].phase = "queued"
        BY <2>2, <3>2, <3>3, <4>1
      <4> QED
        BY <2>3, <3>3, <3>4, <4>2
    <3>6. \A i, j \in 1..Len(backlog') : backlog'[i] = backlog'[j] => i = j
      <4>1. \A i, j \in 1..Len(backlog) : backlog[i] = backlog[j] => i = j
        BY DEF PlaneInv, BacklogInv
      <4> QED
        BY <3>2, <3>3, <3>4, <4>1
    <3> QED
      BY <3>3, <3>5, <3>6 DEF BacklogInv
  <2> QED
    BY <2>4, <2>6, <2>7, <2>8 DEF PlaneInv
<1>4. CASE ClientSends(c)
  <2>1. PICK n \in 1..(SizeOf[c] - sockets[c].sent) :
          SocketStep(c, [sockets[c] EXCEPT !.sent = @ + n], {"None"})
    BY <1>4 DEF ClientSends
  <2> DEFINE socket == [sockets[c] EXCEPT !.sent = @ + n]
  <2>2. /\ DOMAIN socket = SocketFields /\ socket.phase = sockets[c].phase
        /\ socket.got = sockets[c].got /\ socket.sent \in Nat
        /\ socket.sent >= sockets[c].sent
    BY <1>2, <2>1 DEF SocketFields
  <2> HIDE DEF socket
  <2> QED
    BY <2>1, <2>2, SocketKeepsPlane DEF socket
<1>5. ASSUME NEW state, NEW arms,
             SocketStep(c, [sockets[c] EXCEPT !.peer = state], arms)
      PROVE  PlaneInv'
  <2> DEFINE socket == [sockets[c] EXCEPT !.peer = state]
  <2>1. /\ DOMAIN socket = SocketFields /\ socket.phase = sockets[c].phase
        /\ socket.got = sockets[c].got /\ socket.sent \in Nat
        /\ socket.sent >= sockets[c].sent
    BY <1>2 DEF SocketFields
  <2> HIDE DEF socket
  <2> QED
    BY <1>5, <2>1, SocketKeepsPlane DEF socket
<1>6. CASE ClientReads(c)
  <2> DEFINE socket == [sockets[c] EXCEPT !.room = @ + 1]
  <2>1. /\ DOMAIN socket = SocketFields /\ socket.phase = sockets[c].phase
        /\ socket.got = sockets[c].got /\ socket.sent \in Nat
        /\ socket.sent >= sockets[c].sent
    BY <1>2 DEF SocketFields
  <2>2. SocketStep(c, socket, Answers)
    BY <1>6 DEF ClientReads
  <2> HIDE DEF socket
  <2> QED
    BY <2>1, <2>2, SocketKeepsPlane
<1> QED
  BY <1>1, <1>3, <1>4, <1>5, <1>6 DEF ClientShuts, ClientResets

-----------------------------------------------------------------------------
(* The accept loop.                                                        *)

LEMMA DropsSocket ==
  ASSUME NEW socket, DOMAIN socket = SocketFields
  PROVE  /\ DOMAIN Dropped(socket) = SocketFields
         /\ Dropped(socket).phase = "closed"
         /\ Dropped(socket).sent = socket.sent
         /\ Dropped(socket).got = socket.got
  BY DEF Dropped, SocketFields

(* One client leaves the backlog or a slot; nothing is done for it.        *)
LEMMA LeavingKeepsClients ==
  ASSUME ClientsInv, NEW c \in Clients, NEW socket,
         sockets' = [sockets EXCEPT ![c] = socket],
         DOMAIN socket = SocketFields, socket.sent = sockets[c].sent,
         socket.phase \in {"served", "closed"},
         UNCHANGED acted, next_connection_id' \in Nat
  PROVE  ClientsInv'
<1>1. /\ DOMAIN sockets' = Clients
      /\ sockets'[c] = socket
      /\ \A d \in Clients \ {c} : sockets'[d] = sockets[d]
  BY DEF ClientsInv
<1>2. \A d \in Clients : HasWhole(d) => HasWhole(d)'
  BY <1>1 DEF HasWhole
<1> QED
  BY <1>1, <1>2 DEF ClientsInv

LEMMA HeadLeaves ==
  ASSUME PlaneInv, backlog # <<>>, backlog' = Tail(backlog),
         NEW socket, sockets' = [sockets EXCEPT ![Head(backlog)] = socket]
  PROVE  /\ Head(backlog) \in Clients
         /\ sockets[Head(backlog)].phase = "queued"
         /\ BacklogInv'
<1>1. backlog \in Seq(Clients) /\ Len(backlog) \in Nat /\ Len(backlog) > 0
  BY DEF PlaneInv, BacklogInv
<1>2. Head(backlog) = backlog[1] /\ Head(backlog) \in Clients
  BY <1>1
<1>3. sockets[Head(backlog)].phase = "queued"
  BY <1>1, <1>2 DEF PlaneInv, BacklogInv
<1>4. /\ backlog' \in Seq(Clients) /\ Len(backlog') = Len(backlog) - 1
      /\ \A i \in 1..Len(backlog') : backlog'[i] = backlog[i + 1] /\ i + 1 \in 1..Len(backlog)
  BY <1>1
<1>5. \A i, j \in 1..Len(backlog) : backlog[i] = backlog[j] => i = j
  BY DEF PlaneInv, BacklogInv
<1>6. \A i \in 1..Len(backlog') : backlog'[i] \in Clients /\ backlog'[i] # Head(backlog)
  BY <1>1, <1>2, <1>4, <1>5
<1>7. \A i \in 1..Len(backlog') : sockets'[backlog'[i]].phase = "queued"
  <2>1. \A d \in Clients : d # Head(backlog) => sockets'[d] = sockets[d]
    BY <1>2 DEF PlaneInv, ClientsInv
  <2>2. \A i \in 1..Len(backlog) : sockets[backlog[i]].phase = "queued"
    BY DEF PlaneInv, BacklogInv
  <2> QED
    BY <1>4, <1>6, <2>1, <2>2
<1>8. \A i, j \in 1..Len(backlog') : backlog'[i] = backlog'[j] => i = j
  BY <1>1, <1>4, <1>5
<1> QED
  BY <1>2, <1>3, <1>4, <1>7, <1>8 DEF BacklogInv

LEMMA RefuseKeepsPlane ==
  ASSUME PlaneInv, backlog # <<>>, backlog' = Tail(backlog), Refuse(Head(backlog)),
         UNCHANGED <<events, acted>>
  PROVE  PlaneInv'
<1> DEFINE c == Head(backlog)
<1>1. /\ sockets' = [sockets EXCEPT ![c] = Dropped(sockets[c])]
      /\ UNCHANGED <<connections, next_connection_id>>
  BY DEF Refuse
<1>2. c \in Clients /\ sockets[c].phase = "queued" /\ BacklogInv'
  BY <1>1, HeadLeaves
<1> HIDE DEF c
<1>3. DOMAIN sockets[c] = SocketFields
  BY <1>2 DEF PlaneInv, ClientsInv
<1>4. ClientsInv'
  BY <1>1, <1>2, <1>3, DropsSocket, LeavingKeepsClients DEF PlaneInv, ClientsInv
<1>5. /\ \A s \in DOMAIN connections : connections[s].client # c
      /\ \A d \in Clients : d # c => sockets'[d] = sockets[d]
  BY <1>1, <1>2 DEF PlaneInv, SlotsInv, ClientsInv, Fits
<1>6. SlotsInv'
  BY <1>1, <1>5 DEF PlaneInv, SlotsInv
<1>7. EventsInv'
  BY <1>1 DEF PlaneInv, EventsInv, IsCurrent
<1> QED
  BY <1>2, <1>4, <1>6, <1>7 DEF PlaneInv

LEMMA AdmitKeepsPlane ==
  ASSUME PlaneInv, backlog # <<>>, backlog' = Tail(backlog), Admit(Head(backlog)),
         UNCHANGED <<events, acted>>
  PROVE  PlaneInv'
<1> DEFINE c == Head(backlog)
           new == [connection_id |-> next_connection_id, client |-> c, received |-> 0,
                   response |-> "None", response_offset |-> 0, armed |-> Registered(c)]
           socket == [sockets[c] EXCEPT !.phase = "served"]
<1>1. PICK t \in FreeSlots : connections' = With(connections, t, new)
  BY DEF Admit
<1>2. /\ next_connection_id' = next_connection_id + 1
      /\ sockets' = [sockets EXCEPT ![c].phase = "served"]
  BY DEF Admit
<1>3. sockets' = [sockets EXCEPT ![c] = socket]
  BY <1>2
<1> HIDE DEF socket
<1>4. c \in Clients /\ sockets[c].phase = "queued" /\ BacklogInv'
  BY <1>3, HeadLeaves
<1> HIDE DEF c
<1>5. DOMAIN sockets[c] = SocketFields /\ next_connection_id \in Nat
  BY <1>4 DEF PlaneInv, ClientsInv
<1>6. /\ DOMAIN socket = SocketFields /\ socket.sent = sockets[c].sent
      /\ socket.phase = "served" /\ socket.got = sockets[c].got
  BY <1>5 DEF socket, SocketFields
<1>7. ClientsInv'
  <2>1. next_connection_id' \in Nat
    BY <1>2, <1>5
  <2>2. socket.phase \in {"served", "closed"} /\ ClientsInv
    BY <1>6 DEF PlaneInv
  <2> QED
    BY <1>3, <1>4, <1>6, <2>1, <2>2, LeavingKeepsClients
<1>8. acted[c] = 0 /\ sockets[c].got = 0
  BY <1>4 DEF PlaneInv, ClientsInv
<1>9. /\ \A s \in DOMAIN connections : connections[s].client # c
      /\ \A d \in Clients : d # c => sockets'[d] = sockets[d]
      /\ sockets'[c] = socket
  BY <1>3, <1>4 DEF PlaneInv, SlotsInv, ClientsInv, Fits
<1>10. /\ DOMAIN connections' = DOMAIN connections \cup {t}
       /\ t \notin DOMAIN connections /\ connections'[t] = new
       /\ \A s \in DOMAIN connections : connections'[s] = connections[s]
  BY <1>1 DEF With, FreeSlots
<1>11. /\ new.client = c /\ new.connection_id = next_connection_id
       /\ Fits(new, socket, 0)
  BY <1>6, <1>8 DEF Fits, Fields
<1> HIDE DEF new
<1>12. SlotsInv'
  <2>1. \A s \in DOMAIN connections :
          /\ connections[s].client \in Clients
          /\ connections[s].connection_id \in 0..(next_connection_id' - 1)
          /\ Fits(connections[s], sockets'[connections[s].client], acted[connections[s].client])
    <3>1. \A s \in DOMAIN connections :
            /\ connections[s].client \in Clients
            /\ connections[s].connection_id \in 0..(next_connection_id - 1)
            /\ Fits(connections[s], sockets[connections[s].client], acted[connections[s].client])
      BY DEF PlaneInv, SlotsInv
    <3>2. \A s \in DOMAIN connections : sockets'[connections[s].client] = sockets[connections[s].client]
      BY <1>9, <3>1
    <3>3. \A s \in DOMAIN connections :
            connections[s].connection_id \in 0..(next_connection_id' - 1)
      BY <1>2, <1>5, <3>1
    <3> QED
      BY <3>1, <3>2, <3>3
  <2>2. \A s, u \in DOMAIN connections : connections[s].client = connections[u].client => s = u
    BY DEF PlaneInv, SlotsInv
  <2> QED
    BY <1>2, <1>4, <1>5, <1>8, <1>9, <1>10, <1>11, <2>1, <2>2, SMTT(40) DEF SlotsInv
<1>13. EventsInv'
  <2>1. \A e \in events : e.connection_id \in 0..(next_connection_id - 1)
    BY DEF PlaneInv, EventsInv
  <2>2. \A e \in events : e.connection_id \in 0..(next_connection_id' - 1)
                          /\ e.connection_id # next_connection_id
    BY <1>2, <1>5, <2>1
  <2>3. \A e \in events : IsCurrent(e)' => IsCurrent(e) /\ e.slot \in DOMAIN connections
    BY <1>10, <1>11, <2>2 DEF IsCurrent
  <2> QED
    BY <1>10, <2>2, <2>3 DEF PlaneInv, EventsInv
<1> QED
  BY <1>4, <1>7, <1>12, <1>13 DEF PlaneInv

-----------------------------------------------------------------------------
(* Events of connections.                                                  *)

(* A slot is emptied and its stream dropped.                               *)
LEMMA ClosingKeepsPlane ==
  ASSUME PlaneInv, NEW slot \in DOMAIN connections, NEW socket,
         connections' = Without(connections, {slot}),
         sockets' = [sockets EXCEPT ![connections[slot].client] = socket],
         DOMAIN socket = SocketFields, socket.phase = "closed",
         socket.sent = sockets[connections[slot].client].sent,
         events' \subseteq events,
         UNCHANGED <<next_connection_id, acted, backlog>>
  PROVE  PlaneInv'
<1> DEFINE c == connections[slot].client
<1>1. c \in Clients /\ sockets[c].phase = "served"
  BY DEF PlaneInv, SlotsInv, Fits
<1>2. ClientsInv'
  BY <1>1, LeavingKeepsClients DEF PlaneInv, ClientsInv
<1>3. \A d \in Clients : d # c => sockets'[d] = sockets[d]
  BY DEF PlaneInv, ClientsInv
<1>4. /\ DOMAIN connections' = DOMAIN connections \ {slot}
      /\ \A s \in DOMAIN connections \ {slot} :
           connections'[s] = connections[s] /\ connections[s].client # c
  <2>1. DOMAIN connections' = DOMAIN connections \ {slot}
    BY DEF Without, Restrict
  <2>2. \A s \in DOMAIN connections \ {slot} : connections'[s] = connections[s]
    BY DEF Without, Restrict
  <2>3. \A s \in DOMAIN connections \ {slot} : connections[s].client # c
    BY DEF PlaneInv, SlotsInv
  <2> QED
    BY <2>1, <2>2, <2>3
<1> HIDE DEF c
<1>5. SlotsInv'
  <2>1. \A s \in DOMAIN connections \ {slot} :
          sockets'[connections[s].client] = sockets[connections[s].client]
    BY <1>3, <1>4 DEF PlaneInv, SlotsInv
  <2>2. \A s \in DOMAIN connections' :
          /\ connections'[s].client \in Clients
          /\ connections'[s].connection_id \in 0..(next_connection_id - 1)
          /\ Fits(connections'[s], sockets'[connections'[s].client],
                  acted[connections'[s].client])
    <3> TAKE s \in DOMAIN connections'
    <3>1. s \in DOMAIN connections /\ connections'[s] = connections[s]
      BY <1>4
    <3>2. /\ connections[s].client \in Clients
          /\ connections[s].connection_id \in 0..(next_connection_id - 1)
          /\ Fits(connections[s], sockets[connections[s].client], acted[connections[s].client])
      BY <3>1 DEF PlaneInv, SlotsInv
    <3> QED
      BY <1>4, <2>1, <3>1, <3>2
  <2>3. \A s, t \in DOMAIN connections' :
          connections'[s].client = connections'[t].client => s = t
    BY <1>4, ZenonT(60) DEF PlaneInv, SlotsInv
  <2> QED
    BY <2>2, <2>3 DEF SlotsInv
<1>6. EventsInv'
  BY <1>4, ZenonT(60) DEF PlaneInv, EventsInv, IsCurrent
<1>7. BacklogInv'
  <2>1. \A i \in 1..Len(backlog) : backlog[i] \in Clients /\ backlog[i] # c
    BY <1>1 DEF PlaneInv, BacklogInv
  <2> QED
    BY <1>3, <2>1 DEF PlaneInv, BacklogInv
<1> QED
  BY <1>2, <1>5, <1>6, <1>7 DEF PlaneInv

LEMMA CloseKeepsPlane ==
  ASSUME PlaneInv, NEW slot \in DOMAIN connections, Close(slot), events' \subseteq events,
         UNCHANGED <<next_connection_id, backlog>>
  PROVE  PlaneInv'
<1> DEFINE c == connections[slot].client
           socket == Dropped(sockets[c])
<1>1. c \in Clients /\ DOMAIN sockets[c] = SocketFields
  BY DEF PlaneInv, SlotsInv, ClientsInv
<1>2. /\ DOMAIN socket = SocketFields /\ socket.phase = "closed"
      /\ socket.sent = sockets[c].sent
  BY <1>1, DropsSocket
<1>3. /\ connections' = Without(connections, {slot})
      /\ sockets' = [sockets EXCEPT ![c] = socket]
      /\ UNCHANGED acted
  BY DEF Close
<1> HIDE DEF socket
<1> QED
  BY <1>2, <1>3, ClosingKeepsPlane

(* The slot of the event stays, with a response as far as it was queued:   *)
(* connection d, its client's end `socket`, and `calls` made for it.       *)
Settles(e, d, socket, calls) ==
  LET c == connections[e.slot]
  IN  /\ connections' = [connections EXCEPT ![e.slot] = d]
      /\ DOMAIN sockets' = Clients
      /\ sockets'[c.client] = socket
      /\ acted' \in [Clients -> {0, 1}]
      /\ acted'[c.client] = calls
      /\ \A x \in Clients : x # c.client => sockets'[x] = sockets[x] /\ acted'[x] = acted[x]
      /\ DOMAIN socket = SocketFields
      /\ socket.sent = sockets[c.client].sent
      /\ d.client = c.client
      /\ d.connection_id = c.connection_id
      /\ Fits(d, socket, calls)
      /\ calls = 1 => HasWhole(c.client)

LEMMA SettlingKeepsPlane ==
  ASSUME PlaneInv, NEW e \in events, e.slot \in DOMAIN connections, NEW d, NEW socket,
         NEW calls, Settles(e, d, socket, calls),
         events' = events \ {e}, UNCHANGED <<next_connection_id, backlog>>
  PROVE  PlaneInv'
<1> DEFINE slot == e.slot
           c == connections[slot].client
<1>1. /\ c \in Clients /\ sockets[c].phase = "served"
      /\ DOMAIN sockets = Clients /\ acted \in [Clients -> {0, 1}]
      /\ socket.phase = "served"
  BY DEF PlaneInv, SlotsInv, ClientsInv, Fits, Settles
<1>2. /\ DOMAIN sockets' = Clients /\ sockets'[c] = socket
      /\ acted' \in [Clients -> {0, 1}] /\ acted'[c] = calls
      /\ \A x \in Clients : x # c => sockets'[x] = sockets[x] /\ acted'[x] = acted[x]
      /\ DOMAIN socket = SocketFields /\ socket.sent = sockets[c].sent
      /\ Fits(d, socket, calls) /\ (calls = 1 => HasWhole(c))
  BY <1>1 DEF Settles
<1>3. /\ DOMAIN connections' = DOMAIN connections /\ connections'[slot] = d
      /\ \A s \in DOMAIN connections :
           s # slot => connections'[s] = connections[s] /\ connections[s].client # c
  BY DEF PlaneInv, SlotsInv, Settles
<1>4. ClientsInv'
  <2>1. \A x \in Clients : HasWhole(x) => HasWhole(x)'
    BY <1>2 DEF HasWhole
  <2> QED
    BY <1>1, <1>2, <2>1 DEF PlaneInv, ClientsInv
<1>5. BacklogInv'
  <2>1. \A i \in 1..Len(backlog) : backlog[i] \in Clients /\ backlog[i] # c
    BY <1>1 DEF PlaneInv, BacklogInv
  <2> QED
    BY <1>2, <2>1 DEF PlaneInv, BacklogInv
<1> HIDE DEF c, slot
<1>6. d.client = c /\ connections[slot].client = c
      /\ d.connection_id = connections[slot].connection_id /\ slot \in DOMAIN connections
  BY DEF c, slot, Settles
<1>7. SlotsInv'
  <2>1. \A s \in DOMAIN connections' :
          /\ connections'[s].client \in Clients
          /\ connections'[s].connection_id \in 0..(next_connection_id - 1)
          /\ Fits(connections'[s], sockets'[connections'[s].client],
                  acted'[connections'[s].client])
    BY <1>1, <1>2, <1>3, <1>6 DEF PlaneInv, SlotsInv
  <2>2. \A s, t \in DOMAIN connections' :
          connections'[s].client = connections'[t].client => s = t
    BY <1>3, <1>6 DEF PlaneInv, SlotsInv
  <2> QED
    BY <2>1, <2>2 DEF SlotsInv
<1>8. EventsInv'
  <2>1. \A f \in events' : f \in events /\ f.slot # slot
    BY DEF PlaneInv, EventsInv, slot
  <2>2. \A f \in events' :
          IsCurrent(f)' => IsCurrent(f) /\ connections'[f.slot] = connections[f.slot]
    BY <1>3, <2>1 DEF IsCurrent
  <2> QED
    BY <2>1, <2>2 DEF PlaneInv, EventsInv
<1> QED
  BY <1>4, <1>5, <1>7, <1>8 DEF PlaneInv

LEMMA ReadKeepsPlane ==
  ASSUME PlaneInv, NEW e \in events, IsCurrent(e), e.readable, ReadConnection(e.slot),
         events' = events \ {e}, UNCHANGED <<next_connection_id, backlog>>
  PROVE  PlaneInv'
<1> DEFINE slot == e.slot
           c == connections[slot]
           client == c.client
           d == [c EXCEPT !.received = Received(c)]
           verdict == ReadVerdict(c)
<1>1. /\ slot \in DOMAIN connections /\ client \in Clients
      /\ Fits(c, sockets[client], acted[client]) /\ c.response = "None"
      /\ acted[client] \in {0, 1} /\ DOMAIN sockets = Clients
      /\ DOMAIN sockets[client] = SocketFields /\ acted \in [Clients -> {0, 1}]
      /\ sockets[client].sent \in Nat
  BY DEF IsCurrent, PlaneInv, SlotsInv, EventsInv, ClientsInv
<1>2. acted[client] = 0 /\ c.response_offset = 0 /\ DOMAIN c = Fields
  BY <1>1 DEF Fits
<1>3. \/ Close(slot)
      \/ /\ connections' = [connections EXCEPT ![slot] = d]
         /\ UNCHANGED <<sockets, acted>>
      \/ /\ verdict \in Answers
         /\ connections' = [connections EXCEPT ![slot] = queue_management_response(d, verdict)]
         /\ acted' = [acted EXCEPT ![client] = IF ActsOn(verdict) THEN @ + 1 ELSE @]
         /\ UNCHANGED sockets
  BY DEF ReadConnection
<1>4. /\ DOMAIN d = Fields /\ d.connection_id = c.connection_id /\ d.client = client
      /\ d.response = "None" /\ d.response_offset = 0
  <2> DEFINE length == Received(c)
  <2> HIDE DEF length
  <2>1. LET x == [c EXCEPT !.received = length]
        IN  /\ DOMAIN x = Fields /\ x.connection_id = c.connection_id /\ x.client = client
            /\ x.response = "None" /\ x.response_offset = 0
    BY <1>1, <1>2 DEF Fields
  <2> QED
    BY <2>1 DEF length
<1>5. CASE Close(slot)
  BY <1>1, <1>5, CloseKeepsPlane
<1>6. CASE /\ connections' = [connections EXCEPT ![slot] = d]
           /\ UNCHANGED <<sockets, acted>>
  <2>1. Fits(d, sockets[client], 0)
    BY <1>1, <1>2, <1>4 DEF Fits
  <2> HIDE DEF d
  <2>2. Settles(e, d, sockets[client], 0)
    BY <1>1, <1>2, <1>4, <1>6, <2>1 DEF Settles
  <2> QED
    BY <1>1, <2>2, SettlingKeepsPlane
<1>7. CASE /\ verdict \in Answers
           /\ connections' = [connections EXCEPT ![slot] = queue_management_response(d, verdict)]
           /\ acted' = [acted EXCEPT ![client] = IF ActsOn(verdict) THEN @ + 1 ELSE @]
           /\ UNCHANGED sockets
  <2> DEFINE q == queue_management_response(d, verdict)
             calls == IF verdict = "Result" THEN 1 ELSE 0
  <2>1. acted' = [acted EXCEPT ![client] = calls] /\ calls \in {0, 1}
    BY <1>2, <1>7 DEF ActsOn
  <2>2. /\ DOMAIN q = Fields /\ q.connection_id = c.connection_id /\ q.client = client
        /\ q.response = verdict /\ q.response_offset = 0
    <3> HIDE DEF d
    <3> QED
      BY <1>4 DEF queue_management_response, Fields
  <2>3. verdict = "Result" => HasWhole(client)
    <3> SUFFICES ASSUME verdict = "Result" PROVE HasWhole(client)
      OBVIOUS
    <3>1. parse(MessageOf[client], Received(c)) = Complete
      BY DEF ReadVerdict
    <3>2. Received(c) \in 0..sockets[client].sent
      BY <1>1, HttpAssumption DEF Received, Minimum
    <3> QED
      BY <3>1, <3>2 DEF HasWhole
  <2> HIDE DEF q, verdict
  <2>4. Fits(q, sockets[client], calls)
    BY <1>1, <1>2, <1>7, <2>2 DEF Fits, Answers
  <2>5. calls = 1 => HasWhole(client)
    BY <2>3
  <2>6. connections' = [connections EXCEPT ![slot] = q]
    BY <1>7 DEF q
  <2> HIDE DEF calls
  <2>7. /\ acted' \in [Clients -> {0, 1}] /\ acted'[client] = calls
        /\ \A x \in Clients : x # client => acted'[x] = acted[x]
    BY <1>1, <2>1
  <2>8. Settles(e, q, sockets[client], calls)
    BY <1>1, <1>7, <2>2, <2>4, <2>5, <2>6, <2>7 DEF Settles
  <2> QED
    BY <1>1, <2>8, SettlingKeepsPlane
<1> QED
  BY <1>3, <1>5, <1>6, <1>7

LEMMA FlushKeepsPlane ==
  ASSUME PlaneInv, NEW e \in events, IsCurrent(e), e.writable, FlushConnection(e.slot),
         events' = events \ {e}, UNCHANGED <<next_connection_id, backlog>>
  PROVE  PlaneInv'
<1> DEFINE slot == e.slot
           c == connections[slot]
           client == c.client
           written == Minimum(Minimum(WRITE_CHUNK, RESPONSE - c.response_offset),
                              sockets[client].room)
           socket == [sockets[client] EXCEPT !.got = @ + written, !.room = @ - written]
           last == Dropped([sockets[client] EXCEPT !.got = @ + written])
           d == [c EXCEPT !.response_offset = @ + written, !.armed = Rearm(c, written)]
<1>1. /\ slot \in DOMAIN connections /\ client \in Clients
      /\ Fits(c, sockets[client], acted[client]) /\ c.response # "None"
      /\ acted[client] \in {0, 1} /\ DOMAIN sockets = Clients
      /\ DOMAIN sockets[client] = SocketFields /\ acted \in [Clients -> {0, 1}]
      /\ acted[client] = 1 => HasWhole(client)
  BY DEF IsCurrent, PlaneInv, SlotsInv, EventsInv, ClientsInv
<1>2. DOMAIN c = Fields /\ sockets[client].got = c.response_offset
  BY <1>1, SMTT(40) DEF Fits
<1>3. \/ Close(slot)
      \/ FinishResponse(slot, written)
      \/ /\ connections' = [connections EXCEPT ![slot].response_offset = @ + written,
                                               ![slot].armed = Rearm(c, written)]
         /\ sockets' = [sockets EXCEPT ![client].got = @ + written,
                                       ![client].room = @ - written]
         /\ UNCHANGED acted
  BY DEF FlushConnection
<1> HIDE DEF written
<1>4. CASE Close(slot)
  BY <1>1, <1>4, CloseKeepsPlane
<1>5. CASE FinishResponse(slot, written)
  <2>1. /\ connections' = Without(connections, {slot})
        /\ sockets' = [sockets EXCEPT ![client] = last]
        /\ UNCHANGED acted
    BY <1>5 DEF FinishResponse
  <2>2. /\ DOMAIN last = SocketFields /\ last.phase = "closed"
        /\ last.sent = sockets[client].sent
    BY <1>1 DEF Dropped, SocketFields
  <2> HIDE DEF last
  <2> QED
    BY <1>1, <2>1, <2>2, ClosingKeepsPlane
<1>6. CASE /\ connections' = [connections EXCEPT ![slot].response_offset = @ + written,
                                                 ![slot].armed = Rearm(c, written)]
           /\ sockets' = [sockets EXCEPT ![client].got = @ + written,
                                         ![client].room = @ - written]
           /\ UNCHANGED acted
  <2>1. /\ connections' = [connections EXCEPT ![slot] = d]
        /\ sockets' = [sockets EXCEPT ![client] = socket]
    BY <1>1, <1>6
  <2>2. /\ DOMAIN d = Fields /\ d.connection_id = c.connection_id /\ d.client = client
        /\ d.response = c.response /\ d.response_offset = c.response_offset + written
    BY <1>2 DEF Fields
  <2>3. /\ DOMAIN socket = SocketFields /\ socket.sent = sockets[client].sent
        /\ socket.phase = sockets[client].phase
        /\ socket.got = sockets[client].got + written
    BY <1>1 DEF SocketFields
  <2> HIDE DEF d, socket
  <2>4. Fits(d, socket, acted[client])
    BY <1>1, <1>2, <2>2, <2>3 DEF Fits
  <2>5. Settles(e, d, socket, acted[client])
    BY <1>1, <1>6, <2>1, <2>2, <2>3, <2>4 DEF Settles
  <2> QED
    BY <1>1, <2>5, SettlingKeepsPlane, SMTT(40)
<1> QED
  BY <1>3, <1>4, <1>5, <1>6

-----------------------------------------------------------------------------
LEMMA StepsKeepPlane ==
  ASSUME PlaneInv, [Next]_vars
  PROVE  PlaneInv'
<1>1. ASSUME UNCHANGED <<connections, next_connection_id, backlog, sockets, acted>>,
             events' \subseteq events
      PROVE  PlaneInv'
  BY <1>1 DEF PlaneInv, SlotsInv, EventsInv, BacklogInv, ClientsInv, HasWhole, IsCurrent
<1>2. CASE UNCHANGED vars
  BY <1>1, <1>2 DEF vars, loopVars, listenerVars
<1>3. CASE StartAccepting \/ EndBatch
  BY <1>1, <1>3 DEF StartAccepting, EndBatch, listenerVars
<1>4. CASE accept_management_connections
  <2>1. UNCHANGED <<events, acted>>
    BY <1>4 DEF accept_management_connections
  <2>2. CASE /\ backlog # <<>> /\ backlog' = Tail(backlog)
             /\ Refuse(Head(backlog)) \/ Admit(Head(backlog))
    BY <2>1, <2>2, RefuseKeepsPlane, AdmitKeepsPlane
  <2>3. CASE UNCHANGED <<connections, next_connection_id, backlog, sockets>>
    BY <1>1, <2>1, <2>3
  <2> QED
    BY <1>4, <2>2, <2>3 DEF accept_management_connections
<1>5. ASSUME NEW e \in events, dispatch_management_connection(e)
      PROVE  PlaneInv'
  <2>1. events' = events \ {e} /\ UNCHANGED <<next_connection_id, backlog>>
    BY <1>5 DEF dispatch_management_connection, listenerVars
  <2>2. CASE IsCurrent(e)
    BY <1>5, <2>1, <2>2, ReadKeepsPlane, FlushKeepsPlane DEF dispatch_management_connection
  <2>3. CASE ~IsCurrent(e)
    BY <1>1, <1>5, <2>1, <2>3 DEF dispatch_management_connection
  <2> QED
    BY <2>2, <2>3
<1> QED
  BY <1>2, <1>3, <1>4, <1>5, PollKeepsPlane, ClientKeepsPlane DEF Next, Server

(* Whatever the segments, EOFs, resets and stale events, and however many  *)
(* clients compete for however many slots: a request is acted on once, and *)
(* only when its bytes are all there; and a client reads a result if and   *)
(* only if its request was acted on.                                       *)
THEOREM RequestsAreActedOnOnce == Spec => []ActedOnceOnWholeRequests
<1>1. PlaneInv => ActedOnceOnWholeRequests
  <2> SUFFICES ASSUME PlaneInv PROVE ActedOnceOnWholeRequests
    OBVIOUS
  <2>1. \A c \in Clients :
          acted[c] <= 1
          /\ (acted[c] = 1 => \E n \in 0..sockets[c].sent : parse(MessageOf[c], n) = Complete)
    BY DEF PlaneInv, ClientsInv, HasWhole
  <2>2. \A s \in DOMAIN connections :
          /\ connections[s].response = "Result" <=> acted[connections[s].client] = 1
          /\ sockets[connections[s].client].got = connections[s].response_offset
    BY DEF PlaneInv, SlotsInv, Fits
  <2> QED
    BY <2>1, <2>2 DEF ActedOnceOnWholeRequests
<1>2. PlaneInv /\ [Next]_vars => PlaneInv'
  BY StepsKeepPlane
<1> QED
  BY <1>1, <1>2, InitiallyPlane, PTL DEF Spec

-----------------------------------------------------------------------------
(* What a request that is acted on says.  Decimal and Value run over the   *)
(* digits; what they compute is shown by induction over the digits read.   *)

(* Induction over the naturals, with the predicate given as a set: a set    *)
(* that holds 0 and the successor of each of its naturals holds them all.   *)
LEMMA SetInduction ==
  ASSUME NEW S, 0 \in S, \A n \in Nat : n \in S => n + 1 \in S
  PROVE  Nat \subseteq S
<1> DEFINE T == Nat \ S
           R == OpToRel(<, Nat)
<1> SUFFICES ASSUME T # {} PROVE FALSE
  OBVIOUS
<1>1. IsWellFoundedOn(R, Nat)
  BY NatLessThanWellFounded
<1>2. PICK x \in T : \A y \in T : ~(<<y, x>> \in R)
  <2> HIDE DEF T, R
  <2>1. T \subseteq Nat BY DEF T
  <2> QED BY <1>1, <2>1, WFMin
<1>3. x # 0 /\ x \in Nat
  OBVIOUS
<1>4. x - 1 \in Nat /\ x - 1 < x /\ x - 1 + 1 = x
  BY <1>3
<1>5. <<x - 1, x>> \in R
  BY <1>3, <1>4 DEF OpToRel
<1>6. x - 1 \in S
  BY <1>2, <1>4, <1>5
<1> QED BY <1>4, <1>6, <1>3

(* The recursive function of Decimal exists, and equals its equation.      *)
LEMMA DecimalExists ==
  ASSUME NEW bytes, Len(bytes) \in Nat
  PROVE  Decimal(bytes) =
           [i \in 0..Len(bytes) |-> IF i = 0 THEN 0
              ELSE AppendDigit(Decimal(bytes)[i - 1], bytes[i])]
<1> DEFINE Is(h, n) == h = [i \in 0..n |-> IF i = 0 THEN 0 ELSE AppendDigit(h[i - 1], bytes[i])]
           T == {n \in Nat : \E h : Is(h, n)}
<1>1. 0 \in T
  <2>1. Is([i \in 0..0 |-> 0], 0) OBVIOUS
  <2> QED BY <2>1
<1>2. ASSUME NEW n \in Nat, n \in T PROVE n + 1 \in T
  <2>1. PICK h : Is(h, n) BY <1>2
  <2> DEFINE k == [i \in 0..n+1 |-> IF i = n + 1 THEN AppendDigit(h[n], bytes[n+1]) ELSE h[i]]
  <2>2. Is(k, n + 1)
    <3>1. k = [i \in 0..(n+1) |-> k[i]] OBVIOUS
    <3>2. ASSUME NEW i \in 0..(n + 1) PROVE k[i] = IF i = 0 THEN 0 ELSE AppendDigit(k[i - 1], bytes[i])
      <4>1. CASE i = n + 1
        <5>1. k[i] = AppendDigit(h[n], bytes[n + 1]) BY <4>1
        <5>2. k[n] = h[n] /\ i - 1 = n BY <4>1
        <5> QED BY <5>1, <5>2, <4>1
      <4>2. CASE i # n + 1
        <5>0. i \in 0..n BY <4>2
        <5>1. k[i] = h[i] BY <4>2
        <5>2. h[i] = IF i = 0 THEN 0 ELSE AppendDigit(h[i - 1], bytes[i]) BY <2>1, <5>0
        <5>3. i # 0 => k[i - 1] = h[i - 1] BY <5>0
        <5> QED BY <5>1, <5>2, <5>3
      <4> QED BY <4>1, <4>2
    <3> HIDE DEF k
    <3>3. [i \in 0..(n+1) |-> k[i]] = [i \in 0..(n+1) |-> IF i = 0 THEN 0 ELSE AppendDigit(k[i - 1], bytes[i])]
      BY <3>2, Zenon
    <3> QED BY <3>1, <3>3
  <2>3. \E g : Is(g, n + 1)
    <3> HIDE DEF k, Is
    <3> QED BY <2>2
  <2>4. n + 1 \in Nat
    OBVIOUS
  <2> HIDE DEF Is
  <2> QED BY <2>3, <2>4
<1>3. Len(bytes) \in T
  <2> HIDE DEF T
  <2> QED BY <1>1, <1>2, SetInduction
<1>4. PICK h : Is(h, Len(bytes)) BY <1>3
<1> QED BY <1>4 DEF Decimal

LEMMA DecimalUnfolds ==
  ASSUME NEW bytes, Len(bytes) \in Nat
  PROVE  /\ Decimal(bytes)[0] = 0
         /\ \A i \in 1..Len(bytes) :
              Decimal(bytes)[i] = AppendDigit(Decimal(bytes)[i - 1], bytes[i])
<1> DEFINE h == Decimal(bytes)
<1>1. h = [i \in 0..Len(bytes) |-> IF i = 0 THEN 0 ELSE AppendDigit(h[i - 1], bytes[i])]
  BY DecimalExists
<1> HIDE DEF h
<1>2. \A i \in 0..Len(bytes) : h[i] = IF i = 0 THEN 0 ELSE AppendDigit(h[i - 1], bytes[i])
  BY <1>1
<1>3. h[0] = 0
  BY <1>2
<1>4. ASSUME NEW i \in 1..Len(bytes) PROVE h[i] = AppendDigit(h[i - 1], bytes[i])
  BY <1>2
<1> QED BY <1>3, <1>4 DEF h

(* The recursive function of Value exists, and equals its equation.      *)
LEMMA ValueExists ==
  ASSUME NEW digits, Len(digits) \in Nat
  PROVE  Value(digits) =
           [i \in 0..Len(digits) |-> IF i = 0 THEN 0
              ELSE 10 * Value(digits)[i - 1] + digits[i]]
<1> DEFINE Is(h, n) == h = [i \in 0..n |-> IF i = 0 THEN 0 ELSE 10 * h[i - 1] + digits[i]]
           T == {n \in Nat : \E h : Is(h, n)}
<1>1. 0 \in T
  <2>1. Is([i \in 0..0 |-> 0], 0) OBVIOUS
  <2> QED BY <2>1
<1>2. ASSUME NEW n \in Nat, n \in T PROVE n + 1 \in T
  <2>1. PICK h : Is(h, n) BY <1>2
  <2> DEFINE k == [i \in 0..n+1 |-> IF i = n + 1 THEN 10 * h[n] + digits[n+1] ELSE h[i]]
  <2>2. Is(k, n + 1)
    <3>1. k = [i \in 0..(n+1) |-> k[i]] OBVIOUS
    <3>2. ASSUME NEW i \in 0..(n + 1) PROVE k[i] = IF i = 0 THEN 0 ELSE 10 * k[i - 1] + digits[i]
      <4>1. CASE i = n + 1
        <5>1. k[i] = 10 * h[n] + digits[n + 1] BY <4>1
        <5>2. k[n] = h[n] /\ i - 1 = n BY <4>1
        <5> QED BY <5>1, <5>2, <4>1
      <4>2. CASE i # n + 1
        <5>0. i \in 0..n BY <4>2
        <5>1. k[i] = h[i] BY <4>2
        <5>2. h[i] = IF i = 0 THEN 0 ELSE 10 * h[i - 1] + digits[i] BY <2>1, <5>0
        <5>3. i # 0 => k[i - 1] = h[i - 1] BY <5>0
        <5> QED BY <5>1, <5>2, <5>3
      <4> QED BY <4>1, <4>2
    <3> HIDE DEF k
    <3>3. [i \in 0..(n+1) |-> k[i]] = [i \in 0..(n+1) |-> IF i = 0 THEN 0 ELSE 10 * k[i - 1] + digits[i]]
      BY <3>2, Zenon
    <3> QED BY <3>1, <3>3
  <2>3. \E g : Is(g, n + 1)
    <3> HIDE DEF k, Is
    <3> QED BY <2>2
  <2>4. n + 1 \in Nat
    OBVIOUS
  <2> HIDE DEF Is
  <2> QED BY <2>3, <2>4
<1>3. Len(digits) \in T
  <2> HIDE DEF T
  <2> QED BY <1>1, <1>2, SetInduction
<1>4. PICK h : Is(h, Len(digits)) BY <1>3
<1> QED BY <1>4 DEF Value

LEMMA ValueUnfolds ==
  ASSUME NEW digits, Len(digits) \in Nat
  PROVE  /\ Value(digits)[0] = 0
         /\ \A i \in 1..Len(digits) :
              Value(digits)[i] = 10 * Value(digits)[i - 1] + digits[i]
<1> DEFINE h == Value(digits)
<1>1. h = [i \in 0..Len(digits) |-> IF i = 0 THEN 0 ELSE 10 * h[i - 1] + digits[i]]
  BY ValueExists
<1> HIDE DEF h
<1>2. \A i \in 0..Len(digits) : h[i] = IF i = 0 THEN 0 ELSE 10 * h[i - 1] + digits[i]
  BY <1>1
<1>3. h[0] = 0
  BY <1>2
<1>4. ASSUME NEW i \in 1..Len(digits) PROVE h[i] = 10 * h[i - 1] + digits[i]
  BY <1>2
<1> QED BY <1>3, <1>4 DEF h

(* One digit more.                                                         *)
LEMMA NextDigit ==
  ASSUME NEW a \in Nat, NEW x \in 0..9
  PROVE  10 * a + x \in Nat /\ (a >= 1 => 10 * a + x >= 1)
  OBVIOUS

(* The value of decimal digits is a natural number; that of a canonical    *)
(* text, which does not begin with 0, is positive from its first digit on. *)
LEMMA ValueIsNatural ==
  ASSUME NEW s \in Seq(0..10), IsDecimal(s)
  PROVE  \A i \in 0..Len(s) :
           Value(s)[i] \in Nat /\ (IsCanonical(s) /\ i # 0 => Value(s)[i] >= 1)
<1> DEFINE v == Value(s)
           T == {n \in Nat : n <= Len(s) =>
                   v[n] \in Nat /\ (IsCanonical(s) /\ n # 0 => v[n] >= 1)}
<1>1. Len(s) \in Nat /\ \A i \in 1..Len(s) : s[i] \in 0..9
  BY DEF IsDecimal
<1>2. v[0] = 0 /\ \A i \in 1..Len(s) : v[i] = 10 * v[i - 1] + s[i]
  BY <1>1, ValueUnfolds
<1> HIDE DEF v
<1>3. 0 \in T
  BY <1>2
<1>4. ASSUME NEW n \in Nat, n \in T PROVE n + 1 \in T
  <2> SUFFICES ASSUME n + 1 <= Len(s)
               PROVE  v[n + 1] \in Nat /\ (IsCanonical(s) => v[n + 1] >= 1)
    OBVIOUS
  <2>1. n + 1 \in 1..Len(s) /\ n <= Len(s) /\ n + 1 - 1 = n
    BY <1>1
  <2>2. v[n + 1] = 10 * v[n] + s[n + 1]
    BY <1>2, <2>1
  <2>3. v[n] \in Nat /\ (IsCanonical(s) /\ n # 0 => v[n] >= 1)
    BY <1>4, <2>1
  <2>4. s[n + 1] \in 0..9
    BY <1>1, <2>1
  <2>5. n = 0 /\ IsCanonical(s) => v[n + 1] >= 1
    <3> SUFFICES ASSUME n = 0, IsCanonical(s) PROVE v[n + 1] >= 1
      OBVIOUS
    <3>1. s[n + 1] # 0
      BY DEF IsCanonical
    <3> QED BY <2>2, <2>3, <2>4, <3>1
  <2>6. v[n + 1] \in Nat /\ (v[n] >= 1 => v[n + 1] >= 1)
    BY <2>2, <2>3, <2>4, NextDigit
  <2> QED BY <2>3, <2>5, <2>6
<1>5. Nat \subseteq T
  <2> HIDE DEF T
  <2> QED BY <1>3, <1>4, SetInduction
<1> QED BY <1>1, <1>5 DEF v

(* The checked arithmetic of try_fold: a number that comes out is the      *)
(* value of the digits, whatever the width of the word.                    *)
LEMMA NumbersAreTrue ==
  ASSUME NEW s \in Seq(0..10), IsDecimal(s)
  PROVE  \A i \in 0..Len(s) : Decimal(s)[i] = NoNumber \/ Decimal(s)[i] = Value(s)[i]
<1> DEFINE d == Decimal(s)
           v == Value(s)
           T == {n \in Nat : n <= Len(s) => d[n] = NoNumber \/ d[n] = v[n]}
<1>1. Len(s) \in Nat /\ \A i \in 1..Len(s) : s[i] \in 0..9
  BY DEF IsDecimal
<1>2. v[0] = 0 /\ \A i \in 1..Len(s) : v[i] = 10 * v[i - 1] + s[i]
  BY <1>1, ValueUnfolds
<1>3. d[0] = 0 /\ \A i \in 1..Len(s) : d[i] = AppendDigit(d[i - 1], s[i])
  BY <1>1, DecimalUnfolds
<1>4. \A i \in 0..Len(s) : v[i] \in Nat
  BY ValueIsNatural
<1> HIDE DEF d, v
<1>5. 0 \in T
  BY <1>2, <1>3
<1>6. ASSUME NEW n \in Nat, n \in T PROVE n + 1 \in T
  <2> SUFFICES ASSUME n + 1 <= Len(s) PROVE d[n + 1] = NoNumber \/ d[n + 1] = v[n + 1]
    OBVIOUS
  <2>1. n + 1 \in 1..Len(s) /\ n \in 0..Len(s) /\ n + 1 - 1 = n
    BY <1>1
  <2>2. v[n + 1] = 10 * v[n] + s[n + 1] /\ d[n + 1] = AppendDigit(d[n], s[n + 1])
    BY <1>2, <1>3, <2>1
  <2>3. d[n] = NoNumber \/ d[n] = v[n]
    BY <1>6, <2>1
  <2>4. s[n + 1] \in 0..9 /\ v[n] \in Nat
    BY <1>1, <1>4, <2>1
  <2>5. CASE d[n] = NoNumber
    BY <2>2, <2>5 DEF AppendDigit
  <2>6. CASE d[n] = v[n]
    <3>1. d[n + 1] = NoNumber \/ d[n + 1] = v[n] * 10 + s[n + 1]
      BY <2>2, <2>6 DEF AppendDigit
    <3> QED BY <2>2, <2>4, <3>1
  <2> QED BY <2>3, <2>5, <2>6
<1>7. Nat \subseteq T
  <2> HIDE DEF T
  <2> QED BY <1>5, <1>6, SetInduction
<1> QED BY <1>1, <1>7 DEF d, v

(* So what parse_content_length and the token parser return is the value.  *)
LEMMA ParsedIsValue ==
  ASSUME NEW s \in Seq(0..10)
  PROVE  /\ parse_decimal(s) # NoNumber =>
              IsDecimal(s) /\ parse_decimal(s) = Value(s)[Len(s)] /\ parse_decimal(s) \in Nat
         /\ parse_canonical_decimal_token(s) # NoNumber =>
              /\ IsCanonical(s) /\ parse_canonical_decimal_token(s) = Value(s)[Len(s)]
              /\ Value(s)[Len(s)] \in Nat
<1>1. Len(s) \in Nat /\ Len(s) \in 0..Len(s)
  OBVIOUS
<1>2. IsDecimal(s) => /\ Decimal(s)[Len(s)] = NoNumber \/ Decimal(s)[Len(s)] = Value(s)[Len(s)]
                      /\ Value(s)[Len(s)] \in Nat
  BY <1>1, NumbersAreTrue, ValueIsNatural
<1>3. IsCanonical(s) => IsDecimal(s)
  BY DEF IsCanonical
<1> QED BY <1>2, <1>3 DEF parse_decimal, parse_canonical_decimal_token

(* A last digit and what precedes it can be told apart.                    *)
LEMMA LastDigit ==
  ASSUME NEW a \in Nat, NEW b \in Nat, NEW x \in 0..9, NEW y \in 0..9, 10 * a + x = 10 * b + y
  PROVE  a = b /\ x = y
  OBVIOUS

(* Canonical texts of the same value are the same text.  By induction over *)
(* the digits of one: what its first n digits are worth, only n digits of  *)
(* the other are worth, and they are the same.                             *)
LEMMA CanonicalIsUnique ==
  ASSUME NEW s \in Seq(0..10), NEW t \in Seq(0..10), IsCanonical(s), IsCanonical(t),
         Value(s)[Len(s)] = Value(t)[Len(t)]
  PROVE  s = t
<1> DEFINE v == Value(s)
           w == Value(t)
           Same(n, m) == n = m /\ \A i \in 1..n : s[i] = t[i]
           T == {n \in Nat : n \in 1..Len(s) => \A m \in 1..Len(t) : v[n] = w[m] => Same(n, m)}
<1>1. /\ IsDecimal(s) /\ IsDecimal(t)
      /\ Len(s) \in Nat /\ Len(t) \in Nat /\ Len(s) >= 1 /\ Len(t) >= 1
      /\ \A i \in 1..Len(s) : s[i] \in 0..9
      /\ \A i \in 1..Len(t) : t[i] \in 0..9
  BY DEF IsCanonical, IsDecimal
<1>2. v[0] = 0 /\ \A i \in 1..Len(s) : v[i] = 10 * v[i - 1] + s[i]
  BY <1>1, ValueUnfolds
<1>3. w[0] = 0 /\ \A i \in 1..Len(t) : w[i] = 10 * w[i - 1] + t[i]
  BY <1>1, ValueUnfolds
<1>4. \A i \in 0..Len(s) : v[i] \in Nat /\ (i # 0 => v[i] >= 1)
  BY <1>1, ValueIsNatural
<1>5. \A i \in 0..Len(t) : w[i] \in Nat /\ (i # 0 => w[i] >= 1)
  BY <1>1, ValueIsNatural
<1>6. v[Len(s)] = w[Len(t)]
  OBVIOUS
<1> HIDE DEF v, w
<1>7. 0 \in T
  OBVIOUS
<1>8. ASSUME NEW n \in Nat, n \in T PROVE n + 1 \in T
  <2> SUFFICES ASSUME n + 1 \in 1..Len(s), NEW m \in 1..Len(t), v[n + 1] = w[m]
               PROVE  Same(n + 1, m)
    OBVIOUS
  <2>1. n \in 0..Len(s) /\ m - 1 \in 0..Len(t) /\ n + 1 - 1 = n /\ m - 1 + 1 = m
    BY <1>1
  <2>2. v[n + 1] = 10 * v[n] + s[n + 1] /\ w[m] = 10 * w[m - 1] + t[m]
    BY <1>2, <1>3, <2>1
  <2>3. v[n] \in Nat /\ w[m - 1] \in Nat /\ s[n + 1] \in 0..9 /\ t[m] \in 0..9
    BY <1>1, <1>4, <1>5, <2>1
  <2>4. v[n] = w[m - 1] /\ s[n + 1] = t[m]
    <3> DEFINE a == v[n]
               b == w[m - 1]
               x == s[n + 1]
               y == t[m]
    <3>1. 10 * a + x = 10 * b + y /\ a \in Nat /\ b \in Nat /\ x \in 0..9 /\ y \in 0..9
      BY <2>2, <2>3
    <3> HIDE DEF a, b, x, y
    <3>2. a = b /\ x = y
      BY ONLY <3>1, LastDigit
    <3> QED BY <3>2 DEF a, b, x, y
  <2>5. (n = 0 <=> v[n] = 0) /\ (m = 1 <=> w[m - 1] = 0)
    <3>1. n # 0 => v[n] >= 1
      BY <1>4, <2>1
    <3>2. m - 1 # 0 => w[m - 1] >= 1
      BY <1>5, <2>1
    <3>3. n = 0 => v[n] = 0
      BY <1>2
    <3>4. m = 1 => w[m - 1] = 0
      <4>1. m = 1 => m - 1 = 0
        OBVIOUS
      <4> QED BY <1>3, <4>1
    <3>5. n # 0 => v[n] # 0
      BY <2>3, <3>1
    <3>6. m # 1 => w[m - 1] # 0
      <4>1. m # 1 => m - 1 # 0
        OBVIOUS
      <4> QED BY <2>3, <3>2, <4>1
    <3> QED BY <3>3, <3>4, <3>5, <3>6
  <2>6. CASE n = 0
    <3>1. m = 1
      BY <2>4, <2>5, <2>6
    <3> QED BY <2>4, <2>6, <3>1
  <2>7. CASE n # 0
    <3>1. n \in 1..Len(s) /\ m - 1 \in 1..Len(t)
      BY <2>1, <2>4, <2>5, <2>7
    <3>2. Same(n, m - 1)
      BY <1>8, <2>4, <3>1
    <3>3. n + 1 = m /\ \A i \in 1..n : s[i] = t[i]
      BY <2>1, <3>2
    <3> QED BY <2>4, <3>3
  <2> QED BY <2>6, <2>7
<1>9. Nat \subseteq T
  <2> HIDE DEF T
  <2> QED BY <1>7, <1>8, SetInduction
<1>10. Same(Len(s), Len(t))
  <2>1. Len(s) \in T /\ Len(s) \in 1..Len(s) /\ Len(t) \in 1..Len(t)
    BY <1>1, <1>9
  <2> QED BY <1>6, <2>1
<1> QED BY <1>10

(* A set of numbers has a least one.                                       *)
LEMMA LeastExists ==
  ASSUME NEW S, S \subseteq Nat, S # {}
  PROVE  \E i \in S : \A j \in S : i <= j
<1> DEFINE T == {n \in Nat : \A k \in Nat : k <= n => k \notin S}
<1> SUFFICES ASSUME \A i \in S : \E j \in S : j < i PROVE FALSE
  <2>1. \A i, j \in Nat : ~(i <= j) => j < i
    OBVIOUS
  <2> QED BY <2>1
<1>1. 0 \in T
  <2> SUFFICES ASSUME 0 \in S PROVE FALSE
    OBVIOUS
  <2>1. PICK j \in S : j < 0
    OBVIOUS
  <2> QED BY <2>1
<1>2. ASSUME NEW n \in Nat, n \in T PROVE n + 1 \in T
  <2> SUFFICES ASSUME NEW k \in Nat, k <= n + 1, k \in S PROVE FALSE
    OBVIOUS
  <2>1. PICK j \in S : j < k
    OBVIOUS
  <2>2. j \in Nat /\ j <= n
    BY <2>1
  <2> QED BY <1>2, <2>2
<1>3. Nat \subseteq T
  <2> HIDE DEF T
  <2> QED BY <1>1, <1>2, SetInduction
<1>4. PICK k \in S : TRUE
  OBVIOUS
<1>5. k \in Nat /\ k \in T
  BY <1>3
<1> QED BY <1>4, <1>5

(* What inspect_headers lets pass: no header has an error and there is one *)
(* host.                                                                   *)
LEMMA InspectedHeaders ==
  ASSUME NEW hs \in Seq(Header), inspect_headers(hs) = "None"
  PROVE  /\ \A i \in 1..Len(hs) : HeaderError(hs, i) = "None"
         /\ Cardinality(Named(hs, "host")) = 1
<1> DEFINE bad == {i \in DOMAIN hs : HeaderError(hs, i) # "None"}
           hosts == Cardinality(Named(hs, "host"))
           least == CHOOSE i \in bad : \A j \in bad : i <= j
<1>1. Len(hs) \in Nat /\ DOMAIN hs = 1..Len(hs)
  OBVIOUS
<1>2. inspect_headers(hs) =
        CASE bad # {} -> HeaderError(hs, least)
          [] bad = {} /\ hosts = 0 -> "MissingHost"
          [] bad = {} /\ hosts > 1 -> "DuplicateHost"
          [] OTHER -> "None"
  BY DEF inspect_headers
<1>3. bad = {}
  <2> SUFFICES ASSUME bad # {} PROVE FALSE
    OBVIOUS
  <2>1. bad \subseteq Nat
    BY <1>1
  <2>2. \E i \in bad : \A j \in bad : i <= j
    <3> HIDE DEF bad
    <3> QED BY <2>1, LeastExists
  <2>3. least \in bad
    <3> HIDE DEF bad
    <3> QED BY <2>2
  <2>4. HeaderError(hs, least) # "None"
    BY <2>3
  <2>5. inspect_headers(hs) = HeaderError(hs, least)
    <3> HIDE DEF bad, least, hosts
    <3> QED BY <1>2
  <2> QED BY <2>4, <2>5
<1>4. IsFiniteSet(Named(hs, "host"))
  <2>1. Named(hs, "host") \subseteq 1..Len(hs)
    BY <1>1 DEF Named
  <2>2. IsFiniteSet(1..Len(hs))
    BY <1>1, FS_Interval
  <2> QED BY <2>1, <2>2, FS_Subset
<1>5. hosts \in Nat
  BY <1>4, FS_CardinalityType
<1>6. hosts # 0 /\ ~(hosts > 1)
  <2> HIDE DEF bad, least, hosts
  <2> QED BY <1>2, <1>3
<1>7. hosts = 1
  <2> HIDE DEF hosts
  <2> QED BY <1>5, <1>6
<1>8. \A i \in 1..Len(hs) : HeaderError(hs, i) = "None"
  BY <1>1, <1>3
<1> QED BY <1>7, <1>8

(* What one header without an error is.                                    *)
LEMMA SoundHeader ==
  ASSUME NEW hs \in Seq(Header), NEW i \in 1..Len(hs), HeaderError(hs, i) = "None"
  PROVE  /\ hs[i].name = "host" => hs[i].ok = TRUE
         /\ hs[i].name # "transfer-encoding"
         /\ hs[i].name = "content-length" =>
              /\ parse_decimal(hs[i].digits) # NoNumber
              /\ \A j \in Named(hs, "content-length") : ~(j < i)
<1> DEFINE h == hs[i]
           repeated == \E j \in Named(hs, h.name) : j < i
           unreadable == parse_decimal(h.digits) = NoNumber
<1>1. HeaderError(hs, i) =
        CASE h.name = "host" /\ ~h.ok -> "InvalidHost"
          [] h.name = "transfer-encoding" -> "UnsupportedTransferEncoding"
          [] h.name = "content-length" /\ repeated -> "DuplicateContentLength"
          [] h.name = "content-length" /\ unreadable -> "InvalidContentLength"
          [] h.name = "content-type" /\ repeated -> "DuplicateContentType"
          [] OTHER -> "None"
  BY DEF HeaderError
<1>2. h \in Header
  OBVIOUS
<1>3. h.ok \in BOOLEAN
  BY <1>2 DEF Header
<1>4. CASE h.name = "host"
  <2>1. h.ok = TRUE
    <3> SUFFICES ASSUME ~h.ok PROVE FALSE
      BY <1>3
    <3> HIDE DEF h, repeated, unreadable
    <3>1. HeaderError(hs, i) = "InvalidHost"
      BY <1>1, <1>4
    <3> QED BY <3>1
  <2> QED BY <1>4, <2>1
<1>5. CASE h.name = "transfer-encoding"
  <2> HIDE DEF h, repeated, unreadable
  <2>1. HeaderError(hs, i) = "UnsupportedTransferEncoding"
    BY <1>1, <1>5
  <2> QED BY <2>1
<1>6. CASE h.name = "content-length"
  <2>1. ~repeated /\ ~unreadable
    <3> HIDE DEF h, repeated, unreadable
    <3>1. repeated => HeaderError(hs, i) # "None"
      BY <1>1, <1>6
    <3>2. unreadable => HeaderError(hs, i) # "None"
      BY <1>1, <1>6
    <3> QED BY <3>1, <3>2
  <2> QED BY <1>6, <2>1
<1> QED BY <1>4, <1>5, <1>6

(* The length is a number even where the head is refused: the number that  *)
(* stands for none if the digits do not parse.                             *)
LEMMA BodyLengthIsInteger ==
  ASSUME NEW m \in Message
  PROVE  BodyLength(m) \in Int
<1> DEFINE k == CHOOSE i \in Named(m.headers, "content-length") : TRUE
<1>1. CASE HasLength(m)
  <2>1. k \in Named(m.headers, "content-length")
    BY <1>1 DEF HasLength
  <2>2. m.headers \in Seq(Header)
    BY DEF Message
  <2>3. m.headers[k] \in Header
    <3> HIDE DEF k
    <3>1. k \in 1..Len(m.headers)
      BY <2>1, <2>2 DEF Named
    <3> QED BY <2>2, <3>1
  <2>4. m.headers[k].digits \in Seq(0..10)
    BY <2>3 DEF Header
  <2>5. parse_decimal(m.headers[k].digits) \in Int
    <3>1. NoNumber \in Int
      BY DEF NoNumber
    <3> QED BY <2>4, <3>1, ParsedIsValue
  <2> QED BY <1>1, <2>5 DEF BodyLength
<1>2. CASE ~HasLength(m)
  BY <1>2 DEF BodyLength
<1> QED BY <1>1, <1>2

(* A head without an error, and the lengths it gives.                      *)
LEMMA SoundHead ==
  ASSUME NEW m \in Message, HeadError(m) = "None"
  PROVE  inspect_headers(m.headers) = "None"
<1> DEFINE framing == inspect_headers(m.headers)
<1>1. ASSUME framing # "None" PROVE FALSE
  <2>1. m.head # "ok" => HeadError(m) = m.head
    BY DEF HeadError
  <2>2. m.head \in {"ok", "TooManyHeaders", "MalformedRequest"}
    BY DEF Message
  <2>3. m.head = "ok" /\ m.version # 1 => HeadError(m) = "UnsupportedHttpVersion"
    BY DEF HeadError
  <2>4. m.head = "ok" /\ m.version = 1 => HeadError(m) = framing
    BY <1>1 DEF HeadError
  <2> QED BY <1>1, <2>1, <2>2, <2>3, <2>4
<1> QED BY <1>1

LEMMA SoundLength ==
  ASSUME NEW m \in Message, inspect_headers(m.headers) = "None",
         NEW lengths, lengths = Named(m.headers, "content-length"),
         NEW digits, digits = m.headers[CHOOSE i \in lengths : TRUE].digits
  PROVE  /\ Cardinality(lengths) <= 1
         /\ BodyLength(m) = IF lengths = {} THEN 0 ELSE Value(digits)[Len(digits)]
         /\ BodyLength(m) \in Nat
<1> DEFINE hs == m.headers
           k == CHOOSE i \in lengths : TRUE
<1>1. hs \in Seq(Header) /\ Len(hs) \in Nat
  BY DEF Message
<1>2. \A i \in lengths : i \in 1..Len(hs) /\ hs[i].name = "content-length"
  BY <1>1 DEF Named
<1>3. \A i \in lengths : parse_decimal(hs[i].digits) # NoNumber /\ \A j \in lengths : ~(j < i)
  <2> SUFFICES ASSUME NEW i \in lengths
               PROVE  parse_decimal(hs[i].digits) # NoNumber /\ \A j \in lengths : ~(j < i)
    OBVIOUS
  <2>1. HeaderError(hs, i) = "None"
    BY <1>1, <1>2, InspectedHeaders
  <2> QED BY <1>1, <1>2, <2>1, SoundHeader
<1>4. CASE lengths = {}
  <2>1. Cardinality(lengths) = 0
    BY <1>4, FS_EmptySet
  <2>2. BodyLength(m) = 0
    BY <1>4 DEF BodyLength, HasLength
  <2> QED BY <1>4, <2>1, <2>2
<1>5. CASE lengths # {}
  <2>1. k \in lengths
    BY <1>5
  <2> HIDE DEF k
  <2>2. lengths = {k}
    <3> SUFFICES ASSUME NEW i \in lengths PROVE i = k
      BY <2>1
    <3>1. ~(i < k) /\ ~(k < i) /\ i \in Nat /\ k \in Nat
      BY <1>2, <1>3, <2>1
    <3> QED BY <3>1
  <2>3. Cardinality(lengths) = 1
    BY <2>2, FS_Singleton
  <2>4. BodyLength(m) = parse_decimal(digits) /\ digits = hs[k].digits
    BY <1>5 DEF BodyLength, HasLength, k
  <2>5. digits \in Seq(0..10)
    <3>1. hs[k] \in Header
      BY <1>1, <1>2, <2>1
    <3> QED BY <2>4, <3>1 DEF Header
  <2>6. parse_decimal(digits) # NoNumber
    BY <1>3, <2>1, <2>4
  <2> QED BY <1>5, <2>3, <2>4, <2>5, <2>6, ParsedIsValue
<1> QED BY <1>4, <1>5

(* The token of a confirmation that is acted on parses.                    *)
LEMMA SoundToken ==
  ASSUME NEW m \in Message, m.path = "/v1/scenarios/confirm", BodyError(m.path, m.body) = "None"
  PROVE  parse_canonical_decimal_token(m.body.token) # NoNumber
<1> DEFINE body == m.body
           form == body.token_form \notin TokenForms(m.path)
           token == parse_canonical_decimal_token(body.token) = NoNumber
           targeted == m.path \in {"/v1/scenarios/prepare", "/v1/scenarios/clear"}
<1>1. BodyError(m.path, body) =
        CASE ~body.valid -> "InvalidJsonBody"
          [] body.valid /\ targeted -> IF body.stream_id = 0 THEN "InvalidTarget" ELSE "None"
          [] OTHER -> IF form \/ token THEN "InvalidToken" ELSE "None"
  BY DEF BodyError
<1>2. ~targeted
  OBVIOUS
<1>3. m.body \in [valid: BOOLEAN, stream_id: Nat, token_form: STRING, token: Seq(0..10)]
  BY DEF Message
<1>4. body.valid \in BOOLEAN
  BY <1>3
<1> HIDE DEF form, token, targeted
<1>5. CASE ~body.valid
  <2>1. BodyError(m.path, body) = "InvalidJsonBody"
    <3> HIDE DEF body
    <3> QED BY <1>1, <1>2, <1>5
  <2> QED BY <2>1
<1>6. CASE body.valid
  <2>1. BodyError(m.path, body) = IF form \/ token THEN "InvalidToken" ELSE "None"
    <3> HIDE DEF body
    <3> QED BY <1>1, <1>2, <1>6
  <2>2. ~token
    BY <2>1, SMTT(40)
  <2> QED BY <2>2 DEF token
<1> QED BY <1>4, <1>5, <1>6

(* What is acted on is unambiguous.                                        *)
LEMMA ActedOnIsUnambiguous ==
  ASSUME NEW m \in Message, NEW n \in 0..MAX_REQUEST_BYTES, parse(m, n) = Complete
  PROVE  IsUnambiguous(m, n)
<1> DEFINE hs == m.headers
           lengths == Named(hs, "content-length")
           digits == hs[CHOOSE i \in lengths : TRUE].digits
           token == m.body.token
<1>1. n \in Nat /\ MAX_REQUEST_BYTES \in Nat /\ m.head_end \in Nat /\ n <= MAX_REQUEST_BYTES
  BY HttpAssumption DEF Message
<1>2. hs \in Seq(Header) /\ token \in Seq(0..10)
  BY DEF Message
<1>3. HeadError(m) = "None"
  <2> SUFFICES ASSUME HeadError(m) # "None" PROVE FALSE
    OBVIOUS
  <2>1. parse(m, n) \in {Failed("RequestTooLarge"), Failed("IncompleteAtLimit"), Incomplete,
                         Failed(HeadError(m))}
    BY DEF parse, incomplete_or_at_limit
  <2> QED BY <2>1, Tags
<1>4. inspect_headers(hs) = "None"
  BY <1>3, SoundHead
<1>5. /\ Cardinality(lengths) <= 1
      /\ BodyLength(m) = IF lengths = {} THEN 0 ELSE Value(digits)[Len(digits)]
      /\ BodyLength(m) \in Nat
  <2> HIDE DEF digits
  <2>1. digits = hs[CHOOSE i \in lengths : TRUE].digits
    BY DEF digits
  <2> HIDE DEF lengths
  <2>2. lengths = Named(m.headers, "content-length")
    BY DEF lengths
  <2> QED BY <1>4, <2>1, <2>2, SoundLength
<1>6. n = RequestEnd(m) /\ (requires_json_body(m) => BodyError(m.path, m.body) = "None")
  <2>1. RequestEnd(m) \in Int
    BY <1>1, <1>5 DEF RequestEnd
  <2>2. \/ n = RequestEnd(m) /\ (requires_json_body(m) => BodyError(m.path, m.body) = "None")
        \/ parse(m, n) \in {Failed("RequestTooLarge"), Failed("IncompleteAtLimit"), Incomplete,
                            Failed(HeadError(m)), Failed("TrailingData"),
                            Failed(BodyError(m.path, m.body))}
    BY <1>1, <2>1 DEF parse, incomplete_or_at_limit
  <2> QED BY <2>2, Tags
<1>7. /\ Cardinality({i \in Named(hs, "host") : hs[i].ok}) = 1
      /\ Named(hs, "transfer-encoding") = {}
  <2>1. \A i \in 1..Len(hs) : HeaderError(hs, i) = "None"
    BY <1>2, <1>4, InspectedHeaders
  <2>2. \A i \in 1..Len(hs) : (hs[i].name = "host" => hs[i].ok = TRUE)
                              /\ hs[i].name # "transfer-encoding"
    BY <1>2, <2>1, SoundHeader
  <2>3. DOMAIN hs = 1..Len(hs)
    BY <1>2
  <2>4. {i \in Named(hs, "host") : hs[i].ok} = Named(hs, "host")
    BY <2>2, <2>3 DEF Named
  <2>5. Named(hs, "transfer-encoding") = {}
    BY <2>2, <2>3 DEF Named
  <2>6. Cardinality(Named(hs, "host")) = 1
    BY <1>2, <1>4, InspectedHeaders
  <2> QED BY <2>4, <2>5, <2>6
<1>8. n = m.head_end + (IF lengths = {} THEN 0 ELSE Value(digits)[Len(digits)])
  BY <1>5, <1>6 DEF RequestEnd
<1>9. ASSUME m.path = "/v1/scenarios/confirm", NEW t \in Texts
      PROVE  parse_canonical_decimal_token(t) = Value(token)[Len(token)] <=> t = token
  <2>1. BodyError(m.path, m.body) = "None"
    BY <1>6, <1>9 DEF requires_json_body, PostPaths
  <2>2. parse_canonical_decimal_token(token) # NoNumber
    BY <1>9, <2>1, SoundToken
  <2>3. /\ IsCanonical(token) /\ parse_canonical_decimal_token(token) = Value(token)[Len(token)]
        /\ Value(token)[Len(token)] \in Nat
    BY <1>2, <2>2, ParsedIsValue
  <2>4. t \in Seq(0..10)
    BY ReadingAssumption
  <2>5. ASSUME parse_canonical_decimal_token(t) = Value(token)[Len(token)] PROVE t = token
    <3>1. parse_canonical_decimal_token(t) # NoNumber
      BY <2>3, <2>5 DEF NoNumber
    <3>2. IsCanonical(t) /\ Value(t)[Len(t)] = Value(token)[Len(token)]
      BY <2>4, <2>5, <3>1, ParsedIsValue
    <3> HIDE DEF token
    <3> QED BY <1>2, <2>3, <2>4, <3>2, CanonicalIsUnique
  <2> QED BY <2>3, <2>5
<1> QED BY <1>5, <1>7, <1>8, <1>9 DEF IsUnambiguous

(* One request on one connection: for every set of messages a peer may     *)
(* send, every buffer and word size, and every point the bytes have        *)
(* reached, parse acts on a request at one length only and on one reading  *)
(* of it: one host, one length that is exactly what its digits say, and a  *)
(* token that only its own text names.                                     *)
THEOREM RequestsAreRead == ReadSpec => []RequestsHaveOneReading
<1> DEFINE Inv == message \in Message /\ received \in 0..MAX_REQUEST_BYTES
<1>1. ReadInit => Inv
  BY HttpAssumption, ReadingAssumption DEF ReadInit
<1>2. Inv /\ [Receive]_requestVars => Inv'
  <2> SUFFICES ASSUME Inv, [Receive]_requestVars PROVE Inv'
    OBVIOUS
  <2>1. CASE Receive
    BY <2>1, HttpAssumption DEF Receive
  <2>2. CASE UNCHANGED requestVars
    BY <2>2 DEF requestVars
  <2> QED BY <2>1, <2>2
<1>3. Inv => RequestsHaveOneReading
  <2> SUFFICES ASSUME message \in Message, received \in 0..MAX_REQUEST_BYTES
               PROVE  RequestsHaveOneReading
    OBVIOUS
  <2>1. message.head_end \in Nat
    BY DEF Message
  <2>2. CASE BodyLength(message) \in Int
    BY <2>1, <2>2, PiecesDoNotMatter, ActedOnIsUnambiguous DEF RequestsHaveOneReading
  <2> QED BY <2>2, BodyLengthIsInteger
<1> QED BY <1>1, <1>2, <1>3, PTL DEF ReadSpec
=============================================================================
