------------------------------ MODULE PdcServer ------------------------------
(***************************************************************************)
(* The PDC side of src/server.rs: one endpoint with its connection slots,  *)
(* served by the single-threaded loop poll, dispatch_events,               *)
(* expire_connections, take_due / emit_data.  Peers and the kernel act     *)
(* between any two steps of the loop.                                      *)
(*                                                                         *)
(* A command is one symbol; a frame is FRAME units long and the kernel may *)
(* take fewer.  Requests for a header, configuration or capability frame   *)
(* differ only in the bytes sent and are one command, "Request".  The data *)
(* frame buffer is shared by the slots of the endpoint: data_frame changes *)
(* whenever it is encoded again, and `seen` records which contents the     *)
(* peer got for the frame now being written.                               *)
(*                                                                         *)
(* mio registers sockets edge-triggered: a connection is reported by the   *)
(* next poll when it is `armed`, that is after new bytes, EOF or room, or  *)
(* after (re)registration of a socket that is ready.                       *)
(***************************************************************************)
EXTENDS Integers, Sequences, FiniteSets, Functions

CONSTANTS
  PDC_SLOTS_PER_ENDPOINT,
  WireVersion,                   \* "V2" or "V3"
  FIRST_VALID_COMMAND_DEADLINE,  \* both in reporting periods
  IDLE_NON_STREAMING_DEADLINE,
  COMMAND_LIMIT,                 \* commands the receive buffer holds
  FRAME,                         \* units of a frame
  SEND_ROOM,                     \* units the socket's send buffer holds
  Commands,                      \* what peers send in this instance
  FramePlans,                    \* what the scenario controller may plan
  SplitEvents,                   \* mio reports read and write separately (kqueue)
  AcceptFaults,                  \* accept may fail other than by WouldBlock
  MaxConnects,                   \* bound on connection attempts
  MaxSends                       \* bound on commands sent by all peers

Switches == {"Start", "Stop"}
Rejected == {"Malformed", "Unsupported", "WrongStream"}
AllCommands == Switches \cup {"Request"} \cup Rejected

ASSUME InstanceAssumption ==
  /\ PDC_SLOTS_PER_ENDPOINT \in Nat \ {0}
  /\ WireVersion \in {"V2", "V3"}
  /\ FIRST_VALID_COMMAND_DEADLINE \in Nat \ {0}
  /\ IDLE_NON_STREAMING_DEADLINE \in Nat \ {0}
  /\ FIRST_VALID_COMMAND_DEADLINE <= IDLE_NON_STREAMING_DEADLINE
  /\ COMMAND_LIMIT \in Nat \ {0}
  /\ FRAME \in Nat \ {0}
  /\ SEND_ROOM \in Nat \ {0}
  /\ Commands \subseteq AllCommands
  /\ \A plan \in FramePlans : plan.omit_data \in BOOLEAN
  /\ SplitEvents \in BOOLEAN
  /\ AcceptFaults \in BOOLEAN
  /\ MaxConnects \in Nat
  /\ MaxSends \in Nat

VARIABLES
  connections,         \* occupied slot -> connection
  next_connection_id,
  data_frame,          \* which content the shared data frame holds
  pc,                  \* where the event loop is
  events,              \* rest of the batch copied by dispatch_events
  due,                 \* a reporting period has passed since the last tick
  backlog,             \* connections waiting in the listener
  listener_armed,
  connects, sends      \* attempts and commands so far (bounds)

loopVars == <<pc, events, due>>
listenerVars == <<backlog, listener_armed, connects>>
vars == <<connections, next_connection_id, data_frame, loopVars, listenerVars, sends>>

Slots == 0..(PDC_SLOTS_PER_ENDPOINT - 1)

Without(map, keys) == Restrict(map, DOMAIN map \ keys)
With(map, key, value) ==
  [x \in DOMAIN map \cup {key} |-> IF x = key THEN value ELSE map[x]]

Init ==
  /\ connections = [s \in {} |-> s]
  /\ next_connection_id = 1
  /\ data_frame = "even"
  /\ pc = "poll"
  /\ events = {}
  /\ due = FALSE
  /\ backlog = 0
  /\ listener_armed = FALSE
  /\ connects = 0
  /\ sends = 0

-----------------------------------------------------------------------------
(* One connection: pure functions of its record.  Outcome.open is FALSE    *)
(* where the code returns Ok(false) and the caller closes.                 *)

Open(c) == [conn |-> c, open |-> TRUE]
Closing(c) == [conn |-> c, open |-> FALSE]

is_pending(c) == c.pending # "None"
Readable(c) == c.inbox # <<>> \/ c.peer # "open"
Writable(c) == c.room > 0 \/ c.peer = "reset"

reregister_connection(c, writable) ==
  [c EXCEPT !.write_interest = writable,
            !.armed = @ \/ Readable(c) \/ (writable /\ Writable(c))]

NewConnection(id) ==
  [connection_id |-> id, streaming |-> FALSE, pending |-> "None", offset |-> 0,
   buffer |-> <<>>, valid |-> FALSE, age |-> 0, close_after_flush |-> FALSE,
   write_interest |-> FALSE,
   armed |-> FALSE, inbox |-> <<>>, peer |-> "open", room |-> SEND_ROOM, seen |-> <<>>]

record_valid_command(c) == [c EXCEPT !.valid = TRUE, !.age = 0]

(* Fault: the deadline for the first valid command is not enforced.        *)
deadline_expired_idle_only(c) ==
  c.valid /\ ~c.streaming /\ c.age >= IDLE_NON_STREAMING_DEADLINE

deadline_expired(c) ==
  IF ~c.valid THEN c.age >= FIRST_VALID_COMMAND_DEADLINE
              ELSE ~c.streaming /\ c.age >= IDLE_NON_STREAMING_DEADLINE

(* A V3 peer is told why before it is closed; its stream stops at once.    *)
queue_error_response(c) ==
  reregister_connection(
    [c EXCEPT !.pending = "Error", !.offset = 0, !.streaming = FALSE,
              !.close_after_flush = TRUE], TRUE)

queue_response(c) ==
  reregister_connection(
    [record_valid_command(c) EXCEPT !.pending = "Response", !.offset = 0], TRUE)

(* Start and Stop take effect at once; the last one wins.                  *)
ApplySwitches(c, switches) ==
  IF switches = <<>> THEN c
  ELSE reregister_connection(
         [record_valid_command(c) EXCEPT
            !.streaming = (switches[Len(switches)] = "Start")], FALSE)

(* Fault: commands are handled although a frame is being written.          *)
MustWait_never(c) == c.close_after_flush

(* Buffered commands wait while a frame is unfinished.                     *)
MustWait(c) == is_pending(c) \/ c.close_after_flush

(* The loop handles Start and Stop until a command queues a response, is   *)
(* rejected, or the buffer holds no further command.                       *)
process_buffered_commands(c) ==
  IF MustWait(c) THEN Open(c)
  ELSE LET n == Len(c.buffer)
           k == CHOOSE i \in 1..(n + 1) :
                  /\ \A j \in 1..(i - 1) : c.buffer[j] \in Switches
                  /\ i <= n => c.buffer[i] \notin Switches
           d == [ApplySwitches(c, SubSeq(c.buffer, 1, k - 1))
                   EXCEPT !.buffer = SubSeq(c.buffer, k + 1, n)]
       IN  IF k = n + 1 THEN Open(d)
           ELSE IF c.buffer[k] = "Request" THEN Open(queue_response(d))
           ELSE IF WireVersion = "V3" THEN Open(queue_error_response(d))
           ELSE Closing(d)

(* Fault: EOF is taken for an empty socket.                                *)
MeetsEnd_reset_only(c, buffered) ==
  Len(buffered) < COMMAND_LIMIT /\ c.peer = "reset"

MeetsEnd(c, buffered) == Len(buffered) < COMMAND_LIMIT /\ c.peer # "open"

(* read_from fills the buffer until it is full, the socket is empty or the *)
(* peer's EOF or reset is met, which a full buffer hides.                  *)
read_connection(c) ==
  IF c.close_after_flush THEN Open(c)
  ELSE LET space == COMMAND_LIMIT - Len(c.buffer)
           taken == IF Len(c.inbox) < space THEN Len(c.inbox) ELSE space
           d == [c EXCEPT !.buffer = @ \o SubSeq(c.inbox, 1, taken),
                          !.inbox = SubSeq(@, taken + 1, Len(@))]
           met_end == MeetsEnd(c, d.buffer)
           p == process_buffered_commands(d)
       IN  IF met_end /\ (c.peer = "reset" \/ d.buffer = <<>>) THEN Closing(d)
           ELSE IF met_end
             THEN [p EXCEPT !.open = @ /\ p.conn.close_after_flush /\ is_pending(p.conn)]
             ELSE p

(* The contents a unit of the pending frame has when it is written.        *)
Contents(frame, data) == IF frame = "Data" THEN data ELSE frame

(* Fault: commands that arrived during the write stay in the buffer.       *)
FinishFrame_leaving_commands(c) ==
  IF c.close_after_flush THEN Closing(c) ELSE Open(reregister_connection(c, FALSE))

(* After the last unit of a frame: close, or handle the commands that      *)
(* waited behind it.                                                       *)
FinishFrame(c) ==
  LET next == process_buffered_commands(c)
  IN  IF c.close_after_flush THEN Closing(c)
      ELSE IF next.open /\ ~is_pending(next.conn)
        THEN Open(reregister_connection(next.conn, FALSE))
        ELSE next

flush_connection(c, data) ==
  LET written == IF c.room < FRAME - c.offset THEN c.room ELSE FRAME - c.offset
      d == [c EXCEPT !.room = @ - written]
  IN  IF ~is_pending(c) THEN Open(c)
      ELSE IF c.peer = "reset" THEN Closing(c)
      ELSE IF c.room = 0 THEN Open(reregister_connection(c, TRUE))
      ELSE IF c.offset + written < FRAME
        THEN Open(reregister_connection(
               [d EXCEPT !.offset = @ + written,
                         !.seen = @ \o [i \in 1..written |-> Contents(c.pending, data)]],
               TRUE))
        ELSE FinishFrame([d EXCEPT !.pending = "None", !.offset = 0, !.seen = <<>>])

(* Store the outcome of handling one slot; close_connection empties it.    *)
Settle(slot, outcome) ==
  connections' = IF outcome.open THEN [connections EXCEPT ![slot] = outcome.conn]
                                 ELSE Without(connections, {slot})

-----------------------------------------------------------------------------
(* The event loop.                                                         *)

(* Poll::poll: every registered socket that is armed and still ready is    *)
(* reported with its current readiness under its interest: in one event on *)
(* epoll, in one per direction on kqueue.                                  *)
Reports(s) ==
  LET c == connections[s]
      flags == [readable: {Readable(c)}, writable: {c.write_interest /\ Writable(c)}]
      split == {[readable |-> r, writable |-> ~r] : r \in BOOLEAN}
      told == IF SplitEvents THEN {f \in split : \E g \in flags : (f.readable /\ g.readable)
                                                              \/ (f.writable /\ g.writable)}
                             ELSE {f \in flags : f.readable \/ f.writable}
  IN  {[slot |-> s, connection_id |-> c.connection_id,
        readable |-> f.readable, writable |-> f.writable] : f \in told}

Poll ==
  /\ pc = "poll"
  /\ events' = UNION {Reports(s) : s \in {t \in DOMAIN connections : connections[t].armed}}
  /\ connections' = [s \in DOMAIN connections |-> [connections[s] EXCEPT !.armed = FALSE]]
  /\ listener_armed' = FALSE
  /\ pc' = IF listener_armed /\ backlog > 0 THEN "listener" ELSE "dispatch"
  /\ UNCHANGED <<next_connection_id, data_frame, due, backlog, connects, sends>>

FreeSlots == Slots \ DOMAIN connections

(* One accepted socket: no free slot, a socket that cannot be configured   *)
(* (external), or a new connection in the first free slot.                 *)

RejectConnection ==
  /\ backlog' = backlog - 1
  /\ UNCHANGED <<connections, next_connection_id>>

AdmitConnection ==
  \E s \in FreeSlots :
    /\ \A t \in FreeSlots : s <= t
    /\ connections' = With(connections, s, NewConnection(next_connection_id))
    /\ next_connection_id' = next_connection_id + 1
    /\ backlog' = backlog - 1

(* Fault: one connection is accepted per event.                            *)
accept_connections_once ==
  /\ pc = "listener"
  /\ RejectConnection \/ AdmitConnection
  /\ pc' = "dispatch"
  /\ UNCHANGED <<data_frame, events, due, listener_armed, connects, sends>>

(* accept_connections loops until the listener would block; any other      *)
(* error of accept leaves the loop and the process ends.                   *)
accept_connections ==
  /\ pc \in {"listener", "accepting"}
  /\ \/ /\ backlog > 0
        /\ RejectConnection \/ AdmitConnection
        /\ pc' = "accepting"
     \/ /\ backlog = 0
        /\ pc' = "dispatch"
        /\ UNCHANGED <<connections, next_connection_id, backlog>>
     \/ /\ AcceptFaults
        /\ pc' = "stopped"
        /\ UNCHANGED <<connections, next_connection_id, backlog>>
  /\ UNCHANGED <<data_frame, events, due, listener_armed, connects, sends>>

(* One event of the batch.  The slot may have been emptied, or emptied and *)
(* taken by a new connection, since the batch was copied.                  *)
HandleEvent(c, e) ==
  LET r == IF e.readable THEN read_connection(c) ELSE Open(c)
  IN  IF r.open /\ e.writable THEN flush_connection(r.conn, data_frame) ELSE r

IsCurrent(e) ==
  /\ e.slot \in DOMAIN connections
  /\ connections[e.slot].connection_id = e.connection_id

dispatch_event(e) ==
  /\ pc \in {"listener", "dispatch"}
  /\ \/ /\ IsCurrent(e)
        /\ Settle(e.slot, HandleEvent(connections[e.slot], e))
     \/ /\ ~IsCurrent(e)
        /\ UNCHANGED connections
  /\ events' = events \ {e}
  /\ UNCHANGED <<next_connection_id, data_frame, pc, due, listenerVars, sends>>

Overdue == {s \in DOMAIN connections : deadline_expired(connections[s])}

expire_connections ==
  /\ pc = "dispatch" /\ events = {}
  /\ connections' = Without(connections, Overdue)
  /\ pc' = "tick"
  /\ UNCHANGED <<next_connection_id, data_frame, events, due, listenerVars, sends>>

(* take_due finds no sample due.                                           *)
NoTick ==
  /\ pc = "tick" /\ ~due
  /\ pc' = "poll"
  /\ UNCHANGED <<connections, next_connection_id, data_frame, events, due,
                 listenerVars, sends>>

(* Fault: a client that made some progress is spared.                      *)
IsSlow_without_progress(c) == c.streaming /\ is_pending(c) /\ c.offset = 0

IsSlow(c) == c.streaming /\ is_pending(c)

(* Fault: the connection id is taken for the slot.                         *)
Targeted_by_slot(ids) == DOMAIN connections \cap ids

Targeted(ids) == {s \in DOMAIN connections : connections[s].connection_id \in ids}
SlowSlots == {s \in DOMAIN connections : IsSlow(connections[s])}

Reencoded(data) == IF data = "even" THEN "odd" ELSE "even"

StartData(c, data) ==
  flush_connection(
    reregister_connection([c EXCEPT !.pending = "Data", !.offset = 0], TRUE), data)

(* emit_data under the frame plan of the scenario controller: disconnect   *)
(* the listed connections, close every streaming one with an unfinished    *)
(* frame, and unless the plan omits data encode the shared frame and start *)
(* it on every streaming connection.                                       *)
emit_data(plan) ==
  /\ pc = "tick" /\ due
  /\ LET rest == Without(connections, Targeted(plan.disconnect_pdc_connection_ids) \cup SlowSlots)
         streaming == {s \in DOMAIN rest : rest[s].streaming}
         fresh == Reencoded(data_frame)
         sent == [s \in streaming |-> StartData(rest[s], fresh)]
         lost == {s \in streaming : ~sent[s].open}
     IN  \/ /\ streaming = {} \/ plan.omit_data
            /\ connections' = rest
            /\ UNCHANGED data_frame
         \/ /\ streaming # {} /\ ~plan.omit_data
            /\ connections' = [s \in DOMAIN rest \ lost |->
                                 IF s \in streaming THEN sent[s].conn ELSE rest[s]]
            /\ data_frame' = fresh
  /\ due' = FALSE
  /\ pc' = "poll"
  /\ UNCHANGED <<next_connection_id, events, listenerVars, sends>>

-----------------------------------------------------------------------------
(* The environment: time, peers and the kernel.                            *)

(* One reporting period passes; ages saturate at the longest deadline.     *)
Elapse ==
  /\ due' = TRUE
  /\ connections' =
       [s \in DOMAIN connections |->
          [connections[s] EXCEPT !.age = IF @ < IDLE_NON_STREAMING_DEADLINE THEN @ + 1 ELSE @]]
  /\ UNCHANGED <<next_connection_id, data_frame, pc, events, listenerVars, sends>>

Connect ==
  /\ connects < MaxConnects
  /\ connects' = connects + 1
  /\ backlog' = backlog + 1
  /\ listener_armed' = TRUE
  /\ UNCHANGED <<connections, next_connection_id, data_frame, loopVars, sends>>

PeerStep(s, c) ==
  /\ connections' = [connections EXCEPT ![s] = c]
  /\ UNCHANGED <<next_connection_id, data_frame, loopVars, listenerVars>>

PeerSends(s, command) ==
  /\ connections[s].peer = "open" /\ sends < MaxSends
  /\ PeerStep(s, [connections[s] EXCEPT !.inbox = Append(@, command), !.armed = TRUE])
  /\ sends' = sends + 1

PeerShuts(s) ==
  /\ connections[s].peer = "open"
  /\ PeerStep(s, [connections[s] EXCEPT !.peer = "shut", !.armed = TRUE])
  /\ UNCHANGED sends

PeerResets(s) ==
  /\ connections[s].peer # "reset"
  /\ PeerStep(s, [connections[s] EXCEPT !.peer = "reset", !.armed = TRUE])
  /\ UNCHANGED sends

PeerDrains(s) ==
  /\ connections[s].peer # "reset"
  /\ connections[s].room < SEND_ROOM
  /\ PeerStep(s, [connections[s] EXCEPT !.room = @ + 1,
                                        !.armed = @ \/ connections[s].write_interest])
  /\ UNCHANGED sends

Peer ==
  \/ Connect
  \/ \E s \in DOMAIN connections :
       \/ \E command \in Commands : PeerSends(s, command)
       \/ PeerShuts(s)
       \/ PeerResets(s)
       \/ PeerDrains(s)

Server ==
  \/ Poll
  \/ accept_connections
  \/ \E e \in events : dispatch_event(e)
  \/ expire_connections
  \/ NoTick
  \/ \E plan \in FramePlans : emit_data(plan)

Next == Server \/ Elapse \/ Peer

Spec == Init /\ [][Next]_vars

(* The loop runs on until it is stopped, and time passes; peers owe        *)
(* nothing.  Some step of Server is enabled in every state but "stopped",  *)
(* and these are the steps that move the loop, so its weak fairness is     *)
(* that they recur.                                                        *)
LoopMoves == pc' # pc \/ events' # events \/ backlog' < backlog

Fairness ==
  /\ []<><<LoopMoves>>_vars \/ <>[](pc = "stopped")
  /\ WF_vars(Elapse)

FairSpec == Spec /\ Fairness

-----------------------------------------------------------------------------
(* Properties.                                                             *)

(* No peer ever receives a torn frame: the part of a frame it already got  *)
(* is the same content the rest will be taken from, although the data      *)
(* frame buffer is shared by the slots and encoded again at every tick,    *)
(* and although commands may queue other frames.                           *)
FramesAreWhole ==
  \A s \in DOMAIN connections :
    LET c == connections[s]
    IN  c.seen = [i \in 1..c.offset |-> Contents(c.pending, data_frame)]

(* An unfinished data frame belongs to a streaming connection, so the next *)
(* tick finds it; an error response is queued exactly while the connection *)
(* is about to be closed, never streams again and exists on V3 only.       *)
QueuedFrameMatchesMode ==
  \A s \in DOMAIN connections :
    LET c == connections[s]
    IN  /\ c.pending = "Data" => c.streaming
        /\ c.close_after_flush <=> c.pending = "Error"
        /\ c.pending = "Error" => ~c.streaming /\ WireVersion = "V3"

StillThere(s) ==
  /\ s \in DOMAIN connections'
  /\ connections'[s].connection_id = connections[s].connection_id

HasOwnFault(c) ==
  \/ c.peer # "open"
  \/ deadline_expired(c)
  \/ IsSlow(c)
  \/ c.close_after_flush
  \/ \E i \in 1..Len(c.buffer \o c.inbox) : (c.buffer \o c.inbox)[i] \in Rejected
  \/ \E plan \in FramePlans : c.connection_id \in plan.disconnect_pdc_connection_ids

(* A connection is closed for a reason of its own: its peer went away, a   *)
(* deadline passed, it was slow, it sent something to be rejected, or a    *)
(* scenario targets it.  A slow or malformed peer never costs the other    *)
(* slot its connection.                                                    *)
ClosedForOwnFault ==
  [][\A s \in DOMAIN connections : StillThere(s) \/ HasOwnFault(connections[s])]_vars

(* What the documents say of slow clients: only one that cannot drain its  *)
(* pending frame by the next tick is closed.  A response the socket has    *)
(* room for is a frame the client can drain.                               *)
OnlyBlockedClientsAreSlow ==
  [][\A s \in SlowSlots :
       ~StillThere(s) /\ pc = "tick" /\ connections[s].pending = "Response"
         => connections[s].room < FRAME - connections[s].offset]_vars

(* What the documents say of failures at run time: one that concerns a     *)
(* single connection attempt does not end the streams of other clients.    *)
RuntimeFailuresAreIsolated ==
  pc = "stopped" => \A s \in DOMAIN connections : ~connections[s].streaming

(* No client waits in the listener's backlog for ever: it is admitted or   *)
(* refused although the listener too is reported only once.                *)
NobodyWaitsAtTheListener == backlog > 0 ~> backlog = 0

Served(id) == \E s \in DOMAIN connections : connections[s].connection_id = id
Conn(id) == connections[CHOOSE s \in DOMAIN connections : connections[s].connection_id = id]

(* A connection whose peer has shut down or reset it is eventually closed. *)
DeadPeersAreClosed ==
  \A id \in 1..MaxConnects : Served(id) /\ Conn(id).peer # "open" ~> ~Served(id)

(* Commands a peer has sent are eventually all handled, or the connection  *)
(* is closed; no byte waits for a wake-up that never comes.                *)
CommandsAreHandled ==
  \A id \in 1..MaxConnects :
    Served(id) /\ Conn(id).inbox \o Conn(id).buffer # <<>>
      ~> ~Served(id) \/ Conn(id).inbox \o Conn(id).buffer = <<>>

(* A connection that never sends a valid command, or stops and stays       *)
(* silent, does not hold its slot forever.                                 *)
IdleSlotsAreFreed ==
  \A id \in 1..MaxConnects :
    Served(id) /\ ~Conn(id).streaming ~> ~Served(id) \/ Conn(id).streaming
=============================================================================
