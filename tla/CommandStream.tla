---------------------------- MODULE CommandStream ----------------------------
(***************************************************************************)
(* The receive buffer of a PDC connection, src/server.rs, byte by byte.    *)
(* PdcServer takes commands for units; here they are cut out of a stream   *)
(* of bytes that arrives in whatever segments TCP makes of it, into a      *)
(* buffer of LIMIT bytes, with the end of the stream anywhere.             *)
(*                                                                         *)
(* A frame is what its bytes say to next_command: the declared size, what  *)
(* the codec makes of the whole frame, and its id.  `bytes` of it are      *)
(* sent.  The event loop handles one connection at a time: no byte enters  *)
(* the buffer while its commands are processed.                            *)
(***************************************************************************)
EXTENDS Integers, Sequences

CONSTANTS
  Frames,          \* the frames a peer may send
  LIMIT,           \* max_command_frame_bytes
  wire_version,    \* wire version of the endpoint
  StreamId,        \* its stream id
  MaxFrames        \* bound on the frames a peer sends

SIZE_BYTES == 4    \* the declared size ends here
ID_BYTES == 6      \* and the id here

Valid == {"Start", "Stop", "Request"}
Invalid == {"Malformed", "Unsupported", "WrongStream"}

Frame ==
  [kind: Valid \cup Invalid, declared: Nat, bytes: Nat, id: Nat]

(* Only a malformed frame may declare another size than it has.            *)
ASSUME StreamAssumption ==
  /\ Frames \subseteq Frame
  /\ LIMIT \in Nat /\ LIMIT > ID_BYTES
  /\ wire_version \in {2, 3}
  /\ StreamId \in Nat
  /\ MaxFrames \in Nat
  /\ \A f \in Frames :
       /\ f.bytes >= ID_BYTES
       /\ f.kind # "Malformed" => f.declared = f.bytes /\ f.bytes <= LIMIT
       /\ f.kind \in Valid => f.id = StreamId
       /\ f.kind = "WrongStream" => f.id # StreamId

VARIABLES
  stream, total,     \* frames the peer has begun to send, and their bytes
  sent, shut,        \* bytes it has sent, and whether its end of stream follows
  taken, start,      \* frames shifted out of the buffer, and their bytes
  length,            \* ReceiveBuffer::length
  pending,           \* the frame being written to the peer
  close_after_flush,
  pc,                \* where the loop is with this connection
  met_end,           \* read_from met the end of the stream
  handled            \* what was done about each command, and the id answered with

peerVars == <<stream, total, sent, shut>>
streamVars == <<peerVars, taken, start, length, pending, close_after_flush, pc, met_end, handled>>

StreamInit ==
  /\ stream = <<>> /\ total = 0
  /\ sent = 0 /\ shut = FALSE
  /\ taken = 0 /\ start = 0
  /\ length = 0
  /\ pending = "None"
  /\ close_after_flush = FALSE
  /\ pc = "poll"
  /\ met_end = FALSE
  /\ handled = <<>>

-----------------------------------------------------------------------------
(* The peer and the network (external): one byte at a time is any segments. *)

PeerBegins(f) ==
  /\ ~shut /\ sent = total /\ Len(stream) < MaxFrames
  /\ stream' = Append(stream, f)
  /\ total' = total + f.bytes
  /\ UNCHANGED <<sent, shut, taken, start, length, pending, close_after_flush, pc,
                 met_end, handled>>

PeerSends ==
  /\ ~shut /\ sent < total
  /\ sent' = sent + 1
  /\ UNCHANGED <<stream, total, shut, taken, start, length, pending, close_after_flush, pc,
                 met_end, handled>>

PeerShuts ==
  /\ ~shut
  /\ shut' = TRUE
  /\ UNCHANGED <<stream, total, sent, taken, start, length, pending, close_after_flush, pc,
                 met_end, handled>>

-----------------------------------------------------------------------------
(* ReceiveBuffer.                                                          *)

Unread == sent - start - length

IsOversized(f) == f.declared > LIMIT

IsHeld(f) == length >= f.declared

NoCommand == "None"

(* next_command: NoCommand, "Malformed" or the kind of a whole frame.      *)
next_command ==
  IF length < SIZE_BYTES THEN NoCommand
  ELSE LET f == stream[taken + 1]
       IN  IF IsOversized(f) THEN "Malformed"
           ELSE IF IsHeld(f) THEN f.kind
           ELSE NoCommand

(* read_connection: read_from until the buffer is full, the socket empty   *)
(* or the end of the stream met; the commands are processed next.          *)
ReadCount == IF Unread < LIMIT - length THEN Unread ELSE LIMIT - length
MeetsEnd == shut /\ length + ReadCount < LIMIT

read_connection ==
  /\ pc = "poll" /\ ~close_after_flush
  /\ ReadCount > 0 \/ MeetsEnd
  /\ length' = length + ReadCount
  /\ met_end' = MeetsEnd
  /\ pc' = IF MeetsEnd /\ length' = 0 THEN "closed" ELSE "processing"
  /\ UNCHANGED <<peerVars, taken, start, pending, close_after_flush, handled>>

-----------------------------------------------------------------------------
(* process_buffered_commands, one command at a time.                       *)

Handle(kind, id) == handled' = Append(handled, [kind |-> kind, id |-> id])

(* malformed_command, or else the endpoint's own id.                       *)
MalformedId(f) == IF length >= ID_BYTES THEN f.id ELSE StreamId

(* A V3 peer is told before the connection ends.                           *)
Reject(kind, id) ==
  /\ Handle(kind, id)
  /\ IF wire_version = 3
       THEN pending' = "Error" /\ close_after_flush' = TRUE /\ pc' = "done"
       ELSE pc' = "closed" /\ UNCHANGED <<pending, close_after_flush>>

Shift(f) ==
  /\ taken' = taken + 1
  /\ start' = start + f.declared
  /\ length' = length - f.declared

HandleCommand(f) ==
  \/ /\ f.kind \in Invalid
     /\ Reject(f.kind, f.id)
  \/ /\ f.kind \in Valid
     /\ Handle(f.kind, f.id)
     /\ pending' = IF f.kind = "Request" THEN "Response" ELSE pending
     /\ UNCHANGED <<pc, close_after_flush>>

(* The loop stops at a response under way and at the end of the commands.  *)
process_buffered_commands ==
  /\ pc = "processing"
  /\ UNCHANGED <<peerVars, met_end>>
  /\ \/ /\ pending # "None" \/ close_after_flush \/ next_command = NoCommand
        /\ pc' = "done"
        /\ UNCHANGED <<taken, start, length, pending, close_after_flush, handled>>
     \/ /\ pending = "None" /\ ~close_after_flush
        /\ next_command = "Malformed"
        /\ Reject("Malformed", MalformedId(stream[taken + 1]))
        /\ UNCHANGED <<taken, start, length>>
     \/ /\ pending = "None" /\ ~close_after_flush
        /\ next_command \notin {NoCommand, "Malformed"}
        /\ Shift(stream[taken + 1])
        /\ HandleCommand(stream[taken + 1])

OutlivesPeer == close_after_flush /\ pending # "None"

(* The rest of read_connection; a flush did not look for the end.          *)
FinishRead ==
  /\ pc = "done"
  /\ pc' = IF met_end /\ ~OutlivesPeer THEN "closed" ELSE "poll"
  /\ met_end' = FALSE
  /\ UNCHANGED <<peerVars, taken, start, length, pending, close_after_flush, handled>>

(* Fault: commands that arrived during the write stay in the buffer.       *)
flush_connection_forgetful ==
  /\ pc = "poll" /\ pending # "None"
  /\ pending' = "None"
  /\ pc' = IF close_after_flush THEN "closed" ELSE "poll"
  /\ UNCHANGED <<peerVars, taken, start, length, close_after_flush, met_end, handled>>

(* flush_connection when the last byte of the frame is written.            *)
flush_connection ==
  /\ pc = "poll" /\ pending # "None"
  /\ pending' = "None"
  /\ pc' = IF close_after_flush THEN "closed" ELSE "processing"
  /\ UNCHANGED <<peerVars, taken, start, length, close_after_flush, met_end, handled>>

Server == read_connection \/ process_buffered_commands \/ FinishRead \/ flush_connection
Peer == (\E f \in Frames : PeerBegins(f)) \/ PeerSends \/ PeerShuts

StreamNext == Server \/ Peer

StreamSpec == StreamInit /\ [][StreamNext]_streamVars

-----------------------------------------------------------------------------
(* Properties.                                                             *)

(* What is done does not depend on how the stream was cut into segments,   *)
(* on the size of the buffer or on responses under way: the commands       *)
(* handled are the frames of the stream in their order, none twice, none   *)
(* left out, and nothing follows the first one that is rejected.  Between  *)
(* events none waits in the buffer unless a response is under way, and a   *)
(* buffer that waits for the rest of a command has room for it, so the     *)
(* connection cannot stall.  An answer carries the id of its frame, once   *)
(* that has arrived, or the endpoint's own.                                *)
HandledIsTheStream ==
  /\ Len(handled) <= Len(stream)
  /\ \A i \in DOMAIN handled :
       /\ handled[i].kind = stream[i].kind
       /\ handled[i].kind \in Invalid => i = Len(handled)
       /\ handled[i].id \in {stream[i].id, StreamId}
       /\ i > taken /\ handled[i].id # StreamId => sent >= start + ID_BYTES
  /\ pc = "poll" /\ pending = "None" => next_command = NoCommand /\ length < LIMIT
=============================================================================
