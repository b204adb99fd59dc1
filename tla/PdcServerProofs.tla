--------------------------- MODULE PdcServerProofs ---------------------------
(***************************************************************************)
(* Proofs about the PDC side of the server, for every number of slots and  *)
(* peers, both wire versions, every frame length, buffer size, deadline    *)
(* and frame plan: which frame may be queued in which mode, that no peer   *)
(* receives parts of two frames as one, and that no connection is closed   *)
(* for the fault of another.                                               *)
(***************************************************************************)
EXTENDS PdcServer, WellFoundedInduction, TLAPS

(***************************************************************************)
(* What every connection satisfies while the shared data frame holds       *)
(* `data`.  The mode is needed for the contents: a tick encodes the shared *)
(* frame again, which is harmless only because an unfinished data frame    *)
(* belongs to a streaming connection, and those were closed before.        *)
(***************************************************************************)
Fields ==
  {"connection_id", "streaming", "pending", "offset", "buffer", "valid", "age",
   "close_after_flush", "write_interest", "armed", "inbox", "peer", "room", "seen"}

IsConnection(c) ==
  /\ DOMAIN c = Fields
  /\ c.offset \in Nat
  /\ c.room \in Nat
  /\ c.streaming \in BOOLEAN
  /\ c.close_after_flush \in BOOLEAN

InMode(c) ==
  /\ c.pending = "Data" => c.streaming
  /\ c.close_after_flush <=> c.pending = "Error"
  /\ c.pending = "Error" => ~c.streaming /\ WireVersion = "V3"

Whole(c, data) ==
  /\ c.seen = [i \in 1..c.offset |-> Contents(c.pending, data)]
  /\ ~is_pending(c) => c.offset = 0

Good(c, data) == IsConnection(c) /\ InMode(c) /\ Whole(c, data)

(* What an operation leaves alone of a connection: everything `Good` and   *)
(* the callers look at.                                                    *)
SameFrame(c, d) ==
  /\ d.streaming = c.streaming
  /\ d.pending = c.pending
  /\ d.offset = c.offset
  /\ d.close_after_flush = c.close_after_flush
  /\ d.seen = c.seen
  /\ d.room = c.room
  /\ d.peer = c.peer

-----------------------------------------------------------------------------
(* Two runs of the same unit make one run, and runs of no unit are equal.  *)
LEMMA Runs ==
  ASSUME NEW m \in Nat, NEW n \in Nat, NEW x, NEW y
  PROVE  /\ [i \in 1..m |-> x] \o [i \in 1..n |-> x] = [i \in 1..(m + n) |-> x]
         /\ [i \in 1..0 |-> x] = <<>>
         /\ [i \in 1..0 |-> x] = [i \in 1..0 |-> y]
  OBVIOUS

(* A record with the frame of a good connection is good.                   *)
LEMMA SameFrameIsGood ==
  ASSUME NEW c, NEW d, NEW data, Good(c, data), IsConnection(d), SameFrame(c, d)
  PROVE  Good(d, data)
  BY DEF Good, InMode, Whole, SameFrame, is_pending

(* Registering again touches interest and readiness only.                  *)
LEMMA Reregister ==
  ASSUME NEW c, NEW w, IsConnection(c)
  PROVE  /\ IsConnection(reregister_connection(c, w))
         /\ SameFrame(c, reregister_connection(c, w))
  BY DEF IsConnection, Fields, SameFrame, reregister_connection

(* A connection that waits for no frame may switch its stream either way.  *)
LEMMA Switched ==
  ASSUME NEW c, NEW switches, NEW data, Good(c, data), ~MustWait(c)
  PROVE  /\ Good(ApplySwitches(c, switches), data)
         /\ ~MustWait(ApplySwitches(c, switches))
  <1>1. CASE switches = <<>>
    BY <1>1 DEF ApplySwitches
  <1>2. CASE switches # <<>>
    <2> DEFINE d == [record_valid_command(c) EXCEPT
                       !.streaming = (switches[Len(switches)] = "Start")]
    <2>1. /\ IsConnection(d)
          /\ d.pending = c.pending /\ d.offset = c.offset /\ d.seen = c.seen
          /\ d.close_after_flush = c.close_after_flush
      BY DEF Good, IsConnection, Fields, record_valid_command
    <2>2. c.pending = "None" /\ ~c.close_after_flush
      BY DEF MustWait, is_pending
    <2>3. Good(d, data) /\ ~MustWait(d)
      BY <2>1, <2>2 DEF Good, InMode, Whole, MustWait, is_pending
    <2>4. ApplySwitches(c, switches) = reregister_connection(d, FALSE)
      BY <1>2 DEF ApplySwitches
    <2> HIDE DEF d
    <2>5. Good(reregister_connection(d, FALSE), data)
      BY <2>1, <2>3, Reregister, SameFrameIsGood
    <2>6. ~MustWait(reregister_connection(d, FALSE))
      BY <2>1, <2>3, Reregister DEF SameFrame, MustWait, is_pending
    <2> QED
      BY <2>4, <2>5, <2>6
  <1> QED
    BY <1>1, <1>2

(* Queueing a response or, on V3, an error starts a new frame.             *)
LEMMA Queued ==
  ASSUME NEW c, NEW data, Good(c, data), ~MustWait(c)
  PROVE  /\ Good(queue_response(c), data)
         /\ WireVersion = "V3" => Good(queue_error_response(c), data)
  <1>0. c.pending = "None" /\ ~c.close_after_flush /\ c.offset = 0
    BY DEF MustWait, is_pending, Good, Whole
  <1>1. Good(queue_response(c), data)
    <2> DEFINE d == [record_valid_command(c) EXCEPT !.pending = "Response", !.offset = 0]
    <2>1. /\ IsConnection(d)
          /\ d.pending = "Response" /\ d.offset = 0 /\ d.seen = c.seen
          /\ d.close_after_flush = c.close_after_flush
      BY DEF Good, IsConnection, Fields, record_valid_command
    <2>2. Good(d, data)
      BY <1>0, <2>1, Runs DEF Good, InMode, Whole, is_pending
    <2> HIDE DEF d
    <2>3. Good(reregister_connection(d, TRUE), data)
      BY <2>1, <2>2, Reregister, SameFrameIsGood
    <2> QED
      BY <2>3 DEF queue_response, d
  <1>2. ASSUME WireVersion = "V3" PROVE Good(queue_error_response(c), data)
    <2> DEFINE d == [c EXCEPT !.pending = "Error", !.offset = 0, !.streaming = FALSE,
                              !.close_after_flush = TRUE]
    <2>1. /\ IsConnection(d)
          /\ d.pending = "Error" /\ d.offset = 0 /\ d.seen = c.seen
          /\ d.close_after_flush = TRUE /\ d.streaming = FALSE
      BY DEF Good, IsConnection, Fields
    <2>2. Good(d, data)
      BY <1>0, <1>2, <2>1, Runs DEF Good, InMode, Whole, is_pending
    <2> HIDE DEF d
    <2>3. Good(reregister_connection(d, TRUE), data)
      BY <2>1, <2>2, Reregister, SameFrameIsGood
    <2> QED
      BY <2>3 DEF queue_error_response, d
  <1> QED
    BY <1>1, <1>2

(* Handling buffered commands, wherever the loop stops among them.         *)
LEMMA Processed ==
  ASSUME NEW c, NEW data, Good(c, data)
  PROVE  Good(process_buffered_commands(c).conn, data)
  <1>1. CASE MustWait(c)
    BY <1>1 DEF process_buffered_commands, Open
  <1>2. CASE ~MustWait(c)
    <2> DEFINE n == Len(c.buffer)
               k == CHOOSE i \in 1..(n + 1) :
                      /\ \A j \in 1..(i - 1) : c.buffer[j] \in Switches
                      /\ i <= n => c.buffer[i] \notin Switches
               a == ApplySwitches(c, SubSeq(c.buffer, 1, k - 1))
               d == [a EXCEPT !.buffer = SubSeq(c.buffer, k + 1, n)]
    <2> HIDE DEF n, k
    <2>1. Good(a, data) /\ ~MustWait(a)
      BY <1>2, Switched
    <2> HIDE DEF a
    <2>2. IsConnection(d) /\ SameFrame(a, d)
      BY <2>1 DEF Good, IsConnection, Fields, SameFrame
    <2>3. Good(d, data) /\ ~MustWait(d)
      <3> HIDE DEF d
      <3> QED
        BY <2>1, <2>2, SameFrameIsGood DEF SameFrame, MustWait, is_pending
    <2>4. process_buffered_commands(c).conn \in {d, queue_response(d)}
          \/ (WireVersion = "V3" /\ process_buffered_commands(c).conn = queue_error_response(d))
      BY <1>2 DEF process_buffered_commands, Open, Closing, n, k, a
    <2> HIDE DEF d
    <2> QED
      BY <2>3, <2>4, Queued
  <1> QED
    BY <1>1, <1>2

(* Reading moves commands from the socket to the buffer.                   *)
LEMMA ReadKeepsGood ==
  ASSUME NEW c, NEW data, Good(c, data)
  PROVE  Good(read_connection(c).conn, data)
  <1>1. CASE c.close_after_flush
    BY <1>1 DEF read_connection, Open
  <1>2. CASE ~c.close_after_flush
    <2> DEFINE space == COMMAND_LIMIT - Len(c.buffer)
               taken == IF Len(c.inbox) < space THEN Len(c.inbox) ELSE space
               d == [c EXCEPT !.buffer = @ \o SubSeq(c.inbox, 1, taken),
                              !.inbox = SubSeq(@, taken + 1, Len(@))]
               p == process_buffered_commands(d)
    <2> HIDE DEF taken
    <2>1. IsConnection(d) /\ SameFrame(c, d)
      BY DEF Good, IsConnection, Fields, SameFrame
    <2>2. Good(d, data)
      <3> HIDE DEF d
      <3> QED
        BY <2>1, SameFrameIsGood
    <2>3. Good(p.conn, data)
      <3> HIDE DEF d
      <3> QED
        BY <2>2, Processed, SMTT(40)
    <2>4. \E o : p = [conn |-> p.conn, open |-> o]
      <3> HIDE DEF d
      <3> QED
        BY DEF process_buffered_commands, Open, Closing
    <2>5. read_connection(c).conn = d \/ read_connection(c).conn = p.conn
      BY <1>2, <2>4 DEF read_connection, Closing, taken
    <2> QED
      BY <2>2, <2>3, <2>5
  <1> QED
    BY <1>1, <1>2

(* After a frame: the commands behind it, or rest.                         *)
LEMMA FinishKeepsGood ==
  ASSUME NEW c, NEW data, Good(c, data), ~c.close_after_flush
  PROVE  Good(FinishFrame(c).conn, data)
  <1> DEFINE next == process_buffered_commands(c)
  <1>1. Good(next.conn, data) /\ IsConnection(next.conn)
    BY Processed DEF Good
  <1>2. FinishFrame(c) = IF next.open /\ ~is_pending(next.conn)
                           THEN Open(reregister_connection(next.conn, FALSE)) ELSE next
    BY DEF FinishFrame
  <1> HIDE DEF next
  <1>3. Good(reregister_connection(next.conn, FALSE), data)
    BY <1>1, Reregister, SameFrameIsGood
  <1>4. Open(reregister_connection(next.conn, FALSE)).conn
          = reregister_connection(next.conn, FALSE)
    BY DEF Open
  <1> QED
    BY <1>1, <1>2, <1>3, <1>4

(* Flushing extends the part the peer has by the same contents, or ends    *)
(* the frame and handles the commands behind it.                           *)
LEMMA FlushKeepsGood ==
  ASSUME NEW c, NEW data, Good(c, data), flush_connection(c, data).open
  PROVE  Good(flush_connection(c, data).conn, data)
  <1> DEFINE written == IF c.room < FRAME - c.offset THEN c.room ELSE FRAME - c.offset
             d == [c EXCEPT !.room = @ - written]
             more == [d EXCEPT !.offset = @ + written,
                               !.seen = @ \o [i \in 1..written |-> Contents(c.pending, data)]]
             done == [d EXCEPT !.pending = "None", !.offset = 0, !.seen = <<>>]
  <1>0. c.room \in Nat /\ c.offset \in Nat /\ FRAME \in Nat /\ IsConnection(c)
    BY InstanceAssumption DEF Good, IsConnection
  <1>1. CASE ~is_pending(c) \/ c.peer = "reset"
    BY <1>1 DEF flush_connection, Open, Closing
  <1>2. CASE is_pending(c) /\ c.peer # "reset" /\ c.room = 0
    <2>1. Good(reregister_connection(c, TRUE), data)
      BY <1>0, Reregister, SameFrameIsGood
    <2> QED
      BY <1>2, <2>1 DEF flush_connection, Open
  <1>3. CASE /\ is_pending(c) /\ c.peer # "reset" /\ c.room # 0
             /\ c.offset + written < FRAME
    <2>1. written \in Nat /\ c.room - written \in Nat
      BY <1>0, <1>3
    <2>2. /\ IsConnection(more)
          /\ more.pending = c.pending /\ more.streaming = c.streaming
          /\ more.close_after_flush = c.close_after_flush
          /\ more.offset = c.offset + written
          /\ more.seen = c.seen \o [i \in 1..written |-> Contents(c.pending, data)]
      <3> HIDE DEF written
      <3> QED
        BY <1>0, <2>1, SMTT(40) DEF IsConnection, Fields
    <2>3. more.seen = [i \in 1..more.offset |-> Contents(more.pending, data)]
      <3> HIDE DEF written, more
      <3>1. c.seen = [i \in 1..c.offset |-> Contents(c.pending, data)]
        BY DEF Good, Whole
      <3> QED
        BY <1>0, <2>1, <2>2, <3>1, Runs, SMTT(40)
    <2>4. Good(more, data)
      <3> HIDE DEF more
      <3> QED
        BY <1>3, <2>2, <2>3 DEF Good, InMode, Whole, is_pending
    <2>5. Good(reregister_connection(more, TRUE), data)
      <3> HIDE DEF more
      <3> QED
        BY <2>2, <2>4, Reregister, SameFrameIsGood
    <2> QED
      BY <1>3, <2>5 DEF flush_connection, Open
  <1>4. CASE /\ is_pending(c) /\ c.peer # "reset" /\ c.room # 0
             /\ ~(c.offset + written < FRAME) /\ flush_connection(c, data).open
    <2>1. c.room - written \in Nat
      BY <1>0, <1>4
    <2>2. /\ IsConnection(done)
          /\ done.pending = "None" /\ done.offset = 0 /\ done.seen = <<>>
          /\ done.streaming = c.streaming /\ done.close_after_flush = c.close_after_flush
      <3> HIDE DEF written
      <3> QED
        BY <1>0, <2>1 DEF IsConnection, Fields
    <2>3. flush_connection(c, data) = FinishFrame(done)
      BY <1>4 DEF flush_connection
    <2> HIDE DEF done
    <2>4. ~done.close_after_flush
      <3> SUFFICES ASSUME done.close_after_flush PROVE FALSE
        OBVIOUS
      <3>1. FinishFrame(done) = [conn |-> done, open |-> FALSE]
        BY DEF FinishFrame, Closing
      <3> QED
        BY <1>4, <2>3, <3>1
    <2>5. Good(done, data)
      BY <2>2, <2>4, Runs DEF Good, InMode, Whole, is_pending
    <2> QED
      BY <2>3, <2>4, <2>5, FinishKeepsGood
  <1> QED
    BY <1>1, <1>2, <1>3, <1>4

(* An event reads, flushes, or both.                                       *)
LEMMA EventKeepsGood ==
  ASSUME NEW c, NEW e, Good(c, data_frame), HandleEvent(c, e).open
  PROVE  Good(HandleEvent(c, e).conn, data_frame)
  <1> DEFINE r == IF e.readable THEN read_connection(c) ELSE Open(c)
  <1>1. Good(r.conn, data_frame)
    BY ReadKeepsGood DEF Open
  <1>2. HandleEvent(c, e) = IF r.open /\ e.writable
                              THEN flush_connection(r.conn, data_frame) ELSE r
    BY DEF HandleEvent
  <1> HIDE DEF r
  <1> QED
    BY <1>1, <1>2, FlushKeepsGood

(* The shared frame may be encoded again under a connection that does not  *)
(* write it.                                                               *)
LEMMA DataMayChange ==
  ASSUME NEW c, NEW data, NEW fresh, Good(c, data), c.pending # "Data"
  PROVE  Good(c, fresh)
  BY DEF Good, InMode, Whole, Contents

(* The start of a data frame on a streaming connection without another.    *)
LEMMA StartKeepsGood ==
  ASSUME NEW c, NEW data, NEW fresh, Good(c, data), c.streaming, ~is_pending(c),
         StartData(c, fresh).open
  PROVE  Good(StartData(c, fresh).conn, fresh)
  <1> DEFINE d == [c EXCEPT !.pending = "Data", !.offset = 0]
  <1>0. c.pending = "None" /\ c.offset = 0 /\ c.seen = [i \in 1..0 |-> Contents(c.pending, data)]
    BY DEF Good, Whole, is_pending
  <1>1. /\ IsConnection(d)
        /\ d.pending = "Data" /\ d.offset = 0 /\ d.seen = c.seen
        /\ d.streaming = c.streaming /\ d.close_after_flush = c.close_after_flush
    BY DEF Good, IsConnection, Fields
  <1>2. StartData(c, fresh) = flush_connection(reregister_connection(d, TRUE), fresh)
    BY DEF StartData
  <1> HIDE DEF d
  <1>3. Good(d, fresh)
    BY <1>0, <1>1, Runs DEF Good, InMode, Whole, is_pending
  <1>4. Good(reregister_connection(d, TRUE), fresh)
    BY <1>1, <1>3, Reregister, SameFrameIsGood
  <1> QED
    BY <1>2, <1>4, FlushKeepsGood

(* A fresh connection.                                                     *)
LEMMA NewIsGood ==
  ASSUME NEW id, NEW data PROVE Good(NewConnection(id), data)
  <1>1. IsConnection(NewConnection(id))
    BY InstanceAssumption DEF NewConnection, IsConnection, Fields
  <1>2. InMode(NewConnection(id)) /\ Whole(NewConnection(id), data)
    BY Runs DEF NewConnection, InMode, Whole, is_pending
  <1> QED
    BY <1>1, <1>2 DEF Good

-----------------------------------------------------------------------------
(* The inductive invariant.                                                *)
CInv == \A s \in DOMAIN connections : Good(connections[s], data_frame)

(* Dropping slots leaves the rest as they were.                            *)
LEMMA Kept ==
  ASSUME NEW map, NEW keys
  PROVE  /\ DOMAIN Without(map, keys) = DOMAIN map \ keys
         /\ \A s \in DOMAIN map \ keys : Without(map, keys)[s] = map[s]
  BY DEF Without, Restrict

(* A tick: what stays open either starts the new frame or does not write   *)
(* the shared one.                                                         *)
LEMMA EmitKeepsCInv ==
  ASSUME CInv, NEW plan \in FramePlans, emit_data(plan)
  PROVE  CInv'
  <1> DEFINE gone == Targeted(plan.disconnect_pdc_connection_ids) \cup SlowSlots
             rest == Without(connections, gone)
             streaming == {s \in DOMAIN rest : rest[s].streaming}
             fresh == Reencoded(data_frame)
             sent == [s \in streaming |-> StartData(rest[s], fresh)]
             lost == {s \in streaming : ~sent[s].open}
  <1>1. /\ DOMAIN rest = DOMAIN connections \ gone
        /\ \A s \in DOMAIN rest : rest[s] = connections[s]
    <2> HIDE DEF gone
    <2>1. DOMAIN rest = DOMAIN connections \ gone
      BY Kept
    <2>2. \A s \in DOMAIN connections \ gone : rest[s] = connections[s]
      BY Kept
    <2> QED
      BY <2>1, <2>2
  <1>2. \A s \in DOMAIN rest : Good(rest[s], data_frame)
    BY <1>1 DEF CInv
  <1>3. \A s \in streaming : ~is_pending(rest[s])
    BY <1>1, SMTT(40) DEF SlowSlots, IsSlow
  <1>4. \/ connections' = rest /\ UNCHANGED data_frame
        \/ /\ connections' = [s \in DOMAIN rest \ lost |->
                                IF s \in streaming THEN sent[s].conn ELSE rest[s]]
           /\ data_frame' = fresh
    BY DEF emit_data
  <1> HIDE DEF rest, fresh
  <1>5. CASE connections' = rest /\ UNCHANGED data_frame
    BY <1>2, <1>5 DEF CInv
  <1>6. CASE /\ connections' = [s \in DOMAIN rest \ lost |->
                                  IF s \in streaming THEN sent[s].conn ELSE rest[s]]
             /\ data_frame' = fresh
    <2> SUFFICES ASSUME NEW s \in DOMAIN rest \ lost
                 PROVE  Good(connections'[s], fresh)
      BY <1>6 DEF CInv
    <2>1. CASE s \in streaming
      <3>1. connections'[s] = StartData(rest[s], fresh).conn /\ StartData(rest[s], fresh).open
        BY <1>6, <2>1
      <3> QED
        BY <1>2, <1>3, <2>1, <3>1, StartKeepsGood
    <2>2. CASE s \notin streaming
      <3>1. connections'[s] = rest[s] /\ ~rest[s].streaming
        BY <1>6, <2>2
      <3>2. rest[s].pending # "Data"
        BY <1>2, <3>1 DEF Good, InMode
      <3> QED
        BY <1>2, <3>1, <3>2, DataMayChange
    <2> QED
      BY <2>1, <2>2
  <1> QED
    BY <1>4, <1>5, <1>6

(* A step that gives each connection that stays, or comes, a frame as good *)
(* as the one it had.                                                      *)
LEMMA StepKeepsCInv ==
  ASSUME CInv, UNCHANGED data_frame,
         \A s \in DOMAIN connections' :
           \/ Good(connections'[s], data_frame)
           \/ /\ s \in DOMAIN connections
              /\ IsConnection(connections'[s])
              /\ SameFrame(connections[s], connections'[s])
  PROVE  CInv'
  BY SameFrameIsGood, SMTT(40) DEF CInv

(* Peers and time touch neither the frame nor the mode of a connection,    *)
(* except for the room in its socket.                                      *)
LEMMA PeersKeepCInv ==
  ASSUME CInv, Peer \/ Elapse
  PROVE  CInv'
  <1>1. CASE Connect
    BY <1>1 DEF Connect, CInv
  <1>2. CASE Elapse
    <2>1. \A s \in DOMAIN connections :
            /\ IsConnection(connections'[s])
            /\ SameFrame(connections[s], connections'[s])
      BY <1>2 DEF Elapse, CInv, Good, IsConnection, Fields, SameFrame
    <2>2. DOMAIN connections' = DOMAIN connections /\ UNCHANGED data_frame
      BY <1>2 DEF Elapse
    <2> QED
      BY <2>1, <2>2, StepKeepsCInv
  <1>3. ASSUME NEW s \in DOMAIN connections, NEW d, PeerStep(s, d), Good(d, data_frame)
        PROVE  CInv'
    BY <1>3 DEF PeerStep, CInv
  <1>4. ASSUME NEW s \in DOMAIN connections, NEW command, PeerSends(s, command)
        PROVE  CInv'
    <2> DEFINE d == [connections[s] EXCEPT !.inbox = Append(@, command), !.armed = TRUE]
    <2>1. IsConnection(d) /\ SameFrame(connections[s], d)
      BY DEF CInv, Good, IsConnection, Fields, SameFrame
    <2>2. PeerStep(s, d)
      BY <1>4 DEF PeerSends
    <2> HIDE DEF d
    <2>3. Good(d, data_frame)
      BY <2>1, SameFrameIsGood DEF CInv
    <2> QED
      BY <1>3, <2>2, <2>3
  <1>5. ASSUME NEW s \in DOMAIN connections, NEW state,
               PeerStep(s, [connections[s] EXCEPT !.peer = state, !.armed = TRUE])
        PROVE  CInv'
    <2> DEFINE d == [connections[s] EXCEPT !.peer = state, !.armed = TRUE]
    <2>1. Good(d, data_frame)
      BY DEF CInv, Good, IsConnection, Fields, InMode, Whole, is_pending
    <2> QED
      BY <1>3, <1>5, <2>1
  <1>6. ASSUME NEW s \in DOMAIN connections, PeerDrains(s)
        PROVE  CInv'
    <2> DEFINE d == [connections[s] EXCEPT !.room = @ + 1,
                                           !.armed = @ \/ connections[s].write_interest]
    <2>1. Good(d, data_frame)
      BY DEF CInv, Good, IsConnection, Fields, InMode, Whole, is_pending
    <2> QED
      BY <1>3, <1>6, <2>1 DEF PeerDrains
  <1> QED
    BY <1>1, <1>2, <1>4, <1>5, <1>6 DEF Peer, PeerShuts, PeerResets

(* The event loop up to the tick.                                          *)
LEMMA LoopKeepsCInv ==
  ASSUME CInv, \/ Poll
               \/ accept_connections
               \/ \E e \in events : dispatch_event(e)
               \/ expire_connections
               \/ NoTick
  PROVE  CInv'
  <1>0. ASSUME NEW keys, connections' = Without(connections, keys), UNCHANGED data_frame
        PROVE  CInv'
    <2>1. /\ DOMAIN connections' = DOMAIN connections \ keys
          /\ \A s \in DOMAIN connections \ keys : connections'[s] = connections[s]
      BY <1>0, Kept
    <2> QED
      BY <1>0, <2>1 DEF CInv
  <1>1. CASE Poll
    <2>1. \A s \in DOMAIN connections :
            /\ IsConnection(connections'[s])
            /\ SameFrame(connections[s], connections'[s])
      BY <1>1 DEF Poll, CInv, Good, IsConnection, Fields, SameFrame
    <2>2. DOMAIN connections' = DOMAIN connections /\ UNCHANGED data_frame
      BY <1>1 DEF Poll
    <2> QED
      BY <2>1, <2>2, StepKeepsCInv
  <1>2. CASE accept_connections
    <2>1. CASE UNCHANGED <<connections, data_frame>>
      BY <2>1 DEF CInv
    <2>2. CASE AdmitConnection /\ UNCHANGED data_frame
      BY <2>2, NewIsGood DEF AdmitConnection, With, CInv
    <2> QED
      BY <1>2, <2>1, <2>2 DEF accept_connections, RejectConnection
  <1>3. ASSUME NEW e \in events, dispatch_event(e)
        PROVE  CInv'
    <2>0. UNCHANGED data_frame
      BY <1>3 DEF dispatch_event
    <2>1. CASE UNCHANGED connections
      BY <2>0, <2>1 DEF CInv
    <2>2. CASE IsCurrent(e) /\ Settle(e.slot, HandleEvent(connections[e.slot], e))
      <3> DEFINE o == HandleEvent(connections[e.slot], e)
      <3>1. Good(connections[e.slot], data_frame)
        BY <2>2 DEF IsCurrent, CInv
      <3>2. CASE o.open
        <4>1. Good(o.conn, data_frame)
          BY <3>1, <3>2, EventKeepsGood
        <4>2. connections' = [connections EXCEPT ![e.slot] = o.conn]
          BY <2>2, <3>2 DEF Settle
        <4> QED
          BY <2>0, <4>1, <4>2 DEF CInv
      <3>3. CASE ~o.open
        <4>1. connections' = Without(connections, {e.slot})
          BY <2>2, <3>3 DEF Settle
        <4> QED
          BY <1>0, <2>0, <4>1
      <3> QED
        BY <3>2, <3>3
    <2> QED
      BY <1>3, <2>1, <2>2 DEF dispatch_event
  <1>4. CASE expire_connections
    BY <1>4, <1>0 DEF expire_connections
  <1>5. CASE NoTick
    BY <1>5 DEF NoTick, CInv
  <1> QED
    BY <1>1, <1>2, <1>3, <1>4, <1>5

(* Every connection of every reachable state is good.                      *)
LEMMA SpecCInv == Spec => []CInv
  <1>1. Init => CInv
    BY DEF Init, CInv
  <1>2. CInv /\ [Next]_vars => CInv'
    <2> SUFFICES ASSUME CInv, [Next]_vars PROVE CInv'
      OBVIOUS
    <2>1. CASE UNCHANGED vars
      BY <2>1 DEF vars, CInv
    <2>2. CASE Next
      BY <2>2, LoopKeepsCInv, EmitKeepsCInv, PeersKeepCInv DEF Next, Server
    <2> QED
      BY <2>1, <2>2
  <1> QED
    BY <1>1, <1>2, PTL DEF Spec

(* Whatever order commands, ticks and partial writes come in, an           *)
(* unfinished data frame belongs to a streaming connection and an error    *)
(* response to one that is about to be closed.                             *)
THEOREM QueuedFramesMatch == Spec => []QueuedFrameMatchesMode
  <1>1. CInv => QueuedFrameMatchesMode
    BY DEF CInv, Good, InMode, QueuedFrameMatchesMode
  <1> QED
    BY <1>1, SpecCInv, PTL

(* No peer receives the beginning of one frame and the end of another,     *)
(* although the data frame is shared by the slots and encoded again at     *)
(* every tick: for every frame length and every size of the socket.        *)
THEOREM FramesAreNeverTorn == Spec => []FramesAreWhole
  <1>1. CInv => FramesAreWhole
    BY DEF CInv, Good, Whole, FramesAreWhole
  <1> QED
    BY <1>1, SpecCInv, PTL

-----------------------------------------------------------------------------
(* Why a connection is closed.                                             *)

(* A set of natural numbers has a least element.                           *)
LEMMA LeastExists ==
  ASSUME NEW T \in SUBSET Nat, T # {}
  PROVE  \E i \in T : \A j \in T : i <= j
<1>1. PICK i \in T : \A j \in T : ~(<<j, i>> \in OpToRel(<, Nat))
  BY NatLessThanWellFounded, WFMin, Zenon
<1>2. \A j \in T : ~(j < i)
  BY <1>1 DEF OpToRel
<1> QED
  BY <1>2

(* What a connection may be closed for by the loop, short of a deadline, a *)
(* tick or a scenario.                                                     *)
Spoilt(commands) == \E i \in DOMAIN commands : commands[i] \in Rejected

Faulty(c) ==
  \/ c.peer # "open"
  \/ c.close_after_flush
  \/ Spoilt(c.buffer)
  \/ Spoilt(c.inbox)

Sound(c) ==
  /\ DOMAIN c = Fields
  /\ c.buffer \in Seq(AllCommands)
  /\ c.inbox \in Seq(AllCommands)
  /\ Len(c.buffer) <= COMMAND_LIMIT

(* What handling does to a connection: it stays the same connection, and   *)
(* gets no fault that it had not.                                          *)
Stays(c, d) ==
  /\ Sound(d)
  /\ d.connection_id = c.connection_id
  /\ Faulty(d) => Faulty(c)

LEMMA Stretch ==
  ASSUME NEW commands \in Seq(AllCommands), NEW m \in Nat \ {0}, NEW n \in 0..Len(commands)
  PROVE  /\ SubSeq(commands, m, n) \in Seq(AllCommands)
         /\ Spoilt(SubSeq(commands, m, n)) => Spoilt(commands)
         /\ Len(SubSeq(commands, m, n)) <= Len(commands)
  BY DEF Spoilt

LEMMA Joined ==
  ASSUME NEW front \in Seq(AllCommands), NEW back \in Seq(AllCommands)
  PROVE  /\ front \o back \in Seq(AllCommands)
         /\ Spoilt(front \o back) <=> Spoilt(front) \/ Spoilt(back)
<1>1. front \o back \in Seq(AllCommands)
  OBVIOUS
<1>2. Spoilt(front \o back) => Spoilt(front) \/ Spoilt(back)
  BY DEF Spoilt
<1>3. ASSUME Spoilt(front) PROVE Spoilt(front \o back)
  <2>1. PICK i \in 1..Len(front) : front[i] \in Rejected
    BY <1>3 DEF Spoilt
  <2>2. i \in DOMAIN (front \o back) /\ (front \o back)[i] = front[i]
    BY <2>1
  <2> QED
    BY <2>1, <2>2 DEF Spoilt
<1>4. ASSUME Spoilt(back) PROVE Spoilt(front \o back)
  <2>1. PICK i \in 1..Len(back) : back[i] \in Rejected
    BY <1>4 DEF Spoilt
  <2>2. Len(front) + i \in DOMAIN (front \o back) /\ (front \o back)[Len(front) + i] = back[i]
    BY <2>1
  <2> QED
    BY <2>1, <2>2 DEF Spoilt
<1> QED
  BY <1>1, <1>2, <1>3, <1>4

(* The same connection as far as closing is concerned.                     *)
Alike(c, d) ==
  /\ DOMAIN d = Fields
  /\ d.buffer = c.buffer
  /\ d.inbox = c.inbox
  /\ d.connection_id = c.connection_id
  /\ d.peer = c.peer
  /\ d.close_after_flush = c.close_after_flush

LEMMA AlikeStays ==
  ASSUME NEW c, NEW d, Sound(c), Alike(c, d)
  PROVE  Stays(c, d)
  BY DEF Alike, Stays, Sound, Faulty

LEMMA RegisteredAlike ==
  ASSUME NEW c, NEW d, NEW w, Alike(c, d)
  PROVE  Alike(c, reregister_connection(d, w))
  BY DEF Alike, Fields, reregister_connection

(* A switch changes the stream, not the connection.                        *)
LEMMA SwitchedStays ==
  ASSUME NEW c, NEW switches, Sound(c)
  PROVE  Alike(c, ApplySwitches(c, switches))
<1>1. CASE switches = <<>>
  BY <1>1 DEF ApplySwitches, Sound, Alike
<1>2. CASE switches # <<>>
  <2> DEFINE e == [record_valid_command(c) EXCEPT
                     !.streaming = (switches[Len(switches)] = "Start")]
  <2>1. Alike(c, e)
    BY DEF Alike, Sound, Fields, record_valid_command
  <2>2. ApplySwitches(c, switches) = reregister_connection(e, FALSE)
    BY <1>2 DEF ApplySwitches
  <2> HIDE DEF e
  <2> QED
    BY <2>1, <2>2, RegisteredAlike
<1> QED
  BY <1>1, <1>2

(* Queueing a response keeps everything that matters here.                 *)
LEMMA QueuedStays ==
  ASSUME NEW c, Sound(c)
  PROVE  /\ Stays(c, queue_response(c))
         /\ Sound(queue_error_response(c))
         /\ queue_error_response(c).connection_id = c.connection_id
<1>1. Stays(c, queue_response(c))
  <2> DEFINE d == [record_valid_command(c) EXCEPT !.pending = "Response", !.offset = 0]
  <2>1. Alike(c, d)
    BY DEF Alike, Sound, Fields, record_valid_command
  <2>2. queue_response(c) = reregister_connection(d, TRUE)
    BY DEF queue_response
  <2> HIDE DEF d
  <2> QED
    BY <2>1, <2>2, RegisteredAlike, AlikeStays
<1>2. /\ Sound(queue_error_response(c))
      /\ queue_error_response(c).connection_id = c.connection_id
  <2> DEFINE d == [c EXCEPT !.pending = "Error", !.offset = 0, !.streaming = FALSE,
                            !.close_after_flush = TRUE]
  <2>1. /\ DOMAIN d = Fields /\ d.buffer = c.buffer /\ d.inbox = c.inbox
        /\ d.connection_id = c.connection_id
    BY DEF Sound, Fields
  <2>2. queue_error_response(c) = reregister_connection(d, TRUE)
    BY DEF queue_error_response
  <2> HIDE DEF d
  <2>3. Alike(d, d)
    BY <2>1 DEF Alike
  <2>4. Alike(d, reregister_connection(d, TRUE))
    BY <2>3, RegisteredAlike
  <2> QED
    BY <2>1, <2>2, <2>4 DEF Alike, Sound
<1> QED
  BY <1>1, <1>2

(* Handling commands: only a rejected one closes the connection, or marks  *)
(* it to be closed.                                                        *)
LEMMA ProcessedStays ==
  ASSUME NEW c, Sound(c)
  PROVE  /\ Stays(c, process_buffered_commands(c).conn)
         /\ process_buffered_commands(c).open \in BOOLEAN
         /\ ~process_buffered_commands(c).open => Faulty(c)
<1>1. CASE MustWait(c)
  BY <1>1 DEF process_buffered_commands, Open, Stays
<1>2. CASE ~MustWait(c)
  <2> DEFINE n == Len(c.buffer)
             stop(i) == /\ \A j \in 1..(i - 1) : c.buffer[j] \in Switches
                        /\ i <= n => c.buffer[i] \notin Switches
             k == CHOOSE i \in 1..(n + 1) : stop(i)
             a == ApplySwitches(c, SubSeq(c.buffer, 1, k - 1))
             d == [a EXCEPT !.buffer = SubSeq(c.buffer, k + 1, n)]
             p == process_buffered_commands(c)
  <2>1. n \in Nat /\ c.buffer \in Seq(AllCommands)
    BY DEF Sound
  <2>2. k \in 1..(n + 1) /\ stop(k)
    <3>1. \E i \in 1..(n + 1) : stop(i)
      <4> DEFINE T == {j \in 1..n : c.buffer[j] \notin Switches}
      <4>1. CASE T = {}
        <5>1. n + 1 \in 1..(n + 1) /\ stop(n + 1)
          BY <2>1, <4>1
        <5> QED
          BY <5>1
      <4>2. CASE T # {}
        <5>1. T \in SUBSET Nat
          BY <2>1
        <5>2. PICK i \in T : \A j \in T : i <= j
          BY <4>2, <5>1, LeastExists
        <5>3. i \in 1..(n + 1) /\ stop(i)
          BY <2>1, <5>2
        <5> QED
          BY <5>3
      <4> QED
        BY <4>1, <4>2
    <3> QED
      BY <3>1
  <2>3. p = IF k = n + 1 THEN Open(d)
            ELSE IF c.buffer[k] = "Request" THEN Open(queue_response(d))
            ELSE IF WireVersion = "V3" THEN Open(queue_error_response(d))
            ELSE Closing(d)
    BY <1>2 DEF process_buffered_commands
  <2>4. /\ DOMAIN a = Fields /\ a.inbox = c.inbox /\ a.peer = c.peer
        /\ a.connection_id = c.connection_id /\ a.close_after_flush = c.close_after_flush
    BY SwitchedStays DEF Alike
  <2> HIDE DEF k, n, a
  <2>5. /\ SubSeq(c.buffer, k + 1, n) \in Seq(AllCommands)
        /\ Spoilt(SubSeq(c.buffer, k + 1, n)) => Spoilt(c.buffer)
        /\ Len(SubSeq(c.buffer, k + 1, n)) <= COMMAND_LIMIT
    BY <2>1, <2>2, Stretch, InstanceAssumption DEF n, Sound
  <2>6. /\ DOMAIN d = Fields /\ d.buffer = SubSeq(c.buffer, k + 1, n)
        /\ d.inbox = c.inbox /\ d.peer = c.peer
        /\ d.connection_id = c.connection_id /\ d.close_after_flush = c.close_after_flush
    BY <2>4 DEF Fields
  <2> HIDE DEF d, p
  <2>7. Stays(c, d)
    BY <2>5, <2>6 DEF Stays, Sound, Faulty
  <2>8. CASE k = n + 1
    BY <2>3, <2>7, <2>8 DEF Open, p
  <2>9. CASE k # n + 1 /\ c.buffer[k] = "Request"
    <3>1. p = Open(queue_response(d))
      BY <2>3, <2>9
    <3>2. Stays(d, queue_response(d))
      BY <2>7, QueuedStays DEF Stays
    <3> QED
      BY <2>7, <3>1, <3>2 DEF Open, Stays, p
  <2>10. CASE k # n + 1 /\ c.buffer[k] # "Request"
    <3>1. k \in 1..n /\ c.buffer[k] \in AllCommands /\ c.buffer[k] \notin Switches
      BY <2>1, <2>2, <2>10 DEF n
    <3>2. c.buffer[k] \in Rejected
      BY <2>10, <3>1 DEF AllCommands
    <3>3. Faulty(c)
      BY <2>1, <3>1, <3>2 DEF Faulty, Spoilt, n
    <3>4. p = Open(queue_error_response(d)) \/ p = Closing(d)
      BY <2>3, <2>10
    <3>5. /\ Sound(queue_error_response(d))
          /\ queue_error_response(d).connection_id = d.connection_id
      BY <2>7, QueuedStays DEF Stays
    <3>6. CASE p = Open(queue_error_response(d))
      <4>1. p.conn = queue_error_response(d) /\ p.open = TRUE
        BY <3>6 DEF Open
      <4>2. Stays(c, p.conn)
        BY <2>7, <3>3, <3>5, <4>1 DEF Stays
      <4> QED
        BY <4>1, <4>2 DEF p
    <3>7. CASE p = Closing(d)
      BY <2>7, <3>3, <3>7 DEF Closing, p
    <3> QED
      BY <3>4, <3>6, <3>7
  <2> QED
    BY <2>8, <2>9, <2>10
<1> QED
  BY <1>1, <1>2

(* Reading: a connection is closed because its peer is gone, or for what   *)
(* it sent.                                                                *)
LEMMA ReadStays ==
  ASSUME NEW c, Sound(c)
  PROVE  /\ Stays(c, read_connection(c).conn)
         /\ ~read_connection(c).open => Faulty(c)
<1>1. CASE c.close_after_flush
  BY <1>1 DEF read_connection, Open, Stays
<1>2. CASE ~c.close_after_flush
  <2> DEFINE space == COMMAND_LIMIT - Len(c.buffer)
             taken == IF Len(c.inbox) < space THEN Len(c.inbox) ELSE space
             d == [c EXCEPT !.buffer = @ \o SubSeq(c.inbox, 1, taken),
                            !.inbox = SubSeq(@, taken + 1, Len(@))]
             met_end == MeetsEnd(c, d.buffer)
             p == process_buffered_commands(d)
             r == read_connection(c)
  <2>1. r = IF met_end /\ (c.peer = "reset" \/ d.buffer = <<>>) THEN Closing(d)
            ELSE IF met_end
              THEN [p EXCEPT !.open = @ /\ p.conn.close_after_flush /\ is_pending(p.conn)]
              ELSE p
    BY <1>2 DEF read_connection
  <2>2. met_end => c.peer # "open"
    BY DEF MeetsEnd
  <2>3. Stays(c, d)
    <3>1. /\ c.buffer \in Seq(AllCommands) /\ c.inbox \in Seq(AllCommands)
          /\ COMMAND_LIMIT \in Nat /\ Len(c.buffer) <= COMMAND_LIMIT
      BY InstanceAssumption DEF Sound
    <3> DEFINE front == SubSeq(c.inbox, 1, taken)
               back == SubSeq(c.inbox, taken + 1, Len(c.inbox))
    <3>2. /\ front \in Seq(AllCommands) /\ back \in Seq(AllCommands)
          /\ Spoilt(front) \/ Spoilt(back) => Spoilt(c.inbox)
          /\ Len(c.buffer \o front) <= COMMAND_LIMIT
      <4>1. Len(c.inbox) \in Nat /\ Len(c.buffer) \in Nat
        BY <3>1
      <4>2. /\ taken \in 0..Len(c.inbox) /\ 1 \in Nat \ {0} /\ taken + 1 \in Nat \ {0}
            /\ Len(c.buffer) + taken <= COMMAND_LIMIT
        <5>1. COMMAND_LIMIT \in Nat /\ Len(c.buffer) <= COMMAND_LIMIT
          BY <3>1
        <5>2. space \in Nat /\ Len(c.buffer) + space = COMMAND_LIMIT
          BY <4>1, <5>1
        <5> HIDE DEF space
        <5>3. taken \in Nat /\ taken <= Len(c.inbox) /\ taken <= space
          BY <4>1, <5>2
        <5> HIDE DEF taken
        <5> QED
          BY <4>1, <5>1, <5>2, <5>3
      <4> HIDE DEF taken
      <4>3. /\ front \in Seq(AllCommands) /\ back \in Seq(AllCommands)
            /\ Spoilt(front) \/ Spoilt(back) => Spoilt(c.inbox)
        BY <3>1, <4>1, <4>2, Stretch
      <4>4. Len(front) = taken
        BY <3>1, <4>1, <4>2
      <4> HIDE DEF front, back
      <4>5. Len(c.buffer \o front) = Len(c.buffer) + Len(front)
        BY <3>1, <4>3
      <4> QED
        BY <4>2, <4>3, <4>4, <4>5
    <3>3. /\ d.buffer = c.buffer \o front /\ d.inbox = back
          /\ DOMAIN d = Fields /\ d.connection_id = c.connection_id
          /\ d.peer = c.peer /\ d.close_after_flush = c.close_after_flush
      <4> HIDE DEF taken
      <4> QED
        BY DEF Sound, Fields
    <3> HIDE DEF front, back, d
    <3>4. Sound(d)
      BY <3>1, <3>2, <3>3, Joined DEF Sound
    <3>5. Faulty(d) => Faulty(c)
      BY <3>1, <3>2, <3>3, Joined DEF Faulty
    <3> QED
      BY <3>3, <3>4, <3>5 DEF Stays
  <2> HIDE DEF d, met_end
  <2>4. /\ Stays(c, p.conn)
        /\ p.open \in BOOLEAN
        /\ ~p.open => Faulty(c)
    BY <2>3, ProcessedStays DEF Stays
  <2>5. \E o : p = [conn |-> p.conn, open |-> o]
    BY DEF process_buffered_commands, Open, Closing
  <2> HIDE DEF p, r
  <2>6. CASE met_end
    <3>1. Faulty(c)
      BY <2>2, <2>6 DEF Faulty
    <3>2. r.conn = d \/ r.conn = p.conn
      BY <2>1, <2>5, <2>6 DEF Closing
    <3> QED
      BY <2>3, <2>4, <3>1, <3>2 DEF r
  <2>7. CASE ~met_end
    BY <2>1, <2>4, <2>7 DEF r
  <2> QED
    BY <2>6, <2>7
<1> QED
  BY <1>1, <1>2

(* The end of a frame.                                                     *)
LEMMA FinishStays ==
  ASSUME NEW c, Sound(c)
  PROVE  /\ Stays(c, FinishFrame(c).conn)
         /\ ~FinishFrame(c).open => Faulty(c)
<1> DEFINE next == process_buffered_commands(c)
<1>1. FinishFrame(c) =
        IF c.close_after_flush THEN Closing(c)
        ELSE IF next.open /\ ~is_pending(next.conn)
          THEN Open(reregister_connection(next.conn, FALSE))
          ELSE next
  BY DEF FinishFrame
<1>2. /\ Stays(c, next.conn)
      /\ next.open \in BOOLEAN
      /\ ~next.open => Faulty(c)
  BY ProcessedStays
<1> HIDE DEF next
<1>3. Stays(c, reregister_connection(next.conn, FALSE))
  <2>1. Alike(next.conn, next.conn)
    BY <1>2 DEF Alike, Stays, Sound
  <2>2. Stays(next.conn, reregister_connection(next.conn, FALSE))
    BY <1>2, <2>1, RegisteredAlike, AlikeStays DEF Stays
  <2> QED
    BY <1>2, <2>2 DEF Stays
<1>4. CASE c.close_after_flush
  <2>1. FinishFrame(c) = [conn |-> c, open |-> FALSE]
    BY <1>1, <1>4 DEF Closing
  <2> QED
    BY <1>4, <2>1 DEF Stays, Faulty
<1>5. CASE ~c.close_after_flush /\ next.open /\ ~is_pending(next.conn)
  <2>1. FinishFrame(c) = Open(reregister_connection(next.conn, FALSE))
    BY <1>1, <1>5
  <2>2. /\ FinishFrame(c).conn = reregister_connection(next.conn, FALSE)
        /\ FinishFrame(c).open = TRUE
    BY <2>1 DEF Open
  <2> QED
    BY <1>3, <2>2
<1>6. CASE ~c.close_after_flush /\ ~(next.open /\ ~is_pending(next.conn))
  BY <1>1, <1>2, <1>6
<1> QED
  BY <1>4, <1>5, <1>6

(* Flushing closes a connection that was reset, or whose last frame ended. *)
LEMMA FlushStays ==
  ASSUME NEW c, NEW data, Sound(c)
  PROVE  /\ Stays(c, flush_connection(c, data).conn)
         /\ ~flush_connection(c, data).open => Faulty(c)
<1> DEFINE written == IF c.room < FRAME - c.offset THEN c.room ELSE FRAME - c.offset
           d == [c EXCEPT !.room = @ - written]
           more == [d EXCEPT !.offset = @ + written,
                             !.seen = @ \o [i \in 1..written |-> Contents(c.pending, data)]]
           done == [d EXCEPT !.pending = "None", !.offset = 0, !.seen = <<>>]
           f == flush_connection(c, data)
<1>1. f = IF ~is_pending(c) THEN Open(c)
          ELSE IF c.peer = "reset" THEN Closing(c)
          ELSE IF c.room = 0 THEN Open(reregister_connection(c, TRUE))
          ELSE IF c.offset + written < FRAME THEN Open(reregister_connection(more, TRUE))
          ELSE FinishFrame(done)
  BY DEF flush_connection
<1>2. Alike(c, c) /\ Alike(c, more) /\ Alike(c, done)
  <2> HIDE DEF written
  <2> QED
    BY DEF Sound, Alike, Fields
<1> HIDE DEF written, more, done
<1>3. /\ Stays(c, c)
      /\ Stays(c, reregister_connection(c, TRUE))
      /\ Stays(c, reregister_connection(more, TRUE))
  BY <1>2, RegisteredAlike, AlikeStays
<1>4. /\ Stays(c, FinishFrame(done).conn)
      /\ ~FinishFrame(done).open => Faulty(c)
  <2>1. Stays(c, done)
    BY <1>2, AlikeStays
  <2> QED
    BY <2>1, FinishStays DEF Stays
<1> HIDE DEF f
<1>5. ASSUME NEW x, f = Open(x), Stays(c, x) PROVE Stays(c, f.conn) /\ f.open
  BY <1>5 DEF Open
<1>6. CASE is_pending(c) /\ c.peer = "reset"
  <2>1. f = [conn |-> c, open |-> FALSE]
    BY <1>1, <1>6 DEF Closing
  <2> QED
    BY <1>3, <1>6, <2>1 DEF f, Faulty
<1>7. CASE ~(is_pending(c) /\ c.peer = "reset")
  BY <1>1, <1>3, <1>4, <1>5, <1>7 DEF f
<1> QED
  BY <1>6, <1>7

LEMMA EventStays ==
  ASSUME NEW c, NEW e, Sound(c)
  PROVE  /\ Stays(c, HandleEvent(c, e).conn)
         /\ ~HandleEvent(c, e).open => Faulty(c)
<1> DEFINE r == IF e.readable THEN read_connection(c) ELSE Open(c)
<1>1. Stays(c, r.conn) /\ (~r.open => Faulty(c))
  <2>1. CASE e.readable
    BY <2>1, ReadStays
  <2>2. CASE ~e.readable
    <3>1. r = [conn |-> c, open |-> TRUE]
      BY <2>2 DEF Open
    <3> QED
      BY <3>1 DEF Stays
  <2> QED
    BY <2>1, <2>2
<1>2. HandleEvent(c, e) = IF r.open /\ e.writable
                            THEN flush_connection(r.conn, data_frame) ELSE r
  BY DEF HandleEvent
<1> HIDE DEF r
<1>3. /\ Stays(r.conn, flush_connection(r.conn, data_frame).conn)
      /\ ~flush_connection(r.conn, data_frame).open => Faulty(r.conn)
  BY <1>1, FlushStays DEF Stays
<1> QED
  BY <1>1, <1>2, <1>3 DEF Stays

LEMMA StartStays ==
  ASSUME NEW c, NEW data, Sound(c)
  PROVE  /\ Stays(c, StartData(c, data).conn)
         /\ ~StartData(c, data).open => Faulty(c)
<1> DEFINE d == [c EXCEPT !.pending = "Data", !.offset = 0]
           e == reregister_connection(d, TRUE)
<1>1. Alike(c, d)
  BY DEF Sound, Alike, Fields
<1>2. StartData(c, data) = flush_connection(e, data)
  BY DEF StartData
<1> HIDE DEF d
<1>3. Stays(c, e)
  BY <1>1, RegisteredAlike, AlikeStays
<1> HIDE DEF e
<1>4. /\ Stays(e, flush_connection(e, data).conn)
      /\ ~flush_connection(e, data).open => Faulty(e)
  BY <1>3, FlushStays DEF Stays
<1> QED
  BY <1>2, <1>3, <1>4 DEF Stays

-----------------------------------------------------------------------------
(* The commands of every connection are sequences that fit their buffer.   *)
SoundInv == \A s \in DOMAIN connections : Sound(connections[s])

LEMMA NewIsSound == ASSUME NEW id PROVE Sound(NewConnection(id))
  BY InstanceAssumption DEF NewConnection, Sound, Fields

(* A connection that went was handled or dropped: for its own fault, and   *)
(* the others stay.                                                        *)
Accounted ==
  /\ \A s \in DOMAIN connections : StillThere(s) \/ HasOwnFault(connections[s])
  /\ SoundInv'

LEMMA FaultIsOwn ==
  ASSUME NEW c, Sound(c), Faulty(c)
  PROVE  HasOwnFault(c)
<1>1. ASSUME Spoilt(c.buffer) \/ Spoilt(c.inbox)
      PROVE  \E i \in 1..Len(c.buffer \o c.inbox) : (c.buffer \o c.inbox)[i] \in Rejected
  <2> DEFINE all == c.buffer \o c.inbox
  <2>1. all \in Seq(AllCommands) /\ Spoilt(all)
    BY <1>1, Joined DEF Sound
  <2> HIDE DEF all
  <2>2. \E i \in 1..Len(all) : all[i] \in Rejected
    BY <2>1 DEF Spoilt
  <2> QED
    BY <2>2 DEF all
<1> QED
  BY <1>1 DEF Faulty, HasOwnFault

LEMMA TickIsAccounted ==
  ASSUME SoundInv, NEW plan \in FramePlans, emit_data(plan)
  PROVE  Accounted
<1> DEFINE gone == Targeted(plan.disconnect_pdc_connection_ids) \cup SlowSlots
           rest == Without(connections, gone)
           streaming == {s \in DOMAIN rest : rest[s].streaming}
           fresh == Reencoded(data_frame)
           sent == [s \in streaming |-> StartData(rest[s], fresh)]
           lost == {s \in streaming : ~sent[s].open}
<1>1. /\ DOMAIN rest = DOMAIN connections \ gone
      /\ \A s \in DOMAIN connections \ gone : rest[s] = connections[s]
  <2> HIDE DEF gone
  <2>1. DOMAIN rest = DOMAIN connections \ gone
    BY Kept
  <2>2. \A s \in DOMAIN connections \ gone : rest[s] = connections[s]
    BY Kept
  <2> QED
    BY <2>1, <2>2
<1>2. \A s \in gone : HasOwnFault(connections[s])
  BY DEF Targeted, SlowSlots, HasOwnFault
<1>3. \/ connections' = rest
      \/ connections' = [s \in DOMAIN rest \ lost |->
                           IF s \in streaming THEN sent[s].conn ELSE rest[s]]
  BY DEF emit_data
<1> HIDE DEF rest, fresh, gone
<1>4. CASE connections' = rest
  BY <1>1, <1>2, <1>4 DEF Accounted, SoundInv, StillThere
<1>5. CASE connections' = [s \in DOMAIN rest \ lost |->
                             IF s \in streaming THEN sent[s].conn ELSE rest[s]]
  <2>1. \A s \in streaming :
          /\ Stays(rest[s], sent[s].conn)
          /\ ~sent[s].open => Faulty(rest[s])
    <3> TAKE s \in streaming
    <3>1. Sound(rest[s]) /\ sent[s] = StartData(rest[s], fresh)
      BY <1>1 DEF SoundInv
    <3> QED
      BY <3>1, StartStays
  <2>2. \A s \in lost : HasOwnFault(connections[s])
    BY <1>1, <2>1, FaultIsOwn DEF SoundInv
  <2> HIDE DEF sent, lost
  <2>3. \A s \in DOMAIN rest \ lost :
          /\ Sound(connections'[s])
          /\ connections'[s].connection_id = connections[s].connection_id
    BY <1>1, <1>5, <2>1 DEF SoundInv, Stays
  <2>4. DOMAIN connections' = DOMAIN rest \ lost
    BY <1>5
  <2> QED
    BY <1>1, <1>2, <2>2, <2>3, <2>4 DEF Accounted, SoundInv, StillThere
<1> QED
  BY <1>3, <1>4, <1>5

LEMMA LoopIsAccounted ==
  ASSUME SoundInv, \/ Poll
                   \/ accept_connections
                   \/ \E e \in events : dispatch_event(e)
                   \/ expire_connections
                   \/ NoTick
  PROVE  Accounted
<1>1. CASE UNCHANGED connections
  BY <1>1 DEF Accounted, SoundInv, StillThere
<1>2. ASSUME NEW keys, connections' = Without(connections, keys),
             \A s \in DOMAIN connections \cap keys : HasOwnFault(connections[s])
      PROVE  Accounted
  <2>1. /\ DOMAIN connections' = DOMAIN connections \ keys
        /\ \A s \in DOMAIN connections \ keys : connections'[s] = connections[s]
    BY <1>2, Kept
  <2> QED
    BY <1>2, <2>1 DEF Accounted, SoundInv, StillThere
<1>3. CASE Poll
  <2>1. /\ DOMAIN connections' = DOMAIN connections
        /\ \A s \in DOMAIN connections : Alike(connections[s], connections'[s])
    BY <1>3 DEF Poll, SoundInv, Sound, Alike, Fields
  <2>2. \A s \in DOMAIN connections : Stays(connections[s], connections'[s])
    BY <2>1, AlikeStays DEF SoundInv
  <2> QED
    BY <2>1, <2>2 DEF Accounted, SoundInv, StillThere, Stays
<1>4. CASE accept_connections
  <2>1. CASE AdmitConnection
    <3>1. PICK t \in FreeSlots :
            connections' = With(connections, t, NewConnection(next_connection_id))
      BY <2>1 DEF AdmitConnection
    <3>2. /\ DOMAIN connections' = DOMAIN connections \cup {t}
          /\ connections'[t] = NewConnection(next_connection_id)
          /\ \A s \in DOMAIN connections : connections'[s] = connections[s]
      BY <3>1 DEF With, FreeSlots
    <3> QED
      BY <3>2, NewIsSound DEF Accounted, SoundInv, StillThere
  <2> QED
    BY <1>1, <1>4, <2>1 DEF accept_connections, RejectConnection
<1>5. ASSUME NEW e \in events, dispatch_event(e)
      PROVE  Accounted
  <2>1. CASE IsCurrent(e) /\ Settle(e.slot, HandleEvent(connections[e.slot], e))
    <3> DEFINE o == HandleEvent(connections[e.slot], e)
    <3>1. /\ e.slot \in DOMAIN connections /\ Sound(connections[e.slot])
          /\ Stays(connections[e.slot], o.conn)
          /\ ~o.open => Faulty(connections[e.slot])
      BY <2>1, EventStays DEF IsCurrent, SoundInv
    <3>2. connections' = IF o.open THEN [connections EXCEPT ![e.slot] = o.conn]
                                   ELSE Without(connections, {e.slot})
      BY <2>1 DEF Settle
    <3> HIDE DEF o
    <3>3. CASE o.open
      BY <3>1, <3>2, <3>3 DEF Accounted, SoundInv, StillThere, Stays
    <3>4. CASE ~o.open
      BY <1>2, <3>1, <3>2, <3>4, FaultIsOwn
    <3> QED
      BY <3>3, <3>4
  <2> QED
    BY <1>1, <1>5, <2>1 DEF dispatch_event
<1>6. CASE expire_connections
  BY <1>2, <1>6 DEF expire_connections, Overdue, HasOwnFault
<1> QED
  BY <1>1, <1>3, <1>4, <1>5, <1>6 DEF NoTick

LEMMA PeersAreAccounted ==
  ASSUME SoundInv, Peer \/ Elapse
  PROVE  Accounted
<1>1. CASE Connect
  BY <1>1 DEF Connect, Accounted, SoundInv, StillThere
<1>2. CASE Elapse
  <2>1. /\ DOMAIN connections' = DOMAIN connections
        /\ \A s \in DOMAIN connections : Alike(connections[s], connections'[s])
    BY <1>2 DEF Elapse, SoundInv, Sound, Alike, Fields
  <2>2. \A s \in DOMAIN connections : Stays(connections[s], connections'[s])
    BY <2>1, AlikeStays DEF SoundInv
  <2> QED
    BY <2>1, <2>2 DEF Accounted, SoundInv, StillThere, Stays
<1>3. ASSUME NEW s \in DOMAIN connections, NEW d, PeerStep(s, d),
             Sound(d), d.connection_id = connections[s].connection_id
      PROVE  Accounted
  BY <1>3 DEF PeerStep, Accounted, SoundInv, StillThere
<1>4. ASSUME NEW s \in DOMAIN connections, NEW command \in Commands, PeerSends(s, command)
      PROVE  Accounted
  <2> DEFINE d == [connections[s] EXCEPT !.inbox = Append(@, command), !.armed = TRUE]
  <2>1. Append(connections[s].inbox, command) \in Seq(AllCommands)
    BY InstanceAssumption DEF SoundInv, Sound
  <2>2. Sound(d) /\ d.connection_id = connections[s].connection_id
    BY <2>1 DEF SoundInv, Sound, Fields
  <2> QED
    BY <1>3, <1>4, <2>2 DEF PeerSends
<1>5. ASSUME NEW s \in DOMAIN connections, NEW state,
             PeerStep(s, [connections[s] EXCEPT !.peer = state, !.armed = TRUE])
      PROVE  Accounted
  <2> DEFINE d == [connections[s] EXCEPT !.peer = state, !.armed = TRUE]
  <2>1. Sound(d) /\ d.connection_id = connections[s].connection_id
    BY DEF SoundInv, Sound, Fields
  <2> QED
    BY <1>3, <1>5, <2>1
<1>6. ASSUME NEW s \in DOMAIN connections, PeerDrains(s)
      PROVE  Accounted
  <2> DEFINE d == [connections[s] EXCEPT !.room = @ + 1,
                                         !.armed = @ \/ connections[s].write_interest]
  <2>1. Sound(d) /\ d.connection_id = connections[s].connection_id
    BY DEF SoundInv, Sound, Fields
  <2> QED
    BY <1>3, <1>6, <2>1 DEF PeerDrains
<1> QED
  BY <1>1, <1>2, <1>4, <1>5, <1>6 DEF Peer, PeerShuts, PeerResets

LEMMA StepsAreAccounted ==
  ASSUME SoundInv, [Next]_vars
  PROVE  Accounted
<1>1. CASE UNCHANGED vars
  BY <1>1 DEF vars, Accounted, SoundInv, StillThere
<1>2. CASE Next
  BY <1>2, LoopIsAccounted, TickIsAccounted, PeersAreAccounted DEF Next, Server
<1> QED
  BY <1>1, <1>2

(* No connection is ever closed for the fault of another: whatever events, *)
(* ticks, deadlines and scenario plans meet, what a closed connection was  *)
(* closed for can be seen in its own state.                                *)
THEOREM ClosingIsOwnFault == Spec => ClosedForOwnFault
<1>1. Init => SoundInv
  BY DEF Init, SoundInv
<1>2. SoundInv /\ [Next]_vars => SoundInv'
  BY StepsAreAccounted DEF Accounted
<1>3. SoundInv /\ [Next]_vars =>
        [\A s \in DOMAIN connections : StillThere(s) \/ HasOwnFault(connections[s])]_vars
  BY StepsAreAccounted DEF Accounted
<1> QED
  BY <1>1, <1>2, <1>3, PTL DEF Spec, ClosedForOwnFault
=============================================================================
