------------------------------- MODULE Probe -------------------------------
(***************************************************************************)
(* The probe client of the acceptance runs, src/bin/c37-118-probe.rs and   *)
(* src/bin/c37_118_probe_v2.rs: one connection per endpoint, a handshake,  *)
(* then data frames for a duration, and one verdict about all endpoints.   *)
(* The two versions differ in the commands of the handshake only.          *)
(*                                                                         *)
(* The endpoints and the network are external: an endpoint answers every   *)
(* whole command and emits one sample per reporting interval, the unit of  *)
(* time here, unless it is faulty.  A frame is sent in two halves, the     *)
(* unit of buffers.  Polling reports a readiness once.                     *)
(***************************************************************************)
EXTENDS Integers, Sequences, FiniteSets

CONSTANTS
  Endpoints,
  probe_version,       \* 2 or 3
  Faults,              \* what each endpoint may do wrong
  HANDSHAKE_TIMEOUT,   \* in reporting intervals
  DURATION,            \* the same; the rate times the duration in seconds
  CAPACITY,            \* MAX_FRAME_BYTES, in halves of a frame
  MAX_LAG,             \* intervals that may pass before all in flight is handled
  MAX_TIME             \* bound on time

ASSUME ProbeAssumption ==
  /\ Endpoints # {} /\ probe_version \in {2, 3}
  /\ Faults \in [Endpoints ->
       SUBSET {"Refuse", "Silent", "Reject", "Disagree", "Damage", "Skip", "Close"}]
  /\ {HANDSHAKE_TIMEOUT, DURATION, MAX_LAG, MAX_TIME} \subseteq Nat
  /\ CAPACITY \in Nat \ {0, 1}

(* The answers the handshake waits for; the command Start follows them.    *)
Script ==
  IF probe_version = 3 THEN <<"Capability", "StreamConfiguration">>
                       ELSE <<"Header", "Configuration1", "Configuration2">>

IsConfiguration(step) == step \in {Len(Script) - 1, Len(Script)}
StartStep == Len(Script) + 1

None == 0

(* What the probe asks of every endpoint: four fifths of the samples.      *)
Minimum == (4 * DURATION) \div 5

(* The lateness an acceptance run allows for: the handshake and the first  *)
(* sample of every endpoint fit in the timeout, the samples that wait to   *)
(* be read fit in the buffer, and the last ones due may still be missing.  *)
ASSUME LatenessAssumption ==
  /\ HANDSHAKE_TIMEOUT > 2 * MAX_LAG + 1
  /\ CAPACITY > 2 * (MAX_LAG + 1)
  /\ Minimum + MAX_LAG <= DURATION

VARIABLES
  client,              \* per endpoint: [state, step, written, configuration, last_timestamp, data_frames]
  writable, readable,  \* readiness not yet reported
  arrived,             \* halves of frames received and not yet handled
  turn, batch,           \* where the loop is, and the events it still has to handle
  streaming_started,   \* time, or None
  verdict,             \* "running", "ok" or the error returned
  peer, now, lag       \* endpoints, time, and intervals since all was handled

(* peer[e]: the commands it got and answered, the frames it sent that the  *)
(* probe has not handled, and what it did wrong.                           *)
clientVars == <<client, writable, readable, arrived>>
loopVars == <<turn, batch, streaming_started, verdict>>
probeVars == <<clientVars, loopVars, peer, now, lag>>

NewClient ==
  [state |-> "Connecting", step |-> 1, written |-> 0, configuration |-> None,
   last_timestamp |-> None, data_frames |-> 0, failed |-> FALSE]

NewPeer ==
  [connected |-> FALSE, asked |-> 0, answered |-> 0, sending |-> <<>>,
   closed |-> FALSE, wrong |-> {}, skipped |-> {}]

ProbeInit ==
  /\ client = [e \in Endpoints |-> NewClient]
  /\ writable = {} /\ readable = {}
  /\ arrived = [e \in Endpoints |-> 0]
  /\ turn = "top" /\ batch = {}
  /\ streaming_started = None
  /\ verdict = "running"
  /\ peer = [e \in Endpoints |-> NewPeer]
  /\ now = 1 /\ lag = 0

-----------------------------------------------------------------------------
(* Endpoints, network and time (external).                                 *)

IsWrong(e, fault) == fault \in peer[e].wrong
GoesWrong(e, fault) == fault \in Faults[e] /\ ~IsWrong(e, fault)

Send(p, kind, value) == [p EXCEPT !.sending = Append(@, [kind |-> kind, value |-> value])]

Connects(e) ==
  /\ ~peer[e].connected
  /\ \/ peer' = [peer EXCEPT ![e].connected = TRUE]
     \/ /\ GoesWrong(e, "Refuse")
        /\ peer' = [peer EXCEPT ![e].connected = TRUE, ![e].wrong = @ \cup {"Refuse"}]
  /\ writable' = writable \cup {e}
  /\ UNCHANGED <<client, readable, arrived, loopVars, now, lag>>

(* Answer k: a configuration says 1; a faulty endpoint's second one says 2. *)
Answer(k) == [kind |-> Script[k], value |-> IF IsConfiguration(k) THEN 1 ELSE None]

Answers(e) ==
  LET p == peer[e]
      k == p.answered + 1
      answered == [p EXCEPT !.answered = k]
      wrongly(fault) == [answered EXCEPT !.wrong = @ \cup {fault}]
  IN  /\ k <= p.asked /\ k <= Len(Script) /\ ~p.closed /\ ~IsWrong(e, "Silent")
      /\ \/ peer' = [peer EXCEPT ![e] = Send(answered, Answer(k).kind, Answer(k).value)]
         \/ /\ GoesWrong(e, "Reject")
            /\ peer' = [peer EXCEPT ![e] = Send(wrongly("Reject"), "Error", None)]
         \/ /\ GoesWrong(e, "Damage")
            /\ peer' = [peer EXCEPT ![e] = Send(wrongly("Damage"), "Damaged", None)]
         \/ /\ GoesWrong(e, "Disagree") /\ k = Len(Script)
            /\ peer' = [peer EXCEPT ![e] = Send(wrongly("Disagree"), Answer(k).kind, 2)]
         \/ /\ GoesWrong(e, "Silent")
            /\ peer' = [peer EXCEPT ![e].wrong = @ \cup {"Silent"}]
      /\ UNCHANGED <<clientVars, loopVars, now, lag>>

Closes(e) ==
  /\ peer[e].connected /\ ~peer[e].closed /\ GoesWrong(e, "Close")
  /\ peer' = [peer EXCEPT ![e].closed = TRUE, ![e].wrong = @ \cup {"Close"}]
  /\ readable' = readable \cup {e}
  /\ UNCHANGED <<client, writable, arrived, loopVars, now, lag>>

InFlight(e) == 2 * Len(peer[e].sending) - arrived[e]

Arrives(e) ==
  /\ InFlight(e) > 0
  /\ arrived' = [arrived EXCEPT ![e] = @ + 1]
  /\ readable' = readable \cup {e}
  /\ UNCHANGED <<client, writable, loopVars, peer, now, lag>>

(* The socket takes the rest of a command again.                           *)
Drains(e) ==
  /\ client[e].state = "Sending" /\ e \notin writable \cup {v.endpoint : v \in batch}
  /\ writable' = writable \cup {e}
  /\ UNCHANGED <<client, readable, arrived, loopVars, peer, now, lag>>

Streams(e) == peer[e].asked = StartStep /\ ~peer[e].closed

(* An endpoint that skips a sample may do so once.                         *)
Emit(e, t, skip) ==
  LET p == peer[e]
  IN  IF ~Streams(e) THEN p
      ELSE IF skip THEN [p EXCEPT !.wrong = @ \cup {"Skip"}, !.skipped = @ \cup {t}]
      ELSE Send(p, "PeriodicData", t)

(* Nothing is under way but what a silent endpoint owes.                   *)
Settled ==
  /\ writable = {} /\ readable = {} /\ batch = {}
  /\ \A e \in Endpoints :
       /\ peer[e].connected /\ client[e].state # "Sending" /\ InFlight(e) = 0
       /\ IsWrong(e, "Silent") \/ peer[e].asked = StartStep
                               \/ peer[e].answered = peer[e].asked

Tick ==
  /\ verdict = "running" /\ now < MAX_TIME
  /\ Settled \/ lag < MAX_LAG
  /\ now' = now + 1
  /\ lag' = IF Settled THEN 0 ELSE lag + 1
  /\ \E skipping \in SUBSET {e \in Endpoints : Streams(e) /\ GoesWrong(e, "Skip")} :
       peer' = [e \in Endpoints |-> Emit(e, now', e \in skipping)]
  /\ UNCHANGED <<clientVars, loopVars>>

-----------------------------------------------------------------------------
(* Client.                                                                 *)

is_streaming(c) == c.state = "Streaming" /\ c.data_frames > 0

queue_command(c, step) == [c EXCEPT !.state = "Sending", !.step = step, !.written = 0]

(* write_ready, with `count` halves of the command taken by the socket.    *)
AfterWrite(c, count) ==
  IF c.written + count < 2
    THEN [c EXCEPT !.written = @ + count]
    ELSE [c EXCEPT !.written = 2,
                   !.state = IF c.step = StartStep THEN "Streaming" ELSE "Awaiting"]

Written(e, c, count) ==
  LET d == IF c.state = "Connecting" THEN queue_command(c, 1) ELSE c
  IN  IF IsWrong(e, "Refuse") THEN [c EXCEPT !.failed = TRUE]
      ELSE IF d.state = "Sending" THEN AfterWrite(d, count)
      ELSE d

(* Fault: any later sample will do.                                        *)
decode_periodic_data_increasing(c, f) ==
  c.last_timestamp = None \/ f.value > c.last_timestamp

(* The sample is the next one after the last.                              *)
decode_periodic_data(c, f) ==
  c.last_timestamp = None \/ f.value = c.last_timestamp + 1

(* A frame is good for the state the client is in.                         *)
IsExpected(c, f) ==
  \/ /\ c.state = "Awaiting" /\ f.kind = Script[c.step]
     /\ c.step = Len(Script) => f.value = c.configuration
  \/ /\ c.state = "Streaming" /\ f.kind = "PeriodicData"
     /\ decode_periodic_data(c, f)

(* Once a frame has failed none is handled any more.                       *)
handle_frame(c, f) ==
  IF c.failed \/ ~IsExpected(c, f) THEN [c EXCEPT !.failed = TRUE]
  ELSE IF c.state = "Streaming"
    THEN [c EXCEPT !.last_timestamp = f.value, !.data_frames = @ + 1]
  ELSE queue_command([c EXCEPT !.configuration = f.value], c.step + 1)

(* The client after the first i frames, for every i.                        *)
Handled(c, frames) ==
  LET after[i \in 0..Len(frames)] ==
        IF i = 0 THEN c ELSE handle_frame(after[i - 1], frames[i])
  IN  after

(* read_ready looks at the buffer before it looks at the frames in it.     *)
IsFull(e) == arrived[e] >= CAPACITY

WholeFrames(e) == SubSeq(peer[e].sending, 1, arrived[e] \div 2)

Read(e, c) ==
  IF IsFull(e) \/ (peer[e].closed /\ InFlight(e) = 0)
    THEN [c EXCEPT !.failed = TRUE]
    ELSE Handled(c, WholeFrames(e))[Len(WholeFrames(e))]

-----------------------------------------------------------------------------
(* Probe::run.                                                             *)

(* Fault: only a probe that streams looks at the clock.                    *)
IsTimedOut_never == FALSE

IsTimedOut == streaming_started = None /\ now - 1 >= HANDSHAKE_TIMEOUT

IsOver == streaming_started # None /\ now - streaming_started >= DURATION

(* The top of the loop, finish included, and the poll.                     *)
Top ==
  /\ turn = "top" /\ verdict = "running"
  /\ IF IsTimedOut
       THEN verdict' = "timed out" /\ UNCHANGED <<turn, batch, writable, readable>>
     ELSE IF IsOver
       THEN /\ verdict' = IF \E e \in Endpoints : client[e].data_frames < Minimum
                            THEN "too few" ELSE "ok"
            /\ UNCHANGED <<turn, batch, writable, readable>>
     ELSE /\ batch' = {[endpoint |-> e, writable |-> e \in writable, readable |-> e \in readable] :
                         e \in writable \cup readable}
          /\ writable' = {} /\ readable' = {}
          /\ turn' = "events"
          /\ UNCHANGED verdict
  /\ UNCHANGED <<client, arrived, streaming_started, peer, now, lag>>

(* One event: write_ready, then read_ready.  A whole command reaches the   *)
(* endpoint; a command queued has the socket asked for room again.         *)
HandleEvent(v, count) ==
  LET e == v.endpoint
      c == IF v.writable THEN Written(e, client[e], count) ELSE client[e]
      d == IF v.readable /\ ~c.failed THEN Read(e, c) ELSE c
      sent == c.written = 2 /\ c.state \in {"Awaiting", "Streaming"}
      reads == v.readable /\ ~d.failed
      whole == Len(WholeFrames(e))
  IN  /\ turn = "events" /\ verdict = "running" /\ v \in batch
      /\ batch' = batch \ {v}
      /\ client' = [client EXCEPT ![e] = d]
      /\ verdict' = IF d.failed THEN "failed" ELSE verdict
      /\ writable' = IF d.state = "Sending" /\ c.state # "Sending"
                       THEN writable \cup {e} ELSE writable
      /\ arrived' = IF reads THEN [arrived EXCEPT ![e] = @ - 2 * whole] ELSE arrived
      /\ peer' = [peer EXCEPT ![e].asked = IF sent THEN c.step ELSE @,
                              ![e].sending = IF reads THEN SubSeq(@, whole + 1, Len(@)) ELSE @]
      /\ UNCHANGED <<readable, turn, streaming_started, now, lag>>

EndOfTurn ==
  /\ turn = "events" /\ verdict = "running" /\ batch = {}
  /\ streaming_started' =
       IF streaming_started = None /\ \A e \in Endpoints : is_streaming(client[e])
         THEN now ELSE streaming_started
  /\ turn' = "top"
  /\ UNCHANGED <<clientVars, batch, verdict, peer, now, lag>>

Loop == Top \/ (\E v \in batch, count \in 1..2 : HandleEvent(v, count)) \/ EndOfTurn

Network ==
  /\ verdict = "running"
  /\ \E e \in Endpoints : Connects(e) \/ Arrives(e) \/ Drains(e)

Endpoint ==
  /\ verdict = "running"
  /\ \E e \in Endpoints : Answers(e) \/ Closes(e)

ProbeNext == Loop \/ Network \/ Endpoint \/ Tick

ProbeSpec == ProbeInit /\ [][ProbeNext]_probeVars

-----------------------------------------------------------------------------
(* Properties.                                                             *)

(* The verdict is about the fleet.  A run fails only when an endpoint did   *)
(* something wrong: segments, partial writes, the order of events and any  *)
(* lateness up to MAX_LAG are no reason.  A run that passes is evidence    *)
(* about every endpoint: it described itself twice the same, rejected      *)
(* nothing and sent at least the minimum of samples, with none left out    *)
(* between the first and the last counted.                                 *)
VerdictsAreEvidence ==
  /\ verdict \in {"timed out", "too few", "failed"} => \E e \in Endpoints : peer[e].wrong # {}
  /\ verdict = "ok" =>
       \A e \in Endpoints :
         LET c == client[e]
             counted == (c.last_timestamp - c.data_frames + 1)..c.last_timestamp
         IN  /\ c.data_frames >= Minimum
             /\ peer[e].skipped \cap counted = {}
             /\ peer[e].wrong \cap {"Refuse", "Silent", "Reject", "Disagree", "Damage"} = {}
=============================================================================
