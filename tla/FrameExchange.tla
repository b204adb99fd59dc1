---------------------------- MODULE FrameExchange ----------------------------
(***************************************************************************)
(* An endpoint of a compiled profile at work: it puts a signal on the wire *)
(* (ProfileCompiler), or exchanges one frame with a probe.  The frame is   *)
(* encoded by the codec of the endpoint's wire version, may be damaged,    *)
(* cut or joined with a following byte on its way, and is then read by     *)
(* the simulator's parser or by a probe's independent decoder.             *)
(***************************************************************************)
EXTENDS ProfileCompiler

CONSTANTS Exchanging, \* the profiles whose frames are looked at
          Stamps,     \* timestamps of a sample
          Masks       \* what a fault may change of one byte, XORed in

\* The fields of a timestamp: a u32, and a fraction of three bytes.
ASSUME StampsAssumption ==
  \A ts \in Stamps :
    /\ ts = [soc |-> ts.soc, fracsec |-> ts.fracsec]
    /\ ts.soc \in Nat /\ ts.soc \div 65536 <= U16_MAX
    /\ ts.fracsec \in 0 .. TIME_BASE_MAX
ASSUME MasksAssumption == Masks \subseteq 1 .. 255

V2 == INSTANCE WireV2
V3 == INSTANCE WireV3

VARIABLES meant,      \* the message the writer encoded
          wire,       \* the bytes under way
          fault       \* what happened to them: "none", or the name of a fault

frameVars == <<meant, wire, fault>>
exchangeVars == <<compilerVars, frameVars>>

\* The endpoint in the exchange.
endpoint == endpoints[1]

Nothing == [kind |-> "nothing"]

\* The rate of a profile the compiler accepts, and the MAX_FRAME_BYTES of the
\* probes' receive buffers.
Rate == 50
Limit == MAX_COMMAND_FRAME_BYTES

Zero == [soc |-> 0, fracsec |-> 0]

SendFrame(message, bytes) ==
  /\ meant' = message
  /\ wire' = bytes
  /\ UNCHANGED <<compilerVars, fault>>

\* A PDC's command; both probes send theirs with a zero timestamp.
SendCommand ==
  \/ /\ endpoint.version = 2
     /\ \E c \in DOMAIN V2!COMMAND :
          SendFrame([kind |-> "command", name |-> c, ts |-> Zero],
               V2!encode_command(endpoint.stream_id, c, Zero))
  \/ /\ endpoint.version = 3
     /\ \E c \in DOMAIN V3!COMMAND :
          SendFrame([kind |-> "command", name |-> c, ts |-> Zero],
               V3!encode_command(endpoint.stream_id, c, Zero))

\* The V2 station name frame.
SendHeader ==
  /\ endpoint.version = 2
  /\ \E ts \in Stamps :
       SendFrame([kind |-> "header", ts |-> ts], V2!encode_header(endpoint, ts))

\* The V3 answer to a command that is refused.
SendErrorResponse ==
  /\ endpoint.version = 3
  /\ \E ts \in Stamps, code \in DOMAIN V3!ErrorResponseCode :
       SendFrame([kind |-> "error", ts |-> ts],
            V3!encode_error_response(endpoint.stream_id, code, ts))

Counts(wave) == [s \in Signals |-> Sample(endpoint, s, wave, NoExcursion).count]

\* A sample of the reporting grid: aligned_timestamp and the whole frames
\* after it.
OnGrid(ts) ==
  /\ ts.fracsec < endpoint.recipe.time_base
  /\ ts.fracsec % (endpoint.recipe.time_base \div endpoint.recipe.data_rate_hz) = 0

SendData ==
  \E ts \in Stamps, wave \in waveform, degraded \in BOOLEAN :
    /\ OnGrid(ts)
    /\ SendFrame([kind |-> "data", ts |-> ts, degraded |-> degraded],
            IF endpoint.version = 2
            THEN V2!encode_periodic_data(endpoint, Counts(wave), degraded, ts)
            ELSE V3!encode_periodic_data(endpoint, Counts(wave), degraded, ts))

Spoil(name, bytes) ==
  /\ meant # Nothing
  /\ fault = "none"
  /\ fault' = name
  /\ wire' = bytes
  /\ UNCHANGED <<compilerVars, meant>>

\* One byte, or two adjacent ones, arrive changed.
Damage ==
  \E i \in DOMAIN wire, m \in Masks, n \in Masks \cup {0} :
    /\ n # 0 => i < Len(wire)
    /\ Spoil("damaged", [j \in DOMAIN wire |->
                           CASE j = i -> V2!Xor[wire[j]][m]
                             [] j = i + 1 -> V2!Xor[wire[j]][n]
                             [] OTHER -> wire[j]])

\* The end of the frame is missing, or more follows it in the same buffer.
Cut == \E n \in 0 .. Len(wire) - 1 : Spoil("cut", SubSeq(wire, 1, n))
Join == Spoil("joined", Append(wire, V2!SYNC_BYTE))

ExchangeInit ==
  /\ CompilerInit
  /\ meant = Nothing
  /\ wire = << >>
  /\ fault = "none"

\* A behaviour looks at one value or one frame.
Exchange ==
  /\ outcome = "compiled" /\ profile \in Exchanging
  /\ reading = NoReading /\ meant = Nothing
  /\ SendCommand \/ SendHeader \/ SendErrorResponse \/ SendData

ExchangeNext ==
  \/ meant = Nothing /\ CompilerNext /\ UNCHANGED frameVars
  \/ Exchange
  \/ Damage \/ Cut \/ Join

ExchangeSpec == ExchangeInit /\ [][ExchangeNext]_exchangeVars
-----------------------------------------------------------------------------
(***************************************************************************)
(* The readers.  Both cut the frame out of their buffer by the size its    *)
(* first bytes declare, wait while it is not all there, and keep what      *)
(* follows it.                                                             *)
(***************************************************************************)
Declared(bytes) == V2!WordAt(bytes, 3)
FirstFrame(bytes) == SubSeq(bytes, 1, Declared(bytes))

\* FrameView::parse and parse_command: a command's name or an error.
Parsed(version, frame) ==
  LET envelope == IF version = 2 THEN V2!parse_with_limit(frame, U16_MAX)
                                 ELSE V3!parse_with_limit(frame, U16_MAX)
  IN  IF envelope # "Ok" THEN envelope
      ELSE IF version = 2 THEN V2!parse_command(frame) ELSE V3!parse_command(frame)

\* next_command: what the simulator makes of its receive buffer.
Served(version, bytes) ==
  IF Len(bytes) < 4 THEN "waits"
  ELSE IF Declared(bytes) > profile.max_command_frame_bytes THEN "Malformed"
  ELSE IF Len(bytes) < Declared(bytes) THEN "waits"
  ELSE Parsed(version, FirstFrame(bytes))

Commands(version) ==
  IF version = 2 THEN DOMAIN V2!COMMAND ELSE DOMAIN V3!COMMAND

\* What the probe learns from the endpoint's configuration.
Configuration ==
  IF endpoint.version = 2
  THEN V2!ConfigurationSummary(V2!encode_configuration(endpoint))
  ELSE V3!ConfigurationSummary(V3!encode_configuration(endpoint))

Decoded(version, frame) ==
  IF version = 2 THEN V2!decode_v2_frame(frame) ELSE V3!decode_v3_frame(frame)

\* handle_frame in the state that expects a frame of this type; no state
\* expects a command.
IsHandled(version, frame) ==
  LET type == frame[2] \div 16
  IN  IF version = 2
      THEN \/ type = V2!FRAME_TYPE.Header /\ V2!decode_header(V2!body(frame))
           \/ /\ type \in {V2!FRAME_TYPE.Configuration1, V2!FRAME_TYPE.Configuration2}
              /\ V2!decode_configuration(V2!body(frame), Rate)
           \/ /\ type = V2!FRAME_TYPE.PeriodicData
              /\ V2!decode_periodic_data(frame, Configuration, Rate)
      ELSE \/ /\ type \in {V3!FRAME_TYPE.Capability, V3!FRAME_TYPE.StreamConfiguration}
              /\ V3!decode_configuration(V3!body(frame), Rate)
           \/ /\ type = V3!FRAME_TYPE.PeriodicData
              /\ V3!decode_periodic_data(frame, Configuration, Rate)
           \/ type = V3!FRAME_TYPE.ErrorResponse /\ V3!decode_error_response(V3!body(frame))

\* The identity check stands between the two.
IsTaken(version, frame) ==
  /\ Decoded(version, frame)
  /\ V2!idcode(frame) = endpoint.stream_id
  /\ IsHandled(version, frame)

\* read_ready: what the probe makes of its receive buffer.
Probed(version, bytes) ==
  IF Len(bytes) < 4 THEN "waits"
  ELSE IF \/ Declared(bytes) > Limit
          \/ version = 2 /\ Declared(bytes) < V2!MIN_FRAME_BYTES
  THEN "refused"
  ELSE IF Len(bytes) < Declared(bytes) THEN "waits"
  ELSE IF IsTaken(version, FirstFrame(bytes)) THEN "taken" ELSE "refused"
-----------------------------------------------------------------------------
\* What the other side reads in the first frame of its buffer.
Understood ==
  LET frame == FirstFrame(wire)
  IN  /\ wire = IF fault = "joined" THEN Append(frame, V2!SYNC_BYTE) ELSE frame
      /\ V2!idcode(frame) = endpoint.stream_id
      /\ V2!timestamp(frame) = meant.ts
      /\ IF meant.kind = "command"
         THEN Served(endpoint.version, wire) = meant.name
         ELSE Probed(endpoint.version, wire) = "taken"
      /\ meant.kind = "data" /\ endpoint.version = 2 =>
           (V2!WordAt(V2!body(frame), 1) = 0 <=> endpoint.good_stat /\ ~meant.degraded)

\* The configuration an accepted profile is announced with.
ConfigurationIsUnderstood ==
  LET text == IF endpoint.version = 2 THEN V2!encode_configuration(endpoint)
                                      ELSE V3!encode_configuration(endpoint)
  IN  /\ IF endpoint.version = 2 THEN V2!decode_configuration(text, Rate)
                                 ELSE V3!decode_configuration(text, Rate)
      /\ Configuration = [time_base |-> endpoint.recipe.time_base,
                          pmu_id |-> endpoint.pmu_id]
      /\ V2!MIN_FRAME_BYTES + Len(text) < Limit

(* A frame that arrives whole is understood as it was meant by the other,  *)
(* independently written side, also when more is behind it in the buffer:  *)
(* the simulator reads the command and the identifier of a probe's frame   *)
(* whatever command limit the profile sets, a probe takes the simulator's  *)
(* header, error and data frames with their identifier and timestamp, and  *)
(* sees a good STAT exactly when the endpoint is configured for it and its *)
(* time is not degraded; what follows the frame stays.  The configuration  *)
(* a probe accepts before that has the descriptor's time base and PMU_ID   *)
(* and fits its receive buffer, whatever the lengths of the names.         *)
WholeFramesAreUnderstood ==
  meant # Nothing /\ fault \in {"none", "joined"} =>
    Understood /\ ConfigurationIsUnderstood

\* A V2 header whose size byte shrank: its text has no fixed length, and only
\* the two characters that become its checksum stand between it and the probe.
IsShortenedHeader ==
  /\ fault = "damaged" /\ meant.kind = "header"
  /\ Declared(wire) < Len(wire)
  /\ V2!checksum_matches(FirstFrame(wire))

\* No reader of the version acts on the bytes.
IsRefused(version) ==
  /\ Served(version, wire) \notin Commands(version)
  /\ Probed(version, wire) = "taken" => version = endpoint.version /\ IsShortenedHeader

\* The reader the frame is for waits for the rest of it.
IsAwaited ==
  IF meant.kind = "command" THEN Served(endpoint.version, wire) = "waits"
                            ELSE Probed(endpoint.version, wire) = "waits"

(* A damage of one or two adjacent bytes, the size of the frame among      *)
(* them, never makes a command or a message of a frame: what a reader cuts *)
(* out of its buffer by the size it is told fails its checksum, has        *)
(* another length than its type demands, or never gets complete, but for a *)
(* shortened header that two characters happen to sum up.  The beginning   *)
(* of a frame is never acted on, and the reader it is for waits for the    *)
(* rest.  And a whole frame, though the versions share the sync byte, the  *)
(* envelope and the checksum, is never acted on by a reader of the other.  *)
SpoiltFramesAreRefused ==
  meant # Nothing =>
    /\ \A version \in WireVersions :
         fault \in {"damaged", "cut"} \/ version # endpoint.version => IsRefused(version)
    /\ fault = "cut" => IsAwaited
=============================================================================
