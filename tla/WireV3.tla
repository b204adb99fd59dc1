------------------------------- MODULE WireV3 -------------------------------
(***************************************************************************)
(* The C37.118.2-2024 frames: the codec of src/wire_v3.rs, and the         *)
(* independent decoder of the V3 probe, src/bin/c37-118-probe.rs.          *)
(* The conventions are those of WireV2.                                    *)
(***************************************************************************)
EXTENDS WireBytes

SYNC_BYTE == 170
FRAME_HEADER_BYTES == 14
MIN_FRAME_BYTES == 16
COMMAND_FRAME_BYTES == 18
VERSION == 3
STAT_FLAG_SYNC_UNCERTAIN == 8192
TIME_QUALITY_UNKNOWN == 32767

FRAME_TYPE == [PeriodicData |-> 8, Capability |-> 10, StreamConfiguration |-> 11,
               Command |-> 12, ErrorResponse |-> 15]

COMMAND == [Stop |-> 16, Start |-> 32, Capability |-> 64,
            StreamConfiguration |-> 96]

ErrorResponseCode == [RejectedCommand |-> 1, WrongStreamOrPmu |-> 2]

write_common(size, type, stream_id, ts) ==
  <<SYNC_BYTE, 16 * type + VERSION>> \o U16(size) \o U16(stream_id) \o U32(ts.soc)
    \o <<0>> \o Tail(U32(ts.fracsec))

encode_frame(type, stream_id, ts, body) ==
  LET summed == write_common(MIN_FRAME_BYTES + Len(body), type, stream_id, ts) \o body
  IN  summed \o crc16_ccitt(summed)

encode_command(stream_id, command, ts) ==
  encode_frame(FRAME_TYPE.Command, stream_id, ts, U16(COMMAND[command]))

encode_error_response(stream_id, code, ts) ==
  encode_frame(FRAME_TYPE.ErrorResponse, stream_id, ts,
               U16(ErrorResponseCode[code]) \o U16(0))

\* encoded_name: a length byte and the UTF-8 bytes
Counted(name) == <<Len(name)>> \o name

\* VL1, VL2, VL3, IL1, IL2, IL3, FREQ, ROCOF
ChannelNames ==
  [c \in 1 .. 6 |-> <<IF c <= 3 THEN 86 ELSE 73, 76, 49 + ((c - 1) % 3)>>]
    \o << <<70, 82, 69, 81>>, <<82, 79, 67, 79, 70>> >>

phase_type(c) == <<4, 5, 6>>[1 + ((c - 1) % 3)] + IF c > 3 THEN 8 ELSE 0

pmu_flag(nominal) == 32768 + IF nominal = 50 THEN 8192 ELSE 0

\* append_f32: four bytes that no reader of this repository interprets
F32(v) == U32(v)
INFINITY == <<127, 128, 0, 0>>

ForEachPhasor(Field) ==
  Field[1] \o Field[2] \o Field[3] \o Field[4] \o Field[5] \o Field[6]

MinusOne == <<255, 255, 255, 255>>

(* Fault: the phasor names are not followed by FREQ and ROCOF. *)
Names_phasors(e) == ForEachPhasor([c \in 1 .. 6 |-> Counted(ChannelNames[c])])

Names(e) == ForEachPhasor([c \in 1 .. 6 |-> Counted(ChannelNames[c])])
              \o Counted(ChannelNames[7]) \o Counted(ChannelNames[8])

\* The body of the capability and the stream configuration.
encode_configuration(e) ==
  U16(0) \o U32(e.recipe.time_base) \o Counted(e.pdc_name) \o U16(1)
    \o Counted(e.pmu_name) \o U16(e.pmu_id) \o U16(e.version) \o e.global_pmu_id
    \o U16(1) \o U16(6) \o U16(0) \o U16(1) \o U16(1) \o U16(0)
    \o Names(e)
    \o ForEachPhasor([c \in 1 .. 6 |->
         <<0, 0, phase_type(c), 0>>
           \o F32(IF c <= 3 THEN e.recipe.voltage_scale ELSE e.recipe.current_scale)
           \o F32(0) \o F32(e.recipe.voltage_class)])
    \o F32(1000) \o F32(0) \o F32(10000) \o F32(0)
    \o INFINITY \o INFINITY \o INFINITY
    \o U16(pmu_flag(e.recipe.nominal_frequency_hz)) \o MinusOne \o MinusOne
    \o I16(e.recipe.data_rate_hz) \o U16(0) \o I16(e.recipe.data_rate_hz) \o U16(0)

Phase(c) == <<0, -20944, 20944>>[1 + ((c - 1) % 3)]

\* The degraded-time flag is not looked at: STAT and the time quality are
\* always the conservative ones.
encode_periodic_data(e, counts, degraded, ts) ==
  encode_frame(FRAME_TYPE.PeriodicData, e.stream_id, ts,
    U16(STAT_FLAG_SYNC_UNCERTAIN) \o U16(TIME_QUALITY_UNKNOWN)
      \o ForEachPhasor([c \in 1 .. 6 |->
           U16(IF c <= 3 THEN counts.voltage ELSE counts.current) \o I16(Phase(c))])
      \o I16(counts.frequency) \o I16(counts.rocof))
-----------------------------------------------------------------------------
frame_type(bytes) == bytes[2] \div 16
version(bytes) == bytes[2] % 16
stream_id(bytes) == WordAt(bytes, 5)
timestamp(bytes) ==
  [soc |-> LongAt(bytes, 7), fracsec |-> 65536 * bytes[12] + WordAt(bytes, 13)]
body(bytes) == SubSeq(bytes, FRAME_HEADER_BYTES + 1, Len(bytes) - 2)

\* FrameView::parse_with_limit: the frame or the error of its envelope.
parse_with_limit(bytes, maximum) ==
  IF Len(bytes) < MIN_FRAME_BYTES THEN "TooShort"
  ELSE IF bytes[1] # SYNC_BYTE THEN "BadSync"
  ELSE IF WordAt(bytes, 3) < MIN_FRAME_BYTES THEN "DeclaredSizeTooSmall"
  ELSE IF WordAt(bytes, 3) > maximum THEN "DeclaredSizeTooLarge"
  ELSE IF Len(bytes) < WordAt(bytes, 3) THEN "Incomplete"
  ELSE IF Len(bytes) > WordAt(bytes, 3) THEN "TrailingBytes"
  ELSE IF checksum_matches(bytes) THEN "Ok" ELSE "BadChecksum"

\* parse_command on a frame parse_with_limit accepted: the name of the command
\* or the error.
parse_command(bytes) ==
  IF version(bytes) # VERSION THEN "UnsupportedVersion"
  ELSE IF frame_type(bytes) # FRAME_TYPE.Command THEN "UnexpectedFrameType"
  ELSE IF Len(bytes) # COMMAND_FRAME_BYTES THEN "InvalidCommandSize"
  ELSE IF \E c \in DOMAIN COMMAND : COMMAND[c] = WordAt(bytes, 15)
  THEN CHOOSE c \in DOMAIN COMMAND : COMMAND[c] = WordAt(bytes, 15)
  ELSE "UnsupportedCommand"
-----------------------------------------------------------------------------
(***************************************************************************)
(* The probe's decoder.  A place in a body is 0 once a field has run past  *)
(* its end.                                                                *)
(***************************************************************************)
decode_v3_frame(bytes) ==
  /\ Len(bytes) >= MIN_FRAME_BYTES
  /\ bytes[1] = SYNC_BYTE
  /\ version(bytes) = VERSION
  /\ WordAt(bytes, 3) = Len(bytes)
  /\ checksum_matches(bytes)

take_bytes(text, place, n) ==
  IF place # 0 /\ place + n <= Len(text) + 1 THEN place + n ELSE 0

\* Names are UTF-8 because the server encodes a &str; a damaged name does not
\* pass the checksum.
take_name(text, place) ==
  IF take_bytes(text, place, 1) = 0 THEN 0
  ELSE take_bytes(text, place + 1, text[place])

AfterNames(text, place, n) ==
  LET after[i \in 0 .. n] == IF i = 0 THEN place ELSE take_name(text, after[i - 1])
  IN  after[n]

decode_configuration(text, rate) ==
  LET pmus  == take_name(text, 7)
      name  == take_bytes(text, pmus, 2)
      id    == take_name(text, name)
      names == take_bytes(text, id, 32)
      flag  == take_bytes(text, AfterNames(text, names, 8), 16 * 6 + 8 * 2 + 12)
      rates == take_bytes(text, flag, 10)
  IN  /\ Len(text) >= 6
      /\ rates # 0
      /\ take_bytes(text, rates, 8) = Len(text) + 1
      /\ WordAt(text, 1) = 0
      /\ LongAt(text, 3) # 0 /\ LongAt(text, 3) \div 16777216 = 0
      /\ LongAt(text, 3) % rate = 0
      /\ WordAt(text, pmus) = 1
      /\ WordAt(text, id) \notin {0, 65535}
      /\ WordAt(text, id + 2) = VERSION
      /\ WordAt(text, id + 20) = 1
      /\ [i \in 1 .. 5 |-> WordAt(text, id + 20 + 2 * i)] = <<6, 0, 1, 1, 0>>
      /\ (WordAt(text, flag) \div 4096) % 2 = 0
      /\ WordAt(text, rates) = rate
      /\ WordAt(text, rates + 4) = rate

ConfigurationSummary(text) ==
  [time_base |-> LongAt(text, 3),
   pmu_id |-> WordAt(text, take_name(text, take_bytes(text, take_name(text, 7), 2)))]

\* decode_periodic_data up to the comparison with the previous timestamp
decode_periodic_data(bytes, summary, rate) ==
  /\ Len(body(bytes)) = 32
  /\ timestamp(bytes).fracsec < summary.time_base
  /\ timestamp(bytes).fracsec % (summary.time_base \div rate) = 0

decode_error_response(text) == Len(text) = 4
=============================================================================
