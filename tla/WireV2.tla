------------------------------- MODULE WireV2 -------------------------------
(***************************************************************************)
(* The C37.118.2-2011 frames: the codec of src/wire_v2.rs, and the         *)
(* independent decoder of the V2 probe, src/bin/c37_118_probe_v2.rs.       *)
(* A frame is its sequence of bytes.  e is a descriptor of Profile, ts a   *)
(* record of a second of century and a fraction.                           *)
(***************************************************************************)
EXTENDS WireBytes

SYNC_BYTE == 170
FRAME_HEADER_BYTES == 14
MIN_FRAME_BYTES == 16
COMMAND_FRAME_BYTES == 18
VERSION == 2
MESSAGE_TIME_QUALITY_UNKNOWN == 15
CONSERVATIVE_STAT == 8640   \* 0x2000 + 0x01c0

FRAME_TYPE == [PeriodicData |-> 0, Header |-> 1, Configuration1 |-> 2,
               Configuration2 |-> 3, Command |-> 4]

COMMAND == [Stop |-> 1, Start |-> 2, Header |-> 3, Configuration1 |-> 4,
            Configuration2 |-> 5]

write_common(size, type, idcode, ts) ==
  <<SYNC_BYTE, 16 * type + VERSION>> \o U16(size) \o U16(idcode) \o U32(ts.soc)
    \o <<MESSAGE_TIME_QUALITY_UNKNOWN>> \o Tail(U32(ts.fracsec))

encode_frame(type, idcode, ts, body) ==
  LET summed == write_common(MIN_FRAME_BYTES + Len(body), type, idcode, ts) \o body
  IN  summed \o crc16_ccitt(summed)

encode_command(idcode, command, ts) ==
  encode_frame(FRAME_TYPE.Command, idcode, ts, U16(COMMAND[command]))

\* v2_fixed_ascii pads a name with spaces to 16 bytes.
Padded(name) == name \o [i \in 1 .. 16 - Len(name) |-> 32]

encode_header(e, ts) ==
  encode_frame(FRAME_TYPE.Header, e.stream_id, ts, Padded(e.pmu_name))

\* VL1, VL2, VL3, IL1, IL2, IL3
ChannelNames ==
  [c \in 1 .. 6 |-> <<IF c <= 3 THEN 86 ELSE 73, 76, 49 + ((c - 1) % 3)>>]

\* The concatenation of Field[1], ..., Field[6]
ForEachPhasor(Field) ==
  Field[1] \o Field[2] \o Field[3] \o Field[4] \o Field[5] \o Field[6]

\* The body of CFG-1 and CFG-2.
encode_configuration(e) ==
  U32(e.recipe.time_base) \o U16(1) \o Padded(e.pmu_name) \o U16(e.pmu_id)
    \o U16(1) \o U16(6) \o U16(0) \o U16(0)
    \o ForEachPhasor([c \in 1 .. 6 |-> Padded(ChannelNames[c])])
    \o ForEachPhasor([c \in 1 .. 6 |-> U32(e.phunits[c])])
    \o U16(IF e.recipe.nominal_frequency_hz = 50 THEN 1 ELSE 0) \o U16(0)
    \o I16(e.recipe.data_rate_hz)

Stat(e, degraded) == IF e.good_stat /\ ~degraded THEN 0 ELSE CONSERVATIVE_STAT

\* 0, -2.0943952 and 2.0943952 radians in ten-thousandths
Phase(c) == <<0, -20944, 20944>>[1 + ((c - 1) % 3)]

\* counts: the fixed-point value of each signal at this sample
encode_periodic_data(e, counts, degraded, ts) ==
  encode_frame(FRAME_TYPE.PeriodicData, e.stream_id, ts,
    U16(Stat(e, degraded))
      \o ForEachPhasor([c \in 1 .. 6 |->
           U16(IF c <= 3 THEN counts.voltage ELSE counts.current) \o I16(Phase(c))])
      \o I16(counts.frequency) \o I16(counts.rocof))
-----------------------------------------------------------------------------
frame_type(bytes) == bytes[2] \div 16
version(bytes) == bytes[2] % 16
idcode(bytes) == WordAt(bytes, 5)
timestamp(bytes) ==
  [soc |-> LongAt(bytes, 7), fracsec |-> 65536 * bytes[12] + WordAt(bytes, 13)]
body(bytes) == SubSeq(bytes, FRAME_HEADER_BYTES + 1, Len(bytes) - 2)

\* FrameView::parse_with_limit: the frame or the error of its envelope.
parse_with_limit(bytes, maximum) ==
  IF Len(bytes) < MIN_FRAME_BYTES THEN "TooShort"
  ELSE IF bytes[1] # SYNC_BYTE \/ bytes[2] >= 128 THEN "BadSync"
  ELSE IF WordAt(bytes, 3) < MIN_FRAME_BYTES THEN "DeclaredSizeTooSmall"
  ELSE IF WordAt(bytes, 3) > maximum THEN "DeclaredSizeTooLarge"
  ELSE IF Len(bytes) < WordAt(bytes, 3) THEN "Incomplete"
  ELSE IF Len(bytes) > WordAt(bytes, 3) THEN "TrailingBytes"
  ELSE IF checksum_matches(bytes) THEN "Ok" ELSE "BadChecksum"

\* parse_command on a frame parse_with_limit accepted: the name of the command
\* or the error.
parse_command(bytes) ==
  IF version(bytes) # VERSION THEN "UnsupportedVersion"
  ELSE IF frame_type(bytes) # FRAME_TYPE.Command THEN "UnexpectedFrameType"
  ELSE IF Len(bytes) # COMMAND_FRAME_BYTES THEN "InvalidCommandSize"
  ELSE IF \E c \in DOMAIN COMMAND : COMMAND[c] = WordAt(bytes, 15)
  THEN CHOOSE c \in DOMAIN COMMAND : COMMAND[c] = WordAt(bytes, 15)
  ELSE "UnsupportedCommand"
-----------------------------------------------------------------------------
(***************************************************************************)
(* The probe's decoder; a refusal ends the probe whatever its message.     *)
(***************************************************************************)
IsPrintable(bytes) == \A i \in DOMAIN bytes : bytes[i] \in 32 .. 126

decode_v2_frame(bytes) ==
  /\ Len(bytes) >= MIN_FRAME_BYTES
  /\ bytes[1] = SYNC_BYTE
  /\ bytes[2] < 128
  /\ version(bytes) = VERSION
  /\ WordAt(bytes, 3) = Len(bytes)
  /\ checksum_matches(bytes)

decode_header(text) == text # << >> /\ IsPrintable(text)

\* Every field has a fixed place; the last ends with the body.
decode_configuration(text, rate) ==
  /\ Len(text) = 158
  /\ LongAt(text, 1) # 0 /\ LongAt(text, 1) \div 16777216 = 0
  /\ LongAt(text, 1) % rate = 0
  /\ WordAt(text, 5) = 1
  /\ IsPrintable(SubSeq(text, 7, 22))
  /\ WordAt(text, 23) \notin {0, 65535}
  /\ WordAt(text, 25) = 1
  /\ <<WordAt(text, 27), WordAt(text, 29), WordAt(text, 31)>> = <<6, 0, 0>>
  /\ IsPrintable(SubSeq(text, 33, 128))
  /\ \A c \in 1 .. 6 :
       /\ text[125 + 4 * c] <= 1
       /\ SubSeq(text, 126 + 4 * c, 128 + 4 * c) # <<0, 0, 0>>
  /\ WordAt(text, 153) <= 1
  /\ WordAt(text, 157) = rate

ConfigurationSummary(text) ==
  [time_base |-> LongAt(text, 1), pmu_id |-> WordAt(text, 23)]

\* decode_periodic_data up to the comparison with the previous timestamp
decode_periodic_data(bytes, summary, rate) ==
  /\ bytes[11] = MESSAGE_TIME_QUALITY_UNKNOWN
  /\ Len(body(bytes)) = 30
  /\ WordAt(body(bytes), 1) \in {0, CONSERVATIVE_STAT}
  /\ timestamp(bytes).fracsec < summary.time_base
  /\ timestamp(bytes).fracsec % (summary.time_base \div rate) = 0
=============================================================================
