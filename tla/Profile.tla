------------------------------- MODULE Profile -------------------------------
(***************************************************************************)
(* The profile compiler of src/config.rs: the checks a YAML profile        *)
(* must pass and the endpoint descriptors an accepted one is expanded to,  *)
(* together with the fixed-point conversions with which the two codecs put *)
(* a descriptor's signals on the wire.                                     *)
(*                                                                         *)
(* Floating-point fields are integers in millionths of their unit (volt,   *)
(* ampere, hertz, hertz per second); the rounding of f32 arithmetic itself *)
(* is left out.  A field that is not finite is the model value NotFinite.  *)
(* Names are byte sequences.  Every refusal is the same ConfigError, so    *)
(* the checks are conjuncts.                                               *)
(***************************************************************************)
EXTENDS Integers, Sequences, SequencesExt

CONSTANTS NotFinite,   \* a NaN or an infinity
          Mixed        \* index -> the 16 bytes of its two splitmix64 words

U16_MAX == 65535
MAX_LOGICAL_PMUS == 150
PHASOR_COUNT == 6
MAX_COMMAND_FRAME_BYTES == 4096
V2_NAME_FIELD_BYTES == 16
TIME_BASE_MAX == 16777215   \* 0x00ff_ffff
PHUNIT_MAX == 16777215

ASSUME MixedAssumption ==
  \A index \in 0 .. MAX_LOGICAL_PMUS - 1 : Mixed[index] \in [1 .. 16 -> 0 .. 255]

(***************************************************************************)
(* A profile as it is read: the field types of Profile, RawLimits, Fleet,  *)
(* PhasorRecipe and SignalRecipe.                                          *)
(***************************************************************************)
U16 == 0 .. U16_MAX
F32 == Int \cup {NotFinite}
SignalRecipe == [nominal: F32, variation: F32]
RawProfile ==
  [max_logical_pmus: Nat, max_clients_per_endpoint: Nat,
   max_command_frame_bytes: Nat, receive_buffer_bytes: Nat, send_buffer_bytes: Nat,
   count: Nat, first_listen_port: U16, first_stream_id: U16, first_pmu_id: U16,
   pdc_name: Seq(0 .. 255), pmu_name_prefix: Seq(0 .. 255), protocol_version: 0 .. 255,
   v2_good_stat_pmu_ids: Seq(U16), data_rate_hz: U16, time_base: Nat,
   nominal_frequency_hz: U16,
   voltage_magnitude: F32, voltage_variation: F32, voltage_class: F32,
   voltage_scale: F32, current_magnitude: F32, current_variation: F32,
   current_scale: F32, frequency_deviation_hz: SignalRecipe,
   rocof_hz_per_s: SignalRecipe]

\* WireVersion::try_from
WireVersions == {2, 3}

validate_limits(p) ==
  /\ p.max_logical_pmus \in 1 .. MAX_LOGICAL_PMUS
  /\ p.max_clients_per_endpoint = 2
  /\ p.max_command_frame_bytes \in 18 .. MAX_COMMAND_FRAME_BYTES
  /\ p.receive_buffer_bytes \in 1 .. MAX_COMMAND_FRAME_BYTES
  /\ p.send_buffer_bytes \in 1 .. MAX_COMMAND_FRAME_BYTES

(* Fault: the sum wraps at 16 bits instead of being refused. *)
final_identifier_wraps(first, offset) ==
  /\ first # 0
  /\ (first + offset) % (U16_MAX + 1) # U16_MAX

final_identifier(first, offset) ==
  /\ first + offset <= U16_MAX
  /\ first # 0
  /\ first + offset # U16_MAX

validate_v2_good_stat_pmu_ids(p) ==
  LET ids == p.v2_good_stat_pmu_ids
  IN  /\ ids # << >> => p.protocol_version = 2
      /\ \A i \in DOMAIN ids :
           ids[i] \in p.first_pmu_id .. (p.first_pmu_id + p.count - 1)
      /\ \A i, j \in DOMAIN ids : ids[i] = ids[j] => i = j

validate_finite(v) == v # NotFinite
validate_positive_finite(v) == validate_finite(v) /\ v > 0
validate_non_negative(v) == validate_finite(v) /\ v >= 0

validate_fixed_magnitude_range(nominal, variation, scale) ==
  nominal + variation <= U16_MAX * scale

ValidPhasor(magnitude, variation, scale) ==
  /\ validate_positive_finite(magnitude)
  /\ validate_non_negative(variation)
  /\ variation <= magnitude
  /\ validate_positive_finite(scale)
  /\ validate_fixed_magnitude_range(magnitude, variation, scale)

Magnitude(v) == IF v < 0 THEN -v ELSE v

(* Fault: only the nominal value is compared with the limit. *)
ValidSignal_nominal(recipe, limit) ==
  /\ validate_finite(recipe.nominal)
  /\ validate_non_negative(recipe.variation)
  /\ Magnitude(recipe.nominal) <= limit

ValidSignal(recipe, limit) ==
  /\ validate_finite(recipe.nominal)
  /\ validate_non_negative(recipe.variation)
  /\ Magnitude(recipe.nominal) + recipe.variation <= limit

IsControl(b) == b < 32 \/ b = 127
IsPrintable(b) == b \in 32 .. 126

encoded_name(name) ==
  /\ Len(name) \in 1 .. 255
  /\ \A i \in DOMAIN name : ~IsControl(name[i])

v2_fixed_ascii(name) ==
  /\ Len(name) \in 1 .. V2_NAME_FIELD_BYTES
  /\ \A i \in DOMAIN name : IsPrintable(name[i])

\* format!("{}{:03}", prefix, number)
PmuName(prefix, number) ==
  prefix \o <<48 + (number \div 100), 48 + ((number \div 10) % 10), 48 + (number % 10)>>

validate_fleet(p) ==
  /\ p.count \in 1 .. p.max_logical_pmus
  /\ p.protocol_version \in WireVersions
  /\ p.data_rate_hz = 50
  /\ p.time_base \in 1 .. TIME_BASE_MAX
  /\ p.time_base % p.data_rate_hz = 0
  /\ p.nominal_frequency_hz \in {50, 60}
  /\ encoded_name(p.pdc_name)
  /\ encoded_name(PmuName(p.pmu_name_prefix, p.count))
  /\ final_identifier(p.first_stream_id, p.count - 1)
  /\ final_identifier(p.first_pmu_id, p.count - 1)
  /\ validate_v2_good_stat_pmu_ids(p)
  /\ validate_non_negative(p.voltage_class)
  /\ ValidPhasor(p.voltage_magnitude, p.voltage_variation, p.voltage_scale)
  /\ ValidPhasor(p.current_magnitude, p.current_variation, p.current_scale)
  /\ ValidSignal(p.frequency_deviation_hz, 32767000)
  /\ ValidSignal(p.rocof_hz_per_s, 327670000)

\* f32::round, which rounds halves away from zero
Round(n, d) ==
  IF n >= 0 THEN (2 * n + d) \div (2 * d) ELSE -((d - 2 * n) \div (2 * d))

\* PHUNIT in units of 10^-5, that is ten millionths
Phunit(scale) == Round(scale, 10)

\* v2_phunit accepts the scale; v2_phunits puts the current flag in bits 24..31
v2_phunit(scale) == Phunit(scale) \in 1 .. PHUNIT_MAX
v2_phunits(p) ==
  [c \in 1 .. PHASOR_COUNT |->
     IF c <= 3 THEN Phunit(p.voltage_scale)
               ELSE (PHUNIT_MAX + 1) + Phunit(p.current_scale)]

Accepted(p) ==
  /\ validate_limits(p)
  /\ validate_fleet(p)
  /\ p.first_listen_port # 0
  /\ p.first_listen_port + p.count - 1 <= U16_MAX
  /\ p.protocol_version = 2 =>
       /\ v2_phunit(p.voltage_scale)
       /\ v2_phunit(p.current_scale)
       /\ \A n \in 1 .. p.count : v2_fixed_ascii(PmuName(p.pmu_name_prefix, n))
  /\ p.protocol_version = 3 =>
       \A n \in 1 .. p.count : encoded_name(PmuName(p.pmu_name_prefix, n))

\* The splitmix64 words are external arithmetic; the version and variant bits
\* are set as the code sets them.
deterministic_uuid(index) ==
  [Mixed[index] EXCEPT ![7] = 64 + (@ % 16), ![9] = 128 + (@ % 64)]

Descriptor(p, index) ==
  [index |-> index, port |-> p.first_listen_port + index,
   stream_id |-> p.first_stream_id + index,
   pmu_id |-> p.first_pmu_id + index,
   version |-> p.protocol_version,
   good_stat |-> Contains(p.v2_good_stat_pmu_ids, p.first_pmu_id + index),
   pdc_name |-> p.pdc_name,
   pmu_name |-> PmuName(p.pmu_name_prefix, index + 1),
   global_pmu_id |-> deterministic_uuid(index), phunits |-> v2_phunits(p),
   recipe |-> p]

-----------------------------------------------------------------------------
(***************************************************************************)
(* The sample values.  waveform() is a sine: its extremes and its zero     *)
(* stand for it.  A cast to u16 or i16 saturates.                          *)
(***************************************************************************)
waveform == {-1, 0, 1}

Saturated(n, low, high) == IF n < low THEN low ELSE IF n > high THEN high ELSE n

fixed_magnitude(value, scale) == Saturated(Round(value, scale), 0, U16_MAX)
fixed_frequency(value) == Saturated(Round(value, 1000), -32768, 32767)
fixed_rocof(value) == Saturated(Round(value, 10000), -32768, 32767)

\* What one count on the wire stands for: V3 sends the configured scale, V2
\* the PHUNIT it was rounded to.
Step(e, signal) ==
  CASE signal = "voltage" -> IF e.version = 3 THEN e.recipe.voltage_scale
                             ELSE 10 * (e.phunits[1] % (PHUNIT_MAX + 1))
    [] signal = "current" -> IF e.version = 3 THEN e.recipe.current_scale
                             ELSE 10 * (e.phunits[4] % (PHUNIT_MAX + 1))
    [] signal = "frequency" -> 1000
    [] signal = "rocof" -> 10000

\* What the profile calls it.
Scale(e, signal) ==
  CASE signal = "voltage" -> e.recipe.voltage_scale
    [] signal = "current" -> e.recipe.current_scale
    [] OTHER -> Step(e, signal)

\* A compiled excursion: finite, and otherwise as the catalog has it.
SignalExcursion == [voltage: Int, frequency: Int, rocof: Int]
NoExcursion == [voltage |-> 0, frequency |-> 0, rocof |-> 0]

\* The true value of a signal of endpoint e at a sample.
Value(e, signal, wave, x) ==
  CASE signal = "voltage" -> e.recipe.voltage_magnitude
                               + e.recipe.voltage_variation * wave + x.voltage
    [] signal = "current" -> e.recipe.current_magnitude
                               + e.recipe.current_variation * wave
    [] signal = "frequency" -> e.recipe.frequency_deviation_hz.nominal
             + e.recipe.frequency_deviation_hz.variation * wave + x.frequency
    [] signal = "rocof" -> e.recipe.rocof_hz_per_s.nominal
                     + e.recipe.rocof_hz_per_s.variation * wave + x.rocof

\* The count the codec writes for it.
Count(e, signal, value) ==
  CASE signal \in {"voltage", "current"} -> fixed_magnitude(value, Step(e, signal))
    [] signal = "frequency" -> fixed_frequency(value)
    [] signal = "rocof" -> fixed_rocof(value)

Signals == {"voltage", "current", "frequency", "rocof"}

Sample(e, signal, wave, x) ==
  LET v == Value(e, signal, wave, x)
  IN  [signal |-> signal, value |-> v, count |-> Count(e, signal, v),
       step |-> Step(e, signal), scale |-> Scale(e, signal), excursion |-> x,
       plain |-> Count(e, signal, Value(e, signal, wave, NoExcursion))]
=============================================================================
