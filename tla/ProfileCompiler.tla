--------------------------- MODULE ProfileCompiler ---------------------------
(***************************************************************************)
(* Starting with a profile: it is compiled or refused, and an accepted one *)
(* has its signals put on the wire.                                        *)
(***************************************************************************)
EXTENDS Profile

CONSTANTS Profiles,    \* the raw profiles a run reads
          Excursions   \* the signal excursions a scenario catalog may hold

ASSUME ProfilesAssumption ==
  /\ NotFinite \notin Int
  /\ Profiles \subseteq RawProfile
ASSUME ExcursionsAssumption == Excursions \subseteq SignalExcursion

VARIABLES profile,     \* the raw profile being started with
          endpoints,   \* its compiled descriptors, << >> until compiled
          outcome,     \* "unread", "rejected" or "compiled"
          reading      \* the last signal put on the wire

compilerVars == <<profile, endpoints, outcome, reading>>

compile_profile ==
  /\ outcome = "unread"
  /\ IF Accepted(profile)
     THEN /\ outcome' = "compiled"
          /\ endpoints' = [n \in 1 .. profile.count |-> Descriptor(profile, n - 1)]
     ELSE /\ outcome' = "rejected"
          /\ UNCHANGED endpoints
  /\ UNCHANGED <<profile, reading>>

NoReading == [signal |-> "none"]

\* One value of a data frame of the first or the last endpoint; a behaviour
\* looks at one value.
encode_periodic_data ==
  /\ outcome = "compiled"
  /\ reading = NoReading
  /\ \E i \in {1, Len(endpoints)}, s \in Signals, w \in waveform,
        x \in Excursions \cup {NoExcursion} :
       reading' = Sample(endpoints[i], s, w, x)
  /\ UNCHANGED <<profile, endpoints, outcome>>

CompilerInit ==
  /\ profile \in Profiles
  /\ endpoints = << >>
  /\ outcome = "unread"
  /\ reading = NoReading

CompilerNext == compile_profile \/ encode_periodic_data

CompilerSpec == CompilerInit /\ [][CompilerNext]_compilerVars
-----------------------------------------------------------------------------
(* The fleet of an accepted profile never shares an address or an identity:
   the arithmetic that expands first_listen_port, first_stream_id and
   first_pmu_id neither wraps at 16 bits nor reaches the reserved identifiers
   0 and 65535, and the PMUs that report a good STAT are exactly the listed
   ones, however many endpoints there are. *)
FleetIsDistinct ==
  outcome = "compiled" =>
    /\ \A i \in DOMAIN endpoints :
         /\ endpoints[i].port \in 1 .. U16_MAX
         /\ endpoints[i].stream_id \in 1 .. U16_MAX - 1
         /\ endpoints[i].pmu_id \in 1 .. U16_MAX - 1
    /\ \A i, j \in DOMAIN endpoints :
         \/ endpoints[i].port = endpoints[j].port
         \/ endpoints[i].stream_id = endpoints[j].stream_id
         \/ endpoints[i].pmu_id = endpoints[j].pmu_id
         => i = j
    /\ {endpoints[i].pmu_id : i \in {k \in DOMAIN endpoints : endpoints[k].good_stat}}
         = ToSet(profile.v2_good_stat_pmu_ids)

\* What a PDC reads back is the count times the step the configuration frame
\* announces.
ReadsBack(r) == 2 * Magnitude(r.count * r.step - r.value) <= r.step

(* Outside a signal excursion, what a PDC reads back is within half a step of
   the signal of an accepted profile: no conversion saturates, at either end
   of the variation and at the limits of the ranges validate_fleet allows.
   There is one exception: validate_fixed_magnitude_range divides by the
   configured scale, and a V2 endpoint encodes with the PHUNIT that scale was
   rounded to; where it was rounded down, a magnitude beyond its reach is sent
   as full scale.  compile_signal bounds no excursion, so a sample may then
   leave the wire range; the cast saturates, and a positive excursion never
   shows as a drop nor a negative one as a rise. *)
SamplesFitTheWire ==
  reading # NoReading =>
    /\ reading.excursion = NoExcursion =>
         \/ ReadsBack(reading)
         \/ /\ reading.step < reading.scale
            /\ reading.count = U16_MAX /\ reading.count * reading.step < reading.value
    /\ reading.signal \in {"voltage", "frequency", "rocof"} =>
         /\ reading.excursion[reading.signal] >= 0 => reading.count >= reading.plain
         /\ reading.excursion[reading.signal] <= 0 => reading.count <= reading.plain
=============================================================================
