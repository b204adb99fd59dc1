---------------------------- MODULE ReportingClock ----------------------------
(***************************************************************************)
(* When a sample is due and what time it carries: Scheduler and WallClock  *)
(* of src/server.rs, and the time health of src/time_health.rs observed at *)
(* every boundary.  The wall clock is read once to align the first sample; *)
(* from then on the monotonic clock paces the samples, while the host's    *)
(* wall clock may be stepped at any time and is only watched.              *)
(*                                                                         *)
(* Instants are nanoseconds; NANOS of them make a second.                  *)
(***************************************************************************)
EXTENDS Integers

CONSTANTS
  NANOS,          \* 1_000_000_000 in the code
  data_rate_hz,
  time_base,
  MaxSoc,         \* u32::MAX
  StartTimes,     \* wall clock readings at start-up
  MaxLag,         \* nanoseconds between the two clock readings at start-up
  MaxMono,        \* bound on the monotonic clock
  ClockSteps,     \* sizes of wall clock steps
  MaxSteps        \* bound on the number of steps

(* config.rs admits only a time base that is a multiple of the rate.       *)
ASSUME ClockAssumption ==
  /\ NANOS \in Nat \ {0}
  /\ data_rate_hz \in Nat \ {0}
  /\ time_base \in Nat \ {0}
  /\ time_base % data_rate_hz = 0
  /\ MaxSoc \in Nat
  /\ StartTimes \subseteq Nat
  /\ MaxLag \in Nat /\ MaxMono \in Nat /\ MaxSteps \in Nat
  /\ ClockSteps \subseteq Int

VARIABLES
  mono,                      \* Instant::now
  wall,                      \* SystemTime::now
  origin,                    \* true time at mono = 0, no step counted
  steps, stepped_back,       \* steps so far; one back since the last boundary
  started, first_timestamp, next_sample_index, skipped_ticks,
  boundaries,                \* number of boundaries taken
  frame,                     \* the last sample taken, its time stamp and when
  last_observed_wall_clock,  \* 0 or 1 readings, as an Option
  time_health_state

clockVars == <<mono, wall, steps, stepped_back>>
serverVars == <<started, first_timestamp, next_sample_index, skipped_ticks,
                boundaries, frame, last_observed_wall_clock, time_health_state>>
vars == <<clockVars, origin, serverVars>>

ticks_per_frame == time_base \div data_rate_hz
reporting_interval == NANOS \div data_rate_hz
Minimum(a, b) == IF a < b THEN a ELSE b
SaturatingSub(a, b) == IF a < b THEN 0 ELSE a - b

TimestampOf(ticks) == [soc |-> ticks \div time_base, fracsec |-> ticks % time_base]
Ticks(timestamp) == timestamp.soc * time_base + timestamp.fracsec

-----------------------------------------------------------------------------
(* WallClock.                                                              *)

(* The first frame boundary after `now`; binding fails if its second does  *)
(* not fit.                                                                *)
aligned_timestamp(now) ==
  LET total_ticks == (now \div NANOS) * time_base
                       + ((now % NANOS) * time_base) \div NANOS
  IN  TimestampOf((total_ticks \div ticks_per_frame + 1) * ticks_per_frame)

(* Fault: the boundary is rounded down to a nanosecond.                    *)
delay_until_timestamp_floor(now, timestamp) ==
  SaturatingSub((Ticks(timestamp) * NANOS) \div time_base, now)

(* The boundary in nanoseconds, rounded up.                                *)
TargetNanos(timestamp) == (Ticks(timestamp) * NANOS + time_base - 1) \div time_base

delay_until_timestamp(now, timestamp) == SaturatingSub(TargetNanos(timestamp), now)

(* Fault: the carry into the seconds is lost.                              *)
timestamp_for_sample_uncarried(sample) ==
  [first_timestamp EXCEPT !.fracsec = (@ + sample * ticks_per_frame) % time_base]

(* The elapsed seconds are truncated to their width, then added with       *)
(* saturation.                                                             *)
timestamp_for_sample(sample) ==
  LET total_ticks == first_timestamp.fracsec + sample * ticks_per_frame
      seconds == (total_ticks \div time_base) % (MaxSoc + 1)
  IN  [soc |-> Minimum(MaxSoc, first_timestamp.soc + seconds),
       fracsec |-> total_ticks % time_base]

-----------------------------------------------------------------------------
(* Scheduler.                                                              *)

sample_offset(sample) == (sample * NANOS) \div data_rate_hz

timeout(now) == SaturatingSub(started + sample_offset(next_sample_index), now)

(* Fault: samples that were missed are made up for one by one.             *)
CurrentIndex_catching_up(now) ==
  Minimum(next_sample_index, (SaturatingSub(now, started) * data_rate_hz) \div NANOS)

CurrentIndex(now) == (SaturatingSub(now, started) * data_rate_hz) \div NANOS

IsDue(now) == CurrentIndex(now) >= next_sample_index

(* Faults of the bookkeeping: the taken sample stays next, or counts as    *)
(* skipped.                                                                *)
take_due_repeating(index) ==
  /\ skipped_ticks' = skipped_ticks + (index - next_sample_index)
  /\ next_sample_index' = index

take_due_miscounting(index) ==
  /\ skipped_ticks' = skipped_ticks + (index + 1 - next_sample_index)
  /\ next_sample_index' = index + 1

take_due(index) ==
  /\ skipped_ticks' = skipped_ticks + (index - next_sample_index)
  /\ next_sample_index' = index + 1

-----------------------------------------------------------------------------
(* Time health.                                                            *)

has_material_clock_regression ==
  \E last \in last_observed_wall_clock : last - wall > reporting_interval

(* Fault: a reading that went back is not remembered.                      *)
Observe_highest ==
  last_observed_wall_clock' =
    {IF \E last \in last_observed_wall_clock : last > wall
       THEN CHOOSE last \in last_observed_wall_clock : TRUE ELSE wall}

Observe == last_observed_wall_clock' = {wall}

(* A reading before the epoch is not trusted either.                       *)
observe_boundary(verified) ==
  /\ time_health_state' =
       IF wall < 0 \/ ~verified THEN "SynchronizationUnverified"
       ELSE IF has_material_clock_regression THEN "MaterialClockRegression"
       ELSE "Verified"
  /\ Observe

-----------------------------------------------------------------------------
NoFrame == [sample |-> -1, timestamp |-> [soc |-> 0, fracsec |-> 0], at |-> 0]

(* bind_inner: aligned_start reads the wall clock, then the monotonic one. *)
Init ==
  \E now \in StartTimes, lag \in 0..MaxLag :
    /\ aligned_timestamp(now).soc <= MaxSoc
    /\ mono = lag
    /\ wall = now + lag
    /\ origin = now
    /\ steps = 0
    /\ stepped_back = FALSE
    /\ first_timestamp = aligned_timestamp(now)
    /\ started = lag + delay_until_timestamp(now, aligned_timestamp(now))
    /\ next_sample_index = 0
    /\ skipped_ticks = 0
    /\ boundaries = 0
    /\ frame = NoFrame
    /\ last_observed_wall_clock = {}
    /\ time_health_state = "Unobserved"

(* One iteration of run_until that finds a sample due: emit_data stamps    *)
(* and sends it and observes the wall clock.  The loop runs whenever the   *)
(* poll returns, for its timeout or for any event.                         *)
emit_data(verified) ==
  /\ IsDue(mono)
  /\ take_due(CurrentIndex(mono))
  /\ frame' = [sample |-> CurrentIndex(mono),
               timestamp |-> timestamp_for_sample(CurrentIndex(mono)),
               at |-> mono]
  /\ observe_boundary(verified)
  /\ boundaries' = boundaries + 1
  /\ stepped_back' = FALSE
  /\ UNCHANGED <<mono, wall, steps, origin, started, first_timestamp>>

TimePasses ==
  /\ mono < MaxMono
  /\ mono' = mono + 1
  /\ wall' = wall + 1
  /\ UNCHANGED <<steps, stepped_back, origin, serverVars>>

StepClock(size) ==
  /\ steps < MaxSteps
  /\ steps' = steps + 1
  /\ wall' = wall + size
  /\ stepped_back' = (stepped_back \/ size < 0)
  /\ UNCHANGED <<mono, origin, serverVars>>

Next ==
  \/ \E verified \in BOOLEAN : emit_data(verified)
  \/ TimePasses
  \/ \E size \in ClockSteps : StepClock(size)

Spec == Init /\ [][Next]_vars
-----------------------------------------------------------------------------
(* Properties.                                                             *)

(* Sample indices strictly increase, however late the loop is: the premise *)
(* under which advance_boundary never fails the process.                   *)
SamplesIncrease == [][frame' # frame => frame'.sample > frame.sample]_vars

TrueTime(instant) == origin + instant

(* Time stamps strictly increase whatever happens to the host's clock,     *)
(* until the last second the wire format can express is reached.           *)
TimestampsIncrease ==
  [][frame' # frame /\ frame.sample >= 0 /\ TrueTime(frame'.at) < MaxSoc * NANOS
       => Ticks(frame'.timestamp) > Ticks(frame.timestamp)]_vars

(* Every index below the next one was either taken or counted as skipped.  *)
TicksAreAccounted == boundaries + skipped_ticks = next_sample_index

(* Index, due time and stamp of a sample agree for any rounding of rates,  *)
(* time bases and clock readings.  No sample after the first is taken      *)
(* before the instant it is stamped with (the first is taken by the first  *)
(* poll that returns: take_due saturates the time elapsed since started),  *)
(* and a loop that sleeps for the timeout it computed finds a sample due,  *)
(* at most one nanosecond of rounding later, and so does not spin.         *)
SamplesKeepTheirTime ==
  /\ frame.sample > 0 => TrueTime(frame.at) >= TargetNanos(frame.timestamp)
  /\ IsDue(mono + timeout(mono) + 1)

(* A late loop sends the current sample, not one that is already past.     *)
FramesAreCurrent ==
  frame.sample >= 0
    => (frame.at - started) * data_rate_hz < (frame.sample + 1) * NANOS

(* Health recovers at the first boundary after a regression: the alarm is  *)
(* raised only if the clock was set back since the boundary before.        *)
AlarmsAreFresh ==
  [][time_health_state' = "MaterialClockRegression" /\ boundaries' # boundaries
       => stepped_back]_vars
=============================================================================
