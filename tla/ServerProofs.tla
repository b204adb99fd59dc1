----------------------------- MODULE ServerProofs -----------------------------
(***************************************************************************)
(* What holds of the two parts of src/server.rs below its event loop: the  *)
(* clock (ReportingClock), for every rate, time base and clock resolution, *)
(* and the receive buffer of a PDC connection (CommandStream), for every   *)
(* set of frames, size of the buffer and way to cut the stream.            *)
(***************************************************************************)
EXTENDS ReportingClock, CommandStream, SequenceTheorems, TLAPS

-----------------------------------------------------------------------------
(* The clock.                                                              *)

(* Integer division by a positive number returns an integer that is off by *)
(* less than one: the arithmetic of take_due.                              *)
LEMMA Division ==
  ASSUME NEW a \in Int, NEW n \in Nat, n > 0
  PROVE  /\ a \div n \in Int
         /\ a < (a \div n + 1) * n
         /\ 0 <= a => 0 <= a \div n
<1>1. a \div n \in Int
  OBVIOUS
<1>2. a = n * (a \div n) + (a % n) /\ a % n \in 0..(n - 1)
  OBVIOUS
<1>3. (a \div n + 1) * n = n * (a \div n) + n
  BY <1>1
<1>4. 0 <= a => 0 <= a \div n
  BY <1>1
<1> QED
  BY <1>1, <1>2, <1>3, <1>4

(* Multiplying by a rate keeps the order of instants.                      *)
LEMMA Scaling ==
  ASSUME NEW a \in Int, NEW b \in Int, NEW n \in Nat, a <= b
  PROVE  a * n <= b * n
  OBVIOUS

(* The scheduler's counters, and the index of the last sample below the    *)
(* next one: what every call of take_due finds and leaves.                 *)
Indices ==
  /\ mono \in Int
  /\ started \in Int
  /\ first_timestamp \in [soc: Int, fracsec: Int]
  /\ next_sample_index \in Nat
  /\ skipped_ticks \in Int
  /\ boundaries \in Int
  /\ frame \in [sample: Int, timestamp: [soc: Int, fracsec: Int], at: Int]
  /\ frame.sample < next_sample_index

(* The inductive invariant: the counters with what the runs check of them. *)
SchedulerInv == Indices /\ TicksAreAccounted /\ FramesAreCurrent

(* The sample that is due is an index, and the time elapsed since the      *)
(* start lies before the sample after it.                                  *)
LEMMA DueSample ==
  ASSUME Indices
  PROVE  /\ CurrentIndex(mono) \in Nat
         /\ (mono - started) * data_rate_hz < (CurrentIndex(mono) + 1) * NANOS
<1> DEFINE elapsed == SaturatingSub(mono, started)
<1>1. elapsed \in Int /\ 0 <= elapsed /\ mono - started <= elapsed
  BY DEF Indices, SaturatingSub
<1>2. NANOS \in Nat /\ NANOS > 0 /\ data_rate_hz \in Nat
  BY ClockAssumption
<1>3. elapsed * data_rate_hz \in Int /\ 0 * data_rate_hz <= elapsed * data_rate_hz
  BY <1>1, <1>2, Scaling
<1>4. (mono - started) * data_rate_hz <= elapsed * data_rate_hz
  BY <1>1, <1>2, Scaling DEF Indices
<1>5. CurrentIndex(mono) = (elapsed * data_rate_hz) \div NANOS
  BY DEF CurrentIndex
<1> HIDE DEF elapsed
<1>6. /\ (elapsed * data_rate_hz) \div NANOS \in Nat
      /\ elapsed * data_rate_hz < ((elapsed * data_rate_hz) \div NANOS + 1) * NANOS
  BY <1>2, <1>3, Division
<1>7. (mono - started) * data_rate_hz \in Int
  BY <1>2 DEF Indices
<1>8. (CurrentIndex(mono) + 1) * NANOS \in Int
  BY <1>2, <1>5, <1>6
<1> QED
  BY <1>3, <1>4, <1>5, <1>6, <1>7, <1>8

(* The alignment computed at start-up returns integers.                    *)
LEMMA AlignedStart ==
  ASSUME NEW now \in StartTimes, NEW lag \in 0..MaxLag
  PROVE  /\ lag + delay_until_timestamp(now, aligned_timestamp(now)) \in Int
         /\ aligned_timestamp(now) \in [soc: Int, fracsec: Int]
<1>1. /\ now \in Int /\ lag \in Int
      /\ NANOS \in Nat /\ NANOS > 0 /\ time_base \in Nat /\ time_base > 0
      /\ data_rate_hz \in Nat /\ data_rate_hz > 0
  BY ClockAssumption
<1>2. /\ TargetNanos(aligned_timestamp(now)) \in Int
      /\ aligned_timestamp(now) \in [soc: Int, fracsec: Int]
  <2>1. ASSUME NEW timestamp \in [soc: Int, fracsec: Int]
        PROVE  TargetNanos(timestamp) \in Int
    BY <1>1 DEF TargetNanos, Ticks
  <2>2. ASSUME NEW ticks \in Int
        PROVE  TimestampOf(ticks) \in [soc: Int, fracsec: Int]
    BY <1>1 DEF TimestampOf
  <2>3. ticks_per_frame \in Int
    BY <1>1 DEF ticks_per_frame
  <2>4. ASSUME NEW sum \in Int
        PROVE  (sum \div ticks_per_frame + 1) * ticks_per_frame \in Int
    <3>1. ticks_per_frame > 0
      BY <1>1, ClockAssumption DEF ticks_per_frame
    <3> QED
      BY <2>3, <3>1
  <2>5. (now \div NANOS) * time_base + ((now % NANOS) * time_base) \div NANOS \in Int
    BY <1>1
  <2> QED
    BY <2>1, <2>2, <2>4, <2>5 DEF aligned_timestamp
<1> QED
  BY <1>1, <1>2 DEF delay_until_timestamp, SaturatingSub

(* bind_inner establishes the scheduler's invariant.                       *)
LEMMA StartsAccounted == Init => SchedulerInv
<1> SUFFICES ASSUME Init PROVE SchedulerInv
  OBVIOUS
<1>1. PICK now \in StartTimes, lag \in 0..MaxLag :
        /\ mono = lag
        /\ first_timestamp = aligned_timestamp(now)
        /\ started = lag + delay_until_timestamp(now, aligned_timestamp(now))
        /\ next_sample_index = 0 /\ skipped_ticks = 0 /\ boundaries = 0
        /\ frame = NoFrame
  BY DEF Init
<1>2. /\ started \in Int /\ mono \in Int
      /\ first_timestamp \in [soc: Int, fracsec: Int]
  BY <1>1, AlignedStart, ClockAssumption
<1>3. Indices
  BY <1>1, <1>2 DEF Indices, NoFrame
<1>4. TicksAreAccounted /\ FramesAreCurrent
  BY <1>1 DEF TicksAreAccounted, FramesAreCurrent, NoFrame
<1> QED
  BY <1>3, <1>4 DEF SchedulerInv

(* A stamp is a pair of integers for every sample.                         *)
LEMMA StampType ==
  ASSUME NEW sample \in Nat, first_timestamp \in [soc: Int, fracsec: Int]
  PROVE  timestamp_for_sample(sample) \in [soc: Int, fracsec: Int]
  BY ClockAssumption DEF timestamp_for_sample, Minimum, ticks_per_frame

(* One boundary: emit_data keeps the invariant and takes a later sample.   *)
LEMMA Boundary ==
  ASSUME SchedulerInv, NEW verified \in BOOLEAN, emit_data(verified)
  PROVE  SchedulerInv' /\ frame'.sample > frame.sample
<1> DEFINE index == CurrentIndex(mono)
<1>1. index \in Nat /\ (mono - started) * data_rate_hz < (index + 1) * NANOS
  BY DueSample DEF SchedulerInv
<1>2. /\ frame' = [sample |-> index, timestamp |-> timestamp_for_sample(index), at |-> mono]
      /\ index >= next_sample_index
      /\ skipped_ticks' = skipped_ticks + (index - next_sample_index)
      /\ next_sample_index' = index + 1
      /\ boundaries' = boundaries + 1
      /\ mono' = mono /\ started' = started /\ first_timestamp' = first_timestamp
  BY DEF emit_data, IsDue, take_due
<1> HIDE DEF index
<1>3. timestamp_for_sample(index) \in [soc: Int, fracsec: Int]
  BY <1>1, StampType DEF SchedulerInv, Indices
<1>4. Indices'
  BY <1>1, <1>2, <1>3 DEF SchedulerInv, Indices
<1>5. TicksAreAccounted'
  BY <1>1, <1>2 DEF SchedulerInv, Indices, TicksAreAccounted
<1>6. FramesAreCurrent'
  BY <1>1, <1>2 DEF FramesAreCurrent
<1>7. frame'.sample > frame.sample
  BY <1>1, <1>2 DEF SchedulerInv, Indices
<1> QED
  BY <1>4, <1>5, <1>6, <1>7 DEF SchedulerInv

(* Every step keeps the invariant, and one that changes the frame takes a  *)
(* later sample.                                                           *)
LEMMA StepsStayAccounted ==
  ASSUME SchedulerInv, [Next]_vars
  PROVE  SchedulerInv' /\ (frame' # frame => frame'.sample > frame.sample)
<1>1. ASSUME NEW verified \in BOOLEAN, emit_data(verified)
      PROVE  SchedulerInv' /\ frame'.sample > frame.sample
  BY <1>1, Boundary
<1>2. CASE TimePasses
  BY <1>2 DEF TimePasses, serverVars, SchedulerInv, Indices, TicksAreAccounted, FramesAreCurrent
<1>3. ASSUME NEW size \in ClockSteps, StepClock(size)
      PROVE  SchedulerInv' /\ frame' = frame
  BY <1>3 DEF StepClock, serverVars, SchedulerInv, Indices, TicksAreAccounted, FramesAreCurrent
<1>4. CASE UNCHANGED vars
  BY <1>4 DEF vars, clockVars, serverVars, SchedulerInv, Indices, TicksAreAccounted,
              FramesAreCurrent
<1>5. TimePasses => frame' = frame
  BY DEF TimePasses, serverVars
<1>6. UNCHANGED vars => frame' = frame
  BY DEF vars, serverVars
<1> QED
  BY <1>1, <1>2, <1>3, <1>4, <1>5, <1>6 DEF Next

(* The scheduler's invariant holds for ever.                               *)
THEOREM SchedulerIsConsistent == Spec => []SchedulerInv
<1>1. Init => SchedulerInv
  BY StartsAccounted
<1>2. SchedulerInv /\ [Next]_vars => SchedulerInv'
  BY StepsStayAccounted
<1> QED
  BY <1>1, <1>2, PTL DEF Spec

(* No index is lost or counted twice: skipped_ticks is exact.              *)
THEOREM TicksAccounted == Spec => []TicksAreAccounted
<1>1. SchedulerInv => TicksAreAccounted
  BY DEF SchedulerInv
<1> QED
  BY <1>1, SchedulerIsConsistent, PTL

(* take_due never hands out a sample whose successor is already due.       *)
THEOREM SamplesAreCurrent == Spec => []FramesAreCurrent
<1>1. SchedulerInv => FramesAreCurrent
  BY DEF SchedulerInv
<1> QED
  BY <1>1, SchedulerIsConsistent, PTL

(* Samples are taken in order, so that advance_boundary cannot fail the    *)
(* process with a sample that is not later than the last.                  *)
THEOREM SamplesInOrder == Spec => SamplesIncrease
<1>1. SchedulerInv /\ [Next]_vars => [frame' # frame => frame'.sample > frame.sample]_vars
  BY StepsStayAccounted
<1> QED
  BY <1>1, SchedulerIsConsistent, PTL DEF Spec, SamplesIncrease

(* Between two boundaries the clock is behind the last reading only if it  *)
(* was set back.                                                           *)
ReadingInv ==
  /\ wall \in Int
  /\ last_observed_wall_clock \subseteq Int
  /\ stepped_back \in BOOLEAN
  /\ ~stepped_back => \A last \in last_observed_wall_clock : last <= wall

(* The regression alarm is never stale: whatever the host's clock did      *)
(* earlier, observe_boundary raises it only for a step back since the      *)
(* boundary before.                                                        *)
THEOREM AlarmsFollowSteps == Spec => AlarmsAreFresh
<1>1. Init => ReadingInv
  <2> SUFFICES ASSUME Init PROVE ReadingInv
    OBVIOUS
  <2>1. stepped_back = FALSE /\ last_observed_wall_clock = {}
    BY DEF Init
  <2>2. wall \in Int
    <3>1. PICK now \in StartTimes, lag \in 0..MaxLag : wall = now + lag
      BY DEF Init
    <3>2. now \in Int /\ lag \in Int
      BY ClockAssumption
    <3> QED
      BY <3>1, <3>2
  <2>3. last_observed_wall_clock \subseteq Int
    BY <2>1
  <2>4. \A last \in last_observed_wall_clock : last <= wall
    BY <2>1
  <2>5. stepped_back \in BOOLEAN
    BY <2>1
  <2> QED
    BY <2>2, <2>3, <2>4, <2>5 DEF ReadingInv
<1>2. ReadingInv /\ [Next]_vars => ReadingInv'
  <2> SUFFICES ASSUME ReadingInv, [Next]_vars PROVE ReadingInv'
    OBVIOUS
  <2>1. ASSUME NEW verified \in BOOLEAN, emit_data(verified) PROVE ReadingInv'
    <3>1. /\ wall' = wall
          /\ last_observed_wall_clock' = {wall}
          /\ stepped_back' = FALSE
      BY <2>1 DEF emit_data, observe_boundary, Observe
    <3>2. wall \in Int
      BY DEF ReadingInv
    <3>3. last_observed_wall_clock' \subseteq Int
      BY <3>1, <3>2
    <3>4. \A last \in last_observed_wall_clock' : last <= wall'
      BY <3>1, <3>2
    <3>5. stepped_back' \in BOOLEAN
      BY <3>1
    <3> QED
      BY <3>1, <3>2, <3>3, <3>4, <3>5 DEF ReadingInv
  <2>2. CASE TimePasses
    BY <2>2 DEF TimePasses, serverVars, ReadingInv
  <2>3. ASSUME NEW size \in ClockSteps, StepClock(size) PROVE ReadingInv'
    <3>1. size \in Int
      BY ClockAssumption
    <3>2. /\ wall' = wall + size
          /\ last_observed_wall_clock' = last_observed_wall_clock
          /\ stepped_back' = (stepped_back \/ size < 0)
      BY <2>3 DEF StepClock, serverVars
    <3>3. wall' \in Int /\ last_observed_wall_clock' \subseteq Int
      BY <3>1, <3>2 DEF ReadingInv
    <3>4. stepped_back' \in BOOLEAN
      BY <3>2 DEF ReadingInv
    <3>5. ASSUME ~stepped_back' PROVE \A last \in last_observed_wall_clock' : last <= wall'
      <4>1. ~stepped_back /\ ~(size < 0)
        BY <3>2, <3>5
      <4>2. wall \in Int /\ \A last \in last_observed_wall_clock : last \in Int /\ last <= wall
        BY <4>1 DEF ReadingInv
      <4> QED
        BY <3>1, <3>2, <4>1, <4>2
    <3> QED
      BY <3>3, <3>4, <3>5 DEF ReadingInv
  <2>4. CASE UNCHANGED vars
    BY <2>4 DEF vars, clockVars, serverVars, ReadingInv
  <2> QED
    BY <2>1, <2>2, <2>3, <2>4 DEF Next
<1>3. ReadingInv /\ [Next]_vars =>
        [time_health_state' = "MaterialClockRegression" /\ boundaries' # boundaries
           => stepped_back]_vars
  <2> SUFFICES ASSUME ReadingInv, [Next]_vars, boundaries' # boundaries,
                      time_health_state' = "MaterialClockRegression"
               PROVE  stepped_back
    OBVIOUS
  <2>1. \E verified \in BOOLEAN : emit_data(verified)
    BY DEF Next, TimePasses, StepClock, vars, serverVars
  <2>2. has_material_clock_regression
    BY <2>1 DEF emit_data, observe_boundary
  <2>3. PICK last \in last_observed_wall_clock : last - wall > reporting_interval
    BY <2>2 DEF has_material_clock_regression
  <2>4. reporting_interval \in Nat
    BY ClockAssumption DEF reporting_interval
  <2> QED
    BY <2>3, <2>4 DEF ReadingInv
<1> QED
  BY <1>1, <1>2, <1>3, PTL DEF Spec, AlarmsAreFresh

-----------------------------------------------------------------------------
(* Stamps, indices and due times.                                          *)

(* A quotient is the largest integer whose multiple does not exceed the    *)
(* dividend.                                                               *)
LEMMA QuotientAbove ==
  ASSUME NEW a \in Int, NEW n \in Nat, n > 0, NEW q \in Int, q * n <= a
  PROVE  q <= a \div n
<1>1. a \div n \in Int /\ a < (a \div n + 1) * n
  BY Division
<1>2. CASE a \div n + 1 <= q
  BY <1>1, <1>2, Scaling
<1> QED
  BY <1>1, <1>2

LEMMA QuotientBelow ==
  ASSUME NEW a \in Int, NEW n \in Nat, n > 0, NEW q \in Int, a < (q + 1) * n
  PROVE  a \div n <= q
<1>1. a \div n \in Int
  BY Division
<1>2. (a \div n) * n <= a
  <2>1. a = n * (a \div n) + (a % n) /\ a % n \in 0..(n - 1)
    OBVIOUS
  <2>2. (a \div n) * n = n * (a \div n)
    BY <1>1
  <2> QED
    BY <1>1, <2>1, <2>2
<1>3. CASE q + 1 <= a \div n
  BY <1>1, <1>2, <1>3, Scaling
<1> QED
  BY <1>1, <1>3

(* The constants of the clock; a frame is a whole number of ticks.         *)
LEMMA Rates ==
  /\ NANOS \in Nat /\ NANOS > 0
  /\ data_rate_hz \in Nat /\ data_rate_hz > 0
  /\ time_base \in Nat /\ time_base > 0
  /\ ticks_per_frame \in Nat /\ ticks_per_frame > 0
  /\ ticks_per_frame * data_rate_hz = time_base
  /\ MaxSoc \in Nat
<1>1. /\ NANOS \in Nat /\ NANOS > 0 /\ data_rate_hz \in Nat /\ data_rate_hz > 0
      /\ time_base \in Nat /\ time_base > 0 /\ MaxSoc \in Nat
      /\ time_base % data_rate_hz = 0
  BY ClockAssumption
<1>2. /\ time_base \div data_rate_hz \in Int
      /\ time_base = data_rate_hz * (time_base \div data_rate_hz) + (time_base % data_rate_hz)
  BY <1>1
<1>3. ticks_per_frame \in Int /\ ticks_per_frame * data_rate_hz = time_base
  BY <1>1, <1>2 DEF ticks_per_frame
<1>4. ticks_per_frame > 0
  <2>1. CASE ticks_per_frame <= 0
    BY <1>1, <1>3, <2>1, Scaling
  <2> QED
    BY <1>3, <2>1
<1> QED
  BY <1>1, <1>3, <1>4

(* Ticks and nanoseconds: the boundary of a stamp is not after an instant  *)
(* whose ticks reach it, and its nanoseconds, rounded up, reach its ticks. *)
LEMMA TargetBelow ==
  ASSUME NEW timestamp \in [soc: Int, fracsec: Int], NEW instant \in Int,
         Ticks(timestamp) * NANOS <= instant * time_base
  PROVE  TargetNanos(timestamp) <= instant
<1> DEFINE X == Ticks(timestamp) * NANOS
<1>1. X \in Int
  BY Rates DEF Ticks
<1>2. X <= instant * time_base /\ TargetNanos(timestamp) = (X + time_base - 1) \div time_base
  BY DEF TargetNanos
<1> HIDE DEF X
<1>3. X + time_base - 1 < (instant + 1) * time_base
  <2>1. (instant + 1) * time_base = instant * time_base + time_base
    BY Rates
  <2> QED
    BY <1>1, <1>2, <2>1, Rates
<1> QED
  BY <1>1, <1>2, <1>3, Rates, QuotientBelow

LEMMA TargetReaches ==
  ASSUME NEW timestamp \in [soc: Int, fracsec: Int]
  PROVE  /\ TargetNanos(timestamp) \in Int
         /\ Ticks(timestamp) * NANOS <= TargetNanos(timestamp) * time_base
<1> DEFINE X == Ticks(timestamp) * NANOS
           Q == (X + time_base - 1) \div time_base
<1>1. X \in Int
  BY Rates DEF Ticks
<1>2. TargetNanos(timestamp) = Q
  BY DEF TargetNanos
<1> HIDE DEF X
<1>3. Q \in Int /\ X + time_base - 1 < (Q + 1) * time_base
  BY <1>1, Rates, Division
<1> HIDE DEF Q
<1>4. (Q + 1) * time_base = Q * time_base + time_base
  BY <1>3, Rates
<1>5. X <= Q * time_base
  BY <1>1, <1>3, <1>4, Rates
<1> QED
  BY <1>2, <1>3, <1>5 DEF X

(* What aligned_start leaves behind and no step changes: the first stamp   *)
(* is well formed, and the first sample is due when its time has come.     *)
StartsOnTime ==
  /\ origin \in Int
  /\ first_timestamp.soc \in Nat
  /\ first_timestamp.fracsec \in Nat
  /\ Ticks(first_timestamp) * NANOS <= (origin + started) * time_base

LEMMA AlignedStamp ==
  ASSUME NEW now \in StartTimes
  PROVE  aligned_timestamp(now).soc \in Nat /\ aligned_timestamp(now).fracsec \in Nat
<1> DEFINE sum == (now \div NANOS) * time_base + ((now % NANOS) * time_base) \div NANOS
           K == (sum \div ticks_per_frame + 1) * ticks_per_frame
<1>1. now \in Nat /\ now \div NANOS \in Nat /\ now % NANOS \in Nat
  BY Rates, ClockAssumption
<1>2. (now \div NANOS) * time_base \in Nat /\ (now % NANOS) * time_base \in Nat
  BY <1>1, Rates
<1>3. sum \in Nat
  BY <1>2, Rates, Division
<1> HIDE DEF sum
<1>4. sum \div ticks_per_frame \in Nat
  BY <1>3, Rates, Division
<1>5. K \in Nat
  BY <1>4, Rates
<1>6. aligned_timestamp(now) = TimestampOf(K)
  BY DEF aligned_timestamp, sum
<1> HIDE DEF K
<1>7. K \div time_base \in Nat /\ K % time_base \in Nat
  BY <1>5, Rates, Division
<1> QED
  BY <1>6, <1>7 DEF TimestampOf

LEMMA StartIsOnTime == Init => StartsOnTime
<1> SUFFICES ASSUME Init PROVE StartsOnTime
  OBVIOUS
<1>1. PICK now \in StartTimes, lag \in 0..MaxLag :
        /\ origin = now
        /\ first_timestamp = aligned_timestamp(now)
        /\ started = lag + delay_until_timestamp(now, aligned_timestamp(now))
  BY DEF Init
<1>2. now \in Int /\ lag \in Nat
  BY ClockAssumption
<1>3. /\ first_timestamp \in [soc: Int, fracsec: Int]
      /\ first_timestamp.soc \in Nat /\ first_timestamp.fracsec \in Nat
  BY <1>1, AlignedStart, AlignedStamp
<1>4. /\ TargetNanos(first_timestamp) \in Int
      /\ Ticks(first_timestamp) * NANOS <= TargetNanos(first_timestamp) * time_base
  BY <1>3, TargetReaches
<1>5. started \in Int /\ TargetNanos(first_timestamp) <= origin + started
  BY <1>1, <1>2, <1>4 DEF delay_until_timestamp, SaturatingSub
<1>6. TargetNanos(first_timestamp) * time_base <= (origin + started) * time_base
  BY <1>1, <1>2, <1>4, <1>5, Rates, Scaling
<1>7. /\ Ticks(first_timestamp) * NANOS \in Int
      /\ TargetNanos(first_timestamp) * time_base \in Int
      /\ (origin + started) * time_base \in Int
  BY <1>1, <1>2, <1>3, <1>4, <1>5, Rates DEF Ticks
<1> QED
  BY <1>1, <1>2, <1>3, <1>4, <1>6, <1>7 DEF StartsOnTime

(* The remainder never exceeds a natural dividend, and is it if the        *)
(* dividend is below the divisor.                                          *)
LEMMA Remainder ==
  ASSUME NEW a \in Nat, NEW n \in Nat, n > 0
  PROVE  /\ a \div n \in Nat /\ a % n \in Nat
         /\ a = (a \div n) * n + (a % n)
         /\ a % n <= a
         /\ a < n => a % n = a
<1>1. a \div n \in Nat
  BY Division
<1>2. a % n \in Nat /\ a = n * (a \div n) + (a % n)
  OBVIOUS
<1>3. a = (a \div n) * n + (a % n)
  BY <1>1, <1>2
<1>4. 0 * n <= (a \div n) * n
  BY <1>1, Scaling
<1>5. ASSUME a < n PROVE a \div n = 0
  <2>1. a < (0 + 1) * n
    BY <1>5
  <2>2. a \div n <= 0
    BY <2>1, QuotientBelow
  <2> QED
    BY <1>1, <2>2
<1>6. ASSUME a < n PROVE a % n = a
  BY <1>2, <1>3, <1>5, <1>6
<1> QED
  BY <1>1, <1>2, <1>3, <1>4, <1>6

(* A stamp never runs ahead of the tick of its sample, and is that tick as *)
(* long as the seconds fit their field.                                    *)
LEMMA StampOfSample ==
  ASSUME NEW sample \in Nat,
         first_timestamp.soc \in Nat, first_timestamp.fracsec \in Nat
  PROVE  /\ timestamp_for_sample(sample) \in [soc: Nat, fracsec: Nat]
         /\ Ticks(timestamp_for_sample(sample)) \in Int
         /\ Ticks(first_timestamp) + sample * ticks_per_frame \in Int
         /\ Ticks(timestamp_for_sample(sample))
              <= Ticks(first_timestamp) + sample * ticks_per_frame
         /\ Ticks(first_timestamp) + sample * ticks_per_frame < MaxSoc * time_base
              => Ticks(timestamp_for_sample(sample))
                   = Ticks(first_timestamp) + sample * ticks_per_frame
<1> DEFINE soc == first_timestamp.soc
           sum == first_timestamp.fracsec + sample * ticks_per_frame
           Q == sum \div time_base
           R == sum % time_base
           seconds == Q % (MaxSoc + 1)
           field == Minimum(MaxSoc, soc + seconds)
<1>1. timestamp_for_sample(sample) = [soc |-> field, fracsec |-> R]
  BY DEF timestamp_for_sample
<1>2. sample * ticks_per_frame \in Nat /\ sum \in Nat /\ soc \in Nat
  BY Rates
<1>3. Ticks(first_timestamp) = soc * time_base + first_timestamp.fracsec
  BY DEF Ticks
<1>4. Ticks(timestamp_for_sample(sample)) = field * time_base + R
  BY <1>1 DEF Ticks
<1>5. soc * time_base + sum = Ticks(first_timestamp) + sample * ticks_per_frame
  BY <1>2, <1>3, Rates
<1> HIDE DEF sum, soc
<1>6. Q \in Nat /\ R \in Nat /\ sum = Q * time_base + R
  BY <1>2, Rates, Remainder
<1> HIDE DEF Q, R
<1>7. seconds \in Nat /\ seconds <= Q /\ (Q < MaxSoc + 1 => seconds = Q)
  BY <1>6, Rates, Remainder
<1> HIDE DEF seconds
<1>8. /\ field \in Nat /\ field <= soc + Q
      /\ soc + Q < MaxSoc => field = soc + Q
  BY <1>2, <1>6, <1>7, Rates DEF Minimum
<1> HIDE DEF field
<1>9. /\ field * time_base \in Int /\ (soc + Q) * time_base \in Int
      /\ field * time_base <= (soc + Q) * time_base
      /\ (soc + Q) * time_base = soc * time_base + Q * time_base
      /\ soc * time_base \in Int /\ Q * time_base \in Int
  BY <1>2, <1>6, <1>8, Rates, Scaling
<1>10. ASSUME soc * time_base + sum < MaxSoc * time_base
       PROVE  field = soc + Q
  <2>1. (soc + Q) * time_base < MaxSoc * time_base
    BY <1>6, <1>9, <1>10, Rates
  <2>2. CASE MaxSoc <= soc + Q
    <3>1. MaxSoc * time_base <= (soc + Q) * time_base
      BY <1>2, <1>6, <2>2, Rates, Scaling
    <3>2. MaxSoc * time_base \in Int
      BY Rates
    <3> QED
      BY <1>9, <2>1, <3>1, <3>2
  <2> QED
    BY <1>2, <1>6, <1>8, <2>2, Rates
<1>11. timestamp_for_sample(sample) \in [soc: Nat, fracsec: Nat]
  BY <1>1, <1>6, <1>8
<1>12. /\ field * time_base + R \in Int
       /\ field * time_base + R <= soc * time_base + sum
       /\ soc * time_base + sum \in Int
  BY <1>2, <1>6, <1>9
<1>13. ASSUME soc * time_base + sum < MaxSoc * time_base
       PROVE  field * time_base + R = soc * time_base + sum
  BY <1>6, <1>9, <1>10, <1>13
<1> QED
  BY <1>4, <1>5, <1>11, <1>12, <1>13

(* The last frame was taken when its sample was due, and carries the stamp *)
(* of its sample.                                                          *)
FrameIsDue ==
  frame.sample >= 0 =>
    /\ frame.timestamp = timestamp_for_sample(frame.sample)
    /\ frame.sample > 0 => frame.sample * NANOS <= (frame.at - started) * data_rate_hz

(* A frame that is due is on time: the instant it was taken at, on the     *)
(* true clock, has reached the tick of its sample.                         *)
LEMMA DueIsOnTime ==
  ASSUME StartsOnTime, NEW sample \in Nat, NEW at \in Int, started \in Int,
         sample * NANOS <= (at - started) * data_rate_hz
  PROVE  (Ticks(first_timestamp) + sample * ticks_per_frame) * NANOS
           <= (origin + at) * time_base
<1> DEFINE a == at - started
           T == Ticks(first_timestamp)
<1>1. T \in Int /\ origin \in Int /\ T * NANOS <= (origin + started) * time_base
  BY Rates DEF StartsOnTime, Ticks
<1>2. a \in Int /\ sample * NANOS <= a * data_rate_hz
  OBVIOUS
<1> HIDE DEF a, T
<1>3. (sample * NANOS) * ticks_per_frame <= (a * data_rate_hz) * ticks_per_frame
  BY <1>2, Rates, Scaling
<1>4. (a * data_rate_hz) * ticks_per_frame = a * time_base
  <2>1. (a * data_rate_hz) * ticks_per_frame = a * (ticks_per_frame * data_rate_hz)
    BY <1>2, Rates
  <2> QED
    BY <2>1, Rates
<1>5. (T + sample * ticks_per_frame) * NANOS = T * NANOS + (sample * NANOS) * ticks_per_frame
  BY <1>1, Rates
<1>6. (origin + at) * time_base = (origin + started) * time_base + a * time_base
  BY <1>1, Rates DEF a
<1>7. /\ T * NANOS \in Int /\ (sample * NANOS) * ticks_per_frame \in Int
      /\ a * time_base \in Int /\ (origin + started) * time_base \in Int
  BY <1>1, <1>2, Rates
<1> QED
  BY <1>1, <1>3, <1>4, <1>5, <1>6, <1>7 DEF T

(* Both, the inductive invariant of the stamps.                            *)
StampInv == StartsOnTime /\ FrameIsDue

(* take_due hands out a sample after the first only when it is due.        *)
LEMMA TakenIsDue ==
  ASSUME Indices, CurrentIndex(mono) > 0
  PROVE  CurrentIndex(mono) * NANOS <= (mono - started) * data_rate_hz
<1> DEFINE elapsed == SaturatingSub(mono, started)
           P == elapsed * data_rate_hz
<1>1. elapsed \in Nat /\ mono \in Int /\ started \in Int
  BY DEF Indices, SaturatingSub
<1>2. CurrentIndex(mono) = P \div NANOS
  BY DEF CurrentIndex
<1>3. elapsed = mono - started \/ elapsed = 0
  BY <1>1 DEF SaturatingSub
<1> HIDE DEF elapsed
<1>4. P \in Nat
  BY <1>1, Rates
<1>5. P = elapsed * data_rate_hz
  OBVIOUS
<1> HIDE DEF P
<1>6. /\ P \div NANOS \in Nat /\ P % NANOS \in Nat
      /\ P = (P \div NANOS) * NANOS + (P % NANOS)
      /\ P < NANOS => P % NANOS = P
  BY <1>4, Rates, Remainder
<1>7. (P \div NANOS) * NANOS <= P
  <2>1. (P \div NANOS) * NANOS \in Int
    BY <1>6, Rates
  <2> QED
    BY <1>4, <1>6, <2>1
<1>8. elapsed # 0
  <2>1. ASSUME elapsed = 0 PROVE FALSE
    <3>1. P = 0
      BY <1>5, <2>1, Rates
    <3>2. P \div NANOS <= 0
      BY <3>1, Rates, QuotientBelow
    <3> QED
      BY <1>2, <1>6, <3>2
  <2> QED
    BY <2>1
<1> QED
  BY <1>2, <1>3, <1>5, <1>7, <1>8

(* A loop that sleeps for the timeout finds a sample due.                  *)
LEMMA SleepEnds ==
  ASSUME Indices
  PROVE  IsDue(mono + timeout(mono) + 1)
<1> DEFINE off == sample_offset(next_sample_index)
           t == mono + timeout(mono) + 1
<1>1. mono \in Int /\ started \in Int /\ next_sample_index \in Nat
  BY DEF Indices
<1>2. next_sample_index * NANOS \in Nat
  BY <1>1, Rates
<1>3. off \in Nat /\ next_sample_index * NANOS < (off + 1) * data_rate_hz
  BY <1>2, Rates, Division DEF sample_offset
<1>4. timeout(mono) = SaturatingSub(started + off, mono)
  BY DEF timeout
<1> HIDE DEF off
<1>5. t \in Int /\ off + 1 <= t - started
  BY <1>1, <1>3, <1>4 DEF SaturatingSub
<1> HIDE DEF t
<1>6. SaturatingSub(t, started) = t - started
  BY <1>1, <1>3, <1>5 DEF SaturatingSub
<1>7. (off + 1) * data_rate_hz <= (t - started) * data_rate_hz
  BY <1>1, <1>3, <1>5, Rates, Scaling
<1>8. (t - started) * data_rate_hz \in Int /\ (off + 1) * data_rate_hz \in Int
  BY <1>1, <1>3, <1>5, Rates
<1>9. next_sample_index * NANOS <= (t - started) * data_rate_hz
  BY <1>2, <1>3, <1>7, <1>8
<1>10. next_sample_index <= ((t - started) * data_rate_hz) \div NANOS
  BY <1>1, <1>8, <1>9, Rates, QuotientAbove
<1>11. CurrentIndex(t) >= next_sample_index
  <2>1. ((t - started) * data_rate_hz) \div NANOS \in Int
    BY <1>8, Rates, Division
  <2> QED
    BY <1>1, <1>6, <1>10, <2>1 DEF CurrentIndex
<1> QED
  BY <1>11 DEF IsDue, t

LEMMA StepsKeepStamps ==
  ASSUME SchedulerInv, StampInv, [Next]_vars
  PROVE  StampInv'
<1>1. ASSUME NEW verified \in BOOLEAN, emit_data(verified)
      PROVE  StampInv'
  <2> DEFINE index == CurrentIndex(mono)
  <2>1. /\ frame' = [sample |-> index, timestamp |-> timestamp_for_sample(index), at |-> mono]
        /\ started' = started /\ first_timestamp' = first_timestamp /\ origin' = origin
    BY <1>1 DEF emit_data
  <2>2. index > 0 => index * NANOS <= (mono - started) * data_rate_hz
    BY TakenIsDue DEF SchedulerInv
  <2> HIDE DEF index
  <2>3. FrameIsDue'
    BY <2>1, <2>2 DEF FrameIsDue, timestamp_for_sample
  <2> QED
    BY <2>1, <2>3 DEF StampInv, StartsOnTime, Ticks
<1>2. CASE TimePasses
  BY <1>2 DEF TimePasses, serverVars, StampInv, StartsOnTime, FrameIsDue, timestamp_for_sample,
              Ticks
<1>3. ASSUME NEW size \in ClockSteps, StepClock(size)
      PROVE  StampInv'
  BY <1>3 DEF StepClock, serverVars, StampInv, StartsOnTime, FrameIsDue, timestamp_for_sample,
              Ticks
<1>4. CASE UNCHANGED vars
  BY <1>4 DEF vars, clockVars, serverVars, StampInv, StartsOnTime, FrameIsDue,
              timestamp_for_sample, Ticks
<1> QED
  BY <1>1, <1>2, <1>3, <1>4 DEF Next

(* The start and the last frame are on time for ever.                      *)
LEMMA StampsAreKept == Spec => []StampInv
<1>1. Init => StampInv
  <2>1. Init => FrameIsDue
    BY DEF Init, FrameIsDue, NoFrame
  <2> QED
    BY <2>1, StartIsOnTime DEF StampInv
<1>2. SchedulerInv /\ StampInv /\ [Next]_vars => StampInv'
  BY StepsKeepStamps
<1> QED
  BY <1>1, <1>2, SchedulerIsConsistent, PTL DEF Spec

(* The roundings of index, due time and stamp agree for every rate, time   *)
(* base and clock resolution: no sample after the first is taken before    *)
(* the instant it is stamped with, and no sleep ends without one.          *)
THEOREM SamplesAreOnTime == Spec => []SamplesKeepTheirTime
<1>1. SchedulerInv /\ StampInv => SamplesKeepTheirTime
  <2> SUFFICES ASSUME SchedulerInv, StampInv PROVE SamplesKeepTheirTime
    OBVIOUS
  <2>1. IsDue(mono + timeout(mono) + 1)
    BY SleepEnds DEF SchedulerInv
  <2>2. ASSUME frame.sample > 0 PROVE TrueTime(frame.at) >= TargetNanos(frame.timestamp)
    <3> DEFINE s == frame.sample
               tick == Ticks(first_timestamp) + s * ticks_per_frame
    <3>1. /\ s \in Nat /\ frame.at \in Int /\ started \in Int /\ origin \in Int
          /\ first_timestamp.soc \in Nat /\ first_timestamp.fracsec \in Nat
      BY <2>2 DEF SchedulerInv, Indices, StampInv, StartsOnTime
    <3>2. /\ frame.timestamp = timestamp_for_sample(s)
          /\ s * NANOS <= (frame.at - started) * data_rate_hz
      BY <2>2, <3>1 DEF StampInv, FrameIsDue
    <3>3. tick * NANOS <= (origin + frame.at) * time_base
      BY <3>1, <3>2, DueIsOnTime DEF StampInv
    <3>4. /\ frame.timestamp \in [soc: Nat, fracsec: Nat]
          /\ Ticks(frame.timestamp) \in Int /\ tick \in Int
          /\ Ticks(frame.timestamp) <= tick
      BY <3>1, <3>2, StampOfSample
    <3> HIDE DEF tick, s
    <3>5. Ticks(frame.timestamp) * NANOS <= tick * NANOS
      BY <3>4, Rates, Scaling
    <3>6. Ticks(frame.timestamp) * NANOS <= (origin + frame.at) * time_base
      <4>1. /\ Ticks(frame.timestamp) * NANOS \in Int /\ tick * NANOS \in Int
            /\ (origin + frame.at) * time_base \in Int
        BY <3>1, <3>4, Rates
      <4> QED
        BY <3>3, <3>5, <4>1
    <3>7. TargetNanos(frame.timestamp) <= origin + frame.at
      BY <3>1, <3>4, <3>6, TargetBelow
    <3>8. TargetNanos(frame.timestamp) \in Int
      BY <3>4, TargetReaches
    <3> QED
      BY <3>1, <3>7, <3>8 DEF TrueTime
  <2> QED
    BY <2>1, <2>2 DEF SamplesKeepTheirTime
<1> QED
  BY <1>1, SchedulerIsConsistent, StampsAreKept, PTL

(* Time stamps strictly increase as long as the seconds of the wire format *)
(* last, however late the loop is and whatever is done to the host's       *)
(* clock: neither the carry nor the truncation nor the saturation of       *)
(* timestamp_for_sample ever repeats a stamp or goes back.                 *)
THEOREM StampsInOrder == Spec => TimestampsIncrease
<1>1. SchedulerInv /\ StampInv /\ SchedulerInv' /\ StampInv' /\ [Next]_vars =>
        [frame' # frame /\ frame.sample >= 0 /\ TrueTime(frame'.at) < MaxSoc * NANOS
           => Ticks(frame'.timestamp) > Ticks(frame.timestamp)]_vars
  <2> SUFFICES ASSUME SchedulerInv, StampInv, SchedulerInv', StampInv', [Next]_vars,
                      frame' # frame, frame.sample >= 0,
                      TrueTime(frame'.at) < MaxSoc * NANOS
               PROVE  Ticks(frame'.timestamp) > Ticks(frame.timestamp)
    OBVIOUS
  <2> DEFINE s == frame.sample
             r == frame'.sample
             T == Ticks(first_timestamp)
  <2>1. /\ r > s /\ s \in Nat /\ r \in Nat /\ r > 0
        /\ frame'.at \in Int /\ started \in Int /\ origin \in Int
        /\ first_timestamp.soc \in Nat /\ first_timestamp.fracsec \in Nat
    BY StepsStayAccounted DEF SchedulerInv, Indices, StampInv, StartsOnTime
  <2>2. started' = started /\ first_timestamp' = first_timestamp /\ origin' = origin
    BY DEF Next, emit_data, TimePasses, StepClock, vars, serverVars
  <2>3. /\ frame.timestamp = timestamp_for_sample(s)
        /\ frame'.timestamp = timestamp_for_sample(r)
        /\ r * NANOS <= (frame'.at - started) * data_rate_hz
    BY <2>1, <2>2 DEF StampInv, FrameIsDue, timestamp_for_sample
  <2>4. (T + r * ticks_per_frame) * NANOS <= (origin + frame'.at) * time_base
    BY <2>1, <2>3, DueIsOnTime DEF StampInv
  <2>5. /\ T + s * ticks_per_frame \in Int /\ T + r * ticks_per_frame \in Int
        /\ Ticks(frame.timestamp) \in Int
        /\ Ticks(frame.timestamp) <= T + s * ticks_per_frame
        /\ T + r * ticks_per_frame < MaxSoc * time_base
             => Ticks(frame'.timestamp) = T + r * ticks_per_frame
    BY <2>1, <2>3, StampOfSample
  <2>6. T \in Int
    BY <2>1, Rates DEF Ticks
  <2>7. origin + frame'.at < MaxSoc * NANOS
    BY <2>2 DEF TrueTime
  <2> HIDE DEF T, s, r
  <2>8. (T + r * ticks_per_frame) * NANOS < (MaxSoc * time_base) * NANOS
    <3>1. origin + frame'.at + 1 <= MaxSoc * NANOS
      BY <2>1, <2>7, Rates
    <3>2. (origin + frame'.at + 1) * time_base <= (MaxSoc * NANOS) * time_base
      BY <2>1, <3>1, Rates, Scaling
    <3>3. (origin + frame'.at + 1) * time_base = (origin + frame'.at) * time_base + time_base
      BY <2>1, Rates
    <3>4. (MaxSoc * NANOS) * time_base = (MaxSoc * time_base) * NANOS
      BY Rates
    <3>5. /\ (origin + frame'.at) * time_base \in Int /\ (MaxSoc * time_base) * NANOS \in Int
          /\ (T + r * ticks_per_frame) * NANOS \in Int
      BY <2>1, <2>5, Rates
    <3> QED
      BY <2>4, <3>2, <3>3, <3>4, <3>5, Rates
  <2>9. T + r * ticks_per_frame < MaxSoc * time_base
    <3>1. CASE MaxSoc * time_base <= T + r * ticks_per_frame
      <4>1. MaxSoc * time_base \in Int
        BY Rates
      <4>2. (MaxSoc * time_base) * NANOS <= (T + r * ticks_per_frame) * NANOS
        BY <2>5, <3>1, <4>1, Rates, Scaling
      <4>3. (T + r * ticks_per_frame) * NANOS \in Int /\ (MaxSoc * time_base) * NANOS \in Int
        BY <2>5, <4>1, Rates
      <4> QED
        BY <2>8, <4>2, <4>3
    <3> QED
      BY <2>5, <3>1, Rates
  <2>10. s * ticks_per_frame < r * ticks_per_frame
    <3>1. (s + 1) * ticks_per_frame <= r * ticks_per_frame
      BY <2>1, Rates, Scaling
    <3>2. (s + 1) * ticks_per_frame = s * ticks_per_frame + ticks_per_frame
      BY <2>1, Rates
    <3>3. s * ticks_per_frame \in Int /\ r * ticks_per_frame \in Int
      BY <2>1, Rates
    <3> QED
      BY <3>1, <3>2, <3>3, Rates
  <2>11. s * ticks_per_frame \in Int /\ r * ticks_per_frame \in Int
    BY <2>1, Rates
  <2> QED
    BY <2>5, <2>6, <2>9, <2>10, <2>11
<1> QED
  BY <1>1, SchedulerIsConsistent, StampsAreKept, PTL DEF Spec, TimestampsIncrease

-----------------------------------------------------------------------------
(* The command stream of one connection.                                   *)

(* `offset[i]` is where frame i + 1 begins in the bytes of the stream.     *)
IsOffsets(offset) ==
  /\ offset[0] = 0
  /\ \A i \in 1..Len(stream) : offset[i] = offset[i - 1] + stream[i].bytes
  /\ offset[Len(stream)] = total
  /\ offset[taken] = start

Counters ==
  /\ total \in Nat /\ sent \in Nat /\ taken \in Nat /\ start \in Nat /\ length \in Nat
  /\ Len(stream) \in Nat /\ Len(handled) \in Nat

StreamTypes ==
  /\ stream \in Seq(Frames)
  /\ pending \in {"None", "Response", "Error"}
  /\ close_after_flush \in BOOLEAN
  /\ pc \in {"poll", "processing", "done", "closed"}
  /\ handled \in Seq([kind: Valid \cup Invalid, id: Nat])

HasOffsets == \E offset \in [Nat -> Nat] : IsOffsets(offset)

(* The buffer holds the bytes that follow the frames taken out of it.      *)
Within ==
  /\ taken <= Len(stream)
  /\ start + length <= sent
  /\ sent <= total

Rejected == close_after_flush \/ pc = "closed"

(* A frame is handled when it is taken; only the one that ends the         *)
(* connection may stay in the buffer.                                      *)
Matched ==
  /\ \/ Len(handled) = taken
     \/ Len(handled) = taken + 1 /\ taken < Len(stream) /\ Rejected
  /\ \A i \in 1..Len(handled) :
       /\ handled[i].kind = stream[i].kind
       /\ handled[i].kind \in Invalid => i = Len(handled) /\ Rejected
       /\ handled[i].id \in {stream[i].id, StreamId}
       /\ i > taken /\ handled[i].id # StreamId => sent >= start + ID_BYTES

(* The loop leaves no command behind unless a frame is still to be written.  *)
SettledStream ==
  /\ close_after_flush /\ pc # "closed" => pending = "Error"
  /\ pc \in {"poll", "done"} /\ pending = "None" => next_command = NoCommand

StreamInv ==
  Counters /\ StreamTypes /\ HasOffsets /\ Within /\ Matched /\ SettledStream

-----------------------------------------------------------------------------
(* The assumption on one frame: what the codec accepts has the size it     *)
(* declares, fits the buffer, and only a malformed frame may lie about it. *)
LEMMA FrameFacts ==
  ASSUME NEW f \in Frames
  PROVE  /\ f.kind \in Valid \cup Invalid
         /\ f.declared \in Nat /\ f.bytes \in Nat /\ f.id \in Nat
         /\ f.bytes >= ID_BYTES
         /\ f.kind # "Malformed" => f.declared = f.bytes /\ f.bytes <= LIMIT
         /\ LIMIT \in Nat /\ LIMIT > ID_BYTES
         /\ StreamId \in Nat
BY StreamAssumption DEF Frame

(* Four bytes in the buffer are bytes of a frame the peer has begun.       *)
LEMMA BufferedFrameExists ==
  ASSUME Counters, StreamTypes, HasOffsets, Within, length > 0
  PROVE  taken + 1 \in 1..Len(stream) /\ stream[taken + 1] \in Frames
<1>1. PICK offset \in [Nat -> Nat] : IsOffsets(offset)
  BY DEF HasOffsets
<1>2. start < total
  BY DEF Counters, Within
<1>3. taken # Len(stream)
  BY <1>1, <1>2 DEF IsOffsets, Counters
<1>4. taken + 1 \in 1..Len(stream)
  BY <1>3 DEF Counters, Within
<1> QED
  BY <1>4 DEF StreamTypes

(* What a command the buffer yields says of the frame it starts with.      *)
LEMMA NextCommandIs ==
  ASSUME Counters, StreamTypes, HasOffsets, Within, next_command # NoCommand
  PROVE  /\ taken + 1 \in 1..Len(stream)
         /\ stream[taken + 1] \in Frames
         /\ next_command = stream[taken + 1].kind
         /\ next_command # "Malformed" => length >= stream[taken + 1].declared
<1>1. length >= SIZE_BYTES
  BY DEF next_command, Counters, SIZE_BYTES
<1>2. taken + 1 \in 1..Len(stream) /\ stream[taken + 1] \in Frames
  BY <1>1, BufferedFrameExists DEF SIZE_BYTES, Counters
<1> DEFINE f == stream[taken + 1]
<1>3. f.declared \in Nat /\ (f.kind # "Malformed" => f.declared <= LIMIT) /\ LIMIT \in Nat
  BY <1>2, FrameFacts
<1>4. CASE IsOversized(f)
  BY <1>1, <1>2, <1>3, <1>4 DEF next_command, IsOversized, Counters, SIZE_BYTES
<1>5. CASE ~IsOversized(f)
  BY <1>1, <1>2, <1>3, <1>5
     DEF next_command, IsHeld, NoCommand, Counters, SIZE_BYTES
<1> QED
  BY <1>4, <1>5

(* A buffer whose command is not complete has room for the rest of it.     *)
LEMMA WaitingHasRoom ==
  ASSUME Counters, StreamTypes, HasOffsets, Within, next_command = NoCommand
  PROVE  length < LIMIT
<1>1. CASE length < SIZE_BYTES
  BY <1>1, StreamAssumption DEF Counters, SIZE_BYTES, ID_BYTES
<1>2. CASE length >= SIZE_BYTES
  <2> DEFINE f == stream[taken + 1]
  <2>1. f \in Frames
    BY <1>2, BufferedFrameExists DEF SIZE_BYTES, Counters
  <2>2. f.declared \in Nat /\ LIMIT \in Nat /\ f.kind # NoCommand
    BY <2>1, FrameFacts DEF Valid, Invalid, NoCommand
  <2>3. ~IsOversized(f) /\ ~IsHeld(f)
    BY <1>2, <2>2 DEF next_command, NoCommand, Counters, SIZE_BYTES
  <2> QED
    BY <2>2, <2>3 DEF IsOversized, IsHeld, Counters
<1> QED
  BY <1>1, <1>2 DEF Counters, SIZE_BYTES

-----------------------------------------------------------------------------
(* A connection begins with nothing sent and nothing handled.              *)
LEMMA StreamStarts == StreamInit => StreamInv
<1> SUFFICES ASSUME StreamInit PROVE StreamInv
  OBVIOUS
<1>1. Counters /\ StreamTypes /\ Within
  <2>1. stream \in Seq(Frames) /\ Len(stream) = 0
    BY DEF StreamInit
  <2>2. handled \in Seq([kind: Valid \cup Invalid, id: Nat]) /\ Len(handled) = 0
    BY DEF StreamInit
  <2> QED
    <3>1. Counters /\ Within
      BY <2>1, <2>2 DEF StreamInit, Counters, Within
    <3>2. StreamTypes
      BY <2>1, <2>2 DEF StreamInit, StreamTypes
    <3> QED
      BY <3>1, <3>2
<1>2. Matched
  BY DEF StreamInit, Matched
<1>3. HasOffsets
  <2>1. [i \in Nat |-> 0] \in [Nat -> Nat] /\ IsOffsets([i \in Nat |-> 0])
    BY DEF StreamInit, IsOffsets
  <2> QED
    BY <2>1 DEF HasOffsets
<1>4. SettledStream
  BY DEF StreamInit, SettledStream, next_command, SIZE_BYTES, NoCommand
<1> QED
  BY <1>1, <1>2, <1>3, <1>4 DEF StreamInv

(* Arithmetic of the index behind the last one.                            *)
LEMMA IndexAfter ==
  ASSUME NEW last \in Nat
  PROVE  /\ last + 1 \in Nat /\ 0 # last + 1
         /\ \A k \in Nat : k <= last => k # last + 1
         /\ \A i \in 1..(last + 1) :
              /\ i = last + 1 => i - 1 = last
              /\ i # last + 1 => i \in 1..last /\ i \in Nat /\ i - 1 \in Nat /\ i - 1 # last + 1
OBVIOUS

(* The offsets of a stream that grows by a frame.                          *)
LEMMA OffsetsGrow ==
  ASSUME StreamInv, NEW f \in Frames, PeerBegins(f),
         Len(stream') = Len(stream) + 1,
         \A i \in 1..Len(stream) : stream'[i] = stream[i],
         stream'[Len(stream) + 1] = f
  PROVE  HasOffsets'
<1>1. PICK offset \in [Nat -> Nat] : IsOffsets(offset)
  BY DEF StreamInv, HasOffsets
<1>2. f.bytes \in Nat
  BY FrameFacts
<1>3. /\ Len(stream) \in Nat /\ total \in Nat /\ taken \in Nat /\ taken <= Len(stream)
      /\ taken' = taken /\ start' = start /\ total' = total + f.bytes
  BY DEF StreamInv, Counters, Within, PeerBegins
<1> DEFINE n == Len(stream) + 1
<1>4. n \in Nat /\ 0 # n /\ taken # n /\ Len(stream) # n
  <2>1. Len(stream) <= Len(stream)
    BY <1>3
  <2> QED
    BY <1>3, <2>1, IndexAfter, Zenon
<1>5. \E e \in [Nat -> Nat] : e[n] = total + f.bytes /\ \A i \in Nat \ {n} : e[i] = offset[i]
  <2> DEFINE e == [i \in Nat |-> IF i = n THEN total + f.bytes ELSE offset[i]]
  <2>1. \A k, m \in Nat : k + m \in Nat
    BY ONLY SMT
  <2> HIDE DEF n
  <2>2. e \in [Nat -> Nat] /\ e[n] = total + f.bytes /\ \A i \in Nat \ {n} : e[i] = offset[i]
    BY <1>2, <1>3, <1>4, <2>1
  <2> QED
    BY <2>2
<1>6. PICK e \in [Nat -> Nat] : e[n] = total + f.bytes /\ \A i \in Nat \ {n} : e[i] = offset[i]
  BY <1>5
<1>7. e[0] = 0 /\ e[n] = total' /\ e[taken'] = start'
  BY <1>1, <1>3, <1>4, <1>6 DEF IsOffsets
<1>8. ASSUME NEW i \in 1..n
      PROVE  e[i] = e[i - 1] + stream'[i].bytes
  <2>1. CASE i = n
    <3>1. i - 1 = Len(stream)
      BY <1>3, <2>1, IndexAfter
    <3>2. e[i - 1] = total
      BY <1>1, <1>3, <1>4, <1>6, <3>1 DEF IsOffsets
    <3> QED
      BY <1>6, <2>1, <3>2
  <2>2. CASE i # n
    <3>1. i \in 1..Len(stream) /\ i \in Nat \ {n} /\ i - 1 \in Nat \ {n}
      BY <1>3, <2>2, IndexAfter
    <3>2. offset[i] = offset[i - 1] + stream[i].bytes
      BY <1>1, <3>1 DEF IsOffsets
    <3> QED
      BY <1>6, <3>1, <3>2
  <2> QED
    BY <2>1, <2>2
<1>9. IsOffsets(e)'
  BY <1>7, <1>8 DEF IsOffsets
<1> QED
  BY <1>9 DEF HasOffsets

(* A new frame of the peer changes nothing about the ones before it.       *)
LEMMA PeerBeginsKeeps ==
  ASSUME StreamInv, NEW f \in Frames, PeerBegins(f)
  PROVE  StreamInv'
<1> USE DEF StreamInv
<1>1. f.bytes \in Nat
  BY FrameFacts
<1>2. StreamTypes'
  BY DEF PeerBegins, StreamTypes
<1>3. /\ Len(stream') = Len(stream) + 1
      /\ \A i \in 1..Len(stream) : stream'[i] = stream[i]
      /\ stream'[Len(stream) + 1] = f
  BY DEF PeerBegins, StreamTypes
<1>4. UNCHANGED <<sent, taken, start, length, pending, close_after_flush, pc, handled>>
  BY DEF PeerBegins
<1>5. Counters' /\ Within'
  BY <1>1, <1>3, <1>4 DEF Counters, Within, PeerBegins
<1>6. HasOffsets'
  BY <1>3, OffsetsGrow
<1>7. Matched'
  <2>1. \A i \in 1..Len(handled) : stream'[i] = stream[i]
    BY <1>3, SMTT(40) DEF Counters, Within, Matched
  <2>2. taken < Len(stream) => taken < Len(stream')
    BY <1>3 DEF Counters
  <2> QED
    BY <1>4, <2>1, <2>2 DEF Matched, Rejected
<1>8. next_command' = next_command
  <2>1. CASE length < SIZE_BYTES
    BY <1>4, <2>1 DEF next_command
  <2>2. CASE length >= SIZE_BYTES
    <3>1. stream'[taken + 1] = stream[taken + 1]
      BY <1>3, <2>2, BufferedFrameExists DEF SIZE_BYTES, Counters
    <3> QED
      BY <1>4, <2>2, <3>1 DEF next_command, IsOversized, IsHeld
  <2> QED
    BY <2>1, <2>2 DEF Counters, SIZE_BYTES
<1>9. SettledStream'
  BY <1>4, <1>8 DEF SettledStream
<1> QED
  BY <1>2, <1>5, <1>6, <1>7, <1>9

(* Neither do the bytes that arrive, or the end of the stream.             *)
LEMMA PeerKeeps ==
  ASSUME StreamInv, PeerSends \/ PeerShuts
  PROVE  StreamInv'
<1> USE DEF StreamInv
<1>1. UNCHANGED <<stream, total, taken, start, length, pending, close_after_flush, pc, handled>>
  BY DEF PeerSends, PeerShuts
<1>2. sent' \in Nat /\ sent <= sent' /\ sent' <= total
  BY DEF PeerSends, PeerShuts, Counters, Within
<1>3. Counters' /\ StreamTypes' /\ Within'
  BY <1>1, <1>2 DEF Counters, StreamTypes, Within
<1>4. HasOffsets'
  BY <1>1 DEF HasOffsets, IsOffsets
<1>5. Matched'
  <2>1. sent >= start + ID_BYTES => sent' >= start + ID_BYTES
    BY <1>2 DEF Counters, ID_BYTES
  <2> QED
    BY <1>1, <2>1 DEF Matched, Rejected
<1>6. SettledStream'
  BY <1>1 DEF SettledStream, next_command, IsOversized, IsHeld
<1> QED
  BY <1>3, <1>4, <1>5, <1>6

(* Reading fills the buffer with the bytes that follow.                    *)
LEMMA ReadKeeps ==
  ASSUME StreamInv, read_connection
  PROVE  StreamInv'
<1> USE DEF StreamInv
<1>1. ReadCount \in Int /\ ReadCount <= Unread /\ length + ReadCount \in Nat
  BY StreamAssumption DEF ReadCount, Unread, Counters, Within, ID_BYTES
<1>2. UNCHANGED <<stream, total, sent, taken, start, pending, close_after_flush, handled>>
  BY DEF read_connection, peerVars
<1>3. length' = length + ReadCount /\ pc' \in {"closed", "processing"}
  BY DEF read_connection
<1>4. Counters' /\ StreamTypes'
  BY <1>1, <1>2, <1>3 DEF Counters, StreamTypes
<1>5. start + length' <= sent
  BY <1>1, <1>3 DEF Counters, Unread
<1>6. Within' /\ HasOffsets'
  BY <1>2, <1>5 DEF Within, HasOffsets, IsOffsets
<1>7. Matched'
  BY <1>2 DEF Matched, Rejected, read_connection
<1>8. SettledStream'
  BY <1>2, <1>3 DEF SettledStream, read_connection
<1> QED
  BY <1>4, <1>6, <1>7, <1>8

(* The end of a turn and the end of a write leave buffer and record alone. *)
LEMMA TurnKeeps ==
  ASSUME StreamInv, FinishRead \/ flush_connection
  PROVE  StreamInv'
<1> USE DEF StreamInv
<1>1. UNCHANGED <<stream, total, sent, taken, start, length, close_after_flush, handled>>
  BY DEF FinishRead, flush_connection, peerVars
<1>2. Counters' /\ Within' /\ HasOffsets'
  BY <1>1 DEF Counters, Within, HasOffsets, IsOffsets
<1>3. StreamTypes'
  BY <1>1 DEF FinishRead, flush_connection, StreamTypes
<1>4. Matched'
  BY <1>1 DEF FinishRead, flush_connection, Matched, Rejected
<1>5. next_command' = next_command
  BY <1>1 DEF next_command, IsOversized, IsHeld
<1>6. SettledStream'
  BY <1>1, <1>5 DEF FinishRead, flush_connection, SettledStream
<1> QED
  BY <1>2, <1>3, <1>4, <1>6

-----------------------------------------------------------------------------
(* The record grows by one frame: the one that is next.                    *)
LEMMA RecordGrows ==
  ASSUME StreamTypes, NEW kind \in Valid \cup Invalid, NEW id \in Nat, Handle(kind, id)
  PROVE  /\ handled' \in Seq([kind: Valid \cup Invalid, id: Nat])
         /\ Len(handled') = Len(handled) + 1
         /\ \A i \in 1..Len(handled) : handled'[i] = handled[i]
         /\ handled'[Len(handled) + 1] = [kind |-> kind, id |-> id]
BY DEF StreamTypes, Handle

(* A command that cannot be read is rejected where it lies.                *)
LEMMA MalformedKeeps ==
  ASSUME StreamInv, pc = "processing", UNCHANGED <<peerVars, met_end>>,
         pending = "None", ~close_after_flush, next_command = "Malformed",
         Reject("Malformed", MalformedId(stream[taken + 1])),
         UNCHANGED <<taken, start, length>>
  PROVE  StreamInv'
<1> USE DEF StreamInv
<1> DEFINE f == stream[taken + 1]
<1>1. taken + 1 \in 1..Len(stream) /\ f \in Frames /\ f.kind = "Malformed"
  BY NextCommandIs DEF NoCommand
<1>2. f.id \in Nat /\ StreamId \in Nat
  BY <1>1, FrameFacts
<1>3. MalformedId(f) \in Nat /\ "Malformed" \in Valid \cup Invalid
  BY <1>2 DEF MalformedId, Invalid
<1>4. /\ handled' \in Seq([kind: Valid \cup Invalid, id: Nat])
      /\ Len(handled') = Len(handled) + 1
      /\ \A i \in 1..Len(handled) : handled'[i] = handled[i]
      /\ handled'[Len(handled) + 1] = [kind |-> "Malformed", id |-> MalformedId(f)]
  BY <1>3, RecordGrows DEF Reject
<1>5. Len(handled) = taken
  BY DEF Matched, Rejected
<1>6. \A i \in 1..Len(handled) : handled[i].kind \notin Invalid
  BY DEF Matched, Rejected
<1>7. Rejected'
  BY DEF Reject, Rejected
<1>8. StreamTypes'
  BY <1>4 DEF Reject, StreamTypes, peerVars
<1>9. Counters' /\ Within' /\ HasOffsets'
  <2>1. UNCHANGED <<stream, total, sent, taken, start, length>>
    BY DEF peerVars
  <2>2. Len(handled') \in Nat
    BY <1>4 DEF Counters
  <2> QED
    BY <2>1, <2>2 DEF Counters, Within, HasOffsets, IsOffsets
<1>10. Matched'
  <2>1. Len(handled') = taken' + 1 /\ taken' < Len(stream')
    BY <1>1, <1>4, <1>5 DEF peerVars, Counters
  <2>2. ASSUME NEW i \in 1..Len(handled)
        PROVE  /\ handled'[i].kind = stream'[i].kind
               /\ handled'[i].kind \notin Invalid
               /\ handled'[i].id \in {stream'[i].id, StreamId}
               /\ ~(i > taken')
    BY <1>4, <1>5, <1>6 DEF Matched, peerVars, Counters
  <2>3. /\ handled'[taken + 1].kind = stream'[taken + 1].kind
        /\ handled'[taken + 1].id \in {stream'[taken + 1].id, StreamId}
        /\ handled'[taken + 1].id # StreamId => sent' >= start' + ID_BYTES
    <3>1. handled'[taken + 1] = [kind |-> "Malformed", id |-> MalformedId(f)]
      BY <1>4, <1>5
    <3>2. MalformedId(f) \in {f.id, StreamId}
      BY DEF MalformedId
    <3>3. MalformedId(f) # StreamId => sent >= start + ID_BYTES
      BY DEF MalformedId, Within, Counters, ID_BYTES
    <3> QED
      BY <1>1, <3>1, <3>2, <3>3 DEF peerVars
  <2>4. ASSUME NEW i \in 1..Len(handled')
        PROVE  i \in 1..Len(handled) \/ i = taken + 1
    BY <1>4, <1>5 DEF Counters
  <2>5. taken + 1 = Len(handled') /\ taken + 1 \notin 1..Len(handled)
    BY <1>4, <1>5 DEF Counters
  <2> QED
    BY <1>7, <2>1, <2>2, <2>3, <2>4, <2>5 DEF Matched
<1>11. SettledStream'
  BY DEF Reject, SettledStream
<1> QED
  BY <1>8, <1>9, <1>10, <1>11

(* A whole command leaves the buffer as it is recorded.                    *)
LEMMA CommandKeeps ==
  ASSUME StreamInv, pc = "processing", UNCHANGED <<peerVars, met_end>>,
         pending = "None", ~close_after_flush,
         next_command \notin {NoCommand, "Malformed"},
         Shift(stream[taken + 1]), HandleCommand(stream[taken + 1])
  PROVE  StreamInv'
<1> USE DEF StreamInv
<1> DEFINE f == stream[taken + 1]
<1>1. /\ taken + 1 \in 1..Len(stream) /\ f \in Frames
      /\ f.kind # "Malformed" /\ length >= f.declared
  BY NextCommandIs
<1>2. /\ f.id \in Nat /\ f.kind \in Valid \cup Invalid
      /\ f.declared \in Nat /\ f.declared = f.bytes
  BY <1>1, FrameFacts
<1>3. Handle(f.kind, f.id)
  BY DEF HandleCommand, Reject
<1>4. /\ handled' \in Seq([kind: Valid \cup Invalid, id: Nat])
      /\ Len(handled') = Len(handled) + 1
      /\ \A i \in 1..Len(handled) : handled'[i] = handled[i]
      /\ handled'[Len(handled) + 1] = [kind |-> f.kind, id |-> f.id]
  BY <1>2, <1>3, RecordGrows
<1>5. Len(handled) = taken
  BY DEF Matched, Rejected
<1>6. \A i \in 1..Len(handled) : handled[i].kind \notin Invalid
  BY DEF Matched, Rejected
<1>7. f.kind \in Invalid => Rejected'
  BY DEF HandleCommand, Reject, Rejected, Valid, Invalid
<1>8. /\ taken' = taken + 1 /\ start' = start + f.declared
      /\ length' = length - f.declared
  BY DEF Shift
<1> HIDE DEF f
<1>9. /\ taken' \in Nat /\ start' \in Nat /\ length' \in Nat
      /\ start' + length' = start + length /\ taken' <= Len(stream)
  <2>1. /\ taken \in Nat /\ start \in Nat /\ length \in Nat /\ Len(stream) \in Nat
        /\ length >= f.declared /\ taken + 1 <= Len(stream)
    BY <1>1 DEF Counters, f
  <2>2. taken' = taken + 1 /\ start' = start + f.declared /\ length' = length - f.declared
    BY <1>8 DEF f
  <2> QED
    BY <1>2, <2>1, <2>2, SMTT(40)
<1>10. Counters' /\ Within'
  <2>1. stream' = stream /\ total' = total /\ sent' = sent
    BY DEF peerVars, HandleCommand
  <2>2. Counters'
    BY <1>4, <1>9, <2>1 DEF Counters
  <2>3. start + length <= sent /\ sent <= total
    BY DEF Within
  <2>4. Within'
    BY <1>9, <2>1, <2>3 DEF Within
  <2> QED
    BY <2>2, <2>4
<1>11. StreamTypes'
  <2>1. /\ pending' \in {"None", "Response", "Error"}
        /\ close_after_flush' \in BOOLEAN
        /\ pc' \in {"poll", "processing", "done", "closed"}
    BY DEF HandleCommand, Reject, StreamTypes
  <2> QED
    BY <1>4, <2>1 DEF StreamTypes, peerVars
<1>12. HasOffsets'
  <2>1. PICK offset \in [Nat -> Nat] : IsOffsets(offset)
    BY DEF HasOffsets
  <2>2. offset[taken + 1] = offset[(taken + 1) - 1] + f.bytes
    BY <1>1, <2>1 DEF IsOffsets, f
  <2>3. (taken + 1) - 1 = taken
    BY DEF Counters
  <2>4. offset[taken'] = start'
    BY <1>2, <1>8, <2>1, <2>2, <2>3 DEF IsOffsets
  <2>5. IsOffsets(offset)'
    BY <2>1, <2>4 DEF IsOffsets, peerVars
  <2> QED
    BY <2>5 DEF HasOffsets
<1>13. Matched'
  <2>1. Len(handled') = taken'
    BY <1>4, <1>5, <1>8
  <2>2. ASSUME NEW i \in 1..Len(handled)
        PROVE  /\ handled'[i].kind = stream'[i].kind
               /\ handled'[i].kind \notin Invalid
               /\ handled'[i].id \in {stream'[i].id, StreamId}
    BY <1>4, <1>6 DEF Matched, peerVars
  <2>3. /\ handled'[taken + 1].kind = stream'[taken + 1].kind
        /\ handled'[taken + 1].kind \in Invalid => Rejected'
        /\ handled'[taken + 1].id \in {stream'[taken + 1].id, StreamId}
    BY <1>4, <1>5, <1>7 DEF peerVars, f
  <2>4. ASSUME NEW i \in 1..Len(handled')
        PROVE  (i \in 1..Len(handled) \/ i = taken + 1) /\ ~(i > taken')
    BY <1>4, <1>5, <2>1 DEF Counters
  <2> QED
    BY <1>8, <2>1, <2>2, <2>3, <2>4 DEF Matched
<1>14. SettledStream'
  BY DEF HandleCommand, Reject, SettledStream
<1> QED
  BY <1>10, <1>11, <1>12, <1>13, <1>14

(* Processing stops, rejects or takes the next command.                    *)
LEMMA ProcessKeeps ==
  ASSUME StreamInv, process_buffered_commands
  PROVE  StreamInv'
<1>1. CASE /\ pending # "None" \/ close_after_flush \/ next_command = NoCommand
           /\ pc' = "done"
           /\ UNCHANGED <<taken, start, length, pending, close_after_flush, handled>>
  <2>1. UNCHANGED <<stream, total, sent, taken, start, length, pending, close_after_flush,
                    handled>>
    BY <1>1 DEF process_buffered_commands, peerVars
  <2>2. Counters' /\ Within' /\ HasOffsets'
    BY <2>1 DEF StreamInv, Counters, Within, HasOffsets, IsOffsets
  <2>3. StreamTypes' /\ Matched'
    BY <1>1, <2>1 DEF StreamInv, process_buffered_commands, StreamTypes, Matched, Rejected
  <2>4. next_command' = next_command
    BY <2>1 DEF next_command, IsOversized, IsHeld
  <2>5. SettledStream'
    BY <1>1, <2>1, <2>4 DEF StreamInv, process_buffered_commands, SettledStream
  <2> QED
    BY <2>2, <2>3, <2>5 DEF StreamInv
<1>2. CASE /\ pending = "None" /\ ~close_after_flush
           /\ next_command = "Malformed"
           /\ Reject("Malformed", MalformedId(stream[taken + 1]))
           /\ UNCHANGED <<taken, start, length>>
  BY <1>2, MalformedKeeps DEF process_buffered_commands
<1>3. CASE /\ pending = "None" /\ ~close_after_flush
           /\ next_command \notin {NoCommand, "Malformed"}
           /\ Shift(stream[taken + 1])
           /\ HandleCommand(stream[taken + 1])
  BY <1>3, CommandKeeps DEF process_buffered_commands
<1> QED
  BY <1>1, <1>2, <1>3 DEF process_buffered_commands

-----------------------------------------------------------------------------
(* However a peer's bytes are cut into segments, whatever the size of the  *)
(* buffer and wherever the stream ends, the commands handled are its frames  *)
(* in their order, nothing follows a rejected one, and the connection never  *)
(* waits with a command, or a full buffer, in its hands.                   *)
THEOREM StreamIsHandled == StreamSpec => []HandledIsTheStream
<1>1. StreamInv /\ [StreamNext]_streamVars => StreamInv'
  <2> SUFFICES ASSUME StreamInv, [StreamNext]_streamVars PROVE StreamInv'
    OBVIOUS
  <2>1. CASE read_connection
    BY <2>1, ReadKeeps
  <2>2. CASE process_buffered_commands
    BY <2>2, ProcessKeeps
  <2>3. CASE FinishRead \/ flush_connection
    BY <2>3, TurnKeeps
  <2>4. ASSUME NEW f \in Frames, PeerBegins(f) PROVE StreamInv'
    BY <2>4, PeerBeginsKeeps
  <2>5. CASE PeerSends \/ PeerShuts
    BY <2>5, PeerKeeps
  <2>6. CASE UNCHANGED streamVars
    BY <2>6 DEF streamVars, peerVars, StreamInv, Counters, StreamTypes, HasOffsets, IsOffsets,
                Within, Matched, Rejected, SettledStream, next_command, IsOversized, IsHeld
  <2> QED
    BY <2>1, <2>2, <2>3, <2>4, <2>5, <2>6 DEF StreamNext, Server, Peer
<1>2. StreamInv => HandledIsTheStream
  <2> SUFFICES ASSUME StreamInv PROVE HandledIsTheStream
    OBVIOUS
  <2>1. Len(handled) <= Len(stream)
    BY DEF StreamInv, Counters, Within, Matched
  <2>2. DOMAIN handled = 1..Len(handled)
    BY DEF StreamInv, StreamTypes
  <2>3. pc = "poll" /\ pending = "None" => next_command = NoCommand /\ length < LIMIT
    BY WaitingHasRoom DEF StreamInv, SettledStream
  <2> QED
    BY <2>1, <2>2, <2>3 DEF HandledIsTheStream, StreamInv, Matched
<1> QED
  BY <1>1, <1>2, StreamStarts, PTL DEF StreamSpec
=============================================================================
