SPECIFICATION Spec
CONSTANTS
  NANOS = 10
  data_rate_hz = 3
  time_base = 6
  MaxSoc = 2
  StartTimes <- MCStartTimes
  MaxLag = 1
  MaxMono = 20
  ClockSteps <- MCClockSteps
  MaxSteps = 2
CHECK_DEADLOCK FALSE
INVARIANTS
  TicksAreAccounted
  FramesAreCurrent
  SamplesKeepTheirTime
PROPERTIES
  SamplesIncrease
  TimestampsIncrease
  AlarmsAreFresh
