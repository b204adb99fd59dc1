--------------------------- MODULE MCReportingClock ---------------------------
(* Small instances of ReportingClock, in which neither a frame period nor a *)
(* tick of the time base is a whole number of nanoseconds.                  *)
EXTENDS ReportingClock

MCStartTimes == {0, 7, 9, 18}
MCClockSteps == {-30, -5, 4}
=============================================================================
