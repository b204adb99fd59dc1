------------------------ MODULE MCScenarioController ------------------------
(* A small instance of ScenarioController: one endpoint with PDCs, and one  *)
(* scenario of each shape the lifecycle distinguishes.                      *)
EXTENDS ScenarioController

Scenario(name, kind, offset, lifecycle, duration) ==
  [name |-> name, kind |-> kind, start_frame_offset |-> offset,
   lifecycle |-> lifecycle, duration_frames |-> duration]

MCCatalog ==
  {Scenario("omit", "MissingFrames", 0, "Transient", 1),
   Scenario("late", "DegradedTime", 1, "Transient", 1),
   Scenario("hold", "SignalExcursion", 0, "Sustained", 0),
   Scenario("drop", "DisconnectPdc", 0, "Sustained", 0)}
=============================================================================
