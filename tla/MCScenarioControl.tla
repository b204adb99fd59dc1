-------------------------- MODULE MCScenarioControl --------------------------
(* A small instance of ScenarioControl: one endpoint, two PDC connections.    *)
EXTENDS ScenarioControl

Scenario(name, kind, offset, lifecycle, duration) ==
  [name |-> name, kind |-> kind, start_frame_offset |-> offset,
   lifecycle |-> lifecycle, duration_frames |-> duration]

MCCatalog ==
  {Scenario("omit", "MissingFrames", 0, "Transient", 1),
   Scenario("drop", "DisconnectPdc", 0, "Sustained", 0)}
=============================================================================
