SPECIFICATION Spec
CONSTANTS
  PDC_SLOTS_PER_ENDPOINT = 2
  WireVersion = "V3"
  FIRST_VALID_COMMAND_DEADLINE = 1
  IDLE_NON_STREAMING_DEADLINE = 2
  COMMAND_LIMIT = 2
  FRAME = 2
  SEND_ROOM = 2
  Commands = {"Start", "Request"}
  FramePlans <- QuietPlans
  SplitEvents = FALSE
  AcceptFaults = TRUE
  MaxConnects = 2
  MaxSends = 2
INVARIANT
  RuntimeFailuresAreIsolated
