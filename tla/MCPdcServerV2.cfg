SPECIFICATION FairSpec
CONSTANTS
  PDC_SLOTS_PER_ENDPOINT = 1
  WireVersion = "V2"
  FIRST_VALID_COMMAND_DEADLINE = 1
  IDLE_NON_STREAMING_DEADLINE = 2
  COMMAND_LIMIT = 1
  FRAME = 2
  SEND_ROOM = 2
  Commands = {"Start", "Stop", "Request", "Malformed"}
  FramePlans <- MCFramePlans
  SplitEvents = TRUE
  AcceptFaults = FALSE
  MaxConnects = 2
  MaxSends = 2
INVARIANTS
  QueuedFrameMatchesMode
PROPERTIES
  DeadPeersAreClosed
  CommandsAreHandled
  IdleSlotsAreFreed
  NobodyWaitsAtTheListener
