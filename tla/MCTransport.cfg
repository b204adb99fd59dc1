SPECIFICATION TransportSpec
CONSTANTS
  EndpointCount = 2
  PDC_SLOTS_PER_ENDPOINT = 2
  MANAGEMENT_CONNECTION_LIMIT = 2
  EVENTS_CAPACITY = 1
  USIZE_MAX = 23
  MAX_REQUEST_BYTES = 6
  WORD_MAX = 26
  Messages <- MCMessages
  Texts <- TokenTexts
  Frames <- MCFrames
  LIMIT = 12
  wire_version = 3
  StreamId = 1
  MaxFrames = 3
  Endpoints <- MCEndpoints
  probe_version = 3
  Faults <- MCFaults
  HANDSHAKE_TIMEOUT = 4
  DURATION = 2
  CAPACITY = 6
  MAX_LAG = 1
  MAX_TIME = 8
INVARIANTS
  EventsReachTheirSource
  HandledIsTheStream
  RequestsHaveOneReading
  VerdictsAreEvidence
PROPERTY
  ProbeEnds
CHECK_DEADLOCK FALSE
