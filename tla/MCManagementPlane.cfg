SPECIFICATION FairSpec
CONSTANTS
  MAX_REQUEST_BYTES = 2
  WORD_MAX = 9
  Clients <- MCClients
  MessageOf <- MCMessageOf
  SizeOf <- MCSizeOf
  MANAGEMENT_CONNECTION_LIMIT = 2
  WRITE_CHUNK = 1
  RESPONSE = 2
  SEND_ROOM = 1
  MAX_CONNECTION_ID = 2
  AcceptFaults = TRUE
  Readers <- MCReaders
CHECK_DEADLOCK FALSE
INVARIANT
  ActedOnceOnWholeRequests
PROPERTIES
  DecidedClientsAreReleased
  NobodyIsStranded
