SPECIFICATION ControlSpec
CONSTANTS
  Streams = {1}
  Endpoints = {1}
  Connections = {1, 2}
  Catalog <- MCCatalog
  ACTIVATION_TOKEN_TTL = 1
  MAX_SCENARIO_TARGETS = 1
  MaxToken = 3
  MaxInstant = 1
  MaxSample = 1
  MaxProcess = 2
PROPERTIES
  SustainedCanBeCleared
  NewcomersAreUntargeted
  ConfirmsWhatWasPrepared
