SPECIFICATION PagesSpec
CONSTANTS
  Streams = {1, 2}
  Connections = {}
  Catalog <- MCCatalog
  ACTIVATION_TOKEN_TTL = 1
  MAX_SCENARIO_TARGETS = 2
  MaxToken = 3
  MaxInstant = 1
  MaxSample = 1
  CONSOLE_LIFECYCLE_RECORDS_PER_PAGE = 1
  MAX_CONSOLE_PAGES = 4
  Facts = {f1, f2}
  Contents = {c1, c2}
  MaxProcess = 2
SYMMETRY MCSymmetry
VIEW MCView
PROPERTIES
  SnapshotIsOneState
  IncoherenceIsReal
