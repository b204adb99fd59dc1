SPECIFICATION Spec
CONSTANTS
  Streams = {1}
  Connections = {11, 12}
  Catalog <- MCCatalog
  ACTIVATION_TOKEN_TTL = 1
  MAX_SCENARIO_TARGETS = 2
  MaxToken = 4
  MaxInstant = 2
  MaxSample = 2
INVARIANTS
  ActionsStayApplicable
  LiveConfirmSucceeds
  TrackedWithinCapacity
  TransientsEndOnTime
PROPERTIES
  TwoStepControl
  ConfirmedScenarioTakesEffect
  ImplementsLifecycle
