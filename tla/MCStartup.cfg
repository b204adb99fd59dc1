SPECIFICATION FairSpec
CONSTANTS
  None = None
  a = a
  b = b
  Processes = {a, b}
  Profiles <- MCProfiles
  Catalogs <- MCCatalogs
  Labels <- MCLabels
  Images <- MCImages
  ManagementPort = 4
  MAX_SCENARIO_CATALOG_ENTRIES = 2
  MaxEdits = 2
  MaxKills = 1
INVARIANT
  IdentityNamesWhatRuns
PROPERTIES
  HealthyMeansServing
  SomebodyServes
