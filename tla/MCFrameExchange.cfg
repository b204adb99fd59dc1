SPECIFICATION ExchangeSpec
CONSTANTS
  NotFinite = NotFinite
  Profiles <- MCProfiles
  Exchanging <- MCExchanging
  Excursions <- MCExcursions
  Stamps <- MCStamps
  Masks <- MCMasks
  Mixed <- MCMixed
INVARIANTS
  FleetIsDistinct
  SamplesFitTheWire
  WholeFramesAreUnderstood
  SpoiltFramesAreRefused
CHECK_DEADLOCK FALSE
