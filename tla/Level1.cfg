SPECIFICATION FairSpec
CONSTANTS
  a = a
  b = b
  ur = ur
  fest = fest
  ann = ann
  small = small
  large = large
  Modes = {ur, fest, ann}
  DispatchModes = {ur, fest}
  Late = late
  Providers = {a, b}
  Tokens = {tok}
  Amounts = {small, large}
  Unsupported = {}
  FailureThreshold = 2
  QueueCapacity = 1
  Configurations <- MCConfigurations
INVARIANTS
  CompleteMeansAll
  PauseIsEarned
  DuplicatesAreRaces
PROPERTIES
  ScanEnds
