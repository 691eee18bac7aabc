SPECIFICATION MCSpec
CONSTANTS
  o1 = o1
  o2 = o2
  o3 = o3
  Ops = {o1, o2, o3}
  FailureThreshold = 2
  SuccessThreshold = 2
  MaxProbes = 2
  RecoveryTimeout = 1
  Ladder <- MCLadder
  MaxTime = 2
  MaxOpenings = 3
  AskedAmount = 5
  Quotable = {0, 1, 200, 300}
  Slippages = {0, 50, 10000}
  QuoteAttempts = 2
  Amount = 10
  Outputs = {0, 18}
  Units = {2}
  Prices = {1}
  Costs = {2}
  Factors <- MCFactors
  Threshold = 1
  Setups <- MCSetups
  MaxAge = 1
  TimeToLive = 1
  Duration = 1
  MinSamples = 2
  MaxSamples = 3
  QuotedGas = 4
  Real = {4, 8}
  MaxSaves = 2
  Results <- MCResults
  SmallestAmount = 100
  Rooms = {1, 2}
  Store <- MCStore
  Day = 4
  Configurations <- MCConfigurations
INVARIANTS
  RefusalsCostNothing
  SwapsCanSucceed
  
  BestFirst
  HoursAreKept
PROPERTIES
  ClosesAfterStreak
  ResourceReturns
  CorrectionIsCurrent
CHECK_DEADLOCK FALSE
