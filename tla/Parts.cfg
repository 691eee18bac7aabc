SPECIFICATION MCSpec
CONSTANTS
  sell1 = sell1
  sell2 = sell2
  scan1 = scan1
  scan2 = scan2
  Requests = {sell1, sell2, scan1, scan2}
  Priority <- MCPriority
  Limit = 1
  Capacity = 2
  SendCalls = {"s1", "s2", "s3"}
  Nodes = {"n1", "n2"}
  Primary = "n1"
  SendFaults = 2
  Callers = {"c1", "c2", "c3"}
  Keyed = {"c1", "c2"}
  Resources = {"res"}
  Resource <- MCResource
  GlobalLimit = 1
  ResourceLimit = 2
  Burst = 2
  MinInterval = 2
  MaxAttempts = 2
  MaxDelay = 1
  Transactions = {"t1"}
  Singles = {"w1"}
  Readers = {"r1"}
  MaxTries = 2
  DatabaseFaults = 2
  Builds <- MCBuilds
  Keep = 2
  MaxCopies = 4
  StorageFaults = 3
  Providers = {"p1"}
  DegradedAt = 2
  FailedAt = 3
  RecoveredAt = 2
  Repeat = 2
  Workers = {"a", "b"}
  Critical = {"a"}
  RestartLimit = 2
  Day = 3
  Week = 2
  Configured <- MCTasks
  Zones <- MCZones
  MaxDaysAhead = 6
  MaxTime = 15
  MaxFaults = 1
INVARIANTS
  NumbersInOrder
  LimitsAreKept
  AllOrNothing
  SchemaIsRecorded
  StopsAreMeantAndTold
  SafeStopIsFinal
  DaysAreServed
PROPERTIES
  ImplementsPermits
  NobodyWaitsForever
  GoodCopyRemains
  StreaksDecide
  OutagesAreTold
CHECK_DEADLOCK FALSE
