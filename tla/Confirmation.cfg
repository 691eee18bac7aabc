SPECIFICATION FairSpec
CONSTANTS
  o1 = o1
  o2 = o2
  o3 = o3
  Opps = {o1, o2, o3}
  MaxParallel = 1
  QueueCapacity = 2
  Results <- MCResults
  MaxStops = 1
  MaxFaults = 1
  MaxLate = 1
INVARIANTS
  NothingForgotten
PROPERTIES
  ImplementsDecisions
  AcceptedIsSettled
CHECK_DEADLOCK FALSE
