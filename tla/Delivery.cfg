SPECIFICATION FairSpec
CONSTANTS
  o1 = o1
  o2 = o2
  chat = chat
  log = log
  Opps = {o1, o2}
  Destinations <- MCDestinations
  Unsendable = {o1}
  MaxAttempts = 2
  BatchLimit = 3
  Deduplicate = FALSE
  MaxFaults = 1
  MaxStops = 1
INVARIANTS
  SettledAgrees
  AttemptsAreTrue
PROPERTIES
  OutInOrder
  DeliveryIsSettled
CHECK_DEADLOCK FALSE
