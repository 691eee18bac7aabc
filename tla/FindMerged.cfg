SPECIFICATION Spec
CONSTANTS
  o1 = o1
  o2 = o2
  chat = chat
  log = log
  Opps = {o1}
  Destinations <- MCOneDestination
  Unsendable = {}
  MaxAttempts = 2
  BatchLimit = 3
  Deduplicate = TRUE
  MaxFaults = 0
  MaxStops = 0
INVARIANT SentWasShown
CHECK_DEADLOCK FALSE
