SPECIFICATION FairSpec
CONSTANTS
  scan = scan
  poll = poll
  Tasks = {scan, poll}
  Commands = poll
  Interval <- MCInterval
  MaxLate = 2
  Updates <- MCUpdates
  MaxFaults = 1
INVARIANTS
  GridKept
  CommandsTakenOnce
PROPERTIES
  EveryTaskRuns
