SPECIFICATION Spec
CONSTANTS
  scan = scan
  poll = poll
  Tasks = {scan, poll}
  Commands = poll
  Interval <- MCInterval
  MaxLate = 1
  Updates <- MCUpdates
  MaxFaults = 0
INVARIANT CommandsTakeEffectOnce
