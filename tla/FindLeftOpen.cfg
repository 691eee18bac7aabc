SPECIFICATION Spec
CONSTANTS
  Transactions = {t1}
  Singles = {w1}
  Readers = {r1}
  MaxTries = 2
  MaxFaults = 1
INVARIANT NoneLeftOpen
CHECK_DEADLOCK FALSE
