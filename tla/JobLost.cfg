SPECIFICATION Spec
CONSTANTS
  r1 = r1
  r2 = r2
  r3 = r3
  Attempts = {1, 2, 3, 4}
  Requests = {r1, r2, r3}
  Body <- MCBody
  RetryLimit = 1
  MaxFaults = 1
  MaxExpiries = 1
CHECK_DEADLOCK FALSE
INVARIANTS
  CompletedMeansDone
