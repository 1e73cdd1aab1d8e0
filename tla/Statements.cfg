SPECIFICATION Spec
CONSTANTS
  c1 = c1
  c2 = c2
  Captures = {c1, c2}
  LongWeeks = {1}
  ShortWeeks = {}
  WeeksBack = 2
  Outlives = FALSE
  MaxWeek = 3
  MaxOpen = 1
  MaxFaults = 1
CHECK_DEADLOCK FALSE
SYMMETRY CaptureSymmetry
INVARIANTS
  EachCentClaimedOnce
  RecomputationMatches
PROPERTIES
  DisputeHoldsPayout
