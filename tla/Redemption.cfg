SPECIFICATION FairSpec
CONSTANTS
  v1 = v1
  v2 = v2
  h1 = h1
  h2 = h2
  h3 = h3
  f1 = f1
  f2 = f2
  Vouchers = {v1, v2}
  Holds = {h1, h2, h3}
  Refs = {f1}
  Device = {h2, h3}
  Carrying = {v1}
  HoldOn <- MCHoldOn
  Face <- MCFace
  S <- MCS
  MaxCrashes = 1
CHECK_DEADLOCK FALSE
INVARIANTS
  HoldsAgree
  EndsAtS
  ValueConserved
PROPERTIES
  EndedStaysEnded
  OverdueExpires
