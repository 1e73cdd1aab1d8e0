SPECIFICATION FairSpec
CONSTANTS
  b1 = b1
  b2 = b2
  Bidders = {b1, b2}
  Bids = {1, 2, 3}
  Amounts = {1, 2, 3}
  FaceValue = 2
  Step = 1
  Lasting = 1
  Window = 2
  MaxExtensions = 1
  MaxNow = 2
  MaxFaults = 1
CHECK_DEADLOCK FALSE
INVARIANTS
  SettledFairly
  HighestWins
  ClosedHoldsNothing
PROPERTIES
  EventuallyCloses
