SPECIFICATION FairSpec
CONSTANTS
  u1 = u1
  u2 = u2
  r1 = r1
  r2 = r2
  Users = {u1}
  Strangers = {u2}
  Requests = {r1, r2}
  Sessions = {1, 2}
  Base = 1
  Bonus = 1
  Total = 4
  Budget = 4
  DailyCap = 3
  MaxDay = 1
  MaxTerms = 2
  MaxVerdicts = 1
  MaxFaults = 1
  MaxTrouble = 1
CHECK_DEADLOCK FALSE
INVARIANTS
  PointsConserved
  AdmittedViewersFit
  PaidOnce
PROPERTIES
  LiveHoldIsPaid
  ClosedStaysClosed
  HoldsComeBack
