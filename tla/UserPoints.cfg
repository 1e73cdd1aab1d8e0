SPECIFICATION FairSpec
CONSTANTS
  u1 = u1
  u2 = u2
  g1 = g1
  g2 = g2
  g3 = g3
  e1 = e1
  e2 = e2
  s1 = s1
  s2 = s2
  Users = {u1}
  Grants = {g1, g2}
  Escrows = {e1, e2}
  Sagas = {s1}
  NoHoldback = {g2}
  GrantTo <- MCGrantTo
  GrantPoints <- MCGrantPoints
  EscrowOf <- MCEscrowOf
  EscrowPoints <- MCEscrowPoints
  Buyer <- MCBuyer
  Price <- MCPrice
  Inactivity = 1
  NoticeLead = 1
  MaxClock = 5
  MaxRestarts = 1
CHECK_DEADLOCK FALSE
INVARIANTS
  PendingMatchesGrants
  PointsConserved
PROPERTIES
  NoReleaseUnderEscrow
  NothingExpiresWhileActive
  HeldbackPointsArrive
