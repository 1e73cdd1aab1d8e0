SPECIFICATION Spec
CONSTANTS
  s1 = s1
  s2 = s2
  u1 = u1
  v1 = v1
  v2 = v2
  r1 = r1
  r2 = r2
  Sagas = {s1}
  Users = {u1}
  Vouchers = {v1, v2}
  Requests = {r1, r2}
  Recovery = recovery
  None = none
  Buyer <- MCBuyer
  Price <- MCPrice
  Funds <- MCFunds
  MayRefuseActivation = TRUE
  MaxCrashes = 2
CHECK_DEADLOCK FALSE
SYMMETRY RaceSymmetry
PROPERTY
  KeepsPromise
INVARIANTS
  NoFreeVoucher
