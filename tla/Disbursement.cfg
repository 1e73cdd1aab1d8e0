SPECIFICATION FairSpec
CONSTANTS
  w1 = w1
  Runners = {w1}
  Banked = 1
  WrongKey = FALSE
  MaxAttempts = 3
  MaxPayouts = 4
  MaxUpdates = 2
  MaxDays = 2
  MaxFaults = 2
CHECK_DEADLOCK FALSE
INVARIANTS
  MoneyMovesOnce
  RowTellsTheTruth
PROPERTIES
  PaidStaysPaid
  NeverUnseen
