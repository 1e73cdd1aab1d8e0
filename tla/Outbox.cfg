SPECIFICATION FairOutboxSpec
CONSTANTS
  c1 = c1
  c2 = c2
  f1 = f1
  f2 = f2
  p1 = p1
  p2 = p2
  Captures = {c1, c2, f1, f2}
  Foreign = {f1, f2}
  Posters = {p1, p2}
  BatchSize = 2
  MaxFaults = 2
INVARIANTS
  BookedOnce
  MarkedIsBooked
PROPERTIES
  EveryRowIsPosted
