\* The walk over the handles freezes on the first old one.
CONSTANTS
  p1 = p1  p2 = p2  c1 = c1  c2 = c2  s1 = s1
  Producers = {p1}
  Consumers = {c1}
  Handles = {s1}
  SerialOf <- OneSerial
  MaxPuts <- TwiceAndOnce
  SweepEvery = 3
  MayAge = TRUE
  Nil = Nil
SPECIFICATION FairSpec
PROPERTY SweepReturns
CHECK_DEADLOCK FALSE
