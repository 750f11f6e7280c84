\* One serial's handle with two writers (a connection and its successor) and
\* two producers: safety, and that a reader that is awake empties the list.
CONSTANTS
  p1 = p1  p2 = p2  c1 = c1  c2 = c2  s1 = s1
  Producers = {p1, p2}
  Consumers = {c1, c2}
  Handles = {s1}
  SerialOf <- OneSerial
  MaxPuts <- TwiceAndOnce
  SweepEvery = 2
  MayAge = TRUE
  Nil = Nil
SPECIFICATION FairSpec
INVARIANTS TypeOK StallBounded
PROPERTIES ImplementsFifo AwakeDrains
CHECK_DEADLOCK FALSE
