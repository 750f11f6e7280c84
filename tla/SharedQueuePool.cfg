\* Three writers race for the handle, one producer comes later.
CONSTANTS
  Producers = {p1}
  Consumers = {c1, c2, c3}
  Handles = {h1, h2, h3, h4}
  MaxPuts <- ThriceEach
  EarlyPuts = FALSE
  Nil = Nil
SPECIFICATION Spec
INVARIANTS TypeOK InUseStallBounded PoolSurvives
SYMMETRY Symmetry
CHECK_DEADLOCK FALSE
