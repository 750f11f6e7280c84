\* A brick that is freed under an entity.
CONSTANTS
  t1 = t1  t2 = t2  t3 = t3
  Threads = {t1, t2}
  Pieces = 1
  Sizes = {4}
  Fits = {4, 8}
  AckTimes = {1, 2}
  MaxBricks = 3
  MaxRemoves = 2
SPECIFICATION Spec
INVARIANT BytesStay
SYMMETRY Symmetry
CHECK_DEADLOCK FALSE
