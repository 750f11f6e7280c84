\* Two goroutines, two removals that may overlap with everything, each other included.
CONSTANTS
  t1 = t1  t2 = t2  t3 = t3
  Threads = {t1, t2}
  Pieces = 1
  Sizes = {4, 6}
  Fits = {4, 8}
  AckTimes = {1, 2}
  MaxBricks = 3
  MaxRemoves = 2
SPECIFICATION Spec
INVARIANTS TypeOK Exclusive RemovesOne
PROPERTY WalkForward
SYMMETRY Symmetry
CHECK_DEADLOCK FALSE
