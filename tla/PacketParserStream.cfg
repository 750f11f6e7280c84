\* Clients with and without encryption, every way the network can cut.
CONSTANTS
  Messages <- AllMessages
  Alive <- Beat
  BufSize = 12
  CryptModes = {TRUE, FALSE}
  MaxSent = 3
  MaxTurns = 7
SPECIFICATION Spec
INVARIANTS TypeOK Conserved NoneWaits  LoopEnds
CHECK_DEADLOCK FALSE
