\* Three packets of three bytes arrive together.
CONSTANTS
  Messages <- ShortMessages
  Alive <- Beat
  BufSize = 12
  CryptModes = {FALSE}
  MaxSent = 3
  MaxTurns = 7
SPECIFICATION Spec
INVARIANT SplitAsSent
CHECK_DEADLOCK FALSE
