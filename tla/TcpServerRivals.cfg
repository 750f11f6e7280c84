\* Three connections of one serial, two handlers.
CONSTANTS
  a1 = a1  a2 = a2  a3 = a3  a4 = a4  k1 = k1
  Cons = {a1, a2, a3}
  Keys = {k1}
  KeyOf <- OneKey
  BeatKeys = {k1}
  Handlers = 2
  Nil = Nil
SPECIFICATION FairSpec
INVARIANTS TypeOK NoLeftovers ServedIsRegistered
PROPERTIES BrokenIsRemoved HandlersReturn
CHECK_DEADLOCK FALSE
