\* A connection that is served but not in the map, with a server
\* that sends no heartbeats.
CONSTANTS
  a1 = a1  a2 = a2  a3 = a3  a4 = a4  k1 = k1
  Cons = {a1, a2, a3}
  Keys = {k1}
  KeyOf <- OneKey
  BeatKeys = {}
  Handlers = 2
  Nil = Nil
SPECIFICATION FairSpec
PROPERTY ActiveIsKnown
CHECK_DEADLOCK FALSE
