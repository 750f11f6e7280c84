\* Two connections of GATEWAY, the reader of UDP, two packets.
CONSTANTS
  GATEWAY = GATEWAY  WEB = WEB  WS = WS
  g1 = g1  g2 = g2  w1 = w1  x1 = x1  u1 = u1
  Servers = {GATEWAY, WEB, WS}
  PerCon = {GATEWAY}
  Channels = {WS}
  Cap = 1
  NeedFeedBack = {GATEWAY}
  Cons = {g1, g2}
  Pool = {w1, x1}
  Serves <- ServesDef
  Clients = {u1}
  Messages = {u1}
  Endless = {u1}
  ToBroadCast <- ToBroadCastDef
  MaxMade = 2
  Nil = Nil
SPECIFICATION Spec
INVARIANTS TypeOK SharesMatch WrittenOnce NothingLost InOrder
SYMMETRY Symmetry
CHECK_DEADLOCK FALSE
