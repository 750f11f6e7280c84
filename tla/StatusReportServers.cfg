\* A connection of each of two TCP servers, and two of WEBSOCKET.
CONSTANTS
  w1 = w1  g1 = g1
  WEB = WEB  APP = APP  GATEWAY = GATEWAY  WEBSOCKET = WEBSOCKET
  Cons = {w1, g1}
  WsCons = {x1, x2}
  Keys = {WEB, GATEWAY}
  KeyOf <- ServerOf
  BeatKeys = {}
  Handlers = 1
  Nil = Nil
SPECIFICATION ReportSpec
INVARIANTS ReportTypeOK OwnChangeSeen LastReportTrue WsServedInTurn WsNoLeftovers
SYMMETRY Symmetry
CHECK_DEADLOCK FALSE
