------------------------- MODULE StatusReportProofs -------------------------
(***************************************************************************)
(* Theorems about StatusReport and the servers it composes, for any number *)
(* of connections: those of TcpServer hold here too, and the WebSocket     *)
(* server's own; and what an observer reports of the connection it was     *)
(* called for.                                                             *)
(***************************************************************************)
EXTENDS StatusReport, TcpServerProofs

-----------------------------------------------------------------------------
(* The composition: each of its steps is a step of one server, or leaves   *)
(* it alone.                                                               *)
LEMMA TcpPart == ReportSpec => Spec
<1>1. ReportInit => Init
  BY DEF ReportInit
<1>2. [ReportNext]_reportingVars => [Next]_vars
  <2> SUFFICES ASSUME [ReportNext]_reportingVars PROVE [Next]_vars
    OBVIOUS
  <2>1. CASE \E c \in Cons : TcpStep(c) \/ LeaveSilently(c)
    BY <2>1 DEF TcpStep, LeaveSilently, Next
  <2>2. CASE \E x \in WsCons : WebSocketStep(x)
    BY <2>2 DEF WebSocketStep
  <2>3. CASE \E c \in AllCons : SeeWeb(c) \/ SeeApp(c) \/ SeeWebSocket(c)
    BY <2>3 DEF SeeWeb, SeeApp, SeeWebSocket, See
  <2>4. CASE \E c \in AllCons : Tell(c)
    BY <2>4 DEF Tell, Next
  <2>5. CASE UNCHANGED reportingVars
    BY <2>5 DEF reportingVars
  <2>6. QED
    BY <2>1, <2>2, <2>3, <2>4, <2>5 DEF ReportNext
<1>3. QED
  BY <1>1, <1>2, PTL DEF ReportSpec, Spec

LEMMA WebSocketPart == ReportSpec => WS!Spec
<1>1. ReportInit => WS!Init
  BY DEF ReportInit
<1>2. [ReportNext]_reportingVars => [WS!Next]_(WS!vars)
  <2> SUFFICES ASSUME [ReportNext]_reportingVars PROVE [WS!Next]_(WS!vars)
    OBVIOUS
  <2>1. CASE \E c \in Cons : TcpStep(c) \/ LeaveSilently(c)
    BY <2>1 DEF TcpStep, LeaveSilently, wsVars, WS!vars
  <2>2. CASE \E x \in WsCons : WebSocketStep(x)
    BY <2>2 DEF WebSocketStep, WS!Next
  <2>3. CASE \E c \in AllCons : SeeWeb(c) \/ SeeApp(c) \/ SeeWebSocket(c)
    BY <2>3 DEF SeeWeb, SeeApp, SeeWebSocket, See, wsVars, WS!vars
  <2>4. CASE \E c \in AllCons : Tell(c)
    BY <2>4 DEF Tell, WS!Next, wsVars, WS!vars
  <2>5. CASE UNCHANGED reportingVars
    BY <2>5 DEF reportingVars, wsVars, WS!vars
  <2>6. QED
    BY <2>1, <2>2, <2>3, <2>4, <2>5 DEF ReportNext
<1>3. QED
  BY <1>1, <1>2, PTL DEF ReportSpec, WS!Spec

-----------------------------------------------------------------------------
(* As long as the WebSocket connections of the serial come one after the   *)
(* other: of two of them one is not there, the one that is entered stands  *)
(* in Map until it deletes itself, and leaves nobody there.                *)
WsAlone ==
  \A x, y \in WsCons :
    x # y => WEBSOCKET \in wsMet \/ ~WS!Present(x) \/ ~WS!Present(y)

WsRegistered ==
  \A x \in WsCons : wsStage[x] \in {"observe", "read", "delete"} =>
    wsMap[WEBSOCKET] = x \/ WEBSOCKET \in wsMet

WsRemoved ==
  \A x \in WsCons : wsStage[x] = "observeend" =>
    wsMap[WEBSOCKET] = Nil \/ WEBSOCKET \in wsMet

WsInv == WS!TypeOK /\ WS!NoLeftovers /\ WsAlone /\ WsRegistered /\ WsRemoved

(* What the types say.                                                     *)
LEMMA WsTypes ==
  ASSUME WS!TypeOK
  PROVE  /\ wsMap \in [{WEBSOCKET} -> WsCons \cup {Nil}]
         /\ wsStage \in [WsCons -> WS!Stages]
         /\ wsOpen \in [WsCons -> BOOLEAN]
         /\ wsFound \in [WsCons -> WsCons \cup {Nil}]
         /\ wsMet \subseteq {WEBSOCKET}
         /\ \A x \in WsCons : wsStage[x] = "closeother" => wsFound[x] # Nil
         /\ Nil \notin WsCons
BY ServerAssumption DEF WS!TypeOK, ServerAssumption

LEMMA InitWs == WS!Init => WsInv
<1> SUFFICES ASSUME WS!Init PROVE WsInv
  OBVIOUS
<1>1. WS!TypeOK
  BY DEF WS!Init, WS!TypeOK, WS!Stages
<1>2. \A x \in WsCons : wsStage[x] = "new" /\ wsMap[WEBSOCKET] = Nil
  BY DEF WS!Init
<1>3. WS!NoLeftovers /\ WsAlone /\ WsRegistered /\ WsRemoved
  BY <1>2, ServerAssumption
  DEF WS!NoLeftovers, WsAlone, WsRegistered, WsRemoved, WS!Present, ServerAssumption
<1>4. QED
  BY <1>1, <1>3 DEF WsInv

(* Types.                                                                  *)
LEMMA WsTypesStep ==
  ASSUME WS!TypeOK, NEW x \in WsCons,
         WS!Connect(x) \/ WS!HandleStep(x) \/ WS!ObserveNew(x) \/ WS!ObserveEnd(x)
  PROVE  WS!TypeOK'
<1> USE DEF WS!Connect, WS!HandleStep, WS!ObserveNew, WS!ObserveEnd, WS!ReadSerial, WS!StoreNew,
            WS!FindOther, WS!CloseOther, WS!Replace, WS!Stored, WS!ReadError, WS!ReadTooLong,
            WS!Delete, WS!Emptied, WS!SetStage
<1>1. wsMap' \in [{WEBSOCKET} -> WsCons \cup {Nil}]
  BY WsTypes
<1>2. wsStage' \in [WsCons -> WS!Stages]
  BY WsTypes DEF WS!Stages
<1>3. wsOpen' \in [WsCons -> BOOLEAN]
  BY WsTypes
<1>4. wsMet' \subseteq {WEBSOCKET}
  BY WsTypes
<1>5. /\ wsFound' \in [WsCons -> WsCons \cup {Nil}]
      /\ \A y \in WsCons : wsStage'[y] = "closeother" => wsFound'[y] # Nil
  BY WsTypes
<1>6. QED
  BY <1>1, <1>2, <1>3, <1>4, <1>5 DEF WS!TypeOK

(* Only Connect brings a connection in, and that is when rivals meet.      *)
LEMMA WsAloneStep ==
  ASSUME WS!TypeOK, WsAlone, NEW x \in WsCons,
         WS!Connect(x) \/ WS!HandleStep(x) \/ WS!ObserveNew(x) \/ WS!ObserveEnd(x)
  PROVE  WsAlone' /\ wsMet \subseteq wsMet'
<1>1. CASE WS!Connect(x)
  <2>1. /\ \A y \in WsCons \ {x} : WS!Present(y)' = WS!Present(y)
        /\ wsMet \subseteq wsMet'
        /\ WEBSOCKET \in wsMet' \/ \A y \in WsCons \ {x} : ~WS!Present(y)
    BY <1>1, WsTypes DEF WS!Connect, WS!Present, WS!SetStage, WS!Rivals
  <2>2. QED
    BY <2>1 DEF WsAlone
<1>2. CASE ~WS!Connect(x)
  <2>1. /\ \A y \in WsCons : WS!Present(y)' => WS!Present(y)
        /\ UNCHANGED wsMet
    BY <1>2, WsTypes
    DEF WS!HandleStep, WS!ObserveNew, WS!ObserveEnd, WS!ReadSerial, WS!StoreNew, WS!FindOther,
        WS!CloseOther, WS!Replace, WS!ReadError, WS!ReadTooLong, WS!Delete, WS!SetStage, WS!Present
  <2>2. QED
    BY <2>1 DEF WsAlone
<1>3. QED
  BY <1>1, <1>2

(* The map belongs to whoever is there alone.                              *)
LEMMA WsMapStep ==
  ASSUME WsInv, NEW x \in WsCons,
         WS!Connect(x) \/ WS!HandleStep(x) \/ WS!ObserveNew(x) \/ WS!ObserveEnd(x)
  PROVE  WS!NoLeftovers' /\ WsRegistered' /\ WsRemoved'
<1> USE DEF WsInv, WS!SetStage
<1>1. wsMet \subseteq wsMet'
  BY WsAloneStep
<1>2. \A y \in WsCons \ {x} : WS!Present(x) /\ WS!Present(y) => WEBSOCKET \in wsMet
  BY DEF WsAlone
<1>3. CASE WS!StoreNew(x) \/ WS!Replace(x)
  <2>1. /\ wsStage[x] \in {"store", "replace"}
        /\ wsMap' = [wsMap EXCEPT ![WEBSOCKET] = x]
        /\ wsStage' = [wsStage EXCEPT ![x] = "observe"]
    BY <1>3 DEF WS!StoreNew, WS!Replace, WS!Stored
  <2>2. /\ wsMap'[WEBSOCKET] = x /\ wsStage'[x] = "observe"
        /\ \A y \in WsCons \ {x} : wsStage'[y] = wsStage[y]
    BY <2>1, WsTypes
  <2>3. \A y \in WsCons \ {x} : WS!Present(y) => WEBSOCKET \in wsMet'
    BY <1>1, <1>2, <2>1 DEF WS!Present
  <2>4. QED
    BY <2>2, <2>3 DEF WS!NoLeftovers, WsRegistered, WsRemoved, WS!Present
<1>4. CASE WS!Delete(x)
  <2>1. /\ wsStage[x] = "delete"
        /\ wsMap' = [wsMap EXCEPT ![WEBSOCKET] = Nil]
        /\ wsStage' = [wsStage EXCEPT ![x] = "observeend"]
    BY <1>4 DEF WS!Delete, WS!Emptied
  <2>2. /\ wsMap'[WEBSOCKET] = Nil /\ wsStage'[x] = "observeend"
        /\ \A y \in WsCons \ {x} : wsStage'[y] = wsStage[y]
    BY <2>1, WsTypes
  <2>3. \A y \in WsCons \ {x} : WS!Present(y) => WEBSOCKET \in wsMet'
    BY <1>1, <1>2, <2>1 DEF WS!Present
  <2>4. QED
    BY <2>2, <2>3, WsTypes DEF WS!NoLeftovers, WsRegistered, WsRemoved, WS!Present
<1>5. CASE ~(WS!StoreNew(x) \/ WS!Replace(x) \/ WS!Delete(x))
  <2>1. UNCHANGED wsMap
    BY <1>5
    DEF WS!Connect, WS!HandleStep, WS!ObserveNew, WS!ObserveEnd, WS!ReadSerial, WS!FindOther,
        WS!CloseOther, WS!ReadError, WS!ReadTooLong
  <2>2. /\ \A y \in WsCons \ {x} : wsStage'[y] = wsStage[y]
        /\ \/ /\ wsStage[x] \notin {"observe", "read", "delete", "panicked", "observeend"}
              /\ wsStage'[x] \in {"serial", "store", "refused", "closeother", "replace"}
           \/ wsStage[x] = "observe" /\ wsStage'[x] = "read"
           \/ wsStage[x] = "read" /\ wsStage'[x] \in {"delete", "panicked"}
           \/ wsStage[x] = "observeend" /\ wsStage'[x] = "gone"
    BY <1>5, WsTypes
    DEF WS!Connect, WS!HandleStep, WS!ObserveNew, WS!ObserveEnd, WS!ReadSerial, WS!FindOther,
        WS!CloseOther, WS!ReadError, WS!ReadTooLong
  <2>3. QED
    BY <1>1, <2>1, <2>2 DEF WS!NoLeftovers, WsRegistered, WsRemoved
<1>6. QED
  BY <1>3, <1>4, <1>5

(* The WebSocket server keeps its invariant.                               *)
LEMMA WsInvariant == ReportSpec => []WsInv
<1>1. WsInv /\ [WS!Next]_(WS!vars) => WsInv'
  <2> SUFFICES ASSUME WsInv, [WS!Next]_(WS!vars) PROVE WsInv'
    OBVIOUS
  <2>1. CASE WS!Next
    BY <2>1, WsTypesStep, WsAloneStep, WsMapStep DEF WS!Next, WsInv
  <2>2. CASE UNCHANGED WS!vars
    BY <2>2
    DEF WS!vars, WsInv, WS!TypeOK, WS!NoLeftovers, WsAlone, WsRegistered, WsRemoved, WS!Present
  <2>3. QED
    BY <2>1, <2>2
<1>2. WS!Spec => []WsInv
  BY InitWs, <1>1, PTL DEF WS!Spec
<1>3. QED
  BY <1>2, WebSocketPart, PTL

(* However often WebSocket clients take a serial over from each other, no  *)
(* entry stays in Map whose handler has no Delete to come, but for a       *)
(* handler that panicked (new/server_websocket.go:138-222).                *)
THEOREM WsNothingIsLeft == ReportSpec => []WsNoLeftovers
<1>1. WsInv => WsNoLeftovers
  BY DEF WsInv, WsNoLeftovers
<1>2. QED
  BY <1>1, WsInvariant, PTL

(* As long as they come one after the other, the one that is served is in  *)
(* Map (new/server_websocket.go:138-222).                                  *)
THEOREM WsServed == ReportSpec => []WsServedInTurn
<1>1. WsInv => WsServedInTurn
  BY DEF WsInv, WsRegistered, WsServedInTurn, WS!ServedInTurn
<1>2. QED
  BY <1>1, WsInvariant, PTL

-----------------------------------------------------------------------------
(* The reader that deleted its own entry finds it gone, as long as nobody  *)
(* else was there.                                                         *)
Removed ==
  \A c \in Cons : reader[c] \in {"close", "observe"} =>
    tcpClientCons[KeyOf[c]] = Nil \/ KeyOf[c] \in met

LEMMA RemovedStep ==
  ASSUME ConInv, TurnInv, Removed, [Next]_vars
  PROVE  Removed'
<1> USE DEF SetStage, SetReader
<1>0. \A c \in Cons : reader[c] \in {"close", "observe"} => stage[c] = "served" /\ Present(c)
  BY DEF ConInv, LifeInv, Present
<1>1. CASE \E d \in Cons : RemoveCon(d)
  <2>1. PICK d \in Cons : RemoveCon(d)
    BY <1>1
  <2>2. /\ reader' = [reader EXCEPT ![d] = "close"]
        /\ tcpClientCons' = [tcpClientCons EXCEPT ![KeyOf[d]] = Nil]
        /\ UNCHANGED met
    BY <2>1 DEF RemoveCon, Emptied
  <2>3. /\ \A c \in Cons : tcpClientCons[KeyOf[c]] = Nil => tcpClientCons'[KeyOf[c]] = Nil
        /\ tcpClientCons'[KeyOf[d]] = Nil
    BY <2>2, ConTypes DEF ConInv, TypeOK
  <2>4. \A c \in Cons \ {d} : reader'[c] = reader[c]
    BY <2>2 DEF ConInv, TypeOK
  <2>5. QED
    BY <2>2, <2>3, <2>4 DEF Removed
<1>2. CASE \E d \in Cons : LoadOrStore(d)
  <2>1. PICK d \in Cons : LoadOrStore(d)
    BY <1>2
  <2>2. /\ stage[d] = "store" /\ reader[d] = "off"
        /\ UNCHANGED <<reader, met>>
        /\ \/ tcpClientCons' = tcpClientCons
           \/ tcpClientCons' = [tcpClientCons EXCEPT ![KeyOf[d]] = d]
    BY <2>1 DEF LoadOrStore, Stored, ConInv, LifeInv
  <2>3. \A c \in Cons : reader[c] \in {"close", "observe"} /\ KeyOf[c] = KeyOf[d] => KeyOf[c] \in met
    BY <1>0, <2>2 DEF TurnInv, Alone, Rivals, Present
  <2>4. \A c \in Cons :
          KeyOf[c] # KeyOf[d] => tcpClientCons'[KeyOf[c]] = tcpClientCons[KeyOf[c]]
    BY <2>2, ConTypes DEF ConInv, TypeOK
  <2>5. QED
    BY <2>2, <2>3, <2>4 DEF Removed
<1>3. CASE ~ \E d \in Cons : RemoveCon(d) \/ LoadOrStore(d)
  <2>1. /\ met \subseteq met'
        /\ \A c \in Cons : tcpClientCons[KeyOf[c]] = Nil => tcpClientCons'[KeyOf[c]] = Nil
    <3>1. met' = met \/ \E d \in Cons : Accept(d)
      BY <1>3
      DEF Next, HandlerStep, ObserveNew, CastStep, Cast, ReadAgain, ReaderStep, ObserveEnd, EnvironmentStep, BeatStep, Take,
          Acknowledge, AddBeat, Evict, CloseSelf, CloseOther, Spawn, ReadError, RemoveBeat, CloseRead,
          WriteError, Break, StartBeats, LoadBeat, WriteBeat, vars
    <3>2. tcpClientCons' = tcpClientCons \/ \E d \in Cons : Evict(d)
      BY <1>3
      DEF Next, HandlerStep, ObserveNew, CastStep, Cast, ReadAgain, ReaderStep, ObserveEnd, EnvironmentStep, BeatStep, Take,
          Acknowledge, AddBeat, CloseSelf, CloseOther, Spawn, ReadError, RemoveBeat, CloseRead,
          Accept, WriteError, Break, StartBeats, LoadBeat, WriteBeat, vars
    <3>3. met \subseteq met'
      BY <3>1 DEF Accept
    <3>4. /\ tcpClientCons \in [Keys -> Cons \cup {Nil}]
          /\ \A c \in Cons : KeyOf[c] \in Keys
      BY ConTypes DEF ConInv, TypeOK
    <3>5. \A k \in Keys : tcpClientCons[k] = Nil => tcpClientCons'[k] = Nil
      BY <3>2, <3>4 DEF Evict
    <3>6. QED
      BY <3>3, <3>4, <3>5
  <2>2. \A c \in Cons : reader'[c] \in {"close", "observe"} => reader[c] \in {"close", "observe"}
    <3>1. \/ reader' = reader
          \/ \E d \in Cons : \/ Spawn(d) \/ Cast(d) \/ ReadAgain(d)
                             \/ ReadError(d) \/ RemoveBeat(d) \/ CloseRead(d)
                             \/ ObserveEnd(d)
      BY <1>3
      DEF Next, HandlerStep, ObserveNew, CastStep, ReaderStep, EnvironmentStep, BeatStep, Take, Acknowledge,
          AddBeat, Evict, CloseSelf, CloseOther, Accept, WriteError, Break, StartBeats, LoadBeat,
          WriteBeat, vars
    <3>2. \/ reader' = reader
          \/ \E d \in Cons : \/ \E l \in {"read", "cast", "unbeat", "delete", "gone"} :
                                 reader' = [reader EXCEPT ![d] = l]
                             \/ reader[d] = "close" /\ reader' = [reader EXCEPT ![d] = "observe"]
      BY <3>1 DEF Spawn, Cast, ReadAgain, ReadError, RemoveBeat, CloseRead, ObserveEnd
    <3>3. QED
      BY <3>2 DEF ConInv, TypeOK
  <2>3. QED
    BY <2>1, <2>2 DEF Removed
<1>4. QED
  BY <1>1, <1>2, <1>3

(* What holds of the servers whatever is reported.                         *)
ServersInv == ConInv /\ TurnInv /\ Removed /\ WsInv

LEMMA ServersInvariant == ReportSpec => []ServersInv
<1>1. Init => Removed
  BY DEF Init, Removed
<1>2. ConInv /\ TurnInv /\ Removed /\ [Next]_vars => Removed'
  BY RemovedStep
<1>3. Spec => []Removed
  BY <1>1, <1>2, ConInvariant, TurnInvariant, PTL DEF Spec
<1>4. QED
  BY <1>3, TcpPart, ConInvariant, TurnInvariant, WsInvariant, PTL DEF ServersInv

-----------------------------------------------------------------------------
(* The servers an observer has asked by now.                               *)
Asked(c) ==
  CASE look[c] = "web" -> {}
    [] look[c] = "app" -> {WEB}
    [] look[c] = "websocket" -> {WEB, APP}
    [] look[c] = "tell" -> {WEB, APP, WEBSOCKET}

LookTypes ==
  /\ look \in [AllCons -> {"web", "app", "websocket", "tell"}]
  /\ saw \in [AllCons -> SUBSET {WEB, APP, WEBSOCKET}]

(* What was asked decides what was seen, and of the observer's own server  *)
(* it is what the observer was called for.                                 *)
SawInv ==
  /\ \A c \in AllCons : saw[c] \subseteq Asked(c)
  /\ \A c \in AllCons : look[c] # "web" => Observing(c)
  /\ \A c \in AllCons :
       Server(c) \in Asked(c) /\ ~Met(Server(c)) => (Server(c) \in saw[c] <=> NewObserved(c))

(* Own change: the maps say what the observer was called for.              *)
LEMMA OwnChange ==
  ASSUME ServersInv, NEW c \in AllCons, Observing(c), ~Met(Server(c))
  PROVE  SerialIsActivity(Server(c)) <=> NewObserved(c)
<1> USE ServerAssumption, TcpAssumption DEF ServerAssumption, TcpAssumption, ServersInv, AllCons
<1>0. WEBSOCKET \notin Keys
  OBVIOUS
<1>1. CASE c \in Cons
  <2>1. c \notin WsCons /\ Server(c) = KeyOf[c] /\ KeyOf[c] \in Keys /\ KeyOf[c] \notin met
    BY <1>1 DEF Server, Met
  <2>2. CASE stage[c] = "observe"
    <3>1. reader[c] = "off"
      BY <1>1, <2>2 DEF ConInv, LifeInv
    <3>2. tcpClientCons[KeyOf[c]] = c
      BY <1>1, <2>1, <2>2, <3>1 DEF TurnInv, Registered
    <3>3. QED
      BY <1>1, <2>1, <2>2, <3>2 DEF SerialIsActivity, NewObserved
  <2>3. CASE stage[c] # "observe"
    <3>1. reader[c] = "observe"
      BY <2>1, <2>3 DEF Observing, NewObserved, EndObserved
    <3>2. tcpClientCons[KeyOf[c]] = Nil
      BY <1>1, <2>1, <3>1 DEF Removed
    <3>3. QED
      BY <1>0, <2>1, <2>3, <3>2 DEF SerialIsActivity, NewObserved
  <2>4. QED
    BY <2>2, <2>3
<1>2. CASE c \in WsCons
  <2>1. c \notin Cons /\ Server(c) = WEBSOCKET /\ WEBSOCKET \notin wsMet
    BY <1>2 DEF Server, Met
  <2>2. CASE wsStage[c] = "observe"
    <3>1. wsMap[WEBSOCKET] = c
      BY <1>2, <2>1, <2>2 DEF WsInv, WsRegistered
    <3>2. QED
      BY <1>2, <2>1, <2>2, <3>1 DEF SerialIsActivity, NewObserved
  <2>3. CASE wsStage[c] # "observe"
    <3>1. wsStage[c] = "observeend"
      BY <2>1, <2>3 DEF Observing, NewObserved, EndObserved
    <3>2. wsMap[WEBSOCKET] = Nil
      BY <1>2, <2>1, <3>1 DEF WsInv, WsRemoved
    <3>3. QED
      BY <1>0, <2>1, <2>3, <3>2 DEF SerialIsActivity, NewObserved
  <2>4. QED
    BY <2>2, <2>3
<1>3. QED
  BY <1>1, <1>2

(* Whoever is observed stays so until its observer has told.               *)
LEMMA TcpLeavesObserved ==
  ASSUME ConInv, NEW d \in Cons, HandlerStep(d) \/ ReaderStep(d) \/ EnvironmentStep(d)
  PROVE  \A c \in Cons : /\ stage[c] \in {"observe", "served"} => stage'[c] = stage[c]
                         /\ reader[c] = "observe" => reader'[c] = "observe"
<1>1. CASE HandlerStep(d)
  <2>1. /\ stage[d] \notin {"observe", "served"}
        /\ \E s \in {"ack", "beat", "refused", "store", "observe", "evict", "closeself", "closeother",
                     "served"} : stage' = [stage EXCEPT ![d] = s]
        /\ reader' = reader \/ (reader[d] = "off" /\ reader' = [reader EXCEPT ![d] = "read"])
    BY <1>1, TakeQueue
    DEF HandlerStep, Take, Acknowledge, AddBeat, LoadOrStore, Evict, CloseSelf, CloseOther, Spawn,
        SetStage, SetReader, ConInv, LifeInv
  <2>2. QED
    BY <2>1 DEF ConInv, TypeOK
<1>2. CASE ReaderStep(d)
  <2>1. /\ reader[d] # "observe" /\ UNCHANGED stage
        /\ \E r \in {"unbeat", "delete", "close", "observe"} : reader' = [reader EXCEPT ![d] = r]
    BY <1>2 DEF ReaderStep, ReadError, RemoveBeat, RemoveCon, CloseRead, SetReader
  <2>2. QED
    BY <2>1 DEF ConInv, TypeOK
<1>3. CASE EnvironmentStep(d)
  <2>1. /\ UNCHANGED reader
        /\ stage' = stage \/ (stage[d] = "new" /\ stage' = [stage EXCEPT ![d] = "queued"])
    BY <1>3 DEF EnvironmentStep, Accept, WriteError, Break, SetStage
  <2>2. QED
    BY <2>1 DEF ConInv, TypeOK
<1>4. QED
  BY <1>1, <1>2, <1>3

LEMMA WsLeavesObserved ==
  ASSUME WsInv, NEW d \in WsCons, WS!Connect(d) \/ WS!HandleStep(d)
  PROVE  \A c \in WsCons : wsStage[c] \in {"observe", "observeend"} => wsStage'[c] = wsStage[c]
<1>1. wsStage[d] \notin {"observe", "observeend"}
  BY DEF WS!Connect, WS!HandleStep, WS!ReadSerial, WS!StoreNew, WS!FindOther, WS!CloseOther,
         WS!Replace, WS!ReadError, WS!ReadTooLong, WS!Delete
<1>2. \A c \in WsCons \ {d} : wsStage'[c] = wsStage[c]
  BY WsTypes
  DEF WS!Connect, WS!HandleStep, WS!ReadSerial, WS!StoreNew, WS!FindOther, WS!CloseOther,
      WS!Replace, WS!ReadError, WS!ReadTooLong, WS!Delete, WS!SetStage, WsInv
<1>3. QED
  BY <1>1, <1>2

(* Telling ends the observation of one connection only.                    *)
LEMMA TellLeavesOthers ==
  ASSUME ServersInv, NEW d \in AllCons, Tell(d)
  PROVE  \A c \in AllCons \ {d} :
           /\ c \in Cons => stage'[c] = stage[c] /\ reader'[c] = reader[c]
           /\ c \in WsCons => wsStage'[c] = wsStage[c]
<1>1. CASE d \in Cons /\ (ObserveNew(d) \/ ObserveEnd(d)) /\ UNCHANGED wsVars
  BY <1>1 DEF ObserveNew, ObserveEnd, SetStage, SetReader, wsVars, ServersInv, ConInv, TypeOK
<1>2. CASE d \in WsCons /\ (WS!ObserveNew(d) \/ WS!ObserveEnd(d)) /\ UNCHANGED vars
  BY <1>2, WsTypes
  DEF WS!ObserveNew, WS!ObserveEnd, WS!SetStage, vars, ServersInv, WsInv
<1>3. QED
  BY <1>1, <1>2 DEF Tell

LEMMA ObservedStays ==
  ASSUME ServersInv, [ReportNext]_reportingVars, NEW c \in AllCons, Observing(c), ~Tell(c)
  PROVE  Observing(c)' /\ (NewObserved(c)' <=> NewObserved(c))
<1> USE ServerAssumption DEF ServerAssumption, ServersInv, AllCons
<1>1. c \in Cons => stage[c] = "observe" \/ (stage[c] = "served" /\ reader[c] = "observe")
  BY DEF Observing, NewObserved, EndObserved, ConInv, LifeInv
<1>2. SUFFICES /\ c \in Cons => stage'[c] = stage[c] /\ (reader[c] = "observe" => reader'[c] = "observe")
               /\ c \in WsCons => wsStage'[c] = wsStage[c]
  BY <1>1 DEF Observing, NewObserved, EndObserved, NoReport, Server
<1>3. c \in WsCons => wsStage[c] \in {"observe", "observeend"}
  BY DEF Observing, NewObserved, EndObserved
<1>4. CASE \E d \in Cons : TcpStep(d)
  BY <1>1, <1>4, TcpLeavesObserved DEF TcpStep, wsVars
<1>5. CASE \E d \in Cons : LeaveSilently(d)
  <2>1. PICK d \in Cons : LeaveSilently(d)
    BY <1>5
  <2>2. d # c
    BY <1>1, <2>1 DEF LeaveSilently, ObserveEnd, Observing, NewObserved, EndObserved, ConInv, LifeInv
  <2>3. QED
    BY <2>1, <2>2 DEF LeaveSilently, ObserveEnd, SetReader, wsVars, ConInv, TypeOK
<1>6. CASE \E d \in WsCons : WebSocketStep(d)
  BY <1>3, <1>6, WsLeavesObserved DEF WebSocketStep, vars
<1>7. CASE \E d \in AllCons : SeeWeb(d) \/ SeeApp(d) \/ SeeWebSocket(d)
  BY <1>7 DEF SeeWeb, SeeApp, SeeWebSocket, See, vars, wsVars
<1>8. CASE \E d \in AllCons : Tell(d)
  BY <1>8, TellLeavesOthers
<1>9. CASE UNCHANGED reportingVars
  BY <1>9 DEF reportingVars, vars, wsVars
<1>10. QED
  BY <1>4, <1>5, <1>6, <1>7, <1>8, <1>9 DEF ReportNext

(* Whoever met has met.                                                    *)
LEMMA MetStays ==
  ASSUME ServersInv, [ReportNext]_reportingVars, NEW s
  PROVE  Met(s) => Met(s)'
<1> USE DEF ServersInv
<1>1. met \subseteq met'
  <2>1. ASSUME NEW d \in Cons, HandlerStep(d) \/ ObserveNew(d) \/ ReaderStep(d) \/ ObserveEnd(d)
                               \/ EnvironmentStep(d)
        PROVE  met \subseteq met'
    BY <2>1
    DEF HandlerStep, ObserveNew, ReaderStep, ObserveEnd, EnvironmentStep, Take, Acknowledge, AddBeat,
        LoadOrStore, Evict, CloseSelf, CloseOther, Spawn, ReadError, RemoveBeat, RemoveCon, CloseRead,
        Accept, WriteError, Break
  <2>2. UNCHANGED vars => met' = met
    BY DEF vars
  <2>3. QED
    BY <2>1, <2>2
    DEF ReportNext, TcpStep, LeaveSilently, WebSocketStep, SeeWeb, SeeApp, SeeWebSocket, See, Tell,
        reportingVars
<1>2. wsMet \subseteq wsMet'
  <2>1. ASSUME NEW d \in WsCons,
               WS!Connect(d) \/ WS!HandleStep(d) \/ WS!ObserveNew(d) \/ WS!ObserveEnd(d)
        PROVE  wsMet \subseteq wsMet'
    BY <2>1, WsAloneStep DEF WsInv
  <2>2. UNCHANGED wsVars => wsMet' = wsMet
    BY DEF wsVars
  <2>3. QED
    BY <2>1, <2>2
    DEF ReportNext, TcpStep, LeaveSilently, WebSocketStep, SeeWeb, SeeApp, SeeWebSocket, See, Tell,
        reportingVars
<1>3. QED
  BY <1>1, <1>2 DEF Met

(* One server is asked.                                                    *)
LEMMA SeeStep ==
  ASSUME ServersInv, LookTypes, SawInv, NEW d \in AllCons,
         SeeWeb(d) \/ SeeApp(d) \/ SeeWebSocket(d)
  PROVE  LookTypes' /\ SawInv'
<1> USE ServerAssumption DEF ServerAssumption
<1>1. PICK s \in {WEB, APP, WEBSOCKET}, next \in {"app", "websocket", "tell"} :
        /\ See(d, s, next)
        /\ \/ look[d] = "web" /\ s = WEB /\ next = "app"
           \/ look[d] = "app" /\ s = APP /\ next = "websocket"
           \/ look[d] = "websocket" /\ s = WEBSOCKET /\ next = "tell"
  BY DEF SeeWeb, SeeApp, SeeWebSocket
<1>2. /\ Observing(d)
      /\ saw' = [saw EXCEPT ![d] = @ \cup Connected({s})]
      /\ look' = [look EXCEPT ![d] = next]
      /\ UNCHANGED <<vars, wsVars>>
  BY <1>1 DEF See
<1>3. Connected({s}) = IF SerialIsActivity(s) THEN {s} ELSE {}
  BY DEF Connected
<1>4. /\ look'[d] = next /\ saw'[d] = saw[d] \cup Connected({s})
      /\ \A c \in AllCons \ {d} : look'[c] = look[c] /\ saw'[c] = saw[c]
  BY <1>2 DEF LookTypes
<1>5. LookTypes'
  BY <1>2, <1>3 DEF LookTypes
<1>6. /\ Asked(d)' = Asked(d) \cup {s} /\ s \notin Asked(d)
      /\ \A c \in AllCons \ {d} : Asked(c)' = Asked(c)
  BY <1>1, <1>4 DEF Asked
<1>7. /\ \A c \in AllCons : Observing(c)' = Observing(c) /\ NewObserved(c)' = NewObserved(c)
      /\ \A r : Met(r)' = Met(r)
  BY <1>2 DEF vars, wsVars, Observing, NewObserved, EndObserved, NoReport, Server, Met
<1>8. \A c \in AllCons : saw'[c] \subseteq Asked(c)'
  <2>1. saw[d] \subseteq Asked(d) /\ Connected({s}) \subseteq {s}
    BY <1>3 DEF SawInv
  <2>2. saw'[d] \subseteq Asked(d)'
    BY <1>4, <1>6, <2>1
  <2>3. \A c \in AllCons \ {d} : saw'[c] \subseteq Asked(c)'
    <3> SUFFICES ASSUME NEW c \in AllCons \ {d} PROVE saw'[c] \subseteq Asked(c)'
      OBVIOUS
    <3>1. saw'[c] = saw[c] /\ Asked(c)' = Asked(c) /\ saw[c] \subseteq Asked(c)
      BY <1>4, <1>6 DEF SawInv
    <3>2. QED
      BY <3>1
  <2>4. QED
    BY <2>2, <2>3
<1>9. \A c \in AllCons : look'[c] # "web" => Observing(c)'
  BY <1>2, <1>4, <1>7 DEF SawInv
<1>10. ASSUME NEW c \in AllCons, Server(c) \in Asked(c)', ~Met(Server(c))'
       PROVE  Server(c) \in saw'[c] <=> NewObserved(c)'
  <2>1. ~Met(Server(c))
    BY <1>7, <1>10 DEF Server
  <2>2. CASE Server(c) \in Asked(c)
    <3>1. Server(c) \in saw'[c] <=> Server(c) \in saw[c]
      BY <1>3, <1>4, <1>6, <2>2
    <3>2. QED
      BY <1>7, <2>1, <2>2, <3>1 DEF SawInv
  <2>3. CASE Server(c) \notin Asked(c)
    <3>1. c = d /\ Server(c) = s
      BY <1>6, <1>10, <2>3
    <3>2. Server(c) \notin saw[c]
      BY <2>3 DEF SawInv
    <3>3. Server(c) \in saw'[c] <=> SerialIsActivity(s)
      BY <1>3, <1>4, <3>1, <3>2
    <3>4. QED
      BY <1>2, <1>7, <2>1, <3>1, <3>3, OwnChange
  <2>4. QED
    BY <2>2, <2>3
<1>11. QED
  BY <1>5, <1>8, <1>9, <1>10 DEF SawInv, Server

(* The report goes out, and the next one starts from nothing.              *)
LEMMA TellStep ==
  ASSUME ServersInv, LookTypes, SawInv, NEW d \in AllCons, Tell(d), [ReportNext]_reportingVars
  PROVE  LookTypes' /\ SawInv'
<1>1. /\ look' = [look EXCEPT ![d] = "web"]
      /\ saw' = [saw EXCEPT ![d] = {}]
  BY DEF Tell
<1>2. LookTypes'
  BY <1>1 DEF LookTypes
<1>3. /\ look'[d] = "web" /\ saw'[d] = {} /\ Asked(d)' = {}
      /\ \A c \in AllCons \ {d} : look'[c] = look[c] /\ saw'[c] = saw[c] /\ Asked(c)' = Asked(c)
  BY <1>1 DEF LookTypes, Asked
<1>4. \A c \in AllCons \ {d} :
        Observing(c) => Observing(c)' /\ (NewObserved(c)' <=> NewObserved(c))
  BY TellLeavesOthers DEF Observing, NewObserved, EndObserved, NoReport, Server, AllCons
<1>5. \A c \in AllCons : Asked(c) # {} => look[c] # "web"
  BY DEF Asked
<1>6. \A c \in AllCons : ~Met(Server(c))' => ~Met(Server(c))
  BY MetStays DEF Met, Server
<1>7. QED
  BY <1>2, <1>3, <1>4, <1>5, <1>6 DEF SawInv, Server

(* Everything else leaves observers and what they are called for alone.    *)
LEMMA OtherStep ==
  ASSUME ServersInv, LookTypes, SawInv, [ReportNext]_reportingVars, UNCHANGED <<look, saw>>,
         \A d \in AllCons : ~Tell(d)
  PROVE  LookTypes' /\ SawInv'
<1>1. \A c \in AllCons :
        Observing(c) => Observing(c)' /\ (NewObserved(c)' <=> NewObserved(c))
  BY ObservedStays
<1>2. \A c \in AllCons : Asked(c)' = Asked(c) /\ (Asked(c) # {} => look[c] # "web")
  BY DEF Asked
<1>3. \A c \in AllCons : ~Met(Server(c))' => ~Met(Server(c))
  BY MetStays DEF Met, Server
<1>4. QED
  BY <1>1, <1>2, <1>3 DEF SawInv, LookTypes, Server

(* The invariant of the observers.                                         *)
LEMMA ReportInvariant == ReportSpec => [](LookTypes /\ SawInv)
<1>1. ReportInit => LookTypes /\ SawInv
  <2> SUFFICES ASSUME ReportInit PROVE LookTypes /\ SawInv
    OBVIOUS
  <2>1. \A c \in AllCons : look[c] = "web" /\ saw[c] = {}
    BY DEF ReportInit
  <2>2. \A c \in AllCons : Asked(c) = {}
    BY <2>1 DEF Asked
  <2>3. LookTypes
    BY DEF ReportInit, LookTypes
  <2>4. QED
    BY <2>1, <2>2, <2>3 DEF SawInv
<1>2. ServersInv /\ LookTypes /\ SawInv /\ [ReportNext]_reportingVars => LookTypes' /\ SawInv'
  <2> SUFFICES ASSUME ServersInv, LookTypes, SawInv, [ReportNext]_reportingVars
               PROVE  LookTypes' /\ SawInv'
    OBVIOUS
  <2>1. CASE \E d \in AllCons : SeeWeb(d) \/ SeeApp(d) \/ SeeWebSocket(d)
    BY <2>1, SeeStep
  <2>2. CASE \E d \in AllCons : Tell(d)
    BY <2>2, TellStep
  <2>3. CASE /\ ~ \E d \in AllCons : SeeWeb(d) \/ SeeApp(d) \/ SeeWebSocket(d)
             /\ ~ \E d \in AllCons : Tell(d)
    <3>1. UNCHANGED <<look, saw>>
      BY <2>3 DEF ReportNext, TcpStep, LeaveSilently, WebSocketStep, reportVars, reportingVars
    <3>2. QED
      BY <2>3, <3>1, OtherStep
  <2>4. QED
    BY <2>1, <2>2, <2>3
<1>3. QED
  BY <1>1, <1>2, ServersInvariant, PTL DEF ReportSpec

(* The state of the observers and of the servers they look at is always    *)
(* well typed, and a report names WEB and APP only (new/main.go:157-222).  *)
THEOREM ReportTypeCorrect == ReportSpec => []ReportTypeOK
<1> DEFINE Told == told \in (SUBSET {WEB, APP}) \cup {Nil} /\ overlap \in BOOLEAN
<1>1. ReportInit => Told
  BY DEF ReportInit
<1>2. Told /\ [ReportNext]_reportingVars => Told'
  <2> SUFFICES ASSUME Told, [ReportNext]_reportingVars PROVE Told'
    OBVIOUS
  <2>1. CASE \E d \in AllCons : Tell(d)
    <3>1. PICK d \in AllCons : Tell(d)
      BY <2>1
    <3>2. Mode(saw[d]) \subseteq {WEB, APP}
      BY DEF Mode
    <3>3. told' \in (SUBSET {WEB, APP}) \cup {Nil}
      BY <3>1, <3>2 DEF Tell
    <3>4. overlap' \in BOOLEAN
      BY <3>1, Zenon DEF Tell
    <3>5. QED
      BY <3>3, <3>4
  <2>2. CASE ~ \E d \in AllCons : Tell(d)
    BY <2>2
    DEF ReportNext, TcpStep, LeaveSilently, WebSocketStep, SeeWeb, SeeApp, SeeWebSocket, See,
        reportVars, reportingVars
  <2>3. QED
    BY <2>1, <2>2
<1>3. ReportSpec => []Told
  BY <1>1, <1>2, PTL DEF ReportSpec
<1>4. ServersInv /\ LookTypes /\ Told => ReportTypeOK
  BY DEF ServersInv, ConInv, WsInv, LookTypes, ReportTypeOK
<1>5. QED
  BY <1>3, <1>4, ServersInvariant, ReportInvariant, PTL

(* As long as the connections of a client come one after the other, the    *)
(* report made for one says of its server what the observer was called     *)
(* for, however the reads of the maps interleave with other servers'       *)
(* connections (new/main.go:157-222).                                      *)
THEOREM OwnChangeReported == ReportSpec => []OwnChangeSeen
<1>1. LookTypes /\ SawInv => OwnChangeSeen
  <2> SUFFICES ASSUME LookTypes, SawInv, NEW c \in AllCons,
                      look[c] = "tell", Server(c) # GATEWAY, ~Met(Server(c))
               PROVE  Server(c) \in saw[c] <=> NewObserved(c)
    BY DEF OwnChangeSeen
  <2>1. Server(c) \in {WEB, APP, WEBSOCKET}
    BY ServerAssumption, TcpAssumption DEF Server, AllCons, ServerAssumption, TcpAssumption
  <2>2. Server(c) \in Asked(c)
    BY <2>1 DEF Asked
  <2>3. QED
    BY <2>2 DEF SawInv
<1>2. QED
  BY <1>1, ReportInvariant, PTL

-----------------------------------------------------------------------------
(* The servers a report speaks of.                                         *)
Reported == {WEB, APP, WEBSOCKET}

(* A connection that changed its map, or threw out who was there, and      *)
(* whose report is still to be made.                                       *)
TcpDue(c) ==
  stage[c] \in {"closeself", "closeother", "observe"} \/ reader[c] \in {"close", "observe"}

Due(c) ==
  \/ c \in Cons /\ TcpDue(c)
  \/ c \in WsCons /\ wsStage[c] \in {"observe", "observeend"}

(* s will be asked again by somebody who changed its map.                  *)
Owed(s) == \E c \in AllCons : Server(c) = s /\ Due(c) /\ s \notin Asked(c)

(* c asked s, and what it saw still holds.                                 *)
Fresh(c, s) == s \in Asked(c) /\ (s \in saw[c] <=> SerialIsActivity(s))

(* What the map of s says will be in a report still to come.               *)
Known(s) == Owed(s) \/ \E c \in AllCons : Fresh(c, s)

(* An observer that saw what holds no longer is not the last to look,      *)
(* unless it overlaps with a report before its own.                        *)
LooksInv == ~overlap => \A c \in AllCons : \A s \in Asked(c) : Known(s)

(* What the last report says of a server holds, or a report is still to    *)
(* come that will say so.                                                  *)
ToldInv ==
  told # Nil =>
    \E ss \in SUBSET Reported :
      /\ told = Mode(ss)
      /\ \A s \in Reported : (s \in ss <=> SerialIsActivity(s)) \/ Known(s)

(* A step of a TCP connection that changes the map of its server leaves    *)
(* its own report due, and none is dropped.                                *)
LEMMA TcpChangeIsDue ==
  ASSUME ConInv, NEW d \in Cons, HandlerStep(d) \/ ReaderStep(d) \/ EnvironmentStep(d)
  PROVE  /\ \A c \in Cons : TcpDue(c) => TcpDue(c)'
         /\ \A k \in Keys : \/ tcpClientCons'[k] = tcpClientCons[k]
                            \/ /\ k = KeyOf[d] /\ TcpDue(d)'
                               /\ stage[d] # "observe" /\ reader[d] # "observe"
<1> USE DEF SetStage, SetReader
<1>0. /\ stage \in [Cons -> {"new", "queued", "refused", "served"} \cup Handling]
      /\ reader \in [Cons -> {"off", "read", "cast", "unbeat", "delete", "close", "observe", "gone"}]
      /\ tcpClientCons \in [Keys -> Cons \cup {Nil}]
      /\ KeyOf[d] \in Keys
      /\ \A c \in Cons : reader[c] # "off" => stage[c] = "served"
  BY ConTypes DEF ConInv, TypeOK, LifeInv
<1>1. CASE LoadOrStore(d)
  BY <1>0, <1>1 DEF LoadOrStore, Stored, TcpDue
<1>2. CASE Evict(d)
  BY <1>0, <1>2 DEF Evict, TcpDue
<1>3. CASE RemoveCon(d)
  BY <1>0, <1>3 DEF RemoveCon, Emptied, TcpDue
<1>4. CASE CloseSelf(d) \/ CloseOther(d)
  BY <1>0, <1>4 DEF CloseSelf, CloseOther, TcpDue
<1>5. CASE CloseRead(d)
  BY <1>0, <1>5 DEF CloseRead, TcpDue
<1>6. CASE \/ Take(d) \/ Acknowledge(d) \/ AddBeat(d) \/ Spawn(d)
           \/ ReadError(d) \/ RemoveBeat(d) \/ EnvironmentStep(d)
  <2>1. /\ UNCHANGED tcpClientCons
        /\ \A c \in Cons \ {d} : stage'[c] = stage[c] /\ reader'[c] = reader[c]
    BY <1>0, <1>6
    DEF Take, Acknowledge, AddBeat, Spawn, ReadError, RemoveBeat, EnvironmentStep, Accept, WriteError,
        Break
  <2>2. TcpDue(d) => TcpDue(d)'
    <3>1. CASE Take(d)
      <4>1. stage[d] = "queued"
        BY <3>1, TakeQueue DEF ConInv
      <4>2. QED
        BY <1>0, <4>1 DEF TcpDue
    <3>2. CASE Acknowledge(d) \/ AddBeat(d) \/ Spawn(d)
      BY <1>0, <3>2 DEF Acknowledge, AddBeat, Spawn, TcpDue
    <3>3. CASE ReadError(d) \/ RemoveBeat(d)
      BY <1>0, <3>3 DEF ReadError, RemoveBeat, TcpDue
    <3>4. CASE EnvironmentStep(d)
      BY <1>0, <3>4 DEF EnvironmentStep, Accept, WriteError, Break, TcpDue
    <3>5. QED
      BY <1>6, <3>1, <3>2, <3>3, <3>4
  <2>3. QED
    BY <2>1, <2>2 DEF TcpDue
<1>7. QED
  BY <1>1, <1>2, <1>3, <1>4, <1>5, <1>6 DEF HandlerStep, ReaderStep

(* So with a WebSocket connection.                                         *)
LEMMA WsChangeIsDue ==
  ASSUME WsInv, NEW d \in WsCons, WS!Connect(d) \/ WS!HandleStep(d)
  PROVE  \/ wsMap'[WEBSOCKET] = wsMap[WEBSOCKET]
         \/ /\ wsStage'[d] \in {"observe", "observeend"}
            /\ wsStage[d] \notin {"observe", "observeend"}
<1> USE WsTypes DEF WsInv, WS!SetStage
<1>1. CASE WS!StoreNew(d) \/ WS!Replace(d)
  BY <1>1 DEF WS!StoreNew, WS!Replace
<1>2. CASE WS!Delete(d)
  BY <1>2 DEF WS!Delete
<1>3. CASE ~(WS!StoreNew(d) \/ WS!Replace(d) \/ WS!Delete(d))
  BY <1>3
  DEF WS!Connect, WS!HandleStep, WS!ReadSerial, WS!FindOther, WS!CloseOther, WS!ReadError,
      WS!ReadTooLong
<1>4. QED
  BY <1>1, <1>2, <1>3

(* A connection nobody observes has asked nobody.                          *)
LEMMA UnobservedAskedNone ==
  ASSUME SawInv, NEW c \in AllCons, ~Observing(c)
  PROVE  Asked(c) = {}
BY DEF SawInv, Asked

(* A step that makes no report and asks nobody: a change of a map makes    *)
(* the server owed, and nothing owed or seen is lost.                      *)
LEMMA ChangesAreKnown ==
  ASSUME ServersInv, LookTypes, SawInv, [ReportNext]_reportingVars, UNCHANGED <<look, saw>>,
         \A d \in AllCons : ~Tell(d), NEW s \in Reported
  PROVE  /\ Known(s) => Known(s)'
         /\ (SerialIsActivity(s)' <=> SerialIsActivity(s)) \/ Known(s)'
<1> USE ServerAssumption DEF ServerAssumption, ServersInv, AllCons, Reported
<1>1. \A c \in AllCons : Asked(c)' = Asked(c)
  BY DEF Asked
<1>2. SUFFICES /\ \A c \in AllCons : Server(c) = s /\ Due(c) => Due(c)'
               /\ (SerialIsActivity(s)' <=> SerialIsActivity(s)) \/ Owed(s)'
  BY <1>1 DEF Known, Owed, Fresh, Server
<1>3. CASE \E d \in Cons : TcpStep(d)
  <2>1. PICK d \in Cons : TcpStep(d)
    BY <1>3
  <2>2. HandlerStep(d) \/ ReaderStep(d) \/ EnvironmentStep(d)
    BY <2>1 DEF TcpStep
  <2>3. UNCHANGED wsVars
    BY <2>1 DEF TcpStep
  <2>4. \A c \in Cons : TcpDue(c) => TcpDue(c)'
    BY <2>2, TcpChangeIsDue
  <2>5. \A c \in AllCons : Due(c) => Due(c)'
    BY <2>3, <2>4 DEF Due, wsVars
  <2>6. CASE s \in Keys
    <3>1. tcpClientCons'[s] = tcpClientCons[s] => (SerialIsActivity(s)' <=> SerialIsActivity(s))
      BY <2>3 DEF SerialIsActivity, wsVars
    <3>2. ASSUME tcpClientCons'[s] # tcpClientCons[s] PROVE Owed(s)'
      <4>1. s = KeyOf[d] /\ TcpDue(d)' /\ stage[d] # "observe" /\ reader[d] # "observe"
        BY <2>2, <2>6, <3>2, TcpChangeIsDue
      <4>2. d \notin WsCons /\ ~Observing(d) /\ Server(d) = s
        BY <4>1 DEF Observing, NewObserved, EndObserved, Server
      <4>3. Asked(d) = {}
        BY <4>2, UnobservedAskedNone
      <4>4. QED
        BY <1>1, <4>1, <4>2, <4>3 DEF Owed, Due, Server
    <3>3. QED
      BY <2>5, <3>1, <3>2
  <2>7. CASE s \notin Keys
    BY <2>3, <2>5, <2>7 DEF SerialIsActivity, wsVars
  <2>8. QED
    BY <2>6, <2>7
<1>4. CASE \E d \in Cons : LeaveSilently(d)
  <2>1. PICK d \in Cons : LeaveSilently(d)
    BY <1>4
  <2>2. Server(d) # s
    BY <2>1 DEF LeaveSilently, NoReport
  <2>3. /\ UNCHANGED <<tcpClientCons, stage, wsVars>>
        /\ \A c \in Cons \ {d} : reader'[c] = reader[c]
    BY <2>1 DEF LeaveSilently, ObserveEnd, SetReader, ConInv, TypeOK
  <2>4. \A c \in AllCons : Server(c) = s /\ Due(c) => Due(c)'
    BY <2>2, <2>3 DEF Due, TcpDue, wsVars
  <2>5. QED
    BY <2>3, <2>4 DEF SerialIsActivity, wsVars
<1>5. CASE \E d \in WsCons : WebSocketStep(d)
  <2>1. PICK d \in WsCons : WebSocketStep(d)
    BY <1>5
  <2>2. (WS!Connect(d) \/ WS!HandleStep(d)) /\ UNCHANGED vars
    BY <2>1 DEF WebSocketStep
  <2>3. \A c \in WsCons : wsStage[c] \in {"observe", "observeend"} => wsStage'[c] = wsStage[c]
    BY <2>2, WsLeavesObserved
  <2>4. \A c \in AllCons : Due(c) => Due(c)'
    BY <2>2, <2>3 DEF Due, TcpDue, vars
  <2>5. \/ wsMap'[WEBSOCKET] = wsMap[WEBSOCKET]
        \/ /\ wsStage'[d] \in {"observe", "observeend"}
           /\ wsStage[d] \notin {"observe", "observeend"}
    BY <2>2, WsChangeIsDue
  <2>6. CASE wsMap'[WEBSOCKET] = wsMap[WEBSOCKET] \/ s # WEBSOCKET
    BY <2>2, <2>4, <2>6 DEF SerialIsActivity, vars
  <2>7. CASE wsMap'[WEBSOCKET] # wsMap[WEBSOCKET] /\ s = WEBSOCKET
    <3>1. d \notin Cons /\ ~Observing(d) /\ Server(d) = s
      BY <2>5, <2>7 DEF Observing, NewObserved, EndObserved, Server
    <3>2. Asked(d) = {}
      BY <3>1, UnobservedAskedNone
    <3>3. Owed(s)'
      BY <1>1, <2>5, <2>7, <3>1, <3>2 DEF Owed, Due, Server
    <3>4. QED
      BY <2>4, <3>3
  <2>8. QED
    BY <2>6, <2>7
<1>6. CASE \E d \in AllCons : SeeWeb(d) \/ SeeApp(d) \/ SeeWebSocket(d)
  BY <1>6 DEF SeeWeb, SeeApp, SeeWebSocket, See, vars, wsVars, SerialIsActivity, Due, TcpDue
<1>7. CASE UNCHANGED reportingVars
  BY <1>7 DEF reportingVars, vars, wsVars, SerialIsActivity, Due, TcpDue
<1>8. QED
  BY <1>3, <1>4, <1>5, <1>6, <1>7 DEF ReportNext

(* Asking a server: whoever asked last knows.                              *)
LEMMA SeeIsKnown ==
  ASSUME LookTypes, SawInv, NEW d \in AllCons, SeeWeb(d) \/ SeeApp(d) \/ SeeWebSocket(d)
  PROVE  /\ \A s \in Reported : Known(s) => Known(s)'
         /\ \A s \in Reported : SerialIsActivity(s)' <=> SerialIsActivity(s)
         /\ \A c \in AllCons : \A s \in Asked(c)' : s \in Asked(c) \/ Known(s)'
         /\ UNCHANGED <<told, overlap>>
<1> USE ServerAssumption DEF ServerAssumption
<1>1. PICK r \in Reported, next \in {"app", "websocket", "tell"} :
        /\ See(d, r, next)
        /\ \/ look[d] = "web" /\ r = WEB /\ next = "app"
           \/ look[d] = "app" /\ r = APP /\ next = "websocket"
           \/ look[d] = "websocket" /\ r = WEBSOCKET /\ next = "tell"
  BY DEF SeeWeb, SeeApp, SeeWebSocket, Reported
<1>2. /\ saw' = [saw EXCEPT ![d] = @ \cup Connected({r})]
      /\ look' = [look EXCEPT ![d] = next]
      /\ UNCHANGED <<vars, wsVars, told, overlap>>
  BY <1>1 DEF See
<1>3. /\ Connected({r}) = IF SerialIsActivity(r) THEN {r} ELSE {}
      /\ saw[d] \subseteq Asked(d)
  BY DEF Connected, SawInv
<1>4. /\ look'[d] = next /\ saw'[d] = saw[d] \cup Connected({r})
      /\ \A c \in AllCons \ {d} : look'[c] = look[c] /\ saw'[c] = saw[c]
  BY <1>2 DEF LookTypes
<1>5. /\ Asked(d)' = Asked(d) \cup {r} /\ r \notin Asked(d)
      /\ \A c \in AllCons \ {d} : Asked(c)' = Asked(c)
  BY <1>1, <1>4 DEF Asked
<1>6. \A s : SerialIsActivity(s)' <=> SerialIsActivity(s)
  BY <1>2 DEF SerialIsActivity, vars, wsVars
<1>7. \A c \in AllCons : Due(c)' <=> Due(c)
  BY <1>2 DEF Due, TcpDue, vars, wsVars
<1>8. Fresh(d, r)'
  BY <1>3, <1>4, <1>5, <1>6 DEF Fresh
<1>9. ASSUME NEW s \in Reported, s # r, Known(s) PROVE Known(s)'
  <2>1. CASE Owed(s)
    <3>1. PICK c \in AllCons : Server(c) = s /\ Due(c) /\ s \notin Asked(c)
      BY <2>1 DEF Owed
    <3>2. Due(c)' /\ s \notin Asked(c)'
      BY <1>5, <1>7, <1>9, <3>1
    <3>3. QED
      BY <3>1, <3>2 DEF Known, Owed, Server
  <2>2. CASE \E c \in AllCons : Fresh(c, s)
    <3>1. PICK c \in AllCons : Fresh(c, s)
      BY <2>2
    <3>2. s \in Asked(c)' /\ (s \in saw'[c] <=> s \in saw[c])
      BY <1>3, <1>4, <1>5, <1>9, <3>1 DEF Fresh
    <3>3. Fresh(c, s)'
      BY <1>6, <3>1, <3>2 DEF Fresh
    <3>4. QED
      BY <3>3 DEF Known
  <2>3. QED
    BY <1>9, <2>1, <2>2 DEF Known
<1>10. Known(r)'
  BY <1>8 DEF Known
<1>11. \A c \in AllCons : \A s \in Asked(c)' : s \in Asked(c) \/ s = r
  BY <1>5
<1>12. QED
  BY <1>2, <1>6, <1>9, <1>10, <1>11

(* The report goes out: what it says of a server holds, or is still to be  *)
(* corrected.                                                              *)
LEMMA TellIsTrue ==
  ASSUME ServersInv, LookTypes, SawInv, LooksInv, NEW d \in AllCons, Tell(d)
  PROVE  LooksInv' /\ ToldInv'
<1> USE ServerAssumption DEF ServerAssumption
<1>1. /\ look[d] = "tell"
      /\ told' = IF overlap THEN Nil ELSE Mode(saw[d])
      /\ look' = [look EXCEPT ![d] = "web"]
      /\ saw' = [saw EXCEPT ![d] = {}]
      /\ overlap' = \E e \in AllCons \ {d} : look[e] # "web"
  BY DEF Tell
<1>2. /\ look'[d] = "web"
      /\ \A c \in AllCons \ {d} : look'[c] = look[c] /\ saw'[c] = saw[c]
  BY <1>1 DEF LookTypes
<1>3. LooksInv'
  <2> SUFFICES ASSUME ~overlap', NEW c \in AllCons PROVE Asked(c)' = {}
    BY DEF LooksInv
  <2>1. look'[c] = "web"
    BY <1>1, <1>2
  <2>2. QED
    BY <2>1 DEF Asked
<1>4. UNCHANGED <<tcpClientCons, wsMap>>
  BY DEF Tell, ObserveNew, ObserveEnd, WS!ObserveNew, WS!ObserveEnd, vars, wsVars
<1>5. \A s : SerialIsActivity(s)' <=> SerialIsActivity(s)
  BY <1>4 DEF SerialIsActivity
<1>6. Asked(d) = Reported
  BY <1>1 DEF Asked, Reported
<1>7. /\ \A c \in AllCons \ {d} : Asked(c)' = Asked(c)
      /\ \A c \in AllCons \ {d} : Due(c) => Due(c)'
  BY <1>2, TellLeavesOthers DEF Asked, Due, TcpDue
<1>8. ToldInv'
  <2> SUFFICES ASSUME told' # Nil
               PROVE  \E ss \in SUBSET Reported :
                        /\ told' = Mode(ss)
                        /\ \A s \in Reported : (s \in ss <=> SerialIsActivity(s)') \/ Known(s)'
    BY DEF ToldInv, Mode, Reported
  <2>1. told' = Mode(saw[d]) /\ ~overlap
    BY <1>1
  <2>2. saw[d] \in SUBSET Reported
    BY DEF LookTypes, Reported
  <2>3. ASSUME NEW s \in Reported
        PROVE  (s \in saw[d] <=> SerialIsActivity(s)') \/ Known(s)'
    <3>1. Known(s)
      BY <1>6, <2>1 DEF LooksInv
    <3>2. CASE Owed(s)
      <4>1. PICK c \in AllCons : Server(c) = s /\ Due(c) /\ s \notin Asked(c)
        BY <3>2 DEF Owed
      <4>2. c # d
        BY <1>6, <4>1
      <4>3. QED
        BY <1>7, <4>1, <4>2 DEF Known, Owed, Server
    <3>3. CASE Fresh(d, s)
      BY <1>5, <3>3 DEF Fresh
    <3>4. CASE \E c \in AllCons \ {d} : Fresh(c, s)
      BY <1>2, <1>5, <1>7, <3>4 DEF Known, Fresh
    <3>5. QED
      BY <3>1, <3>2, <3>3, <3>4 DEF Known
  <2>4. QED
    BY <2>1, <2>2, <2>3
<1>9. QED
  BY <1>3, <1>8

(* A step that keeps what is known, and says of every change of a map that *)
(* it is known, keeps both parts.                                          *)
LEMMA KnownKeepsReport ==
  ASSUME LookTypes, LooksInv, ToldInv, UNCHANGED <<told, overlap>>,
         \A s \in Reported : Known(s) => Known(s)',
         \A s \in Reported : (SerialIsActivity(s)' <=> SerialIsActivity(s)) \/ Known(s)',
         \A c \in AllCons : \A s \in Asked(c)' : s \in Asked(c) \/ Known(s)'
  PROVE  LooksInv' /\ ToldInv'
<1>1. ASSUME NEW c \in AllCons PROVE Asked(c) \subseteq Reported
  <2>1. look[c] \in {"web", "app", "websocket", "tell"}
    BY DEF LookTypes
  <2>2. QED
    BY <2>1 DEF Asked, Reported
<1>2. LooksInv'
  BY <1>1 DEF LooksInv
<1>3. ToldInv'
  <2> SUFFICES ASSUME told # Nil
               PROVE  \E ss \in SUBSET Reported :
                        /\ told = Mode(ss)
                        /\ \A s \in Reported : (s \in ss <=> SerialIsActivity(s)') \/ Known(s)'
    BY DEF ToldInv, Mode, Reported
  <2>1. PICK ss \in SUBSET Reported :
          /\ told = Mode(ss)
          /\ \A s \in Reported : (s \in ss <=> SerialIsActivity(s)) \/ Known(s)
    BY DEF ToldInv
  <2>2. QED
    BY <2>1
<1>4. QED
  BY <1>2, <1>3

(* When nothing is under way nothing is owed and nobody looks: what is     *)
(* known is what was told.                                                 *)
LEMMA QuietKnowsNone ==
  ASSUME ServersInv, LookTypes, SawInv, Quiet, NEW s \in Reported
  PROVE  ~Known(s)
<1> USE ServerAssumption DEF ServerAssumption
<1>1. \A c \in AllCons : ~Due(c)
  BY DEF Quiet, Due, TcpDue, Handling
<1>2. \A c \in AllCons : ~Observing(c)
  BY DEF Quiet, Observing, NewObserved, EndObserved, Handling
<1>3. \A c \in AllCons : Asked(c) = {}
  BY <1>2, UnobservedAskedNone
<1>4. QED
  BY <1>1, <1>3 DEF Known, Owed, Fresh

(* Whenever nothing is under way, the last report to GATEWAY agrees with   *)
(* the maps of WEB, APP and WEBSOCKET, for any number of connections that  *)
(* take the serial over, throw each other out or break, unless that report *)
(* overlapped with the one before it (new/main.go:157-222).                *)
THEOREM LastReportHolds == ReportSpec => []LastReportTrue
<1>1. ReportInit => LooksInv /\ ToldInv
  BY DEF ReportInit, LooksInv, ToldInv, Asked
<1>2. ServersInv /\ LookTypes /\ SawInv /\ LooksInv /\ ToldInv /\ [ReportNext]_reportingVars
        => LooksInv' /\ ToldInv'
  <2> SUFFICES ASSUME ServersInv, LookTypes, SawInv, LooksInv, ToldInv,
                      [ReportNext]_reportingVars
               PROVE  LooksInv' /\ ToldInv'
    OBVIOUS
  <2>1. CASE \E d \in AllCons : SeeWeb(d) \/ SeeApp(d) \/ SeeWebSocket(d)
    <3>1. PICK d \in AllCons : SeeWeb(d) \/ SeeApp(d) \/ SeeWebSocket(d)
      BY <2>1
    <3>2. QED
      BY <3>1, SeeIsKnown, KnownKeepsReport
  <2>2. CASE \E d \in AllCons : Tell(d)
    BY <2>2, TellIsTrue
  <2>3. CASE /\ ~ \E d \in AllCons : SeeWeb(d) \/ SeeApp(d) \/ SeeWebSocket(d)
             /\ ~ \E d \in AllCons : Tell(d)
    <3>1. UNCHANGED <<look, saw, told, overlap>>
      BY <2>3 DEF ReportNext, TcpStep, LeaveSilently, WebSocketStep, reportVars, reportingVars
    <3>2. /\ \A s \in Reported : Known(s) => Known(s)'
          /\ \A s \in Reported : (SerialIsActivity(s)' <=> SerialIsActivity(s)) \/ Known(s)'
      BY <2>3, <3>1, ChangesAreKnown
    <3>3. \A c \in AllCons : Asked(c)' = Asked(c)
      BY <3>1 DEF Asked
    <3>4. QED
      BY <3>1, <3>2, <3>3, KnownKeepsReport
  <2>4. QED
    BY <2>1, <2>2, <2>3
<1>3. ServersInv /\ LookTypes /\ SawInv /\ ToldInv => LastReportTrue
  <2> SUFFICES ASSUME ServersInv, LookTypes, SawInv, ToldInv, Quiet, told # Nil
               PROVE  /\ WEB \in told <=> SerialIsActivity(WEB) \/ SerialIsActivity(WEBSOCKET)
                      /\ APP \in told <=> SerialIsActivity(APP)
    BY DEF LastReportTrue
  <2>1. PICK ss \in SUBSET Reported :
          /\ told = Mode(ss)
          /\ \A s \in Reported : (s \in ss <=> SerialIsActivity(s)) \/ Known(s)
    BY DEF ToldInv
  <2>2. \A s \in Reported : s \in ss <=> SerialIsActivity(s)
    BY <2>1, QuietKnowsNone
  <2>3. QED
    BY <2>1, <2>2, ServerAssumption DEF Mode, Reported, ServerAssumption
<1>4. QED
  BY <1>1, <1>2, <1>3, ServersInvariant, ReportInvariant, PTL DEF ReportSpec
=============================================================================
