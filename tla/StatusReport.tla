---------------------------- MODULE StatusReport ----------------------------
(***************************************************************************)
(* How GATEWAY learns which clients of a serial are connected              *)
(* (ConChangeObserverEntity of new/main.go).  Whenever a connection of     *)
(* WEB, APP, GATEWAY or WEBSOCKET was added, and whenever one of WEB, APP  *)
(* or WEBSOCKET was removed, the goroutine at work asks WEB, APP and       *)
(* WEBSOCKET whether the serial is in their maps, and puts the answer into *)
(* GATEWAY's queue for that serial.  GATEWAY's own goroutine sleeps 200 ms *)
(* in between.                                                             *)
(*                                                                         *)
(* The connections are those of TcpServer and WebSocketServer, a key being *)
(* a server: there is one serial.  SNewConnect asks some servers twice and *)
(* overwrites, so the reads that count are WEB's, APP's and WEBSOCKET's,   *)
(* in this order.  The HTTP requests for GATEWAY, whose answers nobody     *)
(* reads, are left out.  So are heartbeats and the data that readers hand  *)
(* on: nothing here reads what they change, and they only delay a handler  *)
(* or a reader.                                                            *)
(***************************************************************************)
EXTENDS TcpServer

CONSTANTS
  WsCons,  \* connections of WEBSOCKET, each used once
  WEB, APP, GATEWAY, WEBSOCKET

ASSUME ServerAssumption ==
  /\ Keys \subseteq {WEB, APP, GATEWAY}
  /\ WEB # APP /\ GATEWAY \notin {WEB, APP} /\ WEBSOCKET \notin {WEB, APP, GATEWAY}
  /\ Nil \notin WsCons /\ Cons \cap WsCons = {}
  /\ BeatKeys = {}

VARIABLES
  wsMap, wsStage, wsOpen, wsFound, wsMet,  \* of WebSocketServer
  look,  \* what the observer of each connection does next
  saw,   \* what it saw so far: the servers that have the serial
  told,  \* the last report put into GATEWAY's queue; Nil if there is none, or
         \* if it overlapped with the one in front of it
  overlap  \* (history) somebody was looking at the time of the last report

WS == INSTANCE WebSocketServer WITH
        Cons <- WsCons, Keys <- {WEBSOCKET}, KeyOf <- [x \in WsCons |-> WEBSOCKET],
        map <- wsMap, stage <- wsStage, open <- wsOpen,
        found <- wsFound, met <- wsMet

wsVars == <<wsMap, wsStage, wsOpen, wsFound, wsMet>>
reportVars == <<look, saw, told, overlap>>

AllCons == Cons \cup WsCons

ReportInit ==
  /\ Init
  /\ WS!Init
  /\ look = [c \in AllCons |-> "web"]
  /\ saw = [c \in AllCons |-> {}]
  /\ told = Nil
  /\ overlap = FALSE

Server(c) == IF c \in WsCons THEN WEBSOCKET ELSE KeyOf[c]

(* SerialIsActivity of a server: IsKeyExist.                               *)
SerialIsActivity(s) ==
  \/ s \in Keys /\ tcpClientCons[s] # Nil
  \/ s = WEBSOCKET /\ wsMap[s] # Nil

(* Mutated form of Connected: the entries instead of the servers.          *)
EntriesOf(ss) == {tcpClientCons[s] : s \in ss \cap Keys}

(* The servers among ss that have the serial.                              *)
Connected(ss) == {s \in ss : SerialIsActivity(s)}

(* SDisConnect returns early for a connection of GATEWAY.                  *)
NoReport(c) == Server(c) = GATEWAY

(* Mutated form of EndObserved: observed before the entry is deleted.      *)
EarlyEnd(c) ==
  \/ c \in Cons /\ ~NoReport(c) /\ reader[c] = "delete"
  \/ c \in WsCons /\ wsStage[c] = "delete"

(* SDisConnect of c has a report to make.                                  *)
EndObserved(c) ==
  \/ c \in Cons /\ ~NoReport(c) /\ reader[c] = "observe"
  \/ c \in WsCons /\ wsStage[c] = "observeend"

(* SNewConnect of c, called when it was added.                             *)
NewObserved(c) ==
  \/ c \in Cons /\ stage[c] = "observe"
  \/ c \in WsCons /\ wsStage[c] = "observe"

Observing(c) == NewObserved(c) \/ EndObserved(c)

(* SNewConnect, one entry of the map that counts.                          *)
See(c, s, next) ==
  /\ Observing(c)
  /\ saw' = [saw EXCEPT ![c] = @ \cup Connected({s})]
  /\ look' = [look EXCEPT ![c] = next]
  /\ UNCHANGED <<vars, wsVars, told, overlap>>

SeeWeb(c) == look[c] = "web" /\ See(c, WEB, "app")
SeeApp(c) == look[c] = "app" /\ See(c, APP, "websocket")
SeeWebSocket(c) == look[c] = "websocket" /\ See(c, WEBSOCKET, "tell")

(* Mutated form of Mode: without web = web || wss.                         *)
TcpMode(servers) == servers \cap {WEB, APP}

(* web = web || wss: the mode of the report.                               *)
Mode(servers) ==
  {m \in {WEB, APP} : m \in servers \/ (m = WEB /\ WEBSOCKET \in servers)}

(* SNewConnect, AddDataForWrite of GATEWAY, and back to the caller.        *)
Tell(c) ==
  /\ look[c] = "tell"
  /\ \/ c \in Cons /\ (ObserveNew(c) \/ ObserveEnd(c)) /\ UNCHANGED wsVars
     \/ c \in WsCons /\ (WS!ObserveNew(c) \/ WS!ObserveEnd(c)) /\ UNCHANGED vars
  /\ told' = IF overlap THEN Nil ELSE Mode(saw[c])
  /\ look' = [look EXCEPT ![c] = "web"]
  /\ saw' = [saw EXCEPT ![c] = {}]
  /\ overlap' = \E d \in AllCons \ {c} : look[d] # "web"

(* SDisConnect without a report.                                           *)
LeaveSilently(c) ==
  /\ NoReport(c)
  /\ ObserveEnd(c)
  /\ UNCHANGED <<wsVars, reportVars>>

TcpStep(c) ==
  /\ HandlerStep(c) \/ ReaderStep(c) \/ EnvironmentStep(c)
  /\ UNCHANGED <<wsVars, reportVars>>

WebSocketStep(x) ==
  /\ WS!Connect(x) \/ WS!HandleStep(x)
  /\ UNCHANGED <<vars, reportVars>>

ReportNext ==
  \/ \E c \in Cons : TcpStep(c) \/ LeaveSilently(c)
  \/ \E x \in WsCons : WebSocketStep(x)
  \/ \E c \in AllCons : SeeWeb(c) \/ SeeApp(c) \/ SeeWebSocket(c) \/ Tell(c)

reportingVars == <<vars, wsVars, reportVars>>

ReportSpec == ReportInit /\ [][ReportNext]_reportingVars

-----------------------------------------------------------------------------
(* Type invariant of the observers' state.                                 *)
ReportTypeOK ==
  /\ TypeOK /\ WS!TypeOK
  /\ look \in [AllCons -> {"web", "app", "websocket", "tell"}]
  /\ saw \in [AllCons -> SUBSET {WEB, APP, WEBSOCKET}]
  /\ told \in (SUBSET {WEB, APP}) \cup {Nil}
  /\ overlap \in BOOLEAN

(* Two connections of the server were there at once.                       *)
Met(s) == s \in met \/ s \in wsMet

(* As long as the connections of a client came one after the other, its    *)
(* own change is in its report: connected when it was added, not connected *)
(* when it was removed.                                                    *)
OwnChangeSeen ==
  \A c \in AllCons :
    look[c] = "tell" /\ Server(c) # GATEWAY /\ ~Met(Server(c)) =>
      (Server(c) \in saw[c] <=> NewObserved(c))

(* No connection is being added or removed, and no report is under way.    *)
Quiet ==
  /\ \A c \in Cons : stage[c] \notin Handling /\ reader[c] \in {"off", "read", "gone"}
  /\ \A x \in WsCons :
       wsStage[x] \in {"new", "serial", "read", "refused", "panicked", "gone"}

(* Whenever nothing is under way, the last report to GATEWAY agrees with   *)
(* the maps, whoever took over or threw out whom: every change is followed *)
(* by a report of its own.  Unless two observers looked at the same time.  *)
LastReportTrue ==
  Quiet /\ told # Nil =>
    /\ WEB \in told <=> SerialIsActivity(WEB) \/ SerialIsActivity(WEBSOCKET)
    /\ APP \in told <=> SerialIsActivity(APP)

(* The WebSocket connection that is served is in Map, see there.           *)
WsServedInTurn == WS!ServedInTurn

(* Nobody stays in Map who has no Delete to come, see there.               *)
WsNoLeftovers == WS!NoLeftovers
=============================================================================
