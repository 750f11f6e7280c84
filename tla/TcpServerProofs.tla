-------------------------- MODULE TcpServerProofs ---------------------------
(***************************************************************************)
(* Theorems about TcpServer, for any number of connections, keys and       *)
(* handlers.                                                               *)
(***************************************************************************)
EXTENDS TcpServer, SequenceTheorems, TLAPS

(* A connection stands in ChanQueue once, and only before a handler takes  *)
(* it.                                                                     *)
QueueInv ==
  /\ \A i \in 1 .. Len(chanQueue) : stage[chanQueue[i]] = "queued"
  /\ \A i, j \in 1 .. Len(chanQueue) : chanQueue[i] = chanQueue[j] => i = j

(* A connection is read after its handler is done with it, and stands in   *)
(* the map under its own key.                                              *)
LifeInv ==
  /\ \A c \in Cons : reader[c] # "off" => stage[c] = "served"
  /\ \A k \in Keys : Taken(k) => KeyOf[tcpClientCons[k]] = k

ConInv == TypeOK /\ QueueInv /\ LifeInv /\ NoLeftovers

-----------------------------------------------------------------------------
(* What the type invariant says of one connection.                         *)
LEMMA ConTypes ==
  ASSUME TypeOK, NEW c \in Cons
  PROVE  KeyOf[c] \in Keys /\ tcpClientCons[KeyOf[c]] \in Cons \cup {Nil}
BY TcpAssumption DEF TypeOK, TcpAssumption

(* Putting a new connection into ChanQueue.                                *)
LEMMA AcceptQueue ==
  ASSUME TypeOK, QueueInv, NEW c \in Cons, Accept(c)
  PROVE  chanQueue' \in Seq(Cons) /\ QueueInv'
<1>1. chanQueue \in Seq(Cons) /\ chanQueue' = Append(chanQueue, c)
  BY DEF Accept, TypeOK
<1>2. /\ Len(chanQueue') = Len(chanQueue) + 1
      /\ \A i \in 1 .. Len(chanQueue) : chanQueue'[i] = chanQueue[i]
      /\ chanQueue'[Len(chanQueue) + 1] = c
  BY <1>1
<1>3. \A i \in 1 .. Len(chanQueue) : chanQueue[i] \in Cons /\ chanQueue[i] # c
  BY <1>1 DEF QueueInv, Accept
<1>4. /\ stage' = [stage EXCEPT ![c] = "queued"]
      /\ stage \in [Cons -> {"new", "queued", "refused", "served"} \cup Handling]
  BY DEF Accept, SetStage, TypeOK
<1>5. \A i \in 1 .. Len(chanQueue') : stage'[chanQueue'[i]] = "queued"
  BY <1>1, <1>2, <1>3, <1>4 DEF QueueInv
<1>6. \A i, j \in 1 .. Len(chanQueue') : chanQueue'[i] = chanQueue'[j] => i = j
  BY <1>1, <1>2, <1>3 DEF QueueInv
<1>7. QED
  BY <1>1, <1>5, <1>6 DEF QueueInv

(* Taking the next one out of it.                                          *)
LEMMA TakeQueue ==
  ASSUME TypeOK, QueueInv, NEW c \in Cons, Take(c)
  PROVE  chanQueue' \in Seq(Cons) /\ QueueInv' /\ stage[c] = "queued"
<1>1. chanQueue \in Seq(Cons) /\ chanQueue # <<>> /\ c = Head(chanQueue)
      /\ chanQueue' = Tail(chanQueue)
  BY DEF Take, TypeOK
<1>2. /\ chanQueue' \in Seq(Cons)
      /\ Len(chanQueue) \in Nat \ {0}
      /\ Len(chanQueue') = Len(chanQueue) - 1
      /\ \A i \in 1 .. Len(chanQueue') : chanQueue'[i] = chanQueue[i + 1]
      /\ c = chanQueue[1]
  BY <1>1
<1>3. \A i \in 1 .. Len(chanQueue') :
        i + 1 \in 1 .. Len(chanQueue) /\ chanQueue'[i] \in Cons /\ chanQueue'[i] # c
  BY <1>1, <1>2 DEF QueueInv
<1>4. /\ stage' = [stage EXCEPT ![c] = "ack"]
      /\ stage \in [Cons -> {"new", "queued", "refused", "served"} \cup Handling]
  BY DEF Take, SetStage, TypeOK
<1>5. \A i \in 1 .. Len(chanQueue') : stage'[chanQueue'[i]] = "queued"
  BY <1>2, <1>3, <1>4 DEF QueueInv
<1>6. \A i, j \in 1 .. Len(chanQueue') : chanQueue'[i] = chanQueue'[j] => i = j
  BY <1>2, <1>3 DEF QueueInv
<1>7. stage[c] = "queued"
  BY <1>2 DEF QueueInv
<1>8. QED
  BY <1>2, <1>5, <1>6, <1>7 DEF QueueInv

(* A step that leaves ChanQueue alone and moves no queued connection.      *)
LEMMA OtherQueue ==
  ASSUME QueueInv, UNCHANGED chanQueue, TypeOK,
         \A d \in Cons : stage[d] = "queued" => stage'[d] = "queued"
  PROVE  chanQueue' \in Seq(Cons) /\ QueueInv'
<1>1. \A i \in 1 .. Len(chanQueue) : chanQueue[i] \in Cons
  BY DEF TypeOK
<1>2. QED
  BY <1>1 DEF QueueInv, TypeOK

-----------------------------------------------------------------------------
(* The initial states are well typed and leave nothing behind.             *)
LEMMA InitConInv == Init => ConInv
BY TcpAssumption
DEF Init, ConInv, TypeOK, QueueInv, LifeInv, NoLeftovers, Taken, TcpAssumption, Handling

(* The steps of a handler keep the invariant.                              *)
LEMMA HandlerSteps ==
  ASSUME ConInv, NEW c \in Cons, HandlerStep(c) \/ ObserveNew(c)
  PROVE  ConInv'
<1> USE TcpAssumption DEF ConInv, TcpAssumption, SetStage, SetReader, beatVars
<1>0. KeyOf[c] \in Keys /\ tcpClientCons[KeyOf[c]] \in Cons \cup {Nil}
  BY ConTypes
<1>1. CASE Take(c)
  <2>1. chanQueue' \in Seq(Cons) /\ QueueInv' /\ stage[c] = "queued"
    BY <1>1, TakeQueue
  <2>2. TypeOK'
    BY <1>1, <2>1 DEF TypeOK, Take, Handling
  <2>3. /\ stage' = [stage EXCEPT ![c] = "ack"]
        /\ UNCHANGED <<tcpClientCons, lastBeatSend, reader>>
    BY <1>1 DEF Take
  <2>4. LifeInv' /\ NoLeftovers'
    BY <2>1, <2>3 DEF LifeInv, NoLeftovers, Taken, TypeOK, Handling
  <2>5. QED
    BY <2>1, <2>2, <2>4
<1>2. CASE Acknowledge(c)
  <2>1. stage[c] = "ack" /\ UNCHANGED chanQueue
    BY <1>2 DEF Acknowledge
  <2>2. chanQueue' \in Seq(Cons) /\ QueueInv'
    BY <1>2, <2>1, OtherQueue DEF Acknowledge, TypeOK
  <2>3. TypeOK'
    BY <1>2, <2>2 DEF TypeOK, Acknowledge, Handling
  <2>4. LifeInv' /\ NoLeftovers'
    BY <1>2 DEF LifeInv, NoLeftovers, Taken, Acknowledge, TypeOK, Handling
  <2>5. QED
    BY <2>2, <2>3, <2>4
<1>3. CASE AddBeat(c)
  <2>1. chanQueue' \in Seq(Cons) /\ QueueInv'
    BY <1>3, OtherQueue DEF AddBeat, TypeOK
  <2>2. TypeOK'
    BY <1>0, <1>3, <2>1 DEF TypeOK, AddBeat, BeatOn, Handling
  <2>3. LifeInv' /\ NoLeftovers'
    BY <1>3 DEF LifeInv, NoLeftovers, Taken, AddBeat, BeatOn, TypeOK, Handling
  <2>4. QED
    BY <2>1, <2>2, <2>3
<1>4. CASE LoadOrStore(c)
  <2>1. chanQueue' \in Seq(Cons) /\ QueueInv'
    BY <1>4, OtherQueue DEF LoadOrStore, TypeOK
  <2>2. TypeOK'
    BY <1>0, <1>4, <2>1 DEF TypeOK, LoadOrStore, Stored, Taken, Handling
  <2>3. LifeInv' /\ NoLeftovers'
    BY <1>0, <1>4 DEF LifeInv, NoLeftovers, Taken, LoadOrStore, Stored, TypeOK, Handling
  <2>4. QED
    BY <2>1, <2>2, <2>3
<1>5. CASE Evict(c)
  <2>1. chanQueue' \in Seq(Cons) /\ QueueInv'
    BY <1>5, OtherQueue DEF Evict, TypeOK
  <2>2. TypeOK'
    BY <1>0, <1>5, <2>1 DEF TypeOK, Evict, Handling
  <2>3. LifeInv' /\ NoLeftovers'
    BY <1>0, <1>5 DEF LifeInv, NoLeftovers, Taken, Evict, TypeOK, Handling
  <2>4. QED
    BY <2>1, <2>2, <2>3
<1>6. CASE CloseSelf(c)
  <2>1. chanQueue' \in Seq(Cons) /\ QueueInv'
    BY <1>6, OtherQueue DEF CloseSelf, TypeOK
  <2>2. TypeOK'
    BY <1>6, <2>1 DEF TypeOK, CloseSelf, Handling
  <2>3. LifeInv' /\ NoLeftovers'
    BY <1>6 DEF LifeInv, NoLeftovers, Taken, CloseSelf, TypeOK, Handling
  <2>4. QED
    BY <2>1, <2>2, <2>3
<1>7. CASE CloseOther(c)
  <2>1. chanQueue' \in Seq(Cons) /\ QueueInv'
    BY <1>7, OtherQueue DEF CloseOther, TypeOK
  <2>2. TypeOK'
    BY <1>7, <2>1 DEF TypeOK, CloseOther, Handling
  <2>3. LifeInv' /\ NoLeftovers'
    BY <1>7 DEF LifeInv, NoLeftovers, Taken, CloseOther, TypeOK, Handling
  <2>4. QED
    BY <2>1, <2>2, <2>3
<1>8. CASE Spawn(c)
  <2>1. chanQueue' \in Seq(Cons) /\ QueueInv'
    BY <1>8, OtherQueue DEF Spawn, TypeOK
  <2>2. TypeOK'
    BY <1>8, <2>1 DEF TypeOK, Spawn, Handling
  <2>3. LifeInv' /\ NoLeftovers'
    BY <1>8 DEF LifeInv, NoLeftovers, Taken, Spawn, TypeOK, Handling
  <2>4. QED
    BY <2>1, <2>2, <2>3
<1>9. CASE ObserveNew(c)
  <2>1. chanQueue' \in Seq(Cons) /\ QueueInv'
    BY <1>9, OtherQueue DEF ObserveNew, TypeOK
  <2>2. TypeOK'
    BY <1>9, <2>1 DEF TypeOK, ObserveNew, Handling
  <2>3. LifeInv' /\ NoLeftovers'
    BY <1>9 DEF LifeInv, NoLeftovers, Taken, ObserveNew, TypeOK, Handling
  <2>4. QED
    BY <2>1, <2>2, <2>3
<1>10. QED
  BY <1>1, <1>2, <1>3, <1>4, <1>5, <1>6, <1>7, <1>8, <1>9 DEF HandlerStep

(* The steps of a reader keep the invariant.                               *)
LEMMA ReaderSteps ==
  ASSUME ConInv, NEW c \in Cons, CastStep(c) \/ ReaderStep(c) \/ ObserveEnd(c)
  PROVE  ConInv'
<1> USE TcpAssumption DEF ConInv, TcpAssumption, SetReader, beatVars
<1>0. KeyOf[c] \in Keys
  BY ConTypes
<1>1. UNCHANGED <<stage, chanQueue>>
  BY DEF CastStep, Cast, ReadAgain, ReaderStep, ReadError, RemoveBeat, RemoveCon, CloseRead, ObserveEnd
<1>2. chanQueue' \in Seq(Cons) /\ QueueInv'
  BY <1>1, OtherQueue
<1>3. TypeOK'
  BY <1>0, <1>1, <1>2
  DEF TypeOK, CastStep, Cast, ReadAgain, ReaderStep, ReadError, RemoveBeat, BeatOff, RemoveCon,
      Emptied, CloseRead, ObserveEnd
<1>4. CASE ReadError(c)
  BY <1>2, <1>3, <1>4 DEF LifeInv, NoLeftovers, Taken, ReadError, TypeOK, Handling
<1>5. CASE RemoveBeat(c)
  BY <1>2, <1>3, <1>5 DEF LifeInv, NoLeftovers, Taken, RemoveBeat, BeatOff, TypeOK, Handling
<1>6. CASE RemoveCon(c)
  BY <1>0, <1>2, <1>3, <1>6 DEF LifeInv, NoLeftovers, Taken, RemoveCon, Emptied, TypeOK, Handling
<1>7. CASE CloseRead(c)
  BY <1>2, <1>3, <1>7 DEF LifeInv, NoLeftovers, Taken, CloseRead, TypeOK, Handling
<1>8. CASE ObserveEnd(c)
  BY <1>2, <1>3, <1>8 DEF LifeInv, NoLeftovers, Taken, ObserveEnd, TypeOK, Handling
<1>9. CASE CastStep(c)
  BY <1>2, <1>3, <1>9 DEF LifeInv, NoLeftovers, Taken, CastStep, Cast, ReadAgain, TypeOK, Handling
<1>10. QED
  BY <1>4, <1>5, <1>6, <1>7, <1>8, <1>9 DEF ReaderStep

(* So do devices that come and connections that break.                     *)
LEMMA EnvironmentSteps ==
  ASSUME ConInv, NEW c \in Cons, EnvironmentStep(c)
  PROVE  ConInv'
<1> USE DEF ConInv, beatVars
<1>1. CASE Accept(c)
  <2>1. chanQueue' \in Seq(Cons) /\ QueueInv'
    BY <1>1, AcceptQueue
  <2>2. TypeOK'
    BY <1>1, <2>1, ConTypes DEF TypeOK, Accept, SetStage
  <2>3. /\ stage[c] = "new" /\ stage' = [stage EXCEPT ![c] = "queued"]
        /\ UNCHANGED <<tcpClientCons, lastBeatSend, reader>>
    BY <1>1 DEF Accept, SetStage
  <2>4. LifeInv' /\ NoLeftovers'
    BY <2>3 DEF LifeInv, NoLeftovers, Taken, TypeOK, Handling
  <2>5. QED
    BY <2>1, <2>2, <2>4
<1>2. CASE WriteError(c) \/ Break(c)
  <2>1. UNCHANGED <<chanQueue, tcpClientCons, lastBeatSend, stage, reader>>
    BY <1>2 DEF WriteError, Break
  <2>2. TypeOK'
    BY <1>2 DEF TypeOK, WriteError, Break
  <2>3. QED
    BY <2>1, <2>2 DEF QueueInv, LifeInv, NoLeftovers, Taken
<1>3. QED
  BY <1>1, <1>2 DEF EnvironmentStep

(* And so does a round of heartbeats.                                      *)
LEMMA BeatSteps ==
  ASSUME ConInv, BeatStep
  PROVE  ConInv' /\ UNCHANGED <<chanQueue, tcpClientCons, lastBeatSend, stage, reader, met>>
<1>1. UNCHANGED <<chanQueue, tcpClientCons, lastBeatSend, stage, reader, open, dead, found, met>>
  BY DEF BeatStep, StartBeats, LoadBeat, WriteBeat
<1>2. due' \subseteq BeatKeys /\ beatTo' \in Cons \cup {Nil}
  BY TcpAssumption DEF ConInv, TypeOK, BeatStep, StartBeats, LoadBeat, Rest, WriteBeat, TcpAssumption
<1>3. TypeOK'
  BY <1>1, <1>2 DEF ConInv, TypeOK
<1>4. QED
  BY <1>1, <1>3 DEF ConInv, QueueInv, LifeInv, NoLeftovers, Taken

(* Nothing happens.                                                        *)
LEMMA UnchangedCons == ConInv /\ UNCHANGED vars => ConInv'
BY DEF vars, beatVars, ConInv, TypeOK, QueueInv, LifeInv, NoLeftovers, Taken

(* The invariant of the connections' life (new/server_tcp.go:129-168 and   *)
(* 469-507).                                                               *)
THEOREM ConInvariant == Spec => []ConInv
<1>1. ConInv /\ [Next]_vars => ConInv'
  BY HandlerSteps, ReaderSteps, EnvironmentSteps, BeatSteps, UnchangedCons DEF Next
<1>2. QED
  BY InitConInv, <1>1, PTL DEF Spec

(* The state of server_tcp.go's connections is always well typed.          *)
THEOREM TcpTypeCorrect == Spec => []TypeOK
BY ConInvariant, PTL DEF ConInv

(* However connections with the same serial come, throw each other out and *)
(* break, every entry of TcpClientCons and of LastBeatSend still has a     *)
(* goroutine that will delete it (new/server_tcp.go:161-168).              *)
THEOREM NothingIsLeft == Spec => []NoLeftovers
BY ConInvariant, PTL DEF ConInv

-----------------------------------------------------------------------------
(* As long as the connections of a key come one after the other: of two of *)
(* them one is not there, nobody throws anybody out, and the one that is   *)
(* there stands in both maps.                                              *)
Alone == \A c \in Cons : \A d \in Rivals(c) : KeyOf[c] \in met \/ ~Present(c) \/ ~Present(d)

NobodyEvicted ==
  \A c \in Cons : stage[c] \in {"evict", "closeself", "closeother"} => KeyOf[c] \in met

Registered ==
  \A c \in Cons :
    stage[c] \in {"observe", "spawn", "served"} /\ reader[c] \in {"off", "read", "cast", "unbeat", "delete"}
      => tcpClientCons[KeyOf[c]] = c \/ KeyOf[c] \in met

Beating ==
  \A c \in Cons :
    stage[c] \in {"store", "observe", "spawn", "served"} /\ reader[c] \in {"off", "read", "cast", "unbeat"}
      => KeyOf[c] \in lastBeatSend \/ KeyOf[c] \in met

TurnInv == Alone /\ NobodyEvicted /\ Registered /\ Beating

(* A connection that is there has no rival that is.                        *)
LEMMA RivalsAreAway ==
  ASSUME Alone, NEW c \in Cons, Present(c), KeyOf[c] \notin met, NEW d \in Rivals(c)
  PROVE  ~Present(d)
BY DEF Alone

(* Only accepting brings a connection in, and that is when rivals meet.    *)
LEMMA AloneStep ==
  ASSUME ConInv, Alone, NEW c \in Cons,
         \/ HandlerStep(c) \/ ObserveNew(c)
         \/ CastStep(c) \/ ReaderStep(c) \/ ObserveEnd(c)
         \/ EnvironmentStep(c)
  PROVE  Alone'
<1> USE DEF ConInv, SetStage, SetReader
<1>1. CASE Accept(c)
  <2>1. /\ \A d \in Cons \ {c} : Present(d)' = Present(d)
        /\ met \subseteq met'
        /\ KeyOf[c] \in met' \/ \A d \in Rivals(c) : ~Present(d)
    BY <1>1 DEF Accept, Present, TypeOK
  <2>2. QED
    BY <2>1 DEF Alone, Rivals
<1>2. CASE ~Accept(c)
  <2>1. \A d \in Cons : Present(d)' => Present(d)
    BY <1>2, TakeQueue
    DEF Present, HandlerStep, ObserveNew, CastStep, Cast, ReadAgain, ReaderStep, ObserveEnd, EnvironmentStep, Take, Acknowledge,
        AddBeat, LoadOrStore, Evict, CloseSelf, CloseOther, Spawn, ReadError, RemoveBeat, RemoveCon,
        CloseRead, WriteError, Break, TypeOK, LifeInv
  <2>2. UNCHANGED met
    BY <1>2
    DEF HandlerStep, ObserveNew, CastStep, Cast, ReadAgain, ReaderStep, ObserveEnd, EnvironmentStep,
        Take, Acknowledge, AddBeat,
        LoadOrStore, Evict, CloseSelf, CloseOther, Spawn, ReadError, RemoveBeat, RemoveCon, CloseRead,
        WriteError, Break
  <2>3. QED
    BY <2>1, <2>2 DEF Alone, Rivals
<1>3. QED
  BY <1>1, <1>2

(* Nobody finds the key taken, so nobody throws anybody out.               *)
LEMMA KeyIsFree ==
  ASSUME ConInv, Alone, NEW c \in Cons, stage[c] = "store", KeyOf[c] \notin met
  PROVE  ~Taken(KeyOf[c])
<1> SUFFICES ASSUME Taken(KeyOf[c]) PROVE FALSE
  OBVIOUS
<1> DEFINE d == tcpClientCons[KeyOf[c]]
<1>1. KeyOf[c] \in Keys /\ d \in Cons /\ KeyOf[d] = KeyOf[c]
  BY ConTypes DEF ConInv, LifeInv, Taken
<1>2. stage[d] \in {"observe", "spawn", "served"} /\ reader[d] # "gone"
  BY <1>1 DEF ConInv, NoLeftovers
<1>3. reader[c] # "gone"
  BY DEF ConInv, LifeInv
<1>4. d \in Rivals(c)
  BY <1>1, <1>2 DEF Rivals
<1>5. QED
  BY <1>2, <1>3, <1>4, RivalsAreAway DEF Present

(* The steps of a handler.                                                 *)
LEMMA TurnHandler ==
  ASSUME ConInv, TurnInv, NEW c \in Cons, HandlerStep(c) \/ ObserveNew(c)
  PROVE  NobodyEvicted' /\ Registered' /\ Beating'
<1> USE DEF ConInv, TurnInv, SetStage, SetReader
<1>1. KeyOf[c] \in Keys
  BY ConTypes
<1>2. ASSUME NEW d \in Cons, stage[d] = "store" PROVE reader[d] = "off"
  BY <1>2 DEF LifeInv
<1>3. CASE AddBeat(c)
  BY <1>1, <1>3 DEF AddBeat, BeatOn, NobodyEvicted, Registered, Beating, TypeOK
<1>4. CASE LoadOrStore(c)
  <2>1. /\ stage[c] = "store" /\ UNCHANGED <<reader, lastBeatSend, met>>
        /\ \/ /\ ~Taken(KeyOf[c])
              /\ tcpClientCons' = [tcpClientCons EXCEPT ![KeyOf[c]] = c]
              /\ stage' = [stage EXCEPT ![c] = "observe"]
           \/ /\ KeyOf[c] \in met
              /\ stage' = [stage EXCEPT ![c] = "evict"]
              /\ UNCHANGED tcpClientCons
    BY <1>4, KeyIsFree DEF LoadOrStore, Stored
  <2>2. Registered'
    <3> SUFFICES ASSUME NEW d \in Cons, stage'[d] \in {"observe", "spawn", "served"},
                        reader'[d] \in {"off", "read", "cast", "unbeat", "delete"}
                 PROVE  tcpClientCons'[KeyOf[d]] = d \/ KeyOf[d] \in met'
      BY DEF Registered
    <3>1. CASE d = c
      BY <1>1, <2>1, <3>1 DEF TypeOK
    <3>2. CASE d # c
      BY <2>1, <3>2, ConTypes, TcpAssumption DEF Registered, Taken, TypeOK, TcpAssumption
    <3>3. QED
      BY <3>1, <3>2
  <2>3. NobodyEvicted' /\ Beating'
    BY <2>1 DEF NobodyEvicted, Beating, TypeOK
  <2>4. QED
    BY <2>2, <2>3
<1>5. CASE Take(c) \/ Acknowledge(c)
  <2>1. /\ UNCHANGED <<tcpClientCons, lastBeatSend, reader, met>>
        /\ \E s \in {"ack", "beat", "refused"} : stage' = [stage EXCEPT ![c] = s]
    BY <1>5 DEF Take, Acknowledge
  <2>2. QED
    BY <2>1 DEF NobodyEvicted, Registered, Beating, TypeOK
<1>6. CASE Spawn(c) \/ ObserveNew(c)
  <2>1. /\ UNCHANGED <<tcpClientCons, lastBeatSend, met>>
        /\ stage[c] \in {"observe", "spawn"}
        /\ \E s \in {"spawn", "served"} : stage' = [stage EXCEPT ![c] = s]
        /\ reader' = reader \/ reader' = [reader EXCEPT ![c] = "read"]
    BY <1>6 DEF Spawn, ObserveNew
  <2>2. reader[c] = "off"
    BY <2>1 DEF LifeInv
  <2>3. QED
    BY <2>1, <2>2 DEF NobodyEvicted, Registered, Beating, TypeOK
<1>7. CASE Evict(c) \/ CloseSelf(c) \/ CloseOther(c)
  <2>1. /\ KeyOf[c] \in met
        /\ UNCHANGED <<lastBeatSend, reader, met>>
        /\ tcpClientCons' = tcpClientCons \/ tcpClientCons' = [tcpClientCons EXCEPT ![KeyOf[c]] = Nil]
        /\ \E s \in {"closeself", "closeother", "observe"} : stage' = [stage EXCEPT ![c] = s]
    BY <1>7 DEF Evict, CloseSelf, CloseOther, NobodyEvicted
  <2>2. QED
    BY <1>1, <2>1, ConTypes DEF NobodyEvicted, Registered, Beating, TypeOK
<1>8. QED
  BY <1>3, <1>4, <1>5, <1>6, <1>7 DEF HandlerStep

(* The steps of a reader: what it deletes is its own.                      *)
LEMMA TurnReader ==
  ASSUME ConInv, TurnInv, NEW c \in Cons, CastStep(c) \/ ReaderStep(c) \/ ObserveEnd(c)
  PROVE  NobodyEvicted' /\ Registered' /\ Beating'
<1> USE DEF ConInv, TurnInv, SetReader
<1>1. KeyOf[c] \in Keys /\ \A d \in Cons : KeyOf[d] \in Keys
  BY ConTypes
<1>2. UNCHANGED <<stage, met>>
  BY DEF CastStep, Cast, ReadAgain, ReaderStep, ReadError, RemoveBeat, RemoveCon, CloseRead, ObserveEnd
<1>3. NobodyEvicted'
  BY <1>2 DEF NobodyEvicted
<1>4. CASE RemoveBeat(c) \/ RemoveCon(c)
  <2>1. stage[c] = "served" /\ reader[c] \in {"unbeat", "delete"}
    BY <1>4 DEF RemoveBeat, RemoveCon, LifeInv
  <2>2. KeyOf[c] \in met \/ \A d \in Rivals(c) : ~Present(d)
    BY <2>1, RivalsAreAway DEF Present
  <2>3. \A d \in Cons : /\ stage[d] \in {"store", "observe", "spawn", "served"}
                        /\ reader[d] # "gone"
                        /\ d # c
                        => KeyOf[d] # KeyOf[c] \/ KeyOf[d] \in met
    BY <2>2 DEF Present, Rivals
  <2>4. CASE RemoveBeat(c)
    <3>1. /\ UNCHANGED <<tcpClientCons, stage>>
          /\ lastBeatSend' = lastBeatSend \ {KeyOf[c]}
          /\ reader[c] = "unbeat" /\ reader' = [reader EXCEPT ![c] = "delete"]
      BY <2>4 DEF RemoveBeat, BeatOff
    <3>2. Registered' /\ Beating'
      BY <1>2, <2>3, <3>1 DEF Registered, Beating, TypeOK
    <3>3. QED
      BY <1>3, <3>2
  <2>5. CASE RemoveCon(c)
    <3>1. /\ UNCHANGED <<lastBeatSend, stage>>
          /\ tcpClientCons' = [tcpClientCons EXCEPT ![KeyOf[c]] = Nil]
          /\ reader[c] = "delete" /\ reader' = [reader EXCEPT ![c] = "close"]
      BY <2>5 DEF RemoveCon, Emptied
    <3>2. Registered' /\ Beating'
      BY <1>1, <1>2, <2>3, <3>1 DEF Registered, Beating, TypeOK
    <3>3. QED
      BY <1>3, <3>2
  <2>6. QED
    BY <1>4, <2>4, <2>5
<1>5. CASE CastStep(c) \/ ReadError(c) \/ CloseRead(c) \/ ObserveEnd(c)
  <2>1. /\ UNCHANGED <<tcpClientCons, lastBeatSend, stage>>
        /\ \/ /\ reader[c] \in {"read", "cast"}
              /\ \E r \in {"read", "cast", "unbeat"} : reader' = [reader EXCEPT ![c] = r]
           \/ \E r \in {"observe", "gone"} : reader' = [reader EXCEPT ![c] = r]
    BY <1>5 DEF CastStep, Cast, ReadAgain, ReadError, CloseRead, ObserveEnd
  <2>2. QED
    BY <1>2, <1>3, <2>1 DEF Registered, Beating, TypeOK
<1>6. QED
  BY <1>4, <1>5 DEF ReaderStep

(* And the environment's, which reach neither the maps nor the goroutines. *)
LEMMA TurnEnvironment ==
  ASSUME ConInv, TurnInv, NEW c \in Cons, EnvironmentStep(c)
  PROVE  NobodyEvicted' /\ Registered' /\ Beating'
<1>1. /\ UNCHANGED <<tcpClientCons, lastBeatSend, reader>>
      /\ met \subseteq met'
      /\ stage' = stage \/ stage' = [stage EXCEPT ![c] = "queued"]
  BY DEF EnvironmentStep, Accept, WriteError, Break, SetStage
<1>2. QED
  BY <1>1 DEF ConInv, TurnInv, NobodyEvicted, Registered, Beating, TypeOK

THEOREM TurnInvariant == Spec => []TurnInv
<1>1. Init => TurnInv
  BY DEF Init, TurnInv, Alone, NobodyEvicted, Registered, Beating, Rivals, Present
<1>2. ConInv /\ TurnInv /\ [Next]_vars => TurnInv'
  <2> SUFFICES ASSUME ConInv, TurnInv, [Next]_vars PROVE TurnInv'
    OBVIOUS
  <2>1. CASE ~BeatStep /\ Next
    BY <2>1, AloneStep, TurnHandler, TurnReader, TurnEnvironment DEF Next, TurnInv
  <2>2. CASE BeatStep \/ UNCHANGED vars
    <3>1. UNCHANGED <<tcpClientCons, lastBeatSend, stage, reader, met>>
      BY <2>2, BeatSteps DEF vars
    <3>2. QED
      BY <3>1 DEF TurnInv, Alone, NobodyEvicted, Registered, Beating, Rivals, Present
  <2>3. QED
    BY <2>1, <2>2
<1>3. QED
  BY ConInvariant, <1>1, <1>2, PTL DEF Spec

(* As long as the devices of a serial come only when the last one is gone, *)
(* every connection of it that is served is in TcpClientCons and in        *)
(* LastBeatSend (new/server_tcp.go:129-168).                               *)
THEOREM ServedInTurn == Spec => []ServedIsRegistered
<1>1. ConInv /\ TurnInv => ServedIsRegistered
  BY DEF ConInv, LifeInv, TurnInv, Registered, Beating, ServedIsRegistered, Served
<1>2. QED
  BY ConInvariant, TurnInvariant, <1>1, PTL
=============================================================================
