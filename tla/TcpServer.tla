----------------------------- MODULE TcpServer -----------------------------
(***************************************************************************)
(* The life of the device connections of new/server_tcp.go: accepted into  *)
(* ChanQueue, authenticated by one of the newComeConHandle goroutines,     *)
(* entered under their serial in TcpClientCons (a NetConMap without        *)
(* duplicates, as main sets it for every server) and in LastBeatSend, then *)
(* read by a goroutine of their own until the read fails, and removed.     *)
(*                                                                         *)
(* A serial that is taken throws out both: the newcomer deletes the entry  *)
(* and closes itself and the other.  Delete goes by serial alone, whoever  *)
(* stands there, and nothing covers the steps of adding or of removing as  *)
(* a whole.                                                                *)
(*                                                                         *)
(* A server with heartbeats has one goroutine that sends them.  It holds   *)
(* rw_mutex while it goes through LastBeatSend and writes to each serial   *)
(* that is due, and a write ends when the peer takes it or is gone; there  *)
(* is no deadline.                                                         *)
(*                                                                         *)
(* A key is a serial of one server, which is GATEWAY if it has heartbeats. *)
(* Monitors are the subject of HandlerPool, the data read and written that *)
(* of PacketParser and Relay; StatusReport adds what the observer does.    *)
(***************************************************************************)
EXTENDS Naturals, Sequences, FiniteSets

CONSTANTS
  Cons,      \* connections, each used once
  Keys,      \* a server and a serial
  KeyOf,     \* the key each connection comes with
  BeatKeys,  \* the keys of the server that sends heartbeats
  Handlers,  \* newComeConHandle goroutines (5 and more in the code)
  Nil

ASSUME TcpAssumption ==
  /\ KeyOf \in [Cons -> Keys]
  /\ BeatKeys \subseteq Keys
  /\ Handlers \in Nat \ {0}
  /\ Nil \notin Cons

VARIABLES
  chanQueue,      \* ChanQueue: accepted, not authenticated
  tcpClientCons,  \* TcpClientCons: the connection under each key, or Nil
  lastBeatSend,   \* the keys of LastBeatSend
  stage,          \* what the handler of each connection does next
  reader,         \* what the read goroutine of each connection does next
  open,           \* WrapConn not closed
  dead,           \* the peer or the network is gone: reads and writes fail
  found,          \* v of addTcpConn: the connection found under the key
  due,            \* the keys this round of heartbeats has still to serve
  beatTo,         \* the connection a heartbeat is being written to, or Nil
  met             \* (history) keys of which two connections were there at once

beatVars == <<due, beatTo>>
vars == <<chanQueue, tcpClientCons, lastBeatSend, stage, reader, open, dead, found, beatVars, met>>

Handling == {"ack", "beat", "store", "evict", "closeself", "closeother", "observe", "spawn"}

SetStage(c, s) == stage' = [stage EXCEPT ![c] = s]
SetReader(c, r) == reader' = [reader EXCEPT ![c] = r]

Init ==
  /\ chanQueue = <<>>
  /\ tcpClientCons = [k \in Keys |-> Nil]
  /\ lastBeatSend = {}
  /\ stage = [c \in Cons |-> "new"]
  /\ reader = [c \in Cons |-> "off"]
  /\ open = [c \in Cons |-> TRUE]
  /\ dead = [c \in Cons |-> FALSE]
  /\ found = [c \in Cons |-> Nil]
  /\ due = {} /\ beatTo = Nil
  /\ met = {}

(* Accepted, and something of the connection still runs.                   *)
Present(c) == stage[c] \notin {"new", "refused"} /\ reader[c] # "gone"

Rivals(c) == {d \in Cons \ {c} : KeyOf[d] = KeyOf[c]}

-----------------------------------------------------------------------------
(* StartListen: Accept, and into the queue.                                *)
Accept(c) ==
  /\ stage[c] = "new"
  /\ chanQueue' = Append(chanQueue, c)
  /\ SetStage(c, "queued")
  /\ met' = IF \E d \in Rivals(c) : Present(d) THEN met \cup {KeyOf[c]} ELSE met
  /\ UNCHANGED <<tcpClientCons, lastBeatSend, reader, open, dead, found, beatVars>>

(* newComeConHandle: a free handler takes the next connection.             *)
Take(c) ==
  /\ chanQueue # <<>> /\ c = Head(chanQueue)
  /\ Cardinality({d \in Cons : stage[d] \in Handling}) < Handlers
  /\ chanQueue' = Tail(chanQueue)
  /\ SetStage(c, "ack")
  /\ UNCHANGED <<tcpClientCons, lastBeatSend, reader, open, dead, found, beatVars, met>>

(* AckSerial and AckConnect: accepted, or refused and closed (no serial,   *)
(* a wrong one, five seconds of silence, or a failing write).              *)
Acknowledge(c) ==
  /\ stage[c] = "ack"
  /\ \/ SetStage(c, "beat") /\ UNCHANGED open
     \/ SetStage(c, "refused") /\ open' = [open EXCEPT ![c] = FALSE]
  /\ UNCHANGED <<chanQueue, tcpClientCons, lastBeatSend, reader, dead, found, beatVars, met>>

(* Mutated form of BeatOn: the time is kept by connection, not by serial.  *)
BeatOfCon(c) == lastBeatSend \cup {c}

(* LastBeatSend[serial] = value                                            *)
BeatOn(c) == lastBeatSend \cup {KeyOf[c]}

(* No round of heartbeats holds the rw_mutex of the server.                *)
LockFree(k) == k \in BeatKeys => due = {} /\ beatTo = Nil

(* addTcpConn, the time of the last beat, under rw_mutex.                  *)
AddBeat(c) ==
  /\ stage[c] = "beat" /\ LockFree(KeyOf[c])
  /\ lastBeatSend' = BeatOn(c)
  /\ SetStage(c, "store")
  /\ UNCHANGED <<chanQueue, tcpClientCons, reader, open, dead, found, beatVars, met>>

(* The key is in the map.                                                  *)
Taken(k) == tcpClientCons[k] # Nil

(* Mutated form of Stored: loaded only.                                    *)
NotStored(k, c) == tcpClientCons

(* TcpClientCons with c under the key.                                     *)
Stored(k, c) == [tcpClientCons EXCEPT ![k] = c]

(* addTcpConn, LoadOrStore.                                                *)
LoadOrStore(c) ==
  LET k == KeyOf[c] IN
  /\ stage[c] = "store"
  /\ \/ /\ ~Taken(k)
        /\ tcpClientCons' = Stored(k, c)
        /\ SetStage(c, "observe")
        /\ UNCHANGED found
     \/ /\ Taken(k)
        /\ found' = [found EXCEPT ![c] = tcpClientCons[k]]
        /\ SetStage(c, "evict")
        /\ UNCHANGED tcpClientCons
  /\ UNCHANGED <<chanQueue, lastBeatSend, reader, open, dead, beatVars, met>>

(* addTcpConn, Delete(serial) when the key was taken.                      *)
Evict(c) ==
  /\ stage[c] = "evict"
  /\ tcpClientCons' = [tcpClientCons EXCEPT ![KeyOf[c]] = Nil]
  /\ SetStage(c, "closeself")
  /\ UNCHANGED <<chanQueue, lastBeatSend, reader, open, dead, found, beatVars, met>>

CloseSelf(c) ==
  /\ stage[c] = "closeself"
  /\ open' = [open EXCEPT ![c] = FALSE]
  /\ SetStage(c, "closeother")
  /\ UNCHANGED <<chanQueue, tcpClientCons, lastBeatSend, reader, dead, found, beatVars, met>>

CloseOther(c) ==
  /\ stage[c] = "closeother"
  /\ open' = [open EXCEPT ![found[c]] = FALSE]
  /\ found' = [found EXCEPT ![c] = Nil]
  /\ SetStage(c, "observe")
  /\ UNCHANGED <<chanQueue, tcpClientCons, lastBeatSend, reader, dead, beatVars, met>>

(* HNewConnect and SNewConnect, also for a connection just closed.         *)
ObserveNew(c) ==
  /\ stage[c] = "observe"
  /\ SetStage(c, "spawn")
  /\ UNCHANGED <<chanQueue, tcpClientCons, lastBeatSend, reader, open, dead, found, beatVars, met>>

(* go createReadroutine, also for a connection just closed.                *)
Spawn(c) ==
  /\ stage[c] = "spawn"
  /\ SetStage(c, "served")
  /\ SetReader(c, "read")
  /\ UNCHANGED <<chanQueue, tcpClientCons, lastBeatSend, open, dead, found, beatVars, met>>

-----------------------------------------------------------------------------
(* createReadroutine: con.Read returns data.  The reader answers the       *)
(* heartbeats in it and puts the packets into the queues of other servers. *)
Cast(c) ==
  /\ reader[c] = "read"
  /\ open[c] /\ ~dead[c]
  /\ SetReader(c, "cast")
  /\ UNCHANGED <<chanQueue, tcpClientCons, lastBeatSend, stage, open, dead, found, beatVars, met>>

(* It is done with that and reads again.                                   *)
ReadAgain(c) ==
  /\ reader[c] = "cast"
  /\ SetReader(c, "read")
  /\ UNCHANGED <<chanQueue, tcpClientCons, lastBeatSend, stage, open, dead, found, beatVars, met>>

(* createReadroutine: con.Read fails.                                      *)
ReadError(c) ==
  /\ reader[c] = "read"
  /\ ~open[c] \/ dead[c]
  /\ SetReader(c, "unbeat")
  /\ UNCHANGED <<chanQueue, tcpClientCons, lastBeatSend, stage, open, dead, found, beatVars, met>>

(* Mutated form of BeatOff: nothing is deleted.                            *)
BeatKept(k) == lastBeatSend

(* delete(t.LastBeatSend, serial)                                          *)
BeatOff(k) == lastBeatSend \ {k}

(* removeTcpConn, LastBeatSend under rw_mutex.                             *)
RemoveBeat(c) ==
  /\ reader[c] = "unbeat" /\ LockFree(KeyOf[c])
  /\ lastBeatSend' = BeatOff(KeyOf[c])
  /\ SetReader(c, "delete")
  /\ UNCHANGED <<chanQueue, tcpClientCons, stage, open, dead, found, beatVars, met>>

(* Mutated form of Emptied: the entry is kept.                             *)
EntryKept(k) == tcpClientCons

(* TcpClientCons without the key, whoever is there.                        *)
Emptied(k) == [tcpClientCons EXCEPT ![k] = Nil]

(* removeTcpConn, TcpClientCons.Delete(serial).                            *)
RemoveCon(c) ==
  /\ reader[c] = "delete"
  /\ tcpClientCons' = Emptied(KeyOf[c])
  /\ SetReader(c, "close")
  /\ UNCHANGED <<chanQueue, lastBeatSend, stage, open, dead, found, beatVars, met>>

CloseRead(c) ==
  /\ reader[c] = "close"
  /\ open' = [open EXCEPT ![c] = FALSE]
  /\ SetReader(c, "observe")
  /\ UNCHANGED <<chanQueue, tcpClientCons, lastBeatSend, stage, dead, found, beatVars, met>>

(* HDisConnect and SDisConnect, and the goroutine ends.                    *)
ObserveEnd(c) ==
  /\ reader[c] = "observe"
  /\ SetReader(c, "gone")
  /\ UNCHANGED <<chanQueue, tcpClientCons, lastBeatSend, stage, open, dead, found, beatVars, met>>

(* A write to the connection fails, by the writer goroutine of a served    *)
(* connection or by a shared writer that found it in TcpClientCons.        *)
WriteError(c) ==
  /\ dead[c] /\ open[c]
  /\ stage[c] = "served" \/ tcpClientCons[KeyOf[c]] = c
  /\ open' = [open EXCEPT ![c] = FALSE]
  /\ UNCHANGED <<chanQueue, tcpClientCons, lastBeatSend, stage, reader, dead, found, beatVars, met>>

(* The peer closes the connection, or the network does.  Before the        *)
(* connection is entered only its handler would notice (Acknowledge), and  *)
(* when it was closed here, nobody.                                        *)
Break(c) ==
  /\ stage[c] \in {"observe", "spawn", "served"} /\ reader[c] # "gone"
  /\ open[c] /\ ~dead[c]
  /\ dead' = [dead EXCEPT ![c] = TRUE]
  /\ UNCHANGED <<chanQueue, tcpClientCons, lastBeatSend, stage, reader, open, found, beatVars, met>>

-----------------------------------------------------------------------------
(* createBeatSendHandle: RLock, and the serials whose time has come.       *)
StartBeats ==
  /\ due = {} /\ beatTo = Nil
  /\ due' \in SUBSET (lastBeatSend \cap BeatKeys) \ {{}}
  /\ UNCHANGED <<chanQueue, tcpClientCons, lastBeatSend, stage, reader, open, dead, found, beatTo, met>>

(* Mutated form of Rest: the round does not get on.                        *)
SameRound(k) == due

Rest(k) == due \ {k}

(* TcpClientCons.Range(k, ...): whoever is there.                          *)
LoadBeat(k) ==
  /\ k \in due /\ beatTo = Nil
  /\ due' = Rest(k)
  /\ beatTo' = tcpClientCons[k]
  /\ UNCHANGED <<chanQueue, tcpClientCons, lastBeatSend, stage, reader, open, dead, found, met>>

(* con.Write(beat) returns, with an error or not; after the last, RUnlock. *)
WriteBeat ==
  /\ beatTo # Nil
  /\ beatTo' = Nil
  /\ UNCHANGED <<chanQueue, tcpClientCons, lastBeatSend, stage, reader, open, dead, found, due, met>>

HandlerStep(c) ==
  \/ Take(c) \/ Acknowledge(c) \/ AddBeat(c) \/ LoadOrStore(c)
  \/ Evict(c) \/ CloseSelf(c) \/ CloseOther(c) \/ Spawn(c)

CastStep(c) == Cast(c) \/ ReadAgain(c)

ReaderStep(c) == ReadError(c) \/ RemoveBeat(c) \/ RemoveCon(c) \/ CloseRead(c)

EnvironmentStep(c) == Accept(c) \/ WriteError(c) \/ Break(c)

BeatStep == StartBeats \/ WriteBeat \/ \E k \in BeatKeys : LoadBeat(k)

Next ==
  \/ \E c \in Cons :
       \/ HandlerStep(c) \/ ObserveNew(c)
       \/ CastStep(c) \/ ReaderStep(c) \/ ObserveEnd(c)
       \/ EnvironmentStep(c)
  \/ BeatStep

Spec == Init /\ [][Next]_vars

(* A heartbeat is being written to a peer that is there.                   *)
PeerHasBeat == beatTo # Nil /\ open[beatTo] /\ ~dead[beatTo]

(* The goroutines run: AckSerial has a deadline of five seconds, what      *)
(* AckConnect writes is a few bytes into an empty send buffer, and who     *)
(* waits for rw_mutex gets it however often others do.  When a device      *)
(* connects, breaks off, is written to, or takes the heartbeat that is     *)
(* written to it is not ours to say.  Nor is when a goroutine comes back   *)
(* from other servers, the observer's report included: it may wait there   *)
(* for a queue, so these steps have no fairness (see HandOversReturn).     *)
FairSpec ==
  /\ Spec
  /\ \A c \in Cons : /\ WF_vars(HandlerStep(c))
                     /\ WF_vars(ReaderStep(c))
                     /\ SF_vars(AddBeat(c) \/ RemoveBeat(c))
  /\ \A k \in BeatKeys : WF_vars(LoadBeat(k))
  /\ WF_vars(WriteBeat /\ ~PeerHasBeat)

-----------------------------------------------------------------------------
(* Type invariant of the connections' state.                               *)
TypeOK ==
  /\ chanQueue \in Seq(Cons)
  /\ tcpClientCons \in [Keys -> Cons \cup {Nil}]
  /\ lastBeatSend \subseteq Keys
  /\ stage \in [Cons -> {"new", "queued", "refused", "served"} \cup Handling]
  /\ reader \in [Cons -> {"off", "read", "cast", "unbeat", "delete", "close", "observe", "gone"}]
  /\ open \in [Cons -> BOOLEAN]
  /\ dead \in [Cons -> BOOLEAN]
  /\ found \in [Cons -> Cons \cup {Nil}]
  /\ due \subseteq BeatKeys
  /\ beatTo \in Cons \cup {Nil}
  /\ met \subseteq Keys

(* No entry is left behind: whoever stands in TcpClientCons still has its  *)
(* Delete to come, and a key in LastBeatSend belongs to a connection whose *)
(* reader has still to take it out.                                        *)
NoLeftovers ==
  /\ \A c \in Cons :
       tcpClientCons[KeyOf[c]] = c =>
         stage[c] \in {"observe", "spawn", "served"}
         /\ reader[c] \in {"off", "read", "cast", "unbeat", "delete"}
  /\ \A k \in lastBeatSend : \E c \in Cons :
       /\ KeyOf[c] = k
       /\ stage[c] \in (Handling \ {"ack", "beat"}) \cup {"served"}
       /\ reader[c] \in {"off", "read", "cast", "unbeat"}

Served(c) == reader[c] \in {"read", "cast"} /\ open[c]

(* As long as every device with the serial came only when the last one was *)
(* gone, the one that is served is in both maps, so data and heartbeats    *)
(* reach it.                                                               *)
ServedIsRegistered ==
  \A c \in Cons :
    Served(c) /\ KeyOf[c] \notin met => tcpClientCons[KeyOf[c]] = c /\ KeyOf[c] \in lastBeatSend

(* Every peer that is there takes the heartbeats that are written to it.   *)
PeersRead == []<>~PeerHasBeat

(* Nobody is kept for ever by the servers it hands data or a report to: by *)
(* a handle of FifoQueue whose mutex a sweep keeps (SweepReturns there),   *)
(* by the full channel of the WebSocket server, or by a device it answers. *)
HandOversReturn ==
  \A c \in Cons : []<>(stage[c] # "observe") /\ []<>(reader[c] \notin {"cast", "observe"})

(* The connection that stands under the key broke, or was closed.          *)
Broken(k) == Taken(k) /\ (dead[tcpClientCons[k]] \/ ~open[tcpClientCons[k]])

(* No key stays with a connection that broke or was closed, if no peer     *)
(* lets the round of heartbeats wait for ever and no other server a        *)
(* handler or a reader: it gets back to con.Read, which fails, and deletes.*)
BrokenIsRemoved ==
  PeersRead /\ HandOversReturn => \A k \in Keys : Broken(k) ~> ~Broken(k)

(* No connection waits for ever to be entered: every handler comes back    *)
(* for the next, under the same two conditions.                            *)
HandlersReturn ==
  PeersRead /\ HandOversReturn => []<>(\A c \in Cons : stage[c] \notin Handling)

(* A connection that is served, open and not broken is in TcpClientCons,   *)
(* which is what SerialIsActivity asks.                                    *)
ActiveIsKnown ==
  \A c \in Cons :
    (Served(c) /\ ~dead[c] /\ tcpClientCons[KeyOf[c]] = Nil)
      ~> (~Served(c) \/ dead[c] \/ tcpClientCons[KeyOf[c]] # Nil)
=============================================================================
