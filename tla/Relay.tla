------------------------------- MODULE Relay -------------------------------
(***************************************************************************)
(* The way of the data through the gateway, for one serial: a reader       *)
(* goroutine parses what its connection sends and broadcasts each packet   *)
(* to the servers of its own server's ToBroadCast; writer goroutines take  *)
(* it from the queue of their server and write it (createReadroutine,      *)
(* writeDataEachConRoutine and writeDataSharePool of new/server_tcp.go,    *)
(* WebSockHandle and createWriteConroutine of new/server_websocket.go,     *)
(* readUdpData of new/server_udp.go).                                      *)
(*                                                                         *)
(* A packet is one MemEntity for all of its servers, with an AckTimes of   *)
(* their number; each gives its share back once.  GATEWAY has a writer for *)
(* every connection and puts what it could not write back into the queue;  *)
(* WEB and APP have a pool of writers, and WS one writer and a channel     *)
(* that can be full: these drop what they cannot write.  UDP only reads,   *)
(* in one goroutine that no error ends: no Parser has an answer for the    *)
(* sender, and nobody broadcasts to UDP, so its own queue stays empty.     *)
(*                                                                         *)
(* The queue of a server is a sequence here, by the refinement that        *)
(* FifoQueue proves; that a reader of it may sleep on items is FifoQueue's *)
(* subject, so nothing is said of progress.  What the pool of writers      *)
(* finds in its server's map is TcpServer's: an open connection or none at *)
(* any time, so a write of theirs succeeds or not.  Monitors, the buffers  *)
(* for encryption and the reports of the observer, which enter GATEWAY's   *)
(* queue like a client's packets, are left out.                            *)
(***************************************************************************)
EXTENDS Integers, Sequences, FiniteSets, Functions

CONSTANTS
  Servers,      \* who gets data
  PerCon,       \* those with a writer for each connection (GATEWAY)
  Channels,     \* those whose MemQueue is a channel (WS)
  Cap,          \* its capacity (100)
  NeedFeedBack, \* those that put back what they could not write
  Cons,         \* connections of the PerCon servers
  Pool,         \* the other writers
  Serves,       \* the server of each writer
  Clients,      \* connections of the other servers, and the reader of UDP
  Messages,     \* those that call Parser once for each message (WS, UDP)
  Endless,      \* those that no read error ends (UDP)
  ToBroadCast,  \* the servers to which a reader's packets go, in order
  MaxMade,      \* bound: packets
  Nil

Readers == Cons \cup Clients
Writers == Cons \cup Pool
Packets == 1 .. MaxMade

ASSUME RelayAssumption ==
  /\ PerCon \subseteq Servers /\ Channels \subseteq Servers
  /\ PerCon \cap Channels = {}
  /\ NeedFeedBack \subseteq Servers \ Channels
  /\ Cap \in Nat \ {0}
  /\ Cons \cap Pool = {} /\ Cons \cap Clients = {}
  /\ Endless \subseteq Messages /\ Messages \subseteq Clients
  /\ Serves \in [Writers -> Servers]
  /\ \A g \in Cons : Serves[g] \in PerCon
  /\ \A w \in Pool : Serves[w] \notin PerCon
  /\ ToBroadCast \in [Readers -> Seq(Servers) \ {<<>>}]
  /\ MaxMade \in Nat
  /\ Nil \notin Packets

(* main adds every server once.                                            *)
ASSUME BroadCastAssumption ==
  \A r \in Readers : \A i, j \in DOMAIN ToBroadCast[r] :
    ToBroadCast[r][i] = ToBroadCast[r][j] => i = j

VARIABLES
  made,      \* packets so far
  acks,      \* AckTimes of each packet's entity
  inUse,     \* packets whose piece of the pool is not given back
  old,       \* packets that are older than TimeOutSec
  reader,    \* what each read goroutine does next
  packet,    \* tocast of each reader, once it holds a packet
  left,      \* the servers BroadCastData has still to visit
  queue,     \* MemQueue of each server
  writer,    \* what each write goroutine does next
  item,      \* the packet in its hands
  con,       \* the connection of each PerCon writer
  wrote,     \* (history) what each writer has written
  sent,      \* (history) what was handed to each server, in order
  putBack    \* (history) packets that were put back

packetVars == <<made, acks, inUse, old>>
readerVars == <<reader, packet, left>>
writerVars == <<writer, item>>
history == <<wrote, sent, putBack>>
vars == <<packetVars, readerVars, queue, writerVars, con, history>>

Init ==
  /\ made = 0
  /\ acks = [m \in Packets |-> 0]
  /\ inUse = {} /\ old = {}
  /\ reader = [r \in Readers |-> "off"]
  /\ packet = [r \in Readers |-> Nil]
  /\ left = [r \in Readers |-> <<>>]
  /\ queue = [s \in Servers |-> <<>>]
  /\ writer = [w \in Writers |-> IF w \in Cons THEN "off" ELSE "get"]
  /\ item = [w \in Writers |-> Nil]
  /\ con = [g \in Cons |-> "none"]
  /\ wrote = [w \in Writers |-> <<>>]
  /\ sent = [s \in Servers |-> <<>>]
  /\ putBack = {}

SetReader(r, label) == reader' = [reader EXCEPT ![r] = label]
SetWriter(w, label) == writer' = [writer EXCEPT ![w] = label]

-----------------------------------------------------------------------------
(* newComeConHandle: go createReadroutine, and for a PerCon server go      *)
(* writeDataEachConRoutine.  The connection may have been thrown out and   *)
(* closed by then.                                                         *)
Spawn(r) ==
  /\ reader[r] = "off"
  /\ SetReader(r, "read")
  /\ \/ /\ r \in Cons
        /\ \E state \in {"open", "closed"} : con' = [con EXCEPT ![r] = state]
        /\ SetWriter(r, "test")
     \/ r \in Clients /\ UNCHANGED <<con, writer>>
  /\ UNCHANGED <<packetVars, packet, left, queue, item, history>>

(* con.Read fails, at the latest once the connection is closed; the reader *)
(* closes it and ends.  UDP reads on.                                      *)
ReadError(r) ==
  /\ reader[r] = "read" /\ r \notin Endless
  /\ SetReader(r, "end")
  /\ con' = IF r \in Cons THEN [con EXCEPT ![r] = "closed"] ELSE con
  /\ UNCHANGED <<packetVars, packet, left, queue, writerVars, history>>

(* con.Read brings something.                                              *)
Read(r) ==
  /\ reader[r] = "read"
  /\ r \in Cons => con[r] = "open"
  /\ SetReader(r, "parse")
  /\ UNCHANGED <<packetVars, packet, left, queue, writerVars, con, history>>

(* Mutated form of Shares: one share, whatever the number of servers.      *)
OneShare(r) == 1

(* GetEntity(len(t.ToBroadCast), 1024)                                     *)
Shares(r) == Len(ToBroadCast[r])

(* Parser finds a packet: tocast goes on to the servers.                   *)
ParsePacket(r) ==
  /\ reader[r] = "parse"
  /\ made < MaxMade
  /\ made' = made + 1
  /\ acks' = [acks EXCEPT ![made + 1] = Shares(r)]
  /\ inUse' = inUse \cup {made + 1}
  /\ packet' = [packet EXCEPT ![r] = made + 1]
  /\ left' = [left EXCEPT ![r] = ToBroadCast[r]]
  /\ SetReader(r, "cast")
  /\ UNCHANGED <<old, queue, writerVars, con, history>>

(* Parser finds none: both entities are released at once, the loop ends.   *)
ParseNothing(r) ==
  /\ reader[r] = "parse"
  /\ SetReader(r, "read")
  /\ UNCHANGED <<packetVars, packet, left, queue, writerVars, con, history>>

(* Parser met a heartbeat, and its answer (sendBeatAck) cannot be written. *)
BeatAckFails(r) ==
  /\ reader[r] = "parse" /\ r \in Cons
  /\ con' = [con EXCEPT ![r] = "closed"]
  /\ UNCHANGED <<packetVars, readerVars, queue, writerVars, history>>

(* Mutated form of Put: at the front of the list.                          *)
PutFirst(s, m) == [queue EXCEPT ![s] = <<m>> \o @]

(* AddDataForWrite                                                         *)
Put(s, m) == [queue EXCEPT ![s] = Append(@, m)]

(* Mutated form of HasRoom: one item too many.                             *)
RoomForOneMore(s) == s \in Channels => Len(queue[s]) <= Cap

(* A send to a channel that is full waits.                                 *)
HasRoom(s) == s \in Channels => Len(queue[s]) < Cap

(* TCP calls Parser until it finds nothing more; a message is one packet.  *)
AfterCast(r) == IF r \in Messages THEN "read" ELSE "parse"

(* BroadCastData, the next server.                                         *)
BroadCast(r) ==
  LET s == Head(left[r])  m == packet[r] IN
  /\ reader[r] = "cast"
  /\ HasRoom(s)
  /\ queue' = Put(s, m)
  /\ sent' = [sent EXCEPT ![s] = Append(@, m)]
  /\ left' = [left EXCEPT ![r] = Tail(@)]
  /\ \/ Tail(left[r]) # <<>> /\ UNCHANGED <<reader, packet>>
     \/ /\ Tail(left[r]) = <<>>
        /\ packet' = [packet EXCEPT ![r] = Nil]
        /\ SetReader(r, AfterCast(r))
  /\ UNCHANGED <<packetVars, writerVars, con, wrote, putBack>>

-----------------------------------------------------------------------------
(* writeDataEachConRoutine: if con.IsClosed() break                        *)
TestClosed(g) ==
  /\ g \in Cons /\ writer[g] = "test"
  /\ SetWriter(g, IF con[g] = "closed" THEN "end" ELSE "get")
  /\ UNCHANGED <<packetVars, readerVars, queue, item, con, history>>

(* MemQueue.Get, MemQueue.SingleGet or <-w.MemQueue                        *)
Fetch(w) ==
  LET s == Serves[w] IN
  /\ writer[w] = "get"
  /\ queue[s] # <<>>
  /\ item' = [item EXCEPT ![w] = Head(queue[s])]
  /\ queue' = [queue EXCEPT ![s] = Tail(@)]
  /\ SetWriter(w, "write")
  /\ UNCHANGED <<packetVars, readerVars, con, history>>

(* Get woke up to an empty list: data == nil, continue.  SingleGet and the *)
(* channel of WS stay where they are.                                      *)
FetchNothing(g) ==
  /\ g \in Cons /\ writer[g] = "get"
  /\ queue[Serves[g]] = <<>>
  /\ SetWriter(g, "test")
  /\ UNCHANGED <<packetVars, readerVars, queue, item, con, history>>

(* Mutated form of Then: what was written is put back as well.             *)
ThenOnlyBoth(w, bl) ==
  IF bl /\ Serves[w] \notin NeedFeedBack THEN "release" ELSE "putback"

(* Mutated form of Then: nothing is put back.                              *)
ThenRelease(w, bl) == "release"

(* if bl || !t.NeedFeedBack: bl says that the item is done with.           *)
Then(w, bl) ==
  IF bl \/ Serves[w] \notin NeedFeedBack THEN "release" ELSE "putback"

(* A packet that waited too long counts as written.                        *)
SkipOld(w) ==
  /\ writer[w] = "write"
  /\ item[w] \in old
  /\ SetWriter(w, Then(w, TRUE))
  /\ UNCHANGED <<packetVars, readerVars, queue, item, con, history>>

(* The write succeeds, which takes a connection that is not closed.        *)
WriteWorks(w) ==
  /\ writer[w] = "write"
  /\ item[w] \notin old
  /\ w \in Cons => con[w] = "open"
  /\ wrote' = [wrote EXCEPT ![w] = Append(@, item[w])]
  /\ SetWriter(w, Then(w, TRUE))
  /\ UNCHANGED <<packetVars, readerVars, queue, item, con, sent, putBack>>

(* writeDatatoCon: con.Write fails, the connection is closed.              *)
WriteFails(g) ==
  /\ g \in Cons /\ writer[g] = "write"
  /\ item[g] \notin old
  /\ con' = [con EXCEPT ![g] = "closed"]
  /\ SetWriter(g, Then(g, FALSE))
  /\ UNCHANGED <<packetVars, readerVars, queue, item, history>>

(* writeData and createWriteConroutine: nobody there, a closed connection, *)
(* or a write that fails.                                                  *)
NobodyReached(w) ==
  /\ w \in Pool /\ writer[w] = "write"
  /\ item[w] \notin old
  /\ SetWriter(w, Then(w, FALSE))
  /\ UNCHANGED <<packetVars, readerVars, queue, item, con, history>>

(* After its item a writer goes on; the one of a connection ends when the  *)
(* write failed, and looks at the connection otherwise.                    *)
After(w) == IF w \in Cons THEN "test" ELSE "get"

(* ReleaseOnece.  A writer whose write failed (only without NeedFeedBack)  *)
(* leaves its loop here; closing has made its next look end it as well.    *)
ReleaseOnece(w) ==
  LET m == item[w] IN
  /\ writer[w] = "release"
  /\ acks' = [acks EXCEPT ![m] = @ - 1]
  /\ inUse' = IF acks[m] = 1 THEN inUse \ {m} ELSE inUse
  /\ item' = [item EXCEPT ![w] = Nil]
  /\ SetWriter(w, After(w))
  /\ UNCHANGED <<made, old, readerVars, queue, con, history>>

(* AddDataForWrite again; after a failed write the writer of a connection  *)
(* ends.                                                                   *)
PutItBack(w) ==
  LET s == Serves[w]  m == item[w] IN
  /\ writer[w] = "putback"
  /\ queue' = Put(s, m)
  /\ putBack' = putBack \cup {m}
  /\ item' = [item EXCEPT ![w] = Nil]
  /\ SetWriter(w, IF w \in Cons THEN "end" ELSE "get")
  /\ UNCHANGED <<packetVars, readerVars, con, wrote, sent>>

-----------------------------------------------------------------------------
(* TimeOutSec passes since CreateUnixSec.                                  *)
Expire(m) ==
  /\ m \in inUse \ old
  /\ old' = old \cup {m}
  /\ UNCHANGED <<made, acks, inUse, readerVars, queue, writerVars, con, history>>

ReaderStep(r) ==
  \/ Spawn(r) \/ ReadError(r) \/ Read(r)
  \/ ParsePacket(r) \/ ParseNothing(r) \/ BeatAckFails(r) \/ BroadCast(r)

WriterStep(w) ==
  \/ TestClosed(w) \/ Fetch(w) \/ FetchNothing(w)
  \/ SkipOld(w) \/ WriteWorks(w) \/ WriteFails(w) \/ NobodyReached(w)
  \/ ReleaseOnece(w) \/ PutItBack(w)

Next ==
  \/ \E r \in Readers : ReaderStep(r)
  \/ \E w \in Writers : WriterStep(w)
  \/ \E m \in Packets : Expire(m)

Spec == Init /\ [][Next]_vars

-----------------------------------------------------------------------------
(* Type invariant; AckTimes is an int32, that it is not negative follows   *)
(* from SharesMatch.                                                       *)
TypeOK ==
  /\ made \in 0 .. MaxMade
  /\ acks \in [Packets -> Int]
  /\ inUse \subseteq Packets /\ old \subseteq Packets
  /\ reader \in [Readers -> {"off", "read", "parse", "cast", "end"}]
  /\ packet \in [Readers -> Packets \cup {Nil}]
  /\ left \in [Readers -> Seq(Servers)]
  /\ queue \in [Servers -> Seq(Packets)]
  /\ \A s \in Channels : Len(queue[s]) <= Cap
  /\ writer \in [Writers -> {"off", "test", "get", "write", "release", "putback", "end"}]
  /\ item \in [Writers -> Packets \cup {Nil}]
  /\ con \in [Cons -> {"none", "open", "closed"}]
  /\ wrote \in [Writers -> Seq(Packets)]
  /\ sent \in [Servers -> Seq(Packets)]
  /\ putBack \subseteq Packets

(* The places that stand for a share of packet m: a server that has still  *)
(* to get it, an entry of a queue, a writer's hands.                       *)
Unvisited(m) ==
  UNION {{<<"left", r, i>> : i \in DOMAIN left[r]} : r \in {r \in Readers : packet[r] = m}}

Queued(m) ==
  UNION {{<<"queue", s, i>> : i \in {i \in DOMAIN queue[s] : queue[s][i] = m}} : s \in Servers}

InHands(m) == {<<"writer", w, 1>> : w \in {w \in Writers : item[w] = m}}

Places(m) == Unvisited(m) \cup Queued(m) \cup InHands(m)

(* Every share of an entity is given back exactly once: AckTimes is the    *)
(* number of places where somebody still has the packet, so its memory is  *)
(* neither given back under one of them nor kept when all are done,        *)
(* whichever way each writer took (written, too old, dropped, put back).   *)
SharesMatch ==
  \A m \in Packets : acks[m] = Cardinality(Places(m)) /\ (m \in inUse <=> Places(m) # {})

(* A server writes a packet to one connection, and not again after it was  *)
(* put back.                                                               *)
WrittenOnce ==
  \A v, w \in Writers : Serves[v] = Serves[w] =>
    \A i \in DOMAIN wrote[v], j \in DOMAIN wrote[w] :
      wrote[v][i] = wrote[w][j] => v = w /\ i = j

(* A server with NeedFeedBack loses nothing: what was handed to it is in   *)
(* its queue, with one of its writers, written, or older than TimeOutSec.  *)
NothingLost ==
  \A s \in NeedFeedBack : \A m \in Range(sent[s]) \ old :
    \/ m \in Range(queue[s])
    \/ \E w \in Writers : Serves[w] = s /\ (item[w] = m \/ m \in Range(wrote[w]))

(* A connection of GATEWAY is written the packets in the order in which    *)
(* they were handed to GATEWAY, except for those that were put back.       *)
InOrder ==
  \A g \in Cons : \A i, j \in DOMAIN wrote[g] :
    i < j /\ wrote[g][j] \notin putBack =>
      \E k, l \in DOMAIN sent[Serves[g]] :
        k < l /\ sent[Serves[g]][k] = wrote[g][i] /\ sent[Serves[g]][l] = wrote[g][j]
=============================================================================
